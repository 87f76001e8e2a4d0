------------------------ MODULE MCTrampolineRegions ------------------------
(***************************************************************************)
(* TrampolineRegions with two places of five units, and so two trampolines *)
(* per region: 8 and 9, and 18 and 19.  The function is at 10, between     *)
(* them.  The bounds of the narrow request admit only the first trampoline *)
(* of the upper place and the last of the lower one, so that a new region  *)
(* at the lower place fails the sanity check.  The last request hooks the  *)
(* function through the trampoline at 18.                                  *)
(***************************************************************************)
EXTENDS TrampolineRegionsInv

MCRequests ==
  {[target |-> 10, lo |-> 0, hi |-> 30, ec |-> FALSE],
   [target |-> 10, lo |-> 9, hi |-> 18, ec |-> FALSE],
   [target |-> 10, lo |-> 0, hi |-> 30, ec |-> TRUE],
   [target |-> 18, lo |-> 0, hi |-> 30, ec |-> FALSE]}
=============================================================================
