------------------------ MODULE TrampolineRegionsInv ------------------------
(***************************************************************************)
(* The inductive invariant of TrampolineRegions.                           *)
(***************************************************************************)
EXTENDS TrampolineRegions

\* Only trampolines that were once in the stock of a region are in use, and what a
\* transaction attached or is about to free is in use.
UseInv ==
  /\ \A s \in Trampolines : Used(s) => s \in ToSet(Stock(RegionOf(s)))
  /\ \A s \in doomed : Used(s)
  /\ phase = "open" => \A s \in added \cup removed : Used(s)

\* Between transactions nothing is left to do, and during one all regions are
\* writable.
PhaseInv ==
  /\ phase # "closing" => doomed = {} /\ ~freed
  /\ phase = "idle" => added = {} /\ removed = {}
  /\ phase # "idle" => writable = Listed

\* With pbRemain as in rem, it tells which trampolines are in use: it leads to the
\* target, or, of those that are free, nowhere out of the region.
LeadsRight(rem) ==
  \A s \in Trampolines :
    IF Used(s) THEN rem[s] = serves[s].target
    ELSE rem[s] = Null \/ RegionOf(rem[s]) = RegionOf(s)

\* A trampoline that is hooked over stays in use for as long as the hook over it, and
\* its own target is a function.
HookedOverInv ==
  \A u \in Trampolines :
    Used(u) /\ serves[u].target \in Trampolines /\ u \notin doomed =>
      LET t == serves[u].target IN
        /\ Used(t)
        /\ serves[t].target \notin Trampolines
        /\ t \notin doomed
        /\ phase = "open" => t \notin added

\* Stock and use of every region agree, and what the transaction at hand is to free
\* is in use, so that nothing is put on a free list twice.
IInv ==
  TypeOK /\ FreeListsExact /\ InReach /\ UseInv /\ PhaseInv /\ LeadsRight(pbRemain) /\ HookedOverInv
=============================================================================
