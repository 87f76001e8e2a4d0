----------------------------- MODULE HookOrder -----------------------------
(***************************************************************************)
(* What a hooked function promises its callers, without trampolines: the   *)
(* detours of a target run in a fixed order, the latest first, and then    *)
(* the original code runs.  Attaching puts a detour in front; detaching    *)
(* takes one out from wherever it stands and disturbs no other.  The       *)
(* library changes the order only while it commits.                        *)
(***************************************************************************)
CONSTANTS Targets, Hooks, Foreign, Original

VARIABLES
  runs,       \* what a call of each target runs: detours, and the original code
  before,     \* which of it runs before which: pairs, the earlier one first
  committing

vars == <<runs, before, committing>>

InFront(t, d) ==
  /\ \A u \in Targets : d \notin runs[u]
  /\ runs' = [runs EXCEPT ![t] = {d} \cup @]
  /\ before' = [before EXCEPT ![t] = ({d} \X runs[t]) \cup @]

TakeOut(d) ==
  /\ \E t \in Targets : d \in runs[t]
  /\ runs' = [t \in Targets |-> runs[t] \ {d}]
  /\ before' = [t \in Targets |-> {p \in before[t] : d \notin {p[1], p[2]}}]

Init ==
  /\ runs = [t \in Targets |-> {Original}]
  /\ before = [t \in Targets |-> {}]
  /\ committing = FALSE

Start == ~committing /\ committing' = TRUE /\ UNCHANGED <<runs, before>>

Finish == committing /\ committing' = FALSE /\ UNCHANGED <<runs, before>>

Attach(t, h) == committing /\ InFront(t, h) /\ UNCHANGED committing

Detach(h) == committing /\ TakeOut(h) /\ UNCHANGED committing

ForeignHook(t, f) == ~committing /\ InFront(t, f) /\ UNCHANGED committing

ForeignUnhook(f) == ~committing /\ TakeOut(f) /\ UNCHANGED committing

Next ==
  \/ Start \/ Finish
  \/ \E t \in Targets, h \in Hooks : Attach(t, h)
  \/ \E h \in Hooks : Detach(h)
  \/ \E t \in Targets, f \in Foreign : ForeignHook(t, f)
  \/ \E f \in Foreign : ForeignUnhook(f)

Spec == Init /\ [][Next]_vars
=============================================================================
