---------------------------- MODULE ThreadUpdate ----------------------------
(***************************************************************************)
(* Threads that are stopped while the code they run is rewritten, and are  *)
(* sent on to the place that takes its part (detour_thread_update).  One   *)
(* target is attached and detached again and again while threads call it.  *)
(*                                                                         *)
(* Places in the target and in rbCode count instructions of the target,    *)
(* from 0.  A moved instruction may consist of several machine             *)
(* instructions, and so may the jumps that are written; a thread may stop  *)
(* between any two of them.  Place n of the patched target is the nth      *)
(* machine instruction of the jump.                                        *)
(***************************************************************************)
EXTENDS Integers, Sequences, FiniteSetsExt

CONSTANTS
  Threads,
  Length,    \* instructions of the target
  Parts,     \* into how many machine instructions each moved one turns
  Calls,     \* the instructions that are calls
  JumpParts, \* machine instructions of the jump at the target
  TailParts, \* machine instructions of the jump to pbRemain
  CodeIn,    \* whether the jump at the target leads to rbCodeIn
  AlignSize, \* ARRAYSIZE(rAlign)
  Null

\* The instructions Attach moves to make room for the jump.
Moved == Len(Parts)

ASSUME UpdateAssumption ==
  /\ Parts \in Seq(Nat \ {0})
  /\ Length \in Nat
  /\ JumpParts \in 1..Moved
  /\ TailParts \in Nat \ {0}
  /\ AlignSize \in Nat
  /\ Moved \in 1..AlignSize
  /\ Moved < Length
  /\ Calls \subseteq 0..Length - 1
  /\ CodeIn \in BOOLEAN

VARIABLES
  attached,  \* whether the jump is in place and the trampoline in use
  pc,        \* where each thread is
  ret,       \* where the function that it calls returns to
  done,      \* instructions of the target it has done since it entered it
  part       \* machine instructions it has done of the present one

vars == <<attached, pc, ret, done, part>>

Target(n) == [in |-> "target", n |-> n, part |-> 0]
Code(n, k) == [in |-> "rbCode", n |-> n, part |-> k]
Outside(where) == [in |-> where, n |-> 0, part |-> 0]

Patched(p) == p.in = "target" /\ attached /\ p.n < Moved

Init ==
  /\ attached = FALSE
  /\ pc = [t \in Threads |-> Outside("caller")]
  /\ ret = [t \in Threads |-> Null]
  /\ done = [t \in Threads |-> 0]
  /\ part = [t \in Threads |-> 0]

Goto(t, p) == pc' = [pc EXCEPT ![t] = p]

Did(t, d, k) ==
  /\ done' = [done EXCEPT ![t] = d]
  /\ part' = [part EXCEPT ![t] = k]

-----------------------------------------------------------------------------

Call(t) ==
  /\ pc[t].in = "caller"
  /\ Goto(t, Target(0))
  /\ Did(t, 0, 0)
  /\ UNCHANGED <<attached, ret>>

\* The instruction n is done; a call comes back to what follows.
Finish(t, n, follows) ==
  /\ Did(t, done[t] + 1, 0)
  /\ IF n \in Calls
     THEN Goto(t, Outside("callee")) /\ ret' = [ret EXCEPT ![t] = follows]
     ELSE Goto(t, follows) /\ UNCHANGED ret

StepTarget(t) ==
  /\ pc[t].in = "target"
  /\ ~Patched(pc[t])
  /\ LET n == pc[t].n IN
       Finish(t, n, IF n + 1 = Length THEN Outside("caller") ELSE Target(n + 1))
  /\ UNCHANGED attached

StepJump(t) ==
  /\ Patched(pc[t])
  /\ LET k == pc[t].n + 1 IN
       IF k < JumpParts
       THEN Goto(t, Target(k)) /\ Did(t, 0, k)
       ELSE Goto(t, Outside(IF CodeIn THEN "rbCodeIn" ELSE "detour")) /\ Did(t, 0, 0)
  /\ UNCHANGED <<attached, ret>>

StepCodeIn(t) ==
  /\ pc[t].in = "rbCodeIn"
  /\ attached
  /\ Goto(t, Outside("detour"))
  /\ UNCHANGED <<attached, ret, done, part>>

\* The detour calls the original through the pointer, or returns without.
StepDetour(t) ==
  /\ pc[t].in = "detour"
  /\ \/ Goto(t, IF attached THEN Code(0, 0) ELSE Target(0))
     \/ Goto(t, Outside("caller"))
  /\ Did(t, 0, 0)
  /\ UNCHANGED <<attached, ret>>

StepMoved(t) ==
  /\ pc[t].in = "rbCode"
  /\ attached
  /\ pc[t].n < Moved
  /\ LET n == pc[t].n
         k == pc[t].part + 1
     IN  IF k < Parts[n + 1]
         THEN Goto(t, Code(n, k)) /\ Did(t, done[t], k) /\ UNCHANGED ret
         ELSE Finish(t, n, Code(n + 1, 0))
  /\ UNCHANGED attached

StepTail(t) ==
  /\ pc[t].in = "rbCode"
  /\ attached
  /\ pc[t].n = Moved
  /\ LET k == pc[t].part + 1 IN
       IF k < TailParts
       THEN Goto(t, Code(Moved, k)) /\ Did(t, done[t], k)
       ELSE Goto(t, Target(Moved)) /\ Did(t, done[t], 0)
  /\ UNCHANGED <<attached, ret>>

Return(t) ==
  /\ pc[t].in = "callee"
  /\ Goto(t, ret[t])
  /\ ret' = [ret EXCEPT ![t] = Null]
  /\ UNCHANGED <<attached, done, part>>

-----------------------------------------------------------------------------

\* Mutant: an entry is written before the offset in the target is advanced.
rAlignEarly ==
  [i \in 1..AlignSize |-> IF i <= Moved
                          THEN [obTarget |-> i - 1, obTrampoline |-> Code(i, 0)]
                          ELSE [obTarget |-> 0, obTrampoline |-> Code(0, 0)]]

\* What follows each moved instruction, in the target and in the trampoline;
\* unused entries are zero.
rAlign ==
  [i \in 1..AlignSize |-> IF i <= Moved
                          THEN [obTarget |-> i, obTrampoline |-> Code(i, 0)]
                          ELSE [obTarget |-> 0, obTrampoline |-> Code(0, 0)]]

\* Places that are not in the table are the start.
AlignFromTrampoline(p) ==
  LET found == {i \in DOMAIN rAlign : rAlign[i].obTrampoline = p}
  IN  IF found = {} THEN 0 ELSE rAlign[Min(found)].obTarget

AlignFromTarget(n) ==
  LET found == {i \in DOMAIN rAlign : rAlign[i].obTarget = n}
  IN  IF found = {} THEN Code(0, 0) ELSE rAlign[Min(found)].obTrampoline

\* Mutant: the thread goes on as far into the target as it was in rbCode.
SameOffset(p) == IF p.in = "rbCode" THEN [p EXCEPT !.in = "target"] ELSE p

UpdatedForRemove(p) ==
  IF p.in = "rbCode" THEN Target(AlignFromTrampoline(p))
  ELSE IF p.in = "rbCodeIn" THEN Target(0)
  ELSE p

UpdatedForAdd(p) ==
  IF p.in = "target" /\ p.n < Moved THEN AlignFromTarget(p.n) ELSE p

CommitAttach ==
  /\ ~attached
  /\ attached' = TRUE
  /\ pc' = [t \in Threads |-> UpdatedForAdd(pc[t])]
  /\ UNCHANGED <<ret, done, part>>

CommitDetach ==
  /\ attached
  /\ attached' = FALSE
  /\ pc' = [t \in Threads |-> UpdatedForRemove(pc[t])]
  /\ UNCHANGED <<ret, done, part>>

Step(t) == \/ Call(t) \/ StepTarget(t) \/ StepJump(t) \/ StepCodeIn(t)
           \/ StepDetour(t) \/ StepMoved(t) \/ StepTail(t) \/ Return(t)

Next == CommitAttach \/ CommitDetach \/ \E t \in Threads : Step(t)

Spec == Init /\ [][Next]_vars

-----------------------------------------------------------------------------

\* What a thread at place p has behind it, if it went there by itself.
Behind(p) == IF Patched(p) THEN <<0, p.n>> ELSE <<p.n, p.part>>

\* "it does not execute an invalid mixture of old and new instructions"
\* (TechWiki, Update Threads Automatically, README.md:10): wherever a commit
\* finds a thread, the thread does every instruction of the target once, in
\* order; it may begin the present one again.  It is never left in a trampoline
\* that was freed.
NoMixture ==
  \A t \in Threads :
    LET p == pc[t] IN
      /\ p.in \in {"target", "rbCode"} => /\ Behind(p)[1] = done[t]
                                          /\ Behind(p)[2] \in {0, part[t]}
      /\ p.in \in {"rbCode", "rbCodeIn"} => attached
=============================================================================
