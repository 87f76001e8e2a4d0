-------------------------- MODULE TransactionOrder --------------------------
(***************************************************************************)
(* Transaction implements HookOrder: the order of the detours of a target  *)
(* is what a call of the target meets on its way to the original code.     *)
(***************************************************************************)
EXTENDS Transaction

\* Where a call goes after trampoline n: a detour calls on through its own
\* pointer, which has to lead to n's copied code; other library's and leaked
\* trampolines run their copied code themselves.
After(n) ==
  IF tramp[n].detour \in Hooks /\ ptr[tramp[n].detour] # n
  THEN Null
  ELSE tramp[n].rest

Follow == [n \in Nodes |-> After(n)]

Detours == [n \in Nodes |-> tramp[n].detour]

\* The trampolines a call that comes to x goes through: the least set with x in it
\* that following does not leave.
Met(follow, x) ==
  LET kept == {S \in SUBSET Nodes :
                 /\ x \in Nodes => x \in S
                 /\ \A m \in S : follow[m] \in Nodes => follow[m] \in S}
  IN  {n \in Nodes : \A S \in kept : n \in S}

\* What it runs: their detours, and what it comes to in the end, which is Original
\* unless the call gets lost; one that goes round in circles comes to no end.
Runs(follow, detour, x) ==
  LET met == Met(follow, x) IN
    ({detour[n] : n \in met} \ {Bypass}) \cup (({x} \cup {follow[n] : n \in met}) \ Nodes)

\* What runs before what on its way.
Before(follow, detour, x) ==
  UNION {{detour[n]} \X Runs(follow, detour, follow[n]) :
           n \in {m \in Met(follow, x) : detour[m] # Bypass}}

CallRuns == [t \in Targets |-> Runs(Follow, Detours, code[t])]

CallOrder == [t \in Targets |-> Before(Follow, Detours, code[t])]

Abstract == INSTANCE HookOrder WITH
  runs <- CallRuns, before <- CallOrder, committing <- (phase = "apply")

\* Every behaviour of the transactions, with detaches in any order and another
\* library hooking and unhooking in between, keeps the promise of HookOrder:
\* the latter detour is called before the former one (TwiceSimpleHook.c:2), and
\* an operation that is not committed has no effect.  At every moment, also
\* between the steps of a commit, a call gets through to the original code.
ImplementsHookOrder == Abstract!Spec
=============================================================================
