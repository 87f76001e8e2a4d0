---------------------------- MODULE AtomicHooks ----------------------------
(***************************************************************************)
(* What SlimDetoursInlineHooks promises (SlimDetours.h:134-155), without   *)
(* transactions: a call sets or unsets all the hooks it is given, at one   *)
(* moment before it returns, or fails and changes nothing.  Hooks are also *)
(* set by clients who run transactions of their own.                       *)
(***************************************************************************)
CONSTANTS Clients, Hooks, None

VARIABLES
  attached,  \* the hooks that are set
  asked,     \* for each client, the call it is in: see Call
  direct     \* the client in a transaction of its own

vars == <<attached, asked, direct>>

Init ==
  /\ attached = {}
  /\ asked = [c \in Clients |-> None]
  /\ direct = None

Call(c) ==
  /\ asked[c] = None
  /\ \E enable \in BOOLEAN, hooks \in SUBSET Hooks :
       asked' = [asked EXCEPT ![c] = [enable |-> enable, hooks |-> hooks, result |-> "none"]]
  /\ UNCHANGED <<attached, direct>>

Becomes(c, result) ==
  /\ asked[c] # None
  /\ asked[c].result = "none"
  /\ asked' = [asked EXCEPT ![c].result = result]

Succeed(c) ==
  /\ Becomes(c, "success")
  /\ direct = None
  /\ attached' = IF asked[c].enable THEN attached \cup asked[c].hooks
                                    ELSE attached \ asked[c].hooks
  /\ UNCHANGED direct

Fail(c) ==
  /\ Becomes(c, "failure")
  /\ UNCHANGED <<attached, direct>>

Return(c) ==
  /\ asked[c] # None
  /\ asked[c].result # "none"
  /\ asked' = [asked EXCEPT ![c] = None]
  /\ UNCHANGED <<attached, direct>>

\* A transaction of a client's own begins, ends, and takes effect in between.
Open(c) ==
  /\ direct = None /\ asked[c] = None
  /\ direct' = c
  /\ UNCHANGED <<attached, asked>>

Close ==
  /\ direct # None
  /\ asked[direct] = None
  /\ direct' = None
  /\ UNCHANGED <<attached, asked>>

Change ==
  /\ direct # None
  /\ asked[direct] = None
  /\ attached' \in SUBSET Hooks
  /\ UNCHANGED <<asked, direct>>

Working(c) == Succeed(c) \/ Fail(c) \/ Return(c)

Next ==
  \/ \E c \in Clients : Call(c) \/ Working(c) \/ Open(c)
  \/ Close \/ Change

\* A call that was made returns.
Spec == Init /\ [][Next]_vars /\ \A c \in Clients : WF_vars(Working(c))
=============================================================================
