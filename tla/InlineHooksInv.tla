--------------------------- MODULE InlineHooksInv ---------------------------
(***************************************************************************)
(* The inductive invariant of InlineHooks: what the place in which a       *)
(* helper is says of the transaction.  It needs no discipline of the       *)
(* clients.                                                                *)
(***************************************************************************)
EXTENDS InlineHooks, TransactionInv

\* What SlimDetoursInlineHooks queues.
Queued(kind) == IF kind = "set" THEN "add" ELSE "remove"

\* In the loop the helper owns the open transaction, in which the first elements of
\* its list are queued in their order, and nothing else.
LoopInv(c) ==
  call[c].at = "loop" =>
    /\ owner = c /\ phase = "open"
    /\ call[c].hr
    /\ Len(ops) = call[c].i - 1
    /\ \A j \in 1..Len(ops) : /\ ops[j].hook = call[c].list[j]
                             /\ ops[j].kind = Queued(call[c].kind)

\* Outside it: a transaction that is open is not the helper's, unless an abort is due;
\* one that is being committed or aborted is, and a commit has operations of one kind.
RestInv(c) ==
  /\ call[c].at = "begin" =>
       /\ call[c].hr /\ (owner = c => phase = "open")
       /\ call[c].kind # "init" => call[c].i = 1
  /\ call[c].at = "abort" => owner = c /\ phase = "open" /\ ~call[c].hr
  /\ call[c].at = "return" /\ owner = c =>
       IF call[c].kind = "init" THEN phase = "open"
       ELSE phase \in IF call[c].hr THEN {"apply", "restore"} ELSE {"open", "abort"}
  /\ call[c].at = "return" /\ owner = c /\ phase = "apply" =>
       \A j \in 1..next : ops[j].kind = Queued(call[c].kind)

\* What SlimDetoursInitInlineHooks passed is found.
FoundInv(c) ==
  call[c].kind = "init" /\ call[c].hr =>
    /\ \A j \in 1..call[c].i - 1 : call[c].list[j] \in found
    /\ call[c].at = "return" => call[c].i = Len(call[c].list) + 1

CallInv(c) ==
  call[c] # Null =>
    /\ call[c] \in Calls
    /\ call[c].list \in Lists(c)
    /\ call[c].i <= Len(call[c].list) + 1
    /\ call[c].kind = "init" => call[c].at \in {"begin", "return"}
    /\ LoopInv(c) /\ RestInv(c) /\ FoundInv(c)

HelperInv ==
  /\ call \in [Clients -> Calls \cup {Null}]
  /\ found \subseteq Hooks
  /\ ready \subseteq found
  /\ \A c \in Clients : CallInv(c)
=============================================================================
