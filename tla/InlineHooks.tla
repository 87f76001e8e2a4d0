---------------------------- MODULE InlineHooks ----------------------------
(***************************************************************************)
(* The helpers over transactions (InlineHook.c): SlimDetoursInlineHook and *)
(* SlimDetoursInlineHooks run a transaction each, and                      *)
(* SlimDetoursInitInlineHooks finds the functions to be hooked.  Clients   *)
(* call the helpers and also run transactions of their own, in which they  *)
(* may call the helpers.  The steps of the transaction are those of        *)
(* Transaction; other hooking libraries are left to that module.           *)
(***************************************************************************)
EXTENDS Transaction, FiniteSets

CONSTANT HooksOf  \* [Clients -> SUBSET Hooks], the hooks that are a client's

\* pHooks: some hooks of the client, each once.
Lists(c) ==
  {l \in UNION {[1..n -> HooksOf[c]] : n \in 1..MaxOps} :
     Cardinality({l[i] : i \in DOMAIN l}) = Len(l)}

\* A helper that runs: hr is the HRESULT so far, i the element of pHooks that is next.
Calls ==
  [kind : {"set", "unset", "init"}, list : UNION {Lists(c) : c \in Clients},
   i : 1..MaxOps + 1, hr : BOOLEAN, at : {"begin", "loop", "abort", "return"}]

\* The same call, as AtomicHooks sees it.
AtomicCalls == [enable : BOOLEAN, hooks : SUBSET Hooks, result : {"none", "success", "failure"}]

ASSUME InlineHooksAssumption ==
  /\ HooksOf \in [Clients -> SUBSET Hooks]
  /\ Null \notin Calls \cup AtomicCalls

VARIABLES
  call,   \* for each client, the helper it is in
  found,  \* hooks whose pointers are initialized: *ppPointer is a function
  ready   \* hooks that a client was told are initialized

helperVars == <<vars, call, found, ready>>

Running(kind, list) == [kind |-> kind, list |-> list, i |-> 1, hr |-> TRUE, at |-> "begin"]

At(c, place) == call[c] # Null /\ call[c].at = place

Goes(c, place) == call' = [call EXCEPT ![c].at = place]
Fails(c, place) == call' = [call EXCEPT ![c].at = place, ![c].hr = FALSE]

\* In no call, of a helper, SlimDetoursTransactionCommit or ...Abort.
Free(c) == call[c] = Null /\ (owner = c => phase = "open")

InList(l) == {l[i] : i \in DOMAIN l}

HelperInit ==
  /\ Init
  /\ call = [c \in Clients |-> Null]
  /\ found = {}
  /\ ready = {}

-----------------------------------------------------------------------------
\* Who calls SlimDetoursInlineHooks has initialized the hooks, sets those that are
\* not set, one for each target, and unsets those that are set.
MayCall(c, enable, l) ==
  /\ InList(l) \subseteq ready
  /\ \A h \in InList(l) : ptr[h] \in Slots <=> ~enable
  /\ enable => \A g, h \in InList(l) : g # h => TargetOf[g] # TargetOf[h]

\* SlimDetoursInlineHook is the same for one hook.
CallInlineHooks(c) ==
  /\ Free(c)
  /\ \E enable \in BOOLEAN, l \in Lists(c) :
       /\ MayCall(c, enable, l)
       /\ call' = [call EXCEPT ![c] = Running(IF enable THEN "set" ELSE "unset", l)]
  /\ UNCHANGED <<vars, found, ready>>

\* Mutant: the transaction that is in the way is aborted.
HelperBeginElseAbort(c) ==
  /\ At(c, "begin")
  /\ call[c].kind # "init"
  /\ \/ Begin(c) /\ Goes(c, "loop")
     \/ Fails(c, IF owner = c THEN "abort" ELSE "return") /\ UNCHANGED vars
  /\ UNCHANGED <<found, ready>>

\* Begin fails while another transaction is open, also one of this client, and when
\* the threads cannot be suspended.
HelperBegin(c) ==
  /\ At(c, "begin")
  /\ call[c].kind # "init"
  /\ \/ Begin(c) /\ Goes(c, "loop")
     \/ Fails(c, "return") /\ UNCHANGED vars
  /\ UNCHANGED <<found, ready>>

\* Mutant: what was queued before the failure is committed.
HelperOperationElseCommit(c) ==
  /\ At(c, "loop")
  /\ call[c].i <= Len(call[c].list)
  /\ LET h == call[c].list[call[c].i] IN
       \/ /\ IF call[c].kind = "set" THEN Attach(c, h) ELSE Detach(c, h)
          /\ call' = [call EXCEPT ![c].i = @ + 1]
       \/ /\ call' = [call EXCEPT ![c].i = Len(call[c].list) + 1, ![c].hr = FALSE]
          /\ UNCHANGED vars
  /\ UNCHANGED <<found, ready>>

\* SlimDetoursAttach or SlimDetoursDetach of the next hook; each may fail.
HelperOperation(c) ==
  /\ At(c, "loop")
  /\ call[c].i <= Len(call[c].list)
  /\ LET h == call[c].list[call[c].i] IN
       \/ /\ IF call[c].kind = "set" THEN Attach(c, h) ELSE Detach(c, h)
          /\ call' = [call EXCEPT ![c].i = @ + 1]
       \/ Fails(c, "abort") /\ UNCHANGED vars
  /\ UNCHANGED <<found, ready>>

\* Mutant: the transaction stays open after a failure.
HelperAbortForgotten(c) ==
  /\ At(c, "abort")
  /\ Goes(c, "return")
  /\ UNCHANGED <<vars, found, ready>>

HelperAbort(c) ==
  /\ At(c, "abort")
  /\ Abort(c)
  /\ Goes(c, "return")
  /\ UNCHANGED <<found, ready>>

HelperCommit(c) ==
  /\ At(c, "loop")
  /\ call[c].i > Len(call[c].list)
  /\ Commit(c)
  /\ Goes(c, "return")
  /\ UNCHANGED <<found, ready>>

HelperReturn(c) ==
  /\ At(c, "return")
  /\ owner = c => phase = "open"
  /\ call' = [call EXCEPT ![c] = Null]
  /\ ready' = IF call[c].kind = "init" /\ call[c].hr THEN ready \cup InList(call[c].list)
                                                     ELSE ready
  /\ UNCHANGED <<vars, found>>

-----------------------------------------------------------------------------
\* SlimDetoursInitInlineHooks, for hooks that are not set.
CallInitInlineHooks(c) ==
  /\ Free(c)
  /\ \E l \in Lists(c) :
       /\ \A h \in InList(l) : ptr[h] = Original
       /\ call' = [call EXCEPT ![c] = Running("init", l)]
  /\ UNCHANGED <<vars, found, ready>>

\* Mutant: what was not found is passed over.
HelperFindOrPass(c) ==
  /\ At(c, "begin")
  /\ call[c].kind = "init"
  /\ IF call[c].i > Len(call[c].list) THEN Goes(c, "return") /\ UNCHANGED found
     ELSE /\ found' \in {found, found \cup {call[c].list[call[c].i]}}
          /\ call' = [call EXCEPT ![c].i = @ + 1]
  /\ UNCHANGED <<vars, ready>>

\* LdrGetProcedureAddress of one hook after the other, until one is not there.
HelperFind(c) ==
  /\ At(c, "begin")
  /\ call[c].kind = "init"
  /\ IF call[c].i > Len(call[c].list) THEN Goes(c, "return") /\ UNCHANGED found
     ELSE \/ /\ found' = found \cup {call[c].list[call[c].i]}
             /\ call' = [call EXCEPT ![c].i = @ + 1]
          \/ Fails(c, "return") /\ UNCHANGED found
  /\ UNCHANGED <<vars, ready>>

-----------------------------------------------------------------------------
\* A client's own transaction, on its own hooks.
DirectStep(c) ==
  /\ Free(c)
  /\ \/ Begin(c) \/ Commit(c) \/ Abort(c)
     \/ \E h \in HooksOf[c] \cap ready : Attach(c, h) \/ Detach(c, h)
  /\ UNCHANGED <<call, found, ready>>

\* A commit or an abort goes on.
TransactionStep == Internal /\ UNCHANGED <<call, found, ready>>

HelperStep(c) ==
  HelperBegin(c) \/ HelperOperation(c) \/ HelperAbort(c) \/ HelperCommit(c)
    \/ HelperReturn(c) \/ HelperFind(c)

HelperNext ==
  \/ \E c \in Clients : CallInlineHooks(c) \/ CallInitInlineHooks(c) \/ HelperStep(c)
                          \/ DirectStep(c)
  \/ TransactionStep

\* A helper that was called goes on, and so does a commit or an abort: neither waits
\* for anybody, a thread that is suspended excepted; see README.
HelperSpec ==
  /\ HelperInit /\ [][HelperNext]_helperVars
  /\ \A c \in Clients : WF_helperVars(HelperStep(c))
  /\ WF_helperVars(TransactionStep)

-----------------------------------------------------------------------------
\* The transaction that is open is the one that c's helper began.
Opened(c) ==
  /\ call[c] # Null
  /\ owner = c
  /\ \/ call[c].at \in {"loop", "abort"}
     \/ call[c].at = "return" /\ phase # "open"

\* The hooks that are set when the commit that runs is over.
Attached ==
  LET left(kind) == IF phase = "apply" THEN {ops[i].hook : i \in {j \in 1..next : ops[j].kind = kind}}
                                       ELSE {}
  IN  ({h \in Hooks : ptr[h] \in Slots} \cup left("add")) \ left("remove")

\* In SlimDetoursInlineHooks.
Setting(c) == call[c] # Null /\ call[c].kind # "init"

Result(c) ==
  IF ~call[c].hr THEN "failure" ELSE IF call[c].at = "return" THEN "success" ELSE "none"

Asked ==
  [c \in Clients |->
     IF Setting(c) THEN [enable |-> call[c].kind = "set", hooks |-> InList(call[c].list),
                         result |-> Result(c)]
                   ELSE Null]

\* The client whose own transaction is open.
Direct == IF owner # Null /\ ~Opened(owner) THEN owner ELSE Null

Atomic == INSTANCE AtomicHooks WITH
  None <- Null, attached <- Attached, asked <- Asked, direct <- Direct

\* Whoever was told that hooks are initialized has pointers to functions in all of
\* them: SlimDetoursInitInlineHooks, that leaves some of them initialized when it
\* fails, reports it (InlineHook.c:53-64).
HelperTypeOK ==
  /\ \A c \in Clients : call[c] # Null => call[c] \in Calls
  /\ found \subseteq Hooks
  /\ ready \subseteq found

\* SlimDetoursInlineHooks sets or unsets all its hooks or none, even if one of several
\* operations fails and whatever others do at the same time; it returns success only
\* when all are done, leaves no transaction open, and it does return.
ImplementsAtomicHooks == Atomic!Spec

\* A helper called inside a transaction fails, and leaves the transaction as it is:
\* what the client queued is still queued (InlineHook.c:19-22).
OuterTransactionKept ==
  [][\A c \in Clients :
       Setting(c) /\ owner = c /\ ~Opened(c) =>
         /\ UNCHANGED <<owner, phase, ops, tramp, perm>>
         /\ IF Setting(c)' THEN ~Opened(c)' ELSE ~call[c].hr]_helperVars
=============================================================================
