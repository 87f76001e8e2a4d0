------------------------- MODULE InlineHooksProofs -------------------------
(***************************************************************************)
(* Proofs about Transaction, for every number of clients, targets, hooks,  *)
(* trampolines and operations, and then about InlineHooks, which extends   *)
(* it, for any lists of hooks.                                             *)
(***************************************************************************)
EXTENDS InlineHooksInv, TransactionOrder, SequenceTheorems, TLAPS

-----------------------------------------------------------------------------
(* Types.  These facts need no discipline of the clients.                  *)

LEMMA TypeInit == Init => TypeInv
  BY TransactionAssumption
  DEF Init, TypeInv, TypeOK, FieldInv, LiveInv, PhaseInv, Live, Zeroed, Trampoline, Phases, Operation, Nodes

\* The three ways the list of operations changes.
LEMMA AppendFacts ==
  ASSUME NEW S, NEW s \in Seq(S), NEW e \in S
  PROVE  /\ Append(s, e) \in Seq(S)
         /\ Len(Append(s, e)) = Len(s) + 1
         /\ DOMAIN Append(s, e) = 1..Len(s) + 1
         /\ \A i \in DOMAIN s : Append(s, e)[i] = s[i]
         /\ Append(s, e)[Len(s) + 1] = e
<1>1. DOMAIN s = 1..Len(s)
  BY LenProperties
<1>2. Append(s, e) \in Seq(S) /\ Len(Append(s, e)) = Len(s) + 1
  BY AppendProperties
<1>3. DOMAIN Append(s, e) = 1..Len(Append(s, e))
  BY <1>2, LenProperties
<1> QED BY <1>1, <1>2, <1>3, AppendProperties

LEMMA FrontFacts ==
  ASSUME NEW S, NEW s \in Seq(S), s # << >>
  PROVE  /\ Len(s) \in DOMAIN s
         /\ DOMAIN s = 1..Len(s)
         /\ SubSeq(s, 1, Len(s) - 1) \in Seq(S)
         /\ Len(SubSeq(s, 1, Len(s) - 1)) = Len(s) - 1
         /\ DOMAIN SubSeq(s, 1, Len(s) - 1) = 1..Len(s) - 1
         /\ \A i \in 1..Len(s) - 1 : SubSeq(s, 1, Len(s) - 1)[i] = s[i]
<1>1. DOMAIN s = 1..Len(s) /\ Len(s) \in Nat \ {0}
  BY LenProperties, EmptySeq
<1>2. \A i \in 1..Len(s) - 1 : s[i] \in S
  BY <1>1, ElementOfSeq
<1>3. /\ SubSeq(s, 1, Len(s) - 1) \in Seq(S)
      /\ Len(SubSeq(s, 1, Len(s) - 1)) = IF 1 <= Len(s) - 1 THEN Len(s) - 1 - 1 + 1 ELSE 0
      /\ \A i \in 1..Len(s) - 1 - 1 + 1 : SubSeq(s, 1, Len(s) - 1)[i] = s[1 + i - 1]
  BY <1>1, <1>2, SubSeqProperties
<1>4. DOMAIN SubSeq(s, 1, Len(s) - 1) = 1..Len(SubSeq(s, 1, Len(s) - 1))
  BY <1>3, LenProperties
<1> QED BY <1>1, <1>3, <1>4

LEMMA LeakFacts ==
  ASSUME ops \in Seq(Operation), NEW k \in DOMAIN ops
  PROVE  LET leaked == [ops EXCEPT ![k].kind = "none"] IN
           /\ leaked \in Seq(Operation)
           /\ Len(leaked) = Len(ops)
           /\ DOMAIN leaked = DOMAIN ops
           /\ leaked[k].kind = "none"
           /\ \A i \in DOMAIN ops : /\ leaked[i].slot = ops[i].slot
                                   /\ leaked[i].hook = ops[i].hook
                                   /\ leaked[i].target = ops[i].target
                                   /\ leaked[i].perm = ops[i].perm
                                   /\ i # k => leaked[i] = ops[i]
<1> DEFINE e == [ops[k] EXCEPT !.kind = "none"]
<1>1. DOMAIN ops = 1..Len(ops) /\ ops[k] \in Operation
  BY LenProperties, ElementOfSeq
<1>2. e \in Operation /\ e.kind = "none" /\ e.slot = ops[k].slot /\ e.hook = ops[k].hook
      /\ e.target = ops[k].target /\ e.perm = ops[k].perm
  BY <1>1 DEF Operation
<1> HIDE DEF e
<1>3. [ops EXCEPT ![k] = e] \in Seq(Operation) /\ Len([ops EXCEPT ![k] = e]) = Len(ops)
      /\ \A i \in 1..Len(ops) : [ops EXCEPT ![k] = e][i] = IF i = k THEN e ELSE ops[i]
  BY <1>1, <1>2, ExceptSeq
<1>4. DOMAIN [ops EXCEPT ![k] = e] = DOMAIN ops
  OBVIOUS
<1>5. [ops EXCEPT ![k].kind = "none"] = [ops EXCEPT ![k] = e]
  BY DEF e
<1> QED BY <1>1, <1>2, <1>3, <1>4, <1>5

LEMMA PendFacts ==
  ASSUME TypeOK, NEW kind \in {"add", "remove"}, NEW h \in Hooks, NEW s \in Slots,
         NEW t \in Targets, Pend(kind, h, s, t)
  PROVE  /\ ops' \in Seq(Operation)
         /\ perm' \in [Pages -> Perms]
         /\ Len(ops) \in Nat
         /\ Len(ops') = Len(ops) + 1
         /\ DOMAIN ops = 1..Len(ops)
         /\ DOMAIN ops' = DOMAIN ops \cup {Len(ops) + 1}
         /\ Len(ops) + 1 \notin DOMAIN ops
         /\ \A i \in DOMAIN ops : ops'[i] = ops[i]
         /\ ops'[Len(ops) + 1].kind = kind
         /\ ops'[Len(ops) + 1].hook = h
         /\ ops'[Len(ops) + 1].slot = s
         /\ ops'[Len(ops) + 1].target = t
         /\ ops'[Len(ops) + 1].perm = perm[FirstPage[t]]
<1> DEFINE e == [kind |-> kind, hook |-> h, slot |-> s, target |-> t,
                 perm |-> perm[FirstPage[t]]]
<1>1. e \in Operation
  BY TransactionAssumption DEF TypeOK, Operation
<1>2. ops' = Append(ops, e)
  BY DEF Pend
<1>3. perm' \in [Pages -> Perms]
  BY TransactionAssumption DEF Pend, TypeOK, Protect
<1>4. ops \in Seq(Operation) /\ DOMAIN ops = 1..Len(ops) /\ Len(ops) \in Nat
  BY LenProperties DEF TypeOK
<1> HIDE DEF e
<1>5. /\ Append(ops, e) \in Seq(Operation)
      /\ Len(Append(ops, e)) = Len(ops) + 1
      /\ DOMAIN Append(ops, e) = 1..Len(ops) + 1
      /\ \A i \in DOMAIN ops : Append(ops, e)[i] = ops[i]
      /\ Append(ops, e)[Len(ops) + 1] = e
  BY <1>1, <1>4, AppendFacts
<1>6. 1..Len(ops) + 1 = DOMAIN ops \cup {Len(ops) + 1} /\ Len(ops) + 1 \notin DOMAIN ops
  BY <1>4
<1>7. /\ e.kind = kind /\ e.hook = h /\ e.slot = s /\ e.target = t
      /\ e.perm = perm[FirstPage[t]]
  BY DEF e
<1> QED BY <1>2, <1>3, <1>4, <1>5, <1>6, <1>7

\* What TypeOK says of an operation of the list.
LEMMA OperationFacts ==
  ASSUME TypeOK, NEW i \in DOMAIN ops
  PROVE  /\ ops[i] \in Operation
         /\ ops[i].kind \in {"add", "remove", "none"}
         /\ ops[i].hook \in Hooks
         /\ ops[i].slot \in Slots
         /\ ops[i].slot \in Nodes
         /\ ops[i].target \in Targets
         /\ ops[i].perm \in Perms
<1>1. ops \in Seq(Operation) /\ i \in 1..Len(ops)
  BY LenProperties DEF TypeOK
<1>2. ops[i] \in Operation
  BY <1>1, ElementOfSeq
<1> QED BY <1>2 DEF Operation, Nodes

LEMMA TypeNext == TypeInv /\ [Next]_vars => TypeInv'
<1> SUFFICES ASSUME TypeInv, [Next]_vars PROVE TypeInv'
  OBVIOUS
<1> USE TransactionAssumption
<1>1. ASSUME NEW c \in Clients, Begin(c) PROVE TypeInv'
  BY <1>1 DEF Begin, TypeInv, TypeOK, FieldInv, LiveInv, Live, PhaseInv, Phases
<1>2. ASSUME NEW c \in Clients, Commit(c) PROVE TypeInv'
  BY <1>2 DEF Commit, TypeInv, TypeOK, FieldInv, LiveInv, Live, PhaseInv, Phases
<1>3. ASSUME NEW c \in Clients, Abort(c) PROVE TypeInv'
  BY <1>3 DEF Abort, TypeInv, TypeOK, FieldInv, LiveInv, Live, PhaseInv, Phases
<1>4. ASSUME NEW c \in Clients, NEW h \in Hooks, Attach(c, h) PROVE TypeInv'
  <2>1. PICK s \in Slots :
          /\ ~Live(s)
          /\ tramp' = [tramp EXCEPT ![s] = [target |-> TargetOf[h], detour |-> h,
                                            rest |-> code[TargetOf[h]]]]
          /\ Pend("add", h, s, TargetOf[h])
    BY <1>4 DEF Attach
  <2>a. /\ ops' \in Seq(Operation) /\ perm' \in [Pages -> Perms]
        /\ Len(ops') = Len(ops) + 1 /\ Len(ops) \in Nat
        /\ DOMAIN ops' = DOMAIN ops \cup {Len(ops) + 1}
        /\ \A i \in DOMAIN ops : ops'[i] = ops[i]
        /\ ops'[Len(ops) + 1].slot = s
    <3>1. TargetOf[h] \in Targets /\ TypeOK /\ "add" \in {"add", "remove"}
      BY DEF TypeInv
    <3> QED BY <2>1, <3>1, PendFacts
  <2>2. TypeOK'
    <3>1. tramp' \in [Nodes -> Trampoline]
      BY <2>1 DEF TypeInv, TypeOK, Trampoline, Nodes
    <3>2. next = 0 /\ phase' = phase /\ UNCHANGED <<owner, next, code, ptr>>
      BY <1>4 DEF Attach, TypeInv, TypeOK
    <3> QED BY <2>a, <3>1, <3>2 DEF TypeInv, TypeOK
  <2>3. FieldInv'
    BY <2>1 DEF TypeInv, TypeOK, FieldInv, Live, Zeroed, Nodes, Trampoline
  <2>4. LiveInv'
    <3>1. \A n \in Nodes : Live(n) => Live(n)'
      BY <2>1 DEF TypeInv, TypeOK, Live
    <3>2. Live(s)'
      BY <2>1 DEF TypeInv, TypeOK, Live, Zeroed, Nodes
    <3>3. \A i \in DOMAIN ops : Live(ops[i].slot)'
      <4>1. \A i \in DOMAIN ops : ops[i].slot \in Nodes /\ Live(ops[i].slot)
        BY <1>4, OperationFacts DEF Attach, TypeInv, LiveInv
      <4> QED BY <2>a, <3>1, <4>1 DEF Live
    <3> QED BY <2>a, <3>2, <3>3 DEF LiveInv, Live
  <2>5. PhaseInv'
    BY <1>4 DEF Attach, TypeInv, PhaseInv
  <2> QED BY <2>2, <2>3, <2>4, <2>5 DEF TypeInv
<1>5. ASSUME NEW c \in Clients, NEW h \in Hooks, Detach(c, h) PROVE TypeInv'
  <2>1. tramp[ptr[h]].target \in Targets
    BY <1>5 DEF Detach, TypeInv, TypeOK, FieldInv, Trampoline, Live, Nodes
  <2>2. Pend("remove", h, ptr[h], tramp[ptr[h]].target) /\ ptr[h] \in Slots
    BY <1>5 DEF Detach
  <2>a. /\ ops' \in Seq(Operation) /\ perm' \in [Pages -> Perms]
        /\ Len(ops') = Len(ops) + 1 /\ Len(ops) \in Nat
        /\ DOMAIN ops' = DOMAIN ops \cup {Len(ops) + 1}
        /\ \A i \in DOMAIN ops : ops'[i] = ops[i]
        /\ ops'[Len(ops) + 1].slot = ptr[h]
    <3>1. PICK s \in Slots, t \in Targets : s = ptr[h] /\ t = tramp[ptr[h]].target
      BY <2>1, <2>2
    <3>2. TypeOK /\ "remove" \in {"add", "remove"} /\ Pend("remove", h, s, t)
      BY <2>2, <3>1 DEF TypeInv
    <3>3. /\ ops' \in Seq(Operation) /\ perm' \in [Pages -> Perms]
          /\ Len(ops') = Len(ops) + 1 /\ Len(ops) \in Nat
          /\ DOMAIN ops' = DOMAIN ops \cup {Len(ops) + 1}
          /\ \A i \in DOMAIN ops : ops'[i] = ops[i]
          /\ ops'[Len(ops) + 1].slot = s
      BY <3>2, PendFacts
    <3> QED BY <3>1, <3>3
  <2>3. TypeOK'
    <3>1. next = 0 /\ phase' = phase /\ UNCHANGED <<owner, next, code, tramp, ptr>>
      BY <1>5 DEF Detach, TypeInv, TypeOK
    <3> QED BY <2>a, <3>1 DEF TypeInv, TypeOK
  <2>4. FieldInv'
    BY <1>5 DEF Detach, TypeInv, FieldInv, Live
  <2>5. LiveInv'
    <3>1. Live(ptr[h]) /\ phase = "open" /\ tramp' = tramp
      BY <1>5 DEF Detach
    <3> QED BY <2>a, <3>1 DEF TypeInv, LiveInv, Live
  <2>6. PhaseInv'
    BY <1>5 DEF Detach, TypeInv, PhaseInv
  <2> QED BY <2>3, <2>4, <2>5, <2>6 DEF TypeInv
<1>6. ASSUME ApplyRemove PROVE TypeInv'
  <2> DEFINE o == ops[next]
  <2>1. next \in DOMAIN ops /\ next - 1 \in 0..Len(ops) /\ ops \in Seq(Operation)
        /\ phase = "apply" /\ next' = next - 1 /\ UNCHANGED <<owner, phase, perm>>
    BY <1>6, LenProperties DEF ApplyRemove, TypeInv, TypeOK
  <2>2. o.slot \in Nodes /\ o.target \in Targets /\ o.hook \in Hooks /\ Live(o.slot)
    BY <2>1, OperationFacts DEF TypeInv, LiveInv
  <2>3. tramp[o.slot].target # Null /\ tramp[o.slot].rest # Null
    BY <2>2 DEF TypeInv, FieldInv, Live
  <2>4. ptr' \in [Hooks -> Slots \cup {Original}]
    BY <1>6, <2>2 DEF ApplyRemove, TypeInv, TypeOK
  <2>5. CASE HookIsStillThere(o)
    <3>1. code' = [code EXCEPT ![o.target] = tramp[o.slot].rest] /\ UNCHANGED <<ops, tramp>>
      BY <1>6, <2>5 DEF ApplyRemove
    <3>2. code' \in [Targets -> Nodes \cup {Original}]
      BY <2>2, <2>3, <3>1 DEF TypeInv, TypeOK, Trampoline
    <3>3. TypeOK'
      BY <2>1, <2>4, <3>1, <3>2 DEF TypeInv, TypeOK
    <3>4. FieldInv' /\ LiveInv' /\ PhaseInv'
      BY <2>1, <3>1 DEF TypeInv, FieldInv, LiveInv, Live, PhaseInv
    <3> QED BY <3>3, <3>4 DEF TypeInv
  <2>6. CASE ~HookIsStillThere(o)
    <3>1. /\ ops' = [ops EXCEPT ![next].kind = "none"]
          /\ tramp' = [tramp EXCEPT ![o.slot].detour = Bypass]
          /\ code' = code
      BY <1>6, <2>6 DEF ApplyRemove, PutInBypass
    <3>2. ops' \in Seq(Operation) /\ Len(ops') = Len(ops) /\ DOMAIN ops' = DOMAIN ops
          /\ \A i \in DOMAIN ops : ops'[i].slot = ops[i].slot
      BY <2>1, <3>1, LeakFacts
    <3>3. tramp' \in [Nodes -> Trampoline]
      <4>1. tramp \in [Nodes -> Trampoline]
        BY DEF TypeInv, TypeOK
      <4>2. PICK n \in Nodes : n = o.slot
        BY <2>2
      <4>3. tramp' = [tramp EXCEPT ![n] = [tramp[n] EXCEPT !.detour = Bypass]]
        BY <3>1, <4>2
      <4>4. [tramp[n] EXCEPT !.detour = Bypass] \in Trampoline
        BY <4>1 DEF Trampoline
      <4> QED BY <4>1, <4>3, <4>4
    <3>4. TypeOK'
      BY <2>1, <2>4, <3>1, <3>2, <3>3 DEF TypeInv, TypeOK
    <3>5. FieldInv'
      BY <2>2, <2>3, <3>1 DEF TypeInv, TypeOK, FieldInv, Live, Zeroed, Trampoline
    <3>6. \A n \in Nodes : Live(n) => Live(n)'
      BY <2>2, <2>3, <3>1 DEF TypeInv, TypeOK, FieldInv, Live, Zeroed, Trampoline
    <3>7. LiveInv'
      BY <2>1, <3>2, <3>6, OperationFacts DEF TypeInv, LiveInv, Live
    <3>8. PhaseInv'
      BY <2>1 DEF TypeInv, PhaseInv
    <3> QED BY <3>4, <3>5, <3>7, <3>8 DEF TypeInv
  <2> QED BY <2>5, <2>6
<1>7. ASSUME ApplyAdd PROVE TypeInv'
  <2>1. next \in DOMAIN ops /\ next - 1 \in 0..Len(ops)
    BY <1>7, LenProperties DEF ApplyAdd, TypeInv, TypeOK
  <2>2. ops[next].slot \in Slots /\ ops[next].target \in Targets /\ ops[next].hook \in Hooks
    BY <2>1, OperationFacts DEF TypeInv
  <2> QED
    BY <1>7, <2>1, <2>2 DEF ApplyAdd, TypeInv, TypeOK, FieldInv, LiveInv, Live, Nodes, PhaseInv
<1>8. ASSUME EndApply PROVE TypeInv'
  BY <1>8 DEF EndApply, TypeInv, TypeOK, FieldInv, LiveInv, Live, PhaseInv, Phases
<1>9. ASSUME RestoreOne PROVE TypeInv'
  <2> DEFINE o == ops[Len(ops)]
  <2>1. Len(ops) \in DOMAIN ops /\ ops' \in Seq(Operation) /\ Len(ops') = Len(ops) - 1
        /\ Len(ops) \in Nat \ {0}
    BY <1>9, FrontFacts, EmptySeq DEF RestoreOne, TypeInv, TypeOK
  <2>2. o.slot \in Nodes /\ o.perm \in Perms
    BY <2>1, OperationFacts DEF TypeInv
  <2>3. perm' \in [Pages -> Perms]
    BY <1>9, <2>2 DEF RestoreOne, Unprotect, Protect, TypeInv, TypeOK
  <2>4. tramp' \in [Nodes -> Trampoline] /\ FieldInv'
    BY <1>9, <2>2 DEF RestoreOne, TypeInv, TypeOK, FieldInv, Live, Zeroed, Trampoline
  <2>5. next = 0 /\ phase' = phase /\ phase # "open" /\ phase # "apply"
        /\ UNCHANGED <<owner, next, code, ptr>>
    BY <1>9 DEF RestoreOne, TypeInv, TypeOK
  <2>6. TypeOK'
    BY <2>1, <2>3, <2>4, <2>5 DEF TypeInv, TypeOK
  <2>7. LiveInv'
    BY <2>5 DEF LiveInv
  <2>8. PhaseInv'
    BY <1>9, <2>5 DEF RestoreOne, TypeInv, PhaseInv
  <2> QED BY <2>4, <2>6, <2>7, <2>8 DEF TypeInv
<1>10. ASSUME Leave PROVE TypeInv'
  BY <1>10 DEF Leave, TypeInv, TypeOK, FieldInv, LiveInv, Live, PhaseInv, Phases
<1>11. ASSUME NEW f \in Foreign, NEW t \in Targets, ForeignHook(f, t) PROVE TypeInv'
  <2>1. TypeOK'
    BY <1>11 DEF ForeignHook, TypeInv, TypeOK, Trampoline, Nodes, Phases
  <2>2. FieldInv' /\ LiveInv' /\ PhaseInv'
    BY <1>11 DEF ForeignHook, TypeInv, TypeOK, FieldInv, LiveInv, PhaseInv, Live, Zeroed, Nodes, Trampoline
  <2> QED BY <2>1, <2>2 DEF TypeInv
<1>12. ASSUME NEW f \in Foreign, ForeignUnhook(f) PROVE TypeInv'
  <2>1. tramp[f].target \in Targets /\ tramp[f].rest # Null
    BY <1>12 DEF ForeignUnhook, TypeInv, TypeOK, FieldInv, Trampoline, Live, Nodes
  <2>2. TypeOK'
    BY <1>12, <2>1 DEF ForeignUnhook, TypeInv, TypeOK, Trampoline, Zeroed, Nodes, Phases
  <2>3. FieldInv' /\ LiveInv' /\ PhaseInv'
    BY <1>12, <2>1 DEF ForeignUnhook, TypeInv, TypeOK, FieldInv, LiveInv, PhaseInv, Live, Zeroed, Nodes, Trampoline
  <2> QED BY <2>2, <2>3 DEF TypeInv
<1>13. CASE UNCHANGED vars
  BY <1>13 DEF vars, TypeInv, TypeOK, FieldInv, LiveInv, PhaseInv, Live
<1> QED
  BY <1>1, <1>2, <1>3, <1>4, <1>5, <1>6, <1>7, <1>8, <1>9, <1>10, <1>11, <1>12, <1>13
  DEF Next, Internal

\* Whatever clients do, every variable keeps its type: in particular the jump
\* at a target is never overwritten with the bytes of a zeroed trampoline.
THEOREM TypeCorrect == Spec => []TypeOK
<1>1. TypeInv => TypeOK
  BY DEF TypeInv
<1> QED BY <1>1, TypeInit, TypeNext, PTL DEF Spec

-----------------------------------------------------------------------------
(* Chains.  From here on clients keep to the discipline.                   *)

Chains == OperationInv /\ DistinctInv /\ ChainInv /\ PointerInv /\ RemovedInv

LEMMA ChainsInit == Init => Chains
BY TransactionAssumption
DEF Init, Chains, OperationInv, DistinctInv, ChainInv, PointerInv, RemovedInv,
    Chained, Live, Nodes, Zeroed

\* Steps that only move the owner from one part of the transaction to the next.
LEMMA SteadyStep ==
  ASSUME Chains, UNCHANGED <<ops, code, tramp, ptr>>,
         \A i \in DOMAIN ops : Unapplied(i)' <=> Unapplied(i)
  PROVE  Chains' /\ Chained' = Chained
<1>1. \A n : Pending(n)' <=> Pending(n)
  BY DEF Pending
<1>2. \A n : Removed(n)' <=> Removed(n)
  BY DEF Removed
<1>3. Chained' = Chained
  BY <1>1, <1>2 DEF Chained, Live
<1>4. OperationInv'
  BY DEF Chains, OperationInv, Live
<1>5. DistinctInv'
  BY DEF Chains, DistinctInv
<1>6. ChainInv' /\ PointerInv'
  BY <1>3 DEF Chains, ChainInv, PointerInv
<1>7. RemovedInv'
  BY <1>3 DEF Chains, RemovedInv
<1> QED BY <1>3, <1>4, <1>5, <1>6, <1>7 DEF Chains

\* Attach fills in a free trampoline that no chain contains yet.
LEMMA AttachStep ==
  ASSUME TypeInv, Chains, Disciplined, NEW c \in Clients, NEW h \in Hooks, Attach(c, h)
  PROVE  /\ Chains' /\ Chained' = Chained
         /\ \A n \in Chained : tramp'[n] = tramp[n]
<1> USE TransactionAssumption
<1>1. PICK s \in Slots :
        /\ ~Live(s)
        /\ tramp' = [tramp EXCEPT ![s] = [target |-> TargetOf[h], detour |-> h,
                                          rest |-> code[TargetOf[h]]]]
        /\ Pend("add", h, s, TargetOf[h])
  BY DEF Attach
<1>k. PICK k : k = Len(ops) + 1
  OBVIOUS
<1> DEFINE t == TargetOf[h]
<1>2. /\ DOMAIN ops' = DOMAIN ops \cup {k} /\ k \notin DOMAIN ops
      /\ \A i \in DOMAIN ops : ops'[i] = ops[i]
      /\ ops'[k].kind = "add" /\ ops'[k].hook = h /\ ops'[k].slot = s /\ ops'[k].target = t
  <2>1. TargetOf[h] \in Targets /\ TypeOK /\ "add" \in {"add", "remove"}
    BY DEF TypeInv
  <2> QED BY <1>1, <1>k, <2>1, PendFacts
<1>3. /\ phase = "open" /\ phase' = "open" /\ code' = code /\ ptr' = ptr
      /\ ptr[h] = Original /\ \A i \in DOMAIN ops : ops[i].target # t
  BY DEF Attach, MayAttach
<1>4. \A i : Unapplied(i) /\ Unapplied(i)'
  BY <1>3 DEF Unapplied
<1>5. /\ tramp'[s].target = t /\ tramp'[s].detour = h /\ tramp'[s].rest = code[t] /\ Live(s)'
      /\ \A n \in Nodes : n # s => tramp'[n] = tramp[n] /\ (Live(n)' <=> Live(n))
      /\ s \in Nodes /\ t \in Targets
  BY <1>1 DEF TypeInv, TypeOK, Nodes, Live, Zeroed
<1>6. \A i \in DOMAIN ops : ops[i].slot \in Nodes /\ Live(ops[i].slot) /\ ops[i].slot # s
  BY <1>1, <1>3, OperationFacts DEF TypeInv, LiveInv
<1>7. Chained' = Chained
  <2>1. \A n \in Nodes : n # s => (Pending(n)' <=> Pending(n))
    BY <1>2, <1>4 DEF Pending
  <2>2. \A n \in Nodes : ~Removed(n)' /\ ~Removed(n)
    BY <1>4 DEF Removed
  <2>3. Pending(s)'
    BY <1>2, <1>4 DEF Pending
  <2> QED BY <1>1, <1>5, <2>1, <2>2, <2>3 DEF Chained
<1>8. s \notin Chained /\ Chained \subseteq Nodes
  BY <1>1 DEF Chained
<1>9. OperationInv'
  <2> DEFINE Good(o) == /\ o.target = TargetOf[o.hook]
                        /\ Live(o.slot)
                        /\ tramp[o.slot].target = o.target
                        /\ o.kind # "none"
                        /\ tramp[o.slot].detour = o.hook
                        /\ o.kind = "add" => /\ ptr[o.hook] = Original
                                             /\ tramp[o.slot].rest = code[o.target]
                        /\ o.kind = "remove" => ptr[o.hook] = o.slot
  <2>1. \A i \in DOMAIN ops : Good(ops[i])
    BY <1>4 DEF Chains, OperationInv
  <2>2. \A i \in DOMAIN ops : Good(ops[i])'
    <3> TAKE i \in DOMAIN ops
    <3>1. ops'[i] = ops[i] /\ tramp'[ops[i].slot] = tramp[ops[i].slot]
      BY <1>2, <1>5, <1>6
    <3> QED BY <1>3, <2>1, <3>1 DEF Live
  <2>3. Good(ops[k])'
    BY <1>2, <1>3, <1>5
  <2>4. \A i \in DOMAIN ops' : Good(ops[i])'
    BY <1>2, <2>2, <2>3
  <2> QED BY <2>4 DEF OperationInv
<1>10. DistinctInv'
  <2>1. \A i \in DOMAIN ops : ops[i].hook # h /\ ops[i].target # t
    BY <1>3 DEF Chains, OperationInv
  <2> QED BY <1>2, <1>6, <2>1 DEF Chains, DistinctInv
<1>11. ChainInv'
  <2>1. \A n \in Chained : tramp'[n] = tramp[n]
    BY <1>5, <1>8
  <2> QED BY <1>3, <1>7, <2>1 DEF Chains, ChainInv
<1>12. PointerInv'
  <2>1. \A n \in Chained : tramp'[n] = tramp[n]
    BY <1>5, <1>8
  <2> QED BY <1>3, <1>7, <2>1 DEF Chains, PointerInv
<1>13. RemovedInv'
  BY <1>4 DEF RemovedInv
<1> QED BY <1>5, <1>7, <1>8, <1>9, <1>10, <1>11, <1>12, <1>13 DEF Chains

LEMMA DetachStep ==
  ASSUME TypeInv, Chains, Disciplined, NEW c \in Clients, NEW h \in Hooks, Detach(c, h)
  PROVE  Chains' /\ Chained' = Chained
<1> USE TransactionAssumption
<1> DEFINE k == Len(ops) + 1
           s == ptr[h]
           t == tramp[ptr[h]].target
<1>1. /\ phase = "open" /\ phase' = "open" /\ UNCHANGED <<code, tramp, ptr>>
      /\ s \in Slots /\ Live(s) /\ tramp[s].detour = h
      /\ Pend("remove", h, s, t)
  BY DEF Detach
<1>2. t \in Targets
  BY <1>1 DEF TypeInv, TypeOK, FieldInv, Trampoline, Live, Nodes
<1>3. /\ DOMAIN ops' = DOMAIN ops \cup {k} /\ k \notin DOMAIN ops
      /\ \A i \in DOMAIN ops : ops'[i] = ops[i]
      /\ ops'[k].kind = "remove" /\ ops'[k].hook = h /\ ops'[k].slot = s /\ ops'[k].target = t
  <2>1. PICK u \in Slots, v \in Targets, l \in {Len(ops) + 1} : u = s /\ v = t /\ l = Len(ops) + 1
    BY <1>1, <1>2
  <2>2. TypeOK /\ "remove" \in {"add", "remove"} /\ Pend("remove", h, u, v)
    BY <1>1, <2>1 DEF TypeInv
  <2> HIDE DEF s, t
  <2>3. /\ DOMAIN ops' = DOMAIN ops \cup {l} /\ l \notin DOMAIN ops
        /\ \A i \in DOMAIN ops : ops'[i] = ops[i]
        /\ ops'[l].kind = "remove" /\ ops'[l].hook = h /\ ops'[l].slot = u /\ ops'[l].target = v
    BY <2>1, <2>2, PendFacts
  <2> QED BY <2>1, <2>3
<1>4. s \in Chained /\ t = TargetOf[h]
  BY <1>1 DEF Chains, PointerInv
<1>5. \A i \in DOMAIN ops : ops[i].target = t => ops[i].kind = "remove" /\ ops[i].hook # h
  BY <1>4 DEF Detach, MayDetach
<1> HIDE DEF k, s, t
<1>6. \A i : Unapplied(i) /\ Unapplied(i)'
  BY <1>1 DEF Unapplied
<1>7. Chained' = Chained
  <2>1. \A n \in Nodes : Pending(n)' <=> Pending(n)
    BY <1>3, <1>6 DEF Pending
  <2>2. \A n \in Nodes : ~Removed(n)' /\ ~Removed(n)
    BY <1>6 DEF Removed
  <2> QED BY <1>1, <2>1, <2>2 DEF Chained, Live
<1>8. OperationInv'
  BY <1>1, <1>3, <1>4, <1>6 DEF Chains, OperationInv, Live, s, t
<1>9. \A i \in DOMAIN ops : ops[i].hook # h /\ ops[i].slot # s
  <2> TAKE i \in DOMAIN ops
  <2>1. ops[i].target = TargetOf[ops[i].hook] /\ tramp[ops[i].slot].target = ops[i].target
        /\ tramp[ops[i].slot].detour = ops[i].hook
    BY <1>6 DEF Chains, OperationInv
  <2>2. ops[i].hook # h
    BY <1>4, <1>5, <2>1
  <2> QED BY <1>1, <2>1, <2>2
<1>10. DistinctInv'
  <2>1. \A i \in DOMAIN ops : ops[i].kind = "add" => ops[i].target # t
    BY <1>5
  <2> QED BY <1>3, <1>9, <2>1 DEF Chains, DistinctInv
<1>11. ChainInv' /\ PointerInv'
  BY <1>1, <1>7 DEF Chains, ChainInv, PointerInv
<1>12. RemovedInv'
  BY <1>6 DEF RemovedInv
<1> QED BY <1>7, <1>8, <1>10, <1>11, <1>12 DEF Chains

LEMMA ControlStep ==
  ASSUME TypeInv, Chains,
         \/ \E c \in Clients : Begin(c) \/ Commit(c) \/ Abort(c)
         \/ EndApply
         \/ Leave
         \/ UNCHANGED vars
  PROVE  Chains' /\ Chained' = Chained
<1>1. UNCHANGED <<ops, code, tramp, ptr>>
  BY DEF Begin, Commit, Abort, EndApply, Leave, vars
<1>2. \A i \in DOMAIN ops : i \in 1..Len(ops)
  BY LenProperties DEF TypeInv, TypeOK
<1>3. Len(ops) \in Nat
  BY LenProperties DEF TypeInv, TypeOK
<1>4. \A i \in DOMAIN ops : Unapplied(i)' <=> Unapplied(i)
  <2>1. CASE \E c \in Clients : Begin(c)
    BY <1>2, <2>1 DEF Begin, TypeInv, PhaseInv
  <2>2. CASE \E c \in Clients : Commit(c)
    BY <1>2, <1>3, <2>2 DEF Commit, Unapplied
  <2>3. CASE \E c \in Clients : Abort(c)
    BY <2>3 DEF Abort, Unapplied
  <2>4. CASE EndApply
    BY <1>2, <2>4 DEF EndApply, Unapplied
  <2>5. CASE Leave
    BY <2>5 DEF Leave
  <2>6. CASE UNCHANGED vars
    BY <2>6 DEF vars, Unapplied
  <2> QED BY <2>1, <2>2, <2>3, <2>4, <2>5, <2>6
<1> QED BY <1>1, <1>4, SteadyStep

LEMMA ChainedTypes ==
  ASSUME TypeInv, NEW n \in Chained
  PROVE  n \in Nodes /\ Live(n) /\ tramp[n].target \in Targets
<1>1. n \in Nodes /\ Live(n)
  BY DEF Chained
<1>2. tramp[n] \in Trampoline /\ tramp[n].target # Null
  BY <1>1 DEF TypeInv, TypeOK, FieldInv, Live
<1> QED BY <1>1, <1>2 DEF Trampoline

\* Putting n on top of the chain of t, and taking it off again.
LEMMA PushChain ==
  ASSUME TypeInv, ChainInv, NEW t \in Targets, NEW n \in Nodes, n \notin Chained,
         Chained' = Chained \cup {n},
         code' = [code EXCEPT ![t] = n],
         tramp'[n].target = t, tramp'[n].rest = code[t],
         \A m \in Chained : tramp'[m] = tramp[m]
  PROVE  ChainInv'
<1>1. \A u \in Targets : code'[u] = IF u = t THEN n ELSE code[u]
  BY DEF TypeInv, TypeOK
<1>2. \A m \in Chained : tramp[m].target \in Targets
  BY ChainedTypes
<1>3. \A u \in Targets : code'[u] \in Nodes =>
         code'[u] \in Chained' /\ tramp'[code'[u]].target = u
  BY <1>1 DEF ChainInv
<1>4. code[t] \in Nodes => code[t] \in Chained /\ tramp[code[t]].target = t
  BY DEF ChainInv
<1>5. \A m \in Chained' : tramp'[m].rest \in Nodes =>
         /\ tramp'[m].rest \in Chained'
         /\ tramp'[tramp'[m].rest].target = tramp'[m].target
         /\ code'[tramp'[m].target] # tramp'[m].rest
  <2>1. ASSUME NEW m \in Chained, tramp[m].rest \in Nodes
        PROVE  /\ tramp[m].rest \in Chained /\ tramp[m].rest # n
               /\ tramp'[tramp[m].rest].target = tramp[m].target
               /\ code'[tramp[m].target] # tramp[m].rest
    BY <1>1, <1>2, <2>1 DEF ChainInv
  <2> QED BY <1>1, <1>4, <2>1
<1>6. \A m \in Chained : code[t] \in Nodes => tramp[m].rest # code[t]
  BY <1>4 DEF ChainInv
<1>7. \A m, k \in Chained' : m # k /\ tramp'[m].rest \in Nodes => tramp'[m].rest # tramp'[k].rest
  BY <1>6 DEF ChainInv
<1>8. \A m \in Chained' : \/ code'[tramp'[m].target] = m
                          \/ \E k \in Chained' : tramp'[k].rest = m
  <2>1. ASSUME NEW m \in Chained, code[tramp[m].target] = m
        PROVE  code'[tramp[m].target] = m \/ tramp'[n].rest = m
    BY <1>1, <1>2, <2>1
  <2>2. \A m \in Chained : \/ code[tramp[m].target] = m
                           \/ \E k \in Chained : tramp[k].rest = m
    BY DEF ChainInv
  <2> QED BY <1>1, <2>1, <2>2
<1> QED BY <1>3, <1>5, <1>7, <1>8 DEF ChainInv

LEMMA PopChain ==
  ASSUME TypeInv, ChainInv, NEW t \in Targets, NEW n \in Nodes, code[t] = n,
         Chained' = Chained \ {n},
         code' = [code EXCEPT ![t] = tramp[n].rest],
         \A m \in Chained' : tramp'[m] = tramp[m]
  PROVE  /\ ChainInv'
         /\ tramp[n].rest \in Nodes => tramp[n].rest \in Chained'
<1> DEFINE r == tramp[n].rest
<1>1. \A u \in Targets : code'[u] = IF u = t THEN r ELSE code[u]
  BY DEF TypeInv, TypeOK
<1>2. \A m \in Chained : tramp[m].target \in Targets
  BY ChainedTypes
<1>3. n \in Chained /\ tramp[n].target = t
  BY DEF ChainInv
<1>4. r \in Nodes => r \in Chained' /\ tramp[r].target = t
  BY <1>3 DEF ChainInv
<1>5. \A u \in Targets : code'[u] \in Nodes =>
         code'[u] \in Chained' /\ tramp'[code'[u]].target = u
  BY <1>1, <1>3, <1>4 DEF ChainInv
<1>6. ASSUME NEW m \in Chained', tramp[m].rest \in Nodes
      PROVE  /\ tramp[m].rest \in Chained'
             /\ tramp[tramp[m].rest].target = tramp[m].target
             /\ code'[tramp[m].target] # tramp[m].rest
  <2>1. /\ m \in Chained /\ m # n /\ tramp[m].rest \in Chained
        /\ tramp[tramp[m].rest].target = tramp[m].target
        /\ code[tramp[m].target] # tramp[m].rest
    BY <1>6 DEF ChainInv
  <2>2. tramp[m].rest # n
    BY <1>3, <2>1
  <2>3. tramp[m].rest # r
    BY <1>3, <1>6, <2>1 DEF ChainInv
  <2> QED BY <1>1, <1>2, <2>1, <2>2, <2>3
<1>7. \A m \in Chained' : tramp'[m].rest \in Nodes =>
         /\ tramp'[m].rest \in Chained'
         /\ tramp'[tramp'[m].rest].target = tramp'[m].target
         /\ code'[tramp'[m].target] # tramp'[m].rest
  BY <1>6
<1>8. \A m, k \in Chained' : m # k /\ tramp'[m].rest \in Nodes => tramp'[m].rest # tramp'[k].rest
  BY DEF ChainInv
<1>9. ASSUME NEW m \in Chained'
      PROVE  code'[tramp'[m].target] = m \/ \E k \in Chained' : tramp'[k].rest = m
  <2>1. m \in Chained /\ m # n /\ tramp'[m] = tramp[m]
    OBVIOUS
  <2>2. CASE code[tramp[m].target] = m
    BY <1>1, <1>2, <2>1, <2>2
  <2>3. CASE \E k \in Chained : tramp[k].rest = m
    <3>1. PICK k \in Chained : tramp[k].rest = m
      BY <2>3
    <3>2. CASE k = n
      BY <1>1, <1>3, <1>4, <2>1, <3>1, <3>2 DEF Chained
    <3> QED BY <3>1, <3>2
  <2> QED BY <2>1, <2>2, <2>3 DEF ChainInv
<1> QED BY <1>4, <1>5, <1>7, <1>8, <1>9 DEF ChainInv

\* Commit passes operation k, the one next stood at.
LEMMA PassFacts ==
  ASSUME TypeInv, Chains, phase = "apply", next > 0, next' = next - 1, phase' = phase,
         NEW k, k = next
  PROVE  /\ k \in DOMAIN ops
         /\ Unapplied(k) /\ ~Unapplied(k)'
         /\ \A i \in DOMAIN ops : i # k => (Unapplied(i)' <=> Unapplied(i))
         /\ \A i \in DOMAIN ops : ~Unapplied(i) => k < i
         /\ ops[k].slot \in Slots /\ ops[k].slot \in Nodes
         /\ ops[k].hook \in Hooks /\ ops[k].target \in Targets
         /\ Live(ops[k].slot)
         /\ tramp[ops[k].slot].target = ops[k].target
         /\ ops[k].target = TargetOf[ops[k].hook]
         /\ tramp[ops[k].slot].detour = ops[k].hook
         /\ \A i \in DOMAIN ops : i # k => /\ ops[i].slot # ops[k].slot
                                          /\ ops[i].hook # ops[k].hook
<1>1. DOMAIN ops = 1..Len(ops) /\ Len(ops) \in Nat /\ next \in 0..Len(ops)
  BY LenProperties DEF TypeInv, TypeOK
<1>2. k \in DOMAIN ops
  BY <1>1
<1>3. /\ Unapplied(k) /\ ~Unapplied(k)'
      /\ \A i \in DOMAIN ops : i # k => (Unapplied(i)' <=> Unapplied(i))
      /\ \A i \in DOMAIN ops : ~Unapplied(i) => k < i
  BY <1>1 DEF Unapplied
<1>4. /\ ops[k].slot \in Slots /\ ops[k].slot \in Nodes
      /\ ops[k].hook \in Hooks /\ ops[k].target \in Targets
  BY <1>2, OperationFacts DEF TypeInv
<1>5. /\ Live(ops[k].slot)
      /\ tramp[ops[k].slot].target = ops[k].target
      /\ ops[k].target = TargetOf[ops[k].hook]
      /\ tramp[ops[k].slot].detour = ops[k].hook
  BY <1>2, <1>3 DEF Chains, OperationInv
<1>6. \A i \in DOMAIN ops : i # k => /\ ops[i].slot # ops[k].slot
                                    /\ ops[i].hook # ops[k].hook
  BY <1>2 DEF Chains, DistinctInv
<1> QED BY <1>2, <1>3, <1>4, <1>5, <1>6

\* A remove that finds its jump in place takes the trampoline off the chain.
LEMMA UnhookStep ==
  ASSUME TypeInv, Chains, ApplyRemove, HookIsStillThere(ops[next])
  PROVE  Chains' /\ Chained' = Chained \ {ops[next].slot}
<1> USE TransactionAssumption
<1>k. PICK k : k = next
  OBVIOUS
<1>s. PICK s, h, t : s = ops[k].slot /\ h = ops[k].hook /\ t = ops[k].target
  OBVIOUS
<1>1. /\ phase = "apply" /\ next > 0 /\ next' = next - 1 /\ phase' = phase
      /\ ops[k].kind = "remove" /\ ops' = ops /\ tramp' = tramp
      /\ code' = [code EXCEPT ![t] = tramp[s].rest]
      /\ ptr' = [ptr EXCEPT ![h] = Original]
      /\ code[t] = s
  BY <1>k, <1>s DEF ApplyRemove, HookIsStillThere
<1>2. /\ k \in DOMAIN ops /\ Unapplied(k) /\ ~Unapplied(k)'
      /\ \A i \in DOMAIN ops : i # k => (Unapplied(i)' <=> Unapplied(i))
      /\ \A i \in DOMAIN ops : ~Unapplied(i) => k < i
      /\ s \in Slots /\ s \in Nodes /\ h \in Hooks /\ t \in Targets
      /\ Live(s) /\ tramp[s].target = t /\ t = TargetOf[h] /\ tramp[s].detour = h
      /\ \A i \in DOMAIN ops : i # k => ops[i].slot # s /\ ops[i].hook # h
  BY <1>k, <1>s, <1>1, PassFacts
<1>3. /\ \A g \in Hooks : ptr'[g] = IF g = h THEN Original ELSE ptr[g]
      /\ \A u \in Targets : u # t => code'[u] = code[u]
  BY <1>1 DEF TypeInv, TypeOK
<1>4. Chained' = Chained \ {s}
  <2>1. \A n \in Nodes : Pending(n)' <=> Pending(n)
    BY <1>1, <1>2 DEF Pending
  <2>2. \A n \in Nodes : Removed(n)' <=> Removed(n) \/ n = s
    BY <1>s, <1>1, <1>2 DEF Removed
  <2> QED BY <1>1, <2>1, <2>2 DEF Chained, Live
<1>5. ChainInv' /\ (tramp[s].rest \in Nodes => tramp[s].rest \in Chained')
  BY <1>1, <1>2, <1>4, PopChain DEF Chains
<1>6. OperationInv'
  <2>1. ASSUME NEW i \in DOMAIN ops, i # k, Unapplied(i)
        PROVE  /\ ops[i].kind # "none"
               /\ tramp'[ops[i].slot].detour = ops[i].hook
               /\ ops[i].kind = "add" => /\ ptr'[ops[i].hook] = Original
                                         /\ tramp'[ops[i].slot].rest = code'[ops[i].target]
               /\ ops[i].kind = "remove" => ptr'[ops[i].hook] = ops[i].slot
    <3>1. ops[i].hook \in Hooks /\ ops[i].target \in Targets /\ ops[i].hook # h
      BY <1>2, <2>1, OperationFacts DEF TypeInv
    <3>2. ops[i].kind = "add" => ops[i].target # t
      BY <1>s, <1>2, <2>1 DEF Chains, DistinctInv
    <3> QED BY <1>1, <1>3, <2>1, <3>1, <3>2 DEF Chains, OperationInv
  <2>2. \A i \in DOMAIN ops : /\ ops[i].target = TargetOf[ops[i].hook]
                              /\ Live(ops[i].slot)
                              /\ tramp[ops[i].slot].target = ops[i].target
    BY DEF Chains, OperationInv
  <2> QED BY <1>1, <1>2, <2>1, <2>2 DEF OperationInv, Live
<1>7. DistinctInv'
  BY <1>1 DEF Chains, DistinctInv
<1>8. PointerInv'
  <2>1. ptr[h] = s
    BY <1>s, <1>1, <1>2 DEF Chains, OperationInv
  <2>2. \A g \in Hooks : ptr[g] \in Slots /\ g # h => ptr[g] # s
    BY <1>2 DEF Chains, PointerInv
  <2>3. \A n \in Chained : n # s => tramp[n].detour # h
    BY <1>2, <2>1 DEF Chains, PointerInv
  <2> QED BY <1>1, <1>3, <1>4, <2>2, <2>3 DEF Chains, PointerInv, Nodes
<1>9. RemovedInv'
  <2> SUFFICES ASSUME NEW i \in DOMAIN ops, ~Unapplied(i)', ops[i].kind = "remove",
                      tramp[ops[i].slot].rest \in Nodes
               PROVE  \/ tramp[ops[i].slot].rest \in Chained'
                      \/ \E j \in DOMAIN ops : /\ j < i
                                               /\ ~Unapplied(j)'
                                               /\ ops[j].kind = "remove"
                                               /\ ops[j].slot = tramp[ops[i].slot].rest
    BY <1>1 DEF RemovedInv
  <2>1. CASE i = k
    BY <1>s, <1>5, <2>1
  <2>2. CASE i # k
    <3>1. ~Unapplied(i) /\ k < i
      BY <1>2, <2>2
    <3>2. CASE tramp[ops[i].slot].rest = s
      BY <1>s, <1>1, <1>2, <3>1, <3>2
    <3>3. CASE tramp[ops[i].slot].rest # s
      BY <1>2, <1>4, <3>1, <3>3 DEF Chains, RemovedInv
    <3> QED BY <3>2, <3>3
  <2> QED BY <2>1, <2>2
<1> QED BY <1>k, <1>s, <1>4, <1>5, <1>6, <1>7, <1>8, <1>9 DEF Chains

\* A remove that finds another jump leaves the trampoline on the chain.
LEMMA LeakStep ==
  ASSUME TypeInv, Chains, ApplyRemove, ~HookIsStillThere(ops[next])
  PROVE  Chains' /\ Chained' = Chained
<1> USE TransactionAssumption
<1>k. PICK k : k = next
  OBVIOUS
<1>s. PICK s, h, t : s = ops[k].slot /\ h = ops[k].hook /\ t = ops[k].target
  OBVIOUS
<1>1. /\ phase = "apply" /\ next > 0 /\ next' = next - 1 /\ phase' = phase
      /\ ops[k].kind = "remove" /\ code' = code
      /\ ops' = [ops EXCEPT ![k].kind = "none"]
      /\ tramp' = [tramp EXCEPT ![s].detour = Bypass]
      /\ ptr' = [ptr EXCEPT ![h] = Original]
  BY <1>k, <1>s DEF ApplyRemove, PutInBypass
<1>2. /\ k \in DOMAIN ops /\ Unapplied(k) /\ ~Unapplied(k)'
      /\ \A i \in DOMAIN ops : i # k => (Unapplied(i)' <=> Unapplied(i))
      /\ s \in Slots /\ s \in Nodes /\ h \in Hooks /\ t \in Targets
      /\ Live(s) /\ tramp[s].target = t /\ t = TargetOf[h] /\ tramp[s].detour = h
      /\ \A i \in DOMAIN ops : i # k => ops[i].slot # s /\ ops[i].hook # h
  BY <1>k, <1>s, <1>1, PassFacts
<1>3. /\ DOMAIN ops' = DOMAIN ops /\ ops'[k].kind = "none"
      /\ \A i \in DOMAIN ops : /\ ops'[i].slot = ops[i].slot
                              /\ ops'[i].hook = ops[i].hook
                              /\ ops'[i].target = ops[i].target
      /\ \A i \in DOMAIN ops : i # k => ops'[i].kind = ops[i].kind
      /\ \A i \in DOMAIN ops' : ops'[i].kind # "none" => i \in DOMAIN ops /\ i # k
  <2>1. ops \in Seq(Operation)
    BY DEF TypeInv, TypeOK
  <2> QED BY <1>1, <1>2, <2>1, LeakFacts
<1>4. \A g \in Hooks : ptr'[g] = IF g = h THEN Original ELSE ptr[g]
  BY <1>1 DEF TypeInv, TypeOK
<1>5. /\ \A n \in Nodes : n # s => tramp'[n] = tramp[n]
      /\ \A n \in Nodes : /\ tramp'[n].target = tramp[n].target
                          /\ tramp'[n].rest = tramp[n].rest
                          /\ Live(n)' <=> Live(n)
      /\ tramp'[s].detour = Bypass
  <2>1. tramp[s].target # Null
    BY <1>2 DEF TypeInv, FieldInv, Live
  <2>2. tramp'[s] = [tramp[s] EXCEPT !.detour = Bypass] /\ tramp[s] \in Trampoline
        /\ \A n \in Nodes : n # s => tramp'[n] = tramp[n]
    BY <1>1, <1>2 DEF TypeInv, TypeOK
  <2>3. tramp'[s].target = tramp[s].target /\ tramp'[s].rest = tramp[s].rest
        /\ tramp'[s].detour = Bypass
    BY <2>2 DEF Trampoline
  <2>4. tramp'[s] # Zeroed /\ tramp[s] # Zeroed
    BY <1>2, <2>1, <2>3 DEF Live, Zeroed
  <2> QED BY <2>2, <2>3, <2>4 DEF Live
<1>6. Chained' = Chained
  <2>1. \A n \in Nodes : Pending(n)' <=> Pending(n)
    BY <1>1, <1>2, <1>3 DEF Pending
  <2>2. \A n \in Nodes : Removed(n)' <=> Removed(n)
    BY <1>2, <1>3 DEF Removed
  <2> QED BY <1>5, <2>1, <2>2 DEF Chained
<1>7. Chained \subseteq Nodes
  BY DEF Chained
<1>8. OperationInv'
  <2>1. ASSUME NEW i \in DOMAIN ops, i # k, Unapplied(i)
        PROVE  /\ ops'[i].kind # "none"
               /\ tramp'[ops'[i].slot].detour = ops'[i].hook
               /\ ops'[i].kind = "add" => /\ ptr'[ops'[i].hook] = Original
                                          /\ tramp'[ops'[i].slot].rest = code'[ops'[i].target]
               /\ ops'[i].kind = "remove" => ptr'[ops'[i].hook] = ops'[i].slot
    <3>1. ops[i].hook \in Hooks /\ ops[i].slot \in Nodes /\ ops[i].hook # h /\ ops[i].slot # s
      BY <1>2, <2>1, OperationFacts DEF TypeInv
    <3>2. /\ ops[i].kind # "none"
          /\ tramp[ops[i].slot].detour = ops[i].hook
          /\ ops[i].kind = "add" => /\ ptr[ops[i].hook] = Original
                                    /\ tramp[ops[i].slot].rest = code[ops[i].target]
          /\ ops[i].kind = "remove" => ptr[ops[i].hook] = ops[i].slot
      BY <2>1 DEF Chains, OperationInv
    <3> QED BY <1>1, <1>3, <1>4, <1>5, <2>1, <3>1, <3>2
  <2>2. \A i \in DOMAIN ops : /\ ops[i].slot \in Nodes
                              /\ ops[i].target = TargetOf[ops[i].hook]
                              /\ Live(ops[i].slot)
                              /\ tramp[ops[i].slot].target = ops[i].target
    BY OperationFacts DEF Chains, OperationInv, TypeInv
  <2>3. \A i \in DOMAIN ops : /\ ops'[i].target = TargetOf[ops'[i].hook]
                              /\ Live(ops[i].slot)'
                              /\ tramp'[ops'[i].slot].target = ops'[i].target
    BY <1>3, <1>5, <2>2 DEF Live
  <2> QED BY <1>2, <1>3, <2>1, <2>3 DEF OperationInv
<1>9. DistinctInv'
  BY <1>3 DEF Chains, DistinctInv
<1>10. ChainInv'
  BY <1>1, <1>5, <1>6, <1>7 DEF Chains, ChainInv
<1>11. PointerInv'
  <2>1. ptr[h] = s
    BY <1>s, <1>1, <1>2 DEF Chains, OperationInv
  <2>2. \A g \in Hooks : ptr[g] \in Slots /\ g # h => ptr[g] # s
    BY <1>2 DEF Chains, PointerInv
  <2>3. \A n \in Chained : n # s => tramp[n].detour # h
    BY <1>2, <2>1 DEF Chains, PointerInv
  <2> QED BY <1>4, <1>5, <1>6, <1>7, <2>2, <2>3 DEF Chains, PointerInv, Nodes
<1>12. RemovedInv'
  <2>1. \A i \in DOMAIN ops : ops[i].slot \in Nodes
    BY OperationFacts DEF TypeInv
  <2>2. \A i \in DOMAIN ops : ~Unapplied(i)' /\ ops'[i].kind = "remove" =>
                                ~Unapplied(i) /\ ops[i].kind = "remove"
    BY <1>2, <1>3
  <2>3. \A i \in DOMAIN ops : ~Unapplied(i) /\ ops[i].kind = "remove" =>
                                ~Unapplied(i)' /\ ops'[i].kind = "remove"
    BY <1>2, <1>3
  <2> QED BY <1>3, <1>5, <1>6, <2>1, <2>2, <2>3 DEF Chains, RemovedInv
<1> QED BY <1>6, <1>8, <1>9, <1>10, <1>11, <1>12 DEF Chains

LEMMA ApplyRemoveStep ==
  ASSUME TypeInv, Chains, ApplyRemove
  PROVE  Chains'
BY UnhookStep, LeakStep

\* An add puts its trampoline, pending until now, on top of the chain.
LEMMA ApplyAddStep ==
  ASSUME TypeInv, Chains, ApplyAdd
  PROVE  /\ Chains' /\ ops[next].slot \notin Chained
         /\ Chained' = Chained \cup {ops[next].slot}
<1> USE TransactionAssumption
<1>k. PICK k : k = next
  OBVIOUS
<1>s. PICK s, h, t : s = ops[k].slot /\ h = ops[k].hook /\ t = ops[k].target
  OBVIOUS
<1>1. /\ phase = "apply" /\ next > 0 /\ next' = next - 1 /\ phase' = phase
      /\ ops[k].kind = "add" /\ ops' = ops /\ tramp' = tramp
      /\ code' = [code EXCEPT ![t] = s]
      /\ ptr' = [ptr EXCEPT ![h] = s]
  BY <1>k, <1>s DEF ApplyAdd
<1>2. /\ k \in DOMAIN ops /\ Unapplied(k) /\ ~Unapplied(k)'
      /\ \A i \in DOMAIN ops : i # k => (Unapplied(i)' <=> Unapplied(i))
      /\ s \in Slots /\ s \in Nodes /\ h \in Hooks /\ t \in Targets
      /\ Live(s) /\ tramp[s].target = t /\ t = TargetOf[h] /\ tramp[s].detour = h
      /\ \A i \in DOMAIN ops : i # k => ops[i].slot # s /\ ops[i].hook # h
  BY <1>k, <1>s, <1>1, PassFacts
<1>3. /\ \A g \in Hooks : ptr'[g] = IF g = h THEN s ELSE ptr[g]
      /\ \A u \in Targets : u # t => code'[u] = code[u]
  BY <1>1 DEF TypeInv, TypeOK
<1>4. ptr[h] = Original /\ tramp[s].rest = code[t]
  BY <1>s, <1>1, <1>2 DEF Chains, OperationInv
<1>5. s \notin Chained /\ Chained' = Chained \cup {s} /\ Chained \subseteq Nodes
  <2>1. \A n \in Nodes : Pending(n)' <=> Pending(n) /\ n # s
    BY <1>s, <1>1, <1>2 DEF Pending
  <2>2. \A n \in Nodes : Removed(n)' <=> Removed(n)
    BY <1>1, <1>2 DEF Removed
  <2>3. Pending(s) /\ ~Removed(s)
    BY <1>s, <1>1, <1>2 DEF Pending, Removed
  <2> QED BY <1>1, <1>2, <2>1, <2>2, <2>3 DEF Chained, Live
<1>6. ChainInv'
  BY <1>1, <1>2, <1>4, <1>5, PushChain DEF Chains
<1>7. OperationInv'
  <2>1. ASSUME NEW i \in DOMAIN ops, i # k, Unapplied(i)
        PROVE  /\ ops[i].kind # "none"
               /\ tramp'[ops[i].slot].detour = ops[i].hook
               /\ ops[i].kind = "add" => /\ ptr'[ops[i].hook] = Original
                                         /\ tramp'[ops[i].slot].rest = code'[ops[i].target]
               /\ ops[i].kind = "remove" => ptr'[ops[i].hook] = ops[i].slot
    <3>1. ops[i].hook \in Hooks /\ ops[i].target \in Targets /\ ops[i].hook # h
      BY <1>2, <2>1, OperationFacts DEF TypeInv
    <3>2. ops[i].kind = "add" => ops[i].target # t
      BY <1>s, <1>2, <2>1 DEF Chains, DistinctInv
    <3> QED BY <1>1, <1>3, <2>1, <3>1, <3>2 DEF Chains, OperationInv
  <2>2. \A i \in DOMAIN ops : /\ ops[i].target = TargetOf[ops[i].hook]
                              /\ Live(ops[i].slot)
                              /\ tramp[ops[i].slot].target = ops[i].target
    BY DEF Chains, OperationInv
  <2> QED BY <1>1, <1>2, <2>1, <2>2 DEF OperationInv, Live
<1>8. DistinctInv'
  BY <1>1 DEF Chains, DistinctInv
<1>9. PointerInv'
  <2>1. \A n \in Chained : tramp[n].detour # h
    BY <1>2, <1>4, <1>5 DEF Chains, PointerInv
  <2> QED BY <1>1, <1>2, <1>3, <1>5, <2>1 DEF Chains, PointerInv
<1>10. RemovedInv'
  <2>1. \A i \in DOMAIN ops : ops[i].kind = "remove" => (Unapplied(i)' <=> Unapplied(i))
    BY <1>1, <1>2
  <2> QED BY <1>1, <1>5, <2>1 DEF Chains, RemovedInv
<1> QED BY <1>k, <1>s, <1>5, <1>6, <1>7, <1>8, <1>9, <1>10 DEF Chains

\* The restoring loops free only trampolines that are on no chain.
LEMMA RestoreStep ==
  ASSUME TypeInv, Chains, RestoreOne
  PROVE  /\ Chains' /\ Chained' = Chained
         /\ \A n \in Chained : tramp'[n] = tramp[n]
<1> USE TransactionAssumption
<1>k. PICK k : k = Len(ops)
  OBVIOUS
<1>s. PICK s : s = ops[k].slot
  OBVIOUS
<1>1. /\ phase \in {"restore", "abort"} /\ phase' = phase /\ code' = code /\ ptr' = ptr
      /\ tramp' = IF ops[k].kind = FreedKind THEN [tramp EXCEPT ![s] = Zeroed] ELSE tramp
  BY <1>k, <1>s DEF RestoreOne
<1>2. /\ k \in DOMAIN ops /\ DOMAIN ops' = DOMAIN ops \ {k}
      /\ \A i \in DOMAIN ops' : ops'[i] = ops[i]
      /\ \A i, j \in DOMAIN ops : i # k /\ j < i => j # k
  <2>1. ops \in Seq(Operation) /\ ops # << >> /\ ops' = SubSeq(ops, 1, Len(ops) - 1)
    BY DEF RestoreOne, TypeInv, TypeOK
  <2>2. Len(ops) \in Nat
    BY <2>1, LenProperties
  <2>3. /\ Len(ops) \in DOMAIN ops /\ DOMAIN ops = 1..Len(ops)
        /\ DOMAIN ops' = 1..Len(ops) - 1
        /\ \A i \in 1..Len(ops) - 1 : ops'[i] = ops[i]
    BY <2>1, FrontFacts
  <2>4. 1..Len(ops) - 1 = (1..Len(ops)) \ {k}
    BY <1>k, <2>2
  <2>5. \A i, j \in 1..Len(ops) : i # k /\ j < i => j # k
    BY <1>k, <2>2
  <2> QED BY <1>k, <2>3, <2>4, <2>5
<1>3. \A i \in DOMAIN ops : /\ phase = "abort" => Unapplied(i) /\ Unapplied(i)'
                            /\ phase = "restore" => ~Unapplied(i) /\ ~Unapplied(i)'
  BY <1>1 DEF Unapplied
<1>4. /\ s \in Nodes
      /\ \A i \in DOMAIN ops' : ops[i].slot \in Nodes /\ ops[i].slot # s
  BY <1>s, <1>2, OperationFacts DEF TypeInv, Chains, DistinctInv
<1>5. /\ \A n \in Nodes : n # s => tramp'[n] = tramp[n]
      /\ ops[k].kind = FreedKind => tramp'[s] = Zeroed
      /\ ops[k].kind # FreedKind => tramp' = tramp
  BY <1>1, <1>4 DEF TypeInv, TypeOK
<1>6. Chained' = Chained /\ \A n \in Chained : tramp'[n] = tramp[n]
  <2>1. \A n \in Nodes : n # s => (Pending(n)' <=> Pending(n))
    BY <1>s, <1>1, <1>2, <1>3 DEF Pending
  <2>2. \A n \in Nodes : n # s => (Removed(n)' <=> Removed(n))
    BY <1>s, <1>1, <1>2, <1>3 DEF Removed
  <2>3. CASE ops[k].kind = FreedKind
    <3>1. Pending(s) \/ Removed(s)
      BY <1>s, <1>1, <1>2, <1>3, <2>3 DEF Pending, Removed, FreedKind
    <3>2. s \notin Chained /\ s \notin Chained'
      BY <1>5, <2>3, <3>1 DEF Chained, Live
    <3>3. \A n \in Nodes : n # s => (n \in Chained' <=> n \in Chained)
      BY <1>5, <2>1, <2>2 DEF Chained, Live
    <3>4. Chained \subseteq Nodes /\ Chained' \subseteq Nodes
      BY DEF Chained
    <3>5. \A n : n \in Chained' <=> n \in Chained
      BY <3>2, <3>3, <3>4
    <3>6. Chained' = Chained
      BY <3>5
    <3> QED BY <1>5, <3>2, <3>4, <3>6
  <2>4. CASE ops[k].kind # FreedKind
    <3>1. \A i \in DOMAIN ops' : ops[i].slot # s
      BY <1>4
    <3>2. ~Pending(s) /\ ~Pending(s)' /\ ~Removed(s) /\ ~Removed(s)'
      BY <1>s, <1>1, <1>2, <1>3, <2>4, <3>1 DEF Pending, Removed, FreedKind
    <3> QED BY <1>5, <2>1, <2>2, <2>4, <3>2 DEF Chained, Live
  <2> QED BY <2>3, <2>4
<1>7. OperationInv'
  <2>1. \A i \in DOMAIN ops' : /\ i \in DOMAIN ops /\ ops'[i] = ops[i]
                               /\ tramp'[ops[i].slot] = tramp[ops[i].slot]
                               /\ Unapplied(i)' <=> Unapplied(i)
    BY <1>1, <1>2, <1>3, <1>4, <1>5
  <2> QED BY <1>1, <2>1 DEF Chains, OperationInv, Live
<1>8. DistinctInv'
  BY <1>2 DEF Chains, DistinctInv
<1>9. ChainInv' /\ PointerInv'
  BY <1>1, <1>6 DEF Chains, ChainInv, PointerInv
<1>10. RemovedInv'
  <2>1. CASE phase = "abort"
    BY <1>2, <1>3, <2>1 DEF RemovedInv
  <2>2. CASE phase = "restore"
    <3> SUFFICES ASSUME NEW i \in DOMAIN ops', ops[i].kind = "remove",
                        tramp[ops[i].slot].rest \in Nodes
                 PROVE  \/ tramp[ops[i].slot].rest \in Chained
                        \/ \E j \in DOMAIN ops' : /\ j < i
                                                  /\ ~Unapplied(j)'
                                                  /\ ops[j].kind = "remove"
                                                  /\ ops[j].slot = tramp[ops[i].slot].rest
      BY <1>2, <1>4, <1>5, <1>6 DEF RemovedInv
    <3>1. i \in DOMAIN ops /\ i # k /\ ~Unapplied(i)
      BY <1>2, <1>3, <2>2
    <3> QED BY <1>2, <1>3, <2>2, <3>1 DEF Chains, RemovedInv
  <2> QED BY <1>1, <2>1, <2>2
<1> QED BY <1>6, <1>7, <1>8, <1>9, <1>10 DEF Chains

\* Another library works while no transaction is open, when every trampoline in
\* use is on a chain.
LEMMA ForeignHookStep ==
  ASSUME TypeInv, Chains, NEW f \in Foreign, NEW t \in Targets, ForeignHook(f, t)
  PROVE  Chains' /\ f \notin Chained /\ Chained' = Chained \cup {f}
<1> USE TransactionAssumption
<1>1. /\ ops = << >> /\ ops' = ops /\ ptr' = ptr /\ ~Live(f)
      /\ tramp' = [tramp EXCEPT ![f] = [target |-> t, detour |-> f, rest |-> code[t]]]
      /\ code' = [code EXCEPT ![t] = f]
  BY DEF ForeignHook, TypeInv, PhaseInv
<1>2. f \in Nodes /\ f \notin Slots /\ f \notin Hooks
  BY DEF Nodes
<1>3. /\ \A n \in Nodes : n # f => tramp'[n] = tramp[n]
      /\ tramp'[f].target = t /\ tramp'[f].detour = f /\ tramp'[f].rest = code[t]
      /\ Live(f)'
  BY <1>1, <1>2 DEF TypeInv, TypeOK, Live, Zeroed
<1>4. f \notin Chained /\ Chained' = Chained \cup {f} /\ Chained \subseteq Nodes
  BY <1>1, <1>2, <1>3 DEF Chained, Pending, Removed, Live
<1>5. \A n \in Chained : tramp'[n] = tramp[n]
  BY <1>3, <1>4
<1>6. ChainInv'
  BY <1>1, <1>2, <1>3, <1>4, <1>5, PushChain DEF Chains
<1>7. PointerInv'
  BY <1>1, <1>2, <1>3, <1>4, <1>5 DEF Chains, PointerInv
<1>8. OperationInv' /\ DistinctInv' /\ RemovedInv'
  BY <1>1 DEF OperationInv, DistinctInv, RemovedInv
<1> QED BY <1>4, <1>6, <1>7, <1>8 DEF Chains

LEMMA ForeignUnhookStep ==
  ASSUME TypeInv, Chains, NEW f \in Foreign, ForeignUnhook(f)
  PROVE  Chains' /\ Chained' = Chained \ {f}
<1> USE TransactionAssumption
<1>t. PICK t : t = tramp[f].target
  OBVIOUS
<1>1. /\ ops = << >> /\ ops' = ops /\ ptr' = ptr /\ Live(f) /\ code[t] = f
      /\ code' = [code EXCEPT ![t] = tramp[f].rest]
      /\ tramp' = [tramp EXCEPT ![f] = Zeroed]
  BY <1>t DEF ForeignUnhook, TypeInv, PhaseInv
<1>2. f \in Nodes /\ f \notin Slots
  BY DEF Nodes
<1>3. /\ \A n \in Nodes : n # f => tramp'[n] = tramp[n]
      /\ ~Live(f)'
  BY <1>1, <1>2 DEF TypeInv, TypeOK, Live
<1>4. Chained' = Chained \ {f} /\ f \in Chained /\ Chained \subseteq Nodes
  BY <1>1, <1>2, <1>3 DEF Chained, Pending, Removed, Live
<1>5. \A n \in Chained' : tramp'[n] = tramp[n]
  BY <1>3, <1>4
<1>6. t \in Targets
  BY <1>t, <1>4, ChainedTypes
<1>7. ChainInv'
  BY <1>1, <1>2, <1>4, <1>5, <1>6, PopChain DEF Chains
<1>8. PointerInv'
  BY <1>1, <1>2, <1>4, <1>5 DEF Chains, PointerInv
<1>9. OperationInv' /\ DistinctInv' /\ RemovedInv'
  BY <1>1 DEF OperationInv, DistinctInv, RemovedInv
<1> QED BY <1>4, <1>7, <1>8, <1>9 DEF Chains

LEMMA ChainsNext ==
  ASSUME Disciplined, TypeInv, Chains, [Next]_vars
  PROVE  Chains'
<1>1. ASSUME NEW c \in Clients, Begin(c) \/ Commit(c) \/ Abort(c) PROVE Chains'
  BY <1>1, ControlStep
<1>2. ASSUME NEW c \in Clients, NEW h \in Hooks, Attach(c, h) \/ Detach(c, h) PROVE Chains'
  BY <1>2, AttachStep, DetachStep
<1>3. ASSUME Internal PROVE Chains'
  BY <1>3, ControlStep, ApplyRemoveStep, ApplyAddStep, RestoreStep DEF Internal
<1>4. ASSUME NEW f \in Foreign, NEW t \in Targets, ForeignHook(f, t) PROVE Chains'
  BY <1>4, ForeignHookStep
<1>5. ASSUME NEW f \in Foreign, ForeignUnhook(f) PROVE Chains'
  BY <1>5, ForeignUnhookStep
<1>6. CASE UNCHANGED vars
  BY <1>6, ControlStep
<1> QED BY <1>1, <1>2, <1>3, <1>4, <1>5, <1>6 DEF Next

LEMMA ChainsInvariant ==
  ASSUME Disciplined
  PROVE  Spec => [](TypeInv /\ Chains)
<1>1. Init => TypeInv /\ Chains
  BY TypeInit, ChainsInit
<1>2. TypeInv /\ Chains /\ [Next]_vars => (TypeInv /\ Chains)'
  BY TypeNext, ChainsNext
<1> QED BY <1>1, <1>2, PTL DEF Spec

\* The trampolines of other libraries lead to detours of their own.
LEMMA ForeignNext ==
  ASSUME TypeInv, ForeignInv, [Next]_vars
  PROVE  ForeignInv'
<1> USE TransactionAssumption
<1>1. ASSUME NEW c \in Clients, NEW h \in Hooks, Attach(c, h) PROVE ForeignInv'
  <2>1. PICK s \in Slots :
          tramp' = [tramp EXCEPT ![s] = [target |-> TargetOf[h], detour |-> h,
                                         rest |-> code[TargetOf[h]]]]
    BY <1>1 DEF Attach
  <2> QED BY <2>1 DEF ForeignInv, TypeInv, TypeOK, Nodes, Live
<1>2. ASSUME ApplyRemove PROVE ForeignInv'
  <2>1. CASE tramp' = tramp
    BY <2>1 DEF ForeignInv, Live
  <2>2. CASE tramp' = [tramp EXCEPT ![ops[next].slot].detour = Bypass]
    <3>1. next \in DOMAIN ops
      BY <1>2, LenProperties DEF ApplyRemove, TypeInv, TypeOK
    <3>2. PICK s \in Slots : s = ops[next].slot
      BY <3>1, OperationFacts DEF TypeInv
    <3>3. /\ \A n \in Nodes : n # s => tramp'[n] = tramp[n]
          /\ tramp'[s] = [tramp[s] EXCEPT !.detour = Bypass]
          /\ tramp[s] \in Trampoline
      BY <2>2, <3>2 DEF TypeInv, TypeOK, Nodes
    <3>4. tramp'[s].detour = Bypass
      BY <3>3 DEF Trampoline
    <3> QED BY <3>3, <3>4 DEF ForeignInv, Live, Nodes
  <2> QED BY <1>2, <2>1, <2>2 DEF ApplyRemove, PutInBypass
<1>3. ASSUME RestoreOne PROVE ForeignInv'
  <2>1. PICK s \in Slots : s = ops[Len(ops)].slot
    BY <1>3, FrontFacts, OperationFacts DEF RestoreOne, TypeInv, TypeOK
  <2> QED
    BY <1>3, <2>1 DEF RestoreOne, ForeignInv, TypeInv, TypeOK, Nodes, Live, Zeroed
<1>4. ASSUME NEW f \in Foreign, NEW t \in Targets, ForeignHook(f, t) PROVE ForeignInv'
  BY <1>4 DEF ForeignHook, ForeignInv, TypeInv, TypeOK, Nodes, Live
<1>5. ASSUME NEW f \in Foreign, ForeignUnhook(f) PROVE ForeignInv'
  BY <1>5 DEF ForeignUnhook, ForeignInv, TypeInv, TypeOK, Nodes, Live, Zeroed
<1>6. ASSUME tramp' = tramp PROVE ForeignInv'
  BY <1>6 DEF ForeignInv, Live
<1> QED
  BY <1>1, <1>2, <1>3, <1>4, <1>5, <1>6
  DEF Next, Internal, Begin, Commit, Abort, Detach, ApplyAdd, EndApply, Leave, vars

Ordered == TypeInv /\ Chains /\ ForeignInv

LEMMA OrderedInvariant ==
  ASSUME Disciplined
  PROVE  Spec => []Ordered
<1>1. Init => ForeignInv
  BY TransactionAssumption DEF Init, ForeignInv, Live, Zeroed, Nodes
<1>2. TypeInv /\ ForeignInv /\ [Next]_vars => ForeignInv'
  BY ForeignNext
<1> QED BY <1>1, <1>2, ChainsInvariant, PTL DEF Spec, Ordered

\* The inductive invariant of the module TransactionInv holds in every
\* reachable state of a disciplined client.
THEOREM InductiveInvariant ==
  ASSUME Disciplined
  PROVE  Spec => []IInv
<1>1. Ordered => IInv
  BY DEF Ordered, Chains, IInv
<1> QED BY <1>1, OrderedInvariant, PTL

\* No jump, no pointer and no copied code leads to a trampoline that went back
\* to the free list.
THEOREM NothingDangles ==
  ASSUME Disciplined
  PROVE  Spec => []NoDanglingTrampoline
<1>1. ASSUME TypeInv, Chains PROVE NoDanglingTrampoline
  <2> USE <1>1, TransactionAssumption
  <2>1. \A n \in Chained : Live(n)
    BY DEF Chained
  <2>2. \A t \in Targets : code[t] \in Nodes => Live(code[t])
    BY <2>1 DEF Chains, ChainInv
  <2>3. \A h \in Hooks : ptr[h] \in Slots => Live(ptr[h])
    BY <2>1 DEF Chains, PointerInv
  <2>4. ASSUME NEW n \in Nodes, tramp[n].rest \in Nodes PROVE Live(tramp[n].rest)
    <3>1. Live(n)
      BY <2>4 DEF Live, Zeroed
    <3>2. CASE n \in Chained
      BY <2>1, <2>4, <3>2 DEF Chains, ChainInv
    <3>3. CASE Pending(n)
      <4>1. PICK i \in DOMAIN ops : Unapplied(i) /\ ops[i].kind = "add" /\ ops[i].slot = n
        BY <3>3 DEF Pending
      <4>2. tramp[n].rest = code[ops[i].target] /\ ops[i].target \in Targets
        BY <4>1, OperationFacts DEF TypeInv, Chains, OperationInv
      <4> QED BY <2>2, <2>4, <4>2
    <3>4. CASE Removed(n)
      <4>1. PICK i \in DOMAIN ops : ~Unapplied(i) /\ ops[i].kind = "remove" /\ ops[i].slot = n
        BY <3>4 DEF Removed
      <4>2. \/ tramp[n].rest \in Chained
            \/ \E j \in DOMAIN ops : ops[j].slot = tramp[n].rest
        BY <2>4, <4>1 DEF Chains, RemovedInv
      <4>3. \A j \in DOMAIN ops : Live(ops[j].slot)
        BY DEF Chains, OperationInv
      <4> QED BY <2>1, <4>2, <4>3
    <3> QED BY <2>4, <3>1, <3>2, <3>3, <3>4 DEF Chained
  <2> QED BY <2>2, <2>3, <2>4 DEF NoDanglingTrampoline
<1> QED BY <1>1, ChainsInvariant, PTL

LEMMA IdleFacts ==
  ASSUME TypeInv, phase = "idle"
  PROVE  \A n \in Nodes : Live(n) <=> n \in Chained
BY DEF TypeInv, PhaseInv, Chained, Pending, Removed

\* Between transactions a detour is reachable through a trampoline exactly when
\* the pointer of its hook says so.
THEOREM DetourReachable ==
  ASSUME Disciplined
  PROVE  Spec => []DetourReachableIffAttached
<1>1. ASSUME TypeInv, Chains PROVE DetourReachableIffAttached
  <2> SUFFICES ASSUME phase = "idle", NEW h \in Hooks, NEW s \in Slots
               PROVE  tramp[s].detour = h <=> ptr[h] = s
    BY DEF DetourReachableIffAttached
  <2> USE <1>1, TransactionAssumption
  <2>1. s \in Nodes
    BY DEF Nodes
  <2>2. ASSUME tramp[s].detour = h PROVE ptr[h] = s
    <3>1. Live(s)
      BY <2>2 DEF Live, Zeroed
    <3> QED BY <2>1, <2>2, <3>1, IdleFacts DEF Chains, PointerInv
  <2>3. ASSUME ptr[h] = s PROVE tramp[s].detour = h
    BY <2>3 DEF Chains, PointerInv
  <2> QED BY <2>2, <2>3
<1> QED BY <1>1, ChainsInvariant, PTL

\* Between transactions no trampoline is in use off the chains of the targets.
THEOREM NothingStranded ==
  ASSUME Disciplined
  PROVE  Spec => []NoStrandedTrampoline
<1>1. ASSUME TypeInv, Chains PROVE NoStrandedTrampoline
  <2> SUFFICES ASSUME phase = "idle", NEW n \in Nodes, Live(n)
               PROVE  \/ code[tramp[n].target] = n
                      \/ \E m \in Nodes : tramp[m].rest = n
    BY DEF NoStrandedTrampoline
  <2>1. n \in Chained /\ Chained \subseteq Nodes
    BY <1>1, IdleFacts DEF Chained
  <2> QED BY <1>1, <2>1 DEF Chains, ChainInv
<1> QED BY <1>1, ChainsInvariant, PTL

\* Commit leaks a trampoline only when a later hook's copy of its jump is in
\* use, and stays in use.
THEOREM LeaksAreJustified ==
  ASSUME Disciplined
  PROVE  Spec => LeakOnlyUnderALaterHook
<1> DEFINE Leaks == \A s \in Slots :
                      /\ tramp[s].detour # Bypass
                      /\ tramp'[s].detour = Bypass
                      => \E m \in Nodes : tramp[m].rest = s /\ tramp'[m].rest = s
<1>1. ASSUME TypeInv, Chains, Next PROVE Leaks
  <2> USE <1>1, TransactionAssumption
  <2> SUFFICES ASSUME NEW s \in Slots, tramp[s].detour # Bypass, tramp'[s].detour = Bypass
               PROVE  \E m \in Nodes : tramp[m].rest = s /\ tramp'[m].rest = s
    OBVIOUS
  <2>1. s \in Nodes /\ s \notin Foreign /\ tramp \in [Nodes -> Trampoline]
    BY DEF Nodes, TypeInv, TypeOK
  <2>2. ApplyRemove /\ ~HookIsStillThere(ops[next])
    <3>1. ASSUME NEW c \in Clients, NEW h \in Hooks, Attach(c, h) PROVE FALSE
      <4>1. PICK n \in Slots :
              tramp' = [tramp EXCEPT ![n] = [target |-> TargetOf[h], detour |-> h,
                                             rest |-> code[TargetOf[h]]]]
        BY <3>1 DEF Attach
      <4> QED BY <2>1, <4>1
    <3>2. ASSUME tramp' = tramp PROVE FALSE
      BY <3>2
    <3>3. ASSUME RestoreOne PROVE FALSE
      <4>1. ops[Len(ops)].slot \in Nodes
        BY <3>3, FrontFacts, OperationFacts DEF RestoreOne, TypeInv, TypeOK
      <4> QED BY <2>1, <3>2, <3>3, <4>1 DEF RestoreOne, Zeroed
    <3>4. ASSUME NEW f \in Foreign, NEW t \in Targets, ForeignHook(f, t) PROVE FALSE
      BY <2>1, <3>4 DEF ForeignHook
    <3>5. ASSUME NEW f \in Foreign, ForeignUnhook(f) PROVE FALSE
      BY <2>1, <3>5 DEF ForeignUnhook
    <3>6. ASSUME NEW c \in Clients, NEW h \in Hooks, Detach(c, h) PROVE FALSE
      BY <3>2, <3>6 DEF Detach
    <3>7. ASSUME NEW c \in Clients, Begin(c) \/ Commit(c) \/ Abort(c) PROVE FALSE
      BY <3>2, <3>7 DEF Begin, Commit, Abort
    <3>8. ASSUME ApplyAdd \/ EndApply \/ Leave PROVE FALSE
      BY <3>2, <3>8 DEF ApplyAdd, EndApply, Leave
    <3>9. ApplyRemove
      BY <3>1, <3>3, <3>4, <3>5, <3>6, <3>7, <3>8 DEF Next, Internal
    <3> QED BY <3>2, <3>9 DEF ApplyRemove
  <2>3. PICK k : k = next
    OBVIOUS
  <2>4. /\ phase = "apply" /\ next > 0 /\ next' = next - 1 /\ phase' = phase
        /\ ops[k].kind = "remove"
        /\ tramp' = [tramp EXCEPT ![ops[k].slot].detour = Bypass]
        /\ code[ops[k].target] # ops[k].slot
    BY <2>2, <2>3 DEF ApplyRemove, PutInBypass, HookIsStillThere
  <2>5. /\ k \in DOMAIN ops /\ Unapplied(k)
        /\ ops[k].slot \in Nodes /\ ops[k].slot \in Slots /\ ops[k].hook \in Hooks
        /\ tramp[ops[k].slot].target = ops[k].target
    BY <2>3, <2>4, PassFacts
  <2>6. s = ops[k].slot
    BY <2>1, <2>4, <2>5
  <2>7. ptr[ops[k].hook] = s
    BY <2>4, <2>5, <2>6 DEF Chains, OperationInv
  <2>8. s \in Chained
    BY <2>5, <2>7 DEF Chains, PointerInv
  <2>9. PICK m \in Chained : tramp[m].rest = s
    BY <2>4, <2>5, <2>6, <2>8 DEF Chains, ChainInv
  <2>10. m \in Nodes
    BY DEF Chained
  <2>11. tramp'[m].rest = tramp[m].rest
    BY <2>1, <2>4, <2>5, <2>10 DEF Trampoline
  <2> QED BY <2>9, <2>10, <2>11
<1>2. ASSUME TypeInv, Chains, [Next]_vars PROVE [Leaks]_vars
  BY <1>1, <1>2
<1>3. Spec => [][Leaks]_vars
  BY <1>2, ChainsInvariant, PTL DEF Spec
<1> QED BY <1>3 DEF LeakOnlyUnderALaterHook

-----------------------------------------------------------------------------
(* Protections, where no patched instructions cross a page boundary.       *)

NoStraddling == \A t \in Targets : PagesOf[t] = {FirstPage[t]}

LEMMA PermPend ==
  ASSUME TypeInv, PermInv, NoStraddling, NEW kind \in {"add", "remove"}, NEW h \in Hooks,
         NEW s \in Slots, NEW t \in Targets, Pend(kind, h, s, t)
  PROVE  PermInv'
<1>k. PICK k : k = Len(ops) + 1
  OBVIOUS
<1>p. PICK p : p = FirstPage[t]
  OBVIOUS
<1>1. /\ DOMAIN ops = 1..Len(ops) /\ Len(ops) \in Nat
      /\ DOMAIN ops' = DOMAIN ops \cup {k} /\ k \notin DOMAIN ops
      /\ \A i \in DOMAIN ops : ops'[i] = ops[i]
      /\ ops'[k].target = t /\ ops'[k].perm = perm[p]
  <2>1. TypeOK
    BY DEF TypeInv
  <2>2. DOMAIN ops = 1..Len(ops) /\ Len(ops) \in Nat /\ Len(ops) + 1 \notin DOMAIN ops
    BY <2>1, PendFacts
  <2>3. DOMAIN ops' = DOMAIN ops \cup {Len(ops) + 1}
    BY <2>1, PendFacts
  <2>4. \A i \in DOMAIN ops : ops'[i] = ops[i]
    BY <2>1, PendFacts
  <2>5. ops'[Len(ops) + 1].target = t
    BY <2>1, PendFacts
  <2>6. ops'[Len(ops) + 1].perm = perm[FirstPage[t]]
    BY <2>1, PendFacts
  <2> QED BY <1>k, <1>p, <2>2, <2>3, <2>4, <2>5, <2>6
<1>2. \A i \in DOMAIN ops : i < k /\ ~(k < i)
  BY <1>k, <1>1
<1>3. p \in Pages /\ PagesOf[t] = {p}
  BY <1>p, TransactionAssumption DEF NoStraddling
<1>4. \A q \in Pages : perm'[q] = IF q = p THEN RWX ELSE perm[q]
  BY <1>3 DEF Pend, Protect
<1>5. ASSUME NEW i \in DOMAIN ops'
      PROVE  ops'[i].perm =
               IF \E j \in DOMAIN ops' : j < i /\ FirstPage[ops'[j].target] = FirstPage[ops'[i].target]
               THEN RWX ELSE InitPerm[FirstPage[ops'[i].target]]
  <2>1. CASE i = k
    <3>1. ~(k < k)
      BY <1>k, <1>1
    <3>2. perm[p] = IF \E j \in DOMAIN ops : FirstPage[ops[j].target] = p
                    THEN RWX ELSE InitPerm[p]
      BY <1>3 DEF PermInv
    <3> QED BY <1>p, <1>1, <1>2, <2>1, <3>1, <3>2
  <2>2. CASE i \in DOMAIN ops
    <3>1. ops[i].perm =
            IF \E j \in DOMAIN ops : j < i /\ FirstPage[ops[j].target] = FirstPage[ops[i].target]
            THEN RWX ELSE InitPerm[FirstPage[ops[i].target]]
      BY <2>2 DEF PermInv
    <3> QED BY <1>1, <1>2, <2>2, <3>1
  <2> QED BY <1>1, <2>1, <2>2
<1>6. ASSUME NEW q \in Pages
      PROVE  perm'[q] = IF \E i \in DOMAIN ops' : FirstPage[ops'[i].target] = q
                        THEN RWX ELSE InitPerm[q]
  <2>1. perm[q] = IF \E i \in DOMAIN ops : FirstPage[ops[i].target] = q
                  THEN RWX ELSE InitPerm[q]
    BY DEF PermInv
  <2> QED BY <1>p, <1>1, <1>4, <2>1
<1> QED BY <1>5, <1>6 DEF PermInv

LEMMA PermRestore ==
  ASSUME TypeInv, Chains, PermInv, NoStraddling, RestoreOne
  PROVE  PermInv'
<1> USE TransactionAssumption
<1>k. PICK k : k = Len(ops)
  OBVIOUS
<1>1. /\ k \in DOMAIN ops /\ DOMAIN ops' = DOMAIN ops \ {k}
      /\ \A i \in DOMAIN ops' : ops'[i] = ops[i]
      /\ \A i \in DOMAIN ops' : i < k /\ ~(k < i)
      /\ ~(k < k)
  <2>1. ops \in Seq(Operation) /\ ops # << >> /\ ops' = SubSeq(ops, 1, Len(ops) - 1)
    BY DEF RestoreOne, TypeInv, TypeOK
  <2>2. Len(ops) \in Nat
    BY <2>1, LenProperties
  <2>3. /\ Len(ops) \in DOMAIN ops /\ DOMAIN ops = 1..Len(ops)
        /\ DOMAIN ops' = 1..Len(ops) - 1
        /\ \A i \in 1..Len(ops) - 1 : ops'[i] = ops[i]
    BY <2>1, FrontFacts
  <2>4. 1..Len(ops) - 1 = (1..Len(ops)) \ {k}
    BY <1>k, <2>2
  <2>5. \A i \in 1..Len(ops) - 1 : i < k /\ ~(k < i)
    BY <1>k, <2>2
  <2>6. ~(k < k)
    BY <1>k, <2>2
  <2> QED BY <1>k, <2>3, <2>4, <2>5, <2>6
<1>p. PICK p : p = FirstPage[ops[k].target]
  OBVIOUS
<1>2. ops[k].target \in Targets /\ p \in Pages /\ PagesOf[ops[k].target] = {p}
  BY <1>1, <1>p, OperationFacts DEF NoStraddling, TypeInv
<1>3. \A q \in Pages : perm'[q] = IF q = p THEN ops[k].perm ELSE perm[q]
  <2>1. Live(ops[k].slot)
    BY <1>1 DEF Chains, OperationInv
  <2>2. perm' = Protect(ops[k].target, ops[k].perm)
    BY <1>k, <2>1 DEF RestoreOne, Unprotect
  <2> QED BY <1>2, <2>2 DEF Protect
<1>4. ASSUME NEW i \in DOMAIN ops'
      PROVE  ops'[i].perm =
               IF \E j \in DOMAIN ops' : j < i /\ FirstPage[ops'[j].target] = FirstPage[ops'[i].target]
               THEN RWX ELSE InitPerm[FirstPage[ops'[i].target]]
  <2>1. ops[i].perm =
          IF \E j \in DOMAIN ops : j < i /\ FirstPage[ops[j].target] = FirstPage[ops[i].target]
          THEN RWX ELSE InitPerm[FirstPage[ops[i].target]]
    BY <1>1 DEF PermInv
  <2> QED BY <1>1, <2>1
<1>5. ASSUME NEW q \in Pages
      PROVE  perm'[q] = IF \E i \in DOMAIN ops' : FirstPage[ops'[i].target] = q
                        THEN RWX ELSE InitPerm[q]
  <2>1. perm[q] = IF \E i \in DOMAIN ops : FirstPage[ops[i].target] = q
                  THEN RWX ELSE InitPerm[q]
    BY DEF PermInv
  <2>2. ops[k].perm = IF \E j \in DOMAIN ops : j < k /\ FirstPage[ops[j].target] = p
                      THEN RWX ELSE InitPerm[p]
    BY <1>p, <1>1 DEF PermInv
  <2>3. CASE q = p
    BY <1>1, <1>3, <2>2, <2>3
  <2>4. CASE q # p
    BY <1>p, <1>1, <1>3, <2>1, <2>4
  <2> QED BY <2>3, <2>4
<1> QED BY <1>4, <1>5 DEF PermInv

LEMMA PermSteady ==
  ASSUME PermInv, perm' = perm, DOMAIN ops' = DOMAIN ops,
         \A i \in DOMAIN ops : ops'[i].target = ops[i].target /\ ops'[i].perm = ops[i].perm
  PROVE  PermInv'
<1>1. ASSUME NEW i \in DOMAIN ops
      PROVE  ops'[i].perm =
               IF \E j \in DOMAIN ops : j < i /\ FirstPage[ops'[j].target] = FirstPage[ops'[i].target]
               THEN RWX ELSE InitPerm[FirstPage[ops'[i].target]]
  BY DEF PermInv
<1>2. ASSUME NEW q \in Pages
      PROVE  perm'[q] = IF \E i \in DOMAIN ops : FirstPage[ops'[i].target] = q
                        THEN RWX ELSE InitPerm[q]
  BY DEF PermInv
<1> QED BY <1>1, <1>2 DEF PermInv

LEMMA PermNext ==
  ASSUME NoStraddling, TypeInv, Chains, PermInv, [Next]_vars
  PROVE  PermInv'
<1>1. ASSUME NEW c \in Clients, NEW h \in Hooks, Attach(c, h) PROVE PermInv'
  <2>1. PICK s \in Slots : Pend("add", h, s, TargetOf[h])
    BY <1>1 DEF Attach
  <2>2. TargetOf[h] \in Targets /\ "add" \in {"add", "remove"}
    BY TransactionAssumption
  <2> QED BY <2>1, <2>2, PermPend
<1>2. ASSUME NEW c \in Clients, NEW h \in Hooks, Detach(c, h) PROVE PermInv'
  <2>1. Pend("remove", h, ptr[h], tramp[ptr[h]].target) /\ ptr[h] \in Slots
    BY <1>2 DEF Detach
  <2>2. tramp[ptr[h]].target \in Targets /\ "remove" \in {"add", "remove"}
    BY <2>1, ChainedTypes DEF Chains, PointerInv
  <2> QED BY <2>1, <2>2, PermPend
<1>3. ASSUME ApplyRemove PROVE PermInv'
  <2>1. CASE ops' = ops
    BY <1>3, <2>1, PermSteady DEF ApplyRemove
  <2>2. CASE ops' = [ops EXCEPT ![next].kind = "none"]
    <3>1. phase = "apply" /\ next > 0 /\ next' = next - 1 /\ phase' = phase /\ perm' = perm
      BY <1>3 DEF ApplyRemove
    <3>2. next \in DOMAIN ops /\ ops \in Seq(Operation)
      BY <3>1, LenProperties DEF TypeInv, TypeOK
    <3>3. /\ DOMAIN ops' = DOMAIN ops
          /\ \A i \in DOMAIN ops : ops'[i].target = ops[i].target /\ ops'[i].perm = ops[i].perm
      BY <2>2, <3>2, LeakFacts
    <3> QED BY <3>1, <3>3, PermSteady
  <2> QED BY <1>3, <2>1, <2>2 DEF ApplyRemove
<1>4. ASSUME RestoreOne PROVE PermInv'
  BY <1>4, PermRestore
<1>5. ASSUME UNCHANGED <<ops, perm>> PROVE PermInv'
  BY <1>5, PermSteady
<1> QED
  BY <1>1, <1>2, <1>3, <1>4, <1>5
  DEF Next, Internal, Begin, Commit, Abort, ApplyAdd, EndApply, Leave, ForeignHook,
      ForeignUnhook, vars

\* When a transaction is over, every page has the protection it had before the
\* first transaction, if the patched bytes of no target lie on two pages.
THEOREM ProtectionsRestored ==
  ASSUME Disciplined, NoStraddling
  PROVE  Spec => []PermsRestored
<1>1. Init => PermInv
  BY TransactionAssumption DEF Init, PermInv
<1>2. ASSUME TypeInv, PermInv PROVE PermsRestored
  <2> SUFFICES ASSUME phase = "idle" PROVE perm = InitPerm
    BY DEF PermsRestored
  <2>1. perm \in [Pages -> Perms] /\ InitPerm \in [Pages -> Perms]
    BY <1>2, TransactionAssumption DEF TypeInv, TypeOK
  <2>2. \A p \in Pages : perm[p] = InitPerm[p]
    BY <1>2 DEF TypeInv, PhaseInv, PermInv
  <2> QED BY <2>1, <2>2
<1>3. TypeInv /\ Chains /\ PermInv /\ [Next]_vars => PermInv'
  BY PermNext
<1> QED BY <1>1, <1>2, <1>3, ChainsInvariant, PTL DEF Spec

-----------------------------------------------------------------------------
(* What a call meets on its way from x, where follow leads.  Met is the least *)
(* set that contains x and that follow does not leave.                        *)

LEMMA MetFacts ==
  ASSUME NEW F, NEW x
  PROVE  /\ Met(F, x) \subseteq Nodes
         /\ x \in Nodes => x \in Met(F, x)
         /\ \A m \in Met(F, x) : F[m] \in Nodes => F[m] \in Met(F, x)
BY DEF Met

LEMMA MetLeast ==
  ASSUME NEW F, NEW x, NEW S \in SUBSET Nodes,
         x \in Nodes => x \in S,
         \A m \in S : F[m] \in Nodes => F[m] \in S
  PROVE  Met(F, x) \subseteq S
BY DEF Met

\* A call that comes to x goes on where x leads to.
LEMMA MetTop ==
  ASSUME NEW F, NEW x \in Nodes
  PROVE  Met(F, x) = {x} \cup Met(F, F[x])
<1>1. Met(F, x) \subseteq {x} \cup Met(F, F[x])
  <2>1. {x} \cup Met(F, F[x]) \in SUBSET Nodes
    BY MetFacts
  <2>2. \A m \in {x} \cup Met(F, F[x]) : F[m] \in Nodes => F[m] \in {x} \cup Met(F, F[x])
    BY MetFacts
  <2> QED BY <2>1, <2>2, MetLeast
<1>2. Met(F, F[x]) \subseteq Met(F, x)
  <2>1. Met(F, x) \in SUBSET Nodes
    BY MetFacts
  <2>2. F[x] \in Nodes => F[x] \in Met(F, x)
    BY MetFacts
  <2>3. \A m \in Met(F, x) : F[m] \in Nodes => F[m] \in Met(F, x)
    BY MetFacts
  <2> QED BY <2>1, <2>2, <2>3, MetLeast
<1> QED BY <1>1, <1>2, MetFacts

\* The rest of the way is part of the way.
LEMMA MetOn ==
  ASSUME NEW F, NEW x, NEW n \in Met(F, x)
  PROVE  Met(F, F[n]) \subseteq Met(F, x)
<1>1. Met(F, x) \in SUBSET Nodes
  BY MetFacts
<1>2. F[n] \in Nodes => F[n] \in Met(F, x)
  BY MetFacts
<1>3. \A m \in Met(F, x) : F[m] \in Nodes => F[m] \in Met(F, x)
  BY MetFacts
<1> QED BY <1>1, <1>2, <1>3, MetLeast

\* Only the trampolines on the way matter.
LEMMA MetSame ==
  ASSUME NEW F, NEW F2, NEW x, \A n \in Met(F, x) : F2[n] = F[n]
  PROVE  Met(F2, x) = Met(F, x)
<1>1. Met(F2, x) \subseteq Met(F, x)
  <2>1. Met(F, x) \in SUBSET Nodes
    BY MetFacts
  <2>2. x \in Nodes => x \in Met(F, x)
    BY MetFacts
  <2>3. \A m \in Met(F, x) : F2[m] \in Nodes => F2[m] \in Met(F, x)
    BY MetFacts
  <2> QED BY <2>1, <2>2, <2>3, MetLeast
<1>2. Met(F, x) \subseteq Met(F, x) \cap Met(F2, x)
  <2>1. Met(F, x) \cap Met(F2, x) \in SUBSET Nodes
    BY MetFacts
  <2>2. x \in Nodes => x \in Met(F, x) \cap Met(F2, x)
    BY MetFacts
  <2>3. \A m \in Met(F, x) \cap Met(F2, x) :
          F[m] \in Nodes => F[m] \in Met(F, x) \cap Met(F2, x)
    BY MetFacts
  <2> QED BY <2>1, <2>2, <2>3, MetLeast
<1> QED BY <1>1, <1>2

LEMMA RunsSame ==
  ASSUME NEW F, NEW F2, NEW G, NEW G2, NEW x,
         \A n \in Met(F, x) : F2[n] = F[n] /\ G2[n] = G[n]
  PROVE  Runs(F2, G2, x) = Runs(F, G, x)
<1>1. Met(F2, x) = Met(F, x)
  BY MetSame
<1>2. {G2[n] : n \in Met(F, x)} = {G[n] : n \in Met(F, x)}
  OBVIOUS
<1>3. {F2[n] : n \in Met(F, x)} = {F[n] : n \in Met(F, x)}
  OBVIOUS
<1> QED BY <1>1, <1>2, <1>3 DEF Runs

LEMMA BeforeSame ==
  ASSUME NEW F, NEW F2, NEW G, NEW G2, NEW x,
         \A n \in Met(F, x) : F2[n] = F[n] /\ G2[n] = G[n]
  PROVE  Before(F2, G2, x) = Before(F, G, x)
<1>1. Met(F2, x) = Met(F, x)
  BY MetSame
<1>2. {m \in Met(F, x) : G2[m] # Bypass} = {m \in Met(F, x) : G[m] # Bypass}
  OBVIOUS
<1>3. ASSUME NEW n \in Met(F, x)
      PROVE  {G2[n]} \X Runs(F2, G2, F2[n]) = {G[n]} \X Runs(F, G, F[n])
  <2>1. Met(F, F[n]) \subseteq Met(F, x)
    BY MetOn
  <2>2. Runs(F2, G2, F[n]) = Runs(F, G, F[n])
    BY <2>1, RunsSame
  <2> QED BY <2>2
<1>4. {{G2[n]} \X Runs(F2, G2, F2[n]) : n \in {m \in Met(F, x) : G2[m] # Bypass}}
      = {{G[n]} \X Runs(F, G, F[n]) : n \in {m \in Met(F, x) : G[m] # Bypass}}
  BY <1>2, <1>3
<1> QED BY <1>1, <1>4 DEF Before

\* What runs, and what runs before what, as facts about their members.
LEMMA RunsMember ==
  ASSUME NEW F, NEW G, NEW x, NEW d
  PROVE  d \in Runs(F, G, x) <=>
           \/ d # Bypass /\ \E n \in Met(F, x) : d = G[n]
           \/ d \notin Nodes /\ (d = x \/ \E n \in Met(F, x) : d = F[n])
BY DEF Runs

LEMMA BeforeMember ==
  ASSUME NEW F, NEW G, NEW x, NEW p
  PROVE  p \in Before(F, G, x) <=>
           \E n \in Met(F, x) : G[n] # Bypass /\ p \in {G[n]} \X Runs(F, G, F[n])
<1> DEFINE Ways == {{G[n]} \X Runs(F, G, F[n]) : n \in {m \in Met(F, x) : G[m] # Bypass}}
<1>1. p \in UNION Ways <=> \E W \in Ways : p \in W
  OBVIOUS
<1>2. (\E W \in Ways : p \in W) <=>
        \E n \in Met(F, x) : G[n] # Bypass /\ p \in {G[n]} \X Runs(F, G, F[n])
  OBVIOUS
<1> QED BY <1>1, <1>2 DEF Before

LEMMA PairMember ==
  ASSUME NEW a, NEW S, NEW p, p \in {a} \X S
  PROVE  p[1] = a /\ p[2] \in S
OBVIOUS

\* The top of a chain runs before all the rest of it.
LEMMA RunsFront ==
  ASSUME NEW F, NEW G, NEW x \in Nodes, G[x] # Bypass
  PROVE  Runs(F, G, x) = {G[x]} \cup Runs(F, G, F[x])
<1>1. Met(F, x) = {x} \cup Met(F, F[x])
  BY MetTop
<1> QED BY <1>1 DEF Runs

LEMMA BeforeFront ==
  ASSUME NEW F, NEW G, NEW x \in Nodes, G[x] # Bypass
  PROVE  Before(F, G, x) = ({G[x]} \X Runs(F, G, F[x])) \cup Before(F, G, F[x])
<1>1. Met(F, x) = {x} \cup Met(F, F[x])
  BY MetTop
<1>2. ASSUME NEW p
      PROVE  p \in Before(F, G, x) <=>
               p \in {G[x]} \X Runs(F, G, F[x]) \/ p \in Before(F, G, F[x])
  BY <1>1, BeforeMember
<1> QED BY <1>2

\* Nothing runs before anything, or after it, that does not run.
LEMMA BeforeWithin ==
  ASSUME NEW F, NEW G, NEW x, NEW p \in Before(F, G, x)
  PROVE  p[1] \in Runs(F, G, x) /\ p[2] \in Runs(F, G, x)
<1>1. PICK n \in Met(F, x) : G[n] # Bypass /\ p \in {G[n]} \X Runs(F, G, F[n])
  BY BeforeMember
<1>2. p[1] = G[n] /\ p[2] \in Runs(F, G, F[n])
  BY <1>1, PairMember
<1>3. Met(F, F[n]) \subseteq Met(F, x)
  BY MetOn
<1>4. p[1] \in Runs(F, G, x)
  BY <1>1, <1>2, RunsMember
<1>5. \/ p[2] # Bypass /\ \E m \in Met(F, F[n]) : p[2] = G[m]
      \/ p[2] \notin Nodes /\ (p[2] = F[n] \/ \E m \in Met(F, F[n]) : p[2] = F[m])
  BY <1>2, RunsMember
<1>6. p[2] \in Runs(F, G, x)
  BY <1>3, <1>5, RunsMember
<1> QED BY <1>4, <1>6

\* Without a detour that does not run, nothing changes.
LEMMA TakeOutOther ==
  ASSUME NEW F, NEW G, NEW x, NEW d, d \notin Runs(F, G, x)
  PROVE  /\ Runs(F, G, x) \ {d} = Runs(F, G, x)
         /\ {p \in Before(F, G, x) : d \notin {p[1], p[2]}} = Before(F, G, x)
BY BeforeWithin

\* A detour on top of the chain is taken out by leading the jump past it.
LEMMA TakeOutTop ==
  ASSUME NEW F, NEW G, NEW x \in Nodes, G[x] # Bypass, G[x] \notin Runs(F, G, F[x])
  PROVE  /\ Runs(F, G, x) \ {G[x]} = Runs(F, G, F[x])
         /\ {p \in Before(F, G, x) : G[x] \notin {p[1], p[2]}} = Before(F, G, F[x])
<1>1. Runs(F, G, x) \ {G[x]} = Runs(F, G, F[x])
  BY RunsFront
<1>2. {p \in Before(F, G, F[x]) : G[x] \notin {p[1], p[2]}} = Before(F, G, F[x])
  BY TakeOutOther
<1>3. \A p \in {G[x]} \X Runs(F, G, F[x]) : p[1] = G[x]
  BY PairMember
<1>4. Before(F, G, x) = ({G[x]} \X Runs(F, G, F[x])) \cup Before(F, G, F[x])
  BY BeforeFront
<1> QED BY <1>1, <1>2, <1>3, <1>4

\* A detour anywhere on the chain is taken out by putting its trampoline in bypass.
Hides(F, G, F2, G2, x, d) ==
  /\ d # Bypass
  /\ x \notin Nodes => x # d
  /\ \A n \in Met(F, x) : /\ F2[n] = F[n]
                          /\ F[n] \notin Nodes => F[n] # d
                          /\ G[n] = d => G2[n] = Bypass
                          /\ G[n] # d => G2[n] = G[n]

LEMMA TakeOutHidden ==
  ASSUME NEW F, NEW G, NEW F2, NEW G2, NEW x, NEW d, Hides(F, G, F2, G2, x, d)
  PROVE  /\ Runs(F2, G2, x) = Runs(F, G, x) \ {d}
         /\ Before(F2, G2, x) = {p \in Before(F, G, x) : d \notin {p[1], p[2]}}
<1>1. /\ d # Bypass
      /\ x \notin Nodes => x # d
      /\ \A n \in Met(F, x) : /\ F2[n] = F[n]
                              /\ F[n] \notin Nodes => F[n] # d
                              /\ G[n] = d => G2[n] = Bypass
                              /\ G[n] # d => G2[n] = G[n]
  BY DEF Hides
<1>2. ASSUME NEW y, Met(F, y) \subseteq Met(F, x), y \notin Nodes => y # d
      PROVE  Runs(F2, G2, y) = Runs(F, G, y) \ {d}
  <2>1. Met(F2, y) = Met(F, y)
    BY <1>1, <1>2, MetSame
  <2>2. ASSUME NEW e PROVE e \in Runs(F2, G2, y) <=> e \in Runs(F, G, y) /\ e # d
    <3>1. (e # Bypass /\ \E n \in Met(F, y) : e = G2[n]) <=>
            (e # Bypass /\ e # d /\ \E n \in Met(F, y) : e = G[n])
      BY <1>1, <1>2
    <3>2. (e \notin Nodes /\ (e = y \/ \E n \in Met(F, y) : e = F2[n])) <=>
            (e \notin Nodes /\ e # d /\ (e = y \/ \E n \in Met(F, y) : e = F[n]))
      BY <1>1, <1>2
    <3>3. e \in Runs(F2, G2, y) <=>
           \/ e # Bypass /\ \E n \in Met(F, y) : e = G2[n]
           \/ e \notin Nodes /\ (e = y \/ \E n \in Met(F, y) : e = F2[n])
      BY <2>1, RunsMember
    <3>4. e \in Runs(F, G, y) <=>
           \/ e # Bypass /\ \E n \in Met(F, y) : e = G[n]
           \/ e \notin Nodes /\ (e = y \/ \E n \in Met(F, y) : e = F[n])
      BY RunsMember
    <3> QED BY <3>1, <3>2, <3>3, <3>4
  <2> QED BY <2>2
<1>3. Runs(F2, G2, x) = Runs(F, G, x) \ {d}
  BY <1>1, <1>2
<1>4. \A n \in Met(F, x) : Runs(F2, G2, F2[n]) = Runs(F, G, F[n]) \ {d}
  BY <1>1, <1>2, MetOn
<1>5. Met(F2, x) = Met(F, x)
  BY <1>1, MetSame
<1>6. ASSUME NEW p
      PROVE  p \in Before(F2, G2, x) <=> p \in Before(F, G, x) /\ d \notin {p[1], p[2]}
  <2>1. ASSUME NEW n \in Met(F, x)
        PROVE  (G2[n] # Bypass /\ p \in {G2[n]} \X Runs(F2, G2, F2[n])) <=>
                 (/\ G[n] # Bypass /\ p \in {G[n]} \X Runs(F, G, F[n])
                  /\ d # p[1] /\ d # p[2])
    <3>1. CASE G[n] = d
      BY <1>1, <3>1, PairMember
    <3>2. CASE G[n] # d
      <4>1. G2[n] = G[n] /\ Runs(F2, G2, F2[n]) = Runs(F, G, F[n]) \ {d}
        BY <1>1, <1>4, <3>2
      <4>2. p \in {G[n]} \X (Runs(F, G, F[n]) \ {d}) <=>
              p \in {G[n]} \X Runs(F, G, F[n]) /\ d # p[1] /\ d # p[2]
        BY <3>2
      <4> QED BY <4>1, <4>2
    <3> QED BY <3>1, <3>2
  <2>2. p \in Before(F2, G2, x) <=>
          \E n \in Met(F, x) : G2[n] # Bypass /\ p \in {G2[n]} \X Runs(F2, G2, F2[n])
    BY <1>5, BeforeMember
  <2>3. p \in Before(F, G, x) <=>
          \E n \in Met(F, x) : G[n] # Bypass /\ p \in {G[n]} \X Runs(F, G, F[n])
    BY BeforeMember
  <2> QED BY <2>1, <2>2, <2>3
<1> QED BY <1>3, <1>6
-----------------------------------------------------------------------------
(* Transaction implements HookOrder.                                          *)

\* Calls go through the chains: from a target to the trampolines of its own, from
\* each to its copied code, and no two of them have the same detour.
LEMMA OrderFacts ==
  ASSUME Ordered
  PROVE  /\ \A n \in Chained : /\ Follow[n] = tramp[n].rest
                               /\ Detours[n] = tramp[n].detour
                               /\ Follow[n] \in Nodes \cup {Original}
                               /\ Detours[n] \in Hooks \cup Foreign \cup {Bypass}
         /\ \A t \in Targets : \A n \in Met(Follow, code[t]) :
              n \in Chained /\ tramp[n].target = t
         /\ \A m, n \in Chained : Detours[m] = Detours[n] /\ Detours[m] # Bypass => m = n
<1> USE TransactionAssumption
<1>1. ASSUME NEW n \in Chained
      PROVE  /\ Follow[n] = tramp[n].rest
             /\ Detours[n] = tramp[n].detour
             /\ Follow[n] \in Nodes \cup {Original}
             /\ Detours[n] \in Hooks \cup Foreign \cup {Bypass}
  <2>1. n \in Nodes /\ Live(n)
    BY DEF Chained
  <2>2. Follow[n] = tramp[n].rest /\ Detours[n] = tramp[n].detour
    BY <2>1 DEF Ordered, Chains, PointerInv, Follow, Detours, After
  <2>3. tramp[n] \in Trampoline /\ tramp[n].rest # Null /\ tramp[n].detour # Null
    BY <2>1 DEF Ordered, TypeInv, TypeOK, FieldInv
  <2> QED BY <2>2, <2>3 DEF Trampoline
<1>2. ASSUME NEW t \in Targets, NEW n \in Met(Follow, code[t])
      PROVE  n \in Chained /\ tramp[n].target = t
  <2>1. PICK S : S = {m \in Chained : tramp[m].target = t}
    OBVIOUS
  <2>2. S \in SUBSET Nodes
    BY <2>1 DEF Chained
  <2>3. code[t] \in Nodes => code[t] \in S
    BY <2>1 DEF Ordered, Chains, ChainInv
  <2>4. \A m \in S : Follow[m] \in Nodes => Follow[m] \in S
    BY <1>1, <2>1 DEF Ordered, Chains, ChainInv
  <2>5. Met(Follow, code[t]) \subseteq S
    BY <2>2, <2>3, <2>4, MetLeast
  <2> QED BY <2>1, <2>5
<1>3. ASSUME NEW m \in Chained, NEW n \in Chained,
             Detours[m] = Detours[n], Detours[m] # Bypass
      PROVE  m = n
  <2>1. /\ m \in Nodes /\ n \in Nodes /\ Live(m) /\ Live(n)
        /\ tramp[m].detour = tramp[n].detour
        /\ tramp[m].detour \in Hooks \cup Foreign
    BY <1>1, <1>3 DEF Chained
  <2>2. CASE tramp[m].detour \in Hooks
    BY <2>1, <2>2 DEF Ordered, Chains, PointerInv
  <2>3. CASE tramp[m].detour \in Foreign
    BY <2>1, <2>3 DEF Ordered, ForeignInv, Nodes
  <2> QED BY <2>1, <2>2, <2>3
<1> QED BY <1>1, <1>2, <1>3

LEMMA OrderFactsNext ==
  ASSUME Ordered', NEW n \in Chained'
  PROVE  Follow'[n] = tramp'[n].rest /\ Detours'[n] = tramp'[n].detour
<1>1. n \in Nodes
  BY DEF Chained
<1>2. tramp'[n].detour \in Hooks => ptr'[tramp'[n].detour] = n
  BY DEF Ordered, Chains, PointerInv
<1>3. Detours'[n] = tramp'[n].detour
  BY <1>1 DEF Detours
<1>4. Follow'[n] = After(n)'
  BY <1>1 DEF Follow
<1> QED BY <1>2, <1>3, <1>4 DEF After

\* Calls of t only run what is on the chain of t.
LEMMA CallsNot ==
  ASSUME Ordered, NEW t \in Targets, NEW d \in Hooks \cup Foreign,
         \A n \in Chained : tramp[n].target = t => tramp[n].detour # d
  PROVE  d \notin Runs(Follow, Detours, code[t])
<1> USE TransactionAssumption
<1>1. \A n \in Met(Follow, code[t]) : Detours[n] # d /\ Follow[n] \in Nodes \cup {Original}
  BY OrderFacts
<1>2. code[t] \in Nodes \cup {Original}
  BY DEF Ordered, TypeInv, TypeOK
<1>3. d # Original
  BY DEF Nodes
<1>4. d \notin Nodes => code[t] # d /\ \A n \in Met(Follow, code[t]) : Follow[n] # d
  BY <1>1, <1>2, <1>3
<1> QED BY <1>1, <1>4, RunsMember

\* A call of t runs what it ran before, if the chain of t did not change.
LEMMA CallKept ==
  ASSUME Ordered, Ordered', NEW t \in Targets, code'[t] = code[t],
         \A n \in Chained : tramp[n].target = t => n \in Chained' /\ tramp'[n] = tramp[n]
  PROVE  /\ CallRuns'[t] = CallRuns[t]
         /\ CallOrder'[t] = CallOrder[t]
<1>1. PICK F, G, F2, G2 : F = Follow /\ G = Detours /\ F2 = Follow' /\ G2 = Detours'
  OBVIOUS
<1>2. \A n \in Met(F, code[t]) : F2[n] = F[n] /\ G2[n] = G[n]
  <2> TAKE n \in Met(F, code[t])
  <2>1. n \in Chained /\ tramp[n].target = t
    BY <1>1, OrderFacts
  <2>2. n \in Chained' /\ tramp'[n] = tramp[n]
    BY <2>1
  <2> QED BY <1>1, <2>1, <2>2, OrderFacts, OrderFactsNext
<1>3. /\ Runs(F2, G2, code[t]) = Runs(F, G, code[t])
      /\ Before(F2, G2, code[t]) = Before(F, G, code[t])
  BY <1>2, RunsSame, BeforeSame
<1> QED BY <1>1, <1>3 DEF CallRuns, CallOrder

\* Putting n, which leads to detour d, on top of the chain of t.
LEMMA FrontStep ==
  ASSUME Ordered, Ordered', NEW t \in Targets, NEW n \in Nodes, NEW d \in Hooks \cup Foreign,
         n \notin Chained, Chained' = Chained \cup {n},
         code' = [code EXCEPT ![t] = n],
         tramp'[n].detour = d, tramp'[n].rest = code[t],
         \A m \in Chained : tramp'[m] = tramp[m] /\ tramp[m].detour # d
  PROVE  Abstract!InFront(t, d)
<1>1. PICK F, G, F2, G2, x : /\ F = Follow /\ G = Detours /\ F2 = Follow' /\ G2 = Detours'
                             /\ x = code[t]
  OBVIOUS
<1>2. \A u \in Targets : code'[u] = IF u = t THEN n ELSE code[u]
  BY DEF Ordered, TypeInv, TypeOK
<1>3. F2[n] = x /\ G2[n] = d /\ d # Bypass
  BY <1>1, OrderFactsNext, TransactionAssumption
<1>4. \A m \in Met(F, x) : F2[m] = F[m] /\ G2[m] = G[m]
  BY <1>1, OrderFacts, OrderFactsNext
<1>5. Runs(F2, G2, x) = Runs(F, G, x) /\ Before(F2, G2, x) = Before(F, G, x)
  BY <1>4, RunsSame, BeforeSame
<1>6. /\ Runs(F2, G2, n) = {d} \cup Runs(F, G, x)
      /\ Before(F2, G2, n) = ({d} \X Runs(F, G, x)) \cup Before(F, G, x)
  BY <1>3, <1>5, RunsFront, BeforeFront
<1>7. \A u \in Targets : d \notin CallRuns[u]
  BY CallsNot DEF CallRuns
<1>8. ASSUME NEW u \in Targets, u # t
      PROVE  CallRuns'[u] = CallRuns[u] /\ CallOrder'[u] = CallOrder[u]
  BY <1>2, <1>8, CallKept
<1>9. /\ CallRuns[t] = Runs(F, G, x) /\ CallOrder[t] = Before(F, G, x)
      /\ CallRuns'[t] = {d} \cup Runs(F, G, x)
      /\ CallOrder'[t] = ({d} \X Runs(F, G, x)) \cup Before(F, G, x)
  BY <1>1, <1>2, <1>6 DEF CallRuns, CallOrder
<1>10. CallRuns' = [CallRuns EXCEPT ![t] = {d} \cup @]
  BY <1>8, <1>9 DEF CallRuns
<1>11. CallOrder' = [CallOrder EXCEPT ![t] = ({d} \X CallRuns[t]) \cup @]
  BY <1>8, <1>9 DEF CallOrder
<1> QED BY <1>7, <1>10, <1>11 DEF Abstract!InFront

Without(d) ==
  /\ CallRuns' = [t \in Targets |-> CallRuns[t] \ {d}]
  /\ CallOrder' = [t \in Targets |-> {p \in CallOrder[t] : d \notin {p[1], p[2]}}]

LEMMA WithoutEach ==
  ASSUME NEW d,
         \A t \in Targets :
           /\ CallRuns'[t] = CallRuns[t] \ {d}
           /\ CallOrder'[t] = {p \in CallOrder[t] : d \notin {p[1], p[2]}}
  PROVE  Without(d)
<1>1. CallRuns' = [t \in Targets |-> CallRuns'[t]]
  BY DEF CallRuns
<1>2. CallOrder' = [t \in Targets |-> CallOrder'[t]]
  BY DEF CallOrder
<1> QED BY <1>1, <1>2 DEF Without

\* Taking out what runs nowhere changes nothing.
LEMMA WithoutFacts ==
  ASSUME NEW d, Without(d)
  PROVE  Abstract!TakeOut(d) \/ UNCHANGED <<CallRuns, CallOrder>>
<1>1. CASE \E t \in Targets : d \in CallRuns[t]
  BY <1>1 DEF Without, Abstract!TakeOut
<1>2. CASE \A t \in Targets : d \notin CallRuns[t]
  <2>1. ASSUME NEW t \in Targets
        PROVE  /\ CallRuns[t] \ {d} = CallRuns[t]
               /\ {p \in CallOrder[t] : d \notin {p[1], p[2]}} = CallOrder[t]
    BY <1>2, TakeOutOther DEF CallRuns, CallOrder
  <2>2. CallRuns' = [t \in Targets |-> CallRuns[t]]
    BY <2>1 DEF Without
  <2>3. CallOrder' = [t \in Targets |-> CallOrder[t]]
    BY <2>1 DEF Without
  <2> QED BY <2>2, <2>3 DEF CallRuns, CallOrder
<1> QED BY <1>1, <1>2

\* Taking n off the top of the chain of t.
LEMMA TopStep ==
  ASSUME Ordered, Ordered', NEW t \in Targets, NEW n \in Nodes,
         code[t] = n, Chained' = Chained \ {n}, tramp[n].detour # Bypass,
         code' = [code EXCEPT ![t] = tramp[n].rest],
         \A m \in Chained' : tramp'[m] = tramp[m]
  PROVE  Without(tramp[n].detour)
<1> USE TransactionAssumption
<1>1. PICK F, G, F2, G2, d : /\ F = Follow /\ G = Detours /\ F2 = Follow' /\ G2 = Detours'
                             /\ d = tramp[n].detour
  OBVIOUS
<1>2. n \in Chained /\ tramp[n].target = t
  BY DEF Ordered, Chains, ChainInv
<1>3. F[n] = tramp[n].rest /\ G[n] = d /\ d \in Hooks \cup Foreign /\ d # Bypass
  BY <1>1, <1>2, OrderFacts
<1>4. \A u \in Targets : code'[u] = IF u = t THEN F[n] ELSE code[u]
  BY <1>3 DEF Ordered, TypeInv, TypeOK
<1>5. \A m \in Chained : tramp[m].detour = d => m = n
  BY <1>1, <1>2, <1>3, OrderFacts
<1>6. \A m \in Met(F, F[n]) : m \in Chained /\ m # n
  <2>1. PICK S : S = {m \in Chained : m # n}
    OBVIOUS
  <2>2. S \in SUBSET Nodes
    BY <2>1 DEF Chained
  <2>3. ASSUME NEW m \in Chained, F[m] \in Nodes PROVE F[m] \in S
    <3>1. F[m] = tramp[m].rest
      BY <1>1, OrderFacts
    <3>2. F[m] \in Chained /\ tramp[F[m]].target = tramp[m].target
          /\ code[tramp[m].target] # F[m]
      BY <2>3, <3>1 DEF Ordered, Chains, ChainInv
    <3> QED BY <1>2, <2>1, <3>2
  <2>4. Met(F, F[n]) \subseteq S
    BY <1>2, <2>1, <2>2, <2>3, MetLeast
  <2> QED BY <2>1, <2>4
<1>7. \A m \in Met(F, F[n]) : F2[m] = F[m] /\ G2[m] = G[m]
  BY <1>1, <1>6, OrderFacts, OrderFactsNext
<1>8. Runs(F2, G2, F[n]) = Runs(F, G, F[n]) /\ Before(F2, G2, F[n]) = Before(F, G, F[n])
  BY <1>7, RunsSame, BeforeSame
<1>9. d \notin Runs(F, G, F[n])
  <2>1. \A m \in Met(F, F[n]) : G[m] # d /\ F[m] \in Nodes \cup {Original}
    BY <1>1, <1>5, <1>6, OrderFacts
  <2>2. F[n] \in Nodes \cup {Original} /\ d # Original
    BY <1>1, <1>2, <1>3, OrderFacts DEF Nodes
  <2>3. d \notin Nodes => F[n] # d /\ \A m \in Met(F, F[n]) : F[m] # d
    BY <2>1, <2>2
  <2> QED BY <2>1, <2>3, RunsMember
<1>10. /\ Runs(F, G, n) \ {d} = Runs(F, G, F[n])
       /\ {p \in Before(F, G, n) : d \notin {p[1], p[2]}} = Before(F, G, F[n])
  BY <1>3, <1>9, TakeOutTop
<1>11. /\ CallRuns'[t] = CallRuns[t] \ {d}
       /\ CallOrder'[t] = {p \in CallOrder[t] : d \notin {p[1], p[2]}}
  <2>1. CallRuns[t] = Runs(F, G, n) /\ CallOrder[t] = Before(F, G, n)
    BY <1>1 DEF CallRuns, CallOrder
  <2>2. CallRuns'[t] = Runs(F2, G2, F[n]) /\ CallOrder'[t] = Before(F2, G2, F[n])
    BY <1>1, <1>4 DEF CallRuns, CallOrder
  <2> QED BY <1>8, <1>10, <2>1, <2>2
<1>12. ASSUME NEW u \in Targets, u # t
       PROVE  /\ CallRuns'[u] = CallRuns[u] \ {d}
              /\ CallOrder'[u] = {p \in CallOrder[u] : d \notin {p[1], p[2]}}
  <2>1. code'[u] = code[u]
    BY <1>4, <1>12
  <2>2. \A m \in Chained : tramp[m].target = u => m \in Chained' /\ tramp'[m] = tramp[m]
    BY <1>2, <1>12
  <2>3. CallRuns'[u] = CallRuns[u] /\ CallOrder'[u] = CallOrder[u]
    BY <2>1, <2>2, CallKept
  <2>4. \A m \in Chained : tramp[m].target = u => tramp[m].detour # d
    BY <1>2, <1>5, <1>12
  <2>5. d \notin Runs(Follow, Detours, code[u])
    BY <1>3, <2>4, CallsNot
  <2> QED BY <2>3, <2>5, TakeOutOther DEF CallRuns, CallOrder
<1> QED BY <1>1, <1>11, <1>12, WithoutEach

\* Putting the trampoline n in bypass, wherever on a chain it is.
LEMMA BypassStep ==
  ASSUME Ordered, Ordered', NEW n \in Chained, Chained' = Chained, code' = code,
         tramp[n].detour # Bypass, tramp'[n].detour = Bypass, tramp'[n].rest = tramp[n].rest,
         \A m \in Chained : m # n => tramp'[m] = tramp[m]
  PROVE  Without(tramp[n].detour)
<1> USE TransactionAssumption
<1>1. PICK F, G, F2, G2, d : /\ F = Follow /\ G = Detours /\ F2 = Follow' /\ G2 = Detours'
                             /\ d = tramp[n].detour
  OBVIOUS
<1>2. d \in Hooks \cup Foreign /\ d # Bypass /\ d # Original
  BY <1>1, OrderFacts DEF Nodes
<1>3. \A m \in Chained : G[m] = d => m = n
  BY <1>1, OrderFacts
<1>4. ASSUME NEW m \in Chained
      PROVE  /\ F2[m] = F[m]
             /\ F[m] \in Nodes \cup {Original}
             /\ G[m] = d => G2[m] = Bypass
             /\ G[m] # d => G2[m] = G[m]
  <2>1. F[m] = tramp[m].rest /\ G[m] = tramp[m].detour /\ F[m] \in Nodes \cup {Original}
    BY <1>1, OrderFacts
  <2>2. F2[m] = tramp'[m].rest /\ G2[m] = tramp'[m].detour
    BY <1>1, OrderFactsNext
  <2> QED BY <1>1, <1>3, <2>1, <2>2
<1>5. ASSUME NEW u \in Targets
      PROVE  /\ CallRuns'[u] = CallRuns[u] \ {d}
             /\ CallOrder'[u] = {p \in CallOrder[u] : d \notin {p[1], p[2]}}
  <2>1. PICK x : x = code[u]
    OBVIOUS
  <2>2. x \in Nodes \cup {Original}
    BY <2>1 DEF Ordered, TypeInv, TypeOK
  <2>3. \A m \in Met(F, x) : m \in Chained
    BY <1>1, <2>1, OrderFacts
  <2>4. Hides(F, G, F2, G2, x, d)
    BY <1>2, <1>4, <2>2, <2>3 DEF Hides
  <2>5. /\ Runs(F2, G2, x) = Runs(F, G, x) \ {d}
        /\ Before(F2, G2, x) = {p \in Before(F, G, x) : d \notin {p[1], p[2]}}
    BY <2>4, TakeOutHidden
  <2> QED BY <1>1, <2>1, <2>5 DEF CallRuns, CallOrder
<1> QED BY <1>1, <1>5, WithoutEach

\* A step that leaves the chains alone changes nothing that a call meets.
LEMMA CallsKept ==
  ASSUME Ordered, Ordered', code' = code, Chained' = Chained,
         \A n \in Chained : tramp'[n] = tramp[n]
  PROVE  UNCHANGED <<CallRuns, CallOrder>>
<1>1. ASSUME NEW t \in Targets
      PROVE  CallRuns'[t] = CallRuns[t] /\ CallOrder'[t] = CallOrder[t]
  BY CallKept
<1> QED BY <1>1 DEF CallRuns, CallOrder

\* Every step of a transaction is one of HookOrder, or none.
LEMMA OrderStep ==
  ASSUME Disciplined, Ordered, Ordered', [Next]_vars
  PROVE  [Abstract!Next]_(Abstract!vars)
<1> USE TransactionAssumption
<1>a. TypeInv /\ Chains /\ TypeInv' /\ Chains'
  BY DEF Ordered
<1>u. ASSUME UNCHANGED <<CallRuns, CallOrder>>, (phase' = "apply") <=> (phase = "apply")
      PROVE  [Abstract!Next]_(Abstract!vars)
  BY <1>u DEF Abstract!vars
<1>1. ASSUME NEW c \in Clients, Begin(c) \/ Commit(c) \/ Abort(c)
      PROVE  [Abstract!Next]_(Abstract!vars)
  <2>1. code' = code /\ tramp' = tramp /\ Chained' = Chained
    BY <1>a, <1>1, ControlStep DEF Begin, Commit, Abort
  <2>2. UNCHANGED <<CallRuns, CallOrder>>
    BY <2>1, CallsKept
  <2>3. CASE Commit(c)
    <3>1. Abstract!Start
      BY <2>2, <2>3 DEF Commit, Abstract!Start
    <3> QED BY <3>1 DEF Abstract!Next
  <2>4. CASE Begin(c) \/ Abort(c)
    <3>1. phase' # "apply" /\ phase # "apply"
      BY <1>a, <2>4 DEF Begin, Abort, TypeInv, PhaseInv
    <3> QED BY <1>u, <2>2, <3>1
  <2> QED BY <1>1, <2>3, <2>4
<1>2. ASSUME NEW c \in Clients, NEW h \in Hooks, Attach(c, h) \/ Detach(c, h)
      PROVE  [Abstract!Next]_(Abstract!vars)
  <2>1. code' = code /\ phase' = phase
    BY <1>2 DEF Attach, Detach
  <2>2. Chained' = Chained /\ \A n \in Chained : tramp'[n] = tramp[n]
    BY <1>a, <1>2, AttachStep, DetachStep DEF Detach
  <2> QED BY <1>u, <2>1, <2>2, CallsKept
<1>3. ASSUME ApplyRemove PROVE [Abstract!Next]_(Abstract!vars)
  <2>1. PICK k, s, h, t : /\ k = next /\ s = ops[k].slot /\ h = ops[k].hook
                          /\ t = ops[k].target
    OBVIOUS
  <2>2. phase = "apply" /\ phase' = "apply" /\ next > 0 /\ next' = next - 1
    BY <1>3 DEF ApplyRemove
  <2>3. /\ s \in Nodes /\ h \in Hooks /\ t \in Targets /\ tramp[s].detour = h
        /\ k \in DOMAIN ops /\ Unapplied(k)
    BY <1>a, <2>1, <2>2, PassFacts
  <2>4. h # Bypass
    BY <2>3
  <2>5. Without(h)
    <3>1. CASE HookIsStillThere(ops[next])
      <4>1. /\ code[t] = s /\ tramp' = tramp
            /\ code' = [code EXCEPT ![t] = tramp[s].rest]
        BY <1>3, <2>1, <3>1 DEF ApplyRemove, HookIsStillThere
      <4>2. Chained' = Chained \ {s}
        BY <1>a, <1>3, <2>1, <3>1, UnhookStep
      <4> QED BY <2>3, <2>4, <4>1, <4>2, TopStep
    <3>2. CASE ~HookIsStillThere(ops[next])
      <4>1. /\ code' = code /\ tramp' = [tramp EXCEPT ![s].detour = Bypass]
            /\ ops[k].kind = "remove"
        BY <1>3, <2>1, <3>2 DEF ApplyRemove, PutInBypass
      <4>2. Chained' = Chained /\ Chained \subseteq Nodes
        BY <1>a, <1>3, <3>2, LeakStep DEF Chained
      <4>3. s \in Chained
        <5>1. ptr[h] = s /\ s \in Slots
          BY <1>a, <2>1, <2>3, <4>1, OperationFacts DEF Chains, OperationInv, TypeInv
        <5> QED BY <1>a, <2>3, <5>1 DEF Chains, PointerInv
      <4>4. /\ tramp'[s] = [tramp[s] EXCEPT !.detour = Bypass]
            /\ tramp[s] \in Trampoline
            /\ \A m \in Nodes : m # s => tramp'[m] = tramp[m]
        BY <1>a, <2>3, <4>1 DEF TypeInv, TypeOK
      <4>5. tramp'[s].detour = Bypass /\ tramp'[s].rest = tramp[s].rest
        BY <4>4 DEF Trampoline
      <4> QED BY <2>3, <2>4, <4>1, <4>2, <4>3, <4>4, <4>5, BypassStep
    <3> QED BY <3>1, <3>2
  <2>6. CASE Abstract!TakeOut(h)
    <3>1. Abstract!Detach(h)
      BY <2>2, <2>6 DEF Abstract!Detach
    <3> QED BY <2>3, <3>1 DEF Abstract!Next
  <2>7. CASE UNCHANGED <<CallRuns, CallOrder>>
    BY <1>u, <2>2, <2>7
  <2> QED BY <2>5, <2>6, <2>7, WithoutFacts
<1>4. ASSUME ApplyAdd PROVE [Abstract!Next]_(Abstract!vars)
  <2>1. PICK k, s, h, t : /\ k = next /\ s = ops[k].slot /\ h = ops[k].hook
                          /\ t = ops[k].target
    OBVIOUS
  <2>2. /\ phase = "apply" /\ phase' = "apply" /\ next > 0 /\ next' = next - 1
        /\ ops[k].kind = "add" /\ tramp' = tramp /\ code' = [code EXCEPT ![t] = s]
    BY <1>4, <2>1 DEF ApplyAdd
  <2>3. /\ s \in Nodes /\ h \in Hooks /\ t \in Targets /\ tramp[s].detour = h
        /\ k \in DOMAIN ops /\ Unapplied(k)
    BY <1>a, <2>1, <2>2, PassFacts
  <2>4. tramp[s].rest = code[t] /\ ptr[h] = Original
    BY <1>a, <2>1, <2>2, <2>3 DEF Chains, OperationInv
  <2>5. s \notin Chained /\ Chained' = Chained \cup {s}
    BY <1>a, <1>4, <2>1, ApplyAddStep
  <2>6. \A m \in Chained : tramp[m].detour # h
    BY <1>a, <2>3, <2>4 DEF Chains, PointerInv, Chained
  <2>7. Abstract!InFront(t, h)
    BY <2>2, <2>3, <2>4, <2>5, <2>6, FrontStep
  <2>8. Abstract!Attach(t, h)
    BY <2>2, <2>7 DEF Abstract!Attach
  <2> QED BY <2>3, <2>8 DEF Abstract!Next
<1>5. ASSUME EndApply \/ RestoreOne \/ Leave PROVE [Abstract!Next]_(Abstract!vars)
  <2>1. code' = code
    BY <1>5 DEF EndApply, RestoreOne, Leave
  <2>2. Chained' = Chained /\ \A n \in Chained : tramp'[n] = tramp[n]
    BY <1>a, <1>5, ControlStep, RestoreStep DEF EndApply, Leave
  <2>3. UNCHANGED <<CallRuns, CallOrder>>
    BY <2>1, <2>2, CallsKept
  <2>4. CASE EndApply
    <3>1. Abstract!Finish
      BY <2>3, <2>4 DEF EndApply, Abstract!Finish
    <3> QED BY <3>1 DEF Abstract!Next
  <2>5. CASE RestoreOne \/ Leave
    <3>1. phase # "apply" /\ phase' # "apply"
      BY <2>5 DEF RestoreOne, Leave
    <3> QED BY <1>u, <2>3, <3>1
  <2> QED BY <1>5, <2>4, <2>5
<1>6. ASSUME NEW f \in Foreign, NEW t \in Targets, ForeignHook(f, t)
      PROVE  [Abstract!Next]_(Abstract!vars)
  <2>1. /\ phase = "idle" /\ phase' = "idle" /\ ~Live(f)
        /\ tramp' = [tramp EXCEPT ![f] = [target |-> t, detour |-> f, rest |-> code[t]]]
        /\ code' = [code EXCEPT ![t] = f]
    BY <1>6 DEF ForeignHook
  <2>2. f \in Nodes /\ f \notin Chained /\ Chained' = Chained \cup {f} /\ Chained \subseteq Nodes
    BY <1>a, <1>6, ForeignHookStep DEF Nodes, Chained
  <2>3. /\ tramp'[f].detour = f /\ tramp'[f].rest = code[t]
        /\ \A m \in Chained : tramp'[m] = tramp[m]
    BY <1>a, <2>1, <2>2 DEF TypeInv, TypeOK
  <2>4. \A m \in Chained : tramp[m].detour # f
    BY <2>2 DEF Ordered, ForeignInv, Chained, Nodes
  <2>5. Abstract!InFront(t, f)
    BY <2>1, <2>2, <2>3, <2>4, FrontStep
  <2>6. Abstract!ForeignHook(t, f)
    BY <2>1, <2>5 DEF Abstract!ForeignHook
  <2> QED BY <2>6 DEF Abstract!Next
<1>7. ASSUME NEW f \in Foreign, ForeignUnhook(f) PROVE [Abstract!Next]_(Abstract!vars)
  <2>1. PICK t : t = tramp[f].target
    OBVIOUS
  <2>2. /\ phase = "idle" /\ phase' = "idle" /\ Live(f) /\ code[t] = f
        /\ code' = [code EXCEPT ![t] = tramp[f].rest]
        /\ tramp' = [tramp EXCEPT ![f] = Zeroed]
    BY <1>7, <2>1 DEF ForeignUnhook
  <2>3. f \in Nodes /\ f # Bypass /\ tramp[f].detour = f
    BY <2>2 DEF Ordered, ForeignInv, Nodes
  <2>4. f \in Chained /\ Chained' = Chained \ {f}
    BY <1>a, <1>7, <2>2, <2>3, ForeignUnhookStep, IdleFacts
  <2>5. t \in Targets
    BY <1>a, <2>1, <2>4, ChainedTypes
  <2>6. \A m \in Chained' : tramp'[m] = tramp[m]
    BY <1>a, <2>2, <2>4 DEF TypeInv, TypeOK, Chained
  <2>7. Without(f)
    BY <2>2, <2>3, <2>4, <2>5, <2>6, TopStep
  <2>8. CASE Abstract!TakeOut(f)
    <3>1. Abstract!ForeignUnhook(f)
      BY <2>2, <2>8 DEF Abstract!ForeignUnhook
    <3> QED BY <3>1 DEF Abstract!Next
  <2>9. CASE UNCHANGED <<CallRuns, CallOrder>>
    BY <1>u, <2>2, <2>9
  <2> QED BY <2>7, <2>8, <2>9, WithoutFacts
<1>8. CASE UNCHANGED vars
  <2>1. code' = code /\ tramp' = tramp /\ phase' = phase /\ Chained' = Chained
    BY <1>a, <1>8, ControlStep DEF vars
  <2> QED BY <1>u, <2>1, CallsKept
<1> QED BY <1>1, <1>2, <1>3, <1>4, <1>5, <1>6, <1>7, <1>8 DEF Next, Internal

LEMMA OrderInit == Init => Abstract!Init
<1> SUFFICES ASSUME Init PROVE Abstract!Init
  OBVIOUS
<1>1. \A t \in Targets : code[t] = Original
  BY DEF Init
<1>2. Original \notin Nodes /\ phase # "apply"
  BY TransactionAssumption DEF Init
<1>3. Met(Follow, Original) = {}
  <2>1. {} \in SUBSET Nodes /\ \A m \in {} : Follow[m] \in Nodes => Follow[m] \in {}
    OBVIOUS
  <2> QED BY <1>2, <2>1, MetLeast
<1>4. Runs(Follow, Detours, Original) = {Original}
  BY <1>2, <1>3 DEF Runs
<1>5. Before(Follow, Detours, Original) = {}
  BY <1>3 DEF Before
<1>6. CallRuns = [t \in Targets |-> {Original}] /\ CallOrder = [t \in Targets |-> {}]
  BY <1>1, <1>4, <1>5 DEF CallRuns, CallOrder
<1> QED BY <1>2, <1>6 DEF Abstract!Init

\* Transactions, and other libraries in between, keep the promise of HookOrder:
\* at every moment a call of a target runs the detours that are attached, each
\* once in a fixed order with the latest first, and then the original code.
THEOREM OrderIsKept ==
  ASSUME Disciplined
  PROVE  Spec => ImplementsHookOrder
<1>1. Ordered /\ Ordered' /\ [Next]_vars => [Abstract!Next]_(Abstract!vars)
  BY OrderStep
<1> QED BY <1>1, OrderInit, OrderedInvariant, PTL
  DEF Spec, ImplementsHookOrder, Abstract!Spec

-----------------------------------------------------------------------------
(* Lists and calls.                                                        *)

LEMMA ListFacts ==
  ASSUME NEW c \in Clients, NEW l \in Lists(c)
  PROVE  /\ Len(l) \in 1..MaxOps
         /\ \A j \in 1..Len(l) : l[j] \in HooksOf[c] /\ l[j] \in Hooks
         /\ InList(l) = {l[j] : j \in 1..Len(l)}
         /\ InList(l) \subseteq Hooks
<1>1. PICK n \in 1..MaxOps : l \in [1..n -> HooksOf[c]]
  BY DEF Lists
<1>2. n \in Nat /\ HooksOf[c] \subseteq Hooks
  BY InlineHooksAssumption, TransactionAssumption
<1>3. Len(l) = n
  BY <1>1, <1>2, SeqDef, LenProperties
<1>4. DOMAIN l = 1..Len(l)
  BY <1>1, <1>3
<1> QED BY <1>1, <1>2, <1>3, <1>4 DEF InList

LEMMA CallFacts ==
  ASSUME HelperInv, NEW c \in Clients, call[c] # Null
  PROVE  /\ call[c] \in Calls
         /\ call[c].list \in Lists(c)
         /\ call[c].kind \in {"set", "unset", "init"}
         /\ call[c].at \in {"begin", "loop", "abort", "return"}
         /\ call[c].hr \in BOOLEAN
         /\ call[c].i \in 1..Len(call[c].list) + 1
         /\ Len(call[c].list) \in 1..MaxOps
         /\ MaxOps \in Nat
         /\ \A j \in 1..Len(call[c].list) : call[c].list[j] \in Hooks
<1>1. call[c] \in Calls /\ call[c].list \in Lists(c) /\ call[c].i <= Len(call[c].list) + 1
  BY DEF HelperInv, CallInv
<1>2. /\ Len(call[c].list) \in 1..MaxOps
      /\ \A j \in 1..Len(call[c].list) : call[c].list[j] \in Hooks
  BY <1>1, ListFacts
<1>3. MaxOps \in Nat
  BY TransactionAssumption
<1> QED BY <1>1, <1>2, <1>3 DEF Calls

\* A helper goes to another place, with its result or a failure.
LEMMA GoesFacts ==
  ASSUME HelperInv, NEW c \in Clients, call[c] # Null,
         NEW place \in {"begin", "loop", "abort", "return"},
         Goes(c, place) \/ Fails(c, place)
  PROVE  /\ call' \in [Clients -> Calls \cup {Null}]
         /\ \A d \in Clients : d # c => call'[d] = call[d]
         /\ call'[c] # Null
         /\ call'[c] \in Calls
         /\ call'[c].kind = call[c].kind
         /\ call'[c].list = call[c].list
         /\ call'[c].i = call[c].i
         /\ call'[c].at = place
         /\ Goes(c, place) => call'[c].hr = call[c].hr
         /\ Fails(c, place) => call'[c].hr = FALSE
<1>1. call \in [Clients -> Calls \cup {Null}] /\ call[c] \in Calls /\ Null \notin Calls
  BY CallFacts, InlineHooksAssumption DEF HelperInv
<1>2. CASE Goes(c, place)
  <2> DEFINE r == [call[c] EXCEPT !.at = place]
  <2>1. r \in Calls /\ r.kind = call[c].kind /\ r.list = call[c].list /\ r.i = call[c].i
        /\ r.at = place /\ r.hr = call[c].hr
    BY <1>1 DEF Calls
  <2>2. call' = [call EXCEPT ![c] = r]
    BY <1>2 DEF Goes
  <2>3. Fails(c, place) => call'[c].hr = FALSE
    BY <1>1 DEF Fails, Calls
  <2> HIDE DEF r
  <2> QED BY <1>1, <2>1, <2>2, <2>3
<1>3. CASE Fails(c, place)
  <2> DEFINE r == [[call[c] EXCEPT !.at = place] EXCEPT !.hr = FALSE]
  <2>1. r \in Calls /\ r.kind = call[c].kind /\ r.list = call[c].list /\ r.i = call[c].i
        /\ r.at = place /\ r.hr = FALSE
    BY <1>1 DEF Calls
  <2>2. call' = [call EXCEPT ![c] = r]
    BY <1>1, <1>3 DEF Fails
  <2>3. Goes(c, place) => call'[c].hr = call[c].hr
    BY <1>1 DEF Goes, Calls
  <2> HIDE DEF r
  <2> QED BY <1>1, <2>1, <2>2, <2>3
<1> QED BY <1>2, <1>3

\* A helper has done one element of its list.
LEMMA AdvanceFacts ==
  ASSUME HelperInv, NEW c \in Clients, call[c] # Null, call[c].i <= Len(call[c].list),
         call' = [call EXCEPT ![c].i = @ + 1]
  PROVE  /\ call' \in [Clients -> Calls \cup {Null}]
         /\ \A d \in Clients : d # c => call'[d] = call[d]
         /\ call'[c] # Null
         /\ call'[c] \in Calls
         /\ call'[c].kind = call[c].kind
         /\ call'[c].list = call[c].list
         /\ call'[c].i = call[c].i + 1
         /\ call'[c].at = call[c].at
         /\ call'[c].hr = call[c].hr
<1>1. call \in [Clients -> Calls \cup {Null}] /\ call[c] \in Calls /\ Null \notin Calls
  BY CallFacts, InlineHooksAssumption DEF HelperInv
<1>2. call[c].i + 1 \in 1..MaxOps + 1
  BY CallFacts
<1> DEFINE r == [call[c] EXCEPT !.i = call[c].i + 1]
<1>3. r \in Calls /\ r.kind = call[c].kind /\ r.list = call[c].list /\ r.i = call[c].i + 1
      /\ r.at = call[c].at /\ r.hr = call[c].hr
  BY <1>1, <1>2 DEF Calls
<1>4. call' = [call EXCEPT ![c] = r]
  OBVIOUS
<1> HIDE DEF r
<1> QED BY <1>1, <1>3, <1>4

\* The step is not d's, and no step on a transaction of d's.
LEMMA OtherCall ==
  ASSUME HelperInv, NEW d \in Clients, call'[d] = call[d], found \subseteq found',
         UNCHANGED vars \/ (owner # d /\ owner' # d)
  PROVE  CallInv(d)'
<1>1. CallInv(d)
  BY DEF HelperInv
<1>2. CASE UNCHANGED vars
  BY <1>1, <1>2 DEF CallInv, LoopInv, RestInv, FoundInv, vars
<1>3. CASE owner # d /\ owner' # d
  BY <1>1, <1>3 DEF CallInv, LoopInv, RestInv, FoundInv
<1> QED BY <1>2, <1>3

\* Only c's call changes, in a step that leaves the transactions of others alone.
LEMMA OneCall ==
  ASSUME HelperInv, NEW c \in Clients, call' \in [Clients -> Calls \cup {Null}],
         \A d \in Clients : d # c => call'[d] = call[d],
         UNCHANGED vars \/ (owner \in {c, Null} /\ owner' \in {c, Null}),
         found \subseteq found', found' \subseteq Hooks, ready' \subseteq found',
         CallInv(c)'
  PROVE  HelperInv'
<1>1. ASSUME NEW d \in Clients, d # c PROVE CallInv(d)'
  <2>1. call'[d] = call[d] /\ d # Null
    BY <1>1, TransactionAssumption
  <2>2. UNCHANGED vars \/ (owner # d /\ owner' # d)
    BY <1>1, <2>1
  <2> QED BY <2>1, <2>2, OtherCall
<1>2. \A d \in Clients : CallInv(d)'
  BY <1>1
<1> QED BY <1>2 DEF HelperInv

-----------------------------------------------------------------------------
(* The invariant.                                                          *)

LEMMA HelperInvInit == HelperInit => HelperInv
  BY DEF HelperInit, HelperInv, CallInv

LEMMA InvCall ==
  ASSUME HelperInv, NEW c \in Clients, CallInlineHooks(c) \/ CallInitInlineHooks(c)
  PROVE  HelperInv'
<1>1. PICK kind \in {"set", "unset", "init"}, l \in Lists(c) :
        call' = [call EXCEPT ![c] = Running(kind, l)]
  BY DEF CallInlineHooks, CallInitInlineHooks
<1>2. call \in [Clients -> Calls \cup {Null}] /\ UNCHANGED <<vars, found, ready>> /\ Free(c)
      /\ call[c] = Null
  BY DEF HelperInv, CallInlineHooks, CallInitInlineHooks, Free
<1>3. Len(l) \in 1..MaxOps /\ MaxOps \in Nat
  BY ListFacts, TransactionAssumption
<1>4. Running(kind, l) \in Calls
  BY <1>3 DEF Running, Calls
<1> DEFINE r == Running(kind, l)
<1>5. /\ r.kind = kind /\ r.list = l /\ r.i = 1 /\ r.hr = TRUE /\ r.at = "begin"
      /\ r.hr \in BOOLEAN
  BY DEF Running
<1>6. call'[c] = r /\ r \in Calls
  BY <1>1, <1>2, <1>4
<1>7. UNCHANGED <<owner, phase, ops, next>>
  BY <1>2 DEF vars
<1> HIDE DEF r
<1>8. CallInv(c)'
  <2>1. call'[c].list \in Lists(c) /\ call'[c].i <= Len(call'[c].list) + 1
    BY <1>3, <1>5, <1>6
  <2>2. LoopInv(c)' /\ RestInv(c)'
    BY <1>2, <1>5, <1>6, <1>7 DEF LoopInv, RestInv, Free
  <2>3. FoundInv(c)'
    BY <1>5, <1>6 DEF FoundInv
  <2>4. call'[c] \in Calls /\ call'[c].at = "begin"
    BY <1>5, <1>6
  <2> QED BY <2>1, <2>2, <2>3, <2>4 DEF CallInv
<1>9. call' \in [Clients -> Calls \cup {Null}] /\ \A d \in Clients : d # c => call'[d] = call[d]
  BY <1>1, <1>2, <1>4
<1>10. found' = found /\ found \subseteq Hooks /\ ready' \subseteq found'
  BY <1>2 DEF HelperInv
<1> QED BY <1>2, <1>8, <1>9, <1>10, OneCall

\* A helper that goes on without touching the transaction.
LEMMA InvBegin ==
  ASSUME TypeInv, HelperInv, NEW c \in Clients, HelperBegin(c)
  PROVE  HelperInv'
<1>1. call[c] # Null /\ call[c].at = "begin" /\ call[c].kind # "init" /\ UNCHANGED <<found, ready>>
      /\ CallInv(c) /\ found \subseteq Hooks /\ ready \subseteq found
  BY DEF HelperBegin, At, HelperInv
<1>2. CASE Begin(c) /\ Goes(c, "loop")
  <2>1. owner = Null /\ owner' = c /\ phase' = "open" /\ ops' = << >> /\ Len(ops') = 0
    BY <1>2, EmptySeq DEF Begin, TypeInv, PhaseInv
  <2>2. CallInv(c)'
    <3>1. /\ call'[c].kind = call[c].kind /\ call'[c].hr = call[c].hr /\ call'[c].at = "loop"
          /\ call'[c].list = call[c].list /\ call'[c].i = call[c].i /\ call'[c] \in Calls
      BY <1>1, <1>2, GoesFacts
    <3>2. call[c].i = 1 /\ call[c].hr
      BY <1>1 DEF CallInv, RestInv
    <3>3. LoopInv(c)'
      BY <2>1, <3>1, <3>2 DEF LoopInv
    <3>4. RestInv(c)' /\ FoundInv(c)'
      BY <1>1, <3>1 DEF RestInv, FoundInv
    <3> QED BY <1>1, <3>1, <3>3, <3>4 DEF CallInv
  <2> QED BY <1>1, <1>2, <2>1, <2>2, GoesFacts, OneCall
<1>3. CASE Fails(c, "return") /\ UNCHANGED vars
  <2>1. CallInv(c)'
    BY <1>1, <1>3, GoesFacts, CallFacts DEF CallInv, LoopInv, RestInv, FoundInv, vars
  <2> QED BY <1>1, <1>3, <2>1, GoesFacts, OneCall
<1> QED BY <1>2, <1>3 DEF HelperBegin

\* What an attach or a detach appends to the list of operations.
LEMMA QueueFacts ==
  ASSUME TypeInv, NEW c \in Clients, NEW h \in Hooks, NEW kind \in {"add", "remove"},
         IF kind = "add" THEN Attach(c, h) ELSE Detach(c, h)
  PROVE  /\ Len(ops) \in Nat
         /\ Len(ops') = Len(ops) + 1
         /\ \A j \in 1..Len(ops) : ops'[j] = ops[j]
         /\ ops'[Len(ops) + 1].hook = h
         /\ ops'[Len(ops) + 1].kind = kind
         /\ owner = c /\ phase = "open" /\ owner' = c /\ phase' = "open"
<1>1. TypeOK
  BY DEF TypeInv
<1>2. \E s \in Slots, t \in Targets : Pend(kind, h, s, t)
  <2>1. CASE kind = "add"
    <3>1. \E s \in Slots : Pend("add", h, s, TargetOf[h])
      BY <2>1 DEF Attach
    <3> QED BY <2>1, <3>1, TransactionAssumption
  <2>2. CASE kind = "remove"
    <3>1. Detach(c, h)
      BY <2>2
    <3>2. tramp[ptr[h]].target \in Targets /\ ptr[h] \in Slots
      BY <3>1, TransactionAssumption DEF Detach, TypeInv, TypeOK, FieldInv, Trampoline, Live, Nodes
    <3>3. Pend("remove", h, ptr[h], tramp[ptr[h]].target)
      BY <3>1 DEF Detach
    <3> QED BY <2>2, <3>2, <3>3
  <2> QED BY <2>1, <2>2
<1>3. owner = c /\ phase = "open" /\ owner' = c /\ phase' = "open"
  BY DEF Attach, Detach
<1> QED BY <1>1, <1>2, <1>3, PendFacts

LEMMA InvOperation ==
  ASSUME TypeInv, HelperInv, NEW c \in Clients, HelperOperation(c)
  PROVE  HelperInv'
<1>1. call[c] # Null /\ call[c].at = "loop" /\ call[c].i <= Len(call[c].list)
      /\ UNCHANGED <<found, ready>> /\ CallInv(c) /\ found \subseteq Hooks /\ ready \subseteq found
  BY DEF HelperOperation, At, HelperInv
<1> DEFINE h == call[c].list[call[c].i]
<1>2. h \in Hooks /\ call[c].kind \in {"set", "unset"} /\ call[c].i \in 1..Len(call[c].list)
  BY <1>1, CallFacts DEF CallInv
<1>3. LoopInv(c) /\ RestInv(c)
  BY <1>1 DEF CallInv
<1>4. ASSUME IF call[c].kind = "set" THEN Attach(c, h) ELSE Detach(c, h),
             call' = [call EXCEPT ![c].i = @ + 1]
      PROVE  HelperInv'
  <2>1. PICK kind \in {"add", "remove"} : kind = Queued(call[c].kind)
    BY <1>2 DEF Queued
  <2>2. IF kind = "add" THEN Attach(c, h) ELSE Detach(c, h)
    BY <1>2, <1>4, <2>1 DEF Queued
  <2>3. /\ Len(ops) \in Nat
        /\ Len(ops') = Len(ops) + 1
        /\ \A j \in 1..Len(ops) : ops'[j] = ops[j]
        /\ ops'[Len(ops) + 1].hook = h
        /\ ops'[Len(ops) + 1].kind = kind
        /\ owner = c /\ phase = "open" /\ owner' = c /\ phase' = "open"
    BY <1>2, <2>2, QueueFacts
  <2>4. /\ call' \in [Clients -> Calls \cup {Null}]
        /\ \A d \in Clients : d # c => call'[d] = call[d]
        /\ call'[c] # Null
        /\ call'[c] \in Calls
        /\ call'[c].kind = call[c].kind
        /\ call'[c].list = call[c].list
        /\ call'[c].i = call[c].i + 1
        /\ call'[c].at = call[c].at
        /\ call'[c].hr = call[c].hr
    BY <1>1, <1>4, AdvanceFacts
  <2>5. LoopInv(c)'
    <3>1. Len(ops) = call[c].i - 1 /\ call[c].hr
          /\ \A j \in 1..Len(ops) : ops[j].hook = call[c].list[j] /\ ops[j].kind = kind
      BY <1>1, <1>3, <2>1 DEF LoopInv
    <3>2. Len(ops') = call'[c].i - 1 /\ call[c].i = Len(ops) + 1
      BY <1>2, <2>3, <2>4, <3>1
    <3>3. ASSUME NEW j \in 1..Len(ops')
          PROVE  ops'[j].hook = call'[c].list[j] /\ ops'[j].kind = Queued(call'[c].kind)
      <4>1. CASE j \in 1..Len(ops)
        BY <2>1, <2>3, <2>4, <3>1, <4>1
      <4>2. CASE j = Len(ops) + 1
        BY <2>1, <2>3, <2>4, <3>2, <4>2
      <4> QED BY <2>3, <4>1, <4>2
    <3> QED BY <2>3, <2>4, <3>1, <3>2, <3>3 DEF LoopInv
  <2>6. RestInv(c)' /\ FoundInv(c)'
    BY <1>1, <1>2, <2>4 DEF RestInv, FoundInv
  <2>7. call'[c].list \in Lists(c) /\ call'[c].i <= Len(call'[c].list) + 1
    BY <1>1, <1>2, <2>4, CallFacts
  <2>8. CallInv(c)'
    BY <1>2, <2>4, <2>5, <2>6, <2>7 DEF CallInv
  <2>9. owner \in {c, Null} /\ owner' \in {c, Null}
    BY <2>3
  <2> HIDE DEF h
  <2> QED BY <1>1, <2>4, <2>8, <2>9, OneCall
<1>5. ASSUME Fails(c, "abort"), UNCHANGED vars PROVE HelperInv'
  <2>1. CallInv(c)'
    BY <1>1, <1>2, <1>3, <1>5, GoesFacts, CallFacts DEF CallInv, LoopInv, RestInv, FoundInv, vars
  <2> HIDE DEF h
  <2> QED BY <1>1, <1>5, <2>1, GoesFacts, OneCall
<1> QED BY <1>4, <1>5 DEF HelperOperation

LEMMA InvAbort ==
  ASSUME HelperInv, NEW c \in Clients, HelperAbort(c)
  PROVE  HelperInv'
<1>1. call[c] # Null /\ call[c].at = "abort" /\ UNCHANGED <<found, ready>> /\ Abort(c)
      /\ Goes(c, "return") /\ CallInv(c) /\ found \subseteq Hooks /\ ready \subseteq found
  BY DEF HelperAbort, At, HelperInv
<1>2. owner = c /\ owner' = c /\ phase' = "abort"
  BY <1>1 DEF Abort
<1>3. call[c].kind # "init" /\ ~call[c].hr
  BY <1>1 DEF CallInv, RestInv
<1>4. CallInv(c)'
  BY <1>1, <1>2, <1>3, GoesFacts, CallFacts DEF CallInv, LoopInv, RestInv, FoundInv
<1> QED BY <1>1, <1>2, <1>4, GoesFacts, OneCall

LEMMA InvCommit ==
  ASSUME TypeInv, HelperInv, NEW c \in Clients, HelperCommit(c)
  PROVE  HelperInv'
<1>1. call[c] # Null /\ call[c].at = "loop" /\ UNCHANGED <<found, ready>> /\ Commit(c)
      /\ Goes(c, "return") /\ CallInv(c) /\ found \subseteq Hooks /\ ready \subseteq found
  BY DEF HelperCommit, At, HelperInv
<1>2. owner = c /\ owner' = c /\ phase' = "apply" /\ next' = Len(ops) /\ ops' = ops
  BY <1>1 DEF Commit
<1>3. call[c].kind # "init" /\ call[c].hr
      /\ \A j \in 1..Len(ops) : ops[j].kind = Queued(call[c].kind)
  BY <1>1 DEF CallInv, LoopInv
<1>4. /\ call'[c].kind = call[c].kind /\ call'[c].hr = call[c].hr /\ call'[c].at = "return"
      /\ call'[c].list = call[c].list /\ call'[c].i = call[c].i /\ call'[c] \in Calls
  BY <1>1, GoesFacts
<1>5. RestInv(c)'
  BY <1>2, <1>3, <1>4 DEF RestInv
<1>6. LoopInv(c)' /\ FoundInv(c)'
  BY <1>3, <1>4 DEF LoopInv, FoundInv
<1>7. CallInv(c)'
  BY <1>1, <1>3, <1>4, <1>5, <1>6 DEF CallInv
<1> QED BY <1>1, <1>2, <1>7, GoesFacts, OneCall

LEMMA InvReturn ==
  ASSUME HelperInv, NEW c \in Clients, HelperReturn(c)
  PROVE  HelperInv'
<1>1. call[c] # Null /\ call[c].at = "return" /\ UNCHANGED <<vars, found>>
      /\ call' = [call EXCEPT ![c] = Null] /\ CallInv(c) /\ found \subseteq Hooks
      /\ ready \subseteq found /\ call \in [Clients -> Calls \cup {Null}]
  BY DEF HelperReturn, At, HelperInv
<1>2. call' \in [Clients -> Calls \cup {Null}] /\ CallInv(c)'
      /\ \A d \in Clients : d # c => call'[d] = call[d]
  BY <1>1 DEF CallInv
<1>3. ASSUME call[c].kind = "init", call[c].hr PROVE InList(call[c].list) \subseteq found
  <2>1. FoundInv(c) /\ call[c].list \in Lists(c)
    BY <1>1 DEF CallInv
  <2>2. call[c].i - 1 = Len(call[c].list)
    BY <1>1, <1>3, <2>1, CallFacts DEF FoundInv
  <2>3. \A j \in 1..Len(call[c].list) : call[c].list[j] \in found
    BY <1>3, <2>1, <2>2 DEF FoundInv
  <2> QED BY <2>1, <2>3, ListFacts
<1>4. ready' \subseteq found'
  BY <1>1, <1>3 DEF HelperReturn
<1> QED BY <1>1, <1>2, <1>4, OneCall

LEMMA InvFind ==
  ASSUME HelperInv, NEW c \in Clients, HelperFind(c)
  PROVE  HelperInv'
<1>1. call[c] # Null /\ call[c].at = "begin" /\ call[c].kind = "init" /\ UNCHANGED <<vars, ready>>
      /\ CallInv(c) /\ found \subseteq Hooks /\ ready \subseteq found
  BY DEF HelperFind, At, HelperInv
<1>2. call[c].list \in Lists(c) /\ call[c].i \in 1..Len(call[c].list) + 1
      /\ Len(call[c].list) \in Nat
  BY <1>1, CallFacts
<1>3. ASSUME call[c].i > Len(call[c].list), Goes(c, "return"), UNCHANGED found PROVE HelperInv'
  <2>1. call[c].i = Len(call[c].list) + 1
    BY <1>2, <1>3
  <2>2. CallInv(c)'
    BY <1>1, <1>3, <2>1, GoesFacts, CallFacts DEF CallInv, LoopInv, RestInv, FoundInv, vars
  <2> QED BY <1>1, <1>3, <2>2, GoesFacts, OneCall
<1>4. ASSUME ~(call[c].i > Len(call[c].list)),
             found' = found \cup {call[c].list[call[c].i]},
             call' = [call EXCEPT ![c].i = @ + 1]
      PROVE  HelperInv'
  <2>1. call[c].i <= Len(call[c].list) /\ call[c].list[call[c].i] \in Hooks
    BY <1>1, <1>2, <1>4, CallFacts
  <2>2. /\ call' \in [Clients -> Calls \cup {Null}]
        /\ \A d \in Clients : d # c => call'[d] = call[d]
        /\ call'[c] # Null
        /\ call'[c] \in Calls
        /\ call'[c].kind = call[c].kind
        /\ call'[c].list = call[c].list
        /\ call'[c].i = call[c].i + 1
        /\ call'[c].at = call[c].at
        /\ call'[c].hr = call[c].hr
    BY <1>1, <1>4, <2>1, AdvanceFacts
  <2>3. FoundInv(c)'
    <3>1. \A j \in 1..call[c].i - 1 : call[c].hr => call[c].list[j] \in found
      BY <1>1 DEF CallInv, FoundInv
    <3>2. ASSUME NEW j \in 1..call'[c].i - 1, call[c].hr PROVE call'[c].list[j] \in found'
      <4>1. j \in 1..call[c].i - 1 \/ j = call[c].i
        BY <1>2, <2>2
      <4> QED BY <1>4, <2>2, <3>1, <3>2, <4>1
    <3> QED BY <1>1, <2>2, <3>2 DEF FoundInv
  <2>4. LoopInv(c)' /\ RestInv(c)'
    BY <1>1, <2>2 DEF CallInv, LoopInv, RestInv, vars
  <2>5. CallInv(c)'
    BY <1>1, <1>2, <2>1, <2>2, <2>3, <2>4 DEF CallInv
  <2> QED BY <1>1, <1>4, <2>1, <2>2, <2>5, OneCall
<1>5. ASSUME Fails(c, "return"), UNCHANGED found PROVE HelperInv'
  <2>1. CallInv(c)'
    BY <1>1, <1>5, GoesFacts, CallFacts DEF CallInv, LoopInv, RestInv, FoundInv, vars
  <2> QED BY <1>1, <1>5, <2>1, GoesFacts, OneCall
<1> QED BY <1>3, <1>4, <1>5 DEF HelperFind

\* A client's own transaction: the client is in no helper.
LEMMA InvDirect ==
  ASSUME TypeInv, HelperInv, NEW c \in Clients, DirectStep(c)
  PROVE  HelperInv'
<1>1. Free(c) /\ UNCHANGED <<call, found, ready>> /\ call[c] = Null
      /\ call \in [Clients -> Calls \cup {Null}] /\ found \subseteq Hooks /\ ready \subseteq found
  BY DEF DirectStep, Free, HelperInv
<1>2. owner \in {c, Null} /\ owner' \in {c, Null}
  BY DEF DirectStep, Begin, Commit, Abort, Attach, Detach
<1>3. CallInv(c)'
  BY <1>1 DEF CallInv
<1> QED BY <1>1, <1>2, <1>3, OneCall

\* Where a commit or an abort can be, and what its steps change.
LEMMA InternalFacts ==
  ASSUME TypeInv, Internal
  PROVE  /\ phase \in {"apply", "restore", "abort"}
         /\ \/ owner' = owner /\ phase' = phase
            \/ owner' = owner /\ phase = "apply" /\ phase' = "restore"
            \/ owner' = Null /\ phase' = "idle" /\ phase # "apply"
         /\ phase = "apply" /\ phase' = "apply" =>
              /\ next \in 1..Len(ops) /\ next' = next - 1
              /\ \A j \in 1..next' : ops'[j] = ops[j]
<1>1. CASE ApplyRemove
  <2>1. next \in DOMAIN ops /\ DOMAIN ops = 1..Len(ops) /\ ops \in Seq(Operation)
        /\ phase = "apply" /\ next' = next - 1 /\ UNCHANGED <<owner, phase>>
    BY <1>1, LenProperties DEF ApplyRemove, TypeInv, TypeOK
  <2>2. ops' = ops \/ ops' = [ops EXCEPT ![next].kind = "none"]
    BY <1>1 DEF ApplyRemove
  <2>3. \A j \in 1..next' : j \in DOMAIN ops /\ j # next
    BY <2>1
  <2>4. \A j \in 1..next' : ops'[j] = ops[j]
    BY <2>1, <2>2, <2>3, LeakFacts
  <2> QED BY <2>1, <2>4
<1>2. CASE ApplyAdd
  BY <1>2, LenProperties DEF ApplyAdd, TypeInv, TypeOK
<1>3. CASE EndApply
  BY <1>3 DEF EndApply
<1>4. CASE RestoreOne
  BY <1>4 DEF RestoreOne
<1>5. CASE Leave
  BY <1>5 DEF Leave
<1> QED BY <1>1, <1>2, <1>3, <1>4, <1>5 DEF Internal

LEMMA InvTransaction ==
  ASSUME TypeInv, HelperInv, TransactionStep
  PROVE  HelperInv'
<1>1. Internal /\ UNCHANGED <<call, found, ready>>
  BY DEF TransactionStep
<1>2. ASSUME NEW c \in Clients PROVE CallInv(c)'
  <2>1. CallInv(c) /\ call'[c] = call[c] /\ found' = found
    BY <1>1 DEF HelperInv
  <2>2. CASE owner # c
    <3>1. owner' # c
      BY <1>1, <2>2, InternalFacts, TransactionAssumption
    <3> QED BY <2>1, <2>2, <3>1, OtherCall
  <2>3. CASE call[c] = Null
    BY <2>1, <2>3 DEF CallInv
  <2>4. CASE owner = c /\ call[c] # Null
    <3>1. phase \in {"apply", "restore", "abort"}
      BY <1>1, InternalFacts
    <3>2. LoopInv(c) /\ RestInv(c) /\ call[c] \in Calls /\ call[c].at \in {"begin", "loop", "abort", "return"}
      BY <2>1, <2>4 DEF CallInv, Calls
    <3>3. call[c].at = "return" /\ call[c].kind # "init"
      BY <2>4, <3>1, <3>2 DEF LoopInv, RestInv
    <3>4. IF call[c].hr THEN phase \in {"apply", "restore"} ELSE phase = "abort"
      BY <2>4, <3>1, <3>2, <3>3 DEF RestInv
    <3>5. owner' = c => IF call[c].hr THEN phase' \in {"apply", "restore"} ELSE phase' = "abort"
      BY <1>1, <2>4, <3>4, InternalFacts, TransactionAssumption
    <3>6. phase' = "apply" => \A j \in 1..next' : ops'[j].kind = Queued(call[c].kind)
      <4>1. ASSUME phase' = "apply" PROVE phase = "apply" /\ next \in 1..Len(ops) /\ next' = next - 1
                                          /\ \A j \in 1..next' : ops'[j] = ops[j]
        BY <1>1, <4>1, InternalFacts
      <4>2. ASSUME phase' = "apply", NEW j \in 1..next' PROVE ops'[j].kind = Queued(call[c].kind)
        <5>1. j \in 1..next /\ ops'[j] = ops[j] /\ phase = "apply"
          BY <4>1, <4>2
        <5> QED BY <2>4, <3>2, <3>3, <5>1 DEF RestInv
      <4> QED BY <4>2
    <3>7. RestInv(c)' /\ LoopInv(c)'
      BY <2>1, <3>3, <3>5, <3>6 DEF RestInv, LoopInv
    <3> QED BY <2>1, <3>7 DEF CallInv, FoundInv
  <2> QED BY <2>2, <2>3, <2>4
<1> QED BY <1>1, <1>2 DEF HelperInv

LEMMA HelperInvNext ==
  ASSUME TypeInv, HelperInv, [HelperNext]_helperVars
  PROVE  HelperInv'
<1>1. ASSUME NEW c \in Clients, HelperStep(c) PROVE HelperInv'
  BY <1>1, InvBegin, InvOperation, InvAbort, InvCommit, InvReturn, InvFind DEF HelperStep
<1>2. CASE UNCHANGED helperVars
  BY <1>2 DEF helperVars, vars, HelperInv, CallInv, LoopInv, RestInv, FoundInv
<1> QED BY <1>1, <1>2, InvCall, InvDirect, InvTransaction DEF HelperNext

-----------------------------------------------------------------------------
(* The helpers run transactions.                                           *)

LEMMA HelperStepIsTransactionStep ==
  ASSUME HelperInv, [HelperNext]_helperVars
  PROVE  [Next]_vars
<1>1. ASSUME NEW c \in Clients, CallInlineHooks(c) \/ CallInitInlineHooks(c) PROVE UNCHANGED vars
  BY <1>1 DEF CallInlineHooks, CallInitInlineHooks, vars
<1>2. ASSUME NEW c \in Clients, HelperBegin(c) PROVE [Next]_vars
  BY <1>2 DEF HelperBegin, Next
<1>3. ASSUME NEW c \in Clients, HelperOperation(c) PROVE [Next]_vars
  <2>1. call[c] # Null /\ call[c].i <= Len(call[c].list)
    BY <1>3 DEF HelperOperation, At
  <2>2. call[c].list[call[c].i] \in Hooks
    BY <2>1, CallFacts
  <2>3. \/ \E h \in Hooks : Attach(c, h) \/ Detach(c, h)
        \/ UNCHANGED vars
    BY <1>3, <2>2 DEF HelperOperation
  <2> QED BY <2>3 DEF Next
<1>4. ASSUME NEW c \in Clients, HelperAbort(c) \/ HelperCommit(c) PROVE [Next]_vars
  BY <1>4 DEF HelperAbort, HelperCommit, Next
<1>5. ASSUME NEW c \in Clients, HelperReturn(c) \/ HelperFind(c) PROVE UNCHANGED vars
  BY <1>5 DEF HelperReturn, HelperFind, vars
<1>6. ASSUME NEW c \in Clients, DirectStep(c) PROVE [Next]_vars
  <2>1. \A h \in HooksOf[c] \cap ready : h \in Hooks
    BY InlineHooksAssumption
  <2> QED BY <1>6, <2>1 DEF DirectStep, Next
<1>7. ASSUME TransactionStep PROVE [Next]_vars
  BY <1>7 DEF TransactionStep, Next
<1>8. CASE UNCHANGED helperVars
  BY <1>8 DEF helperVars, vars
<1> QED BY <1>1, <1>2, <1>3, <1>4, <1>5, <1>6, <1>7, <1>8 DEF HelperNext, HelperStep

LEMMA HelperInvariant == HelperSpec => [](TypeInv /\ HelperInv)
<1>1. HelperInit => TypeInv /\ HelperInv
  BY TypeInit, HelperInvInit DEF HelperInit
<1>2. TypeInv /\ HelperInv /\ [HelperNext]_helperVars => (TypeInv /\ HelperInv)'
  BY TypeNext, HelperInvNext, HelperStepIsTransactionStep
<1> QED BY <1>1, <1>2, PTL DEF HelperSpec

\* Whatever clients do with the helpers and with transactions of their own is a
\* behaviour of Transaction, so that what is proved of transactions holds of both.
THEOREM HelpersRunTransactions == HelperSpec => Spec
<1>1. HelperInit => Init
  BY DEF HelperInit
<1>2. TypeInv /\ HelperInv /\ [HelperNext]_helperVars => [Next]_vars
  BY HelperStepIsTransactionStep
<1> QED BY <1>1, <1>2, HelperInvariant, PTL DEF HelperSpec, Spec

\* A hook a client was told is initialized has been found, for any list of hooks
\* and wherever the search fails.
THEOREM ToldOnlyWhatIsFound == HelperSpec => []HelperTypeOK
<1>1. HelperInv => HelperTypeOK
  BY DEF HelperInv, CallInv, HelperTypeOK
<1> QED BY <1>1, HelperInvariant, PTL

-----------------------------------------------------------------------------
(* A helper called inside a transaction.                                   *)

\* The transaction that is open is not the helper's: the helper is at its start, or
\* about to return a failure.
LEMMA NotOpenedFacts ==
  ASSUME HelperInv, NEW c \in Clients, Setting(c), owner = c, ~Opened(c)
  PROVE  /\ phase = "open"
         /\ call[c].at = "begin" \/ (call[c].at = "return" /\ ~call[c].hr)
<1>1. call[c] # Null /\ call[c].kind # "init" /\ CallInv(c)
  BY DEF Setting, HelperInv
<1>2. call[c].at \in {"begin", "return"}
  BY <1>1, CallFacts DEF Opened
<1>3. RestInv(c)
  BY <1>1 DEF CallInv
<1>4. CASE call[c].at = "begin"
  BY <1>3, <1>4 DEF RestInv
<1>5. CASE call[c].at = "return"
  <2>1. phase = "open"
    BY <1>1, <1>5 DEF Opened
  <2> QED BY <1>1, <1>3, <1>5, <2>1 DEF RestInv
<1> QED BY <1>2, <1>4, <1>5

LEMMA KeptStep ==
  ASSUME TypeInv, HelperInv, [HelperNext]_helperVars,
         NEW c \in Clients, Setting(c), owner = c, ~Opened(c)
  PROVE  /\ UNCHANGED <<owner, phase, ops, tramp, perm>>
         /\ IF Setting(c)' THEN ~Opened(c)' ELSE ~call[c].hr
<1>1. /\ phase = "open" /\ call[c] # Null /\ call[c].kind # "init"
      /\ call[c].at = "begin" \/ (call[c].at = "return" /\ ~call[c].hr)
      /\ owner # Null
  BY NotOpenedFacts, TransactionAssumption DEF Setting
<1>2. ASSUME UNCHANGED <<owner, phase, ops, tramp, perm>>, call'[c] = call[c]
      PROVE  /\ UNCHANGED <<owner, phase, ops, tramp, perm>>
             /\ IF Setting(c)' THEN ~Opened(c)' ELSE ~call[c].hr
  BY <1>2 DEF Setting, Opened
<1>3. ASSUME NEW d \in Clients, CallInlineHooks(d) \/ CallInitInlineHooks(d)
      PROVE  UNCHANGED <<owner, phase, ops, tramp, perm>> /\ call'[c] = call[c]
  BY <1>1, <1>3 DEF CallInlineHooks, CallInitInlineHooks, Free, vars, HelperInv
<1>4. ASSUME NEW d \in Clients, d # c, HelperStep(d)
      PROVE  UNCHANGED <<owner, phase, ops, tramp, perm>> /\ call'[c] = call[c]
  <2>1. call[d] # Null
    BY <1>4 DEF HelperStep, HelperBegin, HelperOperation, HelperAbort, HelperCommit, HelperReturn,
                HelperFind, At
  <2>2. ~Begin(d) /\ ~Abort(d) /\ ~Commit(d) /\ \A h : ~Attach(d, h) /\ ~Detach(d, h)
    BY <1>1, <1>4 DEF Begin, Abort, Commit, Attach, Detach
  <2>3. UNCHANGED vars
    BY <1>4, <2>2 DEF HelperStep, HelperBegin, HelperOperation, HelperAbort, HelperCommit,
                      HelperReturn, HelperFind, vars
  <2>4. call'[c] = call[c]
    BY <1>4, <2>1, <2>2 DEF HelperStep, HelperBegin, HelperOperation, HelperAbort, HelperCommit,
                            HelperReturn, HelperFind, HelperInv, Goes, Fails
  <2> QED BY <2>3, <2>4 DEF vars
<1>5. ASSUME NEW d \in Clients, DirectStep(d)
      PROVE  UNCHANGED <<owner, phase, ops, tramp, perm>> /\ call'[c] = call[c]
  BY <1>1, <1>5 DEF DirectStep, Free, Begin, Commit, Abort, Attach, Detach
<1>6. ~TransactionStep
  BY <1>1, InternalFacts DEF TransactionStep
<1>7. CASE HelperBegin(c)
  <2>1. Fails(c, "return") /\ UNCHANGED vars
    BY <1>1, <1>7 DEF HelperBegin, Begin
  <2>2. call'[c] # Null /\ call'[c].kind # "init" /\ call'[c].at = "return" /\ phase' = "open"
    BY <1>1, <2>1, GoesFacts DEF vars
  <2>3. Setting(c)' /\ ~Opened(c)'
    BY <2>2 DEF Opened, Setting
  <2> QED BY <2>1, <2>3 DEF vars
<1>8. CASE HelperReturn(c)
  <2>1. call'[c] = Null /\ UNCHANGED vars /\ call[c].at = "return"
    BY <1>8 DEF HelperReturn, HelperInv, At
  <2> QED BY <1>1, <2>1 DEF vars, Setting
<1>9. CASE HelperOperation(c) \/ HelperAbort(c) \/ HelperCommit(c) \/ HelperFind(c)
  BY <1>1, <1>9 DEF HelperOperation, HelperAbort, HelperCommit, HelperFind, At
<1>10. CASE UNCHANGED helperVars
  BY <1>2, <1>10 DEF helperVars, vars
<1> QED
  BY <1>2, <1>3, <1>4, <1>5, <1>6, <1>7, <1>8, <1>9, <1>10 DEF HelperNext, HelperStep

\* Whatever its list, a helper that is called inside a transaction of the client's
\* leaves that transaction as it is, and fails.
THEOREM OuterTransactionIsKept == HelperSpec => OuterTransactionKept
<1> DEFINE Kept == \A c \in Clients :
                     Setting(c) /\ owner = c /\ ~Opened(c) =>
                       /\ UNCHANGED <<owner, phase, ops, tramp, perm>>
                       /\ IF Setting(c)' THEN ~Opened(c)' ELSE ~call[c].hr
<1>1. TypeInv /\ HelperInv /\ [HelperNext]_helperVars => [Kept]_helperVars
  BY KeptStep
<1>2. OuterTransactionKept <=> [][Kept]_helperVars
  BY DEF OuterTransactionKept
<1> QED BY <1>1, <1>2, HelperInvariant, PTL DEF HelperSpec

-----------------------------------------------------------------------------
(* The helpers implement AtomicHooks.                                      *)

\* What AtomicHooks sees of a client's call.
AskedOf(c) ==
  IF Setting(c) THEN [enable |-> call[c].kind = "set", hooks |-> InList(call[c].list),
                      result |-> Result(c)]
                ELSE Null

LEMMA AskedFacts ==
  /\ Asked = [c \in Clients |-> AskedOf(c)]
  /\ Asked' = [c \in Clients |-> AskedOf(c)']
  /\ \A c \in Clients : call'[c] = call[c] => AskedOf(c)' = AskedOf(c)
<1>1. Asked = [c \in Clients |-> AskedOf(c)] /\ Asked' = [c \in Clients |-> AskedOf(c)']
  BY DEF Asked, AskedOf
<1>2. ASSUME NEW c \in Clients, call'[c] = call[c] PROVE AskedOf(c)' = AskedOf(c)
  BY <1>2 DEF AskedOf, Setting, Result, InList
<1> QED BY <1>1, <1>2

\* The step is c's, and AtomicHooks sees it so.
LEMMA AskedExcept ==
  ASSUME NEW c \in Clients, \A d \in Clients : d # c => call'[d] = call[d]
  PROVE  Asked' = [Asked EXCEPT ![c] = AskedOf(c)']
<1>1. Asked' = [d \in Clients |-> AskedOf(d)']
  BY AskedFacts
<1>2. \A d \in Clients : d # c => AskedOf(d)' = AskedOf(d)
  BY AskedFacts
<1> QED BY <1>1, <1>2, AskedFacts

LEMMA AskedStutter ==
  ASSUME \A d \in Clients : AskedOf(d)' = AskedOf(d)
  PROVE  Asked' = Asked
  BY AskedFacts

\* The hooks that are set, while nothing is applied.
LEMMA AttachedSteady ==
  ASSUME phase # "apply"
  PROVE  Attached = {h \in Hooks : ptr[h] \in Slots}
  BY DEF Attached

LEMMA AttachedHooks ==
  ASSUME TypeInv
  PROVE  Attached \subseteq Hooks
<1>1. CASE phase = "apply"
  <2>1. next \in 0..Len(ops) /\ DOMAIN ops = 1..Len(ops) /\ Len(ops) \in Nat
    BY LenProperties DEF TypeInv, TypeOK
  <2>2. \A i \in 1..next : ops[i].hook \in Hooks
    BY <2>1, OperationFacts DEF TypeInv
  <2> QED BY <2>2 DEF Attached
<1>2. CASE phase # "apply"
  BY <1>2, AttachedSteady
<1> QED BY <1>1, <1>2

\* Whose transaction is open does not change with c's call.
LEMMA DirectSteady ==
  ASSUME owner' = owner, owner # Null => Opened(owner)' = Opened(owner)
  PROVE  Direct' = Direct
  BY DEF Direct

LEMMA AskedTypes ==
  ASSUME HelperInv, NEW c \in Clients, Setting(c)
  PROVE  /\ Asked[c] = AskedOf(c)
         /\ Asked[c] # Null
         /\ Asked[c].enable = (call[c].kind = "set")
         /\ Asked[c].hooks = InList(call[c].list)
         /\ Asked[c].hooks \subseteq Hooks
         /\ Asked[c].result = Result(c)
<1>1. Asked[c] = [enable |-> call[c].kind = "set", hooks |-> InList(call[c].list),
                  result |-> Result(c)]
  BY AskedFacts DEF AskedOf
<1>2. Asked[c] = AskedOf(c)
  BY AskedFacts
<1>3. InList(call[c].list) \subseteq Hooks
  BY CallFacts, ListFacts DEF Setting
<1>4. Result(c) \in {"none", "success", "failure"}
  BY DEF Result
<1>5. Asked[c] \in AtomicCalls
  BY <1>1, <1>3, <1>4 DEF AtomicCalls
<1> QED BY <1>1, <1>2, <1>3, <1>5, InlineHooksAssumption

\* The result of c's call is decided, and nothing else about it.
LEMMA AskedBecomes ==
  ASSUME HelperInv, NEW c \in Clients, Setting(c), Result(c) = "none",
         \A d \in Clients : d # c => call'[d] = call[d],
         call'[c] # Null, call'[c].kind = call[c].kind, call'[c].list = call[c].list,
         NEW result, Result(c)' = result
  PROVE  Atomic!Becomes(c, result)
<1>1. Asked[c] # Null /\ Asked[c].result = "none" /\ Asked[c] = AskedOf(c)
  BY AskedTypes
<1>2. Setting(c)' /\ InList(call[c].list)' = InList(call[c].list)
  BY DEF Setting, InList
<1>3. AskedOf(c)' = [enable |-> call[c].kind = "set", hooks |-> InList(call[c].list), result |-> result]
  BY <1>2 DEF AskedOf
<1>4. AskedOf(c) = [enable |-> call[c].kind = "set", hooks |-> InList(call[c].list), result |-> "none"]
  BY DEF AskedOf
<1>5. Asked' = [Asked EXCEPT ![c] = AskedOf(c)']
  BY AskedExcept
<1>6. AskedOf(c)' = [Asked[c] EXCEPT !.result = result]
  BY <1>1, <1>3, <1>4
<1>7. Asked' = [Asked EXCEPT ![c].result = result]
  BY <1>5, <1>6
<1> QED BY <1>1, <1>7 DEF Atomic!Becomes

LEMMA AtomicInit == HelperInit => Atomic!Init
<1> SUFFICES ASSUME HelperInit PROVE Atomic!Init
  OBVIOUS
<1>1. owner = Null /\ phase = "idle" /\ (\A h \in Hooks : ptr[h] = Original) /\ Original \notin Slots
      /\ call = [c \in Clients |-> Null]
  BY TransactionAssumption DEF HelperInit, Init, Nodes
<1>2. Attached = {}
  BY <1>1 DEF Attached
<1>3. Direct = Null
  BY <1>1 DEF Direct
<1>4. Asked = [c \in Clients |-> Null]
  BY <1>1 DEF Asked, Setting
<1> QED BY <1>2, <1>3, <1>4 DEF Atomic!Init

LEMMA AtomicCall ==
  ASSUME HelperInv, NEW c \in Clients, CallInlineHooks(c)
  PROVE  Atomic!Next
<1>1. PICK kind \in {"set", "unset"}, l \in Lists(c) :
        call' = [call EXCEPT ![c] = Running(kind, l)]
  BY DEF CallInlineHooks
<1>2. /\ call \in [Clients -> Calls \cup {Null}] /\ UNCHANGED vars
      /\ call[c] = Null /\ (owner = c => phase = "open")
  BY DEF HelperInv, CallInlineHooks, Free
<1>3. Running(kind, l) # Null
  <2>1. Len(l) \in 1..MaxOps /\ MaxOps \in Nat
    BY ListFacts, TransactionAssumption
  <2>2. Running(kind, l) \in Calls
    BY <2>1 DEF Running, Calls
  <2> QED BY <2>2, InlineHooksAssumption
<1>4. /\ call'[c] # Null /\ call'[c].kind = kind /\ call'[c].list = l /\ call'[c].hr = TRUE
      /\ call'[c].at = "begin"
  BY <1>1, <1>2, <1>3 DEF Running
<1>5. Attached' = Attached
  BY <1>2 DEF Attached, vars
<1>6. Direct' = Direct
  <2>1. owner' = owner /\ phase' = phase
    BY <1>2 DEF vars
  <2>2. \A d \in Clients : d # c => call'[d] = call[d]
    BY <1>1, <1>2
  <2>3. ASSUME owner # Null PROVE Opened(owner)' = Opened(owner)
    BY <1>1, <1>2, <1>4, <2>1, <2>2 DEF Opened
  <2> QED BY <2>1, <2>3, DirectSteady
<1>7. AskedOf(c)' = [enable |-> kind = "set", hooks |-> InList(l), result |-> "none"]
  <2>1. Setting(c)' /\ Result(c)' = "none" /\ InList(call[c].list)' = InList(l)
    BY <1>4 DEF Setting, Result, InList
  <2> QED BY <1>4, <2>1 DEF AskedOf
<1>8. Asked[c] = Null
  BY <1>2, AskedFacts DEF AskedOf, Setting
<1>9. Asked' = [Asked EXCEPT ![c] = AskedOf(c)']
  BY <1>1, <1>2, AskedExcept
<1>10. InList(l) \in SUBSET Hooks /\ (kind = "set") \in BOOLEAN
  BY ListFacts
<1>11. Atomic!Call(c)
  BY <1>5, <1>6, <1>7, <1>8, <1>9, <1>10 DEF Atomic!Call
<1> QED BY <1>11 DEF Atomic!Next

LEMMA AtomicStutter ==
  ASSUME Attached' = Attached, Asked' = Asked, Direct' = Direct
  PROVE  UNCHANGED Atomic!vars
  BY DEF Atomic!vars

\* A helper fails to go on, wherever it is.
LEMMA AtomicFails ==
  ASSUME TypeInv, HelperInv, NEW c \in Clients, Setting(c), call[c].hr, call[c].at # "return", UNCHANGED vars,
         NEW place \in {"abort", "return"}, Fails(c, place),
         owner = c => phase = "open" /\ (call[c].at = "loop" <=> place = "abort")
  PROVE  Atomic!Next
<1>1. call[c] # Null /\ call[c].kind # "init" /\ call[c].at \in {"begin", "loop", "abort"}
  BY CallFacts DEF Setting
<1>2. /\ \A d \in Clients : d # c => call'[d] = call[d]
      /\ call'[c] # Null /\ call'[c].kind = call[c].kind /\ call'[c].list = call[c].list
      /\ call'[c].at = place /\ call'[c].hr = FALSE
  BY <1>1, GoesFacts
<1>3. Result(c) = "none" /\ Result(c)' = "failure"
  BY <1>1, <1>2 DEF Result
<1>4. Atomic!Becomes(c, "failure")
  BY <1>2, <1>3, AskedBecomes
<1>5. Attached' = Attached
  BY DEF Attached, vars
<1>6. Direct' = Direct
  <2>1. owner' = owner /\ phase' = phase
    BY DEF vars
  <2>2. ASSUME owner = c PROVE Opened(c)' = Opened(c)
    <3>1. CallInv(c)
      BY DEF HelperInv
    <3>2. call[c].at # "abort"
      BY <1>1, <3>1 DEF CallInv, RestInv
    <3> QED BY <1>1, <1>2, <2>1, <2>2, <3>2 DEF Opened
  <2>3. ASSUME owner # Null PROVE Opened(owner)' = Opened(owner)
    <3>1. owner \in Clients
      BY <2>3 DEF TypeInv, TypeOK
    <3>2. CASE owner = c
      BY <2>1, <2>2, <3>2 DEF Opened
    <3>3. CASE owner # c
      BY <1>2, <2>1, <3>1, <3>3 DEF Opened
    <3> QED BY <3>2, <3>3
  <2> QED BY <2>1, <2>3, DirectSteady
<1>7. Atomic!Fail(c)
  BY <1>4, <1>5, <1>6 DEF Atomic!Fail
<1> QED BY <1>7 DEF Atomic!Next, Atomic!Working

LEMMA AtomicBegin ==
  ASSUME TypeInv, HelperInv, NEW c \in Clients, HelperBegin(c)
  PROVE  Atomic!Next \/ UNCHANGED Atomic!vars
<1>1. Setting(c) /\ call[c].at = "begin" /\ call[c] # Null /\ CallInv(c)
  BY DEF HelperBegin, At, Setting, HelperInv
<1>2. call[c].hr /\ (owner = c => phase = "open")
  BY <1>1 DEF CallInv, RestInv
<1>3. CASE Fails(c, "return") /\ UNCHANGED vars
  BY <1>1, <1>2, <1>3, AtomicFails
<1>4. CASE Begin(c) /\ Goes(c, "loop")
  <2>1. /\ \A d \in Clients : d # c => call'[d] = call[d]
        /\ call'[c] # Null /\ call'[c].kind = call[c].kind /\ call'[c].list = call[c].list
        /\ call'[c].at = "loop" /\ call'[c].hr = call[c].hr
    BY <1>1, <1>4, GoesFacts
  <2>2. AskedOf(c)' = AskedOf(c)
    BY <1>1, <2>1 DEF AskedOf, Setting, Result, InList
  <2>3. Asked' = Asked
    BY <2>1, <2>2, AskedFacts, AskedStutter
  <2>4. owner = Null /\ owner' = c /\ phase = "idle" /\ phase' = "open" /\ ptr' = ptr
    BY <1>4 DEF Begin, TypeInv, PhaseInv
  <2>5. Attached' = Attached
    BY <2>4 DEF Attached
  <2>6. Direct' = Direct
    BY <2>1, <2>4 DEF Direct, Opened
  <2> QED BY <2>3, <2>5, <2>6, AtomicStutter
<1> QED BY <1>3, <1>4 DEF HelperBegin

LEMMA AtomicOperation ==
  ASSUME TypeInv, HelperInv, NEW c \in Clients, HelperOperation(c)
  PROVE  Atomic!Next \/ UNCHANGED Atomic!vars
<1>1. call[c] # Null /\ call[c].at = "loop" /\ call[c].i <= Len(call[c].list) /\ CallInv(c)
  BY DEF HelperOperation, At, HelperInv
<1>2. owner = c /\ phase = "open" /\ call[c].hr /\ call[c].kind # "init" /\ Setting(c)
  BY <1>1 DEF CallInv, LoopInv, Setting
<1>3. CASE Fails(c, "abort") /\ UNCHANGED vars
  BY <1>1, <1>2, <1>3, AtomicFails
<1>4. CASE ~(Fails(c, "abort") /\ UNCHANGED vars)
  <2>1. /\ IF call[c].kind = "set" THEN Attach(c, call[c].list[call[c].i])
                                   ELSE Detach(c, call[c].list[call[c].i])
        /\ call' = [call EXCEPT ![c].i = @ + 1]
    BY <1>4 DEF HelperOperation
  <2>2. /\ \A d \in Clients : d # c => call'[d] = call[d]
        /\ call'[c] # Null /\ call'[c].kind = call[c].kind /\ call'[c].list = call[c].list
        /\ call'[c].at = call[c].at /\ call'[c].hr = call[c].hr
    BY <1>1, <2>1, AdvanceFacts
  <2>3. AskedOf(c)' = AskedOf(c)
    BY <1>1, <2>2 DEF AskedOf, Setting, Result, InList
  <2>4. Asked' = Asked
    BY <2>2, <2>3, AskedFacts, AskedStutter
  <2>5. owner' = owner /\ phase' = phase /\ ptr' = ptr
    BY <2>1 DEF Attach, Detach
  <2>6. Attached' = Attached
    BY <1>2, <2>5 DEF Attached
  <2>7. Direct' = Direct
    BY <1>1, <1>2, <2>2, <2>5 DEF Direct, Opened
  <2> QED BY <2>4, <2>6, <2>7, AtomicStutter
<1> QED BY <1>3, <1>4

LEMMA AtomicAbort ==
  ASSUME HelperInv, NEW c \in Clients, HelperAbort(c)
  PROVE  UNCHANGED Atomic!vars
<1>1. call[c] # Null /\ call[c].at = "abort" /\ CallInv(c) /\ Abort(c) /\ Goes(c, "return")
  BY DEF HelperAbort, At, HelperInv
<1>2. owner = c /\ phase = "open" /\ ~call[c].hr
  BY <1>1 DEF CallInv, RestInv
<1>3. /\ \A d \in Clients : d # c => call'[d] = call[d]
      /\ call'[c] # Null /\ call'[c].kind = call[c].kind /\ call'[c].list = call[c].list
      /\ call'[c].at = "return" /\ call'[c].hr = call[c].hr
  BY <1>1, GoesFacts
<1>4. AskedOf(c)' = AskedOf(c)
  BY <1>1, <1>2, <1>3 DEF AskedOf, Setting, Result, InList
<1>5. Asked' = Asked
  BY <1>3, <1>4, AskedFacts, AskedStutter
<1>6. owner' = owner /\ phase' = "abort" /\ ptr' = ptr
  BY <1>1 DEF Abort
<1>7. Attached' = Attached
  BY <1>2, <1>6 DEF Attached
<1>8. Direct' = Direct
  BY <1>1, <1>2, <1>3, <1>6 DEF Direct, Opened
<1> QED BY <1>5, <1>7, <1>8, AtomicStutter

\* The call to SlimDetoursTransactionCommit is the moment at which all hooks of the
\* list are set, or all of them unset.
LEMMA AtomicCommit ==
  ASSUME TypeInv, HelperInv, NEW c \in Clients, HelperCommit(c)
  PROVE  Atomic!Next
<1>1. call[c] # Null /\ call[c].at = "loop" /\ CallInv(c) /\ Commit(c) /\ Goes(c, "return")
      /\ call[c].i > Len(call[c].list)
  BY DEF HelperCommit, At, HelperInv
<1>2. /\ owner = c /\ phase = "open" /\ call[c].hr
      /\ call[c].kind \in {"set", "unset"} /\ Setting(c)
      /\ Len(ops) = call[c].i - 1
      /\ \A j \in 1..Len(ops) : /\ ops[j].hook = call[c].list[j]
                               /\ ops[j].kind = Queued(call[c].kind)
  BY <1>1, CallFacts DEF CallInv, LoopInv, Setting
<1>3. /\ \A d \in Clients : d # c => call'[d] = call[d]
      /\ call'[c] # Null /\ call'[c].kind = call[c].kind /\ call'[c].list = call[c].list
      /\ call'[c].at = "return" /\ call'[c].hr = call[c].hr
  BY <1>1, GoesFacts
<1>4. Atomic!Becomes(c, "success")
  <2>1. Result(c) = "none" /\ Result(c)' = "success"
    BY <1>1, <1>2, <1>3 DEF Result
  <2> QED BY <1>2, <1>3, <2>1, AskedBecomes
<1>5. owner' = c /\ phase' = "apply" /\ next' = Len(ops) /\ UNCHANGED <<ops, ptr>>
  BY <1>1 DEF Commit
<1>6. c # Null
  BY TransactionAssumption
<1>7. Direct = Null /\ Direct' = Null
  BY <1>1, <1>2, <1>3, <1>5, <1>6 DEF Direct, Opened
<1>8. Len(ops) = Len(call[c].list) /\ call[c].list \in Lists(c)
  BY <1>1, <1>2, CallFacts
<1> DEFINE set == {h \in Hooks : ptr[h] \in Slots}
           left(kind) == {ops[i].hook : i \in {j \in 1..Len(ops) : ops[j].kind = kind}}
<1>9. Attached = set /\ Attached' = (set \cup left("add")) \ left("remove")
  BY <1>2, <1>5 DEF Attached
<1>10. InList(call[c].list) = {ops[j].hook : j \in 1..Len(ops)}
  BY <1>2, <1>8, ListFacts
<1>11. CASE call[c].kind = "set"
  <2>1. \A j \in 1..Len(ops) : ops[j].kind = "add"
    BY <1>2, <1>11 DEF Queued
  <2>2. left("add") = InList(call[c].list) /\ left("remove") = {}
    BY <1>10, <2>1
  <2>3. Attached' = Attached \cup Asked[c].hooks /\ Asked[c].enable
    BY <1>2, <1>9, <1>11, <2>2, AskedTypes
  <2>4. Atomic!Succeed(c)
    BY <1>4, <1>7, <2>3 DEF Atomic!Succeed
  <2> QED BY <2>4 DEF Atomic!Next, Atomic!Working
<1>12. CASE call[c].kind = "unset"
  <2>1. \A j \in 1..Len(ops) : ops[j].kind = "remove"
    BY <1>2, <1>12 DEF Queued
  <2>2. left("remove") = InList(call[c].list) /\ left("add") = {}
    BY <1>10, <2>1
  <2>3. Attached' = Attached \ Asked[c].hooks /\ ~Asked[c].enable
    BY <1>2, <1>9, <1>12, <2>2, AskedTypes
  <2>4. Atomic!Succeed(c)
    BY <1>4, <1>7, <2>3 DEF Atomic!Succeed
  <2> QED BY <2>4 DEF Atomic!Next, Atomic!Working
<1> QED BY <1>2, <1>11, <1>12

\* Only c's call changes, and not who has an open transaction: c has none, or none of
\* its helper's, before and after.
LEMMA DirectKept ==
  ASSUME TypeInv, NEW c \in Clients, UNCHANGED vars,
         \A d \in Clients : d # c => call'[d] = call[d],
         owner = c => ~Opened(c) /\ ~Opened(c)'
  PROVE  Attached' = Attached /\ Direct' = Direct
<1>1. owner' = owner /\ phase' = phase
  BY DEF vars
<1>2. ASSUME owner # Null PROVE Opened(owner)' = Opened(owner)
  <2>1. owner \in Clients
    BY <1>2 DEF TypeInv, TypeOK
  <2>2. CASE owner = c
    BY <1>1, <2>2 DEF Opened
  <2>3. CASE owner # c
    BY <1>1, <2>1, <2>3 DEF Opened
  <2> QED BY <2>2, <2>3
<1>3. Direct' = Direct
  BY <1>1, <1>2, DirectSteady
<1>4. Attached' = Attached
  BY DEF Attached, vars
<1> QED BY <1>3, <1>4

LEMMA AtomicReturn ==
  ASSUME TypeInv, HelperInv, NEW c \in Clients, HelperReturn(c)
  PROVE  Atomic!Next \/ UNCHANGED Atomic!vars
<1>1. /\ call[c] # Null /\ call[c].at = "return" /\ (owner = c => phase = "open") /\ UNCHANGED vars
      /\ call'[c] = Null /\ \A d \in Clients : d # c => call'[d] = call[d]
  BY DEF HelperReturn, At, HelperInv
<1>2. owner = c => ~Opened(c) /\ ~Opened(c)'
  BY <1>1 DEF Opened
<1>3. Attached' = Attached /\ Direct' = Direct
  BY <1>1, <1>2, DirectKept
<1>4. AskedOf(c)' = Null
  BY <1>1 DEF AskedOf, Setting
<1>5. CASE Setting(c)
  <2>1. Asked' = [Asked EXCEPT ![c] = Null]
    BY <1>1, <1>4, AskedExcept
  <2>2. Result(c) # "none"
    BY <1>1 DEF Result
  <2>3. Asked[c] # Null /\ Asked[c].result # "none"
    BY <1>5, <2>2, AskedTypes
  <2>4. Atomic!Return(c)
    BY <1>3, <2>1, <2>3 DEF Atomic!Return
  <2> QED BY <2>4 DEF Atomic!Next, Atomic!Working
<1>6. CASE ~Setting(c)
  <2>1. AskedOf(c)' = AskedOf(c)
    BY <1>4, <1>6 DEF AskedOf
  <2> QED BY <1>1, <1>3, <2>1, AskedFacts, AskedStutter, AtomicStutter
<1> QED BY <1>5, <1>6

\* SlimDetoursInitInlineHooks sets nothing.
LEMMA AtomicFind ==
  ASSUME TypeInv, HelperInv, NEW c \in Clients, HelperFind(c)
  PROVE  UNCHANGED Atomic!vars
<1>1. /\ call[c] # Null /\ call[c].at = "begin" /\ call[c].kind = "init" /\ UNCHANGED vars
      /\ CallInv(c)
  BY DEF HelperFind, At, HelperInv
<1>2. owner = c => phase = "open"
  BY <1>1 DEF CallInv, RestInv
<1>3. /\ \A d \in Clients : d # c => call'[d] = call[d]
      /\ call'[c] # Null /\ call'[c].kind = "init" /\ call'[c].at \in {"begin", "return"}
  <2>1. CASE Goes(c, "return") \/ Fails(c, "return")
    BY <1>1, <2>1, GoesFacts
  <2>2. CASE ~(Goes(c, "return") \/ Fails(c, "return"))
    <3>1. call' = [call EXCEPT ![c].i = @ + 1] /\ ~(call[c].i > Len(call[c].list))
      BY <2>2 DEF HelperFind
    <3>2. call[c].i <= Len(call[c].list)
      BY <1>1, <3>1, CallFacts
    <3> QED BY <1>1, <3>1, <3>2, AdvanceFacts
  <2> QED BY <2>1, <2>2
<1>4. owner = c => ~Opened(c) /\ ~Opened(c)'
  BY <1>1, <1>2, <1>3 DEF Opened, vars
<1>5. Attached' = Attached /\ Direct' = Direct
  BY <1>1, <1>3, <1>4, DirectKept
<1>6. AskedOf(c)' = AskedOf(c)
  BY <1>1, <1>3 DEF AskedOf, Setting
<1> QED BY <1>3, <1>5, <1>6, AskedFacts, AskedStutter, AtomicStutter

LEMMA AtomicInitCall ==
  ASSUME TypeInv, HelperInv, NEW c \in Clients, CallInitInlineHooks(c)
  PROVE  UNCHANGED Atomic!vars
<1>1. PICK l \in Lists(c) : call' = [call EXCEPT ![c] = Running("init", l)]
  BY DEF CallInitInlineHooks
<1>2. /\ call \in [Clients -> Calls \cup {Null}] /\ UNCHANGED vars
      /\ call[c] = Null /\ (owner = c => phase = "open")
  BY DEF HelperInv, CallInitInlineHooks, Free
<1>3. /\ \A d \in Clients : d # c => call'[d] = call[d]
      /\ call'[c].kind = "init" /\ call'[c].at = "begin"
  BY <1>1, <1>2 DEF Running
<1>4. owner = c => ~Opened(c) /\ ~Opened(c)'
  BY <1>2, <1>3 DEF Opened, vars
<1>5. Attached' = Attached /\ Direct' = Direct
  BY <1>2, <1>3, <1>4, DirectKept
<1>6. AskedOf(c)' = AskedOf(c)
  BY <1>2, <1>3 DEF AskedOf, Setting
<1> QED BY <1>3, <1>5, <1>6, AskedFacts, AskedStutter, AtomicStutter

LEMMA AtomicDirect ==
  ASSUME TypeInv, HelperInv, NEW c \in Clients, DirectStep(c)
  PROVE  Atomic!Next \/ UNCHANGED Atomic!vars
<1>1. call[c] = Null /\ (owner = c => phase = "open") /\ UNCHANGED <<call, found, ready>> /\ c # Null
  BY TransactionAssumption DEF DirectStep, Free
<1>2. Asked' = Asked /\ ~Opened(c) /\ ~Opened(c)'
  BY <1>1, AskedFacts, AskedStutter DEF Opened
<1>3. Asked[c] = Null
  BY <1>1, AskedFacts DEF AskedOf, Setting
<1>4. CASE Begin(c)
  <2>1. owner = Null /\ owner' = c /\ phase = "idle" /\ phase' = "open" /\ ptr' = ptr
    BY <1>4 DEF Begin, TypeInv, PhaseInv
  <2>2. Attached' = Attached /\ Direct = Null /\ Direct' = c
    BY <1>1, <1>2, <2>1 DEF Attached, Direct
  <2>3. Atomic!Open(c)
    BY <1>2, <1>3, <2>2 DEF Atomic!Open
  <2> QED BY <2>3 DEF Atomic!Next
<1>5. CASE Commit(c)
  <2>1. owner = c /\ owner' = c
    BY <1>5 DEF Commit
  <2>2. Direct = c /\ Direct' = c
    BY <1>1, <1>2, <2>1 DEF Direct
  <2>3. Attached' \subseteq Hooks
    <3>1. phase' = "apply" /\ ptr' = ptr /\ ops' = ops /\ next' = Len(ops)
      BY <1>5 DEF Commit
    <3>2. DOMAIN ops = 1..Len(ops) /\ Len(ops) \in Nat
      BY LenProperties DEF TypeInv, TypeOK
    <3>3. \A i \in 1..next' : ops'[i].hook \in Hooks
      BY <3>1, <3>2, OperationFacts DEF TypeInv
    <3> QED BY <3>3 DEF Attached
  <2>4. Atomic!Change
    BY <1>1, <1>2, <1>3, <2>2, <2>3 DEF Atomic!Change
  <2> QED BY <2>4 DEF Atomic!Next
<1>6. CASE Abort(c) \/ \E h \in HooksOf[c] \cap ready : Attach(c, h) \/ Detach(c, h)
  <2>1. owner = c /\ owner' = c /\ phase = "open" /\ phase' \in {"open", "abort"} /\ ptr' = ptr
    BY <1>6 DEF Abort, Attach, Detach
  <2>2. Attached' = Attached /\ Direct' = Direct
    BY <1>1, <1>2, <2>1 DEF Attached, Direct
  <2> QED BY <1>2, <2>2, AtomicStutter
<1> QED BY <1>4, <1>5, <1>6 DEF DirectStep

\* A commit or an abort that runs is a helper's, that is about to return, or a
\* client's that is in no helper.
LEMMA CommitterFacts ==
  ASSUME TypeInv, HelperInv, phase \in {"apply", "restore", "abort"}
  PROVE  /\ owner \in Clients /\ owner # Null
         /\ Opened(owner) =>
              /\ call[owner] # Null /\ call[owner].at = "return"
              /\ phase = "apply" => \A j \in 1..next : ops[j].kind = Queued(call[owner].kind)
         /\ ~Opened(owner) => call[owner] = Null
<1>1. owner \in Clients /\ owner # Null
  BY DEF TypeInv, TypeOK, PhaseInv
<1>2. ASSUME call[owner] # Null
      PROVE  /\ call[owner].at = "return" /\ Opened(owner)
             /\ phase = "apply" => \A j \in 1..next : ops[j].kind = Queued(call[owner].kind)
  <2>1. CallInv(owner) /\ call[owner].at \in {"begin", "loop", "abort", "return"}
    BY <1>1, <1>2, CallFacts DEF HelperInv
  <2>2. LoopInv(owner) /\ RestInv(owner)
    BY <1>2, <2>1 DEF CallInv
  <2>3. call[owner].at = "return"
    BY <2>1, <2>2 DEF LoopInv, RestInv
  <2>4. Opened(owner)
    BY <1>2, <2>3 DEF Opened
  <2>5. phase = "apply" => \A j \in 1..next : ops[j].kind = Queued(call[owner].kind)
    BY <2>2, <2>3 DEF RestInv
  <2> QED BY <2>3, <2>4, <2>5
<1>3. Opened(owner) => call[owner] # Null
  BY DEF Opened
<1> QED BY <1>1, <1>2, <1>3

\* One step of a helper's commit moves a hook from what is still to be done to what
\* is done: together they stay the same.
LEMMA ApplyKeepsAttached ==
  ASSUME TypeInv, NEW kind \in {"add", "remove"}, \A j \in 1..next : ops[j].kind = kind,
         ApplyAdd \/ ApplyRemove
  PROVE  Attached' = Attached
<1> DEFINE set == {h \in Hooks : ptr[h] \in Slots}
           left == {ops[j].hook : j \in 1..next}
           later == {ops[j].hook : j \in 1..next - 1}
           o == ops[next]
<1>1. /\ phase = "apply" /\ phase' = "apply" /\ next' = next - 1 /\ next \in 1..Len(ops)
      /\ \A j \in 1..next' : ops'[j] = ops[j]
  <2>1. Internal /\ phase = "apply" /\ phase' = "apply"
    BY DEF Internal, ApplyAdd, ApplyRemove
  <2> QED BY <2>1, InternalFacts
<1>2. Len(ops) \in Nat /\ DOMAIN ops = 1..Len(ops) /\ next \in DOMAIN ops
  BY <1>1, LenProperties DEF TypeInv, TypeOK
<1>3. o.hook \in Hooks /\ o.slot \in Slots
  BY <1>2, OperationFacts DEF TypeInv
<1>4. o.kind = kind /\ left = later \cup {o.hook}
  BY <1>1, <1>2
<1>5. ptr \in [Hooks -> Slots \cup {Original}] /\ Original \notin Slots
  BY TransactionAssumption DEF TypeInv, TypeOK, Nodes
<1>6. \A j \in 1..next' : ops'[j].kind = kind /\ ops'[j].hook = ops[j].hook
  BY <1>1, <1>2
<1>7. CASE kind = "add"
  <2>1. ApplyAdd
    BY <1>4, <1>7 DEF ApplyAdd, ApplyRemove
  <2>2. ptr' = [ptr EXCEPT ![o.hook] = o.slot]
    BY <2>1 DEF ApplyAdd
  <2>3. {h \in Hooks : ptr'[h] \in Slots} = set \cup {o.hook}
    BY <1>3, <1>5, <2>2
  <2>4. {ops[i].hook : i \in {j \in 1..next : ops[j].kind = "add"}} = left
        /\ {ops[i].hook : i \in {j \in 1..next : ops[j].kind = "remove"}} = {}
    BY <1>7
  <2>5. {ops'[i].hook : i \in {j \in 1..next' : ops'[j].kind = "add"}} = later
        /\ {ops'[i].hook : i \in {j \in 1..next' : ops'[j].kind = "remove"}} = {}
    BY <1>1, <1>6, <1>7
  <2>6. Attached = set \cup left
    BY <1>1, <2>4 DEF Attached
  <2>7. Attached' = (set \cup {o.hook}) \cup later
    BY <1>1, <2>3, <2>5 DEF Attached
  <2> QED BY <1>4, <2>6, <2>7
<1>8. CASE kind = "remove"
  <2>1. ApplyRemove
    BY <1>4, <1>8 DEF ApplyAdd, ApplyRemove
  <2>2. ptr' = [ptr EXCEPT ![o.hook] = Original]
    BY <2>1 DEF ApplyRemove
  <2>3. {h \in Hooks : ptr'[h] \in Slots} = set \ {o.hook}
    BY <1>3, <1>5, <2>2
  <2>4. {ops[i].hook : i \in {j \in 1..next : ops[j].kind = "remove"}} = left
        /\ {ops[i].hook : i \in {j \in 1..next : ops[j].kind = "add"}} = {}
    BY <1>8
  <2>5. {ops'[i].hook : i \in {j \in 1..next' : ops'[j].kind = "remove"}} = later
        /\ {ops'[i].hook : i \in {j \in 1..next' : ops'[j].kind = "add"}} = {}
    BY <1>1, <1>6, <1>8
  <2>6. Attached = set \ left
    BY <1>1, <2>4 DEF Attached
  <2>7. Attached' = (set \ {o.hook}) \ later
    BY <1>1, <2>3, <2>5 DEF Attached
  <2> QED BY <1>4, <2>6, <2>7
<1> QED BY <1>7, <1>8

LEMMA AtomicTransaction ==
  ASSUME TypeInv, HelperInv, TransactionStep
  PROVE  Atomic!Next \/ UNCHANGED Atomic!vars
<1>1. Internal /\ call' = call /\ phase \in {"apply", "restore", "abort"}
  BY InternalFacts DEF TransactionStep
<1>2. owner \in Clients /\ owner # Null /\ Asked' = Asked
  BY <1>1, CommitterFacts, AskedFacts, AskedStutter
<1>3. CASE Opened(owner)
  <2>1. Direct = Null
    BY <1>3 DEF Direct
  <2>2. Direct' = Null
    <3>1. owner' \in {owner, Null} /\ (owner' = owner => phase' # "open")
      BY <1>1, InternalFacts
    <3>2. call[owner] # Null /\ call[owner].at = "return"
      BY <1>1, <1>3, CommitterFacts
    <3> QED BY <1>1, <3>1, <3>2 DEF Direct, Opened
  <2>3. Attached' = Attached
    <3>1. CASE ApplyAdd \/ ApplyRemove
      <4>1. phase = "apply"
        BY <3>1 DEF ApplyAdd, ApplyRemove
      <4>2. PICK kind \in {"add", "remove"} : kind = Queued(call[owner].kind)
        BY DEF Queued
      <4>3. \A j \in 1..next : ops[j].kind = kind
        BY <1>1, <1>3, <4>1, <4>2, CommitterFacts
      <4> QED BY <3>1, <4>3, ApplyKeepsAttached
    <3>2. CASE EndApply \/ RestoreOne \/ Leave
      BY <3>2 DEF EndApply, RestoreOne, Leave, Attached
    <3> QED BY <1>1, <3>1, <3>2 DEF Internal
  <2> QED BY <1>2, <2>1, <2>2, <2>3, AtomicStutter
<1>4. CASE ~Opened(owner)
  <2>1. Direct = owner /\ call[owner] = Null
    BY <1>1, <1>2, <1>4, CommitterFacts DEF Direct
  <2>2. Asked[owner] = Null
    BY <1>2, <2>1, AskedFacts DEF AskedOf, Setting
  <2>3. ASSUME owner' = owner PROVE Direct' = owner
    BY <1>1, <1>2, <2>1, <2>3 DEF Direct, Opened
  <2>4. CASE ApplyAdd \/ ApplyRemove
    <3>1. owner' = owner
      BY <2>4 DEF ApplyAdd, ApplyRemove
    <3>2. Attached' \subseteq Hooks
      <4>1. phase = "apply" /\ phase' = "apply"
        BY <2>4 DEF ApplyAdd, ApplyRemove
      <4>2. next \in 1..Len(ops) /\ next' = next - 1 /\ \A j \in 1..next' : ops'[j] = ops[j]
        BY <1>1, <4>1, InternalFacts
      <4>3. DOMAIN ops = 1..Len(ops) /\ Len(ops) \in Nat
        BY LenProperties DEF TypeInv, TypeOK
      <4>4. \A j \in 1..next' : j \in DOMAIN ops /\ ops'[j].hook = ops[j].hook
        BY <4>2, <4>3
      <4>5. \A j \in 1..next' : ops'[j].hook \in Hooks
        BY <4>4, OperationFacts DEF TypeInv
      <4> QED BY <4>5 DEF Attached
    <3>3. Atomic!Change
      BY <1>2, <2>1, <2>2, <2>3, <3>1, <3>2 DEF Atomic!Change
    <3> QED BY <3>3 DEF Atomic!Next
  <2>5. CASE EndApply \/ RestoreOne
    <3>1. owner' = owner /\ Attached' = Attached
      BY <2>5 DEF EndApply, RestoreOne, Attached
    <3> QED BY <1>2, <2>1, <2>3, <3>1, AtomicStutter
  <2>6. CASE Leave
    <3>1. owner' = Null /\ Attached' = Attached
      BY <2>6 DEF Leave, Attached
    <3>2. Direct' = Null
      BY <3>1 DEF Direct
    <3>3. Atomic!Close
      BY <1>2, <2>1, <2>2, <3>1, <3>2 DEF Atomic!Close
    <3> QED BY <3>3 DEF Atomic!Next
  <2> QED BY <1>1, <2>4, <2>5, <2>6 DEF Internal
<1> QED BY <1>3, <1>4

LEMMA AtomicStep ==
  ASSUME TypeInv, HelperInv, [HelperNext]_helperVars
  PROVE  Atomic!Next \/ UNCHANGED Atomic!vars
<1>1. ASSUME NEW c \in Clients, HelperStep(c) PROVE Atomic!Next \/ UNCHANGED Atomic!vars
  BY <1>1, AtomicBegin, AtomicOperation, AtomicAbort, AtomicCommit, AtomicReturn, AtomicFind
  DEF HelperStep
<1>2. CASE UNCHANGED helperVars
  <2>1. Attached' = Attached /\ Direct' = Direct /\ call' = call
    BY <1>2 DEF helperVars, vars, Attached, Direct, Opened
  <2> QED BY <2>1, AskedFacts, AskedStutter, AtomicStutter
<1> QED
  BY <1>1, <1>2, AtomicCall, AtomicInitCall, AtomicDirect, AtomicTransaction DEF HelperNext

\* SlimDetoursInlineHooks takes effect at one moment, in which all the hooks of its
\* list are set or unset, or fails and changes none, for any lists, whatever fails
\* and whatever other clients do; that it does return is left to TLC.
THEOREM HelpersAreAtomic == HelperSpec => Atomic!Init /\ [][Atomic!Next]_(Atomic!vars)
<1>1. TypeInv /\ HelperInv /\ [HelperNext]_helperVars => [Atomic!Next]_(Atomic!vars)
  BY AtomicStep
<1> QED BY <1>1, AtomicInit, HelperInvariant, PTL DEF HelperSpec
=============================================================================
