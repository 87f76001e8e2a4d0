--------------------------- MODULE TransactionInv ---------------------------
(***************************************************************************)
(* The inductive invariant of Transaction under the client discipline.     *)
(***************************************************************************)
EXTENDS Transaction

\* Zeroed and used trampolines are told apart by each of their fields.
FieldInv ==
  \A n \in Nodes : /\ tramp[n].target = Null => tramp[n] = Zeroed
                   /\ Live(n) => tramp[n].rest # Null /\ tramp[n].detour # Null

\* Nobody owns the transaction, and nothing is pending, exactly between transactions.
PhaseInv ==
  /\ phase = "idle" <=> owner = Null
  /\ phase = "idle" => ops = << >>

\* Until the restoring loops run, operations refer to trampolines in use.
LiveInv ==
  phase \in {"open", "apply"} => \A i \in DOMAIN ops : Live(ops[i].slot)

TypeInv == TypeOK /\ FieldInv /\ PhaseInv /\ LiveInv

-----------------------------------------------------------------------------

\* The operations whose effect on code and pointers is still to come.
Unapplied(i) ==
  \/ phase \in {"open", "abort"}
  \/ phase = "apply" /\ i <= next

\* A trampoline Attach filled in, that no jump leads to yet.
Pending(n) == \E i \in DOMAIN ops :
                Unapplied(i) /\ ops[i].kind = "add" /\ ops[i].slot = n

\* A trampoline Commit took off its target, and will free.
Removed(n) == \E i \in DOMAIN ops :
                ~Unapplied(i) /\ ops[i].kind = "remove" /\ ops[i].slot = n

\* The trampolines on the chains of the targets.
Chained == {n \in Nodes : Live(n) /\ ~Pending(n) /\ ~Removed(n)}

\* What an operation says of its trampoline, before and after it is applied.
OperationInv ==
  \A i \in DOMAIN ops :
    LET o == ops[i] IN
      /\ o.target = TargetOf[o.hook]
      /\ Live(o.slot)
      /\ tramp[o.slot].target = o.target
      /\ Unapplied(i) =>
           /\ o.kind # "none"
           /\ tramp[o.slot].detour = o.hook
           /\ o.kind = "add" => /\ ptr[o.hook] = Original
                                /\ tramp[o.slot].rest = code[o.target]
           /\ o.kind = "remove" => ptr[o.hook] = o.slot

\* Operations of one transaction do not meet, except detaches of a target.
DistinctInv ==
  \A i, j \in DOMAIN ops : i # j =>
    /\ ops[i].slot # ops[j].slot
    /\ ops[i].hook # ops[j].hook
    /\ ops[i].kind = "add" => ops[i].target # ops[j].target

\* The jump at a target leads into its chain, the copied code of a chained
\* trampoline leads further down the same chain, no two lead to the same one,
\* and none but the top one is led to by nobody.
ChainInv ==
  /\ \A t \in Targets : code[t] \in Nodes =>
       code[t] \in Chained /\ tramp[code[t]].target = t
  /\ \A n \in Chained : tramp[n].rest \in Nodes =>
       /\ tramp[n].rest \in Chained
       /\ tramp[tramp[n].rest].target = tramp[n].target
       /\ code[tramp[n].target] # tramp[n].rest
  /\ \A m, n \in Chained : m # n /\ tramp[m].rest \in Nodes =>
       tramp[m].rest # tramp[n].rest
  /\ \A n \in Chained :
       \/ code[tramp[n].target] = n
       \/ \E m \in Chained : tramp[m].rest = n

\* Pointers and trampolines of attached hooks lead to each other.
PointerInv ==
  /\ \A h \in Hooks : ptr[h] \in Slots => /\ ptr[h] \in Chained
                                          /\ tramp[ptr[h]].detour = h
                                          /\ tramp[ptr[h]].target = TargetOf[h]
  /\ \A n \in Chained : tramp[n].detour \in Hooks => ptr[tramp[n].detour] = n

\* A removed trampoline leads into the chain, or to one that was removed after
\* it and will be freed after it.
RemovedInv ==
  \A i \in DOMAIN ops :
    ~Unapplied(i) /\ ops[i].kind = "remove" /\ tramp[ops[i].slot].rest \in Nodes =>
      \/ tramp[ops[i].slot].rest \in Chained
      \/ \E j \in DOMAIN ops : /\ j < i
                               /\ ~Unapplied(j)
                               /\ ops[j].kind = "remove"
                               /\ ops[j].slot = tramp[ops[i].slot].rest

\* Other libraries' trampolines lead to their own detours, and no others do.
ForeignInv ==
  /\ \A f \in Foreign : Live(f) => tramp[f].detour = f
  /\ \A s \in Slots : tramp[s].detour \notin Foreign

IInv == /\ TypeInv /\ OperationInv /\ DistinctInv
        /\ ChainInv /\ PointerInv /\ RemovedInv /\ ForeignInv

\* The oldest operation on a page knows its protection from before the
\* transaction; the later ones found it writable.
PermInv ==
  /\ \A i \in DOMAIN ops :
       ops[i].perm =
         IF \E j \in DOMAIN ops : j < i /\ FirstPage[ops[j].target] = FirstPage[ops[i].target]
         THEN RWX ELSE InitPerm[FirstPage[ops[i].target]]
  /\ \A p \in Pages :
       perm[p] = IF \E i \in DOMAIN ops : FirstPage[ops[i].target] = p
                 THEN RWX ELSE InitPerm[p]
=============================================================================
