---------------------------- MODULE Transaction ----------------------------
(***************************************************************************)
(* The transaction at the heart of SlimDetours (Transaction.c): one thread *)
(* at a time opens a transaction, queues attach and detach operations, and *)
(* commits or aborts them.                                                 *)
(*                                                                         *)
(* The first bytes of a target function are abstracted to what they do:    *)
(* they are the original instructions, or a jump into the trampoline that  *)
(* was installed last.  A trampoline keeps a copy of the bytes it replaced *)
(* (rbRestore, and relocated in rbCode), so the trampolines of a target    *)
(* form a chain that ends in the original instructions.                    *)
(***************************************************************************)
EXTENDS Integers, Sequences

CONSTANTS
  Clients,     \* threads that call the API
  Targets,     \* functions that can be hooked
  Hooks,       \* DETOUR_INLINE_HOOKs: a pointer variable and its detour
  TargetOf,    \* [Hooks -> Targets], the function the pointer starts from
  Slots,       \* trampolines the allocator can hand out
  Foreign,     \* trampolines of another hooking library in the process
  Pages,       \* pages of code
  FirstPage,   \* [Targets -> Pages], where the patched bytes begin
  PagesOf,     \* [Targets -> SUBSET Pages], the pages they lie on
  Perms,       \* page protections
  InitPerm,    \* [Pages -> Perms], protection while nothing is pending
  RWX,         \* PAGE_EXECUTE_READWRITE
  Null,        \* the NULL pointer and the zeroed field
  Original,    \* the original instructions of a target
  Bypass,      \* pbDetour of a leaked trampoline: its own rbCode
  MaxOps,      \* bound: operations of one transaction
  Disciplined  \* whether clients keep to one attach, or distinct detaches,
               \* per target and transaction

Nodes == Slots \cup Foreign

ASSUME TransactionAssumption ==
  /\ TargetOf \in [Hooks -> Targets]
  /\ FirstPage \in [Targets -> Pages]
  /\ PagesOf \in [Targets -> SUBSET Pages]
  /\ \A t \in Targets : FirstPage[t] \in PagesOf[t]
  /\ InitPerm \in [Pages -> Perms]
  /\ RWX \in Perms
  /\ MaxOps \in Nat
  /\ Disciplined \in BOOLEAN
  /\ Slots \cap Foreign = {}
  /\ Null \notin Clients \cup Targets \cup Nodes \cup Hooks \cup {Original, Bypass}
  /\ Original \notin Nodes \cup Hooks
  /\ Bypass \notin Hooks \cup Foreign
  /\ Hooks \cap Foreign = {}

VARIABLES
  owner,   \* s_nPendingThreadId
  phase,   \* where the owner is in the transaction
  ops,     \* s_pPendingOperations; the head of the list is the last element
  next,    \* the operation Commit's first loop is at (0: past the last)
  code,    \* what the first bytes of each target do
  tramp,   \* contents of the trampolines
  ptr,     \* *ppPointer of each hook: the function, or a trampoline's rbCode
  perm     \* protection of each page

vars == <<owner, phase, ops, next, code, tramp, ptr, perm>>

Phases == {"idle", "open", "apply", "restore", "abort"}

Trampoline == [target : Targets \cup {Null},
               detour : Hooks \cup Foreign \cup {Bypass, Null},
               rest   : Nodes \cup {Original, Null}]

\* What RtlZeroMemory leaves of a trampoline that goes back to the free list.
Zeroed == [target |-> Null, detour |-> Null, rest |-> Null]

Live(n) == tramp[n] # Zeroed

Operation == [kind : {"add", "remove", "none"}, hook : Hooks, slot : Slots,
              target : Targets, perm : Perms]

Init ==
  /\ owner = Null
  /\ phase = "idle"
  /\ ops = << >>
  /\ next = 0
  /\ code = [t \in Targets |-> Original]
  /\ tramp = [n \in Nodes |-> Zeroed]
  /\ ptr = [h \in Hooks |-> Original]
  /\ perm = InitPerm

-----------------------------------------------------------------------------

\* The client discipline under which a transaction is safe: within one
\* transaction a target sees a single attach, or detaches of distinct hooks.
MayAttach(h) ==
  Disciplined => \A i \in DOMAIN ops : ops[i].target # TargetOf[h]

MayDetach(h) ==
  Disciplined => \A i \in DOMAIN ops :
                   ops[i].target = TargetOf[h] => /\ ops[i].kind = "remove"
                                                  /\ ops[i].hook # h

\* NtProtectVirtualMemory over the patched bytes of t: it reports the
\* protection of the first page and changes all of them.
Protect(t, p) == [g \in Pages |-> IF g \in PagesOf[t] THEN p ELSE perm[g]]

\* Mutant: the old protection is recorded before the call reports it.
PendUnread(kind, h, s, t) ==
  /\ ops' = Append(ops, [kind |-> kind, hook |-> h, slot |-> s, target |-> t,
                         perm |-> Null])
  /\ perm' = Protect(t, RWX)

Pend(kind, h, s, t) ==
  /\ ops' = Append(ops, [kind |-> kind, hook |-> h, slot |-> s, target |-> t,
                         perm |-> perm[FirstPage[t]]])
  /\ perm' = Protect(t, RWX)

Begin(c) ==
  /\ owner = Null
  /\ owner' = c
  /\ phase' = "open"
  /\ UNCHANGED <<ops, next, code, tramp, ptr, perm>>

\* Mutant: whoever calls it adds to the transaction that is open.
AttachByAnybody(c, h) ==
  /\ phase = "open"
  /\ Len(ops) < MaxOps
  /\ ptr[h] = Original
  /\ MayAttach(h)
  /\ \E s \in Slots :
       /\ ~Live(s)
       /\ tramp' = [tramp EXCEPT ![s] = [target |-> TargetOf[h], detour |-> h,
                                         rest |-> code[TargetOf[h]]]]
       /\ Pend("add", h, s, TargetOf[h])
  /\ UNCHANGED <<owner, phase, next, code, ptr>>

\* The pointer handed to Attach holds a function: a pointer that is already
\* attached holds a trampoline, which no client attaches to again.
Attach(c, h) ==
  /\ owner = c
  /\ phase = "open"
  /\ Len(ops) < MaxOps
  /\ ptr[h] = Original
  /\ MayAttach(h)
  /\ \E s \in Slots :
       /\ ~Live(s)
       /\ tramp' = [tramp EXCEPT ![s] = [target |-> TargetOf[h], detour |-> h,
                                         rest |-> code[TargetOf[h]]]]
       /\ Pend("add", h, s, TargetOf[h])
  /\ UNCHANGED <<owner, phase, next, code, ptr>>

\* Detach reads the hook's pointer as a trampoline and checks that it is in use
\* and leads to the detour the caller names; otherwise nothing changes.
Detach(c, h) ==
  /\ owner = c
  /\ phase = "open"
  /\ Len(ops) < MaxOps
  /\ ptr[h] \in Slots
  /\ MayDetach(h)
  /\ Live(ptr[h])
  /\ tramp[ptr[h]].detour = h
  /\ Pend("remove", h, ptr[h], tramp[ptr[h]].target)
  /\ UNCHANGED <<owner, phase, next, code, tramp, ptr>>

Commit(c) ==
  /\ owner = c
  /\ phase = "open"
  /\ phase' = "apply"
  /\ next' = Len(ops)
  /\ UNCHANGED <<owner, ops, code, tramp, ptr, perm>>

Abort(c) ==
  /\ owner = c
  /\ phase = "open"
  /\ phase' = "abort"
  /\ UNCHANGED <<owner, ops, next, code, tramp, ptr, perm>>

-----------------------------------------------------------------------------

\* Mutant: the check is skipped.
HookIsAlwaysThere(o) == TRUE

\* Mutant: the jump is compared with the detour, not with the trampoline.
JumpLeadsToDetour(o) == code[o.target] = tramp[o.slot].detour

HookIsStillThere(o) == code[o.target] = o.slot

\* Mutant: the leaked trampoline goes on calling the detour.
KeepDetour(o) == UNCHANGED tramp

\* The jump somebody copied now leads straight to the relocated instructions.
PutInBypass(o) == tramp' = [tramp EXCEPT ![o.slot].detour = Bypass]

ApplyRemove ==
  /\ phase = "apply"
  /\ next > 0
  /\ LET o == ops[next] IN
       /\ o.kind = "remove"
       /\ \/ /\ HookIsStillThere(o)
             /\ code' = [code EXCEPT ![o.target] = tramp[o.slot].rest]
             /\ UNCHANGED <<ops, tramp>>
          \/ /\ ~HookIsStillThere(o)
             /\ ops' = [ops EXCEPT ![next].kind = "none"]
             /\ PutInBypass(o)
             /\ UNCHANGED code
       /\ ptr' = [ptr EXCEPT ![o.hook] = Original]
  /\ next' = next - 1
  /\ UNCHANGED <<owner, phase, perm>>

\* Mutant: the pointer keeps leading to the function that is now hooked.
ApplyAddForgettingPointer ==
  /\ phase = "apply"
  /\ next > 0
  /\ ops[next].kind = "add"
  /\ code' = [code EXCEPT ![ops[next].target] = ops[next].slot]
  /\ next' = next - 1
  /\ UNCHANGED <<owner, phase, ops, tramp, ptr, perm>>

ApplyAdd ==
  /\ phase = "apply"
  /\ next > 0
  /\ LET o == ops[next] IN
       /\ o.kind = "add"
       /\ code' = [code EXCEPT ![o.target] = o.slot]
       /\ ptr' = [ptr EXCEPT ![o.hook] = o.slot]
  /\ next' = next - 1
  /\ UNCHANGED <<owner, phase, ops, tramp, perm>>

\* All operations applied; the suspended threads are updated here.
EndApply ==
  /\ phase = "apply"
  /\ next = 0
  /\ phase' = "restore"
  /\ UNCHANGED <<owner, ops, next, code, tramp, ptr, perm>>

\* The size handed to NtProtectVirtualMemory is the trampoline's cbRestore: 0
\* when an earlier operation of the list freed it, and then the call fails.
Unprotect(o) ==
  perm' = IF Live(o.slot) THEN Protect(o.target, o.perm) ELSE perm

\* Mutant: an abort gives no trampoline back.
OnlyRemovedFreed == "remove"

\* Commit frees the trampolines it removed, Abort those that were to be added.
FreedKind == IF phase = "abort" THEN "add" ELSE "remove"

\* Mutant: the protections are restored in the order they were recorded.
RestoreOldest ==
  /\ phase \in {"restore", "abort"}
  /\ ops # << >>
  /\ Unprotect(ops[1])
  /\ tramp' = IF ops[1].kind = FreedKind
              THEN [tramp EXCEPT ![ops[1].slot] = Zeroed]
              ELSE tramp
  /\ ops' = Tail(ops)
  /\ UNCHANGED <<owner, phase, next, code, ptr>>

RestoreOne ==
  /\ phase \in {"restore", "abort"}
  /\ ops # << >>
  /\ LET o == ops[Len(ops)] IN
       /\ Unprotect(o)
       /\ tramp' = IF o.kind = FreedKind
                   THEN [tramp EXCEPT ![o.slot] = Zeroed]
                   ELSE tramp
  /\ ops' = SubSeq(ops, 1, Len(ops) - 1)
  /\ UNCHANGED <<owner, phase, next, code, ptr>>

\* Mutant: s_nPendingThreadId is not reset.
LeaveOwning ==
  /\ phase \in {"restore", "abort"}
  /\ ops = << >>
  /\ phase' = "idle"
  /\ UNCHANGED <<owner, ops, next, code, tramp, ptr, perm>>

Leave ==
  /\ phase \in {"restore", "abort"}
  /\ ops = << >>
  /\ owner' = Null
  /\ phase' = "idle"
  /\ UNCHANGED <<ops, next, code, tramp, ptr, perm>>

-----------------------------------------------------------------------------

\* Another library hooks t over whatever is there.  Its threads are suspended
\* while a transaction is open.
ForeignHook(f, t) ==
  /\ phase = "idle"
  /\ ~Live(f)
  /\ tramp' = [tramp EXCEPT ![f] = [target |-> t, detour |-> f, rest |-> code[t]]]
  /\ code' = [code EXCEPT ![t] = f]
  /\ UNCHANGED <<owner, phase, ops, next, ptr, perm>>

\* It unhooks with the same care: only when its own jump is still in place.
ForeignUnhook(f) ==
  /\ phase = "idle"
  /\ Live(f)
  /\ code[tramp[f].target] = f
  /\ code' = [code EXCEPT ![tramp[f].target] = tramp[f].rest]
  /\ tramp' = [tramp EXCEPT ![f] = Zeroed]
  /\ UNCHANGED <<owner, phase, ops, next, ptr, perm>>

Internal == ApplyRemove \/ ApplyAdd \/ EndApply \/ RestoreOne \/ Leave

Next ==
  \/ \E c \in Clients : \/ Begin(c)
                        \/ Commit(c)
                        \/ Abort(c)
                        \/ \E h \in Hooks : Attach(c, h) \/ Detach(c, h)
  \/ Internal
  \/ \E f \in Foreign, t \in Targets : ForeignHook(f, t)
  \/ \E f \in Foreign : ForeignUnhook(f)

Spec == Init /\ [][Next]_vars

\* A commit or an abort that was called runs to its end: straight-line code
\* over a finite list, that waits for nobody.
FairSpec == Spec /\ WF_vars(Internal)
-----------------------------------------------------------------------------

TypeOK ==
  /\ owner \in Clients \cup {Null}
  /\ phase \in Phases
  /\ ops \in Seq(Operation)
  /\ next \in 0..Len(ops)
  /\ phase # "apply" => next = 0
  /\ code \in [Targets -> Nodes \cup {Original}]
  /\ tramp \in [Nodes -> Trampoline]
  /\ ptr \in [Hooks -> Slots \cup {Original}]
  /\ perm \in [Pages -> Perms]

\* Nothing that can still be followed leads to a freed trampoline: not the
\* jump at a target, not the pointer a detour calls the original through, and
\* not the copied code in a trampoline that is itself in use.  Commit frees a
\* trampoline only after it checked that nobody hooked over it.
NoDanglingTrampoline ==
  /\ \A t \in Targets : code[t] \in Nodes => Live(code[t])
  /\ \A h \in Hooks : ptr[h] \in Slots => Live(ptr[h])
  /\ \A n \in Nodes : tramp[n].rest \in Nodes => Live(tramp[n].rest)

\* Once a transaction is over, every page it made writable has the protection
\* it had before: operations record and restore in opposite orders, so that
\* nested changes of one page unwind.
PermsRestored == phase = "idle" => perm = InitPerm

\* Between transactions a detour is reachable through a trampoline exactly when
\* its hook's pointer says it is attached: after a detach, even a leaked
\* trampoline no longer leads to the detour, whose module may be unloaded.
DetourReachableIffAttached ==
  phase = "idle" =>
    \A h \in Hooks : \A s \in Slots : tramp[s].detour = h <=> ptr[h] = s

\* Between transactions every trampoline in use is on the chain of its target:
\* neither an abort nor a failed race with another library strands one.
NoStrandedTrampoline ==
  phase = "idle" =>
    \A n \in Nodes : Live(n) =>
      \/ code[tramp[n].target] = n
      \/ \E m \in Nodes : tramp[m].rest = n

\* A detach leaks its trampoline only if somebody hooked over it, and the copy
\* of its jump that this somebody made is still in use.
LeakOnlyUnderALaterHook ==
  [][\A s \in Slots :
       /\ tramp[s].detour # Bypass
       /\ tramp'[s].detour = Bypass
       => \E m \in Nodes : tramp[m].rest = s /\ tramp'[m].rest = s]_vars

\* A trampoline that somebody hooked over is not freed while the copy of its
\* jump is in use: "Don't remove in this case, put in bypass mode and leak
\* trampoline" (Transaction.c:237).
HookedOverIsKept ==
  [][\A s \in Slots :
       Live(s) /\ tramp'[s] = Zeroed => \A m \in Nodes : tramp'[m].rest # s]_vars

\* A commit or an abort that has begun lets the next transaction in.
TransactionEnds == phase \in {"apply", "restore", "abort"} ~> owner = Null
=============================================================================
