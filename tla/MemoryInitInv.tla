--------------------------- MODULE MemoryInitInv ---------------------------
(***************************************************************************)
(* The inductive invariant of MemoryInit: what ReadyAfterInit, NoHeapLost  *)
(* and NobodySuspendedInside rest on.                                      *)
(***************************************************************************)
EXTENDS MemoryInit

\* The gate has one holder at most, and its mark says so where marks are used.
GateInv ==
  /\ \A t, u \in Holders : t = u
  /\ heap \in Marks => ARM64EC /\ Holders # {}
  /\ ARM64EC /\ Holders # {} => heap \in Marks

\* Who owns the pending transaction.
OwnerInv ==
  /\ \A t \in Threads : pending = t => pc[t] \notin {"idle", "destroy", "store"}
  /\ \A t \in Threads : pc[t] = "open" => pending = t
  /\ \A t \in Threads : api[t] = "begin" /\ pc[t] \notin {"idle", "destroy", "store"}
                          => pending = t

\* Without marks, owning the transaction is what keeps others out.
PlainInv ==
  ~ARM64EC =>
    /\ \A t \in Threads : pc[t] \notin {"idle", "destroy", "store"} => pending = t
    /\ \A t \in Threads : pc[t] \in {"destroy", "store"} => pending = Null
    /\ \A t \in Threads : pc[t] \in Facts \cup {"create", "publish"} => heap = Null

\* What is known by when.
KnownInv ==
  /\ heap \notin Marks \cup {Null} => known = Facts
  /\ \A t \in Threads :
       /\ pc[t] = "bounds" => "sbi" \in known
       /\ pc[t] = "procedures" => {"sbi", "bounds"} \subseteq known
       /\ pc[t] \in {"create", "publish"} => known = Facts
       /\ pc[t] \in {"destroy", "store"} => taken[t] = Null \/ known = Facts

\* The private heap that exists.
HeapInv ==
  /\ NoHeapLost
  /\ \A t \in Holders :
       live = IF pc[t] \in {"publish", "destroy", "store"} THEN {taken[t]} \cap Private ELSE {}
  /\ \A t \in Threads : pc[t] = "publish" => taken[t] # Null

\* Those past detour_memory_init.
ReadyInv ==
  /\ \A t \in Threads : pc[t] \in {"ready", "open"} => Holders = {} /\ heap \notin Marks \cup {Null}
  /\ suspended => /\ pending # Null /\ Holders = {} /\ heap \notin Marks \cup {Null}
                  /\ \A t \in Threads : pending = t => pc[t] = "open" \/ api[t] = "call"

(* The inductive invariant: every part of it is kept by every step. *)
IInv == TypeOK /\ GateInv /\ OwnerInv /\ PlainInv /\ KnownInv /\ HeapInv /\ ReadyInv

=============================================================================
