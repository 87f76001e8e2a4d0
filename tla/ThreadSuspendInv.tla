-------------------------- MODULE ThreadSuspendInv --------------------------
(***************************************************************************)
(* The inductive invariant of ThreadSuspend: which threads are suspended   *)
(* and which handles are open at each point of an enumeration, and that    *)
(* nobody was missed in what it has passed.                                *)
(***************************************************************************)
EXTENDS ThreadSuspend

\* The thread that was suspended last, and is not in the buffer yet.
Stopping == IF pc \in {"grow", "collect"} THEN {thread} ELSE {}

\* The handles that are open for the enumeration itself.
Opened == (IF pc \in {"consider", "grow", "collect"} THEN {thread} ELSE {})
            \cup (IF closePrev THEN {prev} ELSE {})

CountInv ==
  /\ \A t \in Threads : suspended[t] = IF t \in ToSet(buffer) \cup Stopping THEN 1 ELSE 0
  /\ \A t \in Threads : handles[t] = IF t \in ToSet(buffer) \cup Opened THEN 1 ELSE 0
  /\ moving \subseteq Stopping

\* Everybody is suspended once, and the client is not.
BufferInv ==
  /\ IsInjective(buffer)
  /\ ToSet(buffer) \cup Stopping \subseteq Listed \ {Client}
  /\ Stopping \cap ToSet(buffer) = {}
  /\ pc = "idle" => buffer = << >>
  /\ pc = "collect" => Len(buffer) < capacity
  /\ capacity # 0

\* What is left over of an enumeration is forgotten when it ends.
CursorInv ==
  /\ pc \in {"consider", "grow", "collect"} => thread \in Listed
  /\ closePrev => pc = "next" /\ prev # Null /\ prev \notin ToSet(buffer)
  /\ prev # Null /\ pc = "next" => closePrev \/ prev \in ToSet(buffer)
  /\ pc \notin {"next", "consider", "grow", "collect"} => prev = Null /\ ~skipped /\ snapshot = Null

\* The threads up to one in the list, and those the enumeration has passed.
UpTo(t) == {list[i] : i \in 1..Place(t)}
Passed == IF prev = Null THEN {} ELSE UpTo(prev)

\* NtGetNextThread: whoever was passed has ended, cannot or need not be suspended, or is.
Nt6Inv ==
  ~nt5 /\ pc \in {"next", "consider", "grow", "collect"} =>
    /\ prev \in Listed \cup {Null}
    /\ skipped => Client \in Passed
    /\ ToSet(buffer) \subseteq Passed
    /\ Passed \subseteq ended \cup Stubborn \cup {Client} \cup ToSet(buffer) \cup Stopping
    /\ pc = "consider" => /\ thread \notin Passed
                         /\ Passed \subseteq UpTo(thread)
                         /\ UpTo(thread) \subseteq Passed \cup ended \cup {thread}
    /\ pc \in {"grow", "collect"} => prev = thread

\* The snapshot: whoever was there at its time is still to come, or done.
Nt5Inv ==
  nt5 =>
    /\ prev = Null /\ ~skipped /\ pc # "consider"
    /\ pc \in {"grow", "collect"} => snapshot # Null
    /\ snapshot = Null /\ pc \in {"next", "query", "retry", "giveup"} => buffer = << >>
    /\ snapshot # Null =>
         /\ IsInjective(snapshot)
         /\ ToSet(snapshot) \subseteq Listed \ (ToSet(buffer) \cup Stopping)
         /\ listedThen \subseteq ended \cup Stubborn \cup {Client} \cup ToSet(buffer) \cup Stopping
                                \cup ToSet(snapshot)

\* Every thread in Buffer, and the one being stopped, is suspended once, with one open
\* handle, and in no other way; whoever the enumeration has passed, or the snapshot has
\* left out, is in Buffer, has ended, or cannot or need not be suspended.
IInv == /\ TypeOK /\ IsInjective(list) /\ CountInv /\ BufferInv /\ CursorInv
        /\ Nt6Inv /\ Nt5Inv /\ OthersStopped
=============================================================================
