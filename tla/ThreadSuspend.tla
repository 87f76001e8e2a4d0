--------------------------- MODULE ThreadSuspend ---------------------------
(***************************************************************************)
(* How a transaction stops and restarts the other threads of the process   *)
(* (Thread.c), while they go on running, start threads, end, and use the   *)
(* process heap until they are stopped.                                    *)
(*                                                                         *)
(* Builds for NT5 find the threads in a snapshot of the system, which      *)
(* takes memory; those for NT6 with NtGetNextThread, that goes through the *)
(* threads of the process in the order of their creation, and needs an     *)
(* open handle of the thread it is to go on from.  A thread that has ended *)
(* may still be listed.                                                    *)
(***************************************************************************)
EXTENDS Integers, Sequences, FiniteSets, SequencesExt

CONSTANTS
  Threads,      \* threads that may exist
  Client,       \* the one that opens transactions
  Initial,      \* those that exist from the start
  Stubborn,     \* those no query and no suspension succeeds on
  Room,         \* ARRAYSIZE(s_Handles)
  SnapshotRoom, \* threads for which the first allocation of a snapshot has room (1 MB)
  MaxUses,      \* bound: uses of the heap in one transaction
  PrivateHeap,  \* whether detour_memory_init could create its own heap
  Null          \* the NULL handle, and nobody

ASSUME ThreadAssumption ==
  /\ IsFiniteSet(Threads)
  /\ Client \in Initial
  /\ Initial \subseteq Threads
  /\ Stubborn \subseteq Threads \ {Client}
  /\ Room \in Nat \ {0}
  /\ {SnapshotRoom, MaxUses} \subseteq Nat
  /\ PrivateHeap \in BOOLEAN
  /\ Null \notin Threads \cup Seq(Threads)

VARIABLES
  nt5,        \* which build it is
  list,       \* the threads of the process, in order of creation
  ended,      \* those that have ended
  lock,       \* who holds the lock of the process heap
  suspended,  \* how often the client has suspended each thread
  moving,     \* suspended threads that have not come to a stop yet
  handles,    \* how many handles of each thread the client has open
  pc,         \* what the client is at
  thread,     \* the thread *NextThreadHandle stands for
  prev,       \* g_PrevThreadHandle
  closePrev,  \* ClosePrevThread
  skipped,    \* g_CurrentThreadSkipped
  snapshot,   \* the threads of g_SPI that are left; Null as long as there are none
  room,       \* threads for which the snapshot that is to be allocated has room
  listedThen, \* the threads there were when the transaction began
  buffer,     \* threads in Buffer
  capacity,   \* BufferCapacity; it is s_Handles as long as this is Room
  uses        \* uses of the heap so far in this transaction

others == <<nt5, list, ended, lock>>
effects == <<suspended, moving, handles>>
cursor == <<thread, prev, closePrev, skipped, snapshot, room, listedThen>>
vars == <<others, effects, pc, cursor, buffer, capacity, uses>>

Listed == ToSet(list)

\* The members of a set in any order, each once.
Orders(S) == {s \in [1..Cardinality(S) -> S] : IsInjective(s) /\ ToSet(s) = S}

Running(t) == t \in Listed \ ended /\ (suspended[t] = 0 \/ t \in moving)

Init ==
  /\ nt5 \in BOOLEAN
  /\ list \in Orders(Initial)
  /\ ended = {}
  /\ lock = Null
  /\ suspended = [t \in Threads |-> 0]
  /\ moving = {}
  /\ handles = [t \in Threads |-> 0]
  /\ pc = "idle"
  /\ thread = Null
  /\ prev = Null
  /\ closePrev = FALSE
  /\ skipped = FALSE
  /\ snapshot = Null
  /\ room = SnapshotRoom
  /\ listedThen = {}
  /\ buffer = << >>
  /\ capacity = Room
  /\ uses = 0

-----------------------------------------------------------------------------

Begin ==
  /\ pc = "idle"
  /\ pc' = "next"
  /\ uses' = 0
  /\ listedThen' = Listed
  /\ UNCHANGED <<others, effects, thread, prev, closePrev, skipped, snapshot, room, buffer,
                 capacity>>

Place(t) == CHOOSE i \in DOMAIN list : list[i] = t

\* Where in the list the enumeration may go on: it may pass over threads that
\* have ended.
Position == IF prev = Null THEN 0 ELSE Place(prev)

Following == {i \in Position + 1..Len(list) :
                \A j \in Position + 1..i - 1 : list[j] \in ended}

ClosedPrev == IF closePrev THEN [handles EXCEPT ![prev] = @ - 1] ELSE handles

GetNext ==
  /\ pc = "next"
  /\ ~nt5
  /\ \E i \in Following : /\ thread' = list[i]
                          /\ handles' = [ClosedPrev EXCEPT ![list[i]] = @ + 1]
  /\ closePrev' = FALSE
  /\ pc' = "consider"
  /\ UNCHANGED <<others, suspended, moving, prev, skipped, snapshot, room, listedThen, buffer,
                 capacity, uses>>

\* Mutant: the next transaction takes the current thread for already skipped.
RestKeepingSkipped == prev' = Null /\ snapshot' = Null /\ UNCHANGED skipped

\* Mutant: the next transaction goes on from a closed handle.
RestKeepingPrev == skipped' = FALSE /\ snapshot' = Null /\ UNCHANGED prev

\* Mutant: the next transaction takes what is left of this one's snapshot.
RestKeepingSnapshot == prev' = Null /\ skipped' = FALSE /\ UNCHANGED snapshot

\* detour_suspend_next_thread_rest
Rest == prev' = Null /\ skipped' = FALSE /\ snapshot' = Null

\* STATUS_NO_MORE_ENTRIES, or any other failure.
NoNext ==
  /\ pc = "next"
  /\ ~nt5
  /\ \/ /\ \A i \in Position + 1..Len(list) : list[i] \in ended
        /\ pc' = "open"
     \/ pc' = "fail"
  /\ handles' = ClosedPrev
  /\ closePrev' = FALSE
  /\ thread' = Null
  /\ Rest
  /\ UNCHANGED <<others, suspended, moving, room, listedThen, buffer, capacity, uses>>

\* _Step_next: the handle is the one to go on from, and is closed after that.
StepNext ==
  /\ prev' = thread
  /\ closePrev' = TRUE
  /\ pc' = "next"
  /\ UNCHANGED <<others, effects, thread, snapshot, room, listedThen, buffer, capacity, uses>>

SkipCurrent ==
  /\ pc = "consider"
  /\ ~skipped
  /\ thread = Client
  /\ skipped' = TRUE
  /\ StepNext

\* The query or the suspension fails.
PassOver ==
  /\ pc = "consider"
  /\ thread \in Stubborn \cup ended
  /\ UNCHANGED skipped
  /\ StepNext

\* Mutant: the buffer grows one thread too late.
FullLate == Len(buffer) > capacity

Full == Len(buffer) >= capacity

Suspend ==
  /\ pc = "consider"
  /\ skipped \/ thread # Client
  /\ thread \notin Stubborn \cup ended
  /\ suspended' = [suspended EXCEPT ![thread] = @ + 1]
  /\ moving' = moving \cup {thread}
  /\ prev' = thread
  /\ pc' = IF Full THEN "grow" ELSE "collect"
  /\ UNCHANGED <<others, handles, thread, closePrev, skipped, snapshot, room, listedThen, buffer,
                 capacity, uses>>

-----------------------------------------------------------------------------
\* Mutant: detour_memory_init goes on with the process heap.
ProcessHeapReady == lock = Null

\* The private heap is not serialized; the process heap has its lock.
HeapReady == PrivateHeap \/ lock = Null

\* The threads that the system lists.
Snapshots ==
  {s \in Orders(Listed \ ended) : \A i, j \in DOMAIN s : i < j => Place(s[i]) < Place(s[j])}

\* For NT5: memory for a snapshot, also when an earlier one was too small.
AllocSnapshot ==
  /\ pc = "next"
  /\ nt5 /\ snapshot = Null
  /\ HeapReady
  /\ \/ pc' = "query" /\ UNCHANGED room
     \/ pc' = "fail" /\ room' = SnapshotRoom
  /\ UNCHANGED <<others, effects, thread, prev, closePrev, skipped, snapshot, listedThen, buffer,
                 capacity, uses>>

\* Mutant: the next snapshot is no larger than the one that was too small.
TooSmallAgain ==
  /\ Cardinality(Listed \ ended) > room
  /\ UNCHANGED room
  /\ pc' = "retry"

\* STATUS_INFO_LENGTH_MISMATCH: how much it takes at this moment.
TooSmall ==
  /\ Cardinality(Listed \ ended) > room
  /\ room' = Cardinality(Listed \ ended)
  /\ pc' = "retry"

\* The threads of the process, taken at one moment, unless that fails.
TakeSnapshot ==
  /\ pc = "query"
  /\ nt5
  /\ \/ /\ Cardinality(Listed \ ended) <= room
        /\ snapshot' \in Snapshots
        /\ pc' = "next"
        /\ room' = SnapshotRoom
     \/ TooSmall /\ UNCHANGED snapshot
     \/ pc' = "giveup" /\ UNCHANGED <<snapshot, room>>
  /\ UNCHANGED <<others, effects, thread, prev, closePrev, skipped, listedThen, buffer, capacity,
                 uses>>

\* The memory is freed, for a larger one to be allocated, or none.
DropSnapshot ==
  /\ nt5
  /\ HeapReady
  /\ \/ pc = "retry" /\ pc' = "next" /\ UNCHANGED room
     \/ pc = "giveup" /\ pc' = "fail" /\ room' = SnapshotRoom
  /\ UNCHANGED <<others, effects, thread, prev, closePrev, skipped, snapshot, listedThen, buffer,
                 capacity, uses>>

\* This thread, and those that cannot be opened or suspended, are passed over.
PassOverListed ==
  /\ pc = "next"
  /\ nt5 /\ snapshot \notin {Null, << >>}
  /\ Head(snapshot) \in {Client} \cup Stubborn \cup ended
  /\ snapshot' = Tail(snapshot)
  /\ UNCHANGED <<others, effects, pc, thread, prev, closePrev, skipped, room, listedThen, buffer,
                 capacity, uses>>

SuspendListed ==
  /\ pc = "next"
  /\ nt5 /\ snapshot \notin {Null, << >>}
  /\ LET t == Head(snapshot) IN
       /\ t \notin {Client} \cup Stubborn \cup ended
       /\ suspended' = [suspended EXCEPT ![t] = @ + 1]
       /\ moving' = moving \cup {t}
       /\ handles' = [handles EXCEPT ![t] = @ + 1]
       /\ thread' = t
  /\ snapshot' = Tail(snapshot)
  /\ pc' = IF Full THEN "grow" ELSE "collect"
  /\ UNCHANGED <<others, prev, closePrev, skipped, room, listedThen, buffer, capacity, uses>>

\* The snapshot is freed, with the threads suspended.
SnapshotDone ==
  /\ pc = "next"
  /\ nt5 /\ snapshot = << >>
  /\ HeapReady
  /\ thread' = Null
  /\ Rest
  /\ pc' = "open"
  /\ UNCHANGED <<others, effects, closePrev, room, listedThen, buffer, capacity, uses>>

-----------------------------------------------------------------------------

Grow ==
  /\ pc = "grow"
  /\ HeapReady
  /\ capacity' = 2 * capacity
  /\ pc' = "collect"
  /\ UNCHANGED <<others, effects, cursor, buffer, uses>>

\* Mutant: the thread that found no room stays suspended.
GrowFailsSuspended ==
  /\ pc = "grow"
  /\ HeapReady
  /\ handles' = [handles EXCEPT ![thread] = @ - 1]
  /\ thread' = Null
  /\ Rest
  /\ pc' = "fail"
  /\ UNCHANGED <<others, suspended, moving, closePrev, room, listedThen, buffer, capacity, uses>>

Restarted(t) ==
  /\ suspended' = [suspended EXCEPT ![t] = @ - 1]
  /\ moving' = moving \ {t}
  /\ handles' = [handles EXCEPT ![t] = @ - 1]

GrowFails ==
  /\ pc = "grow"
  /\ HeapReady
  /\ Restarted(thread)
  /\ thread' = Null
  /\ Rest
  /\ pc' = "fail"
  /\ UNCHANGED <<others, closePrev, room, listedThen, buffer, capacity, uses>>

\* Mutant: nobody waits until the thread has come to a stop.
CollectAtOnce ==
  /\ pc = "collect"
  /\ buffer' = Append(buffer, thread)
  /\ pc' = "next"
  /\ UNCHANGED <<others, effects, cursor, capacity, uses>>

\* NtGetContextThread comes back when the thread has stopped.
Collect ==
  /\ pc = "collect"
  /\ moving' = moving \ {thread}
  /\ buffer' = Append(buffer, thread)
  /\ pc' = "next"
  /\ UNCHANGED <<others, suspended, handles, cursor, capacity, uses>>

-----------------------------------------------------------------------------

\* Attach and Detach allocate their operations, Commit and Abort free them.
UseHeap ==
  /\ pc = "open"
  /\ uses < MaxUses
  /\ uses' = uses + 1
  /\ pc' = "heap"
  /\ UNCHANGED <<others, effects, cursor, buffer, capacity>>

HeapUsed ==
  /\ pc = "heap"
  /\ HeapReady
  /\ pc' = "open"
  /\ UNCHANGED <<others, effects, cursor, buffer, capacity, uses>>

End ==
  /\ pc = "open"
  /\ pc' = "resume"
  /\ UNCHANGED <<others, effects, cursor, buffer, capacity, uses>>

ResumeFirst ==
  /\ buffer # << >>
  /\ Restarted(Head(buffer))
  /\ buffer' = Tail(buffer)
  /\ UNCHANGED <<others, pc, cursor, capacity, uses>>

FreeBuffer ==
  /\ buffer = << >>
  /\ capacity # Room => HeapReady
  /\ capacity' = Room
  /\ pc' = "idle"
  /\ UNCHANGED <<others, effects, cursor, buffer, uses>>

\* _Fail in detour_thread_suspend: the transaction does not open.
UndoSuspend == pc = "fail" /\ (ResumeFirst \/ FreeBuffer)

\* detour_thread_resume
Resume == pc = "resume" /\ (ResumeFirst \/ FreeBuffer)

-----------------------------------------------------------------------------

Create(t, u) ==
  /\ u \in Threads \ Listed
  /\ list' = Append(list, u)
  /\ UNCHANGED <<ended, lock>>

Exit(t) ==
  /\ lock # t
  /\ ended' = ended \cup {t}
  /\ UNCHANGED <<list, lock>>

Lock(t) == lock = Null /\ lock' = t /\ UNCHANGED <<list, ended>>

Unlock(t) == lock = t /\ lock' = Null /\ UNCHANGED <<list, ended>>

Other(t) ==
  /\ t # Client
  /\ Running(t)
  /\ \/ \E u \in Threads : Create(t, u)
     \/ Exit(t)
     \/ Lock(t)
     \/ Unlock(t)
  /\ UNCHANGED <<nt5, effects, pc, cursor, buffer, capacity, uses>>

\* The client runs unless it suspends itself.
Call ==
  /\ suspended[Client] = 0
  /\ \/ GetNext \/ NoNext \/ SkipCurrent \/ PassOver \/ Suspend
     \/ AllocSnapshot \/ TakeSnapshot \/ DropSnapshot \/ PassOverListed \/ SuspendListed \/ SnapshotDone
     \/ Grow \/ GrowFails \/ Collect
     \/ HeapUsed \/ UndoSuspend \/ Resume

Next ==
  \/ Begin \/ UseHeap \/ End
  \/ Call
  \/ \E t \in Threads : Other(t)

Spec == Init /\ [][Next]_vars

\* A call of the client that can go on does.
FairSpec == Spec /\ WF_vars(Call)

-----------------------------------------------------------------------------

TypeOK ==
  /\ nt5 \in BOOLEAN
  /\ list \in Seq(Threads)
  /\ ended \subseteq Listed
  /\ lock \in Threads \cup {Null}
  /\ suspended \in [Threads -> {0, 1}]
  /\ moving \subseteq Listed
  /\ handles \in [Threads -> {0, 1}]
  /\ pc \in {"idle", "next", "consider", "grow", "collect", "query", "retry", "giveup",
            "open", "heap", "resume", "fail"}
  /\ {thread, prev} \subseteq Threads \cup {Null}
  /\ {closePrev, skipped} \subseteq BOOLEAN
  /\ snapshot # Null => nt5 /\ snapshot \in Seq(Threads)
  /\ room \in Nat
  /\ listedThen \subseteq Listed
  /\ buffer \in Seq(Threads)
  /\ Len(buffer) <= capacity
  /\ capacity \in Nat
  /\ uses \in 0..MaxUses

\* While a transaction is open nobody else runs, but for threads that cannot be
\* suspended, and threads that were started since it began: for NT6 only those that a
\* thread of the first kind may have started, as one that was started during the
\* enumeration is found and stopped, too; for NT5 those that are not in the snapshot.
OthersStopped ==
  pc \in {"open", "heap"} =>
    \A i \in DOMAIN list :
      Running(list[i]) =>
        \/ list[i] \in Stubborn \cup {Client}
        \/ /\ list[i] \notin listedThen
           /\ nt5 \/ \E j \in 1..i : list[j] \in Stubborn

\* Between transactions the client keeps no thread suspended and no handle or snapshot,
\* whichever way the last one ended, and NtGetNextThread is always given a handle that
\* is open, or NULL: the handle of a thread that was passed over is closed only after
\* the step past it, and an enumeration never starts from where an earlier one broke off.
NothingHeldBetween ==
  /\ pc = "idle" => snapshot = Null /\ \A t \in Threads : suspended[t] = 0 /\ handles[t] = 0
  /\ pc = "next" /\ prev # Null => handles[prev] = 1

\* Every call comes back: the client does not suspend itself, and does not
\* wait for a lock that a suspended thread holds, nor try for ever to allocate a
\* snapshot that the threads that go on starting outgrow.
CallsReturn == pc \notin {"idle", "open"} ~> pc \in {"idle", "open"}
=============================================================================
