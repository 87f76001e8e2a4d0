----------------------------- MODULE MemoryInit -----------------------------
(***************************************************************************)
(* When SlimDetours learns about the address space and makes its heap, and *)
(* when it gives the heap up (detour_memory_init and                       *)
(* detour_memory_uninitialize, Memory.c).                                  *)
(*                                                                         *)
(* Built for ARM64EC, calls that need no transaction also initialize, so   *)
(* that _detour_memory_heap is a gate as well: while it holds one of two   *)
(* marks, its holder is at work and everyone else waits.  In other builds  *)
(* only the owner of the pending transaction initializes.                  *)
(*                                                                         *)
(* The header asks callers of SlimDetoursUninitialize to keep other        *)
(* threads out meanwhile.  The model asks for that, except that in an      *)
(* ARM64EC build they may come in again once the mark is set.              *)
(***************************************************************************)
EXTENDS Integers, FiniteSets

CONSTANTS
  Threads,
  ARM64EC,         \* whether this is a build for ARM64EC
  MaxHeaps,        \* bound: private heaps ever created
  Initializing,    \* DETOUR_MEMORY_HEAP_INITIALIZING
  Uninitializing,  \* DETOUR_MEMORY_HEAP_UNINITIALIZING
  ProcessHeap,     \* RtlProcessHeap()
  Null             \* no heap, and nobody

Private == 1..MaxHeaps
Marks == {Initializing, Uninitializing}

ASSUME MemoryAssumption ==
  /\ ARM64EC \in BOOLEAN
  /\ MaxHeaps \in Nat
  /\ Null \notin Threads
  /\ Initializing # Uninitializing
  /\ {ProcessHeap, Null} \cap Marks = {}
  /\ ProcessHeap # Null
  /\ Private \cap (Marks \cup {ProcessHeap, Null}) = {}

VARIABLES
  heap,      \* _detour_memory_heap
  created,   \* private heaps created so far
  live,      \* those that exist
  known,     \* what detour_memory_init has found out
  pending,   \* s_nPendingThreadId
  suspended, \* whether the transaction has suspended the other threads
  pc,        \* what each thread is at
  api,       \* the call it is in: "begin", or "call" for one outside transactions
  taken      \* the variable Heap of detour_memory_uninitialize

vars == <<heap, created, live, known, pending, suspended, pc, api, taken>>

Facts == {"sbi", "bounds", "procedures"}

Init ==
  /\ heap = Null
  /\ created = 0
  /\ live = {}
  /\ known = {}
  /\ pending = Null
  /\ suspended = FALSE
  /\ pc = [t \in Threads |-> "idle"]
  /\ api = [t \in Threads |-> "call"]
  /\ taken = [t \in Threads |-> Null]

-----------------------------------------------------------------------------

CanRun(t) == suspended => pending = t

Goto(t, l) == pc' = [pc EXCEPT ![t] = l]

\* The others keep out while a thread uninitializes: in an ARM64EC build, only
\* until it has set the mark.
MayEnter(t) == ARM64EC \/ \A u \in Threads : pc[u] \notin {"destroy", "store"}

\* Mutant: the others are suspended before memory is initialized.
BeginSuspending(t) ==
  /\ pc[t] = "idle"
  /\ MayEnter(t)
  /\ pending = Null
  /\ pending' = t
  /\ api' = [api EXCEPT ![t] = "begin"]
  /\ Goto(t, "gate")
  /\ suspended' = TRUE
  /\ UNCHANGED <<heap, created, live, known, taken>>

\* SlimDetoursTransactionBeginEx, up to detour_memory_init.
Begin(t) ==
  /\ pc[t] = "idle"
  /\ MayEnter(t)
  /\ pending = Null
  /\ pending' = t
  /\ api' = [api EXCEPT ![t] = "begin"]
  /\ Goto(t, "gate")
  /\ UNCHANGED <<heap, created, live, known, suspended, taken>>

\* SlimDetoursCodeFromPointer, SlimDetoursCopyInstruction: inside a transaction
\* and outside.
Call(t) ==
  /\ ARM64EC
  /\ pc[t] \in {"idle", "open"}
  /\ api' = [api EXCEPT ![t] = "call"]
  /\ Goto(t, "gate")
  /\ UNCHANGED <<heap, created, live, known, pending, suspended, taken>>

\* Mutant: the mark is taken for a heap.
GateIgnoringMarks(t) ==
  /\ pc[t] = "gate"
  /\ \/ /\ heap = Null
        /\ heap' = IF ARM64EC THEN Initializing ELSE heap
        /\ Goto(t, "sbi")
     \/ heap # Null /\ Goto(t, "ready") /\ UNCHANGED heap
  /\ UNCHANGED <<created, live, known, pending, suspended, api, taken>>

\* Mutant: the build for ARM64EC only tests, as the others do.
GateTesting(t) ==
  /\ pc[t] = "gate"
  /\ Goto(t, IF heap = Null THEN "sbi" ELSE "ready")
  /\ UNCHANGED <<heap, created, live, known, pending, suspended, api, taken>>

\* The compare-and-exchange, or the test of other builds.
Gate(t) ==
  /\ pc[t] = "gate"
  /\ \/ /\ heap = Null
        /\ heap' = IF ARM64EC THEN Initializing ELSE heap
        /\ Goto(t, "sbi")
     \/ heap \in Marks /\ Goto(t, "spin") /\ UNCHANGED heap
     \/ heap \notin Marks \cup {Null} /\ Goto(t, "ready") /\ UNCHANGED heap
  /\ UNCHANGED <<created, live, known, pending, suspended, api, taken>>

\* Another look after NtYieldExecution finds no mark.
Spin(t) ==
  /\ pc[t] = "spin"
  /\ heap \notin Marks
  /\ Goto(t, IF heap = Null THEN "gate" ELSE "ready")
  /\ UNCHANGED <<heap, created, live, known, pending, suspended, api, taken>>

\* The system's limits, the bounds to avoid, the procedures of Ntdll.
Learn(t) ==
  /\ pc[t] \in Facts
  /\ known' = known \cup {pc[t]}
  /\ Goto(t, CASE pc[t] = "sbi" -> "bounds"
               [] pc[t] = "bounds" -> "procedures"
               [] OTHER -> "create")
  /\ UNCHANGED <<heap, created, live, pending, suspended, api, taken>>

\* RtlCreateHeap fails, or not.
Create(t) ==
  /\ pc[t] = "create"
  /\ \/ /\ taken' = [taken EXCEPT ![t] = ProcessHeap]
        /\ UNCHANGED <<created, live>>
     \/ /\ created < MaxHeaps
        /\ created' = created + 1
        /\ live' = live \cup {created'}
        /\ taken' = [taken EXCEPT ![t] = created']
  /\ Goto(t, "publish")
  /\ UNCHANGED <<heap, known, pending, suspended, api>>

Publish(t) ==
  /\ pc[t] = "publish"
  /\ heap' = taken[t]
  /\ Goto(t, "ready")
  /\ UNCHANGED <<created, live, known, pending, suspended, api, taken>>

\* The rest of SlimDetoursTransactionBeginEx, which may suspend the others and
\* may fail.
Open(t) ==
  /\ pc[t] = "ready"
  /\ api[t] = "begin"
  /\ \/ suspended' \in BOOLEAN /\ Goto(t, "open") /\ UNCHANGED pending
     \/ pending' = Null /\ Goto(t, "idle") /\ UNCHANGED suspended
  /\ UNCHANGED <<heap, created, live, known, api, taken>>

Return(t) ==
  /\ pc[t] = "ready"
  /\ api[t] = "call"
  /\ Goto(t, IF pending = t THEN "open" ELSE "idle")
  /\ UNCHANGED <<heap, created, live, known, pending, suspended, api, taken>>

\* SlimDetoursTransactionCommit or SlimDetoursTransactionAbort.
End(t) ==
  /\ pc[t] = "open"
  /\ pending' = Null
  /\ suspended' = FALSE
  /\ Goto(t, "idle")
  /\ UNCHANGED <<heap, created, live, known, api, taken>>

\* Mutant: callers do not keep the others out.
UninitializeAnytime(t) ==
  /\ created < MaxHeaps
  /\ pc[t] = "idle"
  /\ taken' = [taken EXCEPT ![t] = heap]
  /\ heap' = IF ARM64EC THEN Uninitializing ELSE heap
  /\ Goto(t, "destroy")
  /\ UNCHANGED <<created, live, known, pending, suspended, api>>

\* SlimDetoursUninitialize, up to the exchange.
Uninitialize(t) ==
  /\ created < MaxHeaps
  /\ \A u \in Threads : pc[u] = "idle"
  /\ taken' = [taken EXCEPT ![t] = heap]
  /\ heap' = IF ARM64EC THEN Uninitializing ELSE heap
  /\ Goto(t, "destroy")
  /\ UNCHANGED <<created, live, known, pending, suspended, api>>

\* Mutant: there is nothing to do when there is no heap.
DestroyLeaving(t) ==
  /\ pc[t] = "destroy"
  /\ \/ /\ taken[t] \in {Null, ProcessHeap}
        /\ taken' = [taken EXCEPT ![t] = Null]
        /\ Goto(t, IF taken[t] = Null THEN "idle" ELSE "store")
        /\ UNCHANGED live
     \/ /\ taken[t] \in live
        /\ live' = live \ {taken[t]}
        /\ taken' = [taken EXCEPT ![t] = Null]
        /\ Goto(t, "store")
     \/ taken[t] \in live /\ Goto(t, "store") /\ UNCHANGED <<live, taken>>
  /\ UNCHANGED <<heap, created, known, pending, suspended, api>>

\* The process heap stays.  RtlDestroyHeap returns the heap if it fails.
Destroy(t) ==
  /\ pc[t] = "destroy"
  /\ \/ /\ taken[t] \in {Null, ProcessHeap}
        /\ taken' = [taken EXCEPT ![t] = Null]
        /\ UNCHANGED live
     \/ /\ taken[t] \in live
        /\ live' = live \ {taken[t]}
        /\ taken' = [taken EXCEPT ![t] = Null]
     \/ taken[t] \in live /\ UNCHANGED <<live, taken>>
  /\ Goto(t, "store")
  /\ UNCHANGED <<heap, created, known, pending, suspended, api>>

Store(t) ==
  /\ pc[t] = "store"
  /\ heap' = taken[t]
  /\ Goto(t, "idle")
  /\ UNCHANGED <<created, live, known, pending, suspended, api, taken>>

-----------------------------------------------------------------------------

\* What a thread does on once it is in a call.
Continue(t) ==
  \/ Gate(t) \/ Spin(t) \/ Learn(t) \/ Create(t) \/ Publish(t)
  \/ Open(t) \/ Return(t) \/ End(t) \/ Destroy(t) \/ Store(t)

Step(t) == Begin(t) \/ Call(t) \/ Uninitialize(t) \/ Continue(t)

Next == \E t \in Threads : CanRun(t) /\ Step(t)

\* A thread that can run all the time runs.
Fairness == \A t \in Threads : WF_vars(CanRun(t) /\ Continue(t))

Spec == Init /\ [][Next]_vars /\ Fairness

-----------------------------------------------------------------------------

TypeOK ==
  /\ heap \in Private \cup Marks \cup {ProcessHeap, Null}
  /\ created \in 0..MaxHeaps
  /\ live \subseteq 1..created
  /\ known \subseteq Facts
  /\ pending \in Threads \cup {Null}
  /\ suspended \in BOOLEAN
  /\ pc \in [Threads -> Facts \cup {"idle", "gate", "spin", "create", "publish",
                                    "ready", "open", "destroy", "store"}]
  /\ api \in [Threads -> {"begin", "call"}]
  /\ taken \in [Threads -> Private \cup {ProcessHeap, Null}]

\* Those that hold the gate.
Holders == {t \in Threads :
              pc[t] \in Facts \cup {"create", "publish", "destroy", "store"}}

(* Whoever returns from detour_memory_init finds everything known and a heap
   to use, and so it stays for as long as its call or its transaction lasts. *)
ReadyAfterInit ==
  \A t \in Threads : pc[t] \in {"ready", "open"} =>
    known = Facts /\ heap \in live \cup {ProcessHeap}

(* No private heap is lost and none is used that was destroyed: while nobody
   initializes or uninitializes, the one in _detour_memory_heap is the only one
   that exists. *)
NoHeapLost == Holders = {} => live = {heap} \cap Private

(* A transaction does not suspend a thread that holds the gate, so that calls
   it makes itself do not wait for a thread that cannot go on. *)
NobodySuspendedInside == suspended => Holders \subseteq {pending}

(* Whoever waits at the gate gets through, unless transactions keep suspending
   threads for ever. *)
WaitingEnds ==
  <>[]~suspended => \A t \in Threads : pc[t] = "spin" ~> pc[t] \in {"ready", "sbi"}

=============================================================================
