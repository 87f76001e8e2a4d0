-------------------------- MODULE MemoryInitProofs --------------------------
(***************************************************************************)
(* Proofs about MemoryInit, for any number of threads and of heaps, and    *)
(* for builds with and without marks: one lemma per action that the        *)
(* inductive invariant is kept, one step per part of the invariant.        *)
(***************************************************************************)
EXTENDS MemoryInitInv, TLAPS

\* The first to begin owns the transaction, and is at no gate yet.
LEMMA BeginKeeps ==
  ASSUME IInv, NEW t \in Threads, CanRun(t), Begin(t)
  PROVE  IInv'
<1>1. TypeOK'
  BY DEF IInv, TypeOK, Goto, Begin
<1>2. GateInv'
  BY DEF IInv, GateInv, Holders, Goto, Facts, Begin
<1>3. OwnerInv'
  BY MemoryAssumption DEF IInv, TypeOK, OwnerInv, Goto, Begin
<1>4. PlainInv'
  BY MemoryAssumption DEF IInv, PlainInv, MayEnter, Goto, Facts, Begin
<1>5. KnownInv'
  BY DEF IInv, KnownInv, Goto, Begin
<1>6. HeapInv'
  BY DEF IInv, HeapInv, NoHeapLost, Holders, Goto, Facts, Begin
<1>7. ReadyInv'
  BY DEF IInv, ReadyInv, Holders, Goto, Facts, Begin
<1> QED BY <1>1, <1>2, <1>3, <1>4, <1>5, <1>6, <1>7 DEF IInv

\* A call comes to the gate, from a transaction or from outside.
LEMMA CallKeeps ==
  ASSUME IInv, NEW t \in Threads, CanRun(t), Call(t)
  PROVE  IInv'
<1>1. TypeOK'
  BY DEF IInv, TypeOK, Goto, Call
<1>2. GateInv'
  BY DEF IInv, GateInv, Holders, Goto, Facts, Call
<1>3. OwnerInv'
  BY DEF IInv, TypeOK, OwnerInv, Goto, Call
<1>4. PlainInv'
  BY DEF PlainInv, Call
<1>5. KnownInv'
  BY DEF IInv, KnownInv, Goto, Call
<1>6. HeapInv'
  BY DEF IInv, HeapInv, NoHeapLost, Holders, Goto, Facts, Call
<1>7. ReadyInv'
  BY DEF IInv, TypeOK, ReadyInv, Holders, Goto, Facts, Call
<1> QED BY <1>1, <1>2, <1>3, <1>4, <1>5, <1>6, <1>7 DEF IInv

\* Whoever finds no heap is the only holder from now on.
LEMMA GateKeeps ==
  ASSUME IInv, NEW t \in Threads, CanRun(t), Gate(t)
  PROVE  IInv'
<1>0. heap = Null => Holders = {}
  <2>1. ASSUME heap = Null, NEW u \in Holders PROVE FALSE
    <3>1. CASE ARM64EC
      BY <2>1, <3>1, MemoryAssumption DEF IInv, GateInv, Marks
    <3>2. CASE ~ARM64EC
      <4>1. pending = t /\ pending # Null
        BY <3>2, MemoryAssumption DEF IInv, PlainInv, Gate
      <4>2. pc[u] \in {"destroy", "store"} => pending = Null
        BY <3>2, <2>1 DEF IInv, PlainInv, Holders
      <4>3. pc[u] \notin {"destroy", "store"} => pending = u
        BY <3>2, <2>1 DEF IInv, PlainInv, Holders, Facts
      <4>4. u # t
        BY <2>1 DEF Gate, Holders, Facts
      <4> QED BY <4>1, <4>2, <4>3, <4>4
    <3> QED BY <3>1, <3>2
  <2> QED BY <2>1 DEF Holders
<1>1. TypeOK'
  BY DEF IInv, TypeOK, Goto, Marks, Facts, Gate
<1>2. GateInv'
  <2>1. CASE heap = Null
    <3>0. pc' = [pc EXCEPT ![t] = "sbi"] /\ heap' = IF ARM64EC THEN Initializing ELSE Null
      BY <2>1, MemoryAssumption DEF Gate, Goto, Marks
    <3>1. Holders' = {t} /\ heap' = IF ARM64EC THEN Initializing ELSE Null
      BY <1>0, <2>1, <3>0 DEF IInv, TypeOK, Holders, Facts
    <3>2. heap' \in Marks <=> ARM64EC
      BY <3>1, MemoryAssumption DEF Marks
    <3> QED BY <3>1, <3>2, MemoryAssumption DEF GateInv
  <2>2. CASE heap # Null
    <3>1. Holders' = Holders /\ heap' = heap
      BY <2>2 DEF IInv, TypeOK, Holders, Gate, Goto, Facts
    <3> QED BY <3>1 DEF GateInv, IInv, Marks
  <2> QED BY <2>1, <2>2
<1>3. OwnerInv'
  BY DEF IInv, TypeOK, OwnerInv, Goto, Gate
<1>4. PlainInv'
  BY DEF IInv, TypeOK, PlainInv, Goto, Facts, Gate
<1>5. KnownInv'
  BY DEF IInv, TypeOK, KnownInv, Goto, Marks, Gate
<1>6. HeapInv'
  <2>1. heap = Null => Holders = {} /\ live = {}
    BY <1>0, MemoryAssumption DEF IInv, HeapInv, NoHeapLost
  <2>2. CASE heap = Null
    <3>0. pc' = [pc EXCEPT ![t] = "sbi"] /\ live' = {}
      BY <2>1, <2>2, MemoryAssumption DEF Gate, Goto, Marks
    <3>1. Holders' = {t}
      BY <2>1, <2>2, <3>0 DEF IInv, TypeOK, Holders, Facts
    <3>2. pc'[t] = "sbi"
      BY <3>0 DEF IInv, TypeOK
    <3> QED BY <3>0, <3>1, <3>2 DEF HeapInv, NoHeapLost, Holders
  <2>3. CASE heap # Null
    <3>1. /\ Holders' = Holders /\ \A u \in Holders : pc'[u] = pc[u]
          /\ UNCHANGED <<heap, live, taken>>
      BY <2>3 DEF IInv, TypeOK, Holders, Gate, Goto, Facts
    <3>2. \A u \in Threads : pc'[u] = "publish" => u \in Holders
      BY <3>1 DEF Holders
    <3> QED BY <3>1, <3>2 DEF HeapInv, NoHeapLost, IInv, Holders
  <2> QED BY <2>2, <2>3
<1>7. ReadyInv'
  BY MemoryAssumption DEF IInv, TypeOK, GateInv, PlainInv, ReadyInv, Holders, Goto,
      Facts, Gate
<1> QED BY <1>1, <1>2, <1>3, <1>4, <1>5, <1>6, <1>7 DEF IInv

\* Whoever sees the mark gone looks again or goes on.
LEMMA SpinKeeps ==
  ASSUME IInv, NEW t \in Threads, CanRun(t), Spin(t)
  PROVE  IInv'
<1>1. TypeOK'
  BY DEF IInv, TypeOK, Goto, Spin
<1>2. GateInv'
  BY DEF IInv, GateInv, Holders, Goto, Facts, Spin
<1>3. OwnerInv'
  BY DEF IInv, OwnerInv, Goto, Spin
<1>4. PlainInv'
  BY DEF IInv, PlainInv, Goto, Facts, Spin
<1>5. KnownInv'
  BY DEF IInv, KnownInv, Goto, Spin
<1>6. HeapInv'
  BY DEF IInv, HeapInv, NoHeapLost, Holders, Goto, Facts, Spin
<1>7. ReadyInv'
  BY MemoryAssumption DEF IInv, GateInv, PlainInv, ReadyInv, Holders, Goto, Facts, Spin
<1> QED BY <1>1, <1>2, <1>3, <1>4, <1>5, <1>6, <1>7 DEF IInv

\* What is to be known is found out in order.
LEMMA LearnKeeps ==
  ASSUME IInv, NEW t \in Threads, CanRun(t), Learn(t)
  PROVE  IInv'
<1>1. TypeOK'
  BY DEF IInv, TypeOK, Goto, Facts, Learn
<1>2. GateInv'
  BY DEF IInv, GateInv, Holders, Goto, Facts, Learn
<1>3. OwnerInv'
  BY DEF IInv, OwnerInv, Goto, Facts, Learn
<1>4. PlainInv'
  BY DEF IInv, PlainInv, Goto, Facts, Learn
<1>5. KnownInv'
  BY DEF IInv, TypeOK, KnownInv, Goto, Facts, Learn
<1>6. HeapInv'
  BY DEF IInv, HeapInv, NoHeapLost, Holders, Goto, Facts, Learn
<1>7. ReadyInv'
  BY DEF IInv, ReadyInv, Holders, Goto, Learn
<1> QED BY <1>1, <1>2, <1>3, <1>4, <1>5, <1>6, <1>7 DEF IInv

\* The holder makes the only private heap, or none.
LEMMA CreateKeeps ==
  ASSUME IInv, NEW t \in Threads, CanRun(t), Create(t)
  PROVE  IInv'
<1>1. TypeOK'
  <2>1. /\ taken' \in [Threads -> Private \cup {ProcessHeap, Null}]
        /\ created' \in 0..MaxHeaps
        /\ live' \subseteq 1..created'
    <3>1. created \in 0..MaxHeaps /\ MaxHeaps \in Nat /\ live \subseteq 1..created
      BY MemoryAssumption DEF IInv, TypeOK
    <3>2. CASE created' = created /\ live' = live
      BY <3>1, <3>2 DEF IInv, TypeOK, Create, Private
    <3>3. CASE created < MaxHeaps /\ created' = created + 1 /\ live' = live \cup {created'}
      BY <3>1, <3>3 DEF IInv, TypeOK, Create, Private
    <3> QED BY <3>2, <3>3 DEF Create
  <2>2. /\ UNCHANGED <<heap, known, pending, suspended, api>>
        /\ pc' \in [Threads -> Facts \cup {"idle", "gate", "spin", "create", "publish",
                                    "ready", "open", "destroy", "store"}]
    BY DEF IInv, TypeOK, Create, Goto
  <2> QED BY <2>1, <2>2 DEF IInv, TypeOK
<1>2. GateInv'
  BY DEF IInv, GateInv, Holders, Goto, Create
<1>3. OwnerInv'
  BY DEF IInv, OwnerInv, Goto, Create
<1>4. PlainInv'
  BY DEF IInv, PlainInv, Goto, Create
<1>5. KnownInv'
  BY DEF IInv, KnownInv, Goto, Create
<1>6. HeapInv'
  <2>1. Holders = {t} /\ Holders' = {t} /\ live = {} /\ pc'[t] = "publish"
    BY DEF IInv, TypeOK, GateInv, HeapInv, Holders, Create, Goto
  <2>2. live' = {taken'[t]} \cap Private
    <3>1. CASE taken' = [taken EXCEPT ![t] = ProcessHeap] /\ live' = live
      BY <2>1, <3>1, MemoryAssumption DEF IInv, TypeOK
    <3>2. CASE created' = created + 1 /\ live' = live \cup {created'}
               /\ taken' = [taken EXCEPT ![t] = created'] /\ created < MaxHeaps
      <4>1. created' \in Private
        BY <3>2, MemoryAssumption DEF IInv, TypeOK, Private
      <4> QED BY <2>1, <3>2, <4>1 DEF IInv, TypeOK
    <3> QED BY <3>1, <3>2 DEF Create
  <2>3. \A u \in Threads : pc'[u] = "publish" => u = t
    BY <2>1 DEF Holders
  <2>4. taken'[t] # Null
    BY MemoryAssumption DEF IInv, TypeOK, Create, Private
  <2> QED BY <2>1, <2>2, <2>3, <2>4 DEF HeapInv, NoHeapLost
<1>7. ReadyInv'
  BY DEF IInv, ReadyInv, Holders, Goto, Create
<1> QED BY <1>1, <1>2, <1>3, <1>4, <1>5, <1>6, <1>7 DEF IInv

\* The heap and everything known are there when the holder leaves.
LEMMA PublishKeeps ==
  ASSUME IInv, NEW t \in Threads, CanRun(t), Publish(t)
  PROVE  IInv'
<1>1. TypeOK'
  BY DEF IInv, TypeOK, Goto, Publish
<1>2. GateInv'
  <2>1. Holders = {t} /\ Holders' = {}
    BY DEF IInv, TypeOK, GateInv, Holders, Publish, Goto, Facts
  <2>2. heap' \notin Marks
    BY MemoryAssumption DEF IInv, TypeOK, Publish, Marks
  <2> QED BY <2>1, <2>2 DEF GateInv
<1>3. OwnerInv'
  BY DEF IInv, OwnerInv, Goto, Publish
<1>4. PlainInv'
  BY DEF IInv, TypeOK, PlainInv, Goto, Facts, Publish
<1>5. KnownInv'
  BY DEF IInv, KnownInv, Goto, Publish
<1>6. HeapInv'
  BY DEF IInv, HeapInv, NoHeapLost, Holders, Goto, Facts, Publish
<1>7. ReadyInv'
  <2>1. Holders = {t} /\ Holders' = {}
    BY DEF IInv, TypeOK, GateInv, Holders, Publish, Goto, Facts
  <2>2. heap' \notin Marks \cup {Null}
    BY MemoryAssumption DEF IInv, TypeOK, HeapInv, Publish, Marks
  <2>3. ~suspended /\ suspended' = suspended
    BY <2>1 DEF IInv, ReadyInv, Publish
  <2> QED BY <2>1, <2>2, <2>3 DEF ReadyInv
<1> QED BY <1>1, <1>2, <1>3, <1>4, <1>5, <1>6, <1>7 DEF IInv

\* The others are suspended only when nobody holds the gate.
LEMMA OpenKeeps ==
  ASSUME IInv, NEW t \in Threads, CanRun(t), Open(t)
  PROVE  IInv'
<1>1. TypeOK'
  BY DEF IInv, TypeOK, Goto, Open
<1>2. GateInv'
  BY DEF IInv, TypeOK, GateInv, Holders, Goto, Facts, Open
<1>3. OwnerInv'
  BY MemoryAssumption DEF IInv, TypeOK, OwnerInv, Goto, Open
<1>4. PlainInv'
  BY DEF IInv, TypeOK, PlainInv, Goto, Facts, Open
<1>5. KnownInv'
  BY DEF IInv, TypeOK, KnownInv, Goto, Open
<1>6. HeapInv'
  BY DEF IInv, TypeOK, HeapInv, NoHeapLost, Holders, Goto, Facts, Open
<1>7. ReadyInv'
  <2>1. Holders = {} /\ Holders' = {} /\ heap \notin Marks \cup {Null} /\ heap' = heap
    BY DEF IInv, TypeOK, ReadyInv, Holders, Open, Goto, Facts
  <2>2. pending = t
    BY DEF IInv, OwnerInv, Open
  <2>3. ~suspended
    BY <2>2 DEF IInv, ReadyInv, Open
  <2>4. suspended' => pending' = t /\ pc'[t] = "open"
    BY <2>2, <2>3 DEF IInv, TypeOK, Open, Goto
  <2> QED BY <2>1, <2>2, <2>4, MemoryAssumption DEF ReadyInv
<1> QED BY <1>1, <1>2, <1>3, <1>4, <1>5, <1>6, <1>7 DEF IInv

\* A call goes back to where it came from.
LEMMA ReturnKeeps ==
  ASSUME IInv, NEW t \in Threads, CanRun(t), Return(t)
  PROVE  IInv'
<1>1. TypeOK'
  BY DEF IInv, TypeOK, Goto, Return
<1>2. GateInv'
  BY DEF IInv, GateInv, Holders, Goto, Facts, Return
<1>3. OwnerInv'
  BY DEF IInv, OwnerInv, Goto, Return
<1>4. PlainInv'
  BY DEF IInv, PlainInv, Goto, Facts, Return
<1>5. KnownInv'
  BY DEF IInv, KnownInv, Goto, Return
<1>6. HeapInv'
  BY DEF IInv, HeapInv, NoHeapLost, Holders, Goto, Facts, Return
<1>7. ReadyInv'
  BY DEF IInv, ReadyInv, Holders, Goto, Facts, Return
<1> QED BY <1>1, <1>2, <1>3, <1>4, <1>5, <1>6, <1>7 DEF IInv

\* The end of a transaction lets the others go on.
LEMMA EndKeeps ==
  ASSUME IInv, NEW t \in Threads, CanRun(t), End(t)
  PROVE  IInv'
<1>1. TypeOK'
  BY DEF IInv, TypeOK, Goto, End
<1>2. GateInv'
  BY DEF IInv, GateInv, Holders, Goto, Facts, End
<1>3. OwnerInv'
  BY MemoryAssumption DEF IInv, TypeOK, OwnerInv, Goto, End
<1>4. PlainInv'
  BY DEF IInv, TypeOK, PlainInv, Goto, Facts, End
<1>5. KnownInv'
  BY DEF IInv, KnownInv, Goto, End
<1>6. HeapInv'
  BY DEF IInv, HeapInv, NoHeapLost, Holders, Goto, Facts, End
<1>7. ReadyInv'
  BY DEF IInv, ReadyInv, Holders, Goto, Facts, End
<1> QED BY <1>1, <1>2, <1>3, <1>4, <1>5, <1>6, <1>7 DEF IInv

\* Whoever uninitializes is alone, and becomes the holder.
LEMMA UninitializeKeeps ==
  ASSUME IInv, NEW t \in Threads, CanRun(t), Uninitialize(t)
  PROVE  IInv'
<1>1. TypeOK'
  BY DEF IInv, TypeOK, GateInv, Holders, Goto, Marks, Facts, Uninitialize
<1>2. GateInv'
  BY DEF IInv, TypeOK, GateInv, Holders, Goto, Marks, Uninitialize
<1>3. OwnerInv'
  BY DEF IInv, OwnerInv, Goto, Uninitialize
<1>4. PlainInv'
  BY DEF IInv, TypeOK, OwnerInv, PlainInv, Goto, Facts, Uninitialize
<1>5. KnownInv'
  BY DEF IInv, TypeOK, GateInv, KnownInv, Holders, Goto, Marks, Facts, Uninitialize
<1>6. HeapInv'
  BY DEF IInv, TypeOK, HeapInv, NoHeapLost, Holders, Goto, Facts, Uninitialize
<1>7. ReadyInv'
  BY DEF IInv, TypeOK, OwnerInv, ReadyInv, Goto, Uninitialize
<1> QED BY <1>1, <1>2, <1>3, <1>4, <1>5, <1>6, <1>7 DEF IInv

\* The holder destroys the only private heap, or keeps it.
LEMMA DestroyKeeps ==
  ASSUME IInv, NEW t \in Threads, CanRun(t), Destroy(t)
  PROVE  IInv'
<1>1. TypeOK'
  BY DEF IInv, TypeOK, Goto, Destroy
<1>2. GateInv'
  BY DEF IInv, GateInv, Holders, Goto, Destroy
<1>3. OwnerInv'
  BY DEF IInv, OwnerInv, Goto, Destroy
<1>4. PlainInv'
  BY DEF IInv, PlainInv, Goto, Facts, Destroy
<1>5. KnownInv'
  BY DEF IInv, TypeOK, KnownInv, Goto, Destroy
<1>6. HeapInv'
  BY MemoryAssumption DEF IInv, TypeOK, GateInv, HeapInv, NoHeapLost, Holders, Goto,
      Destroy
<1>7. ReadyInv'
  BY DEF IInv, ReadyInv, Holders, Goto, Destroy
<1> QED BY <1>1, <1>2, <1>3, <1>4, <1>5, <1>6, <1>7 DEF IInv

\* The holder leaves the heap it kept, or none.
LEMMA StoreKeeps ==
  ASSUME IInv, NEW t \in Threads, CanRun(t), Store(t)
  PROVE  IInv'
<1>1. TypeOK'
  BY DEF IInv, TypeOK, Goto, Store
<1>2. GateInv'
  <2>1. Holders = {t} /\ Holders' = {}
    BY DEF IInv, TypeOK, GateInv, Holders, Store, Goto, Facts
  <2>2. heap' \notin Marks
    BY MemoryAssumption DEF IInv, TypeOK, Store, Marks
  <2> QED BY <2>1, <2>2 DEF GateInv
<1>3. OwnerInv'
  BY DEF IInv, OwnerInv, Goto, Store
<1>4. PlainInv'
  BY DEF IInv, GateInv, PlainInv, Holders, Goto, Facts, Store
<1>5. KnownInv'
  BY DEF IInv, KnownInv, Goto, Store
<1>6. HeapInv'
  BY DEF IInv, HeapInv, NoHeapLost, Holders, Goto, Facts, Store
<1>7. ReadyInv'
  BY DEF IInv, ReadyInv, Holders, Goto, Store
<1> QED BY <1>1, <1>2, <1>3, <1>4, <1>5, <1>6, <1>7 DEF IInv

\* Before the first call there is no holder and no heap.
LEMMA InitKeeps ==
  ASSUME Init
  PROVE  IInv
<1>1. Holders = {}
  BY DEF Init, Holders, Facts
<1>2. TypeOK
  <2>1. created \in 0..MaxHeaps /\ live \subseteq 1..created
    BY MemoryAssumption DEF Init
  <2>2. /\ heap \in {Null} /\ known = {} /\ pending \in {Null} /\ suspended \in BOOLEAN
        /\ api \in [Threads -> {"begin", "call"}] /\ taken \in [Threads -> {Null}]
        /\ pc \in [Threads -> {"idle"}]
    BY DEF Init
  <2> QED BY <2>1, <2>2 DEF TypeOK
<1>3. GateInv /\ ReadyInv
  BY <1>1, MemoryAssumption DEF Init, GateInv, ReadyInv, Marks
<1>4. OwnerInv /\ PlainInv /\ KnownInv
  BY MemoryAssumption DEF Init, OwnerInv, PlainInv, KnownInv, Facts
<1>5. HeapInv
  BY <1>1, MemoryAssumption DEF Init, HeapInv, NoHeapLost
<1> QED BY <1>2, <1>3, <1>4, <1>5 DEF IInv

\* The invariant is inductive.
LEMMA NextKeeps ==
  ASSUME IInv, [Next]_vars
  PROVE  IInv'
<1>1. CASE UNCHANGED vars
  BY <1>1 DEF vars, IInv, TypeOK, GateInv, OwnerInv, PlainInv, KnownInv, HeapInv,
      ReadyInv,
              NoHeapLost, Holders
<1>2. CASE Next
  <2>1. PICK t \in Threads : CanRun(t) /\ Step(t)
    BY <1>2 DEF Next
  <2>2. CASE Begin(t) \/ Call(t) \/ Uninitialize(t)
    BY <2>1, <2>2, BeginKeeps, CallKeeps, UninitializeKeeps
  <2>3. CASE Gate(t) \/ Spin(t) \/ Learn(t) \/ Create(t) \/ Publish(t)
    BY <2>1, <2>3, GateKeeps, SpinKeeps, LearnKeeps, CreateKeeps, PublishKeeps
  <2>4. CASE Open(t) \/ Return(t) \/ End(t) \/ Destroy(t) \/ Store(t)
    BY <2>1, <2>4, OpenKeeps, ReturnKeeps, EndKeeps, DestroyKeeps, StoreKeeps
  <2> QED BY <2>1, <2>2, <2>3, <2>4 DEF Step, Continue
<1> QED BY <1>1, <1>2

\* The gate has one holder at most, marked where builds use marks, and the heap
\* and what is known go with where the threads are (detour_memory_init,
\* detour_memory_uninitialize).
THEOREM MemoryInvariant == Spec => []IInv
<1>1. Init => IInv
  BY InitKeeps
<1>2. IInv /\ [Next]_vars => IInv'
  BY NextKeeps
<1> QED BY <1>1, <1>2, PTL DEF Spec

\* Whoever has returned from detour_memory_init finds all of it done, for as long
\* as its call or transaction lasts.
THEOREM InitIsDone == Spec => []ReadyAfterInit
<1>1. IInv => ReadyAfterInit
  <2> SUFFICES ASSUME IInv, NEW t \in Threads, pc[t] \in {"ready", "open"}
               PROVE  known = Facts /\ heap \in live \cup {ProcessHeap}
    BY DEF ReadyAfterInit
  <2>1. Holders = {} /\ heap \notin Marks \cup {Null}
    BY DEF IInv, ReadyInv
  <2>2. known = Facts
    BY <2>1 DEF IInv, KnownInv
  <2>3. live = {heap} \cap Private
    BY <2>1 DEF IInv, HeapInv, NoHeapLost
  <2>4. heap \in Private \cup {ProcessHeap}
    BY <2>1 DEF IInv, TypeOK
  <2> QED BY <2>2, <2>3, <2>4
<1> QED BY <1>1, MemoryInvariant, PTL

\* However initializing and uninitializing alternate, the private heap that exists
\* is the one in _detour_memory_heap.
THEOREM HeapIsNotLost == Spec => []NoHeapLost
<1>1. IInv => NoHeapLost
  BY DEF IInv, HeapInv
<1> QED BY <1>1, MemoryInvariant, PTL

\* No transaction suspends a thread inside detour_memory_init or
\* detour_memory_uninitialize.
THEOREM NobodyIsSuspendedInside == Spec => []NobodySuspendedInside
<1>1. IInv => NobodySuspendedInside
  BY DEF IInv, ReadyInv, NobodySuspendedInside
<1> QED BY <1>1, MemoryInvariant, PTL

=============================================================================
