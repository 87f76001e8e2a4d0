------------------------ MODULE ThreadSuspendProofs ------------------------
(***************************************************************************)
(* Proofs about ThreadSuspend, for any threads of the process, any order   *)
(* in which they are listed, and any room in the buffer.                   *)
(***************************************************************************)
EXTENDS ThreadSuspendInv, SequenceTheorems, FiniteSetTheorems, TLAPS

-----------------------------------------------------------------------------
(* Sequences.                                                              *)

LEMMA ToSetFacts ==
  ASSUME NEW S, NEW s \in Seq(S)
  PROVE  /\ ToSet(s) \subseteq S
         /\ DOMAIN s = 1..Len(s)
         /\ Len(s) \in Nat
         /\ \A t \in ToSet(s) : \E i \in 1..Len(s) : s[i] = t
         /\ \A i \in 1..Len(s) : s[i] \in ToSet(s)
<1>1. DOMAIN s = 1..Len(s) /\ Len(s) \in Nat /\ s \in [1..Len(s) -> S]
  BY LenProperties
<1> QED BY <1>1 DEF ToSet

LEMMA EmptyFacts == << >> \in Seq({}) /\ Len(<< >>) = 0 /\ ToSet(<< >>) = {} /\ IsInjective(<< >>)
  BY EmptySeq DEF ToSet, IsInjective

LEMMA AppendFacts ==
  ASSUME NEW S, NEW s \in Seq(S), NEW e \in S
  PROVE  /\ Append(s, e) \in Seq(S)
         /\ Len(Append(s, e)) = Len(s) + 1
         /\ DOMAIN Append(s, e) = 1..Len(s) + 1
         /\ \A i \in 1..Len(s) : Append(s, e)[i] = s[i]
         /\ Append(s, e)[Len(s) + 1] = e
         /\ ToSet(Append(s, e)) = ToSet(s) \cup {e}
         /\ IsInjective(s) /\ e \notin ToSet(s) => IsInjective(Append(s, e))
<1>1. DOMAIN s = 1..Len(s) /\ Len(s) \in Nat
  BY LenProperties
<1>2. Append(s, e) \in Seq(S) /\ Len(Append(s, e)) = Len(s) + 1
  BY AppendProperties
<1>3. DOMAIN Append(s, e) = 1..Len(s) + 1
  BY <1>2, LenProperties
<1>4. (\A i \in 1..Len(s) : Append(s, e)[i] = s[i]) /\ Append(s, e)[Len(s) + 1] = e
  BY AppendProperties
<1>5. ToSet(Append(s, e)) = ToSet(s) \cup {e}
  <2>1. \A i \in 1..Len(s) + 1 : i \in 1..Len(s) \/ i = Len(s) + 1
    BY <1>1
  <2>2. 1..Len(s) \subseteq 1..Len(s) + 1 /\ Len(s) + 1 \in 1..Len(s) + 1
    BY <1>1
  <2> QED BY <1>1, <1>3, <1>4, <2>1, <2>2 DEF ToSet
<1>6. ASSUME IsInjective(s), e \notin ToSet(s) PROVE IsInjective(Append(s, e))
  <2>1. \A i \in 1..Len(s) : s[i] # e
    BY <1>1, <1>6 DEF ToSet
  <2> QED BY <1>1, <1>3, <1>4, <1>6, <2>1 DEF IsInjective
<1> QED BY <1>2, <1>3, <1>4, <1>5, <1>6

LEMMA TailFacts ==
  ASSUME NEW S, NEW s \in Seq(S), s # << >>
  PROVE  /\ Head(s) \in S
         /\ Tail(s) \in Seq(S)
         /\ Len(Tail(s)) = Len(s) - 1
         /\ Len(s) \in Nat \ {0}
         /\ ToSet(s) = {Head(s)} \cup ToSet(Tail(s))
         /\ IsInjective(s) => IsInjective(Tail(s)) /\ Head(s) \notin ToSet(Tail(s))
<1>1. DOMAIN s = 1..Len(s) /\ Len(s) \in Nat \ {0} /\ s \in [1..Len(s) -> S]
  BY LenProperties, EmptySeq
<1>2. /\ Head(s) = s[1] /\ Head(s) \in S /\ Tail(s) \in Seq(S) /\ Len(Tail(s)) = Len(s) - 1
      /\ \A i \in 1..Len(s) - 1 : Tail(s)[i] = s[i + 1]
  BY <1>1, HeadTailProperties
<1>3. DOMAIN Tail(s) = 1..Len(s) - 1
  BY <1>2, LenProperties
<1>4. ToSet(s) = {Head(s)} \cup ToSet(Tail(s))
  <2>1. ASSUME NEW i \in 1..Len(s), i # 1 PROVE i - 1 \in 1..Len(s) - 1 /\ Tail(s)[i - 1] = s[i]
    BY <1>1, <1>2, <2>1
  <2>2. ASSUME NEW i \in 1..Len(s) - 1 PROVE i + 1 \in 1..Len(s)
    BY <1>1
  <2>3. ToSet(s) \subseteq {Head(s)} \cup ToSet(Tail(s))
    <3> SUFFICES ASSUME NEW i \in 1..Len(s) PROVE s[i] = Head(s) \/ s[i] \in ToSet(Tail(s))
      BY <1>1 DEF ToSet
    <3> QED BY <1>2, <1>3, <2>1 DEF ToSet
  <2>4. ToSet(Tail(s)) \subseteq ToSet(s)
    BY <1>1, <1>2, <1>3, <2>2 DEF ToSet
  <2>5. Head(s) \in ToSet(s)
    BY <1>1, <1>2 DEF ToSet
  <2> QED BY <2>3, <2>4, <2>5
<1>5. ASSUME IsInjective(s) PROVE IsInjective(Tail(s)) /\ Head(s) \notin ToSet(Tail(s))
  <2>1. ASSUME NEW i \in 1..Len(s) - 1 PROVE i + 1 \in 1..Len(s) /\ i + 1 # 1 /\ 1 \in 1..Len(s)
    BY <1>1
  <2>2. \A i \in 1..Len(s) - 1 : Tail(s)[i] # Head(s)
    BY <1>1, <1>2, <1>5, <2>1 DEF IsInjective
  <2>3. \A i, j \in 1..Len(s) - 1 : Tail(s)[i] = Tail(s)[j] => i = j
    BY <1>1, <1>2, <1>5, <2>1 DEF IsInjective
  <2> QED BY <1>3, <2>2, <2>3 DEF IsInjective, ToSet
<1> QED BY <1>1, <1>2, <1>4, <1>5

LEMMA OrderFacts ==
  ASSUME NEW S \in SUBSET Threads, NEW s \in Orders(S)
  PROVE  s \in Seq(S) /\ s \in Seq(Threads) /\ IsInjective(s) /\ ToSet(s) = S
<1>1. IsFiniteSet(S)
  BY ThreadAssumption, FS_Subset
<1>2. Cardinality(S) \in Nat
  BY <1>1, FS_CardinalityType
<1>3. s \in [1..Cardinality(S) -> S] /\ IsInjective(s) /\ ToSet(s) = S
  BY DEF Orders
<1>4. s \in Seq(S)
  BY <1>2, <1>3, SeqDef
<1> QED BY <1>3, <1>4, SeqMonotonic

-----------------------------------------------------------------------------
(* The list of threads.                                                    *)

LEMMA PlaceFacts ==
  ASSUME list \in Seq(Threads), IsInjective(list)
  PROVE  /\ \A i \in 1..Len(list) : Place(list[i]) = i
         /\ \A t \in Listed : Place(t) \in 1..Len(list) /\ list[Place(t)] = t
<1>1. DOMAIN list = 1..Len(list)
  BY LenProperties
<1>2. ASSUME NEW i \in 1..Len(list) PROVE Place(list[i]) = i
  BY <1>1 DEF Place, IsInjective
<1>3. ASSUME NEW t \in Listed PROVE Place(t) \in 1..Len(list) /\ list[Place(t)] = t
  <2>1. PICK i \in 1..Len(list) : list[i] = t
    BY <1>1 DEF Listed, ToSet
  <2> QED BY <1>2, <2>1
<1> QED BY <1>2, <1>3

LEMMA UpToFacts ==
  ASSUME list \in Seq(Threads), IsInjective(list), NEW t \in Listed
  PROVE  t \in UpTo(t) /\ UpTo(t) \subseteq Listed
<1>1. Place(t) \in 1..Len(list) /\ list[Place(t)] = t /\ DOMAIN list = 1..Len(list) /\ Len(list) \in Nat
  BY PlaceFacts, LenProperties
<1>2. 1..Place(t) \subseteq 1..Len(list) /\ Place(t) \in 1..Place(t)
  BY <1>1
<1> QED BY <1>1, <1>2 DEF UpTo, Listed, ToSet

\* The enumeration has passed what is in the list up to its position.
LEMMA PassedFacts ==
  ASSUME list \in Seq(Threads), IsInjective(list), prev \in Listed \cup {Null}
  PROVE  /\ Position \in 0..Len(list)
         /\ Passed = {list[i] : i \in 1..Position}
         /\ Passed \subseteq Listed
<1>1. Len(list) \in Nat /\ DOMAIN list = 1..Len(list) /\ Listed \subseteq Threads
  BY ToSetFacts DEF Listed
<1>2. CASE prev = Null
  BY <1>1, <1>2 DEF Position, Passed
<1>3. CASE prev # Null
  <2>1. prev \in Listed
    BY <1>3
  <2>2. Place(prev) \in 1..Len(list)
    BY <2>1, PlaceFacts
  <2> QED BY <1>1, <1>3, <2>1, <2>2, UpToFacts DEF Position, Passed, UpTo
<1> QED BY <1>2, <1>3

\* NtGetNextThread passes over ended threads only.
LEMMA FollowingFacts ==
  ASSUME list \in Seq(Threads), IsInjective(list), prev \in Listed \cup {Null},
         NEW i \in Following
  PROVE  /\ list[i] \in Listed \ Passed
         /\ Passed \subseteq UpTo(list[i])
         /\ UpTo(list[i]) \subseteq Passed \cup ended \cup {list[i]}
<1>1. /\ Position \in 0..Len(list) /\ Passed = {list[j] : j \in 1..Position}
      /\ Len(list) \in Nat /\ DOMAIN list = 1..Len(list)
  BY PassedFacts, LenProperties
<1>2. i \in Position + 1..Len(list) /\ \A j \in Position + 1..i - 1 : list[j] \in ended
  BY DEF Following
<1>3. i \in 1..Len(list) /\ Place(list[i]) = i
  BY <1>1, <1>2, PlaceFacts
<1>4. list[i] \in Listed
  BY <1>1, <1>3 DEF Listed, ToSet
<1>5. list[i] \notin Passed
  BY <1>1, <1>2, <1>3 DEF IsInjective
<1>6. 1..Position \subseteq 1..i
  BY <1>1, <1>2
<1>7. \A j \in 1..i : j \in 1..Position \/ j \in Position + 1..i - 1 \/ j = i
  BY <1>1, <1>2
<1> QED BY <1>1, <1>2, <1>3, <1>4, <1>5, <1>6, <1>7 DEF UpTo

\* At the end of the list, whoever was not passed has ended.
LEMMA NoneFacts ==
  ASSUME list \in Seq(Threads), IsInjective(list), prev \in Listed \cup {Null},
         \A i \in Position + 1..Len(list) : list[i] \in ended
  PROVE  Listed \subseteq Passed \cup ended
<1>1. /\ Position \in 0..Len(list) /\ Passed = {list[j] : j \in 1..Position}
      /\ Len(list) \in Nat /\ DOMAIN list = 1..Len(list)
  BY PassedFacts, LenProperties
<1>2. \A j \in 1..Len(list) : j \in 1..Position \/ j \in Position + 1..Len(list)
  BY <1>1
<1> QED BY <1>1, <1>2 DEF Listed, ToSet

\* A thread that is created comes last.
LEMMA CreateFacts ==
  ASSUME list \in Seq(Threads), IsInjective(list), NEW u \in Threads \ Listed,
         list' = Append(list, u)
  PROVE  /\ list' \in Seq(Threads) /\ IsInjective(list')
         /\ Listed' = Listed \cup {u}
         /\ \A t \in Listed : UpTo(t)' = UpTo(t)
<1>1. /\ list' \in Seq(Threads) /\ IsInjective(list') /\ Listed' = Listed \cup {u}
      /\ \A i \in 1..Len(list) : list'[i] = list[i]
      /\ DOMAIN list' = 1..Len(list) + 1 /\ Len(list) \in Nat /\ Len(list') = Len(list) + 1
  BY AppendFacts, LenProperties DEF Listed
<1>2. ASSUME NEW t \in Listed PROVE UpTo(t)' = UpTo(t)
  <2>1. Place(t) \in 1..Len(list) /\ list[Place(t)] = t
    BY PlaceFacts
  <2>2. Place(t) \in DOMAIN list' /\ list'[Place(t)] = t
    BY <1>1, <2>1
  <2>3. Place(t)' = Place(t)
    BY <1>1, <2>2 DEF Place, IsInjective
  <2>4. \A i \in 1..Place(t) : list'[i] = list[i]
    BY <1>1, <2>1
  <2> QED BY <2>3, <2>4 DEF UpTo
<1> QED BY <1>1, <1>2

LEMMA SameList ==
  ASSUME UNCHANGED <<list, ended>>
  PROVE  /\ Listed' = Listed
         /\ \A t : UpTo(t)' = UpTo(t)
         /\ prev' = prev => Passed' = Passed
         /\ \A t : UNCHANGED <<suspended, moving>> => (Running(t)' <=> Running(t))
  BY DEF Listed, UpTo, Place, Passed, Running, ToSet

-----------------------------------------------------------------------------
(* The invariant.                                                          *)

LEMMA InvInit == Init => IInv
<1> SUFFICES ASSUME Init PROVE IInv
  OBVIOUS
<1>1. Initial \in SUBSET Threads /\ list \in Orders(Initial)
  BY ThreadAssumption DEF Init
<1>2. list \in Seq(Threads) /\ IsInjective(list) /\ Listed = Initial
  BY <1>1, OrderFacts DEF Listed
<1>3. /\ buffer = << >> /\ ToSet(buffer) = {} /\ IsInjective(buffer) /\ Len(buffer) = 0
      /\ buffer \in Seq(Threads)
  BY EmptyFacts, EmptySeq DEF Init
<1>4. TypeOK
  <2>1. /\ {SnapshotRoom, MaxUses} \subseteq Nat /\ Room \in Nat \ {0} /\ Null \notin Threads
    BY ThreadAssumption
  <2>2. /\ lock = Null /\ ended = {} /\ moving = {} /\ pc = "idle" /\ thread = Null /\ prev = Null
        /\ closePrev = FALSE /\ skipped = FALSE /\ snapshot = Null /\ room = SnapshotRoom
        /\ listedThen = {}
        /\ capacity = Room /\ uses = 0 /\ nt5 \in BOOLEAN
        /\ suspended = [t \in Threads |-> 0] /\ handles = [t \in Threads |-> 0]
    BY DEF Init
  <2>3. suspended \in [Threads -> {0, 1}] /\ handles \in [Threads -> {0, 1}]
    BY <2>2
  <2>4. uses \in 0..MaxUses /\ capacity \in Nat /\ Len(buffer) <= capacity
    BY <1>3, <2>1, <2>2
  <2> QED BY <1>2, <1>3, <2>1, <2>2, <2>3, <2>4 DEF TypeOK
<1>5. CountInv /\ BufferInv /\ CursorInv
  BY <1>3, ThreadAssumption DEF Init, CountInv, BufferInv, CursorInv, Stopping, Opened
<1>6. Nt6Inv /\ Nt5Inv /\ OthersStopped
  BY <1>3 DEF Init, Nt6Inv, Nt5Inv, OthersStopped
<1> QED BY <1>2, <1>4, <1>5, <1>6 DEF IInv

LEMMA BeginStep == IInv /\ Begin => IInv'
<1> SUFFICES ASSUME IInv, Begin PROVE IInv'
  OBVIOUS
<1> USE DEF IInv
<1>1. /\ pc = "idle" /\ pc' = "next" /\ uses' = 0 /\ listedThen' = Listed /\ buffer' = << >>
      /\ prev = Null /\ ~skipped /\ snapshot = Null /\ closePrev = FALSE
      /\ UNCHANGED <<nt5, list, ended, lock, suspended, moving, handles, thread, prev, closePrev,
                     skipped, snapshot, room, buffer, capacity>>
  BY DEF Begin, others, effects, TypeOK, BufferInv, CursorInv
<1>2. Listed' = Listed /\ ToSet(buffer)' = ToSet(buffer) /\ Stopping = {} /\ Stopping' = {}
      /\ Opened = {} /\ Opened' = {} /\ ToSet(buffer) = {}
  BY <1>1, SameList, EmptyFacts DEF Stopping, Opened
<1>3. TypeOK'
  BY <1>1, <1>2, ThreadAssumption DEF TypeOK
<1>4. CountInv' /\ BufferInv' /\ CursorInv'
  BY <1>1, <1>2 DEF CountInv, BufferInv, CursorInv
<1>5. Nt6Inv'
  BY <1>1, <1>2 DEF Nt6Inv, Passed
<1>6. Nt5Inv' /\ OthersStopped' /\ IsInjective(list)'
  BY <1>1, <1>2 DEF Nt5Inv, OthersStopped
<1> QED BY <1>3, <1>4, <1>5, <1>6

LEMMA GetNextStep == IInv /\ GetNext => IInv'
<1> SUFFICES ASSUME IInv, GetNext PROVE IInv'
  OBVIOUS
<1> USE DEF IInv
<1>1. PICK i \in Following :
        thread' = list[i] /\ handles' = [ClosedPrev EXCEPT ![list[i]] = @ + 1]
  BY DEF GetNext
<1>2. /\ pc = "next" /\ ~nt5 /\ closePrev' = FALSE /\ pc' = "consider"
      /\ UNCHANGED <<nt5, list, ended, lock, suspended, moving, prev, skipped, snapshot, room, listedThen,
                     buffer, capacity, uses>>
  BY DEF GetNext, others
<1>3. /\ list \in Seq(Threads) /\ prev \in Listed \cup {Null} /\ ToSet(buffer) \subseteq Passed
  BY <1>2 DEF TypeOK, Nt6Inv
<1>4. /\ thread' \in Listed \ Passed
      /\ Passed \subseteq UpTo(thread')
      /\ UpTo(thread') \subseteq Passed \cup ended \cup {thread'}
  BY <1>1, <1>3, FollowingFacts
<1>5. Listed' = Listed /\ Passed' = Passed /\ UpTo(thread)' = UpTo(thread') /\ Listed \subseteq Threads
  BY <1>2, <1>3, SameList, ToSetFacts DEF Listed, UpTo, Place
<1>6. ToSet(buffer)' = ToSet(buffer) /\ Stopping = {} /\ Stopping' = {} /\ Opened' = {thread'}
      /\ Opened = IF closePrev THEN {prev} ELSE {}
  BY <1>2 DEF Stopping, Opened
<1>7. prev # Null => prev \in Passed /\ prev \in Threads
  BY <1>3, <1>5, UpToFacts DEF Passed
<1>8. CountInv'
  <2>1. /\ \A t \in Threads : handles[t] = IF t \in ToSet(buffer) \cup Opened THEN 1 ELSE 0
        /\ handles \in [Threads -> {0, 1}]
    BY DEF CountInv, TypeOK
  <2>2. closePrev => prev # Null /\ prev \notin ToSet(buffer)
    BY DEF CursorInv
  <2>3. thread' \in Threads /\ thread' # prev /\ thread' \notin ToSet(buffer)
    BY <1>3, <1>4, <1>5, <1>7, ThreadAssumption
  <2>4. \A t \in Threads : handles'[t] = IF t \in ToSet(buffer) \cup {thread'} THEN 1 ELSE 0
    BY <1>1, <1>6, <1>7, <2>1, <2>2, <2>3 DEF ClosedPrev
  <2>5. /\ \A t \in Threads : suspended'[t] = IF t \in ToSet(buffer) \cup Stopping THEN 1 ELSE 0
        /\ moving' \subseteq Stopping
    BY <1>2 DEF CountInv
  <2> QED BY <1>6, <2>4, <2>5 DEF CountInv
<1>9. TypeOK'
  <2>1. handles' \in [Threads -> {0, 1}]
    <3>1. handles \in [Threads -> {0, 1}]
      BY DEF TypeOK
    <3>2. handles' = [t \in Threads |-> handles'[t]]
      BY <1>1, <3>1 DEF ClosedPrev
    <3> QED BY <1>8, <3>2 DEF CountInv
  <2> QED BY <1>2, <1>4, <1>5, <2>1 DEF TypeOK
<1>10. BufferInv' /\ CursorInv'
  BY <1>2, <1>4, <1>5, <1>6 DEF BufferInv, CursorInv
<1>11. Nt6Inv'
  BY <1>2, <1>3, <1>4, <1>5, <1>6 DEF Nt6Inv
<1>12. Nt5Inv' /\ OthersStopped' /\ IsInjective(list)'
  BY <1>2 DEF Nt5Inv, OthersStopped
<1> QED BY <1>8, <1>9, <1>10, <1>11, <1>12

\* What the enumeration closes when it ends.
LEMMA ClosedFacts ==
  ASSUME IInv, pc = "next", ~nt5, handles' = ClosedPrev
  PROVE  /\ handles' \in [Threads -> {0, 1}]
         /\ \A t \in Threads : handles'[t] = IF t \in ToSet(buffer) THEN 1 ELSE 0
<1>1. /\ \A t \in Threads : handles[t] = IF t \in ToSet(buffer) \cup Opened THEN 1 ELSE 0
      /\ handles \in [Threads -> {0, 1}] /\ closePrev \in BOOLEAN
  BY DEF CountInv, TypeOK, IInv
<1>2. closePrev => prev # Null /\ prev \notin ToSet(buffer) /\ prev \in Threads
  BY DEF CursorInv, TypeOK, IInv
<1>3. Opened = IF closePrev THEN {prev} ELSE {}
  BY DEF Opened
<1> QED BY <1>1, <1>2, <1>3 DEF ClosedPrev

LEMMA NoNextStep == IInv /\ NoNext => IInv'
<1> SUFFICES ASSUME IInv, NoNext PROVE IInv'
  OBVIOUS
<1> USE DEF IInv
<1>1. /\ pc = "next" /\ ~nt5 /\ closePrev' = FALSE /\ pc' \in {"open", "fail"} /\ handles' = ClosedPrev
      /\ thread' = Null /\ prev' = Null /\ skipped' = FALSE /\ snapshot' = Null
      /\ UNCHANGED <<nt5, list, ended, lock, suspended, moving, room, listedThen, buffer, capacity, uses>>
  BY DEF NoNext, others, Rest
<1>2. /\ Listed' = Listed /\ ToSet(buffer)' = ToSet(buffer) /\ Stopping = {} /\ Stopping' = {}
      /\ Opened' = {} /\ \A t : Running(t)' <=> Running(t)
  BY <1>1, SameList DEF Stopping, Opened
<1>3. /\ handles' \in [Threads -> {0, 1}]
      /\ \A t \in Threads : handles'[t] = IF t \in ToSet(buffer) THEN 1 ELSE 0
  BY <1>1, ClosedFacts
<1>4. TypeOK'
  BY <1>1, <1>2, <1>3 DEF TypeOK
<1>5. CountInv' /\ BufferInv' /\ CursorInv'
  BY <1>1, <1>2, <1>3 DEF CountInv, BufferInv, CursorInv
<1>6. Nt6Inv' /\ Nt5Inv' /\ IsInjective(list)'
  BY <1>1 DEF Nt6Inv, Nt5Inv
<1>7. OthersStopped'
  <2> SUFFICES ASSUME pc' = "open", NEW i \in DOMAIN list, Running(list[i])
               PROVE  list[i] \in Stubborn \cup {Client}
    BY <1>1, <1>2 DEF OthersStopped
  <2>1. \A j \in Position + 1..Len(list) : list[j] \in ended
    BY DEF NoNext
  <2>2. /\ list \in Seq(Threads) /\ prev \in Listed \cup {Null}
        /\ Passed \subseteq ended \cup Stubborn \cup {Client} \cup ToSet(buffer)
    BY <1>1, <1>2 DEF TypeOK, Nt6Inv
  <2>3. Listed \subseteq Passed \cup ended
    BY <2>1, <2>2, NoneFacts
  <2>4. list[i] \in Listed /\ list[i] \in Threads
    BY <2>2, ToSetFacts DEF Listed
  <2>5. list[i] \notin ended /\ (suspended[list[i]] = 0 \/ list[i] \in moving)
    BY DEF Running
  <2>6. list[i] \notin ToSet(buffer)
    BY <1>2, <2>4, <2>5 DEF CountInv
  <2> QED BY <2>2, <2>3, <2>4, <2>5, <2>6
<1> QED BY <1>4, <1>5, <1>6, <1>7

LEMMA StepNextStep == IInv /\ (SkipCurrent \/ PassOver) => IInv'
<1> SUFFICES ASSUME IInv, SkipCurrent \/ PassOver PROVE IInv'
  OBVIOUS
<1> USE DEF IInv
<1>1. /\ pc = "consider" /\ pc' = "next" /\ prev' = thread /\ closePrev' = TRUE /\ ~closePrev
      /\ thread \in Stubborn \cup ended \cup {Client}
      /\ skipped' = skipped \/ (skipped' = TRUE /\ thread = Client)
      /\ UNCHANGED <<nt5, list, ended, lock, suspended, moving, handles, thread, snapshot, room, listedThen,
                     buffer, capacity, uses>>
  BY DEF SkipCurrent, PassOver, StepNext, others, effects, CursorInv
<1>2. /\ list \in Seq(Threads) /\ thread \in Listed /\ ~nt5
  BY <1>1 DEF TypeOK, CursorInv, Nt5Inv
<1>3. /\ ToSet(buffer) \subseteq Passed /\ (skipped => Client \in Passed)
      /\ Passed \subseteq ended \cup Stubborn \cup {Client} \cup ToSet(buffer)
      /\ thread \notin Passed /\ Passed \subseteq UpTo(thread)
      /\ UpTo(thread) \subseteq Passed \cup ended \cup {thread}
  BY <1>1, <1>2 DEF Nt6Inv, Stopping
<1>4. /\ Listed' = Listed /\ ToSet(buffer)' = ToSet(buffer) /\ Stopping = {} /\ Stopping' = {}
      /\ Opened = {thread} /\ Opened' = {thread} /\ Listed \subseteq Threads /\ thread # Null
  BY <1>1, <1>2, SameList, ToSetFacts, ThreadAssumption DEF Stopping, Opened, Listed
<1>5. Passed' = UpTo(thread) /\ thread \in UpTo(thread)
  BY <1>1, <1>2, <1>4, UpToFacts, SameList DEF Passed
<1>6. TypeOK'
  BY <1>1, <1>4 DEF TypeOK
<1>7. CountInv' /\ BufferInv' /\ CursorInv'
  BY <1>1, <1>3, <1>4 DEF CountInv, BufferInv, CursorInv
<1>8. Nt6Inv'
  BY <1>1, <1>2, <1>3, <1>4, <1>5 DEF Nt6Inv
<1>9. Nt5Inv' /\ OthersStopped' /\ IsInjective(list)'
  BY <1>1, <1>2 DEF Nt5Inv, OthersStopped
<1> QED BY <1>6, <1>7, <1>8, <1>9

\* One more thread is suspended, and its handle is the only one besides the buffer's.
LEMMA SuspendedFacts ==
  ASSUME IInv, NEW t \in Listed, t \notin ToSet(buffer), Stopping = {},
         suspended' = [suspended EXCEPT ![t] = @ + 1],
         moving' = moving \cup {t},
         thread' = t, pc' = IF Full THEN "grow" ELSE "collect", ~closePrev',
         \A u \in Threads : handles'[u] = IF u \in ToSet(buffer) \cup {t} THEN 1 ELSE 0,
         UNCHANGED buffer
  PROVE  CountInv' /\ Stopping' = {t} /\ suspended' \in [Threads -> {0, 1}]
<1>1. Listed \subseteq Threads
  BY ToSetFacts DEF IInv, TypeOK, Listed
<1>2. /\ suspended \in [Threads -> {0, 1}] /\ moving \subseteq {}
      /\ \A u \in Threads : suspended[u] = IF u \in ToSet(buffer) THEN 1 ELSE 0
  BY DEF IInv, TypeOK, CountInv
<1>3. Stopping' = {t} /\ Opened' = {t}
  BY DEF Stopping, Opened
<1>4. \A u \in Threads : suspended'[u] = IF u \in ToSet(buffer) \cup {t} THEN 1 ELSE 0
  BY <1>1, <1>2
<1>5. suspended' \in [Threads -> {0, 1}]
  BY <1>1, <1>2
<1> QED BY <1>1, <1>2, <1>3, <1>4, <1>5 DEF CountInv

LEMMA FullFacts == IInv /\ ~Full => Len(buffer) < capacity
<1> SUFFICES ASSUME IInv, ~Full PROVE Len(buffer) < capacity
  OBVIOUS
<1>1. Len(buffer) \in Nat /\ capacity \in Nat
  BY LenProperties DEF IInv, TypeOK
<1> QED BY <1>1 DEF Full

LEMMA SuspendStep == IInv /\ Suspend => IInv'
<1> SUFFICES ASSUME IInv, Suspend PROVE IInv'
  OBVIOUS
<1> USE DEF IInv
<1>1. /\ pc = "consider" /\ pc' = IF Full THEN "grow" ELSE "collect"
      /\ prev' = thread /\ ~closePrev
      /\ skipped \/ thread # Client
      /\ suspended' = [suspended EXCEPT ![thread] = @ + 1]
      /\ moving' = moving \cup {thread}
      /\ UNCHANGED <<nt5, list, ended, lock, handles, thread, closePrev, skipped, snapshot, room, listedThen,
                     buffer, capacity, uses>>
  BY DEF Suspend, others, CursorInv
<1>2. /\ list \in Seq(Threads) /\ thread \in Listed /\ ~nt5
  BY <1>1 DEF TypeOK, CursorInv, Nt5Inv
<1>3. /\ ToSet(buffer) \subseteq Passed /\ (skipped => Client \in Passed)
      /\ Passed \subseteq ended \cup Stubborn \cup {Client} \cup ToSet(buffer)
      /\ thread \notin Passed /\ Passed \subseteq UpTo(thread)
      /\ UpTo(thread) \subseteq Passed \cup ended \cup {thread}
  BY <1>1, <1>2 DEF Nt6Inv, Stopping
<1>4. /\ Listed' = Listed /\ ToSet(buffer)' = ToSet(buffer) /\ Stopping = {}
      /\ Opened = {thread} /\ Listed \subseteq Threads /\ thread # Null /\ thread # Client
  BY <1>1, <1>2, <1>3, SameList, ToSetFacts, ThreadAssumption DEF Stopping, Opened, Listed
<1>5. Passed' = UpTo(thread) /\ thread \in UpTo(thread)
  BY <1>1, <1>2, <1>4, UpToFacts, SameList DEF Passed
<1>6. CountInv' /\ Stopping' = {thread} /\ suspended' \in [Threads -> {0, 1}]
  <2>1. \A u \in Threads : handles'[u] = IF u \in ToSet(buffer) \cup {thread} THEN 1 ELSE 0
    BY <1>1, <1>4 DEF CountInv
  <2> QED BY <1>1, <1>2, <1>3, <1>4, <2>1, SuspendedFacts
<1>7. TypeOK'
  BY <1>1, <1>2, <1>4, <1>6 DEF TypeOK
<1>8. BufferInv' /\ CursorInv'
  <2>1. pc' = "collect" => Len(buffer') < capacity'
    BY <1>1, FullFacts
  <2> QED BY <1>1, <1>2, <1>3, <1>4, <1>6, <2>1 DEF BufferInv, CursorInv
<1>9. Nt6Inv'
  BY <1>1, <1>2, <1>3, <1>4, <1>5, <1>6 DEF Nt6Inv
<1>10. Nt5Inv' /\ OthersStopped' /\ IsInjective(list)'
  BY <1>1, <1>2 DEF Nt5Inv, OthersStopped
<1> QED BY <1>6, <1>7, <1>8, <1>9, <1>10

\* While there is no snapshot yet, nobody has been suspended.
LEMMA NoSnapshotFacts ==
  ASSUME IInv, nt5, snapshot = Null, pc \in {"next", "query", "retry", "giveup"},
         UNCHANGED <<nt5, list, ended, lock, suspended, moving, handles, thread, prev, closePrev,
                     skipped, listedThen, buffer, capacity, uses>>,
         pc' \in {"next", "query", "retry", "giveup", "fail"}, room' \in Nat
  PROVE  /\ Listed' = Listed /\ ToSet(buffer)' = {} /\ Stopping = {} /\ Stopping' = {}
         /\ Listed \in SUBSET Threads /\ buffer = << >>
         /\ snapshot' = Null \/ snapshot' \in Seq(Threads) => TypeOK'
         /\ CountInv' /\ BufferInv'
         /\ snapshot' = Null \/ pc' = "next" => CursorInv'
         /\ Nt6Inv' /\ OthersStopped' /\ IsInjective(list)'
<1> USE DEF IInv
<1>1. /\ prev = Null /\ ~skipped /\ buffer = << >> /\ ToSet(buffer) = {} /\ closePrev = FALSE
  BY EmptyFacts DEF Nt5Inv, CursorInv, TypeOK
<1>2. /\ Listed' = Listed /\ ToSet(buffer)' = ToSet(buffer) /\ Stopping = {} /\ Stopping' = {}
      /\ Opened = {} /\ Opened' = {} /\ Listed \in SUBSET Threads
  BY <1>1, SameList, ToSetFacts DEF Stopping, Opened, Listed, TypeOK
<1>3. ASSUME snapshot' = Null \/ snapshot' \in Seq(Threads) PROVE TypeOK'
  BY <1>2, <1>3 DEF TypeOK
<1>4. CountInv' /\ BufferInv'
  BY <1>1, <1>2 DEF CountInv, BufferInv
<1>5. ASSUME snapshot' = Null \/ pc' = "next" PROVE CursorInv'
  BY <1>1, <1>2, <1>5 DEF CursorInv
<1>6. Nt6Inv' /\ OthersStopped' /\ IsInjective(list)'
  BY DEF Nt6Inv, OthersStopped
<1> QED BY <1>1, <1>2, <1>3, <1>4, <1>5, <1>6

LEMMA AllocSnapshotStep == IInv /\ (AllocSnapshot \/ DropSnapshot) => IInv'
<1> SUFFICES ASSUME IInv, AllocSnapshot \/ DropSnapshot PROVE IInv'
  OBVIOUS
<1> USE DEF IInv
<1>1. nt5 /\ snapshot = Null /\ pc \in {"next", "query", "retry", "giveup"}
  BY DEF AllocSnapshot, DropSnapshot, CursorInv
<1>2. /\ snapshot' = Null /\ pc' \in {"next", "query", "retry", "giveup", "fail"} /\ room' \in Nat
      /\ UNCHANGED <<nt5, list, ended, lock, suspended, moving, handles, thread, prev, closePrev,
                     skipped, listedThen, buffer, capacity, uses>>
  BY <1>1, ThreadAssumption DEF AllocSnapshot, DropSnapshot, others, effects, TypeOK
<1>3. /\ Listed' = Listed /\ ToSet(buffer)' = {} /\ buffer = << >>
      /\ TypeOK' /\ CountInv' /\ BufferInv' /\ CursorInv'
      /\ Nt6Inv' /\ OthersStopped' /\ IsInjective(list)'
  BY <1>1, <1>2, NoSnapshotFacts
<1>4. Nt5Inv'
  BY <1>1, <1>2, <1>3 DEF Nt5Inv
<1> QED BY <1>3, <1>4

LEMMA TakeSnapshotStep == IInv /\ TakeSnapshot => IInv'
<1> SUFFICES ASSUME IInv, TakeSnapshot PROVE IInv'
  OBVIOUS
<1> USE DEF IInv
<1>1. /\ pc = "query" /\ nt5 /\ snapshot = Null
      /\ UNCHANGED <<nt5, list, ended, lock, suspended, moving, handles, thread, prev, closePrev,
                     skipped, listedThen, buffer, capacity, uses>>
  BY DEF TakeSnapshot, others, effects, CursorInv
<1>2. IsFiniteSet(Listed \ ended) /\ Listed \ ended \in SUBSET Threads
  BY ThreadAssumption, FS_Subset, ToSetFacts DEF Listed, TypeOK
<1>3. /\ room' \in Nat
      /\ \/ snapshot' \in Snapshots /\ pc' = "next"
         \/ snapshot' = Null /\ pc' \in {"retry", "giveup"}
  <2>1. Cardinality(Listed \ ended) \in Nat /\ SnapshotRoom \in Nat /\ room \in Nat
    BY <1>2, FS_CardinalityType, ThreadAssumption DEF TypeOK
  <2> QED BY <1>1, <2>1 DEF TakeSnapshot, TooSmall
<1>4. ASSUME snapshot' \in Snapshots
      PROVE  snapshot' \in Seq(Threads) /\ IsInjective(snapshot') /\ ToSet(snapshot') = Listed \ ended
  BY <1>2, <1>4, OrderFacts DEF Snapshots
<1>5. /\ Listed' = Listed /\ ToSet(buffer)' = {} /\ Stopping' = {} /\ buffer = << >>
      /\ TypeOK' /\ CountInv' /\ BufferInv' /\ CursorInv'
      /\ Nt6Inv' /\ OthersStopped' /\ IsInjective(list)'
  BY <1>1, <1>3, <1>4, NoSnapshotFacts
<1>6. Nt5Inv'
  <2>1. listedThen \subseteq Listed
    BY DEF TypeOK
  <2> QED BY <1>1, <1>3, <1>4, <1>5, <2>1 DEF Nt5Inv
<1> QED BY <1>5, <1>6

\* The first thread of what is left of the snapshot.
LEMMA SnapshotFacts ==
  ASSUME IInv, nt5, snapshot \notin {Null, << >>}
  PROVE  /\ Head(snapshot) \in Listed \ (ToSet(buffer) \cup Stopping)
         /\ Tail(snapshot) \in Seq(Threads) /\ Tail(snapshot) # Null
         /\ IsInjective(Tail(snapshot)) /\ Head(snapshot) \notin ToSet(Tail(snapshot))
         /\ ToSet(snapshot) = {Head(snapshot)} \cup ToSet(Tail(snapshot))
<1>1. snapshot \in Seq(Threads) /\ IsInjective(snapshot)
      /\ ToSet(snapshot) \subseteq Listed \ (ToSet(buffer) \cup Stopping)
  BY DEF IInv, TypeOK, Nt5Inv
<1>2. snapshot # << >>
  OBVIOUS
<1>3. /\ Tail(snapshot) \in Seq(Threads) /\ IsInjective(Tail(snapshot))
      /\ Head(snapshot) \notin ToSet(Tail(snapshot))
      /\ ToSet(snapshot) = {Head(snapshot)} \cup ToSet(Tail(snapshot))
  BY <1>1, <1>2, TailFacts
<1>4. Tail(snapshot) # Null
  BY <1>3, ThreadAssumption
<1> QED BY <1>1, <1>3, <1>4

LEMMA PassOverListedStep == IInv /\ PassOverListed => IInv'
<1> SUFFICES ASSUME IInv, PassOverListed PROVE IInv'
  OBVIOUS
<1> USE DEF IInv
<1>1. /\ pc = "next" /\ nt5 /\ snapshot \notin {Null, << >>} /\ snapshot' = Tail(snapshot)
      /\ Head(snapshot) \in {Client} \cup Stubborn \cup ended
      /\ UNCHANGED <<nt5, list, ended, lock, suspended, moving, handles, pc, thread, prev, closePrev,
                     skipped, room, listedThen, buffer, capacity, uses>>
  BY DEF PassOverListed, others, effects
<1>2. /\ Listed' = Listed /\ ToSet(buffer)' = ToSet(buffer) /\ Stopping' = Stopping /\ Opened' = Opened
  BY <1>1, SameList DEF Stopping, Opened
<1>3. TypeOK'
  BY <1>1, <1>2, SnapshotFacts DEF TypeOK
<1>4. CountInv' /\ BufferInv' /\ CursorInv'
  BY <1>1, <1>2 DEF CountInv, BufferInv, CursorInv
<1>5. Nt6Inv' /\ OthersStopped' /\ IsInjective(list)'
  BY <1>1 DEF Nt6Inv, OthersStopped
<1>6. Nt5Inv'
  BY <1>1, <1>2, SnapshotFacts DEF Nt5Inv
<1> QED BY <1>3, <1>4, <1>5, <1>6

LEMMA SuspendListedStep == IInv /\ SuspendListed => IInv'
<1> SUFFICES ASSUME IInv, SuspendListed PROVE IInv'
  OBVIOUS
<1> USE DEF IInv
<1>1. PICK t : t = Head(snapshot)
  OBVIOUS
<1>2. /\ pc = "next" /\ nt5 /\ snapshot \notin {Null, << >>} /\ snapshot' = Tail(snapshot)
      /\ t \notin {Client} \cup Stubborn \cup ended
      /\ suspended' = [suspended EXCEPT ![t] = @ + 1]
      /\ moving' = moving \cup {t}
      /\ handles' = [handles EXCEPT ![t] = @ + 1]
      /\ thread' = t
      /\ pc' = IF Full THEN "grow" ELSE "collect"
      /\ UNCHANGED <<nt5, list, ended, lock, prev, closePrev, skipped, room, listedThen, buffer, capacity,
                     uses>>
  BY <1>1 DEF SuspendListed, others
<1>3. /\ t \in Listed \ (ToSet(buffer) \cup Stopping) /\ t \notin ToSet(snapshot')
      /\ snapshot' \in Seq(Threads) /\ snapshot' # Null /\ IsInjective(snapshot')
      /\ ToSet(snapshot) = {t} \cup ToSet(snapshot')
  BY <1>1, <1>2, SnapshotFacts
<1>4. /\ Listed' = Listed /\ ToSet(buffer)' = ToSet(buffer) /\ Stopping = {} /\ Listed \subseteq Threads
      /\ prev = Null /\ ~skipped /\ closePrev = FALSE /\ Opened = {}
  BY <1>2, SameList, ToSetFacts DEF Stopping, Opened, Listed, TypeOK, Nt5Inv, CursorInv
<1>5. /\ handles' \in [Threads -> {0, 1}]
      /\ \A u \in Threads : handles'[u] = IF u \in ToSet(buffer) \cup {t} THEN 1 ELSE 0
  <2>1. /\ handles \in [Threads -> {0, 1}]
        /\ \A u \in Threads : handles[u] = IF u \in ToSet(buffer) THEN 1 ELSE 0
    BY <1>4 DEF TypeOK, CountInv
  <2> QED BY <1>2, <1>3, <1>4, <2>1
<1>6. CountInv' /\ Stopping' = {t} /\ suspended' \in [Threads -> {0, 1}]
  BY <1>2, <1>3, <1>4, <1>5, SuspendedFacts
<1>7. TypeOK'
  BY <1>2, <1>3, <1>4, <1>5, <1>6 DEF TypeOK
<1>8. BufferInv' /\ CursorInv'
  <2>1. pc' = "collect" => Len(buffer') < capacity'
    BY <1>2, FullFacts
  <2> QED BY <1>2, <1>3, <1>4, <1>6, <2>1 DEF BufferInv, CursorInv
<1>9. Nt6Inv' /\ OthersStopped' /\ IsInjective(list)'
  BY <1>2 DEF Nt6Inv, OthersStopped
<1>10. Nt5Inv'
  BY <1>2, <1>3, <1>4, <1>6 DEF Nt5Inv
<1> QED BY <1>6, <1>7, <1>8, <1>9, <1>10

LEMMA SnapshotDoneStep == IInv /\ SnapshotDone => IInv'
<1> SUFFICES ASSUME IInv, SnapshotDone PROVE IInv'
  OBVIOUS
<1> USE DEF IInv
<1>1. /\ pc = "next" /\ pc' = "open" /\ nt5 /\ snapshot = << >>
      /\ thread' = Null /\ prev' = Null /\ skipped' = FALSE /\ snapshot' = Null
      /\ UNCHANGED <<nt5, list, ended, lock, suspended, moving, handles, closePrev, room, listedThen, buffer,
                     capacity, uses>>
  BY DEF SnapshotDone, others, effects, Rest
<1>2. /\ Listed' = Listed /\ ToSet(buffer)' = ToSet(buffer) /\ Stopping = {} /\ Stopping' = {}
      /\ closePrev = FALSE /\ Opened = {} /\ Opened' = {} /\ \A t : Running(t)' <=> Running(t)
  BY <1>1, SameList DEF Stopping, Opened, Nt5Inv, CursorInv, TypeOK
<1>3. TypeOK'
  BY <1>1, <1>2 DEF TypeOK
<1>4. CountInv' /\ BufferInv' /\ CursorInv'
  BY <1>1, <1>2 DEF CountInv, BufferInv, CursorInv
<1>5. Nt6Inv' /\ Nt5Inv' /\ IsInjective(list)'
  BY <1>1 DEF Nt6Inv, Nt5Inv
<1>6. OthersStopped'
  <2> SUFFICES ASSUME NEW i \in DOMAIN list, Running(list[i]), list[i] \in listedThen
               PROVE  list[i] \in Stubborn \cup {Client}
    BY <1>1, <1>2 DEF OthersStopped
  <2>1. snapshot # Null
    BY <1>1, EmptySeq, ThreadAssumption
  <2>2. listedThen \subseteq ended \cup Stubborn \cup {Client} \cup ToSet(buffer)
    BY <1>1, <1>2, <2>1, EmptyFacts DEF Nt5Inv
  <2>3. list[i] \in Threads
    BY ToSetFacts DEF TypeOK
  <2>4. list[i] \notin ended /\ (suspended[list[i]] = 0 \/ list[i] \in moving)
    BY DEF Running
  <2>5. list[i] \notin ToSet(buffer)
    BY <1>2, <2>3, <2>4 DEF CountInv
  <2> QED BY <2>2, <2>4, <2>5
<1> QED BY <1>3, <1>4, <1>5, <1>6

LEMMA GrowStep == IInv /\ Grow => IInv'
<1> SUFFICES ASSUME IInv, Grow PROVE IInv'
  OBVIOUS
<1> USE DEF IInv
<1>1. /\ pc = "grow" /\ pc' = "collect" /\ capacity' = 2 * capacity
      /\ UNCHANGED <<nt5, list, ended, lock, suspended, moving, handles, thread, prev, closePrev,
                     skipped, snapshot, room, listedThen, buffer, uses>>
  BY DEF Grow, others, effects, cursor
<1>2. /\ Listed' = Listed /\ ToSet(buffer)' = ToSet(buffer) /\ Stopping = {thread}
      /\ Stopping' = {thread} /\ Opened' = Opened /\ Passed' = Passed
  BY <1>1, SameList DEF Stopping, Opened
<1>3. capacity' \in Nat /\ Len(buffer) < capacity' /\ Len(buffer) <= capacity' /\ capacity' # 0
  <2>1. Len(buffer) \in Nat /\ Len(buffer) <= capacity /\ capacity \in Nat /\ capacity # 0
    BY LenProperties DEF TypeOK, BufferInv
  <2> QED BY <1>1, <2>1
<1>4. TypeOK'
  BY <1>1, <1>2, <1>3 DEF TypeOK
<1>5. CountInv' /\ BufferInv' /\ CursorInv'
  BY <1>1, <1>2, <1>3 DEF CountInv, BufferInv, CursorInv
<1>6. Nt6Inv' /\ OthersStopped' /\ IsInjective(list)'
  BY <1>1, <1>2 DEF Nt6Inv, OthersStopped
<1>7. Nt5Inv'
  BY <1>1, <1>2 DEF Nt5Inv
<1> QED BY <1>4, <1>5, <1>6, <1>7

LEMMA GrowFailsStep == IInv /\ GrowFails => IInv'
<1> SUFFICES ASSUME IInv, GrowFails PROVE IInv'
  OBVIOUS
<1> USE DEF IInv
<1>1. /\ pc = "grow" /\ pc' = "fail" /\ thread' = Null /\ prev' = Null /\ skipped' = FALSE
      /\ snapshot' = Null /\ closePrev = FALSE
      /\ suspended' = [suspended EXCEPT ![thread] = @ - 1]
      /\ moving' = moving \ {thread}
      /\ handles' = [handles EXCEPT ![thread] = @ - 1]
      /\ UNCHANGED <<nt5, list, ended, lock, closePrev, room, listedThen, buffer, capacity, uses>>
  BY DEF GrowFails, Restarted, Rest, others, CursorInv, TypeOK
<1>2. /\ Listed' = Listed /\ ToSet(buffer)' = ToSet(buffer) /\ Stopping = {thread}
      /\ Stopping' = {} /\ Opened = {thread} /\ Opened' = {}
  BY <1>1, SameList DEF Stopping, Opened
<1>3. thread \in Threads /\ thread \notin ToSet(buffer)
  BY <1>1, <1>2, ToSetFacts DEF CursorInv, BufferInv, TypeOK, Listed
<1>4. CountInv' /\ suspended' \in [Threads -> {0, 1}] /\ handles' \in [Threads -> {0, 1}]
  <2>1. /\ suspended \in [Threads -> {0, 1}] /\ handles \in [Threads -> {0, 1}]
        /\ \A u \in Threads : suspended[u] = IF u \in ToSet(buffer) \cup {thread} THEN 1 ELSE 0
        /\ \A u \in Threads : handles[u] = IF u \in ToSet(buffer) \cup {thread} THEN 1 ELSE 0
        /\ moving \subseteq {thread}
    BY <1>2 DEF TypeOK, CountInv
  <2>2. \A u \in Threads : suspended'[u] = IF u \in ToSet(buffer) THEN 1 ELSE 0
    BY <1>1, <1>3, <2>1
  <2>3. \A u \in Threads : handles'[u] = IF u \in ToSet(buffer) THEN 1 ELSE 0
    BY <1>1, <1>3, <2>1
  <2>4. suspended' \in [Threads -> {0, 1}] /\ handles' \in [Threads -> {0, 1}]
    BY <1>1, <1>3, <2>1, <2>2, <2>3
  <2> QED BY <1>1, <1>2, <2>1, <2>2, <2>3, <2>4 DEF CountInv
<1>5. TypeOK'
  <2>1. moving' \subseteq Listed
    BY <1>1 DEF TypeOK
  <2> QED BY <1>1, <1>2, <1>4, <2>1 DEF TypeOK
<1>6. BufferInv' /\ CursorInv'
  BY <1>1, <1>2 DEF BufferInv, CursorInv
<1>7. Nt6Inv' /\ Nt5Inv' /\ OthersStopped' /\ IsInjective(list)'
  BY <1>1 DEF Nt6Inv, Nt5Inv, OthersStopped
<1> QED BY <1>4, <1>5, <1>6, <1>7

LEMMA CollectStep == IInv /\ Collect => IInv'
<1> SUFFICES ASSUME IInv, Collect PROVE IInv'
  OBVIOUS
<1> USE DEF IInv
<1>1. /\ pc = "collect" /\ pc' = "next" /\ moving' = moving \ {thread} /\ closePrev = FALSE
      /\ buffer' = Append(buffer, thread)
      /\ UNCHANGED <<nt5, list, ended, lock, suspended, handles, thread, prev, closePrev, skipped,
                     snapshot, room, listedThen, capacity, uses>>
  BY DEF Collect, others, cursor, CursorInv, TypeOK
<1>2. Listed' = Listed /\ Passed' = Passed /\ Listed \subseteq Threads
  BY <1>1, SameList, ToSetFacts DEF TypeOK, Listed
<1>3. thread \in Listed \ {Client} /\ thread \notin ToSet(buffer)
      /\ Stopping = {thread} /\ Stopping' = {} /\ Opened = {thread} /\ Opened' = {}
  BY <1>1 DEF Stopping, Opened, BufferInv
<1>4. /\ buffer' \in Seq(Threads) /\ Len(buffer') = Len(buffer) + 1 /\ IsInjective(buffer')
      /\ ToSet(buffer)' = ToSet(buffer) \cup {thread}
  BY <1>1, <1>2, <1>3, AppendFacts DEF TypeOK, BufferInv
<1>5. Len(buffer') <= capacity
  <2>1. Len(buffer) \in Nat /\ Len(buffer) < capacity /\ capacity \in Nat
    BY <1>1, LenProperties DEF TypeOK, BufferInv
  <2> QED BY <1>4, <2>1
<1>6. TypeOK'
  <2>1. moving' \subseteq Listed
    BY <1>1 DEF TypeOK
  <2> QED BY <1>1, <1>2, <1>4, <1>5, <2>1 DEF TypeOK
<1>7. CountInv' /\ BufferInv'
  BY <1>1, <1>2, <1>3, <1>4 DEF CountInv, BufferInv
<1>8. Nt6Inv'
  <2>1. ~nt5 => thread \in Passed
    <3>1. ~nt5 => prev = thread
      BY <1>1 DEF Nt6Inv
    <3>2. thread # Null /\ thread \in UpTo(thread)
      BY <1>2, <1>3, UpToFacts, ThreadAssumption DEF TypeOK
    <3> QED BY <3>1, <3>2 DEF Passed
  <2> QED BY <1>1, <1>2, <1>3, <1>4, <2>1 DEF Nt6Inv
<1>9. Nt5Inv'
  BY <1>1, <1>2, <1>3, <1>4 DEF Nt5Inv
<1>10. CursorInv'
  <2>1. prev # Null => prev \in ToSet(buffer)'
    <3>1. CASE nt5
      BY <3>1 DEF Nt5Inv
    <3>2. CASE ~nt5
      BY <1>1, <1>4, <3>2 DEF Nt6Inv
    <3> QED BY <3>1, <3>2
  <2> QED BY <1>1, <2>1 DEF CursorInv
<1>11. OthersStopped' /\ IsInjective(list)'
  BY <1>1 DEF OthersStopped
<1> QED BY <1>6, <1>7, <1>8, <1>9, <1>10, <1>11

\* The heap is used by an open transaction, and it ends.
LEMMA OpenStep == IInv /\ (UseHeap \/ HeapUsed \/ End) => IInv'
<1> SUFFICES ASSUME IInv, UseHeap \/ HeapUsed \/ End PROVE IInv'
  OBVIOUS
<1> USE DEF IInv
<1>1. /\ pc \in {"open", "heap"} /\ pc' \in {"open", "heap", "resume"}
      /\ uses' = uses \/ (uses < MaxUses /\ uses' = uses + 1)
      /\ UNCHANGED <<nt5, list, ended, lock, suspended, moving, handles, thread, prev, closePrev,
                     skipped, snapshot, room, listedThen, buffer, capacity>>
  BY DEF UseHeap, HeapUsed, End, others, effects, cursor
<1>2. /\ Listed' = Listed /\ ToSet(buffer)' = ToSet(buffer) /\ Stopping = {} /\ Stopping' = {}
      /\ Opened' = Opened /\ \A t : Running(t)' <=> Running(t)
  BY <1>1, SameList DEF Stopping, Opened
<1>3. uses' \in 0..MaxUses
  BY <1>1, ThreadAssumption DEF TypeOK
<1>4. TypeOK'
  BY <1>1, <1>2, <1>3 DEF TypeOK
<1>5. CountInv' /\ BufferInv' /\ CursorInv'
  BY <1>1, <1>2 DEF CountInv, BufferInv, CursorInv
<1>6. Nt6Inv' /\ Nt5Inv' /\ IsInjective(list)'
  BY <1>1, <1>2 DEF Nt6Inv, Nt5Inv
<1>7. OthersStopped'
  BY <1>1, <1>2 DEF OthersStopped
<1> QED BY <1>4, <1>5, <1>6, <1>7

LEMMA ResumeFirstStep == IInv /\ pc \in {"fail", "resume"} /\ ResumeFirst => IInv'
<1> SUFFICES ASSUME IInv, pc \in {"fail", "resume"}, ResumeFirst PROVE IInv'
  OBVIOUS
<1> USE DEF IInv
<1>1. PICK t : t = Head(buffer)
  OBVIOUS
<1>2. /\ buffer # << >> /\ buffer' = Tail(buffer)
      /\ suspended' = [suspended EXCEPT ![t] = @ - 1]
      /\ moving' = moving \ {t}
      /\ handles' = [handles EXCEPT ![t] = @ - 1]
      /\ UNCHANGED <<nt5, list, ended, lock, pc, thread, prev, closePrev, skipped, snapshot, room, listedThen,
                     capacity, uses>>
  BY <1>1 DEF ResumeFirst, Restarted, others, cursor
<1>3. /\ t \in Threads /\ t \notin ToSet(buffer)' /\ ToSet(buffer) = {t} \cup ToSet(buffer)'
      /\ buffer' \in Seq(Threads) /\ IsInjective(buffer') /\ Len(buffer') = Len(buffer) - 1
  BY <1>1, <1>2, TailFacts DEF TypeOK, BufferInv
<1>4. /\ Listed' = Listed /\ Stopping = {} /\ Stopping' = {} /\ Opened = {} /\ Opened' = {}
  BY <1>2, SameList DEF Stopping, Opened, CursorInv
<1>5. CountInv' /\ suspended' \in [Threads -> {0, 1}] /\ handles' \in [Threads -> {0, 1}]
  <2>1. /\ suspended \in [Threads -> {0, 1}] /\ handles \in [Threads -> {0, 1}]
        /\ \A u \in Threads : suspended[u] = IF u \in ToSet(buffer) THEN 1 ELSE 0
        /\ \A u \in Threads : handles[u] = IF u \in ToSet(buffer) THEN 1 ELSE 0
        /\ moving \subseteq {}
    BY <1>4 DEF TypeOK, CountInv
  <2>2. \A u \in Threads : suspended'[u] = IF u \in ToSet(buffer)' THEN 1 ELSE 0
    BY <1>2, <1>3, <2>1
  <2>3. \A u \in Threads : handles'[u] = IF u \in ToSet(buffer)' THEN 1 ELSE 0
    BY <1>2, <1>3, <2>1
  <2>4. suspended' \in [Threads -> {0, 1}] /\ handles' \in [Threads -> {0, 1}]
    BY <1>2, <1>3, <2>1, <2>2, <2>3
  <2> QED BY <1>2, <1>4, <2>1, <2>2, <2>3, <2>4 DEF CountInv
<1>6. TypeOK'
  <2>1. Len(buffer') <= capacity
    <3>1. Len(buffer) \in Nat /\ Len(buffer) <= capacity /\ capacity \in Nat
      BY LenProperties DEF TypeOK
    <3> QED BY <1>3, <3>1
  <2>2. moving' \subseteq Listed
    BY <1>2 DEF TypeOK
  <2> QED BY <1>2, <1>3, <1>4, <1>5, <2>1, <2>2 DEF TypeOK
<1>7. BufferInv' /\ CursorInv'
  BY <1>2, <1>3, <1>4 DEF BufferInv, CursorInv
<1>8. Nt6Inv' /\ OthersStopped' /\ IsInjective(list)'
  BY <1>2 DEF Nt6Inv, OthersStopped
<1>9. Nt5Inv'
  BY <1>2 DEF Nt5Inv, CursorInv
<1> QED BY <1>5, <1>6, <1>7, <1>8, <1>9

LEMMA FreeBufferStep == IInv /\ pc \in {"fail", "resume"} /\ FreeBuffer => IInv'
<1> SUFFICES ASSUME IInv, pc \in {"fail", "resume"}, FreeBuffer PROVE IInv'
  OBVIOUS
<1> USE DEF IInv
<1>1. /\ buffer = << >> /\ capacity' = Room /\ pc' = "idle" /\ Room \in Nat \ {0}
      /\ UNCHANGED <<nt5, list, ended, lock, suspended, moving, handles, thread, prev, closePrev,
                     skipped, snapshot, room, listedThen, buffer, uses>>
  BY ThreadAssumption DEF FreeBuffer, others, effects, cursor
<1>2. /\ Listed' = Listed /\ ToSet(buffer)' = ToSet(buffer) /\ Stopping = {} /\ Stopping' = {}
      /\ Opened' = Opened /\ Len(buffer) = 0
  BY <1>1, SameList, EmptyFacts DEF Stopping, Opened, CursorInv
<1>3. TypeOK'
  <2>1. Len(buffer') <= capacity'
    BY <1>1, <1>2
  <2> QED BY <1>1, <1>2, <2>1 DEF TypeOK
<1>4. CountInv' /\ BufferInv' /\ CursorInv'
  BY <1>1, <1>2 DEF CountInv, BufferInv, CursorInv
<1>5. Nt6Inv' /\ OthersStopped' /\ IsInjective(list)'
  BY <1>1 DEF Nt6Inv, OthersStopped
<1>6. Nt5Inv'
  BY <1>1 DEF Nt5Inv, CursorInv
<1> QED BY <1>3, <1>4, <1>5, <1>6

-----------------------------------------------------------------------------
(* The other threads.                                                      *)

\* Who runs while a transaction is open can be told from its place in the list.
LEMMA OthersFacts ==
  ASSUME IInv, pc \in {"open", "heap"}, NEW i \in DOMAIN list, Running(list[i]),
         list[i] # Client, \A j \in 1..i : list[j] \notin Stubborn, ~nt5
  PROVE  FALSE
<1>1. list[i] \notin Stubborn
  <2>1. i \in 1..i
    BY LenProperties DEF IInv, TypeOK
  <2> QED BY <2>1
<1> QED BY <1>1 DEF IInv, OthersStopped

LEMMA CreateStep ==
  ASSUME IInv, NEW t \in Threads, NEW u \in Threads, t # Client, Running(t), Create(t, u),
         UNCHANGED <<nt5, effects, pc, cursor, buffer, capacity, uses>>
  PROVE  IInv'
<1> USE DEF IInv
<1>1. /\ list' = Append(list, u) /\ u \in Threads \ Listed
      /\ UNCHANGED <<nt5, ended, lock, suspended, moving, handles, pc, thread, prev, closePrev, skipped,
                     snapshot, room, listedThen, buffer, capacity, uses>>
  BY DEF Create, effects, cursor
<1>2. list \in Seq(Threads) /\ IsInjective(list)
  BY DEF TypeOK
<1>3. /\ list' \in Seq(Threads) /\ IsInjective(list') /\ Listed' = Listed \cup {u}
      /\ \A v \in Listed : UpTo(v)' = UpTo(v)
  BY <1>1, <1>2, CreateFacts
<1>4. ToSet(buffer)' = ToSet(buffer) /\ Stopping' = Stopping /\ Opened' = Opened
  BY <1>1 DEF Stopping, Opened
<1>5. TypeOK'
  BY <1>1, <1>3 DEF TypeOK
<1>6. CountInv' /\ BufferInv' /\ CursorInv'
  BY <1>1, <1>3, <1>4 DEF CountInv, BufferInv, CursorInv
<1>7. Nt6Inv'
  <2> SUFFICES ASSUME ~nt5, pc \in {"next", "consider", "grow", "collect"} PROVE Nt6Inv'
    BY <1>1 DEF Nt6Inv
  <2>1. prev \in Listed \cup {Null} /\ thread' = thread /\ prev' = prev
    BY <1>1 DEF Nt6Inv
  <2>2. Passed' = Passed
    BY <1>3, <2>1 DEF Passed
  <2>3. pc = "consider" => thread \in Listed /\ UpTo(thread') = UpTo(thread)
    BY <2>1 DEF CursorInv
  <2>4. pc = "consider" => UpTo(thread)' = UpTo(thread)
    BY <1>1, <1>3, <2>1, <2>3 DEF UpTo, Place
  <2> QED BY <1>1, <1>3, <1>4, <2>2, <2>4 DEF Nt6Inv
<1>8. Nt5Inv'
  BY <1>1, <1>3, <1>4 DEF Nt5Inv
<1>9. OthersStopped'
  <2>1. /\ \A j \in 1..Len(list) : list'[j] = list[j]
        /\ list'[Len(list) + 1] = u
        /\ DOMAIN list' = 1..Len(list) + 1 /\ DOMAIN list = 1..Len(list) /\ Len(list) \in Nat
    BY <1>1, <1>2, AppendFacts, LenProperties
  <2> SUFFICES ASSUME pc \in {"open", "heap"}, NEW i \in 1..Len(list) + 1,
                      list'[i] \notin ended, suspended[list'[i]] = 0 \/ list'[i] \in moving
               PROVE  \/ list'[i] \in Stubborn \cup {Client}
                      \/ /\ list'[i] \notin listedThen
                         /\ nt5 \/ \E j \in 1..i : list'[j] \in Stubborn
    BY <1>1, <2>1 DEF OthersStopped, Running
  <2>2. CASE i \in 1..Len(list)
    <3>1. Running(list[i])
      <4>1. list'[i] = list[i] /\ list[i] \in Listed
        BY <2>1, <2>2 DEF Listed, ToSet
      <4> QED BY <1>1, <4>1 DEF Running
    <3>2. \A j \in 1..i : list'[j] = list[j]
      BY <2>1, <2>2
    <3> QED BY <1>1, <2>1, <2>2, <3>1, <3>2 DEF OthersStopped
  <2>3. CASE i = Len(list) + 1
    <3>1. list'[i] = u /\ u \notin listedThen
      BY <1>1, <2>1, <2>3 DEF TypeOK
    <3>2. PICK k \in 1..Len(list) : list[k] = t
      BY <2>1 DEF Running, Listed, ToSet
    <3>3. ~nt5 => \E j \in 1..k : list[j] \in Stubborn
      BY <2>1, <3>2, OthersFacts
    <3>4. 1..k \subseteq 1..i /\ \A j \in 1..k : list'[j] = list[j]
      BY <2>1, <2>3, <3>2
    <3> QED BY <3>1, <3>3, <3>4
  <2> QED BY <2>1, <2>2, <2>3
<1> QED BY <1>3, <1>5, <1>6, <1>7, <1>8, <1>9

LEMMA OtherStep == ASSUME IInv, NEW t \in Threads, Other(t) PROVE IInv'
<1> USE DEF IInv
<1>1. CASE \E u \in Threads : Create(t, u)
  BY <1>1, CreateStep DEF Other
<1>2. CASE Exit(t) \/ Lock(t) \/ Unlock(t)
  <2>1. /\ ended \subseteq ended' /\ ended' \subseteq Listed /\ lock' \in Threads \cup {Null}
        /\ UNCHANGED <<nt5, list, suspended, moving, handles, pc, thread, prev, closePrev, skipped,
                       snapshot, room, listedThen, buffer, capacity, uses>>
    BY <1>2 DEF Other, Exit, Lock, Unlock, Running, effects, cursor, TypeOK
  <2>2. /\ Listed' = Listed /\ ToSet(buffer)' = ToSet(buffer) /\ Stopping' = Stopping
        /\ Opened' = Opened /\ UpTo(thread)' = UpTo(thread) /\ Passed' = Passed
    BY <2>1 DEF Listed, Stopping, Opened, UpTo, Place, Passed
  <2>3. \A v : Running(v)' => Running(v)
    BY <2>1, <2>2 DEF Running
  <2>4. TypeOK'
    BY <2>1, <2>2 DEF TypeOK
  <2>5. CountInv' /\ BufferInv' /\ CursorInv'
    BY <2>1, <2>2 DEF CountInv, BufferInv, CursorInv
  <2>6. Nt6Inv'
    BY <2>1, <2>2 DEF Nt6Inv
  <2>7. Nt5Inv'
    BY <2>1, <2>2 DEF Nt5Inv
  <2>8. OthersStopped' /\ IsInjective(list)'
    BY <2>1, <2>3 DEF OthersStopped
  <2> QED BY <2>4, <2>5, <2>6, <2>7, <2>8
<1> QED BY <1>1, <1>2 DEF Other

LEMMA StutterStep == IInv /\ UNCHANGED vars => IInv'
<1> SUFFICES ASSUME IInv, UNCHANGED vars PROVE IInv'
  OBVIOUS
<1>1. UNCHANGED <<nt5, list, ended, lock, suspended, moving, handles, pc, thread, prev, closePrev,
                  skipped, snapshot, room, listedThen, buffer, capacity, uses>>
  BY DEF vars, others, effects, cursor
<1>2. /\ Listed' = Listed /\ ToSet(buffer)' = ToSet(buffer) /\ Stopping' = Stopping
      /\ Opened' = Opened /\ UpTo(thread)' = UpTo(thread) /\ Passed' = Passed
      /\ \A t : Running(t)' <=> Running(t)
  BY <1>1, SameList DEF Stopping, Opened, UpTo, Place
<1>3. TypeOK'
  BY <1>1, <1>2 DEF IInv, TypeOK
<1>4. CountInv' /\ BufferInv' /\ CursorInv'
  BY <1>1, <1>2 DEF IInv, CountInv, BufferInv, CursorInv
<1>5. Nt6Inv'
  BY <1>1, <1>2 DEF IInv, Nt6Inv
<1>6. Nt5Inv'
  BY <1>1, <1>2 DEF IInv, Nt5Inv
<1>7. OthersStopped' /\ IsInjective(list)'
  BY <1>1, <1>2 DEF IInv, OthersStopped
<1> QED BY <1>3, <1>4, <1>5, <1>6, <1>7 DEF IInv

LEMMA InvNext == IInv /\ [Next]_vars => IInv'
<1> SUFFICES ASSUME IInv, [Next]_vars PROVE IInv'
  OBVIOUS
<1>1. CASE Begin
  BY <1>1, BeginStep
<1>2. CASE UseHeap \/ HeapUsed \/ End
  BY <1>2, OpenStep
<1>3. CASE GetNext
  BY <1>3, GetNextStep
<1>4. CASE NoNext
  BY <1>4, NoNextStep
<1>5. CASE SkipCurrent \/ PassOver
  BY <1>5, StepNextStep
<1>6. CASE Suspend
  BY <1>6, SuspendStep
<1>7. CASE TakeSnapshot
  BY <1>7, TakeSnapshotStep
<1>8. CASE AllocSnapshot \/ DropSnapshot
  BY <1>8, AllocSnapshotStep
<1>9. CASE PassOverListed
  BY <1>9, PassOverListedStep
<1>10. CASE SuspendListed
  BY <1>10, SuspendListedStep
<1>11. CASE SnapshotDone
  BY <1>11, SnapshotDoneStep
<1>12. CASE Grow
  BY <1>12, GrowStep
<1>13. CASE GrowFails
  BY <1>13, GrowFailsStep
<1>14. CASE Collect
  BY <1>14, CollectStep
<1>15. CASE UndoSuspend \/ Resume
  BY <1>15, ResumeFirstStep, FreeBufferStep DEF UndoSuspend, Resume
<1>16. ASSUME NEW t \in Threads, Other(t) PROVE IInv'
  BY <1>16, OtherStep
<1>17. CASE UNCHANGED vars
  BY <1>17, StutterStep
<1> QED BY <1>1, <1>2, <1>3, <1>4, <1>5, <1>6, <1>7, <1>8, <1>9, <1>10, <1>11, <1>12, <1>13,
           <1>14, <1>15, <1>16, <1>17 DEF Next, Call

-----------------------------------------------------------------------------

\* The bookkeeping of the enumeration holds at every step of detour_thread_suspend and
\* detour_thread_resume: each thread in the buffer, and the one being stopped, is
\* suspended once with one open handle, and nobody that was passed was missed.
THEOREM SuspensionIsExact == Spec => []IInv
<1>1. Init => IInv
  BY InvInit
<1>2. IInv /\ [Next]_vars => IInv'
  BY InvNext
<1> QED BY <1>1, <1>2, PTL DEF Spec

\* While a transaction is open nobody else runs, but for the threads that cannot be
\* suspended and those started too late, for either way to find the threads.
THEOREM NobodyElseRuns == Spec => []OthersStopped
<1>1. IInv => OthersStopped
  BY DEF IInv
<1> QED BY <1>1, SuspensionIsExact, PTL

\* Once detour_thread_resume, or detour_thread_suspend after a failure, is through, no
\* thread is left suspended and no handle open, and the system is only ever given an
\* open handle to go on from.
THEOREM NothingIsLeftOver == Spec => []NothingHeldBetween
<1>1. IInv => NothingHeldBetween
  <2> SUFFICES ASSUME IInv PROVE NothingHeldBetween
    OBVIOUS
  <2> USE DEF IInv
  <2>1. CASE pc = "idle"
    <3>1. buffer = << >> /\ ToSet(buffer) = {} /\ snapshot = Null
      BY <2>1, EmptyFacts DEF BufferInv, CursorInv
    <3>2. closePrev \in BOOLEAN /\ ~closePrev
      BY <2>1 DEF TypeOK, CursorInv
    <3>3. Stopping = {} /\ Opened = {}
      BY <2>1, <3>2 DEF Stopping, Opened
    <3> QED BY <2>1, <3>1, <3>3 DEF CountInv, NothingHeldBetween
  <2>2. CASE pc = "next" /\ prev # Null
    <3>1. prev \in Threads
      BY <2>2 DEF TypeOK
    <3>2. prev \in ToSet(buffer) \cup Opened
      BY <2>2 DEF CursorInv, Opened
    <3> QED BY <2>2, <3>1, <3>2 DEF CountInv, NothingHeldBetween
  <2> QED BY <2>1, <2>2 DEF NothingHeldBetween
<1> QED BY <1>1, SuspensionIsExact, PTL
=============================================================================
