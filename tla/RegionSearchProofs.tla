------------------------- MODULE RegionSearchProofs -------------------------
(***************************************************************************)
(* Proofs about RegionSearch, for an address space of any size, with any   *)
(* distances, places of Ntdll, targets, and layouts of memory.             *)
(***************************************************************************)
EXTENDS RegionSearchInv, SequenceTheorems, FiniteSetTheorems, WellFoundedInduction, TLAPS

-----------------------------------------------------------------------------
(* Numbers.                                                                *)

\* Every set of natural numbers that is not empty has a least element.
LEMMA Least ==
  ASSUME NEW S \in SUBSET Nat, S # {}
  PROVE  \E m \in S : \A k \in S : m <= k
<1>1. IsWellFoundedOn({ss \in Nat \X Nat : ss[1] < ss[2]}, Nat)
  BY NatLessThanWellFounded DEF OpToRel
<1>2. PICK m \in S : \A k \in S : ~ (<<k, m>> \in {ss \in Nat \X Nat : ss[1] < ss[2]})
  BY <1>1, WFMin
<1>3. ASSUME NEW k \in S PROVE m <= k
  <2>1. <<k, m>> \in Nat \X Nat /\ k \in Nat /\ m \in Nat
    OBVIOUS
  <2>2. ~(k < m)
    BY <1>2, <2>1
  <2> QED BY <2>1, <2>2
<1> QED BY <1>3

LEMMA Sizes ==
  /\ Minimum \in Nat \ {0} /\ Maximum \in Nat \ {0} /\ Gigabyte \in Nat \ {0}
  /\ Slack \in Nat \ {0} /\ Stride \in Nat \ {0}
  /\ SystemLowest \in Nat \ {0} /\ SystemSize \in Nat \ {0}
  /\ Slack <= Gigabyte /\ Gigabyte <= SystemSize /\ SystemLowest + SystemSize <= Maximum + 1
  /\ Minimum % 2 = 0 /\ (Maximum + 1) % 2 = 0 /\ Gigabyte % 2 = 0 /\ Stride % 2 = 0
  /\ SystemLowest % 2 = 0 /\ SystemSize % 2 = 0
  /\ RegionSize = 2
  BY SearchAssumption DEF RegionSize

LEMMA RoundFacts ==
  ASSUME NEW a \in Int
  PROVE  /\ RoundDown(a) \in Int /\ RoundDown(a) % 2 = 0
         /\ RoundDown(a) <= a /\ a <= RoundDown(a) + 1
         /\ RoundUp(a) \in Int /\ RoundUp(a) % 2 = 0
         /\ a <= RoundUp(a) /\ RoundUp(a) <= a + 1
  BY DEF RoundDown, RoundUp, RegionSize

LEMMA EvenFacts ==
  ASSUME NEW a \in Int, NEW b \in Int, a % 2 = 0, b % 2 = 0
  PROVE  /\ (a + b) % 2 = 0 /\ (a - b) % 2 = 0
         /\ a < b => a + 2 <= b
         /\ a <= b + 1 => a <= b
  OBVIOUS

\* What is aligned is not changed by rounding.
LEMMA RoundAligned ==
  ASSUME NEW a \in Int, a % 2 = 0
  PROVE  RoundDown(a) = a /\ RoundUp(a) = a /\ RoundUp(a + 1) = a + 2 /\ RoundDown(a - 2) = a - 2
  BY DEF RoundDown, RoundUp, RegionSize

LEMMA BlockFacts ==
  /\ Blocks \subseteq Nat
  /\ \A b \in Blocks : Minimum <= b /\ b <= Maximum /\ b % 2 = 0
  /\ \A a \in Minimum..Maximum : a % 2 = 0 => a \in Blocks
  BY Sizes DEF Blocks

-----------------------------------------------------------------------------
(* What is kept for system DLLs.                                           *)

LEMMA ReservedSize ==
  ASSUME TypeOK
  PROVE  Cardinality(Reserved) = Gigabyte
<1> DEFINE upper == IF ntdll >= SystemLowest THEN ntdll - 1 ELSE Maximum
           lower == upper - Gigabyte + 1
<1>1. ntdll \in Int
  BY SearchAssumption DEF TypeOK
<1>2. upper \in Int /\ lower \in Int
  BY <1>1, Sizes
<1>3. CASE ntdll >= SystemLowest /\ lower < SystemLowest
  <2> DEFINE A == SystemLowest..upper
             B == lower + SystemSize..SystemLowest + SystemSize - 1
  <2>1. IsFiniteSet(A) /\ Cardinality(A) = upper - SystemLowest + 1
    <3>1. SystemLowest <= upper + 1 /\ SystemLowest \in Int
      BY <1>1, <1>3, Sizes
    <3> HIDE DEF upper
    <3> QED BY <1>2, <3>1, FS_Interval
  <2>2. IsFiniteSet(B) /\ Cardinality(B) = SystemLowest - lower
    <3>1. lower + SystemSize \in Int /\ SystemLowest + SystemSize - 1 \in Int
      BY <1>2, Sizes
    <3> HIDE DEF lower
    <3>2. /\ ~(lower + SystemSize > SystemLowest + SystemSize - 1)
          /\ (SystemLowest + SystemSize - 1) - (lower + SystemSize) + 1 = SystemLowest - lower
      BY <1>2, <1>3, Sizes
    <3> QED BY <3>1, <3>2, FS_Interval
  <2>3. A \cap B = {}
    BY <1>1, <1>2, Sizes
  <2>4. Reserved = A \cup B
    BY <1>3 DEF Reserved
  <2> HIDE DEF A, B
  <2>5. Cardinality(Reserved) = (upper - SystemLowest + 1) + (SystemLowest - lower)
    <3>1. Cardinality(A \cap B) = 0
      BY <2>3, FS_EmptySet
    <3>2. Cardinality(A) \in Int /\ Cardinality(B) \in Int
      BY <2>1, <2>2, FS_CardinalityType
    <3>3. Cardinality(A \cup B) = Cardinality(A) + Cardinality(B)
      <4>1. Cardinality(A \cup B) = Cardinality(A) + Cardinality(B) - Cardinality(A \cap B)
        BY <2>1, <2>2, FS_Union
      <4> QED BY <3>1, <3>2, <4>1
    <3> QED BY <2>1, <2>2, <2>4, <3>3
  <2> QED BY <1>2, <2>5, Sizes
<1>4. CASE ~(ntdll >= SystemLowest /\ lower < SystemLowest)
  <2>1. Reserved = lower..upper
    BY <1>4 DEF Reserved
  <2>2. ~(lower > upper) /\ upper - lower + 1 = Gigabyte
    BY <1>2, Sizes
  <2> HIDE DEF lower, upper
  <2> QED BY <1>2, <2>1, <2>2, FS_Interval
<1> QED BY <1>3, <1>4

\* It begins and ends between regions.
LEMMA ReservedFacts ==
  ASSUME TypeOK
  PROVE  /\ Reserved \subseteq Int
         /\ \A a \in Int : a % 2 = 0 /\ a \notin Reserved => a + 1 \notin Reserved
<1>1. ntdll \in Int /\ ntdll % 2 = 0
  <2>1. ntdll \in {a \in Minimum..Maximum : a % RegionSize = 0}
    BY SearchAssumption DEF TypeOK
  <2> QED BY <2>1, Sizes
<1> DEFINE upper == IF ntdll >= SystemLowest THEN ntdll - 1 ELSE Maximum
           lower == upper - Gigabyte + 1
<1>2. upper \in Int /\ (upper + 1) % 2 = 0
  BY <1>1, Sizes
<1> HIDE DEF upper
<1>3. lower \in Int /\ lower % 2 = 0
  BY <1>2, Sizes
<1> HIDE DEF lower
<1>4. \/ Reserved = lower..upper
      \/ Reserved = SystemLowest..upper \cup lower + SystemSize..SystemLowest + SystemSize - 1
  BY DEF Reserved, lower, upper
<1>5. \A x, y, a \in Int : x % 2 = 0 /\ (y + 1) % 2 = 0 /\ a % 2 = 0 /\ a + 1 \in x..y => a \in x..y
  OBVIOUS
<1>6. ASSUME NEW a \in Int, a % 2 = 0, a + 1 \in Reserved PROVE a \in Reserved
  <2>1. CASE Reserved = lower..upper
    BY <1>2, <1>3, <1>5, <1>6, <2>1
  <2>2. CASE Reserved = SystemLowest..upper \cup lower + SystemSize..SystemLowest + SystemSize - 1
    <3>1. /\ SystemLowest \in Int /\ lower + SystemSize \in Int
          /\ SystemLowest + SystemSize - 1 \in Int
          /\ (lower + SystemSize) % 2 = 0 /\ (SystemLowest + SystemSize - 1 + 1) % 2 = 0
      BY <1>3, Sizes
    <3> QED BY <1>2, <1>5, <1>6, <2>2, <3>1, Sizes
  <2> QED BY <1>4, <2>1, <2>2
<1>7. Reserved \subseteq Int
  BY <1>2, <1>3, <1>4, Sizes
<1> QED BY <1>6, <1>7

-----------------------------------------------------------------------------
(* The target, the bounds, and the windows.                                *)

LEMMA RequestFacts ==
  ASSUME TypeOK
  PROVE  /\ Target \in Minimum..Maximum
         /\ Jump \in Minimum..Maximum \cup {Null} /\ Null \notin Int
         /\ Jump # Null => Distance(Target, Jump) <= 2 * Gigabyte
         /\ Start \in Blocks /\ Start \in used /\ Start <= Target /\ Target <= Start + 1
<1>1. /\ request \in (Minimum..Maximum) \X (Minimum..Maximum \cup {Null}) /\ Null \notin Int
      /\ request[2] # Null => Distance(request[1], request[2]) <= 2 * Gigabyte
  BY SearchAssumption DEF TypeOK
<1>2. Target \in Minimum..Maximum /\ Jump \in Minimum..Maximum \cup {Null}
  BY <1>1 DEF Target, Jump
<1>3. Start \in Int /\ Start % 2 = 0 /\ Start <= Target /\ Target <= Start + 1
  BY <1>2, Sizes, RoundFacts DEF Start
<1>4. Minimum <= Start
  <2>1. Minimum \in Int /\ Minimum % 2 = 0 /\ Minimum <= Start + 1
    BY <1>2, <1>3, Sizes
  <2> QED BY <1>3, <2>1, EvenFacts
<1>5. Start \in Blocks
  BY <1>2, <1>3, <1>4, Sizes, BlockFacts
<1>6. Start \in used
  BY DEF TypeOK, Images
<1> QED BY <1>1, <1>2, <1>3, <1>5, <1>6 DEF Target, Jump

\* Whatever lies between the bounds is less than 2 GB from the target, and from where
\* the target jumps on that side.
LEMMA BoundFacts ==
  ASSUME TypeOK
  PROVE  /\ Lo \in Int /\ Minimum <= Lo /\ Hi \in Int /\ Hi <= Maximum
         /\ \A a \in Int : Lo < a => Target - a < 2 * Gigabyte
         /\ \A a \in Int : a <= Hi => a - Target < 2 * Gigabyte
         /\ Jump # Null /\ Jump >= Target => \A a \in Int : Lo < a => Jump - a < 2 * Gigabyte
         /\ Jump # Null /\ Jump < Target => \A a \in Int : a <= Hi => a - Jump < 2 * Gigabyte
<1>1. /\ Target \in Int /\ Minimum <= Target /\ Target <= Maximum
      /\ Jump # Null => Jump \in Int /\ Minimum <= Jump /\ Jump <= Maximum
  BY RequestFacts, Sizes
<1>2. ASSUME NEW t \in Int, Minimum <= t, t <= Maximum
      PROVE  /\ Below(t) \in Int /\ Minimum <= Below(t)
             /\ \A a \in Int : Below(t) < a => t - a < 2 * Gigabyte
             /\ Above(t) \in Int /\ Above(t) <= Maximum
             /\ \A a \in Int : a <= Above(t) => a - t < 2 * Gigabyte
  <2>1. Below(t) \in Int /\ Minimum <= Below(t)
    BY <1>2, Sizes DEF Below
  <2>2. \A a \in Int : Below(t) < a => t - a < 2 * Gigabyte
    BY <1>2, Sizes DEF Below
  <2>3. Above(t) \in Int /\ Above(t) <= Maximum
    BY <1>2, Sizes DEF Above
  <2>4. \A a \in Int : a <= Above(t) => a - t < 2 * Gigabyte
    BY <1>2, Sizes DEF Above
  <2> QED BY <2>1, <2>2, <2>3, <2>4
<1>3. CASE Jump # Null /\ Jump >= Target
  <2>1. Lo = Below(Jump) /\ Hi = Above(Target)
    BY <1>1, <1>3 DEF Lo, Hi
  <2>2. \A a \in Int : Jump - a < 2 * Gigabyte => Target - a < 2 * Gigabyte
    BY <1>1, <1>3, Sizes
  <2> QED BY <1>1, <1>2, <1>3, <2>1, <2>2
<1>4. CASE Jump # Null /\ Jump < Target
  <2>1. Lo = Below(Target) /\ Hi = Above(Jump)
    BY <1>1, <1>4 DEF Lo, Hi
  <2>2. \A a \in Int : a - Jump < 2 * Gigabyte => a - Target < 2 * Gigabyte
    BY <1>1, <1>4, Sizes
  <2> QED BY <1>1, <1>2, <1>4, <2>1, <2>2
<1>5. CASE Jump = Null
  <2>1. Lo = Below(Target) /\ Hi = Above(Target)
    BY <1>5 DEF Lo, Hi
  <2> QED BY <1>1, <1>2, <1>5, <2>1
<1> QED BY <1>1, <1>3, <1>4, <1>5

\* All that a search can be given.
Searches == {FarBelow, FarAbove, Up(Start - Gigabyte, Start), Down(Start, Start + Gigabyte),
             AnyBelow, AnyAbove}

LEMMA WindowsFacts ==
  /\ Windows \in Seq(Searches)
  /\ Len(Windows) \in Nat /\ Len(Windows) >= 3
  /\ Windows[Len(Windows)] = AnyAbove
  /\ Windows[Len(Windows) - 1] = AnyBelow
<1> DEFINE A == IF Start > Gigabyte THEN <<FarBelow>> ELSE << >>
           B == <<FarAbove>>
           C == IF Start > Gigabyte THEN <<Up(Start - Gigabyte, Start)>> ELSE << >>
           D == <<Down(Start, Start + Gigabyte), AnyBelow, AnyAbove>>
<1>1. A \in Seq(Searches) /\ B \in Seq(Searches) /\ C \in Seq(Searches)
  <2>1. \A w \in Searches : <<w>> \in Seq(Searches)
    OBVIOUS
  <2>2. << >> \in Seq(Searches)
    BY EmptySeq
  <2>3. FarBelow \in Searches /\ FarAbove \in Searches /\ Up(Start - Gigabyte, Start) \in Searches
    BY DEF Searches
  <2> QED BY <2>1, <2>2, <2>3
<1>2. D \in Seq(Searches) /\ Len(D) = 3 /\ D[2] = AnyBelow /\ D[3] = AnyAbove
  <2>1. \A u, v, w \in Searches : <<u, v, w>> \in Seq(Searches) /\ Len(<<u, v, w>>) = 3
    OBVIOUS
  <2>2. Down(Start, Start + Gigabyte) \in Searches /\ AnyBelow \in Searches /\ AnyAbove \in Searches
    BY DEF Searches
  <2> QED BY <2>1, <2>2
<1>3. Len(B) = 1
  OBVIOUS
<1>4. Windows = ((A \o B) \o C) \o D
  BY DEF Windows
<1> HIDE DEF A, B, C, D
<1>5. A \o B \in Seq(Searches)
  BY <1>1, ConcatProperties
<1> DEFINE F == A \o B
<1> HIDE DEF F
<1>6. F \o C \in Seq(Searches)
  <2>1. F \in Seq(Searches)
    BY <1>5 DEF F
  <2> QED BY <1>1, <2>1, ConcatProperties
<1> DEFINE E == F \o C
<1> HIDE DEF E
<1>7. E \in Seq(Searches) /\ Len(E) \in Nat /\ Windows = E \o D
  <2>1. E \in Seq(Searches) /\ Windows = E \o D
    BY <1>4, <1>6 DEF E, F
  <2> QED BY <2>1, LenProperties
<1>8. /\ E \o D \in Seq(Searches) /\ Len(E \o D) = Len(E) + 3
      /\ \A i \in 1..Len(E) + 3 : (E \o D)[i] = IF i <= Len(E) THEN E[i] ELSE D[i - Len(E)]
  <2>1. /\ E \o D \in Seq(Searches) /\ Len(E \o D) = Len(E) + Len(D)
        /\ \A i \in 1..Len(E) + Len(D) : (E \o D)[i] = IF i <= Len(E) THEN E[i] ELSE D[i - Len(E)]
    BY <1>2, <1>7, ConcatProperties
  <2> QED BY <1>2, <2>1
<1>9. /\ Len(E) + 3 \in 1..Len(E) + 3 /\ ~(Len(E) + 3 <= Len(E)) /\ Len(E) + 3 - Len(E) = 3
      /\ Len(E) + 2 \in 1..Len(E) + 3 /\ ~(Len(E) + 2 <= Len(E)) /\ Len(E) + 2 - Len(E) = 2
      /\ Len(E) + 3 - 1 = Len(E) + 2
  BY <1>7
<1>10. (E \o D)[Len(E) + 3] = AnyAbove /\ (E \o D)[Len(E) + 2] = AnyBelow
  BY <1>2, <1>8, <1>9
<1> QED BY <1>7, <1>8, <1>9, <1>10

LEMMA SearchFacts ==
  ASSUME TypeOK, NEW w \in Searches
  PROVE  w.up \in BOOLEAN /\ w.lo \in Int /\ w.hi \in Int
<1>1. Lo \in Int /\ Hi \in Int
  BY BoundFacts
<1>2. Start \in Int /\ Gigabyte \in Int /\ Start - Gigabyte \in Int /\ Start + Gigabyte \in Int
  <2>1. Start \in Int
    <3>1. Start \in Blocks
      BY RequestFacts
    <3> QED BY <3>1, BlockFacts
  <2> QED BY <2>1, Sizes
<1>3. \A l, h \in Int : /\ Up(l, h).up \in BOOLEAN /\ Up(l, h).lo \in Int /\ Up(l, h).hi \in Int
                        /\ Down(l, h).up \in BOOLEAN /\ Down(l, h).lo \in Int /\ Down(l, h).hi \in Int
  BY DEF Up, Down
<1> QED BY <1>1, <1>2, <1>3 DEF Searches, FarBelow, FarAbove, AnyBelow, AnyAbove

LEMMA WindowFacts ==
  ASSUME TypeOK
  PROVE  /\ W \in Searches
         /\ W.up \in BOOLEAN /\ W.lo \in Int /\ W.hi \in Int
         /\ window = Len(Windows) => W = AnyAbove
         /\ window = Len(Windows) - 1 => W = AnyBelow
<1>1. W \in Searches
  BY WindowsFacts DEF W, TypeOK
<1> QED BY <1>1, SearchFacts, WindowsFacts DEF W

-----------------------------------------------------------------------------
(* What Windows says of memory in use.                                     *)

LEMMA BaseFacts ==
  ASSUME TypeOK, NEW b \in used
  PROVE  /\ AllocationBase(b) \in used
         /\ AllocationBase(b) <= b
         /\ Together(AllocationBase(b), b)
<1> DEFINE S == {a \in used : a <= b /\ Together(a, b)}
           P(a) == a <= b /\ Together(a, b) /\ \A c \in used : Together(c, b) => a <= c
<1>1. used \subseteq Blocks /\ used \subseteq Nat /\ b \in Nat /\ joined \in BOOLEAN
  BY BlockFacts DEF TypeOK
<1>2. Together(b, b)
  <2>1. \A c \in Blocks : b <= c /\ c <= b => c = b
    BY <1>1, BlockFacts
  <2> QED BY <2>1 DEF Together
<1>3. S \in SUBSET Nat /\ S # {}
  <2>1. b <= b
    BY <1>1
  <2>2. b \in S
    BY <1>2, <2>1
  <2> QED BY <1>1, <2>2
<1>4. PICK m \in S : \A k \in S : m <= k
  <2> HIDE DEF S
  <2> QED BY <1>3, Least
<1>5. P(m)
  <2> SUFFICES ASSUME NEW c \in used, Together(c, b) PROVE m <= c
    OBVIOUS
  <2>1. CASE c <= b
    BY <1>4, <2>1
  <2>2. CASE ~(c <= b)
    BY <1>1, <1>4, <2>2
  <2> QED BY <2>1, <2>2
<1> DEFINE a == CHOOSE a \in used : P(a)
<1>6. a \in used /\ P(a)
  <2>1. \E x \in used : P(x)
    BY <1>5
  <2> HIDE DEF P
  <2> QED BY <2>1
<1>7. AllocationBase(b) = a
  BY DEF AllocationBase
<1> HIDE DEF a
<1> QED BY <1>6, <1>7

LEMMA EndFacts ==
  ASSUME TypeOK, NEW b \in used
  PROVE  \E a \in used : AllocationEnd(b) = a + 1 /\ b <= a /\ Together(b, a)
<1> DEFINE S == {n \in Nat : \E a \in used : n = Maximum - a /\ a >= b /\ Together(b, a)}
           P(a) == a >= b /\ Together(b, a) /\ \A c \in used : Together(b, c) => c <= a
<1>1. /\ used \subseteq Blocks /\ used \subseteq Nat /\ b \in Nat /\ joined \in BOOLEAN
      /\ \A c \in used : c <= Maximum
  BY BlockFacts DEF TypeOK
<1>2. Together(b, b)
  <2>1. \A c \in Blocks : b <= c /\ c <= b => c = b
    BY <1>1, BlockFacts
  <2> QED BY <2>1 DEF Together
<1>3. S \in SUBSET Nat /\ S # {}
  <2>1. Maximum - b \in Nat /\ b >= b
    BY <1>1, Sizes
  <2>2. Maximum - b \in S
    BY <1>2, <2>1
  <2> QED BY <2>2
<1>4. PICK m \in S : \A k \in S : m <= k
  <2> HIDE DEF S
  <2> QED BY <1>3, Least
<1>5. PICK e \in used : m = Maximum - e /\ e >= b /\ Together(b, e)
  BY <1>4
<1>6. P(e)
  <2> SUFFICES ASSUME NEW c \in used, Together(b, c) PROVE c <= e
    BY <1>5
  <2>1. CASE c >= b
    <3>1. Maximum - c \in Nat
      BY <1>1, Sizes
    <3>2. Maximum - c \in S
      BY <2>1, <3>1
    <3>3. m <= Maximum - c
      BY <1>4, <3>2
    <3> QED BY <1>1, <1>5, <3>3, Sizes
  <2>2. CASE ~(c >= b)
    BY <1>1, <1>5, <2>2
  <2> QED BY <2>1, <2>2
<1> DEFINE a == CHOOSE a \in used : P(a)
<1>7. a \in used /\ P(a)
  <2>1. \E x \in used : P(x)
    BY <1>6
  <2> HIDE DEF P
  <2> QED BY <2>1
<1>8. AllocationEnd(b) = 1 + a
  BY DEF AllocationEnd
<1> HIDE DEF a
<1> QED BY <1>1, <1>7, <1>8

-----------------------------------------------------------------------------
(* The steps of the search.                                                *)

LEMMA FixedFacts ==
  ASSUME request' = request, ntdll' = ntdll
  PROVE  /\ Reserved' = Reserved /\ Images' = Images /\ Start' = Start
         /\ Lo' = Lo /\ Hi' = Hi
         /\ Windows' = Windows
<1>1. Target' = Target /\ Jump' = Jump
  BY DEF Target, Jump
<1>2. Start' = Start /\ Lo' = Lo /\ Hi' = Hi /\ Reserved' = Reserved
  BY <1>1 DEF Start, Lo, Hi, Reserved
<1>3. FarBelow' = FarBelow /\ FarAbove' = FarAbove /\ AnyBelow' = AnyBelow /\ AnyAbove' = AnyAbove
  BY <1>2 DEF FarBelow, FarAbove, AnyBelow, AnyAbove
<1>4. Windows' = Windows
  BY <1>2, <1>3 DEF Windows
<1> QED BY <1>2, <1>4 DEF Images

LEMMA HopelessKept ==
  ASSUME request' = request, ntdll' = ntdll, used \subseteq used'
  PROVE  \A b : Hopeless(b) => Hopeless(b)'
  BY FixedFacts DEF Hopeless

\* Nothing is found before the search is over.
LEMMA NotFoundYet == IInv /\ pc # "done" => found = Null
  BY DEF IInv, WindowInv

\* What the next round of a search will pass is hopeless.
LEMMA GoOnStep ==
  ASSUME IInv, pc # "done", NEW a \in Int, a % 2 = 0, GoOn(a),
         IF W.up THEN try <= a ELSE a <= try,
         changes = 0 /\ policy = "allowed" =>
           \A b \in Blocks : /\ Inside(W, b)
                             /\ IF W.up THEN try <= b /\ b < a ELSE a < b /\ b <= try
                             => Hopeless(b)
  PROVE  IInv'
<1>1. /\ try' = a /\ pc' = "try" /\ used' = used /\ window' = window /\ found' = found
      /\ changes' = changes /\ joined' = joined /\ policy' = policy /\ ntdll' = ntdll
      /\ request' = request /\ found = Null
  BY NotFoundYet DEF GoOn, Fixed
<1>2. /\ Reserved' = Reserved /\ Images' = Images /\ Start' = Start
      /\ Lo' = Lo /\ Hi' = Hi /\ Windows' = Windows
  BY <1>1, FixedFacts
<1>3. W' = W
  BY <1>1, <1>2 DEF W
<1>4. \A b : Hopeless(b) => Hopeless(b)'
  BY <1>1, HopelessKept
<1>5. W.up \in BOOLEAN /\ W.lo \in Int /\ W.hi \in Int /\ try \in Int /\ Blocks \subseteq Nat
  BY WindowFacts, BlockFacts DEF IInv, TypeOK
<1>6. TypeOK'
  BY <1>1, <1>2, Sizes DEF IInv, TypeOK
<1>7. WindowInv'
  <2>1. IF W.up THEN W.lo <= try' ELSE try' <= W.hi - RegionSize
    BY <1>1, <1>5, Sizes DEF IInv, WindowInv
  <2> QED BY <1>1, <1>3, <2>1 DEF WindowInv
<1>8. PassedInv'
  <2> SUFFICES ASSUME changes = 0, policy = "allowed"
               PROVE  /\ window >= Len(Windows) - 1 => \A b \in Passed' : Hopeless(b)
                      /\ window = Len(Windows) => \A b \in Blocks : Lo < b /\ b < Start => Hopeless(b)
    BY <1>1, <1>2, <1>4 DEF PassedInv
  <2>1. ASSUME window >= Len(Windows) - 1, NEW b \in Passed' PROVE Hopeless(b)
    <3>1. b \in Blocks /\ IF W.up THEN W.lo <= b /\ b < a /\ b < W.hi
                                  ELSE W.lo < b /\ a < b /\ b <= W.hi - RegionSize
      BY <1>1, <1>3 DEF Passed
    <3>2. b \in Nat
      BY <1>5, <3>1
    <3>3. \A c \in Passed : Hopeless(c)
      BY <2>1 DEF IInv, PassedInv
    <3>4. CASE W.up
      <4>1. CASE b < try
        BY <3>1, <3>3, <3>4, <4>1 DEF Passed
      <4>2. CASE ~(b < try)
        <5>1. try <= b /\ Inside(W, b)
          BY <1>5, <3>1, <3>2, <3>4, <4>2 DEF Inside
        <5> QED BY <3>1, <3>4, <5>1
      <4> QED BY <4>1, <4>2
    <3>5. CASE ~W.up
      <4>1. CASE try < b
        BY <3>1, <3>3, <3>5, <4>1 DEF Passed
      <4>2. CASE ~(try < b)
        <5>1. b <= try /\ Inside(W, b)
          BY <1>5, <3>1, <3>2, <3>5, <4>2 DEF Inside
        <5> QED BY <3>1, <3>5, <5>1
      <4> QED BY <4>1, <4>2
    <3> QED BY <3>4, <3>5
  <2> QED BY <2>1 DEF IInv, PassedInv
<1> QED BY <1>6, <1>7, <1>8 DEF IInv

\* A search begins at the bound, on its side of it.
LEMMA FirstFacts ==
  ASSUME TypeOK, NEW w \in Searches
  PROVE  /\ First(w) \in Int /\ First(w) % 2 = 0
         /\ IF w.up THEN w.lo <= First(w) ELSE First(w) <= w.hi - RegionSize
<1>1. w.up \in BOOLEAN /\ w.lo \in Int /\ w.hi \in Int /\ w.hi - 2 \in Int
  BY SearchFacts
<1>2. RoundUp(w.lo) \in Int /\ RoundUp(w.lo) % 2 = 0 /\ w.lo <= RoundUp(w.lo)
  BY <1>1, RoundFacts
<1>3. RoundDown(w.hi - 2) \in Int /\ RoundDown(w.hi - 2) % 2 = 0 /\ RoundDown(w.hi - 2) <= w.hi - 2
  BY <1>1, RoundFacts
<1> QED BY <1>1, <1>2, <1>3 DEF First, RegionSize

\* A search that is given up has nothing more ahead of it.
LEMMA GiveUpStep ==
  ASSUME IInv, pc # "done", GiveUp,
         changes = 0 /\ policy = "allowed" /\ window >= Len(Windows) - 1 =>
           \A b \in Blocks : Inside(W, b) /\ (IF W.up THEN try <= b ELSE b <= try) => Hopeless(b)
  PROVE  IInv'
<1>1. /\ used' = used /\ found' = found /\ changes' = changes /\ joined' = joined
      /\ policy' = policy /\ ntdll' = ntdll /\ request' = request /\ found = Null
  BY NotFoundYet DEF GiveUp, Fixed
<1>2. /\ Reserved' = Reserved /\ Images' = Images /\ Start' = Start
      /\ Lo' = Lo /\ Hi' = Hi /\ Windows' = Windows
  BY <1>1, FixedFacts
<1>3. \A b : Hopeless(b) => Hopeless(b)'
  BY <1>1, HopelessKept
<1>4. /\ W.up \in BOOLEAN /\ W.lo \in Int /\ W.hi \in Int /\ try \in Int /\ Blocks \subseteq Nat
      /\ window \in 1..Len(Windows) /\ Len(Windows) \in Nat
  BY WindowFacts, WindowsFacts, BlockFacts DEF IInv, TypeOK
<1>5. Start \in Blocks /\ Start \in Int /\ Start % 2 = 0 /\ Lo \in Int /\ Hi \in Int
  <2>1. Start \in Blocks
    BY RequestFacts DEF IInv
  <2>2. Lo \in Int /\ Hi \in Int
    BY BoundFacts DEF IInv
  <2> QED BY <2>1, <2>2, BlockFacts
<1>6. ASSUME changes = 0, policy = "allowed", window = Len(Windows)
      PROVE  \A b \in Blocks : Lo < b /\ b < Start => Hopeless(b)
  BY <1>6 DEF IInv, PassedInv
<1>7. ASSUME changes = 0, policy = "allowed", window >= Len(Windows) - 1,
             NEW b \in Blocks, IF W.up THEN W.lo <= b /\ b < W.hi
                                       ELSE W.lo < b /\ b <= W.hi - RegionSize
      PROVE  Hopeless(b)
  <2>1. b \in Nat
    BY <1>4
  <2>2. \A c \in Passed : Hopeless(c)
    BY <1>7 DEF IInv, PassedInv
  <2>3. CASE b \in Passed
    BY <2>2, <2>3
  <2>4. CASE b \notin Passed
    <3>1. CASE W.up
      BY <1>4, <1>7, <2>1, <2>4, <3>1 DEF Passed, Inside
    <3>2. CASE ~W.up
      BY <1>4, <1>7, <2>1, <2>4, <3>2 DEF Passed, Inside
    <3> QED BY <3>1, <3>2
  <2> QED BY <2>3, <2>4
<1>8. CASE window < Len(Windows)
  <2>1. window' = window + 1 /\ try' = First(Windows[window + 1]) /\ pc' = "try"
    BY <1>8 DEF GiveUp
  <2>2. window + 1 \in 1..Len(Windows)
    BY <1>4, <1>8
  <2>3. Windows[window + 1] \in Searches
    BY <2>2, WindowsFacts
  <2>4. W' = Windows[window + 1]
    BY <1>2, <2>1 DEF W
  <2>5. /\ try' \in Int /\ try' % 2 = 0
        /\ IF W'.up THEN W'.lo <= try' ELSE try' <= W'.hi - RegionSize
    BY <2>1, <2>3, <2>4, FirstFacts DEF IInv
  <2>6. TypeOK'
    BY <1>1, <1>2, <2>1, <2>2, <2>5, Sizes DEF IInv, TypeOK
  <2>7. WindowInv'
    BY <1>1, <2>1, <2>5 DEF WindowInv
  <2>8. PassedInv'
    <3> SUFFICES ASSUME changes = 0, policy = "allowed"
                 PROVE  /\ window + 1 >= Len(Windows) - 1 => \A b \in Passed' : Hopeless(b)
                        /\ window + 1 = Len(Windows) =>
                             \A b \in Blocks : Lo < b /\ b < Start => Hopeless(b)
      BY <1>1, <1>2, <1>3, <2>1 DEF PassedInv
    <3>1. ASSUME window + 1 >= Len(Windows) - 1 PROVE Passed' = {}
      <4>1. CASE window + 1 = Len(Windows)
        <5>1. W' = AnyAbove
          BY <2>4, <4>1, WindowsFacts
        <5>2. try' = Start
          <6>1. try' = First(AnyAbove)
            BY <2>1, <2>4, <5>1
          <6>2. First(AnyAbove) = RoundUp(Start)
            BY DEF First, AnyAbove, Up
          <6> QED BY <1>5, <6>1, <6>2, RoundAligned
        <5>3. \A b \in Blocks : ~(Start <= b /\ b < Start)
          BY <1>4, <1>5
        <5> QED BY <5>1, <5>2, <5>3 DEF Passed, AnyAbove, Up
      <4>2. CASE window + 1 = Len(Windows) - 1
        <5>1. W' = AnyBelow
          BY <2>4, <4>2, WindowsFacts
        <5>2. try' = Start - 2
          BY <1>5, <2>1, <2>4, <5>1, RoundAligned DEF First, AnyBelow, Down, RegionSize
        <5>3. \A b \in Blocks : ~(Start - 2 < b /\ b <= Start - 2)
          BY <1>4, <1>5
        <5> QED BY <5>1, <5>2, <5>3 DEF Passed, AnyBelow, Down, RegionSize
      <4> QED BY <1>4, <1>8, <3>1, <4>1, <4>2
    <3>2. ASSUME window + 1 = Len(Windows), NEW b \in Blocks, Lo < b, b < Start PROVE Hopeless(b)
      <4>1. window = Len(Windows) - 1 /\ window >= Len(Windows) - 1
        BY <1>4, <3>2
      <4>2. W = AnyBelow
        BY <4>1, WindowFacts DEF IInv
      <4>3. b + 2 <= Start
        BY <1>5, <3>2, BlockFacts, EvenFacts
      <4>4. b <= Start - 2
        BY <1>4, <1>5, <4>3
      <4>5. ~W.up /\ W.lo < b /\ b <= W.hi - RegionSize
        BY <3>2, <4>2, <4>4 DEF AnyBelow, Down, RegionSize
      <4> QED BY <1>7, <4>1, <4>5
    <3> QED BY <3>1, <3>2
  <2> QED BY <2>6, <2>7, <2>8 DEF IInv
<1>9. CASE ~(window < Len(Windows))
  <2>1. window = Len(Windows) /\ window >= Len(Windows) - 1
    BY <1>4, <1>9
  <2>2. pc' = "done" /\ window' = window /\ try' = try
    BY <1>9 DEF GiveUp
  <2>3. W' = W /\ W = AnyAbove
    BY <1>2, <2>1, <2>2, WindowFacts DEF W, IInv
  <2>4. TypeOK'
    BY <1>1, <1>2, <2>2 DEF IInv, TypeOK
  <2>5. WindowInv'
    BY <1>1, <2>2, <2>3 DEF IInv, WindowInv
  <2>6. ASSUME changes = 0, policy = "allowed", NEW b \in Blocks, Lo < b, b < Hi PROVE Hopeless(b)
    <3>1. CASE b < Start
      BY <1>6, <2>1, <2>6, <3>1
    <3>2. CASE ~(b < Start)
      <4>1. Start <= b
        BY <1>4, <1>5, <3>2
      <4>2. W.up /\ W.lo <= b /\ b < W.hi
        BY <2>3, <2>6, <4>1 DEF AnyAbove, Up
      <4> QED BY <1>7, <2>1, <2>6, <4>2
    <3> QED BY <3>1, <3>2
  <2>7. PassedInv'
    BY <1>1, <1>2, <1>3, <1>6, <2>2, <2>6 DEF PassedInv
  <2> QED BY <2>4, <2>5, <2>7 DEF IInv
<1> QED BY <1>8, <1>9

LEMMA ExhaustedStep ==
  ASSUME IInv, Exhausted
  PROVE  IInv'
<1>1. /\ pc = "try" /\ GiveUp
      /\ ~Inside(W, try) \/ try \notin Minimum..Maximum
  BY DEF Exhausted
<1>2. /\ W.up \in BOOLEAN /\ W.lo \in Int /\ W.hi \in Int /\ try \in Int
      /\ window \in 1..Len(Windows) /\ Len(Windows) \in Nat
  BY WindowFacts, WindowsFacts DEF IInv, TypeOK
<1>3. Start \in Int /\ Minimum <= Start /\ Start <= Maximum
  <2>1. Start \in Blocks
    BY RequestFacts DEF IInv
  <2> QED BY <2>1, BlockFacts
<1>4. ASSUME window >= Len(Windows) - 1, NEW b \in Blocks,
             Inside(W, b), IF W.up THEN try <= b ELSE b <= try
      PROVE  FALSE
  <2>1. b \in Int /\ Minimum <= b /\ b <= Maximum
    BY BlockFacts
  <2>2. Inside(W, try)
    BY <1>2, <1>4, <2>1 DEF Inside
  <2>3. try \notin Minimum..Maximum
    BY <1>1, <2>2
  <2>4. W \in {AnyAbove, AnyBelow}
    BY <1>2, <1>4, WindowFacts DEF IInv
  <2>5. CASE W = AnyAbove
    <3>1. W.up /\ W.lo = Start
      BY <2>5 DEF AnyAbove, Up
    <3>2. Start <= try
      BY <3>1 DEF IInv, WindowInv
    <3> QED BY <1>2, <1>3, <1>4, <2>1, <2>3, <3>1, <3>2, Sizes
  <2>6. CASE W = AnyBelow
    <3>1. ~W.up /\ W.hi = Start
      BY <2>6 DEF AnyBelow, Down
    <3>2. try <= Start - 2
      BY <3>1, Sizes DEF IInv, WindowInv
    <3> QED BY <1>2, <1>3, <1>4, <2>1, <2>3, <3>1, <3>2, Sizes
  <2> QED BY <2>4, <2>5, <2>6
<1> QED BY <1>1, <1>4, GiveUpStep

LEMMA SkipReservedStep ==
  ASSUME IInv, SkipReserved
  PROVE  IInv'
<1> DEFINE a == Ahead(W, try, Stride)
<1>1. pc = "try" /\ try \in Reserved /\ GoOn(a)
  BY DEF SkipReserved
<1>2. try \in Int /\ try % 2 = 0 /\ W.up \in BOOLEAN
  BY WindowFacts, Sizes DEF IInv, TypeOK
<1>3. a = (IF W.up THEN try + Stride ELSE try - Stride)
  BY DEF Ahead
<1> HIDE DEF a
<1>4. a \in Int /\ a % 2 = 0 /\ IF W.up THEN try <= a ELSE a <= try
  BY <1>2, <1>3, Sizes, EvenFacts
<1>5. ASSUME NEW b \in Blocks, IF W.up THEN try <= b /\ b < a ELSE a < b /\ b <= try
      PROVE  Hopeless(b)
  <2>1. b \in Nat
    BY BlockFacts
  <2>2. Distance(try, b) < Stride
    BY <1>2, <1>3, <1>5, <2>1, Sizes DEF Distance
  <2> QED BY <1>1, <2>2 DEF Hopeless
<1> QED BY <1>1, <1>4, <1>5, GoOnStep

LEMMA SkipUsedStep ==
  ASSUME IInv, SkipUsed
  PROVE  IInv'
<1> DEFINE a == IF W.up THEN RoundUp(AllocationEnd(try))
                        ELSE RoundDown(AllocationBase(try) - RegionSize)
<1>1. pc = "try" /\ try \in used /\ GoOn(a)
  BY DEF SkipUsed
<1>2. /\ try \in Int /\ try % 2 = 0 /\ W.up \in BOOLEAN /\ joined \in BOOLEAN
      /\ used \subseteq Blocks
  BY WindowFacts, Sizes DEF IInv, TypeOK
<1>3. PICK e \in used : AllocationEnd(try) = e + 1 /\ try <= e /\ Together(try, e)
  BY <1>1, EndFacts DEF IInv
<1>4. PICK c \in used : AllocationBase(try) = c /\ c <= try /\ Together(c, try)
  BY <1>1, BaseFacts DEF IInv
<1>5. e \in Int /\ e % 2 = 0 /\ c \in Int /\ c % 2 = 0
  BY <1>2, BlockFacts
<1>6. a = IF W.up THEN e + 2 ELSE c - 2
  BY <1>3, <1>4, <1>5, Sizes, RoundAligned
<1> HIDE DEF a
<1>7. a \in Int /\ a % 2 = 0 /\ IF W.up THEN try <= a ELSE a <= try
  BY <1>2, <1>3, <1>4, <1>5, <1>6
<1>8. ASSUME NEW b \in Blocks, IF W.up THEN try <= b /\ b < a ELSE a < b /\ b <= try
      PROVE  b \in used
  <2>1. b \in Int /\ b % 2 = 0
    BY BlockFacts
  <2>2. CASE W.up
    <3>1. try <= b /\ b <= e
      BY <1>5, <1>6, <1>8, <2>1, <2>2
    <3> QED BY <1>1, <1>2, <1>3, <2>1, <3>1 DEF Together
  <2>3. CASE ~W.up
    <3>1. c <= b /\ b <= try
      BY <1>5, <1>6, <1>8, <2>1, <2>3
    <3> QED BY <1>1, <1>2, <1>4, <2>1, <3>1 DEF Together
  <2> QED BY <2>2, <2>3
<1> QED BY <1>1, <1>7, <1>8, GoOnStep DEF Hopeless

LEMMA AllocateFailsStep ==
  ASSUME IInv, AllocateFails
  PROVE  IInv'
<1> DEFINE a == Ahead(W, try, RegionSize)
<1>1. pc = "allocate" /\ (policy = "unsupported" \/ try \in used) /\ GoOn(a)
  BY DEF AllocateFails
<1>2. try \in Int /\ try % 2 = 0 /\ W.up \in BOOLEAN
  BY WindowFacts, Sizes DEF IInv, TypeOK
<1>3. a = IF W.up THEN try + 2 ELSE try - 2
  BY Sizes DEF Ahead
<1> HIDE DEF a
<1>4. a \in Int /\ a % 2 = 0 /\ IF W.up THEN try <= a ELSE a <= try
  BY <1>2, <1>3
<1>5. ASSUME changes = 0, policy = "allowed", NEW b \in Blocks PROVE Hopeless(b)
  BY <1>1, <1>5 DEF IInv, PassedInv
<1> QED BY <1>1, <1>4, <1>5, GoOnStep

LEMMA SeenFreeStep ==
  ASSUME IInv, SeenFree
  PROVE  IInv'
<1>1. /\ pc = "try" /\ Inside(W, try) /\ try \in Blocks \ Reserved /\ try \notin used
      /\ pc' = "allocate" /\ used' = used /\ window' = window /\ try' = try /\ found' = found
      /\ changes' = changes /\ joined' = joined /\ policy' = policy /\ ntdll' = ntdll
      /\ request' = request /\ found = Null
  BY NotFoundYet DEF SeenFree, Fixed
<1>2. /\ Reserved' = Reserved /\ Images' = Images /\ Start' = Start
      /\ Lo' = Lo /\ Hi' = Hi /\ Windows' = Windows
  BY <1>1, FixedFacts
<1>3. W' = W
  BY <1>1, <1>2 DEF W
<1>4. Passed' = Passed
  BY <1>1, <1>3 DEF Passed
<1>5. \A b : Hopeless(b) => Hopeless(b)'
  BY <1>1, HopelessKept
<1>6. TypeOK'
  BY <1>1, <1>2 DEF IInv, TypeOK
<1>7. WindowInv'
  BY <1>1, <1>2, <1>3 DEF IInv, WindowInv, Inside
<1>8. PassedInv'
  BY <1>1, <1>2, <1>4, <1>5 DEF IInv, PassedInv
<1> QED BY <1>6, <1>7, <1>8 DEF IInv

LEMMA AllocateStep ==
  ASSUME IInv, Allocate
  PROVE  IInv'
<1>1. /\ pc = "allocate" /\ try \notin used /\ used' = used \cup {try} /\ found' = try
      /\ pc' = "done" /\ window' = window /\ try' = try /\ changes' = changes
      /\ joined' = joined /\ policy' = policy /\ ntdll' = ntdll /\ request' = request
  BY DEF Allocate, Fixed
<1>2. try \in Blocks \ Reserved /\ Inside(W, try) /\ try \in Int /\ Null \notin Int
  BY <1>1, RequestFacts DEF IInv, WindowInv, TypeOK
<1>3. /\ Reserved' = Reserved /\ Images' = Images /\ Start' = Start
      /\ Lo' = Lo /\ Hi' = Hi /\ Windows' = Windows
  BY <1>1, FixedFacts
<1>4. W' = W
  BY <1>1, <1>3 DEF W
<1>5. \A b : Hopeless(b) => Hopeless(b)'
  BY <1>1, HopelessKept
<1>6. TypeOK'
  BY <1>1, <1>2, <1>3 DEF IInv, TypeOK
<1>7. WindowInv'
  <2>1. try \notin Images
    BY <1>1 DEF IInv, TypeOK
  <2> QED BY <1>1, <1>2, <1>3, <1>4, <2>1 DEF IInv, WindowInv, Inside
<1>8. PassedInv'
  <2>1. found' # Null
    BY <1>1, <1>2
  <2> QED BY <1>1, <1>3, <1>5, <2>1 DEF IInv, PassedInv
<1> QED BY <1>6, <1>7, <1>8 DEF IInv

LEMMA OtherStep ==
  ASSUME IInv, Other
  PROVE  IInv'
<1>1. /\ changes < MaxChanges /\ changes' = changes + 1 /\ changes \in 0..MaxChanges
      /\ pc' = pc /\ window' = window /\ try' = try /\ found' = found
      /\ joined' = joined /\ policy' = policy /\ ntdll' = ntdll /\ request' = request
  BY DEF Other, Fixed, IInv, TypeOK
<1>2. changes' \in 0..MaxChanges /\ changes' # 0
  BY <1>1, SearchAssumption
<1>3. used' \in SUBSET Blocks /\ Images \subseteq used'
  BY DEF Other, IInv, TypeOK
<1>4. /\ Reserved' = Reserved /\ Images' = Images /\ Windows' = Windows
  BY <1>1, FixedFacts
<1>5. W' = W
  BY <1>1, <1>4 DEF W
<1>6. TypeOK'
  BY <1>1, <1>2, <1>3, <1>4 DEF IInv, TypeOK
<1>7. WindowInv'
  BY <1>1, <1>4, <1>5 DEF IInv, WindowInv, Inside
<1>8. PassedInv'
  BY <1>2 DEF PassedInv
<1> QED BY <1>6, <1>7, <1>8 DEF IInv

LEMMA InvInit == Init => IInv
<1> SUFFICES ASSUME Init PROVE IInv
  OBVIOUS
<1>1. /\ Windows[1] \in Searches /\ 1 \in 1..Len(Windows) /\ ~(1 >= Len(Windows) - 1)
      /\ 1 # Len(Windows)
  BY WindowsFacts
<1>2. W = Windows[1] /\ try = First(W)
  BY DEF Init, W
<1>3. /\ used \in SUBSET Blocks /\ Images \subseteq used /\ joined \in BOOLEAN
      /\ policy \in {"allowed", "blocked", "unsupported"} /\ ntdll \in Bases
      /\ request \in Targets /\ pc = "try" /\ window = 1 /\ found = Null /\ changes = 0
  BY DEF Init
<1>4. Start \in Int /\ Lo \in Int /\ Hi \in Int
  <2>1. request \in (Minimum..Maximum) \X (Minimum..Maximum \cup {Null}) /\ Null \notin Int
    BY <1>3, SearchAssumption
  <2>2. Target \in Int /\ (Jump # Null => Jump \in Int)
    BY <2>1, Sizes DEF Target, Jump
  <2>3. \A t \in Int : Below(t) \in Int /\ Above(t) \in Int
    BY Sizes DEF Below, Above
  <2>4. Lo \in Int /\ Hi \in Int
    BY <2>2, <2>3 DEF Lo, Hi
  <2> QED BY <2>2, <2>4, RoundFacts DEF Start
<1>5. W.up \in BOOLEAN /\ W.lo \in Int /\ W.hi \in Int
  <2>1. Start - Gigabyte \in Int /\ Start + Gigabyte \in Int
    BY <1>4, Sizes
  <2>2. \A l, h \in Int : /\ Up(l, h).up \in BOOLEAN /\ Up(l, h).lo \in Int /\ Up(l, h).hi \in Int
                          /\ Down(l, h).up \in BOOLEAN /\ Down(l, h).lo \in Int /\ Down(l, h).hi \in Int
    BY DEF Up, Down
  <2> QED BY <1>1, <1>2, <1>4, <2>1, <2>2 DEF Searches, FarBelow, FarAbove, AnyBelow, AnyAbove
<1>6. /\ try \in Int /\ try % 2 = 0
      /\ IF W.up THEN W.lo <= try ELSE try <= W.hi - RegionSize
  <2>1. RoundUp(W.lo) \in Int /\ RoundUp(W.lo) % 2 = 0 /\ W.lo <= RoundUp(W.lo)
    BY <1>5, RoundFacts
  <2>2. W.hi - 2 \in Int
    BY <1>5
  <2>3. RoundDown(W.hi - 2) \in Int /\ RoundDown(W.hi - 2) % 2 = 0 /\ RoundDown(W.hi - 2) <= W.hi - 2
    BY <2>2, RoundFacts
  <2> QED BY <1>2, <1>5, <2>1, <2>3 DEF First, RegionSize
<1>7. TypeOK
  <2>1. 0 \in 0..MaxChanges
    BY SearchAssumption
  <2> QED BY <1>1, <1>3, <1>6, <2>1, Sizes DEF TypeOK
<1>8. WindowInv
  BY <1>3, <1>6 DEF WindowInv
<1>9. PassedInv
  BY <1>1, <1>3 DEF PassedInv
<1> QED BY <1>7, <1>8, <1>9 DEF IInv

LEMMA InvNext == IInv /\ [Next]_vars => IInv'
<1> SUFFICES ASSUME IInv, [Next]_vars PROVE IInv'
  OBVIOUS
<1>1. CASE Blocked
  BY <1>1, GiveUpStep DEF Blocked
<1>2. CASE UNCHANGED vars
  <2>1. /\ used' = used /\ found' = found /\ changes' = changes /\ joined' = joined
        /\ policy' = policy /\ ntdll' = ntdll /\ request' = request /\ pc' = pc
        /\ window' = window /\ try' = try
    BY <1>2 DEF vars
  <2>2. /\ Reserved' = Reserved /\ Images' = Images /\ Start' = Start
        /\ Lo' = Lo /\ Hi' = Hi /\ Windows' = Windows
    BY <2>1, FixedFacts
  <2>3. W' = W
    BY <2>1, <2>2 DEF W
  <2>4. Passed' = Passed
    BY <2>1, <2>3 DEF Passed
  <2>5. \A b : Hopeless(b) => Hopeless(b)'
    BY <2>1, HopelessKept
  <2>6. TypeOK'
    BY <2>1, <2>2 DEF IInv, TypeOK
  <2>7. WindowInv'
    BY <2>1, <2>2, <2>3 DEF IInv, WindowInv, Inside
  <2>8. PassedInv'
    BY <2>1, <2>2, <2>4, <2>5 DEF IInv, PassedInv
  <2> QED BY <2>6, <2>7, <2>8 DEF IInv
<1> QED
  BY <1>1, <1>2, ExhaustedStep, SkipReservedStep, SkipUsedStep, SeenFreeStep, AllocateStep,
     AllocateFailsStep, OtherStep DEF Next, Search, Done

-----------------------------------------------------------------------------
(* The theorems.                                                           *)

\* At every step the search knows where it is, and while nobody else changes anything
\* it has passed no place that it could have had, but for those next to system DLLs.
THEOREM SearchMissesNothing == Spec => []IInv
<1> QED BY InvInit, InvNext, PTL DEF Spec

\* Every byte of what is found reaches the target and, if asked for, where the target
\* jumps, and is not for system DLLs, which a whole gigabyte is kept for.
THEOREM FoundWithinReach == Spec => []WithinReach
<1>1. IInv => WithinReach
  <2> SUFFICES ASSUME IInv PROVE WithinReach
    OBVIOUS
  <2>1. Cardinality(Reserved) = Gigabyte
    BY ReservedSize DEF IInv
  <2>2. ASSUME found # Null, NEW a \in {found, found + RegionSize - 1}
        PROVE  /\ a \notin Reserved
               /\ Distance(a, Target) < 2 * Gigabyte
               /\ Jump # Null /\ W \in {FarBelow, FarAbove, AnyBelow, AnyAbove} =>
                    Distance(a, Jump) < 2 * Gigabyte
    <3>1. /\ found = try /\ Inside(W, try) /\ try \notin Reserved /\ try # Start
          /\ IF W.up THEN W.lo <= try ELSE try <= W.hi - 2
      BY <2>2, Sizes DEF IInv, WindowInv, Images
    <3>2. try \in Int /\ try % 2 = 0
      BY Sizes DEF IInv, TypeOK
    <3>3. a \in Int /\ (a = try \/ a = try + 1)
      BY <2>2, <3>1, <3>2, Sizes
    <3>4. a \notin Reserved
      BY <3>1, <3>2, <3>3, ReservedFacts DEF IInv
    <3>5. /\ Target \in Int /\ Start \in Int /\ Start % 2 = 0
          /\ Start <= Target /\ Target <= Start + 1 /\ Gigabyte \in Int /\ Gigabyte >= 2
      <4>1. Start \in Blocks /\ Target \in Minimum..Maximum /\ Start <= Target /\ Target <= Start + 1
        BY RequestFacts DEF IInv
      <4>2. Gigabyte >= 2
        BY Sizes
      <4> QED BY <4>1, <4>2, BlockFacts, Sizes
    <3>6. Lo \in Int /\ Hi \in Int
      BY BoundFacts DEF IInv
    <3>7. \/ Lo < try /\ try <= Start - Gigabyte - 2 /\ W = FarBelow
          \/ Start + Gigabyte <= try /\ try < Hi /\ W = FarAbove
          \/ Start - Gigabyte <= try /\ try < Start /\ W = Up(Start - Gigabyte, Start)
          \/ Start < try /\ try <= Start + Gigabyte - 2 /\ W = Down(Start, Start + Gigabyte)
          \/ Lo < try /\ try <= Start - 2 /\ W = AnyBelow
          \/ Start <= try /\ try < Hi /\ W = AnyAbove
      <4>1. W \in Searches
        BY WindowFacts DEF IInv
      <4>2. ASSUME NEW l, NEW h, W = Up(l, h) PROVE l <= try /\ try < h
        BY <3>1, <4>2 DEF Inside, Up
      <4>3. ASSUME NEW l, NEW h, W = Down(l, h) PROVE l < try /\ try <= h - 2
        <5>1. l < try
          BY <3>1, <3>2, <3>6, <4>3 DEF Inside, Down
        <5> QED BY <3>1, <4>3, <5>1 DEF Down
      <4> QED
        BY <3>1, <3>2, <3>5, <4>1, <4>2, <4>3 DEF Searches, FarBelow, FarAbove, AnyBelow, AnyAbove
    <3>8. \/ /\ Lo < a /\ a < Start
          \/ /\ a <= Hi /\ Start + 2 <= a
          \/ /\ Start - Gigabyte <= a /\ a <= Start + Gigabyte
             /\ W = Up(Start - Gigabyte, Start) \/ W = Down(Start, Start + Gigabyte)
      BY <3>1, <3>2, <3>3, <3>5, <3>6, <3>7
    <3>9. Distance(a, Target) < 2 * Gigabyte
      <4>1. /\ Lo < a => Target - a < 2 * Gigabyte
            /\ a <= Hi => a - Target < 2 * Gigabyte
        BY <3>3, BoundFacts DEF IInv
      <4> QED BY <3>3, <3>5, <3>6, <3>8, <4>1 DEF Distance
    <3>10. ASSUME Jump # Null, W \in {FarBelow, FarAbove, AnyBelow, AnyAbove}
           PROVE  Distance(a, Jump) < 2 * Gigabyte
      <4>1. Jump \in Int /\ Distance(Target, Jump) <= 2 * Gigabyte
        BY <3>10, RequestFacts DEF IInv
      <4>2. /\ W # Up(Start - Gigabyte, Start)
            /\ W # Down(Start, Start + Gigabyte)
        BY <3>5, <3>6, <3>10 DEF FarBelow, FarAbove, AnyBelow, AnyAbove, Up, Down
      <4>3. (Lo < a /\ a < Start) \/ (a <= Hi /\ Start + 2 <= a)
        BY <3>8, <4>2
      <4>4. CASE Jump >= Target
        <5>1. Lo < a => Jump - a < 2 * Gigabyte
          BY <3>3, <3>10, <4>4, BoundFacts DEF IInv
        <5>2. a <= Hi => a - Target < 2 * Gigabyte
          BY <3>3, BoundFacts DEF IInv
        <5>3. Start + 2 <= a => Target < a
          BY <3>3, <3>5
        <5> QED BY <3>3, <3>5, <3>6, <4>1, <4>3, <4>4, <5>1, <5>2, <5>3 DEF Distance
      <4>5. CASE Jump < Target
        <5>1. a <= Hi => a - Jump < 2 * Gigabyte
          BY <3>3, <3>10, <4>5, BoundFacts DEF IInv
        <5>2. Lo < a => Target - a < 2 * Gigabyte
          BY <3>3, BoundFacts DEF IInv
        <5> QED BY <3>3, <3>5, <3>6, <4>1, <4>3, <4>5, <5>1, <5>2 DEF Distance
      <4> QED BY <3>5, <4>1, <4>4, <4>5
    <3> QED BY <3>4, <3>9, <3>10
  <2> QED BY <2>1, <2>2 DEF WithinReach
<1> QED BY <1>1, SearchMissesNothing, PTL

\* While nobody else changes anything, a search that fails leaves nothing that it
\* could have had, but for places next to system DLLs.
THEOREM FailsOnlyIfHopeless == Spec => []NothingMissed
<1>1. IInv => NothingMissed
  BY DEF IInv, PassedInv, Hopeless, NothingMissed
<1> QED BY <1>1, SearchMissesNothing, PTL
=============================================================================
