---------------------------- MODULE JumpsProofs ----------------------------
(***************************************************************************)
(* Proofs about Jumps, for any code as in JumpsInv and any hooks.          *)
(***************************************************************************)
EXTENDS JumpsInv, SequenceTheorems, WellFoundedInduction, TLAPS

-----------------------------------------------------------------------------
(* Cells of functions.                                                     *)

\* The first of two functions hides the second.
LEMMA PartOver ==
  ASSUME NEW f, NEW g, NEW a
  PROVE  Part(Over(f, g), a) = IF a \in DOMAIN f THEN Part(f, a) ELSE Part(g, a)
BY DEF Part, Over

\* Outside of what is taken away nothing changes.
LEMMA PartWithout ==
  ASSUME NEW f, NEW from, NEW to, NEW a
  PROVE  Part(Without(f, from, to), a) = IF a < from \/ a >= to THEN Part(f, a) ELSE <<>>
BY DEF Part, Without, Restrict

\* What is saved is what is there.
LEMMA PartSaved ==
  ASSUME NEW from, NEW to, NEW a
  PROVE  Part(Saved(from, to), a) = IF from <= a /\ a < to THEN Part(code, a) ELSE <<>>
BY DEF Part, Saved, Restrict

\* Functions with the same cells are equal.
LEMMA PartsEqual ==
  ASSUME NEW f, NEW g, IsFunction(f), IsFunction(g),
         \A a \in DOMAIN f \cup DOMAIN g : a \in Int,
         \A a \in Int : Part(f, a) = Part(g, a)
  PROVE  f = g
<1>1. DOMAIN f = DOMAIN g
  <2>1. \A a : Part(f, a) = <<>> <=> a \notin DOMAIN f
    BY DEF Part
  <2>2. \A a : Part(g, a) = <<>> <=> a \notin DOMAIN g
    BY DEF Part
  <2>3. \A a \in Int : a \in DOMAIN f <=> a \in DOMAIN g
    BY <2>1, <2>2
  <2> QED BY <2>3
<1>2. \A a \in DOMAIN f : f[a] = g[a]
  <2> SUFFICES ASSUME NEW a \in DOMAIN f PROVE f[a] = g[a]
    OBVIOUS
  <2>1. <<f[a]>> = <<g[a]>>
    BY <1>1 DEF Part
  <2> QED BY <2>1
<1> QED BY <1>1, <1>2 DEF IsFunction

\* One function over another is one, of the cells of both.
LEMMA FunctionOver ==
  ASSUME NEW f, NEW g
  PROVE  IsFunction(Over(f, g)) /\ DOMAIN Over(f, g) = DOMAIN f \cup DOMAIN g
BY DEF IsFunction, Over

\* Instructions follow each other.
LEMMA NthFacts ==
  ASSUME NEW a
  PROVE  /\ Nth(a)[1] = a
         /\ Nth(a)[2] = Nth(a)[1] + At(Nth(a)[1]).len
         /\ Nth(a)[3] = Nth(a)[2] + At(Nth(a)[2]).len
         /\ Nth(a)[4] = Nth(a)[3] + At(Nth(a)[3]).len
         /\ Nth(a)[5] = Nth(a)[4] + At(Nth(a)[4]).len
<1> DEFINE
     F(f) == [n \in 1..5 |-> IF n = 1 THEN a ELSE f[n - 1] + At(f[n - 1]).len]
     p2 == a + At(a).len
     p3 == p2 + At(p2).len
     p4 == p3 + At(p3).len
     p5 == p4 + At(p4).len
     w == [n \in 1..5 |-> IF n = 1 THEN a ELSE IF n = 2 THEN p2 ELSE IF n = 3 THEN p3
                            ELSE IF n = 4 THEN p4 ELSE p5]
<1>1. w = F(w)
  <2>1. w[1] = a /\ w[2] = p2 /\ w[3] = p3 /\ w[4] = p4 /\ w[5] = p5
    OBVIOUS
  <2>2. \A n \in 1..5 : w[n] = F(w)[n]
    <3> SUFFICES ASSUME NEW n \in 1..5 PROVE w[n] = F(w)[n]
      OBVIOUS
    <3>1. n = 1 \/ n = 2 \/ n = 3 \/ n = 4 \/ n = 5
      OBVIOUS
    <3> HIDE DEF w
    <3> QED BY <2>1, <3>1
  <2> QED BY <2>2
<1>2. Nth(a) = F(Nth(a))
  <2> HIDE DEF w
  <2> QED BY <1>1 DEF Nth
<1> HIDE DEF w
<1> QED BY <1>2

-----------------------------------------------------------------------------
(* The instructions that are moved, and the bytes that are taken.          *)

\* A set of some of the numbers 1 to 4 has a least one and a greatest one.
LEMMA SmallSet ==
  ASSUME NEW S \in SUBSET (1..4), S # {}
  PROVE  /\ Min(S) \in S /\ \A x \in S : Min(S) <= x
         /\ Max(S) \in S /\ \A x \in S : x <= Max(S)
<1>1. \E m \in S : \A x \in S : m <= x
  <2>1. CASE 1 \in S BY <2>1
  <2>2. CASE 1 \notin S /\ 2 \in S BY <2>2
  <2>3. CASE 1 \notin S /\ 2 \notin S /\ 3 \in S BY <2>3
  <2>4. CASE 1 \notin S /\ 2 \notin S /\ 3 \notin S
    <3>1. \A x \in S : x = 4
      BY <2>4
    <3>2. PICK y \in S : TRUE
      OBVIOUS
    <3> QED BY <3>1, <3>2
  <2> QED BY <2>1, <2>2, <2>3, <2>4
<1>2. \E m \in S : \A x \in S : m >= x
  <2>1. CASE 4 \in S BY <2>1
  <2>2. CASE 4 \notin S /\ 3 \in S BY <2>2
  <2>3. CASE 4 \notin S /\ 3 \notin S /\ 2 \in S BY <2>3
  <2>4. CASE 4 \notin S /\ 3 \notin S /\ 2 \notin S
    <3>1. \A x \in S : x = 1
      BY <2>4
    <3>2. PICK y \in S : TRUE
      OBVIOUS
    <3> QED BY <3>1, <3>2
  <2> QED BY <2>1, <2>2, <2>3, <2>4
<1>3. Min(S) \in S /\ \A x \in S : Min(S) <= x
  BY <1>1 DEF Min
<1>4. Max(S) \in S /\ \A x \in S : Max(S) >= x
  BY <1>2 DEF Max
<1>5. \A x \in S : x \in Int
  OBVIOUS
<1> QED BY <1>3, <1>4, <1>5

\* Instructions are counted until a jump has room, and no further.
LEMMA MovedFacts ==
  ASSUME NEW a
  PROVE  /\ MovedCount(a) \in 1..4
         /\ \A n \in 1..MovedCount(a) - 1 : ~Enough(a, n)
         /\ \A n \in 1..4 : n = 4 \/ Enough(a, n) \/ EndsFunction(Nth(a)[n]) => MovedCount(a) <= n
<1> DEFINE S == {n \in 1..4 : n = 4 \/ Enough(a, n) \/ EndsFunction(Nth(a)[n])}
<1>1. S \in SUBSET (1..4) /\ S # {}
  <2>1. 4 \in S
    OBVIOUS
  <2> QED BY <2>1
<1>2. MovedCount(a) = Min(S)
  BY DEF MovedCount
<1>3. MovedCount(a) \in S /\ \A x \in S : MovedCount(a) <= x
  BY <1>1, <1>2, SmallSet
<1> QED BY <1>3

\* Filler is taken until there is room for the jump.
LEMMA PatchedCountFacts ==
  ASSUME NEW a
  PROVE  /\ PatchedCount(a) \in MovedCount(a)..4
         /\ \A n \in MovedCount(a)..PatchedCount(a) - 1 : ~Enough(a, n)
<1> DEFINE S == {n \in MovedCount(a)..4 :
                   \A m \in MovedCount(a) + 1..n :
                     ~Enough(a, m - 1) /\ At(Nth(a)[m]).op = "nop"}
<1>1. MovedCount(a) \in 1..4
  BY MovedFacts
<1>2. S \in SUBSET (1..4) /\ S # {}
  <2>1. MovedCount(a) \in S
    BY <1>1
  <2> QED BY <1>1, <2>1
<1>3. PatchedCount(a) = Max(S)
  BY DEF PatchedCount
<1>4. PatchedCount(a) \in S
  BY <1>2, <1>3, SmallSet
<1>5. ASSUME NEW n \in MovedCount(a)..PatchedCount(a) - 1 PROVE ~Enough(a, n)
  <2>1. n + 1 \in MovedCount(a) + 1..PatchedCount(a) /\ (n + 1) - 1 = n
    BY <1>1, <1>4
  <2>2. \A m \in MovedCount(a) + 1..PatchedCount(a) : ~Enough(a, m - 1)
    BY <1>4
  <2> QED BY <2>1, <2>2
<1> QED BY <1>4, <1>5

\* Where the jump has no room yet.
LEMMA NotEnough ==
  ASSUME NEW a, NEW n \in 1..PatchedCount(a) - 1
  PROVE  ~Enough(a, n) /\ n \in 1..3
<1>1. MovedCount(a) \in 1..4 /\ PatchedCount(a) \in MovedCount(a)..4
  BY MovedFacts, PatchedCountFacts
<1>2. n \in 1..MovedCount(a) - 1 \/ n \in MovedCount(a)..PatchedCount(a) - 1
  BY <1>1
<1> QED BY <1>1, <1>2, MovedFacts, PatchedCountFacts

\* The size of the jump at a.
SizeAt(a) == JumpSize[IsEcCode(a)]

\* Where sizes are known as far as the jump reaches, each instruction that is taken
\* begins where it reaches.
LEMMA TakenFacts ==
  ASSUME NEW a \in Int, SizeAt(a) \in {5, 12},
         \A b \in a..a + SizeAt(a) - 1 : At(b).len \in 1..15
  PROVE  \A n \in 1..PatchedCount(a) :
           Nth(a)[n] \in a..a + SizeAt(a) - 1 /\ Nth(a)[n + 1] - Nth(a)[n] \in 1..15
             /\ Nth(a)[n + 1] \in Int /\ Nth(a)[n + 1] = Nth(a)[n] + At(Nth(a)[n]).len
<1> DEFINE J == SizeAt(a)
           N == Nth(a)
           G(n) == N[n] \in a..a + J - 1
<1>1. MovedCount(a) \in 1..4 /\ PatchedCount(a) \in MovedCount(a)..4
  BY MovedFacts, PatchedCountFacts
<1>2. ASSUME NEW n \in 1..4, G(n)
      PROVE  N[n + 1] \in Int /\ N[n + 1] - N[n] \in 1..15
               /\ N[n + 1] = N[n] + At(N[n]).len
  <2>1. N[n + 1] = N[n] + At(N[n]).len
    <3>1. n = 1 \/ n = 2 \/ n = 3 \/ n = 4
      OBVIOUS
    <3> QED BY <3>1, NthFacts
  <2>2. At(N[n]).len \in 1..15 /\ N[n] \in Int
    BY <1>2
  <2> HIDE DEF N
  <2> QED BY <2>1, <2>2
<1>3. ASSUME NEW n \in 1..3, G(n), n < PatchedCount(a) PROVE G(n + 1)
  <2>1. ~Enough(a, n)
    <3>1. n \in 1..PatchedCount(a) - 1
      BY <1>1, <1>3
    <3> QED BY <3>1, NotEnough
  <2>2. ~(N[n + 1] - a >= J)
    BY <2>1 DEF Enough, SizeAt
  <2>3. N[n + 1] \in Int /\ N[n + 1] - N[n] \in 1..15
    BY <1>2, <1>3
  <2> HIDE DEF N, J
  <2>4. J \in Int
    BY DEF J
  <2> QED BY <1>3, <2>2, <2>3, <2>4
<1>4. G(1)
  BY NthFacts
<1> HIDE DEF G
<1>5. \A n \in 1..PatchedCount(a) : G(n)
  <2>1. G(1) /\ (1 < PatchedCount(a) => G(1 + 1))
    BY <1>3, <1>4
  <2>2. (2 < PatchedCount(a) => G(2 + 1))
    BY <1>1, <1>3, <2>1
  <2>3. (3 < PatchedCount(a) => G(3 + 1))
    BY <1>1, <1>3, <2>1, <2>2
  <2> QED BY <1>1, <2>1, <2>2, <2>3
<1> SUFFICES ASSUME NEW n \in 1..PatchedCount(a)
             PROVE  /\ N[n] \in a..a + J - 1
                    /\ N[n + 1] - N[n] \in 1..15
                    /\ N[n + 1] \in Int /\ N[n + 1] = N[n] + At(N[n]).len
  OBVIOUS
<1>6. n \in 1..4
  BY <1>1
<1>7. G(n)
  BY <1>5
<1> QED BY <1>2, <1>6, <1>7 DEF G

\* A jump or the end of the function that is long enough is all that is taken.
LEMMA OneTaken ==
  ASSUME NEW a \in Int, EndsFunction(a), At(a).len \in Int, SizeAt(a) \in {5, 12},
         At(a).len >= SizeAt(a)
  PROVE  PatchedCount(a) = 1 /\ Nth(a)[PatchedCount(a) + 1] = a + At(a).len
<1>1. Nth(a)[1] = a /\ Nth(a)[2] = a + At(a).len
  BY NthFacts
<1>2. MovedCount(a) = 1
  <2>1. MovedCount(a) <= 1 /\ MovedCount(a) \in 1..4
    BY <1>1, MovedFacts
  <2> QED BY <2>1
<1>3. Enough(a, 1)
  BY <1>1 DEF Enough, SizeAt
<1>4. PatchedCount(a) = 1
  <2>1. PatchedCount(a) \in 1..4 /\ (1 \in 1..PatchedCount(a) - 1 => FALSE)
    BY <1>2, <1>3, NotEnough, PatchedCountFacts
  <2> QED BY <2>1
<1> QED BY <1>1, <1>4

-----------------------------------------------------------------------------
(* What is written.                                                        *)

\* The k cells, placed from a on, begin at w.
Starts(cells, a, k, w) ==
  /\ k \in 1..6 /\ Len(cells) = k /\ DOMAIN cells = 1..k
  /\ w[1] = a
  /\ \A n \in 2..k : w[n] = w[n - 1] + cells[n - 1].len

PlacedAs(cells, a, k, w) ==
  /\ DOMAIN Placed(cells, a) = {w[n] : n \in 1..k}
  /\ (\A m, n \in 1..k : w[m] = w[n] => m = n)
       => \A n \in 1..k : Placed(cells, a)[w[n]] = cells[n]

\* Cells are placed where each ends and the next begins.
LEMMA PlacedAt ==
  ASSUME NEW cells, NEW a, NEW k, NEW w, Starts(cells, a, k, w)
  PROVE  PlacedAs(cells, a, k, w)
<1>0. /\ k \in 1..6 /\ Len(cells) = k /\ DOMAIN cells = 1..k
      /\ w[1] = a
      /\ \A n \in 2..k : w[n] = w[n - 1] + cells[n - 1].len
  BY DEF Starts
<1> USE <1>0
<1> DEFINE F(f) == [n \in 1..k |-> IF n = 1 THEN a ELSE f[n - 1] + cells[n - 1].len]
           start == CHOOSE f : f = F(f)
           v == [n \in 1..k |-> w[n]]
<1>1. v = F(v)
  <2>1. \A n \in 1..k : v[n] = w[n]
    OBVIOUS
  <2>2. \A n \in 1..k : w[n] = F(v)[n]
    <3> SUFFICES ASSUME NEW n \in 1..k PROVE w[n] = F(v)[n]
      OBVIOUS
    <3> HIDE DEF v
    <3>1. CASE n = 1 BY <3>1
    <3>2. CASE n # 1
      <4>1. n \in 2..k /\ n - 1 \in 1..k
        BY <3>2
      <4> QED BY <2>1, <3>2, <4>1
    <3> QED BY <3>1, <3>2
  <2>3. F(v) = [n \in 1..k |-> F(v)[n]]
    OBVIOUS
  <2>4. [n \in 1..k |-> w[n]] = [n \in 1..k |-> F(v)[n]]
    <3> HIDE DEF F, v
    <3> QED BY <2>2
  <2> QED BY <2>3, <2>4, Zenon
<1>2. start = F(start)
  <2> HIDE DEF F, v
  <2> QED BY <1>1
<1>3. Placed(cells, a) = [b \in {start[n] : n \in 1..k} |->
                            cells[CHOOSE n \in 1..k : start[n] = b]]
  BY DEF Placed
<1> HIDE DEF start
<1>4. start[1] = a /\ \A n \in 2..k : start[n] = start[n - 1] + cells[n - 1].len
  <2>1. 1 \in 1..k /\ \A n \in 2..k : n \in 1..k /\ n # 1
    OBVIOUS
  <2>2. \A n \in 1..k : start[n] = IF n = 1 THEN a ELSE start[n - 1] + cells[n - 1].len
    <3>1. \A n \in 1..k : F(start)[n] = IF n = 1 THEN a ELSE start[n - 1] + cells[n - 1].len
      BY Zenon
    <3> HIDE DEF F
    <3> QED BY <1>2, <3>1
  <2> HIDE DEF F
  <2> QED BY <2>1, <2>2
<1> HIDE DEF F, v
<1>5. \A n \in 1..k : start[n] = w[n]
  <2>1. start[1] = w[1]
    BY <1>4
  <2>2. ASSUME NEW n \in 2..k, start[n - 1] = w[n - 1] PROVE start[n] = w[n]
    <3>1. start[n] = start[n - 1] + cells[n - 1].len
      BY <1>4
    <3>2. w[n] = w[n - 1] + cells[n - 1].len
      OBVIOUS
    <3> QED BY <2>2, <3>1, <3>2
  <2>3. ASSUME NEW n \in 1..5, n + 1 \in 2..k, start[n] = w[n] PROVE start[n + 1] = w[n + 1]
    <3>1. (n + 1) - 1 = n
      OBVIOUS
    <3> QED BY <2>2, <2>3, <3>1
  <2>4. 2 \in 2..k => start[2] = w[2]
    <3>1. 1 \in 1..5 /\ 1 + 1 = 2
      OBVIOUS
    <3> QED BY <2>1, <2>3, <3>1
  <2>5. 3 \in 2..k => start[3] = w[3]
    <3>1. 2 \in 1..5 /\ 2 + 1 = 3 /\ (3 \in 2..k => 2 \in 2..k)
      OBVIOUS
    <3> QED BY <2>3, <2>4, <3>1
  <2>6. 4 \in 2..k => start[4] = w[4]
    <3>1. 3 \in 1..5 /\ 3 + 1 = 4 /\ (4 \in 2..k => 3 \in 2..k)
      OBVIOUS
    <3> QED BY <2>3, <2>5, <3>1
  <2>7. 5 \in 2..k => start[5] = w[5]
    <3>1. 4 \in 1..5 /\ 4 + 1 = 5 /\ (5 \in 2..k => 4 \in 2..k)
      OBVIOUS
    <3> QED BY <2>3, <2>6, <3>1
  <2>8. 6 \in 2..k => start[6] = w[6]
    <3>1. 5 \in 1..5 /\ 5 + 1 = 6 /\ (6 \in 2..k => 5 \in 2..k)
      OBVIOUS
    <3> QED BY <2>3, <2>7, <3>1
  <2>9. \A n \in 1..k : n = 1 \/ n \in 2..k
    OBVIOUS
  <2>10. \A n \in 2..k : n = 2 \/ n = 3 \/ n = 4 \/ n = 5 \/ n = 6
    OBVIOUS
  <2> SUFFICES ASSUME NEW n \in 1..k PROVE start[n] = w[n]
    OBVIOUS
  <2>11. CASE n = 1
    BY <2>1, <2>11
  <2>12. CASE n \in 2..k
    BY <2>4, <2>5, <2>6, <2>7, <2>8, <2>10, <2>12
  <2> QED BY <2>9, <2>11, <2>12
<1>6. {start[n] : n \in 1..k} = {w[n] : n \in 1..k}
  BY <1>5
<1>7. DOMAIN Placed(cells, a) = {w[n] : n \in 1..k}
  BY <1>3, <1>6
<1>8. ASSUME \A m, n \in 1..k : w[m] = w[n] => m = n, NEW n \in 1..k
      PROVE  Placed(cells, a)[w[n]] = cells[n]
  <2>1. \A m \in 1..k : start[m] = w[n] <=> m = n
    BY <1>5, <1>8
  <2>2. (CHOOSE m \in 1..k : start[m] = w[n]) = n
    BY <2>1
  <2>3. w[n] \in {start[m] : m \in 1..k}
    BY <1>6
  <2>4. Placed(cells, a)[w[n]] = cells[CHOOSE m \in 1..k : start[m] = w[n]]
    BY <1>3, <2>3
  <2> QED BY <2>2, <2>4, Zenon
<1> QED BY <1>7, <1>8 DEF PlacedAs

\* One cell.
LEMMA PlacedOne ==
  ASSUME NEW c, NEW a, NEW b
  PROVE  Part(Placed(<<c>>, a), b) = IF b = a THEN <<c>> ELSE <<>>
<1> DEFINE w == [n \in 1..1 |-> a]
<1>1. /\ DOMAIN Placed(<<c>>, a) = {w[n] : n \in 1..1}
      /\ \A n \in 1..1 : Placed(<<c>>, a)[w[n]] = <<c>>[n]
  <2>1. Len(<<c>>) = 1 /\ DOMAIN <<c>> = 1..1
    OBVIOUS
  <2>2. w[1] = a
    OBVIOUS
  <2>3. \A n \in 2..1 : w[n] = w[n - 1] + <<c>>[n - 1].len
    OBVIOUS
  <2>4. \A m, n \in 1..1 : w[m] = w[n] => m = n
    OBVIOUS
  <2> HIDE DEF w
  <2>5. Starts(<<c>>, a, 1, w)
    BY <2>1, <2>2, <2>3 DEF Starts
  <2>6. PlacedAs(<<c>>, a, 1, w)
    BY <2>5, PlacedAt, Zenon
  <2> QED BY <2>4, <2>6, Zenon DEF PlacedAs
<1> QED BY <1>1 DEF Part

\* No cell.
LEMMA PlacedNone ==
  ASSUME NEW a, NEW b
  PROVE  Part(Placed(<<>>, a), b) = <<>>
<1>1. DOMAIN Placed(<<>>, a) = {}
  BY DEF Placed
<1> QED BY <1>1 DEF Part

\* Three words.
LEMMA PlacedThree ==
  ASSUME NEW x, NEW y, NEW z, NEW a \in Int, NEW b, x.len = 4, y.len = 4
  PROVE  Part(Placed(<<x, y, z>>, a), b) =
           IF b = a THEN <<x>> ELSE IF b = a + 4 THEN <<y>> ELSE IF b = a + 8 THEN <<z>> ELSE <<>>
<1> DEFINE s == <<x, y, z>>
           w == [n \in 1..3 |-> a + 4 * (n - 1)]
<1>1. /\ DOMAIN Placed(s, a) = {w[n] : n \in 1..3}
      /\ \A n \in 1..3 : Placed(s, a)[w[n]] = s[n]
  <2>1. Len(s) = 3 /\ DOMAIN s = 1..3 /\ s[1].len = 4 /\ s[2].len = 4
    OBVIOUS
  <2>2. w[1] = a /\ w[2] = a + 4 /\ w[3] = a + 8
    OBVIOUS
  <2> HIDE DEF w, s
  <2>3. \A n \in 2..3 : w[n] = w[n - 1] + s[n - 1].len
    <3>1. \A n \in 2..3 : n = 2 \/ n = 3
      OBVIOUS
    <3> QED BY <2>1, <2>2, <3>1
  <2>4. \A m, n \in 1..3 : w[m] = w[n] => m = n
    <3>1. \A n \in 1..3 : n = 1 \/ n = 2 \/ n = 3
      OBVIOUS
    <3> QED BY <2>2, <3>1
  <2>5. Starts(s, a, 3, w)
    BY <2>1, <2>2, <2>3 DEF Starts
  <2>6. PlacedAs(s, a, 3, w)
    BY <2>5, PlacedAt, Zenon
  <2> QED BY <2>4, <2>6, Zenon DEF PlacedAs
<1>2. w[1] = a /\ w[2] = a + 4 /\ w[3] = a + 8 /\ s[1] = x /\ s[2] = y /\ s[3] = z
  OBVIOUS
<1> HIDE DEF w, s
<1>3. {w[n] : n \in 1..3} = {a, a + 4, a + 8}
  <2>1. 1..3 = {1, 2, 3}
    OBVIOUS
  <2> QED BY <1>2, <2>1
<1>4. Part(Placed(s, a), b) =
           IF b = a THEN <<x>> ELSE IF b = a + 4 THEN <<y>> ELSE IF b = a + 8 THEN <<z>> ELSE <<>>
  BY <1>1, <1>2, <1>3 DEF Part
<1> QED BY <1>4 DEF s

\* An instruction is as long where it is moved to.
LEMMA MovedLength ==
  ASSUME NEW from, NEW to
  PROVE  CopyInstruction(from, to).len = At(from).len
<1>1. \A op, n, r, len : Cell(op, n, r, len).len = len
  BY DEF Cell
<1>2. \/ CopyInstruction(from, to) = At(from)
      \/ \E n : CopyInstruction(from, to) = Cell(At(from).op, n, At(from).r, At(from).len)
  <2>1. CASE At(from).op \in {"near", "mem", "b"}
    BY <2>1, Zenon DEF CopyInstruction
  <2>2. CASE At(from).op = "adrp"
    <3>1. ~(At(from).op \in {"near", "mem", "b"})
      BY <2>2
    <3> QED BY <2>2, <3>1, Zenon DEF CopyInstruction
  <2>3. CASE ~(At(from).op \in {"near", "mem", "b"}) /\ At(from).op # "adrp"
    BY <2>3 DEF CopyInstruction
  <2> QED BY <2>1, <2>2, <2>3
<1>3. CASE CopyInstruction(from, to) = At(from)
  BY <1>3
<1>4. CASE \E n : CopyInstruction(from, to) = Cell(At(from).op, n, At(from).r, At(from).len)
  <2>1. PICK n : CopyInstruction(from, to) = Cell(At(from).op, n, At(from).r, At(from).len)
    BY <1>4
  <2>2. Cell(At(from).op, n, At(from).r, At(from).len).len = At(from).len
    BY <1>1
  <2> QED BY <2>1, <2>2, Zenon
<1> QED BY <1>2, <1>3, <1>4

\* The instructions that are moved, and the jump back, are at the begin of the trampoline.
LEMMA MovedPlaced ==
  ASSUME NEW a \in Int, NEW t \in Int, SizeAt(a) \in {5, 12},
         \A b \in a..a + SizeAt(a) - 1 : At(b).len \in 1..15,
         NEW x, NEW y, x.len = 4, NEW back \in {<<x>>, <<x, y>>, <<y>>}
  PROVE  LET moved == [n \in 1..MovedCount(a) |-> CopyInstruction(Nth(a)[n], t + Nth(a)[n] - a)]
         IN  DOMAIN Placed(moved \o back, t) \subseteq t..t + 33
<1> DEFINE mc == MovedCount(a)
           N == Nth(a)
           moved == [n \in 1..mc |-> CopyInstruction(N[n], t + N[n] - a)]
           cells == moved \o back
           k == mc + Len(back)
           w == [n \in 1..k |-> IF n <= mc + 1 THEN t + N[n] - a ELSE t + N[mc + 1] - a + 4]
<1>1. mc \in 1..4 /\ Len(back) \in 1..2 /\ mc \in Int /\ k \in 1..6 /\ mc < k
  <2>1. Len(<<x>>) = 1 /\ Len(<<y>>) = 1 /\ Len(<<x, y>>) = 2
    OBVIOUS
  <2>2. Len(back) = 1 \/ Len(back) = 2
    BY <2>1
  <2>3. mc \in 1..4
    BY MovedFacts
  <2> HIDE DEF mc
  <2>4. k = mc + 1 \/ k = mc + 2
    BY <2>2
  <2>5. mc \in Int /\ Len(back) \in 1..2
    BY <2>2, <2>3
  <2> HIDE DEF k
  <2> QED BY <2>3, <2>4, <2>5
<1>2. \A n \in 1..mc : /\ N[n] \in a..a + SizeAt(a) - 1
                       /\ N[n + 1] \in Int /\ N[n + 1] - N[n] \in 1..15
                       /\ N[n + 1] = N[n] + At(N[n]).len
  <2>1. \A n \in 1..mc : n \in 1..PatchedCount(a)
    BY <1>1, PatchedCountFacts
  <2> QED BY <2>1, TakenFacts
<1>3. /\ Len(cells) = k /\ DOMAIN cells = 1..k
      /\ \A n \in 1..mc : cells[n] = moved[n]
      /\ cells[mc + 1] = back[1]
  <2> DEFINE S == {moved[n] : n \in 1..mc} \cup {x, y}
  <2>1. moved \in Seq(S) /\ Len(moved) = mc /\ \A n \in 1..mc : moved[n] = moved[n]
    <3>1. moved \in [1..mc -> S]
      BY Zenon
    <3>2. mc \in Nat
      BY <1>1
    <3> HIDE DEF moved, mc
    <3> QED BY <3>1, <3>2, SeqDef, LenProperties
  <2>2. back \in Seq(S)
    <3>1. x \in S /\ y \in S
      OBVIOUS
    <3> HIDE DEF S
    <3>2. <<x>> \in Seq(S) /\ <<y>> \in Seq(S) /\ <<x, y>> \in Seq(S)
      BY <3>1
    <3> QED BY <3>2
  <2> HIDE DEF moved, mc, S
  <2>3. /\ cells \in Seq(S) /\ Len(cells) = Len(moved) + Len(back)
        /\ \A n \in 1..Len(moved) + Len(back) :
             cells[n] = IF n <= Len(moved) THEN moved[n] ELSE back[n - Len(moved)]
    BY <2>1, <2>2, ConcatProperties
  <2>4. DOMAIN cells = 1..k
    BY <2>1, <2>3, LenProperties
  <2>5. mc + 1 \in 1..k /\ ~(mc + 1 <= mc) /\ (mc + 1) - mc = 1
    BY <1>1
  <2>6. \A n \in 1..mc : n \in 1..k /\ n <= mc
    BY <1>1
  <2> HIDE DEF cells
  <2> QED BY <2>1, <2>3, <2>4, <2>5, <2>6
<1>4. \A n \in 1..mc : cells[n].len = At(N[n]).len
  <2>1. \A n \in 1..mc : moved[n] = CopyInstruction(N[n], t + N[n] - a)
    BY Zenon
  <2> HIDE DEF moved, mc, N, cells
  <2> SUFFICES ASSUME NEW n \in 1..mc PROVE cells[n].len = At(N[n]).len
    OBVIOUS
  <2>2. cells[n] = CopyInstruction(N[n], t + N[n] - a)
    BY <1>3, <2>1
  <2>3. CopyInstruction(N[n], t + N[n] - a).len = At(N[n]).len
    BY MovedLength
  <2> QED BY <2>2, <2>3, Zenon
<1>5. \A n \in 1..mc + 1 : N[n] \in Int /\ N[n] - a \in 0..26
  <2>1. N[1] = a
    BY NthFacts
  <2> HIDE DEF N, mc
  <2>2. \A n \in 1..mc + 1 : n = 1 \/ (n - 1 \in 1..mc /\ (n - 1) + 1 = n)
    BY <1>1
  <2>3. SizeAt(a) \in 5..12
    OBVIOUS
  <2>4. ASSUME NEW m \in 1..mc PROVE N[m + 1] \in Int /\ N[m + 1] - a \in 0..26
    <3>1. /\ N[m] \in a..a + SizeAt(a) - 1
          /\ N[m + 1] \in Int /\ N[m + 1] - N[m] \in 1..15
      BY <1>2
    <3> QED BY <2>3, <3>1
  <2> QED BY <2>1, <2>2, <2>4
<1>6. k = mc + 1 \/ (k = mc + 2 /\ cells[mc + 1].len = 4)
  <2>1. back = <<x>> \/ back = <<y>> \/ back = <<x, y>>
    OBVIOUS
  <2>2. Len(<<x>>) = 1 /\ Len(<<y>>) = 1 /\ Len(<<x, y>>) = 2 /\ <<x, y>>[1] = x
    OBVIOUS
  <2> HIDE DEF mc, cells
  <2> QED BY <1>1, <1>3, <2>1, <2>2
<1> HIDE DEF mc, N, cells, k
<1>7. \A n \in 1..k : w[n] = IF n <= mc + 1 THEN t + N[n] - a ELSE t + N[mc + 1] - a + 4
  OBVIOUS
<1> HIDE DEF w
<1>9. w[1] = t
  <2>1. N[1] = a /\ 1 \in 1..k /\ 1 <= mc + 1
    BY <1>1, NthFacts DEF N
  <2> QED BY <1>7, <2>1
<1>10. \A n \in 2..k : w[n] = w[n - 1] + cells[n - 1].len
  <2> SUFFICES ASSUME NEW n \in 2..k PROVE w[n] = w[n - 1] + cells[n - 1].len
    OBVIOUS
  <2>1. n \in 1..k /\ n - 1 \in 1..k /\ n - 1 <= mc + 1 /\ n - 1 \in 1..mc + 1
    BY <1>1, <1>6
  <2>2. w[n - 1] = t + N[n - 1] - a
    BY <1>7, <2>1
  <2>3. CASE n <= mc + 1
    <3>1. n - 1 \in 1..mc /\ (n - 1) + 1 = n
      BY <1>1, <2>1, <2>3
    <3>2. N[n] = N[n - 1] + At(N[n - 1]).len /\ cells[n - 1].len = At(N[n - 1]).len
      BY <1>2, <1>4, <3>1
    <3>3. w[n] = t + N[n] - a
      BY <1>7, <2>1, <2>3
    <3>4. N[n] \in Int /\ N[n - 1] \in Int
      BY <1>1, <1>5, <2>1, <2>3
    <3>5. N[n] - N[n - 1] \in 1..15
      BY <1>2, <3>1
    <3>6. At(N[n - 1]).len \in Int
      <4>1. N[n - 1] \in a..a + SizeAt(a) - 1
        BY <1>2, <3>1
      <4>2. At(N[n - 1]).len \in 1..15
        BY <4>1
      <4> QED BY <4>2
    <3> QED BY <2>2, <3>2, <3>3, <3>4, <3>6
  <2>4. CASE ~(n <= mc + 1)
    <3>1. n = mc + 2 /\ n - 1 = mc + 1 /\ cells[mc + 1].len = 4
      BY <1>1, <1>6, <2>4
    <3>2. w[n] = t + N[mc + 1] - a + 4
      BY <1>7, <2>1, <2>4
    <3> QED BY <2>2, <3>1, <3>2
  <2> QED BY <2>3, <2>4
<1>11. DOMAIN Placed(cells, t) = {w[n] : n \in 1..k}
  <2>1. k \in 1..6 /\ Len(cells) = k /\ DOMAIN cells = 1..k
    BY <1>1, <1>3
  <2>2. /\ DOMAIN Placed(cells, t) = {w[n] : n \in 1..k}
        /\ (\A m, n \in 1..k : w[m] = w[n] => m = n)
              => \A n \in 1..k : Placed(cells, t)[w[n]] = cells[n]
    <3>1. Starts(cells, t, k, w)
      BY <2>1, <1>9, <1>10, Zenon DEF Starts
    <3>2. PlacedAs(cells, t, k, w)
      BY <3>1, PlacedAt, Zenon
    <3> QED BY <3>2, Zenon DEF PlacedAs
  <2> QED BY <2>2, Zenon
<1>12. \A n \in 1..k : w[n] \in t..t + 33
  <2> SUFFICES ASSUME NEW n \in 1..k PROVE w[n] \in t..t + 33
    OBVIOUS
  <2>1. CASE n <= mc + 1
    <3>1. n \in 1..mc + 1
      BY <1>1, <2>1
    <3>2. N[n] \in Int /\ N[n] - a \in 0..26 /\ w[n] = t + N[n] - a
      BY <1>5, <1>7, <2>1, <3>1
    <3> QED BY <3>2
  <2>2. CASE ~(n <= mc + 1)
    <3>1. mc + 1 \in 1..mc + 1
      BY <1>1
    <3>2. N[mc + 1] \in Int /\ N[mc + 1] - a \in 0..26 /\ w[n] = t + N[mc + 1] - a + 4
      BY <1>5, <1>7, <2>2, <3>1
    <3> QED BY <3>2
  <2> QED BY <2>1, <2>2
<1>13. DOMAIN Placed(cells, t) \subseteq t..t + 33
  BY <1>11, <1>12
<1> QED BY <1>13 DEF cells, mc, N

-----------------------------------------------------------------------------
(* Numbers, trampolines and code.                                          *)

\* The offsets in a trampoline, in their order.
LEMMA NumberFacts ==
  /\ Pool \in Nat /\ RemainSlot \in Nat /\ DetourSlot \in Nat /\ CodeIn \in Nat
  /\ TrampolineSize \in Nat /\ PageSize \in Nat
  /\ 34 <= CodeIn /\ CodeIn + 6 <= TrampolineSize
  /\ RemainSlot < DetourSlot /\ Pool < DetourSlot /\ DetourSlot < CodeIn
  /\ PageSize > 0
BY JumpsAssumption, JumpsNumbers

\* Trampolines are at multiples of eight.
LEMMA TrampolineFacts ==
  ASSUME NEW t \in AnyTrampoline
  PROVE  t \in Nat /\ t % 8 = 0
<1>1. PICK arm \in BOOLEAN : t \in Trampolines[arm]
  BY DEF AnyTrampoline
<1>2. Trampolines[arm] \in SUBSET Nat
  BY JumpsNumbers
<1> QED BY <1>1, <1>2, JumpsAssumption

\* An address is in one trampoline at most.
LEMMA TrampolinesApart ==
  ASSUME NEW t \in AnyTrampoline, NEW u \in AnyTrampoline, NEW a \in Int,
         t <= a, a < t + TrampolineSize, u <= a, a < u + TrampolineSize
  PROVE  t = u
<1>1. t \in Int /\ u \in Int /\ TrampolineSize \in Int
  BY TrampolineFacts, NumberFacts
<1>2. (t < u => t + TrampolineSize <= u) /\ (u < t => u + TrampolineSize <= t)
  BY JumpsNumbers
<1> QED BY <1>1, <1>2

\* Code in a trampoline is of the kind of the trampoline, other code as given.
LEMMA EcFacts ==
  ASSUME layout \in Layouts, NEW a \in Int
  PROVE  /\ ~InTrampoline(a) => (IsEcCode(a) <=> a \in layout.ec)
         /\ \A t \in Trampolines[FALSE] : t <= a /\ a < t + TrampolineSize =>
              ~IsEcCode(a) /\ a \notin layout.ec /\ InTrampoline(a)
         /\ \A t \in Trampolines[TRUE] : t <= a /\ a < t + TrampolineSize =>
              IsEcCode(a) /\ a \notin layout.ec /\ InTrampoline(a)
<1>1. \A x \in layout.ec : ~InTrampoline(x)
  BY JumpsLayouts DEF ProperCode
<1>2. \A t \in Trampolines[FALSE] : t \in AnyTrampoline /\ t \notin Trampolines[TRUE]
  BY JumpsNumbers DEF AnyTrampoline
<1>3. \A t \in Trampolines[TRUE] : t \in AnyTrampoline
  BY DEF AnyTrampoline
<1>4. ~InTrampoline(a) => (IsEcCode(a) <=> a \in layout.ec)
  BY <1>3 DEF IsEcCode, InTrampoline
<1>5. ASSUME NEW t \in Trampolines[FALSE], t <= a, a < t + TrampolineSize
      PROVE  ~IsEcCode(a) /\ a \notin layout.ec /\ InTrampoline(a)
  <2>1. InTrampoline(a)
    BY <1>2, <1>5 DEF InTrampoline
  <2>2. ASSUME NEW u \in Trampolines[TRUE], u <= a, a < u + TrampolineSize PROVE FALSE
    <3>1. t = u
      BY <1>2, <1>3, <1>5, <2>2, TrampolinesApart
    <3> QED BY <1>2, <3>1
  <2>3. a \notin layout.ec
    BY <1>1, <2>1
  <2> QED BY <2>1, <2>2, <2>3 DEF IsEcCode
<1>6. ASSUME NEW t \in Trampolines[TRUE], t <= a, a < t + TrampolineSize
      PROVE  IsEcCode(a) /\ a \notin layout.ec /\ InTrampoline(a)
  <2>1. InTrampoline(a) /\ IsEcCode(a)
    BY <1>3, <1>6 DEF InTrampoline, IsEcCode
  <2> QED BY <1>1, <2>1
<1> QED BY <1>4, <1>5, <1>6

\* Where code is of the kind the layout says, so is the jump.
LEMMA JumpSizes ==
  ASSUME NEW s, IsEcCode(s) <=> s \in layout.ec
  PROVE  SizeAt(s) = JumpAt(s) /\ JumpAt(s) \in {5, 12} /\ JumpAt(s) \in Int
           /\ JumpAt(s) = IF s \in layout.ec THEN 12 ELSE 5
<1>1. IsEcCode(s) \in BOOLEAN
  BY DEF IsEcCode
<1>2. JumpSize[IsEcCode(s)] = JumpOn(IsEcCode(s))
  BY <1>1, JumpsNumbers, Zenon
<1>3. IsEcCode(s) = (s \in layout.ec)
  BY <1>1
<1>4. SizeAt(s) = JumpAt(s)
  BY <1>2, <1>3, Zenon DEF SizeAt, JumpAt
<1>5. JumpAt(s) = IF s \in layout.ec THEN 12 ELSE 5
  BY DEF JumpAt, JumpOn
<1> QED BY <1>4, <1>5

\* The jump at s to trampoline t is written as it is recognised.
LEMMA JumpPlaced ==
  ASSUME NEW s \in Int, NEW t, NEW a \in Int
  PROVE  Part(Placed(IF s \in layout.ec THEN JmpIndirectArm64(s, t + DetourSlot)
                     ELSE <<JmpImmediate(s, t + CodeIn)>>, s), a) = JumpCell(s, t, a)
<1>1. CASE s \notin layout.ec
  <2>1. Part(Placed(<<JmpImmediate(s, t + CodeIn)>>, s), a)
          = IF a = s THEN <<JmpImmediate(s, t + CodeIn)>> ELSE <<>>
    BY PlacedOne
  <2> QED BY <1>1, <2>1 DEF JumpCell
<1>2. CASE s \in layout.ec
  <2> DEFINE x == Adrp(17, (PageOf(t + DetourSlot) - PageOf(s)) \div PageSize)
             y == Ldr(17, ((t + DetourSlot) % PageSize) \div 8)
             z == Br(17)
             jump == JmpIndirectArm64(s, t + DetourSlot)
  <2>1. jump = <<x, y, z>>
    BY DEF JmpIndirectArm64
  <2>2. x.len = 4 /\ y.len = 4
    BY DEF Adrp, Ldr, Cell
  <2> HIDE DEF x, y, z, jump
  <2>3. Part(Placed(<<x, y, z>>, s), a) =
          IF a = s THEN <<x>> ELSE IF a = s + 4 THEN <<y>> ELSE IF a = s + 8 THEN <<z>> ELSE <<>>
    BY <2>2, PlacedThree
  <2>4. jump[1] = x /\ jump[2] = y /\ jump[3] = z
    BY <2>1
  <2>5. JumpCell(s, t, a) = IF a \in {s, s + 4, s + 8} THEN <<jump[1 + (a - s) \div 4]>> ELSE <<>>
    BY <1>2 DEF JumpCell, jump
  <2>6. JumpCell(s, t, a) =
          IF a = s THEN <<x>> ELSE IF a = s + 4 THEN <<y>> ELSE IF a = s + 8 THEN <<z>> ELSE <<>>
    <3>1. CASE a = s
      <4>1. 1 + (a - s) \div 4 = 1
        BY <3>1
      <4> QED BY <2>4, <2>5, <3>1, <4>1
    <3>2. CASE a = s + 4
      <4>1. 1 + (a - s) \div 4 = 2
        BY <3>2
      <4> QED BY <2>4, <2>5, <3>2, <4>1
    <3>3. CASE a = s + 8
      <4>1. 1 + (a - s) \div 4 = 3
        BY <3>3
      <4> QED BY <2>4, <2>5, <3>3, <4>1
    <3>4. CASE a \notin {s, s + 4, s + 8}
      BY <2>5, <3>4
    <3> QED BY <3>1, <3>2, <3>3, <3>4
  <2> QED BY <1>2, <2>1, <2>3, <2>6 DEF jump
<1> QED BY <1>1, <1>2

\* At addresses.
LEMMA JumpPlacedInt ==
  ASSUME NEW s \in Int, NEW t, NEW a,
         Part(Placed(IF s \in layout.ec THEN JmpIndirectArm64(s, t + DetourSlot)
                     ELSE <<JmpImmediate(s, t + CodeIn)>>, s), a) # <<>>
  PROVE  a \in Int
<1>1. CASE s \notin layout.ec
  <2>1. Part(Placed(<<JmpImmediate(s, t + CodeIn)>>, s), a)
          = IF a = s THEN <<JmpImmediate(s, t + CodeIn)>> ELSE <<>>
    BY PlacedOne
  <2> QED BY <1>1, <2>1
<1>2. CASE s \in layout.ec
  <2> DEFINE x == Adrp(17, (PageOf(t + DetourSlot) - PageOf(s)) \div PageSize)
             y == Ldr(17, ((t + DetourSlot) % PageSize) \div 8)
             z == Br(17)
             jump == JmpIndirectArm64(s, t + DetourSlot)
  <2>1. jump = <<x, y, z>>
    BY DEF JmpIndirectArm64
  <2>2. x.len = 4 /\ y.len = 4
    BY DEF Adrp, Ldr, Cell
  <2> HIDE DEF x, y, z, jump
  <2>3. Part(Placed(<<x, y, z>>, s), a) =
          IF a = s THEN <<x>> ELSE IF a = s + 4 THEN <<y>> ELSE IF a = s + 8 THEN <<z>> ELSE <<>>
    BY <2>2, PlacedThree
  <2>4. Part(Placed(<<x, y, z>>, s), a) # <<>>
    BY <1>2, <2>1 DEF jump
  <2> QED BY <2>3, <2>4
<1> QED BY <1>1, <1>2

\* And nowhere else than where it is looked at.
LEMMA JumpWithin ==
  ASSUME NEW s \in Int, NEW t, NEW a \in Int, ~(s <= a /\ a < s + JumpAt(s))
  PROVE  JumpCell(s, t, a) = <<>>
<1>1. JumpAt(s) = IF s \in layout.ec THEN 12 ELSE 5
  BY DEF JumpAt, JumpOn
<1>2. CASE s \notin layout.ec
  BY <1>1, <1>2 DEF JumpCell
<1>3. CASE s \in layout.ec
  <2>1. a \notin {s, s + 4, s + 8}
    BY <1>1, <1>3
  <2> QED BY <1>3, <2>1 DEF JumpCell
<1> QED BY <1>2, <1>3

\* What is behind the jump of a hook, without another one.
LEMMA BaseOnHook ==
  ASSUME layout \in Layouts, NEW t \in Trampolines[FALSE], NEW a \in t + CodeIn..t + CodeIn + 5
  PROVE  Base(a) = IF a = t + CodeIn THEN <<JmpIndirect(t + CodeIn, t + DetourSlot)>> ELSE <<>>
<1>1. t \in AnyTrampoline /\ t \in Int
  <2>1. t \in AnyTrampoline
    BY DEF AnyTrampoline
  <2> QED BY <2>1, TrampolineFacts
<1>2. \A b \in DOMAIN layout.image : ~InTrampoline(b)
  BY JumpsLayouts DEF ProperCode
<1>3. a \in Int /\ t <= a /\ a < t + TrampolineSize
  BY <1>1, NumberFacts
<1>4. CASE a = t + CodeIn
  <2>1. a - CodeIn + DetourSlot = t + DetourSlot
    BY <1>1, <1>4, NumberFacts
  <2> QED BY <1>4, <2>1 DEF Base
<1>5. CASE a # t + CodeIn
  <2>1. InTrampoline(a)
    BY <1>1, <1>3 DEF InTrampoline
  <2>2. Part(layout.image, a) = <<>>
    BY <1>2, <2>1 DEF Part
  <2>3. ASSUME NEW u \in Trampolines[FALSE], a = u + CodeIn PROVE FALSE
    <3>1. u \in AnyTrampoline
      BY DEF AnyTrampoline
    <3>2. u \in Nat
      BY <3>1, TrampolineFacts
    <3>3. u <= a /\ a < u + TrampolineSize
      BY <2>3, <3>2, NumberFacts
    <3>4. u = t
      BY <1>1, <1>3, <3>1, <3>3, TrampolinesApart
    <3> QED BY <1>5, <2>3, <3>4
  <2> QED BY <1>5, <2>2, <2>3 DEF Base
<1> QED BY <1>4, <1>5

\* A hook may be put at s with t: what is taken is known as far as the jump reaches,
\* and apart from the trampoline, which nothing is in.
MayBePut(s, t, remain) ==
  /\ layout \in Layouts /\ s \in Int /\ remain \in Int
  /\ IsEcCode(s) <=> s \in layout.ec
  /\ t \in Trampolines[(s \in layout.ec)]
  /\ \A b \in s..s + JumpAt(s) - 1 : At(b).len \in 1..15
  /\ s + JumpAt(s) <= remain
  /\ \A a \in s..remain - 1 : ~(t <= a /\ a < t + TrampolineSize)
  /\ \A a \in t..t + TrampolineSize - 1 : a \notin DOMAIN code

\* The jump is at s, and in code of x64 another one in the trampoline.
PutParts(c, s, t, remain) ==
  /\ IsFunction(c)
  /\ \A a \in DOMAIN c : a \in Int \/ a \in DOMAIN code
  /\ HasJump(c, s, t)
  /\ \A a \in Int : ~(s <= a /\ a < remain) /\ ~(t <= a /\ a < t + TrampolineSize)
       => Part(c, a) = Part(code, a)
  /\ t \in Trampolines[FALSE] =>
       \A a \in t + CodeIn..t + CodeIn + 5 : Part(c, a) = Base(a)

\* Attaching at s, with a trampoline nothing is in, writes the jump, the trampoline
\* with the jump behind it, and takes away what remain is the end of.
LEMMA PatchedParts ==
  ASSUME NEW s, NEW t, NEW remain, MayBePut(s, t, remain),
         NEW c, c = Patched(s, t, remain, IsEcCode(s))
  PROVE  PutParts(c, s, t, remain)
<1> SUFFICES ASSUME layout \in Layouts, s \in Int, remain \in Int,
         IsEcCode(s) <=> s \in layout.ec, t \in Trampolines[(s \in layout.ec)],
         \A b \in s..s + JumpAt(s) - 1 : At(b).len \in 1..15,
         s + JumpAt(s) <= remain,
         \A a \in s..remain - 1 : ~(t <= a /\ a < t + TrampolineSize),
         \A a \in t..t + TrampolineSize - 1 : a \notin DOMAIN code
  PROVE  /\ IsFunction(c)
         /\ \A a \in DOMAIN c : a \in Int \/ a \in DOMAIN code
         /\ HasJump(c, s, t)
         /\ \A a \in Int : ~(s <= a /\ a < remain) /\ ~(t <= a /\ a < t + TrampolineSize)
              => Part(c, a) = Part(code, a)
         /\ t \in Trampolines[FALSE] =>
              \A a \in t + CodeIn..t + CodeIn + 5 : Part(c, a) = Base(a)
  BY DEF MayBePut, PutParts
<1> DEFINE arm == IsEcCode(s)
           nth == Nth(s)
           moved == [n \in 1..MovedCount(s) |-> CopyInstruction(nth[n], t + nth[n] - s)]
           end == t + nth[MovedCount(s) + 1] - s
           back == IF arm THEN <<LdrPc(17, t + Pool - end), Br(17)>>
                          ELSE <<JmpIndirect(end, t + RemainSlot)>>
           jump == IF arm THEN JmpIndirectArm64(s, t + DetourSlot)
                          ELSE <<JmpImmediate(s, t + CodeIn)>>
           codeIn == IF arm THEN <<>> ELSE <<JmpIndirect(t + CodeIn, t + DetourSlot)>>
           P == Placed(jump, s)
           Q == Placed(moved \o back, t)
           R == Placed(codeIn, t + CodeIn)
           W == Without(code, s, remain)
<1>1. c = Over(P, Over(Q, Over(R, W)))
  BY Zenon DEF Patched
<1>2. t \in AnyTrampoline /\ t \in Int
  <2>1. t \in AnyTrampoline
    <3>1. (s \in layout.ec) = TRUE \/ (s \in layout.ec) = FALSE
      OBVIOUS
    <3> QED BY <3>1 DEF AnyTrampoline
  <2> QED BY <2>1, TrampolineFacts
<1>3. JumpAt(s) \in Int /\ JumpAt(s) \in {5, 12} /\ SizeAt(s) = JumpAt(s)
  BY JumpSizes
<1>4. DOMAIN Q \subseteq t..t + 33
  <2> DEFINE x == LdrPc(17, t + Pool - end)
             y == IF arm THEN Br(17) ELSE JmpIndirect(end, t + RemainSlot)
  <2>1. x.len = 4
    BY DEF LdrPc, Cell
  <2>2. back \in {<<x>>, <<x, y>>, <<y>>}
    BY Zenon
  <2> HIDE DEF x, y, back, end
  <2>3. SizeAt(s) \in {5, 12} /\ \A b \in s..s + SizeAt(s) - 1 : At(b).len \in 1..15
    BY <1>3
  <2> QED BY <1>2, <2>1, <2>2, <2>3, MovedPlaced, Zenon
<1>5. \A a \in Int : Part(P, a) = JumpCell(s, t, a)
  <2>1. P = Placed(IF s \in layout.ec THEN JmpIndirectArm64(s, t + DetourSlot)
                     ELSE <<JmpImmediate(s, t + CodeIn)>>, s)
    BY Zenon
  <2> HIDE DEF P
  <2> QED BY <2>1, JumpPlaced
<1>6. \A a \in Int : Part(R, a) = IF s \notin layout.ec /\ a = t + CodeIn
                                  THEN <<JmpIndirect(t + CodeIn, t + DetourSlot)>> ELSE <<>>
  <2> SUFFICES ASSUME NEW a \in Int
               PROVE Part(R, a) = IF s \notin layout.ec /\ a = t + CodeIn
                                  THEN <<JmpIndirect(t + CodeIn, t + DetourSlot)>> ELSE <<>>
    OBVIOUS
  <2>1. CASE s \in layout.ec
    <3>1. R = Placed(<<>>, t + CodeIn)
      BY <2>1
    <3>2. Part(R, a) = <<>>
      BY <3>1, PlacedNone
    <3> QED BY <2>1, <3>2
  <2>2. CASE s \notin layout.ec
    <3>1. R = Placed(<<JmpIndirect(t + CodeIn, t + DetourSlot)>>, t + CodeIn)
      BY <2>2
    <3> HIDE DEF R
    <3>2. Part(R, a) = IF a = t + CodeIn
                       THEN <<JmpIndirect(t + CodeIn, t + DetourSlot)>> ELSE <<>>
      BY <3>1, PlacedOne
    <3> QED BY <2>2, <3>2
  <2> QED BY <2>1, <2>2
<1>20. \A a \in DOMAIN P : a \in Int
  <2> SUFFICES ASSUME NEW a \in DOMAIN P PROVE a \in Int
    OBVIOUS
  <2>1. Part(P, a) # <<>>
    BY DEF Part
  <2>2. P = Placed(IF s \in layout.ec THEN JmpIndirectArm64(s, t + DetourSlot)
                     ELSE <<JmpImmediate(s, t + CodeIn)>>, s)
    BY Zenon
  <2> HIDE DEF P
  <2> QED BY <2>1, <2>2, JumpPlacedInt
<1>21. \A a \in DOMAIN R : a \in Int
  <2> SUFFICES ASSUME NEW a \in DOMAIN R PROVE a \in Int
    OBVIOUS
  <2>1. Part(R, a) # <<>>
    BY DEF Part
  <2>2. R = Placed(<<>>, t + CodeIn) \/ R = Placed(<<JmpIndirect(t + CodeIn, t + DetourSlot)>>, t + CodeIn)
    BY Zenon
  <2> HIDE DEF R
  <2>3. t + CodeIn \in Int
    BY <1>2, NumberFacts
  <2>4. Part(Placed(<<>>, t + CodeIn), a) = <<>>
    BY PlacedNone
  <2>5. Part(Placed(<<JmpIndirect(t + CodeIn, t + DetourSlot)>>, t + CodeIn), a)
          = IF a = t + CodeIn THEN <<JmpIndirect(t + CodeIn, t + DetourSlot)>> ELSE <<>>
    BY PlacedOne
  <2> QED BY <2>1, <2>2, <2>3, <2>4, <2>5
<1> HIDE DEF P, Q, R, arm
<1>7. /\ IsFunction(c)
      /\ DOMAIN c = DOMAIN P \cup (DOMAIN Q \cup (DOMAIN R \cup DOMAIN W))
  <2>1. DOMAIN Over(R, W) = DOMAIN R \cup DOMAIN W
    BY FunctionOver
  <2>2. DOMAIN Over(Q, Over(R, W)) = DOMAIN Q \cup DOMAIN Over(R, W)
    BY FunctionOver
  <2>3. /\ IsFunction(Over(P, Over(Q, Over(R, W))))
        /\ DOMAIN Over(P, Over(Q, Over(R, W))) = DOMAIN P \cup DOMAIN Over(Q, Over(R, W))
    BY FunctionOver
  <2> QED BY <1>1, <2>1, <2>2, <2>3
<1>8. \A a : a \in DOMAIN W => a \in DOMAIN code
  BY DEF Without, Restrict
<1>9. \A a \in Int : Part(c, a) = IF a \in DOMAIN P THEN Part(P, a)
                                  ELSE IF a \in DOMAIN Q THEN Part(Q, a)
                                  ELSE IF a \in DOMAIN R THEN Part(R, a) ELSE Part(W, a)
  <2> SUFFICES ASSUME NEW a \in Int
               PROVE Part(c, a) = IF a \in DOMAIN P THEN Part(P, a)
                                  ELSE IF a \in DOMAIN Q THEN Part(Q, a)
                                  ELSE IF a \in DOMAIN R THEN Part(R, a) ELSE Part(W, a)
    OBVIOUS
  <2>1. Part(c, a) = IF a \in DOMAIN P THEN Part(P, a) ELSE Part(Over(Q, Over(R, W)), a)
    BY <1>1, PartOver
  <2>2. Part(Over(Q, Over(R, W)), a)
          = IF a \in DOMAIN Q THEN Part(Q, a) ELSE Part(Over(R, W), a)
    BY PartOver
  <2>3. Part(Over(R, W), a) = IF a \in DOMAIN R THEN Part(R, a) ELSE Part(W, a)
    BY PartOver
  <2> QED BY <2>1, <2>2, <2>3
<1>10. \A a : (a \in DOMAIN P <=> Part(P, a) # <<>>) /\ (a \in DOMAIN R <=> Part(R, a) # <<>>)
  BY DEF Part
<1>11. \A a \in Int : Part(W, a) = IF a < s \/ a >= remain THEN Part(code, a) ELSE <<>>
  BY PartWithout
<1>12. \A a \in Int : a \in DOMAIN P => s <= a /\ a < s + JumpAt(s)
  BY <1>5, <1>10, JumpWithin
<1>13. \A a \in Int : a \in DOMAIN R => a = t + CodeIn
  BY <1>6, <1>10
<1> HIDE DEF W
<1>14. 34 <= CodeIn /\ CodeIn + 6 <= TrampolineSize /\ CodeIn \in Int /\ TrampolineSize \in Int
  BY NumberFacts
<1>15. \A a \in Int : a \in s..remain - 1 => a \notin DOMAIN Q /\ a \notin DOMAIN R
  <2> SUFFICES ASSUME NEW a \in Int, a \in s..remain - 1
               PROVE  a \notin DOMAIN Q /\ a \notin DOMAIN R
    OBVIOUS
  <2>1. ~(t <= a /\ a < t + TrampolineSize)
    OBVIOUS
  <2>2. a \notin t..t + 33 /\ a # t + CodeIn
    BY <1>2, <1>14, <2>1
  <2> QED BY <1>4, <1>13, <2>2
<1>16. HasJump(c, s, t)
  <2> SUFFICES ASSUME NEW a \in s..s + JumpAt(s) - 1 PROVE Part(c, a) = JumpCell(s, t, a)
    BY DEF HasJump
  <2>1. a \in Int /\ a \in s..remain - 1
    BY <1>3
  <2>2. CASE a \in DOMAIN P
    BY <1>5, <1>9, <2>1, <2>2
  <2>3. CASE a \notin DOMAIN P
    <3>1. Part(P, a) = <<>>
      BY <1>10, <2>3
    <3>2. Part(c, a) = <<>>
      <4>1. Part(W, a) = <<>>
        <5>1. ~(a < s \/ a >= remain)
          BY <2>1
        <5> QED BY <1>11, <2>1, <5>1
      <4> QED BY <1>9, <1>15, <2>1, <2>3, <4>1
    <3> QED BY <1>5, <2>1, <3>1, <3>2
  <2> QED BY <2>2, <2>3
<1>17. ASSUME NEW a \in Int, ~(s <= a /\ a < remain), ~(t <= a /\ a < t + TrampolineSize)
       PROVE  Part(c, a) = Part(code, a)
  <2>1. a \notin DOMAIN P
    BY <1>3, <1>12, <1>17
  <2>2. a \notin DOMAIN Q
    BY <1>2, <1>4, <1>14, <1>17
  <2>3. a \notin DOMAIN R
    BY <1>2, <1>13, <1>14, <1>17
  <2>4. a < s \/ a >= remain
    BY <1>17
  <2> QED BY <1>9, <1>11, <2>1, <2>2, <2>3, <2>4
<1>18. ASSUME t \in Trampolines[FALSE], NEW a \in t + CodeIn..t + CodeIn + 5
       PROVE  Part(c, a) = Base(a)
  <2>1. s \notin layout.ec
    <3>1. Trampolines[FALSE] \cap Trampolines[TRUE] = {}
      BY JumpsNumbers
    <3>2. t \notin Trampolines[TRUE]
      BY <1>18, <3>1
    <3>3. CASE s \in layout.ec
      <4>1. (s \in layout.ec) = TRUE
        BY <3>3
      <4> QED BY <3>2, <4>1
    <3> QED BY <3>3
  <2>2. a \in Int /\ t <= a /\ a < t + TrampolineSize
    BY <1>2, <1>14
  <2>3. a \notin DOMAIN P
    <3>1. a \notin s..remain - 1
      BY <2>2
    <3> QED BY <1>3, <1>12, <2>2, <3>1
  <2>4. a \notin DOMAIN Q
    <3>1. a \notin t..t + 33
      BY <1>2, <1>14
    <3> QED BY <1>4, <3>1
  <2>5. Part(W, a) = <<>>
    <3>1. a \in t..t + TrampolineSize - 1
      BY <1>2, <1>14, <2>2
    <3>2. Part(code, a) = <<>>
      BY <3>1 DEF Part
    <3> QED BY <1>11, <2>2, <3>2
  <2>6. Part(c, a) = IF a \in DOMAIN R THEN Part(R, a) ELSE <<>>
    BY <1>9, <2>2, <2>3, <2>4, <2>5
  <2>7. Part(c, a) = Part(R, a)
    BY <1>10, <2>6
  <2>8. Part(R, a) = IF a = t + CodeIn
                     THEN <<JmpIndirect(t + CodeIn, t + DetourSlot)>> ELSE <<>>
    BY <1>6, <2>1, <2>2
  <2>9. Base(a) = IF a = t + CodeIn
                  THEN <<JmpIndirect(t + CodeIn, t + DetourSlot)>> ELSE <<>>
    BY <1>18, BaseOnHook
  <2> QED BY <2>7, <2>8, <2>9
<1>19. \A a \in DOMAIN c : a \in Int \/ a \in DOMAIN code
  <2> SUFFICES ASSUME NEW a \in DOMAIN c PROVE a \in Int \/ a \in DOMAIN code
    OBVIOUS
  <2>1. CASE a \in DOMAIN P
    BY <1>20, <2>1
  <2>2. CASE a \in DOMAIN Q
    BY <1>2, <1>4, <2>2
  <2>3. CASE a \in DOMAIN R
    BY <1>21, <2>3
  <2>4. CASE a \in DOMAIN W
    BY <1>8, <2>4
  <2> QED BY <1>7, <2>1, <2>2, <2>3, <2>4
<1> QED BY <1>7, <1>16, <1>17, <1>18, <1>19

-----------------------------------------------------------------------------
(* Jumps to different trampolines are different.                           *)

\* The quotient and the remainder of a number are the only ones.
LEMMA Division ==
  ASSUME NEW b \in Nat \ {0}, NEW q \in Int, NEW r \in Int, 0 <= r, r < b
  PROVE  (b * q + r) \div b = q /\ (b * q + r) % b = r
<1>1. (b * q + r) \div b = q
  BY SMT
<1>2. (b * q + r) % b = r
  BY SMT
<1> QED BY <1>1, <1>2

\* A number is its quotient and its remainder.
LEMMA Divided ==
  ASSUME NEW a \in Int, NEW b \in Nat \ {0}
  PROVE  /\ a \div b \in Int /\ a % b \in Int /\ a = b * (a \div b) + (a % b)
         /\ 0 <= a % b /\ a % b < b
  BY SMT

\* Pages are as far from one another as their numbers.
LEMMA PageDistance ==
  ASSUME NEW a \in Int, NEW b \in Int
  PROVE  (PageOf(a) - PageOf(b)) \div PageSize = (a \div PageSize) - (b \div PageSize)
           /\ PageOf(a) \in Int /\ PageOf(b) \in Int
<1> DEFINE p == PageSize
           i == a \div p
           j == b \div p
<1>1. p \in Nat \ {0}
  BY NumberFacts
<1>2. i \in Int /\ j \in Int /\ a % p \in Int /\ b % p \in Int
        /\ a = p * i + (a % p) /\ b = p * j + (b % p)
  BY <1>1, Divided
<1>3. PageOf(a) = a - (a % p) /\ PageOf(b) = b - (b % p)
  BY DEF PageOf
<1> HIDE DEF p, i, j
<1>4. p * i \in Int /\ p * j \in Int /\ p * (i - j) = p * i - p * j
  BY <1>1, <1>2, SMT
<1>5. PageOf(a) - PageOf(b) = p * (i - j) + 0
  BY <1>2, <1>3, <1>4
<1>6. (p * (i - j) + 0) \div p = i - j
  <2>1. i - j \in Int /\ 0 \in Int /\ 0 <= 0 /\ 0 < p
    BY <1>1, <1>2
  <2> QED BY <1>1, <2>1, Division
<1> QED BY <1>2, <1>3, <1>5, <1>6 DEF p, i, j

\* A slot is found by its page and its word.
LEMMA SlotFound ==
  ASSUME NEW x \in Int, NEW y \in Int, x % 8 = 0, y % 8 = 0,
         x \div PageSize = y \div PageSize,
         (x % PageSize) \div 8 = (y % PageSize) \div 8
  PROVE  x = y
<1> DEFINE p == PageSize
           k == p \div 8
<1>1. p \in Nat \ {0} /\ p % 8 = 0
  BY NumberFacts, JumpsNumbers
<1>2. k \in Int /\ p = 8 * k
  <2>1. k \in Int /\ p = 8 * k + (p % 8) /\ p \in Int
    BY <1>1, Divided
  <2> HIDE DEF k, p
  <2> QED BY <1>1, <2>1
<1>3. ASSUME NEW z \in Int, z % 8 = 0
      PROVE  z % p \in Int /\ z \div p \in Int /\ z = p * (z \div p) + (z % p)
               /\ z % p = 8 * ((z % p) \div 8)
  <2> DEFINE q == z \div p
             r == z % p
             c == z \div 8
  <2>1. q \in Int /\ r \in Int /\ z = p * q + r
    BY <1>1, <1>3, Divided
  <2>2. c \in Int /\ z = 8 * c + (z % 8)
    BY <1>3, Divided
  <2> HIDE DEF p, k, q, r, c
  <2>3. z = 8 * c
    BY <1>3, <2>2
  <2>4. p * q = 8 * (k * q) /\ k * q \in Int
    BY <1>2, <2>1, SMT
  <2>5. r = 8 * (c - k * q) /\ c - k * q \in Int
    <3> DEFINE kq == k * q
               pq == p * q
    <3>1. pq = 8 * kq /\ kq \in Int /\ z = pq + r
      BY <2>1, <2>4
    <3> HIDE DEF kq, pq
    <3>2. r = 8 * (c - kq) /\ c - kq \in Int
      BY <2>1, <2>2, <2>3, <3>1
    <3> QED BY <3>2 DEF kq
  <2>6. (8 * (c - k * q) + 0) % 8 = 0
    <3>1. 8 \in Nat \ {0} /\ 0 \in Int /\ 0 <= 0 /\ 0 < 8
      OBVIOUS
    <3> QED BY <2>5, <3>1, Division
  <2>7. r % 8 = 0
    <3>1. 8 * (c - k * q) \in Int
      BY <2>5
    <3> HIDE DEF k, q
    <3> QED BY <2>1, <2>5, <2>6, <3>1
  <2>8. r = 8 * (r \div 8) + (r % 8) /\ r \div 8 \in Int
    <3>1. 8 \in Nat \ {0}
      OBVIOUS
    <3> QED BY <2>1, <3>1, Divided
  <2>9. r = 8 * (r \div 8)
    BY <2>1, <2>7, <2>8
  <2> QED BY <2>1, <2>9 DEF q, r
<1>4. x % p = y % p
  <2>1. x % p = 8 * ((x % p) \div 8) /\ y % p = 8 * ((y % p) \div 8)
    BY <1>3
  <2> QED BY <2>1
<1>5. x = p * (x \div p) + (x % p) /\ y = p * (y \div p) + (y % p)
  BY <1>3
<1> QED BY <1>4, <1>5, Zenon

\* A jump leads to one trampoline.
LEMMA JumpDistinct ==
  ASSUME NEW s \in Int, NEW t \in AnyTrampoline, NEW u \in AnyTrampoline, NEW f,
         HasJump(f, s, t), HasJump(f, s, u)
  PROVE  t = u
<1>1. t \in Int /\ u \in Int /\ t % 8 = 0 /\ u % 8 = 0
  BY TrampolineFacts
<1>2. JumpAt(s) = IF s \in layout.ec THEN 12 ELSE 5
  BY DEF JumpAt, JumpOn
<1>3. \A a \in s..s + JumpAt(s) - 1 : JumpCell(s, t, a) = JumpCell(s, u, a)
  BY DEF HasJump
<1>4. CASE s \notin layout.ec
  <2>1. JumpCell(s, t, s) = JumpCell(s, u, s)
    <3>1. s \in s..s + JumpAt(s) - 1
      BY <1>2, <1>4
    <3> QED BY <1>3, <3>1
  <2>2. <<JmpImmediate(s, t + CodeIn)>> = <<JmpImmediate(s, u + CodeIn)>>
    BY <1>4, <2>1 DEF JumpCell
  <2>3. JmpImmediate(s, t + CodeIn).n = JmpImmediate(s, u + CodeIn).n
    BY <2>2
  <2>4. (t + CodeIn) - (s + 5) = (u + CodeIn) - (s + 5)
    <3>1. \A n : Near(n).n = n
      BY DEF Near, Cell
    <3>2. /\ JmpImmediate(s, t + CodeIn) = Near((t + CodeIn) - (s + 5))
          /\ JmpImmediate(s, u + CodeIn) = Near((u + CodeIn) - (s + 5))
      BY Zenon DEF JmpImmediate
    <3>3. /\ Near((t + CodeIn) - (s + 5)).n = (t + CodeIn) - (s + 5)
          /\ Near((u + CodeIn) - (s + 5)).n = (u + CodeIn) - (s + 5)
      BY <3>1
    <3> QED BY <2>3, <3>2, <3>3, Zenon
  <2> QED BY <1>1, <2>4, NumberFacts
<1>5. CASE s \in layout.ec
  <2> DEFINE x == t + DetourSlot
             y == u + DetourSlot
  <2>1. x \in Int /\ y \in Int /\ x % 8 = 0 /\ y % 8 = 0
    <3>1. DetourSlot \in Nat /\ DetourSlot % 8 = 0
      BY NumberFacts, JumpsNumbers
    <3> QED BY <1>1, <3>1
  <2>2. s \in s..s + JumpAt(s) - 1 /\ s + 4 \in s..s + JumpAt(s) - 1
    BY <1>2, <1>5
  <2>3. /\ JmpIndirectArm64(s, x)[1] = JmpIndirectArm64(s, y)[1]
        /\ JmpIndirectArm64(s, x)[2] = JmpIndirectArm64(s, y)[2]
    <3>1. 1 + (s - s) \div 4 = 1 /\ 1 + ((s + 4) - s) \div 4 = 2
      BY SMT
    <3> HIDE DEF x, y
    <3>2. \A v : JumpCell(s, v, s) = <<JmpIndirectArm64(s, v + DetourSlot)[1]>>
      BY <1>5, <3>1 DEF JumpCell
    <3>3. \A v : JumpCell(s, v, s + 4) = <<JmpIndirectArm64(s, v + DetourSlot)[2]>>
      BY <1>5, <3>1 DEF JumpCell
    <3>4. JumpCell(s, t, s) = JumpCell(s, u, s) /\ JumpCell(s, t, s + 4) = JumpCell(s, u, s + 4)
      BY <1>3, <2>2
    <3> QED BY <3>2, <3>3, <3>4 DEF x, y
  <2> HIDE DEF x, y
  <2>4. (PageOf(x) - PageOf(s)) \div PageSize = (PageOf(y) - PageOf(s)) \div PageSize
    BY <2>3 DEF JmpIndirectArm64, Adrp, Cell
  <2>5. (x % PageSize) \div 8 = (y % PageSize) \div 8
    BY <2>3 DEF JmpIndirectArm64, Ldr, Cell
  <2>6. x \div PageSize = y \div PageSize
    <3>1. /\ (PageOf(x) - PageOf(s)) \div PageSize = (x \div PageSize) - (s \div PageSize)
          /\ (PageOf(y) - PageOf(s)) \div PageSize = (y \div PageSize) - (s \div PageSize)
      BY <2>1, PageDistance
    <3>2. x \div PageSize \in Int /\ y \div PageSize \in Int /\ s \div PageSize \in Int
      BY <2>1, Divided, NumberFacts
    <3> QED BY <2>4, <3>1, <3>2
  <2>7. x = y
    BY <2>1, <2>5, <2>6, SlotFound
  <2> QED BY <1>1, <2>7, NumberFacts DEF x, y
<1> QED BY <1>4, <1>5

-----------------------------------------------------------------------------
(* Least and greatest.                                                     *)

\* Every set of natural numbers that is not empty has a least element.
LEMMA Least ==
  ASSUME NEW S \in SUBSET Nat, S # {}
  PROVE  \E m \in S : \A k \in S : m <= k
<1>1. IsWellFoundedOn({ss \in Nat \X Nat : ss[1] < ss[2]}, Nat)
  BY NatLessThanWellFounded DEF OpToRel
<1>2. PICK m \in S : \A k \in S : ~(<<k, m>> \in {ss \in Nat \X Nat : ss[1] < ss[2]})
  BY <1>1, WFMin
<1>3. ASSUME NEW k \in S PROVE m <= k
  <2>1. <<k, m>> \in Nat \X Nat /\ k \in Nat /\ m \in Nat
    OBVIOUS
  <2>2. ~(k < m)
    BY <1>2, <2>1
  <2> QED BY <2>1, <2>2
<1> QED BY <1>3

\* And is given by Min.
LEMMA MinFacts ==
  ASSUME NEW S \in SUBSET Nat, S # {}
  PROVE  Min(S) \in S
<1>1. \E m \in S : \A k \in S : m <= k
  BY Least
<1> QED BY <1>1 DEF Min

\* Of records, with ranks up to n, one has the greatest.
LEMMA Latest ==
  ASSUME NEW n \in Nat, NEW rank, NEW S, S # {}, \A r \in S : rank[r.at] \in 0..n
  PROVE  \E m \in S : \A r \in S : rank[r.at] <= rank[m.at]
<1> DEFINE T == {n - rank[r.at] : r \in S}
<1>1. T \in SUBSET Nat
  OBVIOUS
<1>2. T # {}
  OBVIOUS
<1>3. PICK k \in T : \A j \in T : k <= j
  BY <1>1, <1>2, Least
<1>4. PICK m \in S : k = n - rank[m.at]
  OBVIOUS
<1>5. ASSUME NEW r \in S PROVE rank[r.at] <= rank[m.at]
  <2>1. n - rank[m.at] <= n - rank[r.at]
    BY <1>3, <1>4
  <2>2. rank[r.at] \in 0..n /\ rank[m.at] \in 0..n
    OBVIOUS
  <2> QED BY <2>1, <2>2
<1> QED BY <1>5

-----------------------------------------------------------------------------
(* Where hooks may be put.                                                 *)

Site(s) == s \in Places(layout) \/ \E t \in Trampolines[FALSE] : s = t + CodeIn

\* Instructions of code without hooks have sizes.
LEMMA OldLength ==
  ASSUME layout \in Layouts, NEW a
  PROVE  OldAt(layout, a).len \in 1..15
<1>1. \A b \in DOMAIN layout.image : layout.image[b].len \in 1..15
  BY JumpsLayouts DEF ProperCode
<1>2. Cell("none", 0, 0, 1).len = 1
  BY DEF Cell
<1>3. CASE a \in DOMAIN layout.image
  BY <1>1, <1>3 DEF OldAt
<1>4. CASE a \notin DOMAIN layout.image
  BY <1>2, <1>4 DEF OldAt
<1> QED BY <1>3, <1>4

\* What hooks at a place may take is not in a trampoline, nor taken by those at another.
LEMMA SpanFacts ==
  ASSUME layout \in Layouts, NEW b \in Places(layout)
  PROVE  /\ b \in Int
         /\ \A a \in b..b + JumpAt(b) - 1 : InSpan(layout, b, a)
         /\ \A a \in Int : InSpan(layout, b, a) =>
              ~InTrampoline(a) /\ \A other \in Places(layout) : InSpan(layout, other, a) => other = b
<1>1. /\ b \in Int
      /\ \A c \in b..b + JumpOn(b \in layout.ec) - 1 :
           \A a \in c..c + OldAt(layout, c).len - 1 :
             /\ ~InTrampoline(a)
             /\ \A other \in Places(layout) \ {b} : ~InSpan(layout, other, a)
  BY JumpsLayouts, Zenon DEF ProperPlaces
<1>2. JumpAt(b) = JumpOn(b \in layout.ec) /\ JumpAt(b) \in Int
  BY DEF JumpAt, JumpOn
<1>3. ASSUME NEW a \in b..b + JumpAt(b) - 1 PROVE InSpan(layout, b, a)
  <2>1. a \in b..b + JumpOn(b \in layout.ec) - 1 /\ a <= a /\ a < a + OldAt(layout, a).len
    BY <1>1, <1>2, <1>3, OldLength
  <2> QED BY <2>1 DEF InSpan
<1>4. ASSUME NEW a \in Int, InSpan(layout, b, a)
      PROVE  /\ ~InTrampoline(a)
             /\ \A other \in Places(layout) : InSpan(layout, other, a) => other = b
  <2>1. PICK c \in b..b + JumpOn(b \in layout.ec) - 1 : c <= a /\ a < c + OldAt(layout, c).len
    BY <1>4 DEF InSpan
  <2>2. c \in Int /\ OldAt(layout, c).len \in 1..15
    BY <1>1, <1>2, OldLength
  <2>3. a \in c..c + OldAt(layout, c).len - 1
    BY <2>1, <2>2
  <2> QED BY <1>1, <2>3
<1> QED BY <1>1, <1>3, <1>4

\* What may be taken where a hook is put: at least the jump; of a place, nothing of a
\* trampoline; of the jump behind that of a hook, only that.
LEMMA SiteFacts ==
  ASSUME layout \in Layouts, NEW s, Site(s)
  PROVE  /\ s \in Int
         /\ IsEcCode(s) <=> s \in layout.ec
         /\ JumpAt(s) \in {5, 12} /\ SizeAt(s) = JumpAt(s)
         /\ JumpAt(s) = IF s \in layout.ec THEN 12 ELSE 5
         /\ \A a \in s..s + JumpAt(s) - 1 : InArea(s, a)
         /\ s \in Places(layout) => \A a \in Int : InArea(s, a) =>
              InSpan(layout, s, a) /\ ~InTrampoline(a)
         /\ \A t \in Trampolines[FALSE] : s = t + CodeIn =>
              /\ s \notin Places(layout) /\ s \notin layout.ec
              /\ \A a \in Int : InArea(s, a) =>
                   a \in t + CodeIn..t + CodeIn + 5 /\ t <= a /\ a < t + TrampolineSize
<1>1. CASE s \in Places(layout)
  <2>1. /\ s \in Int
        /\ \A a \in s..s + JumpAt(s) - 1 : InSpan(layout, s, a)
        /\ \A a \in Int : InSpan(layout, s, a) => ~InTrampoline(a)
    BY <1>1, SpanFacts
  <2>2. JumpAt(s) \in {5, 12}
    BY DEF JumpAt, JumpOn
  <2>3. ~InTrampoline(s)
    <3>1. s \in s..s + JumpAt(s) - 1
      BY <2>1, <2>2
    <3> QED BY <2>1, <3>1
  <2>4. IsEcCode(s) <=> s \in layout.ec
    BY <2>1, <2>3, EcFacts
  <2>5. JumpAt(s) \in {5, 12} /\ SizeAt(s) = JumpAt(s) /\ JumpAt(s) = IF s \in layout.ec THEN 12 ELSE 5
    BY <2>4, JumpSizes
  <2>6. ASSUME NEW t \in Trampolines[FALSE], s = t + CodeIn PROVE FALSE
    <3>1. t \in AnyTrampoline
      BY DEF AnyTrampoline
    <3>2. t \in Nat
      BY <3>1, TrampolineFacts
    <3>3. t <= s /\ s < t + TrampolineSize
      BY <2>6, <3>2, NumberFacts
    <3> QED BY <2>3, <3>1, <3>3 DEF InTrampoline
  <2>7. \A a : InArea(s, a) <=> InSpan(layout, s, a)
    BY <1>1 DEF InArea
  <2> QED BY <2>1, <2>4, <2>5, <2>6, <2>7
<1>2. CASE \E t \in Trampolines[FALSE] : s = t + CodeIn
  <2>1. PICK t \in Trampolines[FALSE] : s = t + CodeIn
    BY <1>2
  <2>2. t \in AnyTrampoline
    BY DEF AnyTrampoline
  <2>3. t \in Nat
    BY <2>2, TrampolineFacts
  <2>4. s \in Int /\ t <= s /\ s < t + TrampolineSize
    BY <2>1, <2>3, NumberFacts
  <2>5. ~IsEcCode(s) /\ s \notin layout.ec /\ InTrampoline(s)
    BY <2>4, EcFacts
  <2>6. JumpAt(s) \in {5, 12} /\ SizeAt(s) = JumpAt(s) /\ JumpAt(s) = IF s \in layout.ec THEN 12 ELSE 5
    BY <2>5, JumpSizes
  <2>7. s \notin Places(layout)
    <3>1. s \in s..s + JumpAt(s) - 1
      BY <2>4, <2>6
    <3> QED BY <2>4, <2>5, <3>1, SpanFacts
  <2>8. \A a : InArea(s, a) <=> s <= a /\ a < s + 6
    BY <2>7 DEF InArea
  <2>9. \A a \in s..s + JumpAt(s) - 1 : InArea(s, a)
    BY <2>4, <2>5, <2>6, <2>8
  <2>10. ASSUME NEW u \in Trampolines[FALSE], s = u + CodeIn, NEW a \in Int, InArea(s, a)
         PROVE  a \in u + CodeIn..u + CodeIn + 5 /\ u <= a /\ a < u + TrampolineSize
    <3>1. u \in AnyTrampoline
      BY DEF AnyTrampoline
    <3>2. u \in Nat
      BY <3>1, TrampolineFacts
    <3> QED BY <2>4, <2>8, <2>10, <3>2, NumberFacts
  <2> QED BY <2>4, <2>5, <2>6, <2>7, <2>9, <2>10
<1> QED BY <1>1, <1>2 DEF Site

\* Different places are apart.
LEMMA AreasApart ==
  ASSUME layout \in Layouts, NEW s, NEW u, Site(s), Site(u), NEW a \in Int,
         InArea(s, a), InArea(u, a)
  PROVE  s = u
<1>1. CASE s \in Places(layout) /\ u \in Places(layout)
  <2>1. InSpan(layout, s, a) /\ InSpan(layout, u, a)
    BY <1>1, SiteFacts
  <2> QED BY <1>1, <2>1, SpanFacts
<1>2. ASSUME NEW v, NEW w, Site(v), Site(w), InArea(v, a), InArea(w, a),
             v \in Places(layout), w \notin Places(layout)
      PROVE  FALSE
  <2>1. ~InTrampoline(a)
    BY <1>2, SiteFacts
  <2>2. PICK t \in Trampolines[FALSE] : w = t + CodeIn
    BY <1>2 DEF Site
  <2>3. t <= a /\ a < t + TrampolineSize
    BY <1>2, <2>2, SiteFacts
  <2>4. t \in AnyTrampoline
    BY DEF AnyTrampoline
  <2> QED BY <2>1, <2>3, <2>4 DEF InTrampoline
<1>3. CASE s \notin Places(layout) /\ u \notin Places(layout)
  <2>1. PICK t \in Trampolines[FALSE] : s = t + CodeIn
    BY <1>3 DEF Site
  <2>2. PICK v \in Trampolines[FALSE] : u = v + CodeIn
    BY <1>3 DEF Site
  <2>3. t <= a /\ a < t + TrampolineSize
    BY <2>1, SiteFacts
  <2>4. v <= a /\ a < v + TrampolineSize
    BY <2>2, SiteFacts
  <2>5. t \in AnyTrampoline /\ v \in AnyTrampoline
    BY DEF AnyTrampoline
  <2>6. t = v
    BY <2>3, <2>4, <2>5, TrampolinesApart
  <2> QED BY <2>1, <2>2, <2>6
<1> QED BY <1>1, <1>2, <1>3

-----------------------------------------------------------------------------
(* What is read where hooks are put.                                       *)

\* An instruction is read, or none.
LEMMA AtPart ==
  ASSUME NEW a
  PROVE  /\ \A c : Part(code, a) = <<c>> => At(a) = c
         /\ Part(code, a) = <<>> => At(a) = Cell("none", 0, 0, 1)
         /\ Part(code, a) = Part(layout.image, a) => At(a) = OldAt(layout, a)
<1>1. ASSUME NEW c, Part(code, a) = <<c>> PROVE At(a) = c
  <2>1. a \in DOMAIN code
    BY <1>1 DEF Part
  <2>2. <<code[a]>> = <<c>>
    BY <1>1, <2>1 DEF Part
  <2>3. code[a] = c
    BY <2>2
  <2> QED BY <2>1, <2>3 DEF At
<1>2. ASSUME Part(code, a) = <<>> PROVE At(a) = Cell("none", 0, 0, 1) /\ a \notin DOMAIN code
  <2>1. a \notin DOMAIN code
    BY <1>2 DEF Part
  <2> QED BY <2>1 DEF At
<1>3. ASSUME Part(code, a) = Part(layout.image, a) PROVE At(a) = OldAt(layout, a)
  <2>1. CASE a \in DOMAIN layout.image
    <3>1. Part(code, a) = <<layout.image[a]>>
      BY <1>3, <2>1 DEF Part
    <3>2. At(a) = layout.image[a]
      BY <1>1, <3>1
    <3> QED BY <2>1, <3>2 DEF OldAt
  <2>2. CASE a \notin DOMAIN layout.image
    <3>1. Part(code, a) = <<>>
      BY <1>3, <2>2 DEF Part
    <3>2. At(a) = Cell("none", 0, 0, 1)
      BY <1>2, <3>1
    <3> QED BY <2>2, <3>2 DEF OldAt
  <2> QED BY <2>1, <2>2
<1> QED BY <1>1, <1>2, <1>3

\* The cells of the jump of a hook.
LEMMA JumpCells ==
  ASSUME NEW s \in Int, NEW t, HasJump(code, s, t)
  PROVE  /\ s \notin layout.ec => At(s) = JmpImmediate(s, t + CodeIn) /\ At(s).op = "near" /\ At(s).len = 5
         /\ s \in layout.ec =>
              /\ <<At(s), At(s + 4), At(s + 8)>> = JmpIndirectArm64(s, t + DetourSlot)
              /\ At(s).op = "adrp" /\ At(s).r = 17 /\ At(s + 8) = Br(17)
              /\ At(s).len = 4 /\ At(s + 4).len = 4 /\ At(s + 8).len = 4
         /\ \A a \in s..s + JumpAt(s) - 1 : At(a).len \in 1..15
<1>1. JumpAt(s) = IF s \in layout.ec THEN 12 ELSE 5
  BY DEF JumpAt, JumpOn
<1>2. \A a \in s..s + JumpAt(s) - 1 : Part(code, a) = JumpCell(s, t, a)
  BY DEF HasJump
<1>3. Cell("none", 0, 0, 1).len = 1
  BY DEF Cell
<1>4. CASE s \notin layout.ec
  <2>1. s \in s..s + JumpAt(s) - 1
    BY <1>1, <1>4
  <2>2. Part(code, s) = <<JmpImmediate(s, t + CodeIn)>>
    BY <1>2, <1>4, <2>1 DEF JumpCell
  <2>3. At(s) = JmpImmediate(s, t + CodeIn)
    BY <2>2, AtPart
  <2>4. At(s).op = "near" /\ At(s).len = 5
    BY <2>3 DEF JmpImmediate, Near, Cell
  <2>5. ASSUME NEW a \in s..s + JumpAt(s) - 1 PROVE At(a).len \in 1..15
    <3>1. CASE a = s
      BY <2>4, <3>1
    <3>2. CASE a # s
      <4>1. Part(code, a) = <<>>
        BY <1>2, <1>4, <3>2 DEF JumpCell
      <4> QED BY <1>3, <4>1, AtPart
    <3> QED BY <3>1, <3>2
  <2> QED BY <1>4, <2>3, <2>4, <2>5
<1>5. CASE s \in layout.ec
  <2> DEFINE x == Adrp(17, (PageOf(t + DetourSlot) - PageOf(s)) \div PageSize)
             y == Ldr(17, ((t + DetourSlot) % PageSize) \div 8)
             z == Br(17)
             jump == JmpIndirectArm64(s, t + DetourSlot)
  <2>1. jump = <<x, y, z>>
    BY DEF JmpIndirectArm64
  <2>2. x.len = 4 /\ y.len = 4 /\ z.len = 4 /\ x.op = "adrp" /\ x.r = 17
    BY DEF Adrp, Ldr, Br, Cell
  <2>3. \A a : JumpCell(s, t, a) = IF a \in {s, s + 4, s + 8} THEN <<jump[1 + (a - s) \div 4]>> ELSE <<>>
    BY <1>5 DEF JumpCell
  <2>4. 1 + (s - s) \div 4 = 1 /\ 1 + ((s + 4) - s) \div 4 = 2 /\ 1 + ((s + 8) - s) \div 4 = 3
    BY SMT
  <2>5. jump[1] = x /\ jump[2] = y /\ jump[3] = z
    BY <2>1
  <2> HIDE DEF x, y, z, jump
  <2>6. /\ JumpCell(s, t, s) = <<x>>
        /\ JumpCell(s, t, s + 4) = <<y>>
        /\ JumpCell(s, t, s + 8) = <<z>>
    BY <2>3, <2>4, <2>5
  <2>7. {s, s + 4, s + 8} \subseteq s..s + JumpAt(s) - 1
    BY <1>1, <1>5
  <2>8. At(s) = x /\ At(s + 4) = y /\ At(s + 8) = z
    <3>1. Part(code, s) = <<x>> /\ Part(code, s + 4) = <<y>> /\ Part(code, s + 8) = <<z>>
      BY <1>2, <2>6, <2>7
    <3> QED BY <3>1, AtPart
  <2>9. ASSUME NEW a \in s..s + JumpAt(s) - 1 PROVE At(a).len \in 1..15
    <3>1. CASE a \in {s, s + 4, s + 8}
      BY <2>2, <2>8, <3>1
    <3>2. CASE a \notin {s, s + 4, s + 8}
      <4>1. Part(code, a) = <<>>
        BY <1>2, <2>3, <3>2
      <4> QED BY <1>3, <4>1, AtPart
    <3> QED BY <3>1, <3>2
  <2>10. <<At(s), At(s + 4), At(s + 8)>> = jump
    BY <2>1, <2>8
  <2> QED BY <1>5, <2>2, <2>8, <2>9, <2>10 DEF z, jump
<1> QED BY <1>4, <1>5

\* Without hooks.
LEMMA BaseCells ==
  ASSUME layout \in Layouts, NEW s, Site(s),
         \A a \in s..s + JumpAt(s) - 1 : Part(code, a) = Base(a)
  PROVE  /\ \A a \in s..s + JumpAt(s) - 1 : At(a).len \in 1..15
         /\ s \in Places(layout) => \A a \in s..s + JumpAt(s) - 1 : At(a) = OldAt(layout, a)
         /\ \A t \in Trampolines[FALSE] : s = t + CodeIn =>
              At(s) = JmpIndirect(t + CodeIn, t + DetourSlot) /\ At(s).op = "mem" /\ At(s).len = 6
<1>1. s \in Int /\ JumpAt(s) \in {5, 12}
  BY SiteFacts
<1>2. CASE s \in Places(layout)
  <2>1. ASSUME NEW a \in s..s + JumpAt(s) - 1 PROVE At(a) = OldAt(layout, a)
    <3>1. a \in Int /\ ~InTrampoline(a)
      <4>1. a \in Int
        BY <1>1
      <4>2. InArea(s, a)
        BY SiteFacts
      <4>3. InSpan(layout, s, a)
        BY <1>2, <4>2 DEF InArea
      <4> QED BY <1>2, <4>1, <4>3, SpanFacts
    <3>2. ~\E t \in Trampolines[FALSE] : a = t + CodeIn
      <4> SUFFICES ASSUME NEW t \in Trampolines[FALSE], a = t + CodeIn PROVE FALSE
        OBVIOUS
      <4>1. t \in AnyTrampoline
        BY DEF AnyTrampoline
      <4>2. t \in Nat
        BY <4>1, TrampolineFacts
      <4>3. t <= a /\ a < t + TrampolineSize
        BY <4>2, NumberFacts
      <4> QED BY <3>1, <4>1, <4>3 DEF InTrampoline
    <3>3. Part(code, a) = Part(layout.image, a)
      BY <3>2 DEF Base
    <3> QED BY <3>3, AtPart
  <2>2. \A t \in Trampolines[FALSE] : s # t + CodeIn
    BY <1>2, SiteFacts
  <2> QED BY <2>1, <2>2, OldLength
<1>3. CASE \E t \in Trampolines[FALSE] : s = t + CodeIn
  <2>1. PICK t \in Trampolines[FALSE] : s = t + CodeIn
    BY <1>3
  <2>2. s \notin Places(layout) /\ s \notin layout.ec
    BY <2>1, SiteFacts
  <2>3. JumpAt(s) = 5
    BY <2>2, SiteFacts
  <2>4. t \in Int
    <3>1. t \in AnyTrampoline
      BY DEF AnyTrampoline
    <3> QED BY <3>1, TrampolineFacts
  <2>5. ASSUME NEW a \in s..s + JumpAt(s) - 1
        PROVE  Part(code, a) = IF a = t + CodeIn THEN <<JmpIndirect(t + CodeIn, t + DetourSlot)>> ELSE <<>>
    <3>1. a \in t + CodeIn..t + CodeIn + 5
      BY <2>1, <2>3, <2>4, NumberFacts
    <3> QED BY <3>1, BaseOnHook
  <2>6. s \in s..s + JumpAt(s) - 1
    BY <1>1
  <2>7. At(s) = JmpIndirect(t + CodeIn, t + DetourSlot)
    BY <2>1, <2>5, <2>6, AtPart
  <2>8. At(s).op = "mem" /\ At(s).len = 6
    BY <2>7 DEF JmpIndirect, Mem, Cell
  <2>9. ASSUME NEW a \in s..s + JumpAt(s) - 1 PROVE At(a).len \in 1..15
    <3>1. CASE a = s
      BY <2>8, <3>1
    <3>2. CASE a # s
      <4>1. Part(code, a) = <<>>
        BY <2>1, <2>5, <3>2
      <4>2. At(a) = Cell("none", 0, 0, 1)
        BY <4>1, AtPart
      <4> QED BY <4>2 DEF Cell
    <3> QED BY <3>1, <3>2
  <2>10. ASSUME NEW u \in Trampolines[FALSE], s = u + CodeIn PROVE u = t
    <3>1. u \in AnyTrampoline
      BY DEF AnyTrampoline
    <3>2. u \in Int
      BY <3>1, TrampolineFacts
    <3> QED BY <2>1, <2>4, <2>10, <3>2, NumberFacts
  <2> QED BY <2>2, <2>7, <2>8, <2>9, <2>10
<1> QED BY <1>2, <1>3 DEF Site

\* The end of what is taken: of a place without hooks, within what may be taken.
LEMMA BaseRemain ==
  ASSUME layout \in Layouts, NEW s, Site(s),
         \A a \in s..s + JumpAt(s) - 1 : Part(code, a) = Base(a)
  PROVE  LET remain == Nth(s)[PatchedCount(s) + 1]
         IN  remain \in Int /\ \A a \in s..remain - 1 : InArea(s, a)
<1> DEFINE n == PatchedCount(s)
           begin == Nth(s)[n]
           remain == Nth(s)[n + 1]
<1>1. s \in Int /\ JumpAt(s) \in {5, 12} /\ SizeAt(s) = JumpAt(s)
  BY SiteFacts
<1>2. /\ \A a \in s..s + SizeAt(s) - 1 : At(a).len \in 1..15
      /\ s \in Places(layout) => \A a \in s..s + JumpAt(s) - 1 : At(a) = OldAt(layout, a)
  BY <1>1, BaseCells
<1>3. n \in 1..n
  <2>1. MovedCount(s) \in 1..4 /\ n \in MovedCount(s)..4
    BY MovedFacts, PatchedCountFacts
  <2> HIDE DEF n
  <2> QED BY <2>1
<1>4. begin \in s..s + JumpAt(s) - 1 /\ remain \in Int /\ remain = begin + At(begin).len
  BY <1>1, <1>2, <1>3, TakenFacts
<1>5. CASE s \in Places(layout)
  <2>1. \A a \in s..s + JumpAt(s) - 1 : InArea(s, a)
    BY SiteFacts
  <2>2. ASSUME NEW a \in s..remain - 1 PROVE InArea(s, a)
    <3> HIDE DEF begin, remain, n
    <3>1. a \in Int /\ begin \in Int /\ At(begin).len \in 1..15 /\ JumpAt(s) \in Int
      BY <1>1, <1>2, <1>4
    <3>2. CASE a < begin
      <4>1. a \in s..s + JumpAt(s) - 1
        BY <1>1, <1>4, <3>1, <3>2
      <4> QED BY <2>1, <4>1
    <3>3. CASE begin <= a
      <4>1. a < begin + At(begin).len
        BY <1>1, <1>4, <3>1
      <4>2. At(begin) = OldAt(layout, begin)
        BY <1>2, <1>4, <1>5
      <4>3. begin \in s..s + JumpOn(s \in layout.ec) - 1
        BY <1>4 DEF JumpAt
      <4>4. InSpan(layout, s, a)
        BY <3>3, <4>1, <4>2, <4>3 DEF InSpan
      <4> QED BY <1>5, <4>4 DEF InArea
    <3> QED BY <3>1, <3>2, <3>3
  <2> QED BY <1>4, <2>2
<1>6. CASE \E t \in Trampolines[FALSE] : s = t + CodeIn
  <2>1. PICK t \in Trampolines[FALSE] : s = t + CodeIn
    BY <1>6
  <2>2. At(s).op = "mem" /\ At(s).len = 6
    BY <2>1, BaseCells
  <2>3. EndsFunction(s)
    BY <2>2 DEF EndsFunction
  <2>4. s \notin layout.ec /\ s \notin Places(layout)
    BY <2>1, SiteFacts
  <2>5. SizeAt(s) = 5
    BY <1>1, <2>4, SiteFacts
  <2>6. remain = s + 6
    <3>1. Nth(s)[PatchedCount(s) + 1] = s + At(s).len
      BY <1>1, <2>2, <2>3, <2>5, OneTaken
    <3> QED BY <2>2, <3>1
  <2>7. \A a \in s..remain - 1 : InArea(s, a)
    <3> HIDE DEF remain
    <3> QED BY <1>1, <2>4, <2>6 DEF InArea
  <2> QED BY <1>4, <2>7
<1> QED BY <1>5, <1>6 DEF Site

\* Of one with hooks, the jump.
LEMMA JumpRemain ==
  ASSUME layout \in Layouts, NEW s, Site(s), NEW t, HasJump(code, s, t),
         Nth(s)[PatchedCount(s) + 1] - s >= SizeAt(s)
  PROVE  Nth(s)[PatchedCount(s) + 1] = s + JumpAt(s)
<1>1. /\ s \in Int /\ JumpAt(s) \in {5, 12} /\ SizeAt(s) = JumpAt(s)
      /\ JumpAt(s) = IF s \in layout.ec THEN 12 ELSE 5
  BY SiteFacts
<1>2. CASE s \notin layout.ec
  <2>1. At(s).op = "near" /\ At(s).len = 5
    BY <1>1, <1>2, JumpCells
  <2>2. EndsFunction(s)
    BY <2>1 DEF EndsFunction
  <2>3. Nth(s)[PatchedCount(s) + 1] = s + At(s).len
    BY <1>1, <1>2, <2>1, <2>2, OneTaken
  <2> QED BY <1>1, <1>2, <2>1, <2>3
<1>3. CASE s \in layout.ec
  <2>1. At(s).len = 4 /\ At(s + 4).len = 4 /\ At(s + 8).len = 4
    BY <1>1, <1>3, JumpCells
  <2>2. Nth(s)[1] = s /\ Nth(s)[2] = s + 4 /\ Nth(s)[3] = s + 8 /\ Nth(s)[4] = s + 12
    <3>1. Nth(s)[1] = s
      BY NthFacts
    <3>2. Nth(s)[2] = s + 4
      BY <2>1, <3>1, NthFacts
    <3>3. Nth(s)[3] = (s + 4) + 4
      BY <2>1, <3>2, NthFacts
    <3>4. (s + 4) + 4 = s + 8 /\ (s + 8) + 4 = s + 12
      BY <1>1
    <3>5. Nth(s)[4] = (s + 8) + 4
      BY <2>1, <3>3, <3>4, NthFacts
    <3> QED BY <3>1, <3>2, <3>3, <3>4, <3>5
  <2>3. Enough(s, 3)
    <3>1. Nth(s)[3 + 1] - s >= SizeAt(s)
      BY <1>1, <1>3, <2>2
    <3> QED BY <3>1 DEF Enough, SizeAt
  <2>4. PatchedCount(s) \in 1..3
    <3>1. MovedCount(s) \in 1..4 /\ PatchedCount(s) \in MovedCount(s)..4
      BY MovedFacts, PatchedCountFacts
    <3>2. 3 \notin 1..PatchedCount(s) - 1
      BY <2>3, NotEnough
    <3> QED BY <3>1, <3>2
  <2>5. PatchedCount(s) = 3
    <3>1. Nth(s)[PatchedCount(s) + 1] - s >= 12
      BY <1>1, <1>3
    <3>2. PatchedCount(s) = 1 \/ PatchedCount(s) = 2 \/ PatchedCount(s) = 3
      BY <2>4
    <3>3. CASE PatchedCount(s) = 1
      BY <1>1, <2>2, <3>1, <3>3
    <3>4. CASE PatchedCount(s) = 2
      BY <1>1, <2>2, <3>1, <3>4
    <3> QED BY <3>2, <3>3, <3>4
  <2> QED BY <1>1, <1>3, <2>2, <2>5
<1> QED BY <1>2, <1>3


-----------------------------------------------------------------------------
(* Where pointers lead to.                                                 *)

\* The cell at an address is as without hooks.
Same(a) == At(a) = OldAt(layout, a)

\* No pointer that an import goes through is changed.
SlotsSame == \A x \in layout.iat : Slot(x) = OldSlot(layout, x)

\* Over an import thunk that is as it was.
LEMMA SameSkipImport ==
  ASSUME NEW a, SlotsSame, Same(a)
  PROVE  SkipImport(a) = OldSkipImport(layout, a)
BY DEF Same, SlotsSame, SkipImport, OldSkipImport, IsImported, OldImported

\* Over a patch that is as it was.
LEMMA SameSkipPatch ==
  ASSUME NEW a, SlotsSame, \A b \in SeenPatch(layout, a) : Same(b)
  PROVE  SkipPatch(a) = OldSkipPatch(layout, a)
<1> DEFINE behind == Behind(layout, a)
           far == Far(layout, behind)
<1>1. Same(a) /\ At(a) = OldAt(layout, a)
  BY DEF SeenPatch, Same
<1>2. CASE At(a).op # "short"
  BY <1>1, <1>2 DEF SkipPatch, OldSkipPatch
<1>3. CASE At(a).op = "short"
  <2>1. behind = a + 2 + At(a).n
    BY <1>1 DEF Behind
  <2>2. Same(behind) /\ At(behind) = OldAt(layout, behind)
    BY <1>1, <1>3 DEF SeenPatch, Same
  <2>3. SkipImport(behind) = OldSkipImport(layout, behind)
    BY <2>2, SameSkipImport
  <2>4. far = behind + 5 + At(behind).n
    BY <2>2 DEF Far
  <2>5. At(behind).op = "near" => Same(far)
    BY <1>1, <1>3, <2>2 DEF SeenPatch
  <2>6. At(behind).op = "near" => (IsOsPatch(far) <=> OldIsOsPatch(layout, far))
    BY <2>5 DEF Same, IsOsPatch, OldIsOsPatch
  <2>7. SkipPatch(a) = IF At(behind).op = "near" /\ ~IsOsPatch(far) THEN far ELSE SkipImport(behind)
    BY <1>3, <2>1, <2>4 DEF SkipPatch
  <2>8. OldSkipPatch(layout, a) =
          IF At(behind).op = "near" /\ ~OldIsOsPatch(layout, far) THEN far ELSE OldSkipImport(layout, behind)
    BY <1>1, <1>3, <2>2 DEF OldSkipPatch
  <2> QED BY <2>3, <2>6, <2>7, <2>8
<1> QED BY <1>2, <1>3

\* Over an import of ARM64 code that is as it was.
LEMMA SameSkipImportArm64 ==
  ASSUME NEW a, SlotsSame, \A b \in SeenImport(layout, a) : Same(b)
  PROVE  SkipImportArm64(a) = OldSkipImportArm64(layout, a)
<1>1. At(a) = OldAt(layout, a)
  BY DEF SeenImport, Same
<1>2. CASE ~(At(a).op = "adrp" /\ At(a).r = 16)
  BY <1>1, <1>2 DEF SkipImportArm64, OldSkipImportArm64, IsImportArm64, OldIsImportArm64
<1>3. CASE At(a).op = "adrp" /\ At(a).r = 16
  <2>1. At(a + 4) = OldAt(layout, a + 4) /\ At(a + 8) = OldAt(layout, a + 8)
    BY <1>1, <1>3 DEF SeenImport, Same
  <2>2. IsImportArm64(a) <=> OldIsImportArm64(layout, a)
    BY <1>1, <2>1 DEF IsImportArm64, OldIsImportArm64
  <2> DEFINE slot == PageOf(a) + At(a).n * PageSize + 8 * At(a + 4).n
  <2>3. slot = PageOf(a) + OldAt(layout, a).n * PageSize + 8 * OldAt(layout, a + 4).n
    BY <1>1, <2>1
  <2>4. SkipImportArm64(a) = IF IsImportArm64(a) /\ IsImported(a, slot) THEN Slot(slot) ELSE a
    BY DEF SkipImportArm64
  <2>5. OldSkipImportArm64(layout, a) =
          IF OldIsImportArm64(layout, a) /\ OldImported(layout, a, slot) THEN OldSlot(layout, slot) ELSE a
    BY <2>3 DEF OldSkipImportArm64
  <2> HIDE DEF slot
  <2>6. IsImported(a, slot) <=> OldImported(layout, a, slot)
    BY DEF IsImported, OldImported
  <2>7. IsImported(a, slot) => Slot(slot) = OldSlot(layout, slot)
    BY DEF IsImported, SlotsSame
  <2> QED BY <2>2, <2>4, <2>5, <2>6, <2>7
<1> QED BY <1>2, <1>3

\* A pointer leads where it led when all that is read on the way is as it was.
LEMMA SameFollowed ==
  ASSUME NEW p, IsEcCode(p) <=> p \in layout.ec, SlotsSame, \A a \in Seen(layout, p) : Same(a)
  PROVE  CodeFromPointer(p) = OldCodeFromPointer(layout, p)
<1>1. CASE p \in layout.ec
  <2>1. \A a \in SeenImport(layout, p) : Same(a)
    BY <1>1 DEF Seen
  <2>2. At(p) = OldAt(layout, p)
    BY <2>1 DEF SeenImport, Same
  <2>3. SkipImportArm64(p) = OldSkipImportArm64(layout, p)
    BY <2>1, SameSkipImportArm64
  <2>4. CASE At(p).op # "b"
    BY <1>1, <2>2, <2>3, <2>4
       DEF CodeFromPointer, OldCodeFromPointer, SkipJmpArm64, OldSkipJmpArm64
  <2>5. CASE At(p).op = "b"
    <3>1. \A a \in SeenImport(layout, Branch(layout, p)) : Same(a)
      BY <1>1, <2>2, <2>5 DEF Seen
    <3>2. SkipImportArm64(Branch(layout, p)) = OldSkipImportArm64(layout, Branch(layout, p))
      BY <3>1, SameSkipImportArm64
    <3>3. Branch(layout, p) = p + At(p).n
      BY <2>2 DEF Branch
    <3> QED BY <1>1, <2>2, <2>3, <2>5, <3>2, <3>3
            DEF CodeFromPointer, OldCodeFromPointer, SkipJmpArm64, OldSkipJmpArm64
  <2> QED BY <2>4, <2>5
<1>2. CASE p \notin layout.ec
  <2> DEFINE q == OldSkipImport(layout, p)
  <2>1. Same(p) /\ \A a \in SeenPatch(layout, q) : Same(a)
    BY <1>2 DEF Seen
  <2>2. SkipImport(p) = q
    BY <2>1, SameSkipImport
  <2>3. SkipPatch(q) = OldSkipPatch(layout, q)
    BY <2>1, SameSkipPatch
  <2> QED BY <1>2, <2>2, <2>3 DEF CodeFromPointer, OldCodeFromPointer, SkipJmp, OldSkipJmp
<1> QED BY <1>1, <1>2

\* The jump of a hook is neither an import thunk, nor a short jump or a branch.
LEMMA JumpNotFollowed ==
  ASSUME NEW s \in Int, NEW t, HasJump(code, s, t)
  PROVE  /\ SkipImport(s) = s /\ SkipPatch(s) = s /\ SkipImportArm64(s) = s
         /\ At(s).op \in {"near", "adrp"} /\ ~IsOsPatch(s)
         /\ s \in layout.ec => At(s).op = "adrp"
         /\ At(s).op = "near" => s \notin layout.ec /\ s + 5 + At(s).n = s + 5 + ((t + CodeIn) - (s + 5))
<1>1. CASE s \notin layout.ec
  <2>1. At(s) = JmpImmediate(s, t + CodeIn) /\ At(s).op = "near"
    BY <1>1, JumpCells
  <2>2. At(s).n = (t + CodeIn) - (s + 5)
    BY <2>1 DEF JmpImmediate, Near, Cell
  <2> QED BY <1>1, <2>1, <2>2 DEF SkipImport, SkipPatch, SkipImportArm64, IsImportArm64, IsOsPatch
<1>2. CASE s \in layout.ec
  <2>1. At(s).op = "adrp" /\ At(s).r = 17
    BY <1>2, JumpCells
  <2> QED BY <1>2, <2>1 DEF SkipImport, SkipPatch, SkipImportArm64, IsImportArm64, IsOsPatch
<1> QED BY <1>1, <1>2
-----------------------------------------------------------------------------
(* What there is where hooks may be put.                                   *)

Ranked(rank, n) ==
  /\ TypeInv /\ RecordsInv /\ PlainInv /\ DetourInv
  /\ n \in Nat /\ rank \in [AnyTrampoline -> 0..n] /\ RankInv(rank)

\* Where a hook may be put now: a place, or the jump behind that of a hook.
NowSite(s) == s \in Places(layout) \/ \E q \in Records : OnHook(s, q)

\* Such is where each hook is, of which the trampoline is of the same kind.
LEMMA RecordFacts ==
  ASSUME NEW n, NEW rank, Ranked(rank, n), NEW r \in Records
  PROVE  /\ layout \in Layouts /\ r.target \in Int /\ r.remain \in Int
         /\ NowSite(r.target) /\ Site(r.target)
         /\ r.at \in Trampolines[r.target \in layout.ec] /\ r.at \in AnyTrampoline
         /\ r.at \in Int /\ rank[r.at] \in 0..n
         /\ r.target + JumpAt(r.target) <= r.remain
         /\ \A a \in Int : InRecord(r, a) => InArea(r.target, a)
         /\ r \in Records /\ r.at \in Used
<1>1. RecordInv(r) /\ layout \in Layouts /\ SiteInv(rank, r)
  BY DEF Ranked, RecordsInv, TypeInv, RankInv
<1>2. r.at \in AnyTrampoline
  <2>1. CASE r.target \in layout.ec
    <3>1. (r.target \in layout.ec) = TRUE
      BY <2>1
    <3> QED BY <1>1, <3>1 DEF RecordInv, AnyTrampoline
  <2>2. CASE r.target \notin layout.ec
    <3>1. (r.target \in layout.ec) = FALSE
      BY <2>2
    <3> QED BY <1>1, <3>1 DEF RecordInv, AnyTrampoline
  <2> QED BY <2>1, <2>2
<1>3. r.at \in Int
  BY <1>2, TrampolineFacts
<1>4. NowSite(r.target)
  BY <1>1 DEF SiteInv, NowSite
<1>5. Site(r.target)
  BY <1>4 DEF NowSite, Site, OnHook
<1>6. rank[r.at] \in 0..n
  BY <1>2 DEF Ranked
<1>7. \A a \in Int : InRecord(r, a) => InArea(r.target, a)
  BY <1>1 DEF RecordInv, InRecord
<1>8. r.at \in Used
  BY DEF Records, Used
<1> QED BY <1>1, <1>2, <1>3, <1>4, <1>5, <1>6, <1>7, <1>8 DEF RecordInv

\* Bytes that may be taken at a place are not taken by a hook at another one.
LEMMA TakenHere ==
  ASSUME NEW n, NEW rank, Ranked(rank, n), NEW r \in Records, NEW s, Site(s), NEW a \in Int,
         InArea(s, a), InRecord(r, a)
  PROVE  r.target = s
<1>1. layout \in Layouts /\ Site(r.target) /\ InArea(r.target, a)
  BY RecordFacts
<1> QED BY <1>1, AreasApart

\* A place that no hook is on is as without hooks.
LEMMA UnhookedSite ==
  ASSUME NEW n, NEW rank, Ranked(rank, n), NEW s, NowSite(s),
         \A r \in Records : r.target # s, NEW a \in Int, InArea(s, a)
  PROVE  Part(code, a) = Base(a)
<1>1. Site(s) /\ layout \in Layouts
  BY DEF NowSite, Site, OnHook, Ranked, TypeInv
<1>2. Plain(a)
  <2>1. CASE s \in Places(layout)
    <3>1. ~InTrampoline(a)
      BY <1>1, <2>1, SiteFacts
    <3> QED BY <3>1 DEF Plain
  <2>2. CASE \E q \in Records : OnHook(s, q)
    <3>1. PICK q \in Records : q.at \in Trampolines[FALSE] /\ s = q.at + CodeIn
      BY <2>2 DEF OnHook
    <3>2. a \in q.at + CodeIn..q.at + CodeIn + 5
      BY <1>1, <3>1, SiteFacts
    <3> QED BY <3>1, <3>2 DEF Plain
  <2> QED BY <2>1, <2>2 DEF NowSite
<1>3. \A r \in Records : ~InRecord(r, a)
  BY <1>1, TakenHere
<1> QED BY <1>2, <1>3 DEF Ranked, PlainInv

\* At one with hooks, there is the jump of the latest one.
LEMMA HookedSite ==
  ASSUME NEW n, NEW rank, Ranked(rank, n), NEW s, \E r \in Records : r.target = s
  PROVE  \E r \in Records : r.target = s /\ HasJump(code, s, r.at)
           /\ \A q \in Records : ~Above(rank, q, r)
<1> DEFINE S == {r \in Records : r.target = s}
<1>1. S # {} /\ n \in Nat /\ \A r \in S : rank[r.at] \in 0..n
  <2>1. \A r \in S : rank[r.at] \in 0..n
    BY RecordFacts
  <2> QED BY <2>1 DEF Ranked
<1>2. PICK r \in S : \A q \in S : rank[q.at] <= rank[r.at]
  <2> HIDE DEF S
  <2> QED BY <1>1, Latest
<1>3. ASSUME NEW q \in Records, Above(rank, q, r) PROVE FALSE
  <2>1. q \in S /\ rank[r.at] < rank[q.at]
    BY <1>2, <1>3 DEF Above
  <2>2. rank[q.at] <= rank[r.at] /\ rank[q.at] \in Int /\ rank[r.at] \in Int
    BY <1>1, <1>2, <2>1
  <2> QED BY <2>1, <2>2
<1>4. HasJump(code, s, r.at)
  BY <1>2, <1>3 DEF Ranked, RankInv, TopInv
<1> QED BY <1>2, <1>3, <1>4

\* Code that no hook took is as without hooks.
LEMMA Elsewhere ==
  ASSUME NEW n, NEW rank, Ranked(rank, n), NEW a \in Int, ~InTrampoline(a),
         \A r \in Records : r.target \in Places(layout) => ~InSpan(layout, r.target, a)
  PROVE  Same(a)
<1>1. ASSUME NEW r \in Records, InRecord(r, a) PROVE FALSE
  <2>1. layout \in Layouts /\ Site(r.target) /\ InArea(r.target, a)
    BY <1>1, RecordFacts
  <2>2. CASE r.target \in Places(layout)
    BY <2>1, <2>2 DEF InArea
  <2>3. CASE \E t \in Trampolines[FALSE] : r.target = t + CodeIn
    <3>1. PICK t \in Trampolines[FALSE] : r.target = t + CodeIn
      BY <2>3
    <3>2. t <= a /\ a < t + TrampolineSize
      BY <2>1, <3>1, SiteFacts
    <3> QED BY <3>2 DEF InTrampoline, AnyTrampoline
  <2> QED BY <2>1, <2>2, <2>3 DEF Site
<1>2. Part(code, a) = Base(a)
  BY <1>1 DEF Ranked, PlainInv, Plain
<1>3. \A t \in Trampolines[FALSE] : a # t + CodeIn
  <2> SUFFICES ASSUME NEW t \in Trampolines[FALSE], a = t + CodeIn PROVE FALSE
    OBVIOUS
  <2>1. t \in AnyTrampoline
    BY DEF AnyTrampoline
  <2>2. t \in Nat
    BY <2>1, TrampolineFacts
  <2>3. t <= a /\ a < t + TrampolineSize
    BY <2>2, NumberFacts
  <2> QED BY <2>1, <2>3 DEF InTrampoline
<1>4. Part(code, a) = Part(layout.image, a)
  BY <1>2, <1>3 DEF Base
<1> QED BY <1>4, AtPart DEF Same

\* Pointers that imports go through are outside of trampolines.
LEMMA ImportsSame ==
  ASSUME NEW n, NEW rank, Ranked(rank, n)
  PROVE  SlotsSame
<1> SUFFICES ASSUME NEW x \in layout.iat PROVE Slot(x) = OldSlot(layout, x)
  BY DEF SlotsSame
<1>1. x \in Int /\ ~InTrampoline(x)
  BY JumpsLayouts DEF ProperCode, Ranked, TypeInv
<1>2. Part(slots, x) = Part(layout.slots, x)
  BY <1>1 DEF Ranked, PlainInv
<1> QED BY <1>2 DEF Part, Slot, OldSlot

\* A pointer leads to a place, or, over a hook's jump, to the jump behind it.
LEMMA TargetIsSite ==
  ASSUME NEW n, NEW rank, Ranked(rank, n), NEW p \in layout.entries
  PROVE  NowSite(CodeFromPointer(p))
<1> DEFINE b == OldCodeFromPointer(layout, p)
           goal == NowSite(CodeFromPointer(p))
<1>1. layout \in Layouts /\ b \in Places(layout) /\ NowSite(b) /\ Site(b)
  BY DEF Ranked, TypeInv, Places, NowSite, Site
<1>2. \A a \in Seen(layout, p) :
        /\ a \in Int /\ ~InTrampoline(a)
        /\ \A c \in Places(layout) : InSpan(layout, c, a) =>
              \/ b = c /\ (c = p \/ (p \notin layout.ec /\ c = a))
              \/ /\ p \in layout.ec /\ OldAt(layout, p).op = "b" /\ b = p
                 /\ a = c /\ a = Branch(layout, p)
  <2>1. ProperEntries(layout)
    BY <1>1, JumpsLayouts
  <2> QED BY <2>1 DEF ProperEntries
<1>3. SlotsSame
  BY ImportsSame
<1>4. p \in Seen(layout, p) /\ p \in Int /\ (IsEcCode(p) <=> p \in layout.ec)
  <2>1. p \in Seen(layout, p)
    BY DEF Seen, SeenImport
  <2>2. p \in Int /\ ~InTrampoline(p)
    BY <1>2, <2>1
  <2> QED BY <1>1, <2>1, <2>2, EcFacts
<1>5. ASSUME \A a \in Seen(layout, p) : Same(a) PROVE goal
  BY <1>1, <1>3, <1>4, <1>5, SameFollowed
\* What differs is in the span of a place that a hook is on.
<1>6. ASSUME NEW a \in Seen(layout, p), ~Same(a)
      PROVE  \E c \in Places(layout) :
               InSpan(layout, c, a) /\ \E r \in Records : r.target = c /\ HasJump(code, c, r.at)
  <2>1. a \in Int /\ ~InTrampoline(a)
    BY <1>2
  <2>2. PICK r \in Records : r.target \in Places(layout) /\ InSpan(layout, r.target, a)
    BY <1>6, <2>1, Elsewhere
  <2>3. \E q \in Records : q.target = r.target /\ HasJump(code, r.target, q.at)
    BY HookedSite
  <2> QED BY <2>2, <2>3
<1>7. CASE p \in layout.ec
  <2> SUFFICES ASSUME NEW a \in Seen(layout, p), ~Same(a) PROVE goal
    BY <1>5
  <2>1. ASSUME NEW r \in Records, r.target = p, HasJump(code, p, r.at), b = p PROVE goal
    <3>1. SkipImportArm64(p) = p /\ At(p).op = "adrp"
      BY <1>4, <1>7, <2>1, JumpNotFollowed
    <3>2. CodeFromPointer(p) = p
      BY <1>4, <1>7, <3>1 DEF CodeFromPointer, SkipJmpArm64
    <3> QED BY <1>1, <2>1, <3>2
  <2>2. PICK c \in Places(layout) :
          InSpan(layout, c, a) /\ \E r \in Records : r.target = c /\ HasJump(code, c, r.at)
    BY <1>6
  <2>3. PICK r \in Records : r.target = c /\ HasJump(code, c, r.at)
    BY <2>2
  <2>4. \/ b = c /\ c = p
        \/ OldAt(layout, p).op = "b" /\ b = p /\ a = c /\ a = Branch(layout, p)
    BY <1>2, <1>7, <2>2
  <2>5. CASE b = c /\ c = p
    BY <2>1, <2>3, <2>5
  <2>6. CASE OldAt(layout, p).op = "b" /\ b = p /\ a = c /\ a = Branch(layout, p)
    <3>1. CASE ~Same(p)
      <4>1. PICK d \in Places(layout) :
              InSpan(layout, d, p) /\ \E q \in Records : q.target = d /\ HasJump(code, d, q.at)
        BY <1>4, <1>6, <3>1
      <4>2. d = p
        BY <1>2, <1>4, <2>6, <4>1
      <4> QED BY <2>1, <2>6, <4>1, <4>2
    <3>2. CASE Same(p)
      <4>1. At(p).op = "b" /\ p + At(p).n = c
        BY <2>6, <3>2 DEF Same, Branch
      <4>2. SkipImportArm64(c) = c
        <5>1. c \in Int
          BY <2>3, RecordFacts
        <5> QED BY <2>3, <5>1, JumpNotFollowed
      <4>3. SkipImportArm64(p) = p
        BY <4>1 DEF SkipImportArm64, IsImportArm64
      <4>4. CodeFromPointer(p) = p
        BY <1>4, <1>7, <4>1, <4>2, <4>3 DEF CodeFromPointer, SkipJmpArm64
      <4> QED BY <1>1, <2>6, <4>4
    <3> QED BY <3>1, <3>2
  <2> QED BY <2>4, <2>5, <2>6
<1>8. CASE p \notin layout.ec
  <2> SUFFICES ASSUME NEW a \in Seen(layout, p), ~Same(a) PROVE goal
    BY <1>5
  <2> DEFINE q == OldSkipImport(layout, p)
             behind == Behind(layout, q)
  <2>1. PICK r \in Records : r.target = b /\ HasJump(code, b, r.at) /\ (b = p \/ b = a)
    BY <1>2, <1>6, <1>8
  <2>2. /\ b \in Int /\ r.at \in Int /\ r.at \in Trampolines[(b \in layout.ec)]
        /\ SkipImport(b) = b /\ SkipPatch(b) = b /\ ~IsOsPatch(b)
        /\ At(b).op = "near" => b \notin layout.ec
             /\ b + 5 + At(b).n = b + 5 + ((r.at + CodeIn) - (b + 5))
    <3>1. b \in Int /\ r.at \in Int /\ r.at \in Trampolines[(b \in layout.ec)]
      BY <2>1, RecordFacts
    <3> HIDE DEF b
    <3> QED BY <2>1, <3>1, JumpNotFollowed
  <2>3. CodeFromPointer(p) = SkipPatch(SkipImport(p)) /\ b = OldSkipPatch(layout, q)
    BY <1>4, <1>8 DEF CodeFromPointer, OldCodeFromPointer, SkipJmp, OldSkipJmp
  <2>4. CASE p = b
    BY <1>1, <2>2, <2>3, <2>4
  <2>5. CASE p # b
    <3>1. ASSUME NEW x \in Seen(layout, p), x # b PROVE Same(x)
      BY <1>2, <1>6, <1>8, <2>5, <3>1
    <3>2. SkipImport(p) = q
      BY <1>3, <1>4, <2>5, <3>1, SameSkipImport
    <3>3. Seen(layout, p) = {p} \cup SeenPatch(layout, q)
      BY <1>8 DEF Seen
    <3> HIDE DEF b
    <3>4. CASE q = b
      BY <1>1, <2>2, <2>3, <3>2, <3>4
    <3>5. CASE q # b
      <4>1. Same(q) /\ At(q) = OldAt(layout, q)
        BY <3>1, <3>3, <3>5 DEF SeenPatch, Same
      <4>2. At(q).op = "short"
        BY <2>3, <3>5, <4>1 DEF OldSkipPatch
      <4>3. /\ behind \in Seen(layout, p)
            /\ OldAt(layout, behind).op = "near" => Far(layout, behind) \in Seen(layout, p)
        BY <3>3, <4>1, <4>2 DEF SeenPatch
      <4>4. SkipPatch(q) =
              IF At(behind).op = "near" /\ ~IsOsPatch(behind + 5 + At(behind).n)
              THEN behind + 5 + At(behind).n ELSE SkipImport(behind)
        <5>1. behind = q + 2 + At(q).n
          BY <4>1 DEF Behind
        <5> HIDE DEF q, behind
        <5> QED BY <4>2, <5>1 DEF SkipPatch
      <4>5. CASE behind = b
        <5>1. CASE SkipPatch(q) = b
          BY <1>1, <2>3, <3>2, <5>1
        <5>2. CASE SkipPatch(q) # b
          <6>1. At(b).op = "near" /\ SkipPatch(q) = b + 5 + At(b).n
            BY <2>2, <4>4, <4>5, <5>2
          <6>2. b + 5 + ((r.at + CodeIn) - (b + 5)) = r.at + CodeIn
            BY <2>2, NumberFacts
          <6>3. r.at \in Trampolines[FALSE]
            <7>1. (b \in layout.ec) = FALSE
              BY <2>2, <6>1
            <7> QED BY <2>2, <7>1
          <6>4. OnHook(SkipPatch(q), r)
            BY <2>2, <6>1, <6>2, <6>3 DEF OnHook
          <6> QED BY <2>3, <3>2, <6>4 DEF NowSite
        <5> QED BY <5>1, <5>2
      <4>6. CASE behind # b
        <5>1. Same(behind) /\ At(behind) = OldAt(layout, behind)
          BY <3>1, <4>3, <4>6 DEF Same
        <5>2. CASE At(behind).op = "near" /\ Far(layout, behind) = b
          <6>1. behind + 5 + At(behind).n = b
            BY <5>1, <5>2 DEF Far
          <6>2. SkipPatch(q) = b
            BY <2>2, <4>4, <5>2, <6>1
          <6> QED BY <1>1, <2>3, <3>2, <6>2
        <5>3. CASE ~(At(behind).op = "near" /\ Far(layout, behind) = b)
          <6>1. \A x \in SeenPatch(layout, q) : Same(x)
            <7> SUFFICES ASSUME NEW x \in SeenPatch(layout, q) PROVE Same(x)
              OBVIOUS
            <7>1. x # b
              BY <3>5, <4>1, <4>2, <4>6, <5>1, <5>3 DEF SeenPatch
            <7> QED BY <3>1, <3>3, <7>1
          <6>2. SkipPatch(q) = b
            BY <1>3, <2>3, <6>1, SameSkipPatch
          <6> QED BY <1>1, <2>3, <3>2, <6>2
        <5> QED BY <5>2, <5>3
      <4> QED BY <4>5, <4>6
    <3> QED BY <3>4, <3>5
  <2> QED BY <2>4, <2>5
<1> QED BY <1>7, <1>8

\* Pointers to detours lead where they always did.
LEMMA DetourSame ==
  ASSUME NEW n, NEW rank, Ranked(rank, n), NEW h \in Hooks
  PROVE  CodeFromPointer(layout.detour[h]) = OldCodeFromPointer(layout, layout.detour[h])
<1> DEFINE p == layout.detour[h]
<1>1. layout \in Layouts
  BY DEF Ranked, TypeInv
<1>2. \A a \in Seen(layout, p) :
        a \in Int /\ ~InTrampoline(a) /\ \A b \in Places(layout) : ~InSpan(layout, b, a)
  BY <1>1, JumpsLayouts DEF ProperDetours
<1>3. p \in Seen(layout, p)
  BY DEF Seen, SeenImport
<1>4. IsEcCode(p) <=> p \in layout.ec
  BY <1>1, <1>2, <1>3, EcFacts
<1>5. \A a \in Seen(layout, p) : Same(a)
  BY <1>2, Elsewhere
<1>6. SlotsSame
  BY ImportsSame
<1> QED BY <1>4, <1>5, <1>6, SameFollowed

-----------------------------------------------------------------------------
(* A hook is put.                                                          *)

\* Bytes that may be taken at a place are in no trampoline, or in that of a hook.
LEMMA AreaFacts ==
  ASSUME NEW n, NEW rank, Ranked(rank, n), NEW s, NowSite(s), NEW a \in Int, InArea(s, a),
         NEW u \in AnyTrampoline, u <= a, a < u + TrampolineSize
  PROVE  \E q \in Records : q.at = u /\ OnHook(s, q)
<1>1. layout \in Layouts /\ Site(s) /\ InTrampoline(a)
  BY DEF Ranked, TypeInv, NowSite, Site, OnHook, InTrampoline
<1>2. s \notin Places(layout)
  BY <1>1, SiteFacts
<1>3. PICK q \in Records : OnHook(s, q)
  BY <1>2 DEF NowSite
<1>4. q.at \in Trampolines[FALSE] /\ s = q.at + CodeIn /\ q.at \in AnyTrampoline
  BY <1>3 DEF OnHook, AnyTrampoline
<1>5. q.at <= a /\ a < q.at + TrampolineSize
  BY <1>1, <1>4, SiteFacts
<1>6. q.at = u
  BY <1>4, <1>5, TrampolinesApart
<1> QED BY <1>3, <1>6

\* The place that a hook's place stands for.
LEMMA HomeFacts ==
  ASSUME NEW n, NEW rank, Ranked(rank, n), NEW s
  PROVE  /\ s \in Places(layout) => Home(s) = s
         /\ \A q \in Records : OnHook(s, q) => Home(s) = q.home
<1> DEFINE around == {r \in Records : r.at <= s /\ s < r.at + TrampolineSize}
<1>1. Home(s) = IF around = {} THEN s ELSE (CHOOSE r \in around : TRUE).home
  BY DEF Home, Records
<1>2. ASSUME s \in Places(layout) PROVE Home(s) = s
  <2>1. s \in Int /\ ~InTrampoline(s)
    <3>1. layout \in Layouts /\ Site(s)
      BY <1>2 DEF Ranked, TypeInv, Site
    <3>2. /\ s \in Int /\ JumpAt(s) \in {5, 12} /\ \A a \in s..s + JumpAt(s) - 1 : InArea(s, a)
          /\ \A a \in Int : InArea(s, a) => ~InTrampoline(a)
      BY <1>2, <3>1, SiteFacts
    <3>3. s \in s..s + JumpAt(s) - 1
      BY <3>2
    <3> QED BY <3>2, <3>3
  <2>2. around = {}
    <3> SUFFICES ASSUME NEW r \in Records, r.at <= s, s < r.at + TrampolineSize PROVE FALSE
      OBVIOUS
    <3>1. r.at \in AnyTrampoline
      BY RecordFacts
    <3> QED BY <2>1, <3>1 DEF InTrampoline
  <2> QED BY <1>1, <2>2
<1>3. ASSUME NEW q \in Records, OnHook(s, q) PROVE Home(s) = q.home
  <2>1. s = q.at + CodeIn /\ q.at \in AnyTrampoline /\ q.at \in Int
    BY <1>3, RecordFacts DEF OnHook
  <2>2. s \in Int /\ q.at <= s /\ s < q.at + TrampolineSize
    BY <2>1, NumberFacts
  <2>3. ASSUME NEW r \in around PROVE r = q
    <3>1. r.at \in AnyTrampoline /\ r \in Records
      BY RecordFacts
    <3>2. r.at = q.at
      BY <2>1, <2>2, <2>3, <3>1, TrampolinesApart
    <3> QED BY <3>1, <3>2 DEF Ranked, RecordsInv
  <2>4. q \in around
    BY <2>2
  <2>5. (CHOOSE r \in around : TRUE) = q
    <3> HIDE DEF around
    <3> QED BY <2>3, <2>4
  <2> QED BY <1>1, <2>4, <2>5
<1> QED BY <1>2, <1>3

\* What a place without hooks or with some is, and what is taken of it.
SiteNow(s, remain, rank) ==
  /\ \A b \in s..s + JumpAt(s) - 1 : At(b).len \in 1..15
  /\ remain \in Int
  /\ s + JumpAt(s) <= remain => \A a \in s..remain - 1 : InArea(s, a)
  /\ (\A r \in Records : r.target # s) => \A a \in Int : InArea(s, a) => Part(code, a) = Base(a)
  /\ s + JumpAt(s) <= remain /\ (\E r \in Records : r.target = s) => remain = s + JumpAt(s)

\* Each place is of one of the two kinds.
LEMMA SiteIsNow ==
  ASSUME NEW n, NEW rank, Ranked(rank, n), NEW s, NowSite(s)
  PROVE  SiteNow(s, Nth(s)[PatchedCount(s) + 1], rank)
<1> DEFINE remain == Nth(s)[PatchedCount(s) + 1]
<1>1. layout \in Layouts /\ Site(s)
  BY DEF Ranked, TypeInv, NowSite, Site, OnHook
<1>2. s \in Int /\ JumpAt(s) \in {5, 12} /\ SizeAt(s) = JumpAt(s)
      /\ \A a \in s..s + JumpAt(s) - 1 : InArea(s, a)
  BY <1>1, SiteFacts
<1>3. CASE \A r \in Records : r.target # s
  <2>1. \A a \in Int : InArea(s, a) => Part(code, a) = Base(a)
    BY <1>3, UnhookedSite
  <2>2. \A a \in s..s + JumpAt(s) - 1 : Part(code, a) = Base(a)
    BY <1>2, <2>1
  <2>3. \A a \in s..s + JumpAt(s) - 1 : At(a).len \in 1..15
    BY <1>1, <2>2, BaseCells
  <2>4. remain \in Int /\ \A a \in s..remain - 1 : InArea(s, a)
    BY <1>1, <2>2, BaseRemain
  <2> HIDE DEF remain
  <2>5. SiteNow(s, remain, rank)
    BY <1>3, <2>1, <2>3, <2>4 DEF SiteNow
  <2> QED BY <2>5 DEF remain
<1>4. CASE \E r \in Records : r.target = s
  <2>1. PICK r \in Records : r.target = s /\ HasJump(code, s, r.at)
    BY <1>4, HookedSite
  <2>2. \A a \in s..s + JumpAt(s) - 1 : At(a).len \in 1..15
    BY <1>2, <2>1, JumpCells
  <2>3. remain \in Int
    <3>1. MovedCount(s) \in 1..4 /\ PatchedCount(s) \in MovedCount(s)..4
      BY MovedFacts, PatchedCountFacts
    <3>2. PatchedCount(s) \in 1..PatchedCount(s)
      BY <3>1
    <3> QED BY <1>2, <2>2, <3>2, TakenFacts
  <2>4. ASSUME s + JumpAt(s) <= remain PROVE remain = s + JumpAt(s)
    <3>1. remain - s >= SizeAt(s)
      <4> HIDE DEF remain
      <4> QED BY <1>2, <2>3, <2>4
    <3> QED BY <1>1, <2>1, <3>1, JumpRemain
  <2> HIDE DEF remain
  <2>5. SiteNow(s, remain, rank)
    BY <1>2, <1>4, <2>2, <2>3, <2>4 DEF SiteNow
  <2> QED BY <2>5 DEF remain
<1> QED BY <1>3, <1>4

\* What Hook does, at s, with the trampoline t.
Put(rank, n, h, s, t, new) ==
  /\ Ranked(rank, n) /\ UNCHANGED <<layout, leaked>>
  /\ h \in Hooks /\ h \notin ToSet(order)
  /\ layout \in Layouts /\ NowSite(s) /\ Site(s) /\ s \in Int /\ JumpAt(s) \in {5, 12}
  /\ t \in AnyTrampoline \ Used /\ t \in Trampolines[(s \in layout.ec)] /\ t \in Int
  /\ new.at = t /\ new.target = s /\ new.home = Home(s) /\ new.rbRestore = Saved(s, new.remain)
  /\ SiteNow(s, new.remain, rank) /\ s + JumpAt(s) <= new.remain
  /\ hook' = [hook EXCEPT ![h] = new] /\ order' = Append(order, h)

PutCode(s, t, remain) ==
  /\ IsFunction(code') /\ \A a \in DOMAIN code' : a \in Int
  /\ HasJump(code', s, t)
  /\ \A a \in Int : ~(s <= a /\ a < remain) /\ ~(t <= a /\ a < t + TrampolineSize)
       => Part(code', a) = Part(code, a)
  /\ t \in Trampolines[FALSE] => \A a \in t + CodeIn..t + CodeIn + 5 : Part(code', a) = Base(a)

PutSlots(h, t) ==
  /\ IsFunction(slots') /\ \A a \in DOMAIN slots' : a \in Int
  /\ \A a \in Int : ~(t <= a /\ a < t + TrampolineSize) => Part(slots', a) = Part(slots, a)
  /\ Part(slots', t + DetourSlot) = <<OldCodeFromPointer(layout, layout.detour[h])>>
  /\ t \in Trampolines[TRUE] => IsEcCode(OldCodeFromPointer(layout, layout.detour[h]))

\* What is taken of a place is not of a trampoline that is free.
LEMMA TakenApart ==
  ASSUME NEW n, NEW rank, Ranked(rank, n), NEW s, NowSite(s), NEW a \in Int, InArea(s, a),
         NEW u \in AnyTrampoline \ Used
  PROVE  ~(u <= a /\ a < u + TrampolineSize)
<1> SUFFICES ASSUME u <= a, a < u + TrampolineSize PROVE FALSE
  OBVIOUS
<1>1. PICK q \in Records : q.at = u
  BY AreaFacts
<1> QED BY <1>1, RecordFacts

\* A hook is put at a place, where its jump is then.
LEMMA HookPuts ==
  ASSUME NEW n, NEW rank, Ranked(rank, n), NEW h \in Hooks, NEW p \in layout.entries, Hook(h, p)
  PROVE  \E s, t, new : Put(rank, n, h, s, t, new) /\ PutCode(s, t, new.remain) /\ PutSlots(h, t)
<1> DEFINE s == CodeFromPointer(p)
           detour == CodeFromPointer(layout.detour[h])
           arm == IsEcCode(s)
           remain == Nth(s)[PatchedCount(s) + 1]
           t == Min(Trampolines[arm] \ Used)
           new == [at |-> t, target |-> s, remain |-> remain, home |-> Home(s),
                   rbRestore |-> Saved(s, remain)]
<1>1. /\ h \notin ToSet(order) /\ remain - s >= SizeAt(s) /\ Trampolines[arm] \ Used # {}
      /\ hook' = [hook EXCEPT ![h] = new]
      /\ code' = Patched(s, t, remain, arm)
      /\ slots' = Over([a \in {t + DetourSlot} |-> detour],
           Over([a \in {IF arm THEN t + Pool ELSE t + RemainSlot} |-> remain], slots))
      /\ order' = Append(order, h) /\ UNCHANGED <<layout, leaked>>
      /\ arm => IsEcCode(detour)
  BY DEF Hook, SizeAt
<1>2. NowSite(s)
  BY TargetIsSite
<1>3. detour = OldCodeFromPointer(layout, layout.detour[h])
  BY DetourSame
<1> HIDE DEF s, detour
<1>4. SiteNow(s, remain, rank)
  BY <1>2, SiteIsNow
<1>5. layout \in Layouts /\ Site(s)
  BY <1>2 DEF Ranked, TypeInv, NowSite, Site, OnHook
<1>6. s \in Int /\ (arm <=> s \in layout.ec) /\ JumpAt(s) \in {5, 12} /\ SizeAt(s) = JumpAt(s)
  BY <1>5, SiteFacts
<1> HIDE DEF remain
<1>7. remain \in Int /\ s + JumpAt(s) <= remain
  <2>1. remain \in Int
    BY <1>4 DEF SiteNow
  <2> QED BY <1>1, <1>6, <2>1
<1>8. t \in Trampolines[arm] \ Used
  <2>1. arm \in BOOLEAN
    BY DEF IsEcCode
  <2> HIDE DEF arm
  <2>2. Trampolines[arm] \ Used \in SUBSET Nat
    BY <2>1, JumpsNumbers
  <2> QED BY <1>1, <2>2, MinFacts
<1>9. t \in AnyTrampoline \ Used /\ t \in Trampolines[(s \in layout.ec)]
  <2>1. arm = TRUE \/ arm = FALSE
    BY DEF IsEcCode
  <2>2. arm = (s \in layout.ec)
    <3>1. arm <=> s \in layout.ec
      BY <1>6
    <3> HIDE DEF arm
    <3>2. CASE arm = TRUE
      <4>1. (s \in layout.ec) = TRUE
        BY <3>1, <3>2
      <4> QED BY <3>2, <4>1
    <3>3. CASE arm = FALSE
      <4>1. (s \in layout.ec) = FALSE
        BY <3>1, <3>3
      <4> QED BY <3>3, <4>1
    <3> QED BY <2>1, <3>2, <3>3
  <2> HIDE DEF arm, t
  <2>3. t \in Trampolines[(s \in layout.ec)]
    BY <1>8, <2>2
  <2>4. t \in AnyTrampoline
    BY <1>8, <2>1 DEF AnyTrampoline
  <2> QED BY <1>8, <2>3, <2>4
<1>10. t \in Int
  BY <1>9, TrampolineFacts
<1>11. \A a \in s..remain - 1 : InArea(s, a)
  BY <1>4, <1>7 DEF SiteNow
<1> HIDE DEF t
<1>12. Put(rank, n, h, s, t, new)
  <2>1. new.at = t /\ new.target = s /\ new.remain = remain /\ new.home = Home(s)
        /\ new.rbRestore = Saved(s, remain)
    OBVIOUS
  <2> HIDE DEF new
  <2> QED BY <1>1, <1>2, <1>4, <1>5, <1>6, <1>7, <1>9, <1>10, <2>1 DEF Put
<1>13. PutCode(s, t, remain)
  <2>1. \A b \in s..s + JumpAt(s) - 1 : At(b).len \in 1..15
    BY <1>4 DEF SiteNow
  <2>2. \A a \in s..remain - 1 : ~(t <= a /\ a < t + TrampolineSize)
    BY <1>2, <1>6, <1>7, <1>9, <1>11, TakenApart
  <2>3. \A a \in t..t + TrampolineSize - 1 : a \notin DOMAIN code
    BY <1>9 DEF Ranked, PlainInv
  <2>4. MayBePut(s, t, remain)
    BY <1>5, <1>6, <1>7, <1>9, <2>1, <2>2, <2>3 DEF MayBePut
  <2>5. code' = Patched(s, t, remain, IsEcCode(s))
    BY <1>1
  <2>6. PutParts(code', s, t, remain)
    BY <2>4, <2>5, PatchedParts
  <2>7. \A a \in DOMAIN code : a \in Int
    BY DEF Ranked, TypeInv
  <2> QED BY <2>6, <2>7 DEF PutCode, PutParts
<1>14. PutSlots(h, t)
  <2> DEFINE x == IF arm THEN t + Pool ELSE t + RemainSlot
             f == [a \in {t + DetourSlot} |-> detour]
             g == [a \in {x} |-> remain]
  <2>1. x \in Int /\ t + DetourSlot \in Int
        /\ t <= x /\ x < t + TrampolineSize
        /\ t <= t + DetourSlot /\ t + DetourSlot < t + TrampolineSize
    BY <1>10, NumberFacts
  <2>2. slots' = Over(f, Over(g, slots))
    BY <1>1
  <2>3. DOMAIN f = {t + DetourSlot} /\ f[t + DetourSlot] = detour /\ DOMAIN g = {x}
    OBVIOUS
  <2> HIDE DEF x, f, g
  <2>4. IsFunction(slots') /\ DOMAIN slots' = {t + DetourSlot} \cup {x} \cup DOMAIN slots
    <3>1. DOMAIN Over(g, slots) = {x} \cup DOMAIN slots
      BY <2>3, FunctionOver
    <3>2. IsFunction(slots') /\ DOMAIN slots' = DOMAIN f \cup DOMAIN Over(g, slots)
      BY <2>2, FunctionOver
    <3> QED BY <2>3, <3>1, <3>2
  <2>5. \A a \in DOMAIN slots' : a \in Int
    BY <2>1, <2>4 DEF Ranked, TypeInv
  <2>6. \A a : Part(slots', a) = IF a = t + DetourSlot THEN Part(f, a)
                                 ELSE IF a = x THEN Part(g, a) ELSE Part(slots, a)
    BY <2>2, <2>3, PartOver
  <2>7. Part(slots', t + DetourSlot) = <<detour>>
    BY <2>3, <2>6 DEF Part
  <2>8. ASSUME NEW a \in Int, ~(t <= a /\ a < t + TrampolineSize) PROVE Part(slots', a) = Part(slots, a)
    BY <2>1, <2>6, <2>8
  <2>9. t \in Trampolines[TRUE] => IsEcCode(detour)
    <3> SUFFICES ASSUME t \in Trampolines[TRUE] PROVE s \in layout.ec
      BY <1>1, <1>6
    <3> SUFFICES ASSUME s \notin layout.ec PROVE FALSE
      OBVIOUS
    <3>1. (s \in layout.ec) = FALSE
      OBVIOUS
    <3>2. t \in Trampolines[FALSE]
      BY <1>9, <3>1
    <3> QED BY <3>2, JumpsNumbers
  <2> QED BY <1>3, <2>4, <2>5, <2>7, <2>8, <2>9 DEF PutSlots
<1> QED BY <1>12, <1>13, <1>14

\* The new hook is another one, with a trampoline of its own.
LEMMA PutRecords ==
  ASSUME NEW rank, NEW n, NEW h, NEW s, NEW t, NEW new, Put(rank, n, h, s, t, new)
  PROVE  /\ Records' = Records \cup {new} /\ Used' = Used \cup {t}
         /\ ToSet(order') = ToSet(order) \cup {h} /\ ToSet(order) \subseteq Hooks
         /\ hook'[h] = new /\ \A g \in ToSet(order) : hook'[g] = hook[g] /\ g # h /\ hook[g] \in Records
         /\ \A r \in Records : r.at # t
<1>1. /\ h \in Hooks /\ h \notin ToSet(order) /\ leaked' = leaked
      /\ hook' = [hook EXCEPT ![h] = new] /\ order' = Append(order, h)
      /\ order \in Seq(Hooks) /\ DOMAIN hook = Hooks /\ new.at = t /\ t \notin Used
  BY DEF Put, Ranked, TypeInv
<1>2. ToSet(order) \subseteq Hooks
  BY <1>1 DEF ToSet
<1>3. ToSet(order') = ToSet(order) \cup {h}
  BY <1>1 DEF ToSet
<1>4. hook'[h] = new /\ \A g \in ToSet(order) : hook'[g] = hook[g] /\ g # h /\ hook[g] \in Records
  BY <1>1, <1>2 DEF Records
<1>5. Records' = Records \cup {new}
  <2>1. {hook'[g] : g \in ToSet(order')} = {hook[g] : g \in ToSet(order)} \cup {new}
    BY <1>3, <1>4
  <2>2. Records' = {hook'[g] : g \in ToSet(order')} \cup leaked
    BY <1>1 DEF Records
  <2> QED BY <2>1, <2>2 DEF Records
<1>6. Used' = Used \cup {t}
  <2>1. {hook'[g].at : g \in ToSet(order')} = {hook[g].at : g \in ToSet(order)} \cup {t}
    BY <1>1, <1>3, <1>4
  <2>2. Used' = {hook'[g].at : g \in ToSet(order')} \cup {r.at : r \in leaked}
    BY <1>1 DEF Used
  <2> QED BY <2>1, <2>2 DEF Used
<1>7. \A r \in Records : r.at # t
  BY <1>1 DEF Records, Used
<1> QED BY <1>2, <1>3, <1>4, <1>5, <1>6, <1>7

\* The layout alone says what may be taken, and what is there without hooks.
LEMMA Fixed ==
  ASSUME UNCHANGED layout
  PROVE  /\ \A a : Base(a)' = Base(a)
         /\ \A s, a : InArea(s, a)' <=> InArea(s, a)
         /\ \A s : JumpAt(s)' = JumpAt(s)
         /\ \A s, t, a : JumpCell(s, t, a)' = JumpCell(s, t, a)
         /\ \A r, a : InRecord(r, a)' <=> InRecord(r, a)
<1>1. ASSUME NEW a PROVE Base(a)' = Base(a)
  BY DEF Base
<1>2. ASSUME NEW s, NEW a PROVE InArea(s, a)' <=> InArea(s, a)
  BY DEF InArea
<1>3. ASSUME NEW s PROVE JumpAt(s)' = JumpAt(s)
  BY DEF JumpAt
<1>4. ASSUME NEW s, NEW t, NEW a PROVE JumpCell(s, t, a)' = JumpCell(s, t, a)
  BY DEF JumpCell
<1>5. ASSUME NEW r, NEW a PROVE InRecord(r, a)' <=> InRecord(r, a)
  BY DEF InRecord
<1> QED BY <1>1, <1>2, <1>3, <1>4, <1>5

\* Nor do detours, and what is said of them.
LEMMA DetoursFixed ==
  ASSUME UNCHANGED layout,
         \A g \in ToSet(order') :
           Part(slots', hook'[g].at + DetourSlot) = <<OldCodeFromPointer(layout, layout.detour[g])>>,
         \A g \in ToSet(order') : hook'[g].at \in Trampolines[TRUE] =>
           IsEcCode(OldCodeFromPointer(layout, layout.detour[g]))
  PROVE  DetourInv'
<1>1. \A a : IsEcCode(a)' <=> IsEcCode(a)
  BY DEF IsEcCode
<1>2. \A g : OldCodeFromPointer(layout', layout'.detour[g]) = OldCodeFromPointer(layout, layout.detour[g])
  OBVIOUS
<1> QED BY <1>1, <1>2 DEF DetourInv

\* The new hook is recorded as the others are.
LEMMA PutRecordsInv ==
  ASSUME NEW rank, NEW n, NEW h, NEW s, NEW t, NEW new, Put(rank, n, h, s, t, new),
         PutCode(s, t, new.remain), PutSlots(h, t)
  PROVE  TypeInv' /\ RecordsInv'
<1>1. /\ Ranked(rank, n) /\ TypeInv /\ RecordsInv /\ UNCHANGED <<layout, leaked>>
      /\ h \in Hooks /\ h \notin ToSet(order)
      /\ hook' = [hook EXCEPT ![h] = new] /\ order' = Append(order, h)
      /\ layout \in Layouts /\ s \in Int /\ t \in Trampolines[(s \in layout.ec)]
      /\ new.at = t /\ new.target = s /\ new.rbRestore = Saved(s, new.remain)
      /\ new.remain \in Int /\ s + JumpAt(s) <= new.remain
      /\ \A a \in s..new.remain - 1 : InArea(s, a)
  BY DEF Put, Ranked, SiteNow
<1>2. /\ Records' = Records \cup {new}
      /\ ToSet(order') = ToSet(order) \cup {h} /\ ToSet(order) \subseteq Hooks
      /\ hook'[h] = new /\ \A g \in ToSet(order) : hook'[g] = hook[g] /\ g # h /\ hook[g] \in Records
      /\ \A r \in Records : r.at # t
  BY PutRecords
<1>3. TypeInv'
  <2>1. IsFunction(hook') /\ DOMAIN hook' = Hooks
    BY <1>1 DEF TypeInv, IsFunction
  <2>2. order' \in Seq(Hooks)
    BY <1>1 DEF TypeInv
  <2>3. \A i, j \in DOMAIN order' : order'[i] = order'[j] => i = j
    BY <1>1 DEF TypeInv, ToSet
  <2> QED BY <1>1, <2>1, <2>2, <2>3 DEF TypeInv, PutCode, PutSlots
<1>4. RecordInv(new)'
  <2>1. IsFunction(new.rbRestore) /\ \A a \in DOMAIN new.rbRestore : a \in Int /\ InRecord(new, a)
    <3>1. new.rbRestore = [a \in {a \in DOMAIN code : s <= a /\ a < new.remain} |-> code[a]]
      BY <1>1 DEF Saved, Restrict
    <3>2. \A a \in DOMAIN code : a \in Int
      BY <1>1 DEF TypeInv
    <3> QED BY <1>1, <3>1, <3>2 DEF IsFunction, InRecord
  <2>2. UNCHANGED layout
    BY <1>1
  <2> QED BY <1>1, <2>1, <2>2, Fixed DEF RecordInv, InRecord
<1>5. ASSUME NEW r \in Records PROVE RecordInv(r)'
  <2>1. RecordInv(r) /\ UNCHANGED layout
    BY <1>1 DEF RecordsInv
  <2> QED BY <2>1, Fixed DEF RecordInv, InRecord
<1>6. \A q, r \in Records' : q.at = r.at => q = r
  BY <1>1, <1>2 DEF RecordsInv
<1>7. \A f, g \in ToSet(order') : hook'[f] = hook'[g] => f = g
  BY <1>1, <1>2 DEF RecordsInv
<1>8. \A g \in ToSet(order') : hook'[g] \notin leaked'
  <2>1. new \notin leaked
    BY <1>1, <1>2 DEF Records
  <2> QED BY <1>1, <1>2, <2>1 DEF RecordsInv
<1>9. \A r \in Records' : RecordInv(r)'
  BY <1>2, <1>4, <1>5
<1> QED BY <1>3, <1>6, <1>7, <1>8, <1>9 DEF RecordsInv

\* Putting a hook changes what it takes and its trampoline, and nothing else.
LEMMA PutPlainInv ==
  ASSUME NEW rank, NEW n, NEW h, NEW s, NEW t, NEW new, Put(rank, n, h, s, t, new),
         PutCode(s, t, new.remain), PutSlots(h, t)
  PROVE  PlainInv' /\ DetourInv'
<1>1. /\ Ranked(rank, n) /\ PlainInv /\ DetourInv /\ UNCHANGED <<layout, leaked>>
      /\ NowSite(s) /\ s \in Int /\ t \in AnyTrampoline /\ t \in Int /\ t \notin Used
      /\ new.at = t /\ new.target = s
      /\ new.remain \in Int /\ \A a \in s..new.remain - 1 : InArea(s, a)
  BY DEF Put, Ranked, SiteNow
<1>2. /\ Records' = Records \cup {new} /\ Used' = Used \cup {t}
      /\ ToSet(order') = ToSet(order) \cup {h}
      /\ hook'[h] = new /\ \A g \in ToSet(order) : hook'[g] = hook[g] /\ g # h /\ hook[g] \in Records
  BY PutRecords
<1>3. \A a \in Int : ~(s <= a /\ a < new.remain) /\ ~(t <= a /\ a < t + TrampolineSize)
        => Part(code', a) = Part(code, a)
  BY DEF PutCode
<1>4. \A a \in Int : ~(t <= a /\ a < t + TrampolineSize) => Part(slots', a) = Part(slots, a)
  BY DEF PutSlots
<1>5. ASSUME NEW a \in Int, Plain(a)', \A r \in Records' : ~InRecord(r, a)'
      PROVE  Part(code', a) = Base(a)
  <2>1. ~(s <= a /\ a < new.remain) /\ \A r \in Records : ~InRecord(r, a)
    BY <1>1, <1>2, <1>5 DEF InRecord
  <2>2. CASE t <= a /\ a < t + TrampolineSize
    <3>1. InTrampoline(a)
      BY <1>1, <2>2 DEF InTrampoline
    <3>2. PICK q \in Records' : q.at \in Trampolines[FALSE] /\ a \in q.at + CodeIn..q.at + CodeIn + 5
      BY <1>5, <3>1 DEF Plain, InTrampoline
    <3>3. q.at \in AnyTrampoline
      BY <3>2 DEF AnyTrampoline
    <3>4. q.at \in Int
      BY <3>3, TrampolineFacts
    <3>5. q.at <= a /\ a < q.at + TrampolineSize
      BY <3>2, <3>4, NumberFacts
    <3>6. q.at = t
      BY <1>1, <2>2, <3>3, <3>5, TrampolinesApart
    <3> QED BY <3>2, <3>6 DEF PutCode
  <2>3. CASE ~(t <= a /\ a < t + TrampolineSize)
    <3>1. Part(code', a) = Part(code, a)
      BY <1>3, <2>1, <2>3
    <3>2. Plain(a)
      <4>1. CASE ~InTrampoline(a)
        BY <4>1 DEF Plain
      <4>2. CASE InTrampoline(a)
        <5>1. PICK q \in Records' : q.at \in Trampolines[FALSE] /\ a \in q.at + CodeIn..q.at + CodeIn + 5
          BY <1>5, <4>2 DEF Plain, InTrampoline
        <5>2. q.at \in AnyTrampoline
          BY <5>1 DEF AnyTrampoline
        <5>3. q.at \in Int
          BY <5>2, TrampolineFacts
        <5>4. q.at <= a /\ a < q.at + TrampolineSize
          BY <5>1, <5>3, NumberFacts
        <5>5. q \in Records
          BY <1>1, <1>2, <2>3, <5>4
        <5> QED BY <5>1, <5>5 DEF Plain
      <4> QED BY <4>1, <4>2
    <3> QED BY <1>1, <2>1, <3>1, <3>2 DEF PlainInv
  <2> QED BY <2>2, <2>3
<1>6. ASSUME NEW u \in AnyTrampoline \ Used', NEW a \in u..u + TrampolineSize - 1
      PROVE  a \notin DOMAIN code' /\ a \notin DOMAIN slots'
  <2>1. u \in AnyTrampoline \ Used /\ u # t
    BY <1>2, <1>6
  <2>2. u \in Int
    BY <2>1, TrampolineFacts
  <2>3. a \in Int /\ u <= a /\ a < u + TrampolineSize
    BY <2>2, NumberFacts
  <2>4. ~(t <= a /\ a < t + TrampolineSize)
    BY <1>1, <2>1, <2>3, TrampolinesApart
  <2>5. ~(s <= a /\ a < new.remain)
    <3> SUFFICES ASSUME s <= a, a < new.remain PROVE FALSE
      OBVIOUS
    <3>1. InArea(s, a)
      BY <1>1, <2>3
    <3> QED BY <1>1, <2>1, <2>3, <3>1, TakenApart
  <2>6. Part(code', a) = Part(code, a) /\ Part(slots', a) = Part(slots, a)
    BY <1>3, <1>4, <2>3, <2>4, <2>5
  <2>7. a \notin DOMAIN code /\ a \notin DOMAIN slots
    BY <1>1, <2>1 DEF PlainInv
  <2> QED BY <2>6, <2>7 DEF Part
<1>7. ASSUME NEW a \in Int, ~InTrampoline(a) PROVE Part(slots', a) = Part(layout.slots, a)
  <2>1. ~(t <= a /\ a < t + TrampolineSize)
    BY <1>1, <1>7 DEF InTrampoline
  <2> QED BY <1>1, <1>4, <1>7, <2>1 DEF PlainInv
<1>8. PlainInv'
  <2>1. \A a \in Int : Plain(a)' /\ (\A r \in Records' : ~InRecord(r, a)') => Part(code', a) = Base(a)'
    BY <1>1, <1>5, Fixed
  <2>2. \A u \in AnyTrampoline \ Used' : \A a \in u..u + TrampolineSize - 1 :
          a \notin DOMAIN code' /\ a \notin DOMAIN slots'
    BY <1>6
  <2>3. \A a \in Int : ~InTrampoline(a) => Part(slots', a) = Part(layout'.slots, a)
    BY <1>1, <1>7
  <2> QED BY <2>1, <2>2, <2>3 DEF PlainInv
<1>9. ASSUME NEW g \in ToSet(order')
      PROVE  Part(slots', hook'[g].at + DetourSlot) = <<OldCodeFromPointer(layout, layout.detour[g])>>
  <2>1. CASE g = h
    BY <1>1, <1>2, <2>1 DEF PutSlots
  <2>2. CASE g # h
    <3>1. g \in ToSet(order) /\ hook'[g] = hook[g] /\ hook[g] \in Records
      BY <1>2, <1>9, <2>2
    <3> DEFINE r == hook[g]
               a == r.at + DetourSlot
    <3>2. r.at \in AnyTrampoline /\ r.at \in Int /\ r.at # t
      BY <1>1, <3>1, RecordFacts
    <3> HIDE DEF r
    <3>3. a \in Int /\ r.at <= a /\ a < r.at + TrampolineSize
      BY <3>2, NumberFacts
    <3> HIDE DEF a
    <3>4. ~(t <= a /\ a < t + TrampolineSize)
      BY <1>1, <3>2, <3>3, TrampolinesApart
    <3>5. Part(slots', a) = Part(slots, a)
      BY <1>4, <3>3, <3>4
    <3> QED BY <1>1, <3>1, <3>5 DEF DetourInv, a, r
  <2> QED BY <2>1, <2>2
<1>10. ASSUME NEW g \in ToSet(order'), hook'[g].at \in Trampolines[TRUE]
       PROVE  IsEcCode(OldCodeFromPointer(layout, layout.detour[g]))
  <2>1. CASE g = h
    BY <1>1, <1>2, <1>10, <2>1 DEF PutSlots
  <2>2. CASE g # h
    BY <1>1, <1>2, <1>10, <2>2 DEF DetourInv
  <2> QED BY <2>1, <2>2
<1>11. DetourInv'
  BY <1>1, <1>9, <1>10, DetoursFixed
<1> QED BY <1>8, <1>11

\* What is taken of a place by a hook there is not of the trampoline of a new one, nor
\* of what is taken at another place.
LEMMA TakenStays ==
  ASSUME NEW rank, NEW n, NEW h, NEW s, NEW t, NEW new, Put(rank, n, h, s, t, new),
         PutCode(s, t, new.remain), NEW r \in Records, r.target # s
  PROVE  HasJump(code, r.target, r.at) => HasJump(code', r.target, r.at)
<1> SUFFICES ASSUME HasJump(code, r.target, r.at), NEW a \in r.target..r.target + JumpAt(r.target) - 1
             PROVE  Part(code', a) = JumpCell(r.target, r.at, a)
  BY DEF HasJump
<1>1. /\ Ranked(rank, n) /\ NowSite(s) /\ Site(s) /\ s \in Int
      /\ t \in AnyTrampoline \ Used
      /\ new.remain \in Int /\ \A x \in s..new.remain - 1 : InArea(s, x)
  BY DEF Put, SiteNow
<1>2. /\ r.target \in Int /\ r.remain \in Int /\ NowSite(r.target) /\ JumpAt(r.target) \in {5, 12}
      /\ r.target + JumpAt(r.target) <= r.remain /\ layout \in Layouts /\ Site(r.target)
      /\ \A x \in Int : InRecord(r, x) => InArea(r.target, x)
  <2>1. Site(r.target) /\ layout \in Layouts
    BY <1>1, RecordFacts
  <2>2. JumpAt(r.target) \in {5, 12}
    BY <2>1, SiteFacts
  <2> QED BY <1>1, <2>1, <2>2, RecordFacts
<1>3. a \in Int /\ InRecord(r, a)
  BY <1>2 DEF InRecord
<1>4. InArea(r.target, a)
  BY <1>2, <1>3
<1>5. ~(s <= a /\ a < new.remain)
  <2> SUFFICES ASSUME s <= a, a < new.remain PROVE FALSE
    OBVIOUS
  <2>1. InArea(s, a)
    BY <1>1, <1>3
  <2> QED BY <1>1, <1>2, <1>3, <1>4, <2>1, AreasApart
<1>6. ~(t <= a /\ a < t + TrampolineSize)
  BY <1>1, <1>2, <1>3, <1>4, TakenApart
<1>7. Part(code', a) = Part(code, a)
  BY <1>3, <1>5, <1>6 DEF PutCode
<1> QED BY <1>7 DEF HasJump

\* The new hook is above all others, and saved the jump of the one below it.
LEMMA PutRankInv ==
  ASSUME NEW rank, NEW n, NEW h, NEW s, NEW t, NEW new, Put(rank, n, h, s, t, new),
         PutCode(s, t, new.remain),
         NEW higher, higher = [rank EXCEPT ![t] = n + 1]
  PROVE  higher \in [AnyTrampoline -> 0..n + 1] /\ RankInv(higher)'
<1>1. /\ Ranked(rank, n) /\ RankInv(rank) /\ rank \in [AnyTrampoline -> 0..n] /\ n \in Nat
      /\ UNCHANGED <<layout, leaked>> /\ layout' = layout
      /\ NowSite(s) /\ s \in Int /\ JumpAt(s) \in Int /\ t \in AnyTrampoline
      /\ new.at = t /\ new.target = s /\ new.home = Home(s) /\ new.rbRestore = Saved(s, new.remain)
      /\ new.remain \in Int /\ \A a \in s..new.remain - 1 : InArea(s, a)
      /\ (\A r \in Records : r.target # s) => \A a \in Int : InArea(s, a) => Part(code, a) = Base(a)
      /\ (\E r \in Records : r.target = s) => new.remain = s + JumpAt(s)
      /\ s + JumpAt(s) <= new.remain
      /\ order' = Append(order, h)
  BY DEF Put, Ranked, SiteNow
<1>2. /\ Records' = Records \cup {new}
      /\ hook'[h] = new /\ \A g \in ToSet(order) : hook'[g] = hook[g] /\ g # h /\ hook[g] \in Records
      /\ \A r \in Records : r.at # t
  BY PutRecords
<1>3. higher \in [AnyTrampoline -> 0..n + 1] /\ higher[t] = n + 1
  BY <1>1
<1>4. \A r \in Records : higher[r.at] = rank[r.at] /\ rank[r.at] \in 0..n /\ rank[r.at] < n + 1
  <2> SUFFICES ASSUME NEW r \in Records
               PROVE  higher[r.at] = rank[r.at] /\ rank[r.at] \in 0..n /\ rank[r.at] < n + 1
    OBVIOUS
  <2>1. r.at \in AnyTrampoline /\ r.at # t
    BY <1>1, <1>2, RecordFacts
  <2> QED BY <1>1, <2>1
<1>5. \A q, r \in Records' : higher[q.at] = higher[r.at] => q = r
  BY <1>1, <1>2, <1>3, <1>4 DEF RankInv
<1>6. \A i, j \in DOMAIN order' : i < j => higher[hook'[order'[i]].at] < higher[hook'[order'[j]].at]
  <2> SUFFICES ASSUME NEW i \in DOMAIN order', NEW j \in DOMAIN order', i < j
               PROVE  higher[hook'[order'[i]].at] < higher[hook'[order'[j]].at]
    OBVIOUS
  <2>1. order \in Seq(Hooks)
    BY <1>1 DEF Ranked, TypeInv
  <2>2. /\ i \in DOMAIN order /\ order'[i] = order[i]
        /\ \/ j \in DOMAIN order /\ order'[j] = order[j]
           \/ order'[j] = h
    BY <1>1, <2>1
  <2>3. order[i] \in ToSet(order) /\ (j \in DOMAIN order => order[j] \in ToSet(order))
    BY <2>2 DEF ToSet
  <2>4. hook'[order'[i]] = hook[order[i]] /\ hook[order[i]] \in Records
    BY <1>2, <2>2, <2>3
  <2>5. CASE j \in DOMAIN order /\ order'[j] = order[j]
    <3>1. hook'[order'[j]] = hook[order[j]] /\ hook[order[j]] \in Records
      BY <1>2, <2>3, <2>5
    <3>2. rank[hook[order[i]].at] < rank[hook[order[j]].at]
      BY <1>1, <2>2, <2>5 DEF RankInv
    <3> QED BY <1>4, <2>4, <3>1, <3>2
  <2>6. CASE order'[j] = h
    BY <1>1, <1>2, <1>3, <1>4, <2>4, <2>6
  <2> QED BY <2>2, <2>5, <2>6
<1>7. \A q, r \in Records : Above(higher, q, r) <=> Above(rank, q, r)
  BY <1>4 DEF Above
<1>8. \A r \in Records : ~Above(higher, r, new) /\ (r.target = s => Above(higher, new, r))
  BY <1>1, <1>3, <1>4 DEF Above
<1>9. ~Above(higher, new, new)
  BY <1>1, <1>3 DEF Above
<1>10. ASSUME NEW r \in Records' PROVE SiteInv(higher, r)'
  <2>1. CASE r \in Records
    <3>1. SiteInv(rank, r)
      BY <1>1, <2>1 DEF RankInv
    <3>2. CASE r.target \in Places(layout) /\ r.home = r.target
      BY <1>1, <3>2 DEF SiteInv
    <3>3. CASE \E q \in Records : OnHook(r.target, q) /\ rank[q.at] < rank[r.at] /\ r.home = q.home
      <4>1. PICK q \in Records : OnHook(r.target, q) /\ rank[q.at] < rank[r.at] /\ r.home = q.home
        BY <3>3
      <4>2. higher[q.at] < higher[r.at] /\ q \in Records'
        BY <1>2, <1>4, <2>1, <4>1
      <4> QED BY <4>1, <4>2 DEF SiteInv, OnHook
    <3> QED BY <3>1, <3>2, <3>3 DEF SiteInv
  <2>2. CASE r = new
    <3>1. CASE s \in Places(layout)
      <4>1. Home(s) = s
        BY <1>1, <3>1, HomeFacts
      <4> QED BY <1>1, <2>2, <3>1, <4>1 DEF SiteInv
    <3>2. CASE \E q \in Records : OnHook(s, q)
      <4>1. PICK q \in Records : OnHook(s, q)
        BY <3>2
      <4>2. Home(s) = q.home
        BY <1>1, <4>1, HomeFacts
      <4>3. higher[q.at] < higher[new.at] /\ q \in Records'
        BY <1>1, <1>2, <1>3, <1>4, <4>1
      <4> QED BY <1>1, <2>2, <4>1, <4>2, <4>3 DEF SiteInv, OnHook
    <3> QED BY <1>1, <3>1, <3>2 DEF NowSite
  <2> QED BY <1>2, <1>10, <2>1, <2>2
<1>11. ASSUME NEW r \in Records', \A q \in Records' : ~Above(higher, q, r)
       PROVE  HasJump(code', r.target, r.at)
  <2>1. CASE r \in Records
    <3>1. r.target # s
      BY <1>2, <1>8, <1>11, <2>1
    <3>2. \A q \in Records : ~Above(rank, q, r)
      BY <1>2, <1>7, <1>11, <2>1
    <3>3. HasJump(code, r.target, r.at)
      BY <1>1, <2>1, <3>2 DEF RankInv, TopInv
    <3> QED BY <2>1, <3>1, <3>3, TakenStays
  <2>2. CASE r = new
    BY <1>1, <2>2 DEF PutCode
  <2> QED BY <1>2, <1>11, <2>1, <2>2
<1>12. ASSUME NEW r \in Records', \A q \in Records' : ~Above(higher, r, q),
              NEW a \in r.target..r.remain - 1
       PROVE  Part(r.rbRestore, a) = Base(a)
  <2>1. CASE r \in Records
    <3>1. \A q \in Records : ~Above(rank, r, q)
      BY <1>2, <1>7, <1>12, <2>1
    <3> QED BY <1>1, <1>12, <2>1, <3>1 DEF RankInv, BottomInv
  <2>2. CASE r = new
    <3>1. \A q \in Records : q.target # s
      BY <1>2, <1>8, <1>12, <2>2
    <3>2. a \in Int /\ s <= a /\ a < new.remain /\ InArea(s, a)
      BY <1>1, <1>12, <2>2
    <3>3. Part(code, a) = Base(a)
      BY <1>1, <3>1, <3>2
    <3> QED BY <1>1, <2>2, <3>2, <3>3, PartSaved
  <2> QED BY <1>2, <1>12, <2>1, <2>2
<1>13. ASSUME NEW q \in Records', NEW r \in Records', Above(higher, q, r)
       PROVE  /\ q.remain = q.target + JumpAt(q.target)
              /\ (\A x \in Records' : ~(Above(higher, q, x) /\ Above(higher, x, r)))
                   => HasJump(q.rbRestore, r.target, r.at)
  <2>1. r \in Records
    BY <1>2, <1>8, <1>9, <1>13
  <2>2. CASE q \in Records
    <3>1. Above(rank, q, r) /\ NextInv(rank, q, r)
      BY <1>1, <1>7, <1>13, <2>1, <2>2 DEF RankInv
    <3>2. q.remain = q.target + JumpAt(q.target)
      BY <3>1 DEF NextInv
    <3>3. ASSUME \A x \in Records' : ~(Above(higher, q, x) /\ Above(higher, x, r))
          PROVE  HasJump(q.rbRestore, r.target, r.at)
      <4>1. \A x \in Records : ~(Above(rank, q, x) /\ Above(rank, x, r))
        BY <1>2, <1>7, <2>1, <2>2, <3>3
      <4> QED BY <3>1, <4>1 DEF NextInv
    <3> QED BY <3>2, <3>3
  <2>3. CASE q = new
    <3>1. r.target = s
      BY <1>1, <1>13, <2>3 DEF Above
    <3>2. q.remain = q.target + JumpAt(q.target)
      BY <1>1, <2>1, <2>3, <3>1
    <3>3. ASSUME \A x \in Records' : ~(Above(higher, q, x) /\ Above(higher, x, r))
          PROVE  HasJump(q.rbRestore, r.target, r.at)
      <4>1. \A x \in Records : ~Above(rank, x, r)
        <5> SUFFICES ASSUME NEW x \in Records, Above(rank, x, r) PROVE FALSE
          OBVIOUS
        <5>1. x.target = s /\ Above(higher, x, r)
          BY <1>7, <2>1, <3>1 DEF Above
        <5>2. Above(higher, new, x)
          BY <1>8, <5>1
        <5> QED BY <1>2, <2>3, <3>3, <5>1, <5>2
      <4>2. HasJump(code, s, r.at)
        BY <1>1, <2>1, <3>1, <4>1 DEF RankInv, TopInv
      <4>3. \A a \in s..s + JumpAt(s) - 1 : Part(q.rbRestore, a) = Part(code, a)
        BY <1>1, <2>3, PartSaved
      <4> QED BY <3>1, <4>2, <4>3 DEF HasJump
    <3> QED BY <3>2, <3>3
  <2> QED BY <1>2, <1>13, <2>2, <2>3
<1>14. ASSUME NEW r \in Records' PROVE TopInv(higher, r)' /\ BottomInv(higher, r)'
  <2>1. TopInv(higher, r)'
    <3>1. HasJump(code', r.target, r.at) => HasJump(code, r.target, r.at)'
      BY <1>1, Fixed DEF HasJump
    <3> QED BY <1>11, <1>14, <3>1 DEF TopInv, Above
  <2>2. BottomInv(higher, r)'
    BY <1>1, <1>12, <1>14, Fixed DEF BottomInv, Above
  <2> QED BY <2>1, <2>2
<1>15. ASSUME NEW q \in Records', NEW r \in Records' PROVE NextInv(higher, q, r)'
  <2>1. HasJump(q.rbRestore, r.target, r.at)' <=> HasJump(q.rbRestore, r.target, r.at)
    BY <1>1, Fixed DEF HasJump
  <2>2. JumpAt(q.target)' = JumpAt(q.target)
    BY <1>1, Fixed
  <2> QED BY <1>13, <1>15, <2>1, <2>2 DEF NextInv, Above
<1> QED BY <1>3, <1>5, <1>6, <1>10, <1>14, <1>15 DEF RankInv

-----------------------------------------------------------------------------
(* A hook is taken off, or leaked.                                         *)

\* One taken out of a sequence: the others move up.
LEMMA RemoveFacts ==
  ASSUME NEW S, NEW w \in Seq(S), NEW i \in DOMAIN w
  PROVE  /\ RemoveAt(w, i) \in Seq(S) /\ DOMAIN RemoveAt(w, i) = 1..Len(w) - 1
         /\ \A j \in 1..Len(w) - 1 : RemoveAt(w, i)[j] = IF j < i THEN w[j] ELSE w[j + 1]
<1>1. i \in 1..Len(w) /\ Len(w) \in Nat
  OBVIOUS
<1> DEFINE x == SubSeq(w, 1, i - 1)
           y == SubSeq(w, i + 1, Len(w))
<1>2. x \in Seq(S) /\ Len(x) = i - 1 /\ \A j \in 1..i - 1 : x[j] = w[j]
  BY <1>1
<1>3. y \in Seq(S) /\ Len(y) = Len(w) - i /\ \A j \in 1..Len(w) - i : y[j] = w[i + j]
  BY <1>1
<1>4. RemoveAt(w, i) = x \o y
  BY DEF RemoveAt
<1> HIDE DEF x, y
<1>5. /\ x \o y \in Seq(S) /\ Len(x \o y) = Len(x) + Len(y)
      /\ \A j \in 1..Len(x) + Len(y) : (x \o y)[j] = IF j <= Len(x) THEN x[j] ELSE y[j - Len(x)]
  BY <1>2, <1>3, ConcatProperties
<1>6. Len(x) + Len(y) = Len(w) - 1
  BY <1>1, <1>2, <1>3
<1>7. DOMAIN (x \o y) = 1..Len(w) - 1
  <2>1. DOMAIN (x \o y) = 1..Len(x \o y)
    BY <1>5, LenProperties
  <2> QED BY <1>5, <1>6, <2>1
<1>8. ASSUME NEW j \in 1..Len(w) - 1 PROVE (x \o y)[j] = IF j < i THEN w[j] ELSE w[j + 1]
  <2>1. (x \o y)[j] = IF j <= i - 1 THEN x[j] ELSE y[j - (i - 1)]
    BY <1>2, <1>5, <1>6
  <2>2. CASE j < i
    <3>1. j \in 1..i - 1
      BY <1>1, <2>2
    <3> QED BY <1>2, <2>1, <2>2, <3>1
  <2>3. CASE ~(j < i)
    <3>1. j - (i - 1) \in 1..Len(w) - i /\ i + (j - (i - 1)) = j + 1 /\ ~(j <= i - 1)
      BY <1>1, <2>3
    <3>2. y[j - (i - 1)] = w[i + (j - (i - 1))]
      BY <1>3, <3>1
    <3> QED BY <2>1, <2>3, <3>1, <3>2
  <2> QED BY <2>2, <2>3
<1> QED BY <1>4, <1>5, <1>7, <1>8

\* Only the jump of the latest hook of a place is found there; in x64 code, only when
\* no hook is on the jump behind it.
LEMMA StillThere ==
  ASSUME NEW n, NEW rank, Ranked(rank, n), NEW r \in Records, HookIsStillThere(r)
  PROVE  /\ HasJump(code, r.target, r.at)
         /\ \A q \in Records : ~Above(rank, q, r)
         /\ \A q \in Records : ~OnHook(q.target, r)
<1> DEFINE s == r.target
           t == r.at
<1>1. /\ layout \in Layouts /\ s \in Int /\ t \in Int /\ t \in AnyTrampoline
      /\ t \in Trampolines[(s \in layout.ec)]
  BY RecordFacts
<1>2. PICK y \in Records : y.target = s /\ HasJump(code, s, y.at) /\ \A q \in Records : ~Above(rank, q, y)
  BY HookedSite
<1>3. y.at \in AnyTrampoline /\ y.at \in Int
  BY RecordFacts
<1> HIDE DEF s, t
<1>4. t <= t /\ t < t + TrampolineSize
  BY <1>1, NumberFacts
<1>5. CASE s \notin layout.ec
  <2>1. t \in Trampolines[FALSE]
    <3>1. (s \in layout.ec) = FALSE
      BY <1>5
    <3> QED BY <1>1, <3>1
  <2>2. ~IsEcCode(t)
    BY <1>1, <1>4, <2>1, EcFacts
  <2>3. At(s) = JmpImmediate(s, t + CodeIn) /\ At(t + CodeIn) = JmpIndirect(t + CodeIn, t + DetourSlot)
    BY <2>2 DEF HookIsStillThere, IsJmpImmediateTo, IsJmpIndirectTo, s, t
  <2>4. At(s) = JmpImmediate(s, y.at + CodeIn)
    BY <1>1, <1>2, <1>5, JumpCells
  <2>5. (t + CodeIn) - (s + 5) = (y.at + CodeIn) - (s + 5)
    BY <2>3, <2>4 DEF JmpImmediate, Near, Cell
  <2>6. t = y.at
    BY <1>1, <1>3, <2>5, NumberFacts
  <2>7. ASSUME NEW q \in Records, OnHook(q.target, r) PROVE FALSE
    <3>1. q.target = t + CodeIn
      BY <2>7 DEF OnHook, t
    <3>2. PICK z \in Records : HasJump(code, t + CodeIn, z.at)
      BY <3>1, HookedSite
    <3>3. t + CodeIn \in Int
      BY <1>1, NumberFacts
    <3>4. At(t + CodeIn).op \in {"near", "adrp"}
      BY <3>2, <3>3, JumpNotFollowed
    <3>5. At(t + CodeIn).op = "mem"
      BY <2>3 DEF JmpIndirect, Mem, Cell
    <3> QED BY <3>4, <3>5
  <2> QED BY <1>2, <2>6, <2>7 DEF s, t, Ranked, RecordsInv
<1>6. CASE s \in layout.ec
  <2>1. t \in Trampolines[TRUE]
    <3>1. (s \in layout.ec) = TRUE
      BY <1>6
    <3> QED BY <1>1, <3>1
  <2>2. IsEcCode(t)
    BY <1>1, <1>4, <2>1, EcFacts
  <2>3. <<At(s), At(s + 4), At(s + 8)>> = JmpIndirectArm64(s, t + DetourSlot)
    BY <2>2 DEF HookIsStillThere, IsJmpIndirectToArm64, s, t
  <2>4. <<At(s), At(s + 4), At(s + 8)>> = JmpIndirectArm64(s, y.at + DetourSlot)
    BY <1>1, <1>2, <1>6, JumpCells
  <2>5. HasJump(code, s, t)
    BY <1>2, <1>6, <2>3, <2>4 DEF HasJump, JumpCell
  <2>6. t = y.at
    BY <1>1, <1>2, <1>3, <2>5, JumpDistinct
  <2>7. t \notin Trampolines[FALSE]
    BY <2>1, JumpsNumbers
  <2> QED BY <1>2, <2>6, <2>7 DEF s, t, Ranked, RecordsInv, OnHook
<1> QED BY <1>5, <1>6

\* The hook h, whose record is r, is an attached one no more; the others are still.
Gone(h, r) ==
  /\ layout' = layout
  /\ h \in ToSet(order) /\ h \in Hooks /\ r = hook[h] /\ r \in Records
  /\ IsFunction(hook') /\ DOMAIN hook' = Hooks
  /\ order' \in Seq(Hooks)
  /\ \A i, j \in DOMAIN order' : order'[i] = order'[j] => i = j
  /\ ToSet(order') = ToSet(order) \ {h}
  /\ \A g \in ToSet(order') : hook'[g] = hook[g] /\ hook[g] \in Records \ {r}
  /\ \A rank : RankInv(rank) =>
       \A i, j \in DOMAIN order' : i < j => rank[hook'[order'[i]].at] < rank[hook'[order'[j]].at]

\* Detaching takes the hook out of those attached; only a leaked one's record is kept.
LEMMA UnhookGone ==
  ASSUME NEW n, NEW rank, Ranked(rank, n), NEW h \in Hooks, Unhook(h)
  PROVE  /\ Gone(h, hook[h])
         /\ leaked' = leaked => Records' = Records \ {hook[h]} /\ Used' = Used \ {hook[h].at}
         /\ leaked' = leaked \cup {hook[h]} => Records' = Records /\ Used' = Used
<1> DEFINE r == hook[h]
<1>1. /\ h \in ToSet(order) /\ layout' = layout /\ hook' = [hook EXCEPT ![h] = None]
      /\ DOMAIN hook = Hooks /\ order \in Seq(Hooks)
      /\ \A i, j \in DOMAIN order : order[i] = order[j] => i = j
  BY DEF Unhook, Ranked, TypeInv
<1>2. PICK m \in DOMAIN order : order[m] = h /\ order' = RemoveAt(order, m)
  BY DEF Unhook
<1>3. /\ order' \in Seq(Hooks) /\ DOMAIN order' = 1..Len(order) - 1
      /\ \A j \in 1..Len(order) - 1 : order'[j] = IF j < m THEN order[j] ELSE order[j + 1]
  BY <1>1, <1>2, RemoveFacts
<1>4. Len(order) \in Nat /\ m \in 1..Len(order) /\ DOMAIN order = 1..Len(order)
  BY <1>1, <1>2
<1> DEFINE up(j) == IF j < m THEN j ELSE j + 1
<1>5. ASSUME NEW j \in DOMAIN order' PROVE up(j) \in DOMAIN order /\ up(j) # m /\ order'[j] = order[up(j)]
  BY <1>3, <1>4
<1>6. ASSUME NEW i \in DOMAIN order', NEW j \in DOMAIN order' PROVE i < j => up(i) < up(j)
  BY <1>3, <1>4
<1>7. ToSet(order') = ToSet(order) \ {h}
  <2>1. ToSet(order') \subseteq ToSet(order) \ {h}
    BY <1>1, <1>2, <1>5 DEF ToSet
  <2>2. ASSUME NEW g \in ToSet(order), g # h PROVE g \in ToSet(order')
    <3>1. PICK k \in DOMAIN order : order[k] = g
      BY DEF ToSet
    <3>2. k # m /\ k \in 1..Len(order)
      BY <1>2, <1>4, <2>2, <3>1
    <3> DEFINE j == IF k < m THEN k ELSE k - 1
    <3>3. j \in 1..Len(order) - 1 /\ (IF j < m THEN j ELSE j + 1) = k
      BY <1>4, <3>2
    <3>4. j \in DOMAIN order' /\ order'[j] = g
      BY <1>3, <3>1, <3>3
    <3> QED BY <3>4 DEF ToSet
  <2> QED BY <2>1, <2>2
<1>8. ToSet(order) \subseteq Hooks
  BY <1>1 DEF ToSet
<1>9. \A i, j \in DOMAIN order' : order'[i] = order'[j] => i = j
  <2> SUFFICES ASSUME NEW i \in DOMAIN order', NEW j \in DOMAIN order', order'[i] = order'[j] PROVE i = j
    OBVIOUS
  <2>1. up(i) = up(j)
    BY <1>1, <1>5
  <2> QED BY <1>3, <1>4, <2>1
<1>10. IsFunction(hook') /\ DOMAIN hook' = Hooks
  BY <1>1 DEF IsFunction
<1>11. \A g \in ToSet(order') : hook'[g] = hook[g] /\ hook[g] \in Records \ {r}
  <2> SUFFICES ASSUME NEW g \in ToSet(order') PROVE hook'[g] = hook[g] /\ hook[g] \in Records \ {r}
    OBVIOUS
  <2>1. g \in ToSet(order) /\ g # h /\ g \in Hooks
    BY <1>7, <1>8
  <2>2. hook[g] # hook[h]
    BY <1>1, <2>1 DEF Ranked, RecordsInv
  <2> QED BY <1>1, <2>1, <2>2 DEF Records
<1>12. ASSUME NEW any, RankInv(any), NEW i \in DOMAIN order', NEW j \in DOMAIN order', i < j
       PROVE  any[hook'[order'[i]].at] < any[hook'[order'[j]].at]
  <2>1. up(i) \in DOMAIN order /\ up(j) \in DOMAIN order /\ up(i) < up(j)
    BY <1>5, <1>6, <1>12
  <2>2. any[hook[order[up(i)]].at] < any[hook[order[up(j)]].at]
    BY <1>12, <2>1 DEF RankInv
  <2>3. order'[i] \in ToSet(order') /\ order'[j] \in ToSet(order')
    BY DEF ToSet
  <2>4. hook'[order'[i]] = hook[order'[i]] /\ hook'[order'[j]] = hook[order'[j]]
    BY <1>11, <2>3
  <2>5. order'[i] = order[up(i)] /\ order'[j] = order[up(j)]
    BY <1>5
  <2> HIDE DEF up
  <2> QED BY <2>2, <2>4, <2>5
<1>13. r \in Records
  BY <1>1 DEF Records
<1>14. Gone(h, r)
  BY <1>1, <1>3, <1>7, <1>9, <1>10, <1>11, <1>12, <1>13 DEF Gone
<1>15. \A g \in ToSet(order') : g \in ToSet(order) /\ g # h
  BY <1>7
<1>16. ToSet(order) = ToSet(order') \cup {h}
  BY <1>1, <1>7
<1>17. {hook'[g] : g \in ToSet(order')} = {hook[g] : g \in ToSet(order)} \ {r}
  <2>1. ASSUME NEW g \in ToSet(order'), NEW x, x = hook'[g]
        PROVE  x \in {hook[f] : f \in ToSet(order)} \ {r}
    BY <1>11, <1>15, <2>1
  <2>2. ASSUME NEW g \in ToSet(order), hook[g] # r PROVE hook[g] \in {hook'[f] : f \in ToSet(order')}
    <3>1. g \in ToSet(order') /\ hook'[g] = hook[g]
      BY <1>11, <1>16, <2>2
    <3> QED BY <3>1
  <2> QED BY <2>1, <2>2
<1>18. r \notin leaked
  BY <1>1 DEF Ranked, RecordsInv
<1>19. ASSUME leaked' = leaked PROVE Records' = Records \ {r}
  BY <1>17, <1>18, <1>19 DEF Records
<1>20. ASSUME leaked' = leaked \cup {r} PROVE Records' = Records
  BY <1>1, <1>17, <1>18, <1>20 DEF Records
<1>21. Used = {x.at : x \in Records} /\ Used' = {x.at : x \in Records'}
  BY DEF Used, Records
<1>22. \A x \in Records : x.at = r.at => x = r
  BY <1>13 DEF Ranked, RecordsInv
<1> QED BY <1>13, <1>14, <1>19, <1>20, <1>21, <1>22

\* What is written when the hook of r is taken off.
CodeOff(r) ==
  /\ IsFunction(code') /\ \A a \in DOMAIN code' : a \in Int
  /\ \A a \in Int : Part(code', a) =
       IF r.target <= a /\ a < r.remain THEN Part(r.rbRestore, a)
       ELSE IF r.at <= a /\ a < r.at + TrampolineSize THEN <<>> ELSE Part(code, a)

SlotsOff(r) ==
  /\ IsFunction(slots') /\ \A a \in DOMAIN slots' : a \in Int
  /\ \A a \in Int : Part(slots', a) =
       IF r.at <= a /\ a < r.at + TrampolineSize THEN <<>> ELSE Part(slots, a)

\* Detaching writes what was saved, and frees the trampoline.
LEMMA UnhookWrites ==
  ASSUME NEW n, NEW rank, Ranked(rank, n), NEW r \in Records,
         code' = Over(r.rbRestore,
                   Without(Without(code, r.target, r.remain), r.at, r.at + TrampolineSize)),
         slots' = Without(slots, r.at, r.at + TrampolineSize)
  PROVE  CodeOff(r) /\ SlotsOff(r)
<1> DEFINE V == Without(code, r.target, r.remain)
           W == Without(V, r.at, r.at + TrampolineSize)
<1>1. /\ r.target \in Int /\ r.remain \in Int /\ r.at \in Int /\ TrampolineSize \in Int
      /\ \A a \in DOMAIN r.rbRestore : a \in Int /\ InRecord(r, a)
      /\ \A a \in DOMAIN code \cup DOMAIN slots : a \in Int
  <2>1. r.target \in Int /\ r.remain \in Int /\ r.at \in Int
    BY RecordFacts
  <2>2. TrampolineSize \in Int
    BY NumberFacts
  <2>3. \A a \in DOMAIN r.rbRestore : a \in Int /\ InRecord(r, a)
    BY DEF Ranked, RecordsInv, RecordInv
  <2>4. \A a \in DOMAIN code \cup DOMAIN slots : a \in Int
    BY DEF Ranked, TypeInv
  <2> QED BY <2>1, <2>2, <2>3, <2>4
<1>2. \A a : Part(V, a) = IF a < r.target \/ a >= r.remain THEN Part(code, a) ELSE <<>>
  BY PartWithout
<1>3. \A a : Part(W, a) = IF a < r.at \/ a >= r.at + TrampolineSize THEN Part(V, a) ELSE <<>>
  BY PartWithout
<1>4. DOMAIN V \subseteq DOMAIN code /\ DOMAIN W \subseteq DOMAIN V
  BY DEF Without, Restrict
<1> HIDE DEF V, W
<1>5. code' = Over(r.rbRestore, W)
  BY DEF W, V
<1>6. IsFunction(code') /\ DOMAIN code' = DOMAIN r.rbRestore \cup DOMAIN W
  BY <1>5, FunctionOver
<1>7. ASSUME NEW a \in Int
      PROVE  Part(code', a) =
               IF r.target <= a /\ a < r.remain THEN Part(r.rbRestore, a)
               ELSE IF r.at <= a /\ a < r.at + TrampolineSize THEN <<>> ELSE Part(code, a)
  <2>1. Part(code', a) = IF a \in DOMAIN r.rbRestore THEN Part(r.rbRestore, a) ELSE Part(W, a)
    BY <1>5, PartOver
  <2>2. CASE r.target <= a /\ a < r.remain
    <3>1. Part(V, a) = <<>>
      BY <1>1, <1>2, <2>2
    <3>2. Part(W, a) = <<>>
      BY <1>3, <3>1
    <3>3. a \notin DOMAIN r.rbRestore => Part(r.rbRestore, a) = <<>>
      BY DEF Part
    <3> QED BY <2>1, <2>2, <3>2, <3>3
  <2>3. CASE ~(r.target <= a /\ a < r.remain)
    <3>1. a \notin DOMAIN r.rbRestore
      BY <1>1, <2>3 DEF InRecord
    <3>2. Part(V, a) = Part(code, a)
      BY <1>1, <1>2, <2>3
    <3>3. Part(W, a) = IF r.at <= a /\ a < r.at + TrampolineSize THEN <<>> ELSE Part(code, a)
      BY <1>1, <1>3, <3>2
    <3> QED BY <2>1, <2>3, <3>1, <3>3
  <2> QED BY <2>2, <2>3
<1>8. CodeOff(r)
  BY <1>1, <1>4, <1>6, <1>7 DEF CodeOff
<1>9. \A a : Part(slots', a) = IF a < r.at \/ a >= r.at + TrampolineSize THEN Part(slots, a) ELSE <<>>
  BY PartWithout
<1>10. IsFunction(slots') /\ DOMAIN slots' \subseteq DOMAIN slots
  BY DEF Without, Restrict, IsFunction
<1>11. SlotsOff(r)
  BY <1>1, <1>9, <1>10 DEF SlotsOff
<1> QED BY <1>8, <1>11

\* The latest hook of a place is taken off, on which there is none.
TakenOff(rank, n, h, r) ==
  /\ Ranked(rank, n) /\ Gone(h, r) /\ leaked' = leaked
  /\ Records' = Records \ {r} /\ Used' = Used \ {r.at}
  /\ \A q \in Records : ~Above(rank, q, r) /\ ~OnHook(q.target, r)
  /\ CodeOff(r) /\ SlotsOff(r)

\* The other hooks are recorded as before.
LEMMA OffRecords ==
  ASSUME NEW n, NEW rank, NEW h, NEW r, TakenOff(rank, n, h, r)
  PROVE  TypeInv' /\ RecordsInv'
<1>1. TypeInv /\ RecordsInv /\ Gone(h, r) /\ leaked' = leaked /\ Records' = Records \ {r}
      /\ UNCHANGED layout
  BY DEF TakenOff, Ranked, Gone
<1>2. TypeInv'
  BY <1>1 DEF TypeInv, Gone, TakenOff, CodeOff, SlotsOff
<1>3. ASSUME NEW q \in Records' PROVE RecordInv(q)'
  <2>1. RecordInv(q)
    BY <1>1, <1>3 DEF RecordsInv
  <2> QED BY <1>1, <2>1, Fixed DEF RecordInv, InRecord
<1>4. \A p, q \in Records' : p.at = q.at => p = q
  BY <1>1 DEF RecordsInv
<1>5. \A f, g \in ToSet(order') : hook'[f] = hook'[g] => f = g
  BY <1>1 DEF Gone, RecordsInv
<1>6. \A g \in ToSet(order') : hook'[g] \notin leaked'
  BY <1>1 DEF Gone, RecordsInv
<1> QED BY <1>2, <1>3, <1>4, <1>5, <1>6 DEF RecordsInv

\* What another hook took at its place is not of the trampoline of r.
LEMMA OffApart ==
  ASSUME NEW n, NEW rank, NEW h, NEW r, TakenOff(rank, n, h, r),
         NEW s, NowSite(s), \A q \in Records : OnHook(s, q) => q # r,
         NEW a \in Int, InArea(s, a)
  PROVE  ~(r.at <= a /\ a < r.at + TrampolineSize)
<1> SUFFICES ASSUME r.at <= a, a < r.at + TrampolineSize PROVE FALSE
  OBVIOUS
<1>1. Ranked(rank, n) /\ r \in Records
  BY DEF TakenOff, Gone
<1>2. r.at \in AnyTrampoline
  BY <1>1, RecordFacts
<1>3. PICK q \in Records : q.at = r.at /\ OnHook(s, q)
  BY <1>1, <1>2, AreaFacts
<1>4. q = r
  BY <1>1, <1>3 DEF Ranked, RecordsInv
<1> QED BY <1>3, <1>4

\* The place of the only hook there is as without hooks.
LEMMA OffPlain ==
  ASSUME NEW n, NEW rank, NEW h, NEW r, TakenOff(rank, n, h, r)
  PROVE  PlainInv' /\ DetourInv'
<1>1. /\ Ranked(rank, n) /\ PlainInv /\ DetourInv /\ RankInv(rank) /\ Gone(h, r)
      /\ layout' = layout /\ leaked' = leaked
      /\ Records' = Records \ {r} /\ Used' = Used \ {r.at} /\ r \in Records
      /\ \A q \in Records : ~Above(rank, q, r) /\ ~OnHook(q.target, r)
  BY DEF TakenOff, Ranked, Gone
<1>2. /\ r.target \in Int /\ r.remain \in Int /\ r.at \in AnyTrampoline /\ r.at \in Int
      /\ NowSite(r.target) /\ Site(r.target) /\ layout \in Layouts
      /\ \A a \in Int : InRecord(r, a) => InArea(r.target, a)
  BY <1>1, RecordFacts
<1>3. \A a \in Int : Part(code', a) =
        IF InRecord(r, a) THEN Part(r.rbRestore, a)
        ELSE IF r.at <= a /\ a < r.at + TrampolineSize THEN <<>> ELSE Part(code, a)
  BY DEF TakenOff, CodeOff, InRecord
<1>4. \A a \in Int : Part(slots', a) =
        IF r.at <= a /\ a < r.at + TrampolineSize THEN <<>> ELSE Part(slots, a)
  BY DEF TakenOff, SlotsOff
<1>5. \A a \in Int : InRecord(r, a) => ~(r.at <= a /\ a < r.at + TrampolineSize)
  <2>1. \A q \in Records : OnHook(r.target, q) => q # r
    BY <1>1
  <2> QED BY <1>2, <2>1, OffApart
<1>6. ASSUME NEW a \in Int, Plain(a)', \A q \in Records' : ~InRecord(q, a)
      PROVE  Part(code', a) = Base(a)
  <2>1. CASE InRecord(r, a)
    <3>1. ASSUME NEW q \in Records, Above(rank, r, q) PROVE FALSE
      <4>1. r.remain = r.target + JumpAt(r.target) /\ q.target = r.target
        BY <1>1, <3>1 DEF RankInv, NextInv, Above
      <4>2. q.target + JumpAt(q.target) <= q.remain /\ q.remain \in Int
        BY <1>1, RecordFacts
      <4>3. InRecord(q, a)
        BY <1>2, <2>1, <4>1, <4>2 DEF InRecord
      <4>4. q # r
        BY <1>1, <3>1
      <4> QED BY <1>1, <1>6, <4>3, <4>4
    <3>2. a \in r.target..r.remain - 1
      BY <1>2, <2>1 DEF InRecord
    <3>3. Part(r.rbRestore, a) = Base(a)
      BY <1>1, <3>1, <3>2 DEF RankInv, BottomInv
    <3> QED BY <1>3, <2>1, <3>3
  <2>2. CASE ~InRecord(r, a)
    <3>1. \A q \in Records : ~InRecord(q, a)
      BY <1>1, <1>6, <2>2
    <3>2. Plain(a) /\ ~(r.at <= a /\ a < r.at + TrampolineSize)
      <4>1. CASE ~InTrampoline(a)
        BY <1>2, <4>1 DEF Plain, InTrampoline
      <4>2. CASE InTrampoline(a)
        <5>1. PICK q \in Records' : q.at \in Trampolines[FALSE] /\ a \in q.at + CodeIn..q.at + CodeIn + 5
          BY <1>6, <4>2 DEF Plain, InTrampoline
        <5>2. q.at \in AnyTrampoline /\ q \in Records /\ q # r
          BY <1>1, <5>1 DEF AnyTrampoline
        <5>3. q.at \in Int /\ q.at # r.at
          BY <1>1, <5>2, TrampolineFacts DEF Ranked, RecordsInv
        <5>4. q.at <= a /\ a < q.at + TrampolineSize
          BY <5>1, <5>3, NumberFacts
        <5>5. ~(r.at <= a /\ a < r.at + TrampolineSize)
          BY <1>2, <5>2, <5>3, <5>4, TrampolinesApart
        <5> QED BY <5>1, <5>2, <5>5 DEF Plain
      <4> QED BY <4>1, <4>2
    <3>3. Part(code', a) = Part(code, a)
      BY <1>3, <2>2, <3>2
    <3> QED BY <1>1, <3>1, <3>2, <3>3 DEF PlainInv
  <2> QED BY <2>1, <2>2
<1>7. ASSUME NEW u \in AnyTrampoline \ Used', NEW a \in u..u + TrampolineSize - 1
      PROVE  a \notin DOMAIN code' /\ a \notin DOMAIN slots'
  <2>1. u \in Int
    BY TrampolineFacts
  <2>2. a \in Int /\ u <= a /\ a < u + TrampolineSize
    BY <2>1, NumberFacts
  <2>3. CASE u = r.at
    <3>1. ~InRecord(r, a)
      BY <1>5, <2>2, <2>3
    <3>2. Part(code', a) = <<>> /\ Part(slots', a) = <<>>
      BY <1>3, <1>4, <2>2, <2>3, <3>1
    <3> QED BY <3>2 DEF Part
  <2>4. CASE u # r.at
    <3>1. u \in AnyTrampoline \ Used
      BY <1>1, <1>7, <2>4
    <3>2. ~(r.at <= a /\ a < r.at + TrampolineSize)
      BY <1>2, <2>2, <2>4, <3>1, TrampolinesApart
    <3>3. ~InRecord(r, a)
      BY <1>1, <1>2, <2>2, <3>1, TakenApart
    <3>4. Part(code', a) = Part(code, a) /\ Part(slots', a) = Part(slots, a)
      BY <1>3, <1>4, <2>2, <3>2, <3>3
    <3>5. a \notin DOMAIN code /\ a \notin DOMAIN slots
      BY <1>1, <1>7, <3>1 DEF PlainInv
    <3> QED BY <3>4, <3>5 DEF Part
  <2> QED BY <2>3, <2>4
<1>8. ASSUME NEW a \in Int, ~InTrampoline(a) PROVE Part(slots', a) = Part(layout.slots, a)
  <2>1. ~(r.at <= a /\ a < r.at + TrampolineSize)
    BY <1>2, <1>8 DEF InTrampoline
  <2> QED BY <1>1, <1>4, <1>8, <2>1 DEF PlainInv
<1>9. PlainInv'
  <2>1. \A a \in Int : Plain(a)' /\ (\A q \in Records' : ~InRecord(q, a)') => Part(code', a) = Base(a)'
    BY <1>1, <1>6, Fixed
  <2>2. \A u \in AnyTrampoline \ Used' : \A a \in u..u + TrampolineSize - 1 :
          a \notin DOMAIN code' /\ a \notin DOMAIN slots'
    BY <1>7
  <2>3. \A a \in Int : ~InTrampoline(a) => Part(slots', a) = Part(layout'.slots, a)
    BY <1>1, <1>8
  <2> QED BY <2>1, <2>2, <2>3 DEF PlainInv
<1>10. ASSUME NEW g \in ToSet(order')
       PROVE  Part(slots', hook'[g].at + DetourSlot) = <<OldCodeFromPointer(layout, layout.detour[g])>>
  <2>1. hook'[g] = hook[g] /\ hook[g] \in Records \ {r} /\ g \in ToSet(order)
    BY <1>1, <1>10 DEF Gone
  <2> DEFINE q == hook[g]
             a == q.at + DetourSlot
  <2>2. q.at \in AnyTrampoline /\ q.at \in Int /\ q.at # r.at
    BY <1>1, <2>1, RecordFacts DEF Ranked, RecordsInv
  <2> HIDE DEF q
  <2>3. a \in Int /\ q.at <= a /\ a < q.at + TrampolineSize
    BY <2>2, NumberFacts
  <2> HIDE DEF a
  <2>4. ~(r.at <= a /\ a < r.at + TrampolineSize)
    BY <1>2, <2>2, <2>3, TrampolinesApart
  <2>5. Part(slots', a) = Part(slots, a)
    BY <1>4, <2>3, <2>4
  <2> QED BY <1>1, <2>1, <2>5 DEF DetourInv, a, q
<1>11. ASSUME NEW g \in ToSet(order'), hook'[g].at \in Trampolines[TRUE]
       PROVE  IsEcCode(OldCodeFromPointer(layout, layout.detour[g]))
  <2>1. hook'[g] = hook[g] /\ g \in ToSet(order)
    BY <1>1, <1>11 DEF Gone
  <2> QED BY <1>1, <1>11, <2>1 DEF DetourInv
<1>12. DetourInv'
  BY <1>1, <1>10, <1>11, DetoursFixed
<1> QED BY <1>9, <1>12

\* The jump of the hook below is at its place again.
LEMMA OffRanks ==
  ASSUME NEW n, NEW rank, NEW h, NEW r, TakenOff(rank, n, h, r)
  PROVE  RankInv(rank)'
<1>1. /\ Ranked(rank, n) /\ RankInv(rank) /\ Gone(h, r) /\ rank \in [AnyTrampoline -> 0..n] /\ n \in Nat
      /\ layout' = layout /\ leaked' = leaked
      /\ Records' = Records \ {r} /\ r \in Records
      /\ \A q \in Records : ~Above(rank, q, r) /\ ~OnHook(q.target, r)
  BY DEF TakenOff, Ranked, Gone
<1>2. /\ r.target \in Int /\ r.remain \in Int /\ r.at \in AnyTrampoline /\ r.at \in Int
      /\ NowSite(r.target) /\ Site(r.target) /\ layout \in Layouts
      /\ \A a \in Int : InRecord(r, a) => InArea(r.target, a)
      /\ r.target + JumpAt(r.target) <= r.remain
  BY <1>1, RecordFacts
<1>3. \A a \in Int : Part(code', a) =
        IF InRecord(r, a) THEN Part(r.rbRestore, a)
        ELSE IF r.at <= a /\ a < r.at + TrampolineSize THEN <<>> ELSE Part(code, a)
  BY DEF TakenOff, CodeOff, InRecord
<1>4. ASSUME NEW x \in Records \ {r}, \A q \in Records \ {r} : ~Above(rank, q, x)
      PROVE  HasJump(code', x.target, x.at)
  <2> DEFINE s == x.target
  <2>1. /\ s \in Int /\ x.remain \in Int /\ NowSite(s) /\ Site(s) /\ s + JumpAt(s) <= x.remain
        /\ \A a \in Int : InRecord(x, a) => InArea(s, a)
        /\ rank[x.at] \in Int /\ rank[r.at] \in Int
    BY <1>1, RecordFacts
  <2>2. JumpAt(s) \in Int
    <3>1. JumpAt(s) \in {5, 12}
      BY <1>2, <2>1, SiteFacts
    <3> QED BY <3>1
  <2>3. CASE s = r.target
    <3>1. Above(rank, r, x)
      <4>1. rank[r.at] # rank[x.at]
        BY <1>1 DEF RankInv
      <4>2. ~(rank[r.at] < rank[x.at])
        BY <1>1, <2>3 DEF Above
      <4> QED BY <2>1, <2>3, <4>1, <4>2 DEF Above
    <3>2. \A q \in Records : ~(Above(rank, r, q) /\ Above(rank, q, x))
      <4>1. ~Above(rank, r, r)
        BY <1>1
      <4> QED BY <1>4, <4>1
    <3>3. HasJump(r.rbRestore, s, x.at)
      BY <1>1, <3>1, <3>2 DEF RankInv, NextInv
    <3>4. ASSUME NEW a \in s..s + JumpAt(s) - 1 PROVE Part(code', a) = Part(r.rbRestore, a)
      <4>1. InRecord(r, a) /\ a \in Int
        BY <1>2, <2>1, <2>2, <2>3 DEF InRecord
      <4> QED BY <1>3, <4>1
    <3> QED BY <3>3, <3>4 DEF HasJump
  <2>4. CASE s # r.target
    <3>1. \A q \in Records : ~Above(rank, q, x)
      BY <1>4, <2>4 DEF Above
    <3>2. HasJump(code, s, x.at)
      BY <1>1, <3>1 DEF RankInv, TopInv
    <3>3. ASSUME NEW a \in s..s + JumpAt(s) - 1 PROVE Part(code', a) = Part(code, a)
      <4>1. a \in Int /\ InRecord(x, a)
        BY <2>1, <2>2 DEF InRecord
      <4>2. InArea(s, a)
        BY <2>1, <4>1
      <4>3. ~InRecord(r, a)
        BY <1>2, <2>1, <2>4, <4>1, <4>2, AreasApart
      <4>4. \A q \in Records : OnHook(s, q) => q # r
        BY <1>1, <1>4
      <4>5. ~(r.at <= a /\ a < r.at + TrampolineSize)
        BY <2>1, <4>1, <4>2, <4>4, OffApart
      <4> QED BY <1>3, <4>1, <4>3, <4>5
    <3> QED BY <3>2, <3>3 DEF HasJump
  <2> QED BY <2>3, <2>4
<1>5. \A p, q \in Records' : rank[p.at] = rank[q.at] => p = q
  BY <1>1 DEF RankInv
<1>6. \A i, j \in DOMAIN order' : i < j => rank[hook'[order'[i]].at] < rank[hook'[order'[j]].at]
  BY <1>1 DEF Gone
<1>7. ASSUME NEW x \in Records' PROVE SiteInv(rank, x)' /\ TopInv(rank, x)' /\ BottomInv(rank, x)'
  <2>1. x \in Records \ {r}
    BY <1>1, <1>7
  <2>2. SiteInv(rank, x) /\ BottomInv(rank, x)
    BY <1>1, <2>1 DEF RankInv
  <2>3. SiteInv(rank, x)'
    <3>1. CASE x.target \in Places(layout) /\ x.home = x.target
      BY <1>1, <3>1 DEF SiteInv
    <3>2. CASE \E q \in Records : OnHook(x.target, q) /\ rank[q.at] < rank[x.at] /\ x.home = q.home
      <4>1. PICK q \in Records : OnHook(x.target, q) /\ rank[q.at] < rank[x.at] /\ x.home = q.home
        BY <3>2
      <4>2. q \in Records'
        BY <1>1, <2>1, <4>1
      <4> QED BY <4>1, <4>2 DEF SiteInv, OnHook
    <3> QED BY <2>2, <3>1, <3>2 DEF SiteInv
  <2>4. TopInv(rank, x)'
    <3>1. HasJump(code', x.target, x.at) => HasJump(code, x.target, x.at)'
      BY <1>1, Fixed DEF HasJump
    <3> QED BY <1>1, <1>4, <2>1, <3>1 DEF TopInv, Above
  <2>5. BottomInv(rank, x)'
    <3>1. ASSUME \A q \in Records' : ~Above(rank, x, q), NEW a \in x.target..x.remain - 1
          PROVE  Part(x.rbRestore, a) = Base(a)
      <4>1. \A q \in Records : ~Above(rank, x, q)
        BY <1>1, <2>1, <3>1
      <4> QED BY <2>2, <3>1, <4>1 DEF BottomInv
    <3> QED BY <1>1, <3>1, Fixed DEF BottomInv, Above
  <2> QED BY <2>3, <2>4, <2>5
<1>8. ASSUME NEW q \in Records', NEW x \in Records' PROVE NextInv(rank, q, x)'
  <2>1. q \in Records \ {r} /\ x \in Records \ {r}
    BY <1>1, <1>8
  <2>2. NextInv(rank, q, x)
    BY <1>1, <2>1 DEF RankInv
  <2>3. HasJump(q.rbRestore, x.target, x.at)' <=> HasJump(q.rbRestore, x.target, x.at)
    BY <1>1, Fixed DEF HasJump
  <2>4. JumpAt(q.target)' = JumpAt(q.target)
    BY <1>1, Fixed
  <2>5. ASSUME Above(rank, q, x), \A y \in Records' : ~(Above(rank, q, y) /\ Above(rank, y, x))
        PROVE  HasJump(q.rbRestore, x.target, x.at)
    <3>1. \A y \in Records : ~(Above(rank, q, y) /\ Above(rank, y, x))
      BY <1>1, <2>1, <2>5
    <3> QED BY <2>2, <2>5, <3>1 DEF NextInv
  <2> QED BY <2>2, <2>3, <2>4, <2>5 DEF NextInv, Above
<1> QED BY <1>5, <1>6, <1>7, <1>8 DEF RankInv

\* The hook of r is leaked: its record is kept, and its trampoline leads past its detour.
LEMMA Leaked ==
  ASSUME NEW n, NEW rank, Ranked(rank, n), NEW h, NEW r, Gone(h, r),
         Records' = Records, Used' = Used, leaked' = leaked \cup {r}, code' = code,
         slots' = [slots EXCEPT ![r.at + DetourSlot] = r.at]
  PROVE  Ranked(rank, n)'
<1>1. /\ TypeInv /\ RecordsInv /\ PlainInv /\ DetourInv /\ RankInv(rank)
      /\ rank \in [AnyTrampoline -> 0..n] /\ n \in Nat /\ layout' = layout /\ r \in Records
  BY DEF Ranked, Gone
<1>2. r.at \in AnyTrampoline /\ r.at \in Int
  BY <1>1, RecordFacts
<1> DEFINE a0 == r.at + DetourSlot
<1>3. a0 \in Int /\ r.at <= a0 /\ a0 < r.at + TrampolineSize
  BY <1>2, NumberFacts
<1>4. DOMAIN slots' = DOMAIN slots /\ IsFunction(slots') /\ \A a \in DOMAIN slots : a # a0 => slots'[a] = slots[a]
  BY <1>1 DEF TypeInv, IsFunction
<1> HIDE DEF a0
<1>5. \A a : a # a0 => Part(slots', a) = Part(slots, a)
  BY <1>4 DEF Part
<1>6. TypeInv'
  BY <1>1, <1>4 DEF TypeInv, Gone
<1>7. RecordsInv'
  <2>1. ASSUME NEW q \in Records' PROVE RecordInv(q)'
    <3>1. RecordInv(q)
      BY <1>1, <2>1 DEF RecordsInv
    <3> QED BY <1>1, <3>1, Fixed DEF RecordInv, InRecord
  <2>2. \A p, q \in Records' : p.at = q.at => p = q
    BY <1>1 DEF RecordsInv
  <2>3. \A g \in ToSet(order') : g \in ToSet(order) /\ hook'[g] = hook[g] /\ hook[g] # r
    BY DEF Gone
  <2>4. \A f, g \in ToSet(order') : hook'[f] = hook'[g] => f = g
    BY <1>1, <2>3 DEF RecordsInv
  <2>5. \A g \in ToSet(order') : hook'[g] \notin leaked'
    BY <1>1, <2>3 DEF RecordsInv
  <2> QED BY <2>1, <2>2, <2>4, <2>5 DEF RecordsInv
<1>8. PlainInv'
  <2>1. \A a : Plain(a)' <=> Plain(a)
    BY DEF Plain
  <2>2. \A a \in Int : Plain(a)' /\ (\A q \in Records' : ~InRecord(q, a)') => Part(code', a) = Base(a)'
    BY <1>1, <2>1, Fixed DEF PlainInv
  <2>3. \A u \in AnyTrampoline \ Used' : \A a \in u..u + TrampolineSize - 1 :
          a \notin DOMAIN code' /\ a \notin DOMAIN slots'
    BY <1>1, <1>4 DEF PlainInv
  <2>4. ASSUME NEW a \in Int, ~InTrampoline(a) PROVE Part(slots', a) = Part(layout'.slots, a)
    <3>1. a # a0
      BY <1>2, <1>3, <2>4 DEF InTrampoline
    <3> QED BY <1>1, <1>5, <2>4, <3>1 DEF PlainInv
  <2> QED BY <2>2, <2>3, <2>4 DEF PlainInv
<1>9. ASSUME NEW g \in ToSet(order')
      PROVE  Part(slots', hook'[g].at + DetourSlot) = <<OldCodeFromPointer(layout, layout.detour[g])>>
  <2>1. hook'[g] = hook[g] /\ hook[g] \in Records \ {r} /\ g \in ToSet(order)
    BY <1>9 DEF Gone
  <2>2. hook[g].at \in Int /\ hook[g].at # r.at
    BY <1>1, <2>1, RecordFacts DEF RecordsInv
  <2>3. hook[g].at + DetourSlot # a0
    BY <1>2, <2>2, NumberFacts DEF a0
  <2> QED BY <1>1, <1>5, <2>1, <2>3 DEF DetourInv
<1>10. DetourInv'
  <2>1. ASSUME NEW g \in ToSet(order'), hook'[g].at \in Trampolines[TRUE]
        PROVE  IsEcCode(OldCodeFromPointer(layout, layout.detour[g]))
    <3>1. hook'[g] = hook[g] /\ g \in ToSet(order)
      BY <2>1 DEF Gone
    <3> QED BY <1>1, <2>1, <3>1 DEF DetourInv
  <2> QED BY <1>1, <1>9, <2>1, DetoursFixed
<1>11. RankInv(rank)'
  <2>1. \A i, j \in DOMAIN order' : i < j => rank[hook'[order'[i]].at] < rank[hook'[order'[j]].at]
    BY <1>1 DEF Gone
  <2>2. ASSUME NEW f, NEW s, NEW t PROVE HasJump(f, s, t)' <=> HasJump(f, s, t)
    BY <1>1, Fixed DEF HasJump
  <2>3. ASSUME NEW x \in Records PROVE SiteInv(rank, x)' /\ TopInv(rank, x)' /\ BottomInv(rank, x)'
    <3>1. SiteInv(rank, x) /\ TopInv(rank, x) /\ BottomInv(rank, x)
      BY <1>1 DEF RankInv
    <3>2. SiteInv(rank, x)'
      BY <1>1, <3>1 DEF SiteInv, OnHook
    <3>3. TopInv(rank, x)'
      <4>1. HasJump(code, x.target, x.at) => HasJump(code, x.target, x.at)'
        BY <1>1, Fixed DEF HasJump
      <4> QED BY <3>1, <4>1 DEF TopInv, Above
    <3>4. BottomInv(rank, x)'
      BY <1>1, <3>1, Fixed DEF BottomInv, Above
    <3> QED BY <3>2, <3>3, <3>4
  <2>4. ASSUME NEW q \in Records, NEW x \in Records PROVE NextInv(rank, q, x)'
    <3>1. NextInv(rank, q, x)
      BY <1>1 DEF RankInv
    <3>2. JumpAt(q.target)' = JumpAt(q.target)
      BY <1>1, Fixed
    <3>3. HasJump(q.rbRestore, x.target, x.at)' <=> HasJump(q.rbRestore, x.target, x.at)
      BY <2>2
    <3> QED BY <3>1, <3>2, <3>3 DEF NextInv, Above
  <2>5. \A p, q \in Records' : rank[p.at] = rank[q.at] => p = q
    BY <1>1 DEF RankInv
  <2> QED BY <2>1, <2>3, <2>4, <2>5 DEF RankInv
<1> QED BY <1>1, <1>6, <1>7, <1>8, <1>10, <1>11 DEF Ranked

-----------------------------------------------------------------------------
(* The invariant, and what follows from it.                                *)

\* Outside of trampolines what is there without hooks is the code without hooks.
LEMMA BaseOutside ==
  ASSUME NEW a \in Int, ~InTrampoline(a)
  PROVE  Base(a) = Part(layout.image, a)
<1>1. \A t \in Trampolines[FALSE] : a # t + CodeIn
  <2> SUFFICES ASSUME NEW t \in Trampolines[FALSE], a = t + CodeIn PROVE FALSE
    OBVIOUS
  <2>1. t \in AnyTrampoline
    BY DEF AnyTrampoline
  <2>2. t \in Nat
    BY <2>1, TrampolineFacts
  <2>3. t <= a /\ a < t + TrampolineSize
    BY <2>2, NumberFacts
  <2> QED BY <2>1, <2>3 DEF InTrampoline
<1> QED BY <1>1 DEF Base

\* Without hooks all is as it was given.
LEMMA NoRecords ==
  ASSUME layout \in Layouts, order = <<>>, leaked = {}
  PROVE  Records = {} /\ ToSet(order) = {} /\ Used = {}
BY DEF Records, ToSet, Used

\* At first there is no hook.
LEMMA InitRanked ==
  ASSUME Init
  PROVE  JumpsIInv
<1>1. /\ layout \in Layouts /\ code = layout.image /\ slots = layout.slots
      /\ hook = [h \in Hooks |-> None] /\ order = <<>> /\ leaked = {}
  BY DEF Init
<1>2. Records = {} /\ ToSet(order) = {} /\ Used = {}
  BY <1>1, NoRecords
<1>3. /\ \A a \in DOMAIN layout.image \cup DOMAIN layout.slots : a \in Int /\ ~InTrampoline(a)
      /\ IsFunction(layout.image) /\ IsFunction(layout.slots)
  BY <1>1, JumpsLayouts DEF ProperCode
<1>4. TypeInv
  BY <1>1, <1>3 DEF TypeInv, IsFunction
<1>5. RecordsInv
  BY <1>1, <1>2 DEF RecordsInv
<1>6. PlainInv
  <2>1. ASSUME NEW a \in Int, Plain(a) PROVE Part(code, a) = Base(a)
    BY <1>1, <1>2, <2>1, BaseOutside DEF Plain
  <2>2. ASSUME NEW t \in AnyTrampoline \ Used, NEW a \in t..t + TrampolineSize - 1
        PROVE  a \notin DOMAIN code /\ a \notin DOMAIN slots
    <3>1. t \in Int
      BY TrampolineFacts
    <3>2. t <= a /\ a < t + TrampolineSize
      BY <3>1, NumberFacts
    <3>3. InTrampoline(a)
      BY <3>2 DEF InTrampoline
    <3> QED BY <1>1, <1>3, <3>3
  <2> QED BY <1>1, <2>1, <2>2 DEF PlainInv
<1>7. DetourInv
  BY <1>2 DEF DetourInv
<1>8. Ordered(0)
  <2> DEFINE rank == [t \in AnyTrampoline |-> 0]
  <2>1. rank \in [AnyTrampoline -> 0..0]
    OBVIOUS
  <2>2. RankInv(rank)
    <3> HIDE DEF rank
    <3> QED BY <1>1, <1>2 DEF RankInv
  <2> QED BY <2>1, <2>2 DEF Ordered
<1> QED BY <1>4, <1>5, <1>6, <1>7, <1>8 DEF JumpsIInv

\* The invariant gives hooks an order in which they were put.
LEMMA HasRanks ==
  ASSUME JumpsIInv
  PROVE  \E n, rank : Ranked(rank, n)
BY DEF JumpsIInv, Ordered, Ranked

\* An order gives the invariant.
LEMMA RanksHold ==
  ASSUME NEW n, NEW rank, Ranked(rank, n)'
  PROVE  JumpsIInv'
BY DEF JumpsIInv, Ordered, Ranked

\* Attaching keeps the invariant: the new hook is the latest.
LEMMA HookKeeps ==
  ASSUME JumpsIInv, NEW h \in Hooks, NEW p \in layout.entries, Hook(h, p)
  PROVE  JumpsIInv'
<1>1. PICK n, rank : Ranked(rank, n)
  BY HasRanks
<1>2. PICK s, t, new : Put(rank, n, h, s, t, new) /\ PutCode(s, t, new.remain) /\ PutSlots(h, t)
  BY <1>1, HookPuts
<1>3. TypeInv' /\ RecordsInv'
  BY <1>2, PutRecordsInv
<1>4. PlainInv' /\ DetourInv'
  BY <1>2, PutPlainInv
<1> DEFINE higher == [rank EXCEPT ![t] = n + 1]
<1>5. higher \in [AnyTrampoline -> 0..n + 1] /\ RankInv(higher)'
  BY <1>2, PutRankInv
<1>6. n + 1 \in Nat
  BY <1>1 DEF Ranked
<1> HIDE DEF higher
<1>7. Ranked(higher, n + 1)'
  BY <1>3, <1>4, <1>5, <1>6 DEF Ranked
<1> QED BY <1>7, RanksHold

\* Detaching keeps the invariant, whether the trampoline is freed or leaked.
LEMMA UnhookKeeps ==
  ASSUME JumpsIInv, NEW h \in Hooks, Unhook(h)
  PROVE  JumpsIInv'
<1>1. PICK n, rank : Ranked(rank, n)
  BY HasRanks
<1> DEFINE r == hook[h]
<1>2. /\ Gone(h, r)
      /\ leaked' = leaked => Records' = Records \ {r} /\ Used' = Used \ {r.at}
      /\ leaked' = leaked \cup {r} => Records' = Records /\ Used' = Used
  BY <1>1, UnhookGone
<1>3. r \in Records
  BY <1>2 DEF Gone
<1>4. CASE /\ HookIsStillThere(r) /\ leaked' = leaked
           /\ code' = Over(r.rbRestore,
                        Without(Without(code, r.target, r.remain), r.at, r.at + TrampolineSize))
           /\ slots' = Without(slots, r.at, r.at + TrampolineSize)
  <2> HIDE DEF r
  <2>1. \A q \in Records : ~Above(rank, q, r) /\ ~OnHook(q.target, r)
    BY <1>1, <1>3, <1>4, StillThere
  <2>2. CodeOff(r) /\ SlotsOff(r)
    BY <1>1, <1>3, <1>4, UnhookWrites
  <2>3. TakenOff(rank, n, h, r)
    BY <1>1, <1>2, <1>4, <2>1, <2>2 DEF TakenOff
  <2>4. TypeInv' /\ RecordsInv'
    BY <2>3, OffRecords
  <2>5. PlainInv' /\ DetourInv'
    BY <2>3, OffPlain
  <2>6. RankInv(rank)'
    BY <2>3, OffRanks
  <2>7. Ranked(rank, n)'
    BY <1>1, <2>4, <2>5, <2>6 DEF Ranked
  <2> QED BY <2>7, RanksHold
<1>5. CASE /\ leaked' = leaked \cup {r} /\ code' = code
           /\ slots' = [slots EXCEPT ![r.at + DetourSlot] = r.at]
  <2> HIDE DEF r
  <2>1. Ranked(rank, n)'
    BY <1>1, <1>2, <1>5, Leaked
  <2> QED BY <2>1, RanksHold
<1> QED BY <1>4, <1>5 DEF Unhook

\* Hooks are at places of their own or on older ones; each place has the jump of the
\* latest, of which what it saved is the jump of the one before, and so on to what was
\* there without hooks.
THEOREM JumpsIInvHolds == Spec => []JumpsIInv
<1>1. Init => JumpsIInv
  BY InitRanked
<1>2. JumpsIInv /\ [Next]_vars => JumpsIInv'
  <2> SUFFICES ASSUME JumpsIInv, [Next]_vars PROVE JumpsIInv'
    OBVIOUS
  <2>1. ASSUME NEW h \in Hooks, NEW p \in layout.entries, Hook(h, p) PROVE JumpsIInv'
    BY <2>1, HookKeeps
  <2>2. ASSUME NEW h \in Hooks, Unhook(h) PROVE JumpsIInv'
    BY <2>2, UnhookKeeps
  <2>3. CASE UNCHANGED vars
    <3>1. UNCHANGED <<layout, code, slots, hook, order, leaked>>
      BY <2>3 DEF vars
    <3>2. PICK n, rank : Ranked(rank, n)
      BY HasRanks
    <3>3. Records' = Records /\ Used' = Used
      BY <3>1 DEF Records, Used
    <3>4. TypeInv' /\ RecordsInv' /\ PlainInv' /\ DetourInv'
      <4>1. TypeInv'
        BY <3>1, <3>2 DEF TypeInv, Ranked
      <4>2. RecordsInv'
        BY <3>1, <3>2, <3>3, Fixed DEF RecordsInv, RecordInv, Ranked, InRecord
      <4>3. PlainInv'
        BY <3>1, <3>2, <3>3, Fixed DEF PlainInv, Ranked, Plain, InRecord
      <4>4. DetourInv'
        <5>1. DetourInv
          BY <3>2 DEF Ranked
        <5>2. \A g \in ToSet(order') :
                /\ Part(slots', hook'[g].at + DetourSlot) = <<OldCodeFromPointer(layout, layout.detour[g])>>
                /\ hook'[g].at \in Trampolines[TRUE] =>
                     IsEcCode(OldCodeFromPointer(layout, layout.detour[g]))
          BY <3>1, <5>1 DEF DetourInv
        <5> QED BY <3>1, <5>2, DetoursFixed
      <4> QED BY <4>1, <4>2, <4>3, <4>4
    <3>5. RankInv(rank)'
      <4>1. ASSUME NEW f, NEW s, NEW t PROVE HasJump(f, s, t)' <=> HasJump(f, s, t)
        BY <3>1, Fixed DEF HasJump
      <4>2. ASSUME NEW x \in Records PROVE SiteInv(rank, x)' /\ TopInv(rank, x)' /\ BottomInv(rank, x)'
        <5>1. SiteInv(rank, x) /\ TopInv(rank, x) /\ BottomInv(rank, x)
          BY <3>2 DEF Ranked, RankInv
        <5>2. SiteInv(rank, x)'
          BY <3>1, <3>3, <5>1 DEF SiteInv, OnHook
        <5>3. HasJump(code, x.target, x.at) => HasJump(code, x.target, x.at)'
          BY <3>1, Fixed DEF HasJump
        <5>4. TopInv(rank, x)'
          BY <3>3, <5>1, <5>3 DEF TopInv, Above
        <5>5. BottomInv(rank, x)'
          BY <3>1, <3>3, <5>1, Fixed DEF BottomInv, Above
        <5> QED BY <5>2, <5>4, <5>5
      <4>3. ASSUME NEW q \in Records, NEW x \in Records PROVE NextInv(rank, q, x)'
        <5>1. NextInv(rank, q, x)
          BY <3>2 DEF Ranked, RankInv
        <5>2. JumpAt(q.target)' = JumpAt(q.target)
          BY <3>1, Fixed
        <5>3. HasJump(q.rbRestore, x.target, x.at)' <=> HasJump(q.rbRestore, x.target, x.at)
          BY <4>1
        <5> QED BY <3>3, <5>1, <5>2, <5>3 DEF NextInv, Above
      <4> QED BY <3>1, <3>2, <3>3, <4>2, <4>3 DEF RankInv, Ranked
    <3>6. Ranked(rank, n)'
      BY <3>2, <3>4, <3>5 DEF Ranked
    <3> QED BY <3>6, RanksHold
  <2> QED BY <2>1, <2>2, <2>3 DEF Next
<1> QED BY <1>1, <1>2, PTL DEF Spec

\* Detach accepts the detour of each hook: SlimDetoursCodeFromPointer leads from it to
\* where it led when the hook was attached (Transaction.c), whatever was hooked since.
THEOREM MayAlwaysUnhookHolds == Spec => []MayAlwaysUnhook
<1>1. JumpsIInv => MayAlwaysUnhook
  <2> SUFFICES ASSUME JumpsIInv, NEW h \in ToSet(order) PROVE MayUnhook(h)
    BY DEF MayAlwaysUnhook
  <2>1. PICK n, rank : Ranked(rank, n)
    BY HasRanks
  <2>2. h \in Hooks
    BY <2>1 DEF Ranked, TypeInv, ToSet
  <2>3. Part(slots, hook[h].at + DetourSlot) = <<OldCodeFromPointer(layout, layout.detour[h])>>
    BY <2>1 DEF Ranked, DetourInv
  <2>4. Slot(hook[h].at + DetourSlot) = OldCodeFromPointer(layout, layout.detour[h])
    BY <2>3 DEF Part, Slot
  <2>5. CodeFromPointer(layout.detour[h]) = OldCodeFromPointer(layout, layout.detour[h])
    BY <2>1, <2>2, DetourSame
  <2>6. IsEcCode(hook[h].at) => IsEcCode(OldCodeFromPointer(layout, layout.detour[h]))
    <3> SUFFICES ASSUME IsEcCode(hook[h].at) PROVE hook[h].at \in Trampolines[TRUE]
      BY <2>1 DEF Ranked, DetourInv
    <3>1. hook[h] \in Records
      BY DEF Records
    <3>2. hook[h].at \in AnyTrampoline /\ hook[h].at \in Int
      BY <2>1, <3>1, RecordFacts
    <3>3. ~(hook[h].at \in Trampolines[FALSE])
      <4> SUFFICES ASSUME hook[h].at \in Trampolines[FALSE] PROVE FALSE
        OBVIOUS
      <4> DEFINE t == hook[h].at
      <4>1. layout \in Layouts
        BY <2>1 DEF Ranked, TypeInv
      <4>2. t \in Int /\ t \in Trampolines[FALSE] /\ IsEcCode(t)
        BY <3>2
      <4> HIDE DEF t
      <4>3. t <= t /\ t < t + TrampolineSize
        BY <4>2, NumberFacts
      <4> QED BY <4>1, <4>2, <4>3, EcFacts
    <3> QED BY <3>2, <3>3 DEF AnyTrampoline
  <2> QED BY <2>4, <2>5, <2>6 DEF MayUnhook
<1> QED BY <1>1, JumpsIInvHolds, PTL

\* When the last hook is detached, in whichever order, and none was leaked, each
\* function, and each pointer, is what it was.
THEOREM AllRestoredHolds == Spec => []AllRestored
<1>1. JumpsIInv => AllRestored
  <2> SUFFICES ASSUME JumpsIInv, order = <<>>, leaked = {}
               PROVE  code = layout.image /\ slots = layout.slots
    BY DEF AllRestored
  <2>1. TypeInv /\ PlainInv /\ layout \in Layouts
    BY DEF JumpsIInv, TypeInv
  <2>2. Records = {} /\ Used = {}
    BY <2>1, NoRecords
  <2>3. /\ \A a \in DOMAIN layout.image \cup DOMAIN layout.slots : a \in Int /\ ~InTrampoline(a)
        /\ IsFunction(layout.image) /\ IsFunction(layout.slots)
    BY <2>1, JumpsLayouts DEF ProperCode
  <2>4. ASSUME NEW a \in Int
        PROVE  Part(code, a) = Part(layout.image, a) /\ Part(slots, a) = Part(layout.slots, a)
    <3>1. CASE ~InTrampoline(a)
      BY <2>1, <2>2, <3>1, BaseOutside DEF PlainInv, Plain
    <3>2. CASE InTrampoline(a)
      <4>1. PICK t \in AnyTrampoline : t <= a /\ a < t + TrampolineSize
        BY <3>2 DEF InTrampoline
      <4>2. t \in Int /\ TrampolineSize \in Int
        BY TrampolineFacts, NumberFacts
      <4>3. a \in t..t + TrampolineSize - 1 /\ t \in AnyTrampoline \ Used
        BY <2>2, <4>1, <4>2
      <4>4. a \notin DOMAIN code /\ a \notin DOMAIN slots
        BY <2>1, <4>3 DEF PlainInv
      <4>5. a \notin DOMAIN layout.image /\ a \notin DOMAIN layout.slots
        BY <2>3, <3>2
      <4> QED BY <4>4, <4>5 DEF Part
    <3> QED BY <3>1, <3>2
  <2>5. code = layout.image
    BY <2>1, <2>3, <2>4, PartsEqual DEF TypeInv
  <2>6. slots = layout.slots
    BY <2>1, <2>3, <2>4, PartsEqual DEF TypeInv
  <2> QED BY <2>5, <2>6
<1> QED BY <1>1, JumpsIInvHolds, PTL

\* Hooks at one place are of one home.
LEMMA SameHome ==
  ASSUME NEW n, NEW rank, Ranked(rank, n), NEW q \in Records, NEW r \in Records, q.target = r.target
  PROVE  q.home = r.home
<1>1. SiteInv(rank, q) /\ SiteInv(rank, r)
  BY DEF Ranked, RankInv
<1>2. layout \in Layouts /\ Site(r.target)
  BY RecordFacts
<1>3. CASE r.target \in Places(layout)
  <2>1. \A x \in Records : ~OnHook(r.target, x)
    BY <1>2, <1>3, SiteFacts DEF OnHook
  <2> QED BY <1>1, <2>1 DEF SiteInv
<1>4. CASE r.target \notin Places(layout)
  <2>1. PICK x \in Records : OnHook(r.target, x) /\ r.home = x.home
    BY <1>1, <1>4 DEF SiteInv
  <2>2. PICK y \in Records : OnHook(r.target, y) /\ q.home = y.home
    BY <1>1, <1>4 DEF SiteInv
  <2>3. x.at \in Int /\ y.at \in Int
    BY RecordFacts
  <2>4. x.at = y.at
    BY <2>1, <2>2, <2>3, NumberFacts DEF OnHook
  <2>5. x = y
    BY <2>4 DEF Ranked, RecordsInv
  <2> QED BY <2>1, <2>2, <2>5
<1> QED BY <1>3, <1>4

\* One on the jump behind that of another is of its home, and later.
LEMMA OnHookHome ==
  ASSUME NEW n, NEW rank, Ranked(rank, n), NEW q \in Records, NEW r \in Records, OnHook(q.target, r)
  PROVE  q.home = r.home /\ rank[r.at] < rank[q.at]
<1>1. SiteInv(rank, q)
  BY DEF Ranked, RankInv
<1>2. layout \in Layouts
  BY RecordFacts
<1>3. q.target \notin Places(layout)
  BY <1>2, SiteFacts DEF OnHook, Site
<1>4. PICK x \in Records : OnHook(q.target, x) /\ rank[x.at] < rank[q.at] /\ q.home = x.home
  BY <1>1, <1>3 DEF SiteInv
<1>5. x.at \in Int /\ r.at \in Int
  BY RecordFacts
<1>6. x.at = r.at
  BY <1>4, <1>5, NumberFacts DEF OnHook
<1>7. x = r
  BY <1>6 DEF Ranked, RecordsInv
<1> QED BY <1>4, <1>7

\* A hook that no later one, and no leaked one, shares its home with is recognised:
\* detour_is_jmp_immediate_to and detour_is_jmp_indirect_to find its jumps
\* (Transaction.c), and its trampoline is freed and not leaked.
THEOREM RecognisedUnlessCoveredHolds == Spec => []RecognisedUnlessCovered
<1>1. JumpsIInv => RecognisedUnlessCovered
  <2> SUFFICES ASSUME JumpsIInv, NEW i \in DOMAIN order,
                      \A m \in i + 1..Len(order) : hook[order[m]].home # hook[order[i]].home,
                      \A x \in leaked : x.home # hook[order[i]].home
               PROVE  HookIsStillThere(hook[order[i]])
    BY DEF RecognisedUnlessCovered
  <2>1. PICK n, rank : Ranked(rank, n)
    BY HasRanks
  <2> DEFINE o == hook[order[i]]
  <2>2. order \in Seq(Hooks) /\ RankInv(rank)
    BY <2>1 DEF Ranked, TypeInv
  <2>3. o \in Records
    <3>1. order[i] \in ToSet(order)
      BY DEF ToSet
    <3> QED BY <3>1 DEF Records
  <2>4. ASSUME NEW q \in Records, q.home = o.home, rank[o.at] < rank[q.at] PROVE FALSE
    <3>1. q \notin leaked
      BY <2>4
    <3>2. PICK j \in DOMAIN order : q = hook[order[j]]
      BY <3>1 DEF Records, ToSet
    <3>3. i \in Int /\ j \in 1..Len(order) /\ j \in Int /\ Len(order) \in Int
      BY <2>2
    <3>4. CASE j < i
      <4>1. rank[q.at] < rank[o.at]
        BY <2>2, <3>2, <3>4 DEF RankInv
      <4>2. rank[q.at] \in 0..n /\ rank[o.at] \in 0..n /\ n \in Nat
        BY <2>1, <2>3, RecordFacts DEF Ranked
      <4> QED BY <2>4, <4>1, <4>2
    <3>5. CASE j = i
      <4>1. rank[o.at] < rank[o.at] /\ rank[o.at] \in 0..n
        BY <2>1, <2>3, <2>4, <3>2, <3>5, RecordFacts
      <4> QED BY <4>1
    <3>6. CASE i < j
      <4>1. j \in i + 1..Len(order)
        BY <3>3, <3>6
      <4> QED BY <2>4, <3>2, <4>1
    <3> QED BY <3>3, <3>4, <3>5, <3>6
  <2> HIDE DEF o
  <2>5. \A q \in Records : ~Above(rank, q, o)
    BY <2>1, <2>3, <2>4, SameHome DEF Above
  <2>6. \A q \in Records : ~OnHook(q.target, o)
    BY <2>1, <2>3, <2>4, OnHookHome
  <2>7. HasJump(code, o.target, o.at)
    BY <2>2, <2>3, <2>5 DEF RankInv, TopInv
  <2>8. /\ layout \in Layouts /\ o.target \in Int /\ o.at \in AnyTrampoline /\ o.at \in Int
        /\ o.at \in Trampolines[o.target \in layout.ec]
    BY <2>1, <2>3, RecordFacts
  <2>9. o.at <= o.at /\ o.at < o.at + TrampolineSize
    BY <2>8, NumberFacts
  <2>10. CASE o.target \in layout.ec
    <3>1. o.at \in Trampolines[TRUE]
      <4>1. (o.target \in layout.ec) = TRUE
        BY <2>10
      <4> QED BY <2>8, <4>1
    <3>2. IsEcCode(o.at)
      BY <2>8, <2>9, <3>1, EcFacts
    <3>3. <<At(o.target), At(o.target + 4), At(o.target + 8)>>
            = JmpIndirectArm64(o.target, o.at + DetourSlot)
      BY <2>7, <2>8, <2>10, JumpCells
    <3>4. HookIsStillThere(o)
      BY <3>2, <3>3 DEF HookIsStillThere, IsJmpIndirectToArm64
    <3> QED BY <3>4 DEF o
  <2>11. CASE o.target \notin layout.ec
    <3>1. o.at \in Trampolines[FALSE]
      <4>1. (o.target \in layout.ec) = FALSE
        BY <2>11
      <4> QED BY <2>8, <4>1
    <3>2. ~IsEcCode(o.at)
      BY <2>8, <2>9, <3>1, EcFacts
    <3>3. At(o.target) = JmpImmediate(o.target, o.at + CodeIn)
      BY <2>7, <2>8, <2>11, JumpCells
    <3> DEFINE s == o.at + CodeIn
    <3>4. OnHook(s, o) /\ NowSite(s) /\ \A q \in Records : q.target # s
      BY <2>3, <2>6, <3>1 DEF OnHook, NowSite
    <3>5. Site(s)
      BY <3>1 DEF Site
    <3>6. \A a \in s..s + JumpAt(s) - 1 : a \in Int /\ InArea(s, a)
      <4> HIDE DEF s
      <4>1. s \in Int /\ JumpAt(s) \in {5, 12} /\ \A a \in s..s + JumpAt(s) - 1 : InArea(s, a)
        BY <2>8, <3>5, SiteFacts
      <4> QED BY <4>1
    <3>7. \A a \in s..s + JumpAt(s) - 1 : Part(code, a) = Base(a)
      <4> HIDE DEF s
      <4> QED BY <2>1, <3>4, <3>6, UnhookedSite
    <3>8. At(s) = JmpIndirect(s, o.at + DetourSlot)
      BY <2>8, <3>1, <3>5, <3>7, BaseCells
    <3>9. HookIsStillThere(o)
      BY <3>2, <3>3, <3>8 DEF HookIsStillThere, IsJmpImmediateTo, IsJmpIndirectTo
    <3> QED BY <3>9 DEF o
  <2> QED BY <2>10, <2>11
<1> QED BY <1>1, JumpsIInvHolds, PTL
=============================================================================
