--------------------------- MODULE CopyLoopProofs ---------------------------
(***************************************************************************)
(* Proofs about CopyLoop and Disassembler: for any instructions, with any  *)
(* number of prefixes, in any order, for targets and rbCode anywhere.      *)
(***************************************************************************)
EXTENDS CopyLoopInv, SequenceTheorems, FiniteSetTheorems, WellFoundedInduction, TLAPS

\* Every set of natural numbers that is not empty has a least element.
LEMMA Least ==
  ASSUME NEW S \in SUBSET Nat, S # {}
  PROVE  \E m \in S : \A k \in S : m <= k
<1>1. IsWellFoundedOn({ss \in Nat \X Nat : ss[1] < ss[2]}, Nat)
  BY NatLessThanWellFounded DEF OpToRel
<1>2. PICK m \in S : \A k \in S : ~ (<<k, m>> \in {ss \in Nat \X Nat : ss[1] < ss[2]})
  BY <1>1, WFMin
<1>3. ASSUME NEW k \in S PROVE m <= k
  <2>1. <<k, m>> \in Nat \X Nat /\ k \in Nat /\ m \in Nat
    OBVIOUS
  <2>2. ~(k < m)
    BY <1>2, <2>1
  <2> QED BY <2>1, <2>2
<1> QED BY <1>3

-----------------------------------------------------------------------------
(* The prefixes of an instruction.                                         *)

KnownPrefixes == {"66", "67", "2E", "64", "F2", "F3", "40", "48"}

States ==
  [n : Nat, read : Nat, ok : BOOLEAN, operand : BOOLEAN, address : BOOLEAN,
   rax : BOOLEAN, f2 : BOOLEAN, vex : BOOLEAN]

\* A state in which only bytes that may be there have been looked at.
Good(d) == d \in States /\ d.read <= MaxLength

LEMMA Maximum == MaxLength \in Nat \ {0}
  BY DisassemblerAssumption

LEMMA NeedsGood ==
  ASSUME NEW d, Good(d), NEW bytes \in Nat
  PROVE  /\ Good(Needs(d, bytes))
         /\ Needs(d, bytes).ok <=> d.ok /\ d.n + bytes <= MaxLength
         /\ Needs(d, bytes).n = d.n
         /\ Needs(d, bytes).operand = d.operand /\ Needs(d, bytes).address = d.address
         /\ Needs(d, bytes).rax = d.rax /\ Needs(d, bytes).f2 = d.f2
         /\ Needs(d, bytes).vex = d.vex
<1>1. CASE d.ok /\ d.n + bytes <= MaxLength
  <2> DEFINE r == IF d.read > d.n + bytes THEN d.read ELSE d.n + bytes
  <2>1. Needs(d, bytes) = [d EXCEPT !.read = r]
    BY <1>1 DEF Needs
  <2>2. r \in Nat /\ r <= MaxLength
    BY <1>1, Maximum DEF Good, States
  <2> HIDE DEF r
  <2> QED BY <1>1, <2>1, <2>2, Maximum DEF Good, States
<1>2. CASE ~(d.ok /\ d.n + bytes <= MaxLength)
  <2>1. Needs(d, bytes) = [d EXCEPT !.ok = FALSE]
    BY <1>2 DEF Needs
  <2> QED BY <1>2, <2>1, Maximum DEF Good, States
<1> QED BY <1>1, <1>2

LEMMA PastGood ==
  ASSUME NEW d, Good(d), NEW bytes \in Nat
  PROVE  /\ Good(Past(d, bytes))
         /\ Past(d, bytes).ok = d.ok /\ Past(d, bytes).n = d.n + bytes
         /\ Past(d, bytes).operand = d.operand /\ Past(d, bytes).address = d.address
         /\ Past(d, bytes).rax = d.rax /\ Past(d, bytes).f2 = d.f2
         /\ Past(d, bytes).vex = d.vex
  BY Maximum DEF Good, States, Past

\* What the prefixes of p up to the nth tell; d is the state after them.
Told(d, p, n) ==
  /\ Good(d)
  /\ d.n = n
  /\ d.ok <=> n = 0 \/ n + 1 <= MaxLength
  /\ d.operand <=> \E k \in 1..n : p[k] = "66"
  /\ d.address <=> \E k \in 1..n : p[k] = "67"
  /\ d.f2 <=> \E k \in 1..n : p[k] = "F2"
  /\ d.rax <=> n > 0 /\ p[n] = "48"
  /\ d.vex = FALSE

LEMMA FreshTold ==
  ASSUME NEW p
  PROVE  Told(Fresh, p, 0)
  BY Maximum DEF Fresh, Told, Good, States

LEMMA PrefixTold ==
  ASSUME NEW p \in Seq(KnownPrefixes), NEW n \in 1..Len(p), NEW d, Told(d, p, n - 1)
  PROVE  Told(CopyPrefix(d, p[n]), p, n)
<1> DEFINE x == p[n]
           o == [d EXCEPT !.operand = (@ \/ x = "66"), !.address = (@ \/ x = "67"),
                          !.f2 = (@ \/ x = "F2")]
           s == [Needs(o, 2) EXCEPT !.rax = x = "48"]
<1>1. x \in KnownPrefixes /\ n \in Nat /\ n > 0 /\ n - 1 \in Nat /\ 2 \in Nat /\ 1 \in Nat
  OBVIOUS
<1>2. d \in States /\ Good(d) /\ d.n = n - 1
  BY DEF Told, Good
<1>3. o \in States /\ Good(o) /\ o.n = n - 1 /\ o.ok = d.ok /\ o.vex = FALSE
  BY <1>2 DEF Told, Good, States
<1>4. CopyPrefix(d, x) = Past(s, 1)
  <2>1. CASE x = "66"
    <3>1. o = [d EXCEPT !.operand = TRUE]
      BY <1>2, <2>1 DEF States
    <3> QED BY <2>1, <3>1 DEF CopyPrefix, CopyBytesPrefix
  <2>2. CASE x = "67"
    <3>1. o = [d EXCEPT !.address = TRUE]
      BY <1>2, <2>2 DEF States
    <3> QED BY <2>2, <3>1 DEF CopyPrefix, CopyBytesPrefix
  <2>3. CASE x = "F2"
    <3>1. o = [d EXCEPT !.f2 = TRUE]
      BY <1>2, <2>3 DEF States
    <3> QED BY <2>3, <3>1 DEF CopyPrefix, CopyBytesPrefix
  <2>4. CASE x \in {"40", "48"}
    <3>1. o = d
      BY <1>2, <2>4 DEF States
    <3> QED BY <2>4, <3>1 DEF CopyPrefix
  <2>5. CASE x \in {"2E", "64", "F3"}
    <3>1. o = d
      BY <1>2, <2>5 DEF States
    <3>2. CopyPrefix(d, x) = CopyBytesPrefix(d)
      BY <2>5 DEF CopyPrefix
    <3> QED BY <2>5, <3>1, <3>2 DEF CopyBytesPrefix
  <2> QED BY <1>1, <2>1, <2>2, <2>3, <2>4, <2>5 DEF KnownPrefixes
<1>5. /\ Needs(o, 2) \in States /\ Good(Needs(o, 2))
      /\ Needs(o, 2).ok <=> d.ok /\ n + 1 <= MaxLength
      /\ Needs(o, 2).n = n - 1
      /\ Needs(o, 2).operand = o.operand /\ Needs(o, 2).address = o.address
      /\ Needs(o, 2).f2 = o.f2 /\ Needs(o, 2).vex = FALSE
  <2>1. o.n + 2 = n + 1
    BY <1>1, <1>3
  <2> HIDE DEF o
  <2> QED BY <1>1, <1>3, <2>1, NeedsGood DEF Good
<1>6. /\ Good(s) /\ s.n = n - 1 /\ s.ok = Needs(o, 2).ok
      /\ s.operand = o.operand /\ s.address = o.address
      /\ s.f2 = o.f2 /\ s.vex = FALSE /\ s.rax = (x = "48")
  <2> DEFINE q == Needs(o, 2)
  <2>1. q \in States /\ Good(q) /\ q.n = n - 1 /\ q.vex = FALSE
        /\ q.operand = o.operand /\ q.address = o.address /\ q.f2 = o.f2
    BY <1>5
  <2>2. s = [q EXCEPT !.rax = (x = "48")]
    OBVIOUS
  <2> HIDE DEF q, o, s, x
  <2>3. (x = "48") \in BOOLEAN
    OBVIOUS
  <2>4. /\ s.n = q.n /\ s.ok = q.ok /\ s.operand = q.operand /\ s.address = q.address
        /\ s.f2 = q.f2 /\ s.vex = q.vex /\ s.read = q.read /\ s.rax = (x = "48")
        /\ s \in States
    BY <2>1, <2>2, <2>3 DEF States
  <2>5. Needs(o, 2) = q
    BY DEF q
  <2> QED BY <2>1, <2>4, <2>5 DEF Good
<1>7. /\ Good(Past(s, 1)) /\ Past(s, 1).n = n /\ Past(s, 1).ok = Needs(o, 2).ok
      /\ Past(s, 1).operand = o.operand /\ Past(s, 1).address = o.address
      /\ Past(s, 1).f2 = o.f2 /\ Past(s, 1).vex = FALSE /\ Past(s, 1).rax = (x = "48")
  <2>1. s.n + 1 = n
    BY <1>1, <1>6
  <2> HIDE DEF s, o
  <2> QED BY <1>1, <1>6, <2>1, PastGood
<1>8. d.ok /\ n + 1 <= MaxLength <=> n + 1 <= MaxLength
  BY <1>1, Maximum DEF Told
<1>9. /\ o.operand <=> \E k \in 1..n : p[k] = "66"
      /\ o.address <=> \E k \in 1..n : p[k] = "67"
      /\ o.f2 <=> \E k \in 1..n : p[k] = "F2"
  <2>1. 1..n = 1..n - 1 \cup {n}
    BY <1>1
  <2>2. /\ o.operand = (d.operand \/ x = "66") /\ o.address = (d.address \/ x = "67")
        /\ o.f2 = (d.f2 \/ x = "F2")
    BY <1>2 DEF States
  <2>3. /\ d.operand <=> \E k \in 1..n - 1 : p[k] = "66"
        /\ d.address <=> \E k \in 1..n - 1 : p[k] = "67"
        /\ d.f2 <=> \E k \in 1..n - 1 : p[k] = "F2"
    BY DEF Told
  <2> HIDE DEF o
  <2>4. /\ (\E k \in 1..n : p[k] = "66") <=> (\E k \in 1..n - 1 : p[k] = "66") \/ x = "66"
        /\ (\E k \in 1..n : p[k] = "67") <=> (\E k \in 1..n - 1 : p[k] = "67") \/ x = "67"
        /\ (\E k \in 1..n : p[k] = "F2") <=> (\E k \in 1..n - 1 : p[k] = "F2") \/ x = "F2"
    BY <2>1
  <2> QED BY <2>2, <2>3, <2>4
<1> DEFINE r == Past(s, 1)
<1>10. r \in States
  BY <1>7 DEF Good
<1> HIDE DEF s, o, r
<1>11. CopyPrefix(d, p[n]) = r
  BY <1>4 DEF r
<1>12. /\ Good(r) /\ r.n = n /\ r.vex = FALSE
       /\ r.ok <=> n + 1 <= MaxLength
       /\ r.rax <=> x = "48"
       /\ r.operand = o.operand /\ r.address = o.address /\ r.f2 = o.f2
  <2>1. r.rax = (x = "48") /\ r.ok = Needs(o, 2).ok
    BY <1>7 DEF r
  <2>2. r.rax \in BOOLEAN /\ r.ok \in BOOLEAN
    BY <1>10 DEF States
  <2> QED BY <1>5, <1>7, <1>8, <2>1, <2>2 DEF r
<1>13. n # 0 /\ n > 0
  BY <1>1
<1> QED BY <1>9, <1>11, <1>12, <1>13 DEF Told

\* What is known before the opcode, after any number of prefixes.
LEMMA PrefixesTold ==
  ASSUME NEW p \in Seq(KnownPrefixes)
  PROVE  \E f : /\ f = [n \in 0..Len(p) |-> IF n = 0 THEN Fresh ELSE CopyPrefix(f[n - 1], p[n])]
                /\ \A n \in 0..Len(p) : Told(f[n], p, n)
<1> DEFINE Is(f, m) ==
             f = [n \in 0..m |-> IF n = 0 THEN Fresh ELSE CopyPrefix(f[n - 1], p[n])]
           Goes(m) == \E f : Is(f, m) /\ \A n \in 0..m : Told(f[n], p, n)
           Without == {m \in 0..Len(p) : ~Goes(m)}
<1>1. Len(p) \in Nat
  OBVIOUS
<1>2. Goes(0)
  <2> DEFINE f == [n \in 0..0 |-> Fresh]
  <2>1. f[0] = Fresh /\ f = [n \in 0..0 |-> IF n = 0 THEN Fresh ELSE CopyPrefix(f[n - 1], p[n])]
    OBVIOUS
  <2>2. \A n \in 0..0 : n = 0
    OBVIOUS
  <2> HIDE DEF f
  <2> QED BY <2>1, <2>2, FreshTold
<1>3. ASSUME NEW m \in 0..Len(p) - 1, NEW f, Is(f, m), \A n \in 0..m : Told(f[n], p, n)
      PROVE  Goes(m + 1)
  <2> DEFINE g == [n \in 0..m + 1 |-> IF n = m + 1 THEN CopyPrefix(f[m], p[m + 1]) ELSE f[n]]
  <2>1. \A n \in 0..m : n \in 0..m + 1 /\ n # m + 1 /\ g[n] = f[n]
    OBVIOUS
  <2>2. g[m + 1] = CopyPrefix(g[m], p[m + 1])
    BY <2>1
  <2>3. \A n \in 0..m + 1 : g[n] = IF n = 0 THEN Fresh ELSE CopyPrefix(g[n - 1], p[n])
    <3>1. ASSUME NEW n \in 0..m PROVE g[n] = IF n = 0 THEN Fresh ELSE CopyPrefix(g[n - 1], p[n])
      <4>1. f[n] = IF n = 0 THEN Fresh ELSE CopyPrefix(f[n - 1], p[n])
        BY <1>3
      <4>2. n # 0 => n - 1 \in 0..m
        OBVIOUS
      <4> HIDE DEF g
      <4> QED BY <2>1, <4>1, <4>2
    <3>2. \A n \in 0..m + 1 : n \in 0..m \/ n = m + 1
      OBVIOUS
    <3>3. m + 1 # 0 /\ m + 1 - 1 = m
      OBVIOUS
    <3> HIDE DEF g
    <3> QED BY <2>2, <3>1, <3>2, <3>3
  <2>4. Is(g, m + 1)
    <3>1. g = [n \in 0..m + 1 |-> g[n]]
      OBVIOUS
    <3> HIDE DEF g
    <3> QED BY <2>3, <3>1
  <2>5. Told(g[m + 1], p, m + 1)
    <3>1. m + 1 \in 1..Len(p) /\ m + 1 - 1 = m /\ m \in 0..m
      BY <1>1
    <3>2. Told(g[m], p, m)
      BY <1>3, <2>1, <3>1
    <3> HIDE DEF g
    <3> QED BY <2>2, <3>1, <3>2, PrefixTold
  <2>6. \A n \in 0..m + 1 : n \in 0..m \/ n = m + 1
    OBVIOUS
  <2> HIDE DEF g
  <2> QED BY <1>3, <2>1, <2>4, <2>5, <2>6
<1>4. ASSUME NEW m \in 0..Len(p) - 1, Goes(m) PROVE Goes(m + 1)
  <2>1. PICK f : Is(f, m) /\ \A n \in 0..m : Told(f[n], p, n)
    BY <1>4
  <2> HIDE DEF Is, Goes
  <2> QED BY <1>3, <2>1
<1>5. Goes(Len(p))
  <2> SUFFICES ASSUME ~Goes(Len(p)) PROVE FALSE
    OBVIOUS
  <2> HIDE DEF Goes
  <2>1. Without \in SUBSET Nat /\ Without # {}
    BY <1>1
  <2>2. PICK m \in Without : \A k \in Without : m <= k
    BY <2>1, Least
  <2>3. m \in 0..Len(p) /\ m # 0 /\ ~Goes(m)
    BY <1>2, <2>2
  <2>4. m - 1 \in 0..Len(p) - 1 /\ m - 1 \in 0..Len(p) /\ ~(m <= m - 1) /\ m - 1 + 1 = m
    BY <1>1, <2>3
  <2>5. Goes(m - 1)
    BY <2>2, <2>4
  <2> HIDE DEF Without
  <2>6. Goes(m - 1 + 1)
    BY <1>4, <2>4, <2>5
  <2> QED BY <2>3, <2>4, <2>6
<1> QED BY <1>5

LEMMA WhatPrefixesTell ==
  ASSUME NEW p \in Seq(KnownPrefixes), NEW f,
         f = [n \in 0..Len(p) |-> IF n = 0 THEN Fresh ELSE CopyPrefix(f[n - 1], p[n])]
  PROVE  Told(f[Len(p)], p, Len(p))
<1> DEFINE Wrong == {n \in 0..Len(p) : ~Told(f[n], p, n)}
<1>1. Len(p) \in Nat
  OBVIOUS
<1>2. SUFFICES ASSUME Wrong # {} PROVE FALSE
  <2>1. Len(p) \in 0..Len(p)
    BY <1>1
  <2> QED BY <2>1
<1>3. Wrong \in SUBSET Nat
  BY <1>1
<1> HIDE DEF Wrong
<1>4. PICK n \in Wrong : \A k \in Wrong : n <= k
  BY <1>2, <1>3, Least
<1>5. n \in 0..Len(p) /\ ~Told(f[n], p, n)
  BY <1>4 DEF Wrong
<1>6. CASE n = 0
  BY <1>1, <1>5, <1>6, FreshTold
<1>7. CASE n # 0
  <2>1. n \in 1..Len(p) /\ n - 1 \in 0..Len(p) /\ ~(n <= n - 1)
    BY <1>1, <1>5, <1>7
  <2>2. Told(f[n - 1], p, n - 1)
    BY <1>4, <2>1 DEF Wrong
  <2>3. f[n] = CopyPrefix(f[n - 1], p[n])
    BY <1>5, <1>7
  <2> QED BY <1>5, <2>1, <2>2, <2>3, PrefixTold
<1> QED BY <1>6, <1>7

-----------------------------------------------------------------------------
(* What is known at the opcode of an instruction.                          *)

\* How many bytes of the opcode come before the one that is looked up.
Lead(i) ==
  CASE i.esc = "none" -> 0
    [] i.esc = "0F" -> 1
    [] i.esc \in {"REX2", "VEX2"} -> 2
    [] i.esc = "VEX3" -> 3
    [] i.esc = "EVEX" -> 4

IsVex(i) == i.esc \in {"VEX2", "VEX3", "EVEX"}

LEMMA InstructionFacts ==
  ASSUME NEW i \in Instructions
  PROVE  /\ i.prefixes \in Seq(KnownPrefixes) /\ Len(i.prefixes) \in Nat
         /\ i.esc \in {"none", "0F", "REX2", "VEX2", "VEX3", "EVEX"}
         /\ i.w \in BOOLEAN /\ i.m \in 0..10 /\ i.reg \in 0..7 /\ i.rel \in Int
         /\ Lead(i) \in 0..4
<1>1. /\ i.prefixes \in Seq(KnownPrefixes)
      /\ i.esc \in {"none", "0F", "REX2", "VEX2", "VEX3", "EVEX"}
      /\ i.w \in BOOLEAN /\ i.m \in 0..10 /\ i.reg \in 0..7 /\ i.rel \in Int
  BY DEF Instructions, KnownPrefixes
<1>2. Lead(i) \in 0..4
  BY <1>1 DEF Lead
<1>3. Len(i.prefixes) \in Nat
  BY <1>1
<1> QED BY <1>1, <1>2, <1>3

\* What the bytes before the opcode tell; d is the state at the opcode.
ToldAll(d, i) ==
  /\ Good(d)
  /\ d.n = Len(i.prefixes) + Lead(i)
  /\ d.ok <=> Len(i.prefixes) + Lead(i) + 1 <= MaxLength
  /\ d.operand <=> Has(i, "66")
  /\ d.address <=> Has(i, "67")
  /\ d.f2 <=> Has(i, "F2")
  /\ d.rax <=> Wide(i)
  /\ d.vex <=> IsVex(i)

\* The state r is k bytes after d, and looked as far as need bytes after it.
After(d, r, k, need, vex, rax) ==
  /\ Good(r)
  /\ r.n = d.n + k
  /\ r.ok <=> d.ok /\ (need = 0 \/ d.n + need <= MaxLength)
  /\ r.operand = d.operand /\ r.address = d.address /\ r.f2 = d.f2
  /\ r.vex = vex /\ r.rax = rax

LEMMA StartAfter ==
  ASSUME NEW d, Good(d)
  PROVE  After(d, d, 0, 0, d.vex, d.rax)
  BY DEF After, Good, States

LEMMA NeedsAfter ==
  ASSUME NEW d, Good(d), NEW r, NEW k \in Nat, NEW need \in Nat, NEW vex, NEW rax,
         After(d, r, k, need, vex, rax), NEW bytes \in Nat \ {0},
         NEW now, now = k + bytes, now >= need
  PROVE  After(d, Needs(r, bytes), k, now, vex, rax)
<1> DEFINE q == Needs(r, bytes)
<1>1. /\ Good(r) /\ r.n = d.n + k /\ d.n \in Nat /\ d.ok \in BOOLEAN /\ r.ok \in BOOLEAN
      /\ r.ok <=> d.ok /\ (need = 0 \/ d.n + need <= MaxLength)
  BY DEF After, Good, States
<1>2. Good(q) /\ q.n = d.n + k
  BY <1>1, NeedsGood
<1>3. q.ok <=> r.ok /\ r.n + bytes <= MaxLength
  BY <1>1, NeedsGood
<1>4. /\ q.operand = r.operand /\ q.address = r.address /\ q.f2 = r.f2
      /\ q.vex = r.vex /\ q.rax = r.rax
  BY <1>1, NeedsGood
<1> HIDE DEF q
<1>5. q.ok <=> d.ok /\ d.n + now <= MaxLength
  BY <1>1, <1>3, Maximum
<1>6. now # 0
  OBVIOUS
<1>7. q.ok <=> d.ok /\ (now = 0 \/ d.n + now <= MaxLength)
  BY <1>5, <1>6
<1>8. /\ q.operand = d.operand /\ q.address = d.address /\ q.f2 = d.f2
      /\ q.vex = vex /\ q.rax = rax
  BY <1>4 DEF After
<1>9. After(d, q, k, now, vex, rax)
  BY <1>2, <1>7, <1>8, Zenon DEF After
<1> QED BY <1>9 DEF q

LEMMA PastAfter ==
  ASSUME NEW d, Good(d), NEW r, NEW k \in Nat, NEW need \in Nat, NEW vex, NEW rax,
         After(d, r, k, need, vex, rax), NEW bytes \in Nat,
         NEW now, now = k + bytes
  PROVE  After(d, Past(r, bytes), now, need, vex, rax)
<1> DEFINE q == Past(r, bytes)
<1>1. Good(r) /\ r.n = d.n + k /\ d.n \in Nat
  BY DEF After, Good, States
<1>2. Good(q) /\ q.n = r.n + bytes
  BY <1>1, PastGood
<1>3. /\ q.ok = r.ok /\ q.operand = r.operand /\ q.address = r.address /\ q.f2 = r.f2
      /\ q.vex = r.vex /\ q.rax = r.rax
  BY <1>1, PastGood
<1> HIDE DEF q
<1>4. q.n = d.n + now
  BY <1>1, <1>2
<1>5. After(d, q, now, need, vex, rax)
  BY <1>2, <1>3, <1>4, Zenon DEF After
<1> QED BY <1>5 DEF q

\* The marks that an escape may set.
MarkRax(r, w)  == [r EXCEPT !.rax = @ \/ w]
MarkVex(r)     == [r EXCEPT !.vex = TRUE]
MarkBoth(r, w) == [r EXCEPT !.vex = TRUE, !.rax = @ \/ w]

\* What the state after the marks of an escape are set has of the one before.
LEMMA SameAfter ==
  ASSUME NEW d, NEW r, NEW k, NEW need, NEW vex, NEW rax,
         After(d, r, k, need, vex, rax), NEW q \in States,
         q.n = r.n, q.read = r.read, q.ok = r.ok, q.operand = r.operand,
         q.address = r.address, q.f2 = r.f2
  PROVE  After(d, q, k, need, q.vex, q.rax)
<1>1. r.read <= MaxLength
  BY DEF After, Good
<1>2. Good(q)
  BY <1>1 DEF Good
<1> QED BY <1>2, Zenon DEF After

LEMMA MarkRaxAfter ==
  ASSUME NEW d, NEW r, NEW k, NEW need, NEW vex, NEW rax,
         After(d, r, k, need, vex, rax), NEW w, NEW now \in BOOLEAN, now <=> rax \/ w
  PROVE  After(d, MarkRax(r, w), k, need, vex, now)
<1> DEFINE q == [r EXCEPT !.rax = now]
<1>1. r \in States /\ r.rax = rax /\ r.vex = vex
  BY DEF After, Good
<1>2. /\ q \in States /\ q.n = r.n /\ q.read = r.read /\ q.ok = r.ok /\ q.operand = r.operand
      /\ q.address = r.address /\ q.f2 = r.f2 /\ q.vex = r.vex /\ q.rax = now
  BY <1>1 DEF States
<1>3. MarkRax(r, w) = q
  <2>1. (r.rax \/ w) = now
    BY <1>1
  <2> QED BY <2>1 DEF MarkRax
<1> HIDE DEF q
<1>4. After(d, q, k, need, q.vex, q.rax)
  BY <1>2, SameAfter
<1> QED BY <1>1, <1>2, <1>3, <1>4

LEMMA MarkVexAfter ==
  ASSUME NEW d, NEW r, NEW k, NEW need, NEW vex, NEW rax,
         After(d, r, k, need, vex, rax)
  PROVE  After(d, MarkVex(r), k, need, TRUE, rax)
<1> DEFINE q == [r EXCEPT !.vex = TRUE]
<1>1. r \in States /\ r.rax = rax
  BY DEF After, Good
<1>2. /\ q \in States /\ q.n = r.n /\ q.read = r.read /\ q.ok = r.ok /\ q.operand = r.operand
      /\ q.address = r.address /\ q.f2 = r.f2 /\ q.vex = TRUE /\ q.rax = r.rax
  BY <1>1 DEF States
<1>3. MarkVex(r) = q
  BY DEF MarkVex
<1> HIDE DEF q
<1>4. After(d, q, k, need, q.vex, q.rax)
  BY <1>2, SameAfter
<1> QED BY <1>1, <1>2, <1>3, <1>4

LEMMA MarkBothAfter ==
  ASSUME NEW d, NEW r, NEW k, NEW need, NEW vex, NEW rax,
         After(d, r, k, need, vex, rax), NEW w, NEW now \in BOOLEAN, now <=> rax \/ w
  PROVE  After(d, MarkBoth(r, w), k, need, TRUE, now)
<1> DEFINE q == [r EXCEPT !.vex = TRUE, !.rax = now]
<1>1. r \in States /\ r.rax = rax
  BY DEF After, Good
<1>2. /\ q \in States /\ q.n = r.n /\ q.read = r.read /\ q.ok = r.ok /\ q.operand = r.operand
      /\ q.address = r.address /\ q.f2 = r.f2 /\ q.vex = TRUE /\ q.rax = now
  BY <1>1 DEF States
<1>3. MarkBoth(r, w) = q
  <2>1. (r.rax \/ w) = now
    BY <1>1
  <2> QED BY <2>1 DEF MarkBoth
<1> HIDE DEF q
<1>4. After(d, q, k, need, q.vex, q.rax)
  BY <1>2, SameAfter
<1> QED BY <1>1, <1>2, <1>3, <1>4

\* What has to be there after the bytes before the opcode.
NeedOf(i) == IF i.esc = "none" THEN 0 ELSE Lead(i) + 1

\* The escapes look ahead, go on, and may set two marks.
LEMMA EscapeTold ==
  ASSUME NEW i \in Instructions, NEW d, Good(d), d.vex = FALSE
  PROVE  \E vex, rax \in BOOLEAN :
           /\ After(d, CopyEscape(d, i), Lead(i), NeedOf(i), vex, rax)
           /\ vex <=> IsVex(i)
           /\ rax <=> d.rax \/ (i.esc \in {"REX2", "VEX3", "EVEX"} /\ i.w)
<1> DEFINE x == d.rax
           w == i.w
           y == x \/ w
           Goal(vex, rax) ==
             /\ After(d, CopyEscape(d, i), Lead(i), NeedOf(i), vex, rax)
             /\ vex <=> IsVex(i)
             /\ rax <=> d.rax \/ (i.esc \in {"REX2", "VEX3", "EVEX"} /\ i.w)
<1> SUFFICES \E vex, rax \in BOOLEAN : Goal(vex, rax)
  OBVIOUS
<1>1. /\ x \in BOOLEAN /\ w \in BOOLEAN /\ y \in BOOLEAN /\ (y <=> x \/ w) /\ d.vex \in BOOLEAN
      /\ FALSE \in BOOLEAN /\ TRUE \in BOOLEAN
  BY InstructionFacts DEF Good, States
<1>2. After(d, d, 0, 0, FALSE, x)
  BY StartAfter
<1>0. /\ 0 \in Nat /\ 1 \in Nat /\ 2 \in Nat /\ 3 \in Nat
      /\ 1 \in Nat \ {0} /\ 2 \in Nat \ {0} /\ 3 \in Nat \ {0}
      /\ 2 = 0 + 2 /\ 3 = 0 + 3 /\ 1 = 0 + 1 /\ 3 = 2 + 1
      /\ 2 >= 0 /\ 3 >= 0 /\ 3 >= 2
  OBVIOUS
<1> HIDE DEF x, w, y
<1>3. CASE i.esc = "none"
  <2>1. Lead(i) = 0 /\ NeedOf(i) = 0 /\ CopyEscape(d, i) = d /\ ~IsVex(i)
    BY <1>3 DEF Lead, NeedOf, CopyEscape, IsVex, MarkRax, MarkVex, w
  <2>2. Goal(FALSE, x)
    BY <1>2, <1>3, <2>1 DEF x
  <2> QED BY <1>1, <2>2
<1>4. CASE i.esc = "0F"
  <2>1. Lead(i) = 1 /\ NeedOf(i) = 2 /\ CopyEscape(d, i) = Past(Needs(d, 2), 1) /\ ~IsVex(i)
    BY <1>4 DEF Lead, NeedOf, CopyEscape, IsVex, MarkRax, MarkVex, w
  <2>2. After(d, Needs(d, 2), 0, 2, FALSE, x)
    BY <1>0, <1>2, NeedsAfter, Zenon
  <2>3. After(d, Past(Needs(d, 2), 1), 1, 2, FALSE, x)
    BY <1>0, <2>2, PastAfter, Zenon
  <2>4. Goal(FALSE, x)
    BY <1>4, <2>1, <2>3, Zenon DEF x
  <2> QED BY <1>1, <2>4
<1>5. CASE i.esc = "REX2"
  <2> DEFINE a == Needs(d, 3)
             b == MarkRax(a, w)
  <2>1. Lead(i) = 2 /\ NeedOf(i) = 3 /\ CopyEscape(d, i) = Past(b, 2) /\ ~IsVex(i)
    BY <1>5 DEF Lead, NeedOf, CopyEscape, IsVex, MarkRax, MarkVex, w
  <2>2. After(d, a, 0, 3, FALSE, x)
    BY <1>0, <1>2, NeedsAfter, Zenon
  <2>3. After(d, b, 0, 3, FALSE, y)
    <3> HIDE DEF a
    <3> QED BY <1>1, <2>2, MarkRaxAfter
  <2> HIDE DEF b
  <2>4. After(d, Past(b, 2), 2, 3, FALSE, y)
    BY <1>0, <2>3, PastAfter, Zenon
  <2>5. Goal(FALSE, y)
    BY <1>5, <2>1, <2>4, Zenon DEF x, w, y
  <2> QED BY <1>1, <2>5
<1>6. CASE i.esc = "VEX2"
  <2> DEFINE a == Needs(d, 2)
             b == MarkVex(a)
  <2>1. Lead(i) = 2 /\ NeedOf(i) = 3 /\ CopyEscape(d, i) = Needs(Past(b, 2), 1) /\ IsVex(i)
    BY <1>6 DEF Lead, NeedOf, CopyEscape, IsVex, MarkRax, MarkVex, w
  <2>2. After(d, a, 0, 2, FALSE, x)
    BY <1>0, <1>2, NeedsAfter, Zenon
  <2>3. After(d, b, 0, 2, TRUE, x)
    <3> HIDE DEF a
    <3> QED BY <1>1, <2>2, MarkVexAfter
  <2> HIDE DEF b
  <2>4. After(d, Past(b, 2), 2, 2, TRUE, x)
    BY <1>0, <2>3, PastAfter, Zenon
  <2>5. After(d, Needs(Past(b, 2), 1), 2, 3, TRUE, x)
    BY <1>0, <2>4, NeedsAfter, Zenon
  <2>6. Goal(TRUE, x)
    BY <1>6, <2>1, <2>5, Zenon DEF x
  <2> QED BY <1>1, <2>6
<1>7. CASE i.esc \in {"VEX3", "EVEX"}
  <2> DEFINE k == Lead(i)
             z == Needs(d, 2)
             a == Needs(z, k)
             b == MarkBoth(a, w)
  <2>1. k \in {3, 4} /\ NeedOf(i) = k + 1 /\ IsVex(i)
    BY <1>7 DEF Lead, NeedOf, IsVex
  <2>2. CopyEscape(d, i) = Needs(Past(b, k), 1)
    BY <1>7 DEF CopyEscape, Lead, MarkBoth, w
  <2>3. After(d, z, 0, 2, FALSE, x)
    BY <1>0, <1>2, NeedsAfter, Zenon
  <2> HIDE DEF k, z
  <2>4. After(d, a, 0, k, FALSE, x)
    <3>1. k \in Nat \ {0} /\ k = 0 + k /\ k >= 2
      BY <2>1
    <3> QED BY <1>0, <2>3, <3>1, NeedsAfter, Zenon
  <2> HIDE DEF a
  <2>5. After(d, b, 0, k, TRUE, y)
    BY <1>1, <2>4, MarkBothAfter
  <2> HIDE DEF b
  <2>6. After(d, Past(b, k), k, k, TRUE, y)
    <3>1. k \in Nat /\ k = 0 + k
      BY <2>1
    <3> QED BY <1>0, <2>5, <3>1, PastAfter, Zenon
  <2>7. After(d, Needs(Past(b, k), 1), k, k + 1, TRUE, y)
    <3>1. k \in Nat /\ k + 1 = k + 1 /\ k + 1 >= k
      BY <2>1
    <3> QED BY <1>0, <2>6, <3>1, NeedsAfter, Zenon
  <2>8. Goal(TRUE, y)
    BY <1>7, <2>1, <2>2, <2>7, Zenon DEF x, w, y, k
  <2> QED BY <1>1, <2>8
<1> QED BY <1>3, <1>4, <1>5, <1>6, <1>7, InstructionFacts

LEMMA AtOpcodeTold ==
  ASSUME NEW i \in Instructions
  PROVE  ToldAll(AtOpcode(i), i)
<1> DEFINE p == i.prefixes
           L == Len(p)
           past == CHOOSE f : f = [n \in 0..Len(p) |-> IF n = 0 THEN Fresh
                                                       ELSE CopyPrefix(f[n - 1], p[n])]
           d == past[L]
<1>1. p \in Seq(KnownPrefixes) /\ L \in Nat
  BY InstructionFacts
<1>2. AtOpcode(i) = CopyEscape(d, i)
  BY DEF AtOpcode
<1>3. Told(d, p, L)
  <2>1. \E f : /\ f = [n \in 0..Len(p) |-> IF n = 0 THEN Fresh ELSE CopyPrefix(f[n - 1], p[n])]
               /\ \A n \in 0..Len(p) : Told(f[n], p, n)
    BY <1>1, PrefixesTold
  <2>2. past = [n \in 0..Len(p) |-> IF n = 0 THEN Fresh ELSE CopyPrefix(past[n - 1], p[n])]
    BY <2>1
  <2> HIDE DEF past
  <2> QED BY <1>1, <2>2, WhatPrefixesTell
<1>4. /\ \A x : Has(i, x) <=> \E k \in 1..L : p[k] = x
      /\ Wide(i) <=> (L > 0 /\ p[L] = "48") \/ (i.esc \in {"REX2", "VEX3", "EVEX"} /\ i.w)
  <2>1. DOMAIN p = 1..L
    BY <1>1
  <2>2. p # <<>> <=> L > 0
    BY <1>1
  <2> QED BY <2>1, <2>2 DEF Has, ToSet, Wide, Last
<1> HIDE DEF d
<1>5. /\ Good(d) /\ d.n = L /\ d.vex = FALSE
      /\ d.ok <=> L + 1 <= MaxLength
      /\ d.operand <=> Has(i, "66")
      /\ d.address <=> Has(i, "67")
      /\ d.f2 <=> Has(i, "F2")
      /\ d.rax <=> L > 0 /\ p[L] = "48"
  BY <1>1, <1>3, <1>4, Maximum DEF Told
<1> DEFINE r == AtOpcode(i)
<1>6. PICK vex, rax \in BOOLEAN :
        /\ After(d, r, Lead(i), NeedOf(i), vex, rax)
        /\ vex <=> IsVex(i)
        /\ rax <=> d.rax \/ (i.esc \in {"REX2", "VEX3", "EVEX"} /\ i.w)
  <2> HIDE DEF p, L
  <2> QED BY <1>2, <1>5, EscapeTold
<1> HIDE DEF r, L, p
<1>7. /\ Good(r) /\ r.n = L + Lead(i)
      /\ r.operand = d.operand /\ r.address = d.address /\ r.f2 = d.f2
      /\ r.vex = vex /\ r.rax = rax
  BY <1>5, <1>6 DEF After
<1>8. r.ok <=> L + Lead(i) + 1 <= MaxLength
  <2>1. r.ok <=> d.ok /\ (NeedOf(i) = 0 \/ L + NeedOf(i) <= MaxLength)
    BY <1>5, <1>6 DEF After
  <2>2. CASE i.esc = "none"
    BY <1>1, <1>5, <2>1, <2>2 DEF NeedOf, Lead
  <2>3. CASE i.esc # "none"
    <3>1. NeedOf(i) = Lead(i) + 1 /\ Lead(i) \in 0..4
      BY <2>3, InstructionFacts DEF NeedOf
    <3> QED BY <1>1, <1>5, <2>1, <3>1, Maximum
  <2> QED BY <2>2, <2>3
<1>9. /\ r.operand <=> Has(i, "66")
      /\ r.address <=> Has(i, "67")
      /\ r.f2 <=> Has(i, "F2")
      /\ r.rax <=> Wide(i)
      /\ r.vex <=> IsVex(i)
  BY <1>4, <1>5, <1>6, <1>7
<1>10. r.n = Len(i.prefixes) + Lead(i) /\ (r.ok <=> Len(i.prefixes) + Lead(i) + 1 <= MaxLength)
  BY <1>7, <1>8 DEF L, p
<1>11. Good(r)
  BY <1>7
<1>12. ToldAll(r, i)
  BY <1>9, <1>10, <1>11, Zenon DEF ToldAll
<1> QED BY <1>12 DEF r

-----------------------------------------------------------------------------
(* The entries of g_rceCopyMap.                                            *)

Entries ==
  {CopyBytes1, CopyBytes1Address, CopyBytes2, CopyBytes2CantJump, CopyBytes3, CopyBytes3Or5,
   CopyBytes3Or5Rax, CopyBytes3Or5Target, CopyBytes4, CopyBytes2Mod, CopyBytes2Mod1,
   CopyBytes2ModOperand, CopyBytes3Mod, CopyBytes3Mod1, CopyBytesXop, CopyBytesXop1,
   CopyBytesXop4, XBegin, Jump, Invalid}

LEMMA EntriesFacts ==
  ASSUME NEW e \in Entries
  PROVE  /\ e.size \in 0..9 /\ e.size16 \in 0..9 /\ e.mod \in {0, 1, 2, 4} /\ e.rel \in 0..2
         /\ e.mod > 0 => e.size > e.mod /\ e.size16 > e.mod
         /\ e # Invalid => e.size > 0 /\ e.size16 > 0
         /\ "NOENLARGE" \in e.flags => e = CopyBytes2CantJump
  BY DEF Entries, Entry, CopyBytes1, CopyBytes1Address, CopyBytes2, CopyBytes2CantJump,
         CopyBytes3, CopyBytes3Or5, CopyBytes3Or5Rax, CopyBytes3Or5Target, CopyBytes4,
         CopyBytes2Mod, CopyBytes2Mod1, CopyBytes2ModOperand, CopyBytes3Mod, CopyBytes3Mod1,
         CopyBytesXop, CopyBytesXop1, CopyBytesXop4, XBegin, Jump, Invalid

LEMMA EntryOfEntries ==
  ASSUME NEW i \in Instructions, NEW d
  PROVE  EntryOf(d, i) \in Entries
<1>1. /\ CopyF6(i) \in Entries /\ CopyF7(i) \in Entries /\ CopyC7(i) \in Entries
      /\ CopyFF(i) \in Entries /\ CopyXop(i) \in Entries /\ Copy0F78(d) \in Entries
  BY DEF CopyF6, CopyF7, CopyC7, CopyFF, CopyXop, Copy0F78, Entries
<1>2. OneByte(i) \in Entries
  BY <1>1 DEF OneByte, Entries
<1>3. TwoByte(d, i) \in Entries
  BY <1>1 DEF TwoByte, Entries
<1>4. Vex(d, i) \in Entries
  BY <1>3 DEF Vex, Entries
<1> QED BY <1>2, <1>3, <1>4 DEF EntryOf

-----------------------------------------------------------------------------
(* How long an instruction is found to be.                                 *)

LEMMA ModRmFacts ==
  ASSUME NEW i \in Instructions
  PROVE  /\ ModRm(i.rm) \in 0..5
         /\ ReadsSib(i.rm) => ModRm(i.rm) = 1
         /\ ModRm(i.rm) + (IF i.rm = "sib base 5" THEN 4 ELSE 0) = OperandPlace(i.rm)
<1> DEFINE base5 == IF i.rm = "sib base 5" THEN 4 ELSE 0
           Are(k, five, place) ==
             ModRm(i.rm) = k /\ base5 = five /\ OperandPlace(i.rm) = place
<1>1. i.rm \in {"none", "reg", "mem", "disp8", "disp32", "rip", "sib", "sib disp8",
                "sib disp32", "sib base 5"}
  BY DEF Instructions
<1>2. ReadsSib(i.rm) <=> i.rm \in {"sib", "sib base 5"}
  BY DEF ReadsSib
<1>3. i.rm \in {"none", "reg", "mem"} => Are(0, 0, 0)
  BY Zenon DEF ModRm, OperandPlace
<1>4. i.rm \in {"disp8", "sib"} => Are(1, 0, 1)
  BY Zenon DEF ModRm, OperandPlace
<1>5. i.rm = "sib base 5" => Are(1, 4, 5)
  BY Zenon DEF ModRm, OperandPlace
<1>6. i.rm = "sib disp8" => Are(2, 0, 2)
  BY Zenon DEF ModRm, OperandPlace
<1>7. i.rm \in {"disp32", "rip"} => Are(4, 0, 4)
  BY Zenon DEF ModRm, OperandPlace
<1>8. i.rm = "sib disp32" => Are(5, 0, 5)
  BY Zenon DEF ModRm, OperandPlace
<1> HIDE DEF base5, Are
<1>9. \/ Are(0, 0, 0) \/ Are(1, 0, 1) \/ Are(1, 4, 5) \/ Are(2, 0, 2) \/ Are(4, 0, 4)
      \/ Are(5, 0, 5)
  BY <1>1, <1>3, <1>4, <1>5, <1>6, <1>7, <1>8
<1>10. ReadsSib(i.rm) => ModRm(i.rm) = 1
  BY <1>2, <1>4, <1>5 DEF Are
<1> DEFINE m == ModRm(i.rm)
           place == OperandPlace(i.rm)
<1>11. \/ m = 0 /\ base5 = 0 /\ place = 0
       \/ m = 1 /\ base5 = 0 /\ place = 1
       \/ m = 1 /\ base5 = 4 /\ place = 5
       \/ m = 2 /\ base5 = 0 /\ place = 2
       \/ m = 4 /\ base5 = 0 /\ place = 4
       \/ m = 5 /\ base5 = 0 /\ place = 5
  BY <1>9 DEF Are
<1> HIDE DEF m, place
<1>12. m \in 0..5 /\ m + base5 = place
  BY <1>11
<1> QED BY <1>10, <1>12 DEF base5, m, place

LEMMA SizeFacts ==
  ASSUME NEW i \in Instructions, NEW d, NEW e \in Entries
  PROVE  /\ FixedSize(d, e) \in 0..13
         /\ Size(d, e, i) \in 0..22
         /\ Size(d, e, i) >= FixedSize(d, e)
         /\ e.mod > 0 => Size(d, e, i) >= e.mod + 1
         /\ e.mod > 0 /\ ReadsSib(i.rm) => Size(d, e, i) >= e.mod + 2
         /\ e # Invalid => FixedSize(d, e) > 0
<1>1. /\ e.size \in 0..9 /\ e.size16 \in 0..9 /\ e.mod \in {0, 1, 2, 4}
      /\ e.mod > 0 => e.size > e.mod /\ e.size16 > e.mod
      /\ e # Invalid => e.size > 0 /\ e.size16 > 0
  BY EntriesFacts
<1>2. /\ FixedSize(d, e) \in 0..13
      /\ e.mod > 0 => FixedSize(d, e) > e.mod
      /\ e # Invalid => FixedSize(d, e) > 0
  BY <1>1 DEF FixedSize
<1> DEFINE m == ModRm(i.rm)
           base5 == IF i.rm = "sib base 5" THEN 4 ELSE 0
<1>3. m \in 0..5 /\ base5 \in {0, 4} /\ (ReadsSib(i.rm) => m = 1)
  BY ModRmFacts
<1>4. Size(d, e, i) = FixedSize(d, e) + (IF e.mod = 0 THEN 0 ELSE m + base5)
  BY DEF Size
<1>5. e.mod > 0 => e.mod # 0 /\ e.mod \in Nat
  BY <1>1
<1> HIDE DEF m, base5
<1> QED BY <1>1, <1>2, <1>3, <1>4, <1>5

\* The handlers that look ahead look no further than their instruction.
LEMMA AheadFacts ==
  ASSUME NEW i \in Instructions, NEW d, LooksAhead(d, i) # d, EntryOf(d, i) # Invalid
  PROVE  LooksAhead(d, i) = Needs(d, 2) /\ FixedSize(d, EntryOf(d, i)) >= 2
<1> DEFINE e == EntryOf(d, i)
<1>1. /\ LooksAhead(d, i) = Needs(d, 2) /\ ~d.vex
      /\ \/ e = Jump
         \/ i.esc \in {"none", "REX2"} /\ i.m # 1 /\ i.op \in {"8F", "F6", "F7", "C7", "FF"}
  BY DEF LooksAhead
<1>2. e \in {Jump, CopyBytesXop, CopyBytesXop1, CopyBytesXop4, CopyBytes2Mod, CopyBytes2Mod1,
             CopyBytes2ModOperand, XBegin}
  <2>1. CASE e = Jump
    BY <2>1
  <2>2. CASE i.esc \in {"none", "REX2"} /\ i.m # 1 /\ i.op \in {"8F", "F6", "F7", "C7", "FF"}
    <3>1. e = OneByte(i)
      BY <1>1, <2>2 DEF EntryOf
    <3>2. e \in {CopyXop(i), CopyF6(i), CopyF7(i), CopyC7(i), CopyFF(i)}
      BY <2>2, <3>1 DEF OneByte
    <3> HIDE DEF e
    <3>3. e # Invalid
      BY DEF e
    <3> QED BY <3>2, <3>3 DEF CopyXop, CopyF6, CopyF7, CopyC7, CopyFF
  <2> QED BY <1>1, <2>1, <2>2
<1> HIDE DEF e
<1>3. e.size >= 2 /\ e.size16 >= 2 /\ e.size \in Nat /\ e.size16 \in Nat
  BY <1>2 DEF Entry, Jump, CopyBytesXop, CopyBytesXop1, CopyBytesXop4, CopyBytes2Mod,
              CopyBytes2Mod1, CopyBytes2ModOperand, XBegin
<1>4. FixedSize(d, e) >= 2
  BY <1>3 DEF FixedSize
<1> QED BY <1>1, <1>4 DEF e

\* Where CopyBytes finds the end, and when the instruction is whole.
LEMMA CopyBytesTold ==
  ASSUME NEW i \in Instructions, NEW d, Good(d), NEW e \in Entries, e # Invalid,
         NEW ahead, NEW need \in 0..2, After(d, ahead, 0, need, d.vex, d.rax),
         need <= FixedSize(d, e)
  PROVE  After(d, CopyBytes(ahead, e, i), Size(d, e, i), Size(d, e, i), d.vex, d.rax)
<1> DEFINE s == Size(d, e, i)
           modrm == IF e.mod = 0 THEN ahead ELSE Needs(ahead, e.mod + 1)
           sib == IF e.mod > 0 /\ ReadsSib(i.rm) THEN Needs(modrm, e.mod + 2) ELSE modrm
<1>1. /\ ahead.operand = d.operand /\ ahead.address = d.address /\ ahead.vex = d.vex
      /\ ahead.rax = d.rax
  BY DEF After
<1>2. Size(ahead, e, i) = s
  <2>1. FixedSize(ahead, e) = FixedSize(d, e)
    BY <1>1 DEF FixedSize
  <2> QED BY <2>1 DEF Size
<1>3. CopyBytes(ahead, e, i) = Past(Needs(sib, s), s)
  <2> HIDE DEF s
  <2> QED BY <1>2 DEF CopyBytes
<1>4. /\ s \in Nat \ {0} /\ e.mod \in {0, 1, 2, 4}
      /\ FixedSize(d, e) \in Nat /\ s >= FixedSize(d, e)
      /\ e.mod > 0 => s >= e.mod + 1
      /\ e.mod > 0 /\ ReadsSib(i.rm) => s >= e.mod + 2
  BY EntriesFacts, SizeFacts
<1> HIDE DEF s
<1>5. PICK n0 \in Nat : n0 <= s /\ n0 <= 2 /\ After(d, ahead, 0, n0, d.vex, d.rax)
  BY <1>4
<1> DEFINE m1 == e.mod + 1
           m2 == e.mod + 2
<1> DEFINE Whole == \E n \in Nat : n <= s /\ After(d, sib, 0, n, d.vex, d.rax)
<1>6. ASSUME e.mod = 0 PROVE Whole
  <2>1. sib = ahead
    BY <1>6
  <2> HIDE DEF sib
  <2> QED BY <1>5, <2>1
<1>7. ASSUME e.mod > 0 PROVE Whole
  <2>1. /\ m1 \in Nat \ {0} /\ m1 = 0 + m1 /\ m1 >= n0 /\ m1 <= s /\ m1 \in Nat
        /\ m2 \in Nat \ {0} /\ m2 = 0 + m2 /\ m2 >= m1 /\ m2 \in Nat /\ 0 \in Nat
    BY <1>4, <1>5, <1>7
  <2>2. ReadsSib(i.rm) => m2 <= s
    BY <1>4, <1>7
  <2>3. modrm = Needs(ahead, m1) /\ sib = IF ReadsSib(i.rm) THEN Needs(modrm, m2) ELSE modrm
    BY <1>4, <1>7
  <2> HIDE DEF m1, m2, modrm, sib
  <2>4. After(d, modrm, 0, m1, d.vex, d.rax)
    BY <1>5, <2>1, <2>3, NeedsAfter, Zenon
  <2>5. CASE ReadsSib(i.rm)
    <3>1. After(d, sib, 0, m2, d.vex, d.rax)
      <4>1. After(d, Needs(modrm, m2), 0, m2, d.vex, d.rax)
        BY <2>1, <2>4, NeedsAfter, Zenon
      <4> QED BY <2>3, <2>5, <4>1
    <3> QED BY <2>1, <2>2, <2>5, <3>1
  <2>6. CASE ~ReadsSib(i.rm)
    BY <2>1, <2>3, <2>4, <2>6
  <2> QED BY <2>5, <2>6
<1>8. PICK n \in Nat : n <= s /\ After(d, sib, 0, n, d.vex, d.rax)
  BY <1>4, <1>6, <1>7
<1> HIDE DEF sib
<1>9. After(d, Needs(sib, s), 0, s, d.vex, d.rax)
  <2>1. 0 \in Nat /\ s = 0 + s /\ s >= n
    BY <1>4, <1>8
  <2> QED BY <1>4, <1>8, <2>1, NeedsAfter, Zenon
<1>10. After(d, Past(Needs(sib, s), s), s, s, d.vex, d.rax)
  <2>1. 0 \in Nat /\ s \in Nat /\ s = 0 + s
    BY <1>4
  <2> QED BY <1>9, <2>1, PastAfter, Zenon
<1> QED BY <1>3, <1>10 DEF s

\* The jump whose target is read after its length is known.
IsJmpAbs(i) == i.esc = "REX2" /\ i.m = 0 /\ ~i.w /\ i.op = "A1"

LEMMA JmpAbsTold ==
  ASSUME NEW i \in Instructions, NEW d, Good(d), NEW s \in Nat,
         NEW end, Good(end), end.n = d.n + s
  PROVE  /\ Good(JmpAbs(d, i, end))
         /\ JmpAbs(d, i, end).n = d.n + s
         /\ JmpAbs(d, i, end).ok => end.ok
         /\ end.ok => (JmpAbs(d, i, end).ok <=> ~IsJmpAbs(i) \/ d.n + 9 <= MaxLength)
<1>1. CASE end.ok /\ IsJmpAbs(i)
  <2> DEFINE q == [end EXCEPT !.n = d.n]
             a == Needs(q, 9)
             r == [a EXCEPT !.n = end.n]
  <2>1. end \in States /\ d.n \in Nat /\ end.n \in Nat /\ 9 \in Nat
    BY DEF Good, States
  <2>2. q \in States /\ q.n = d.n /\ q.ok = end.ok /\ q.read = end.read
    BY <2>1 DEF States
  <2>3. Good(q)
    BY <2>2 DEF Good
  <2>4. JmpAbs(d, i, end) = r
    BY <1>1 DEF JmpAbs, IsJmpAbs
  <2> HIDE DEF q
  <2>5. Good(a) /\ (a.ok <=> q.ok /\ q.n + 9 <= MaxLength)
    BY <2>1, <2>3, NeedsGood
  <2> HIDE DEF a
  <2>6. r \in States /\ r.n = end.n /\ r.ok = a.ok /\ r.read = a.read
    BY <2>1, <2>5 DEF Good, States
  <2> HIDE DEF r
  <2>7. Good(r)
    BY <2>5, <2>6 DEF Good
  <2>8. r.ok <=> d.n + 9 <= MaxLength
    BY <1>1, <2>2, <2>5, <2>6
  <2> QED BY <1>1, <2>4, <2>6, <2>7, <2>8
<1>2. CASE ~(end.ok /\ IsJmpAbs(i))
  <2>1. JmpAbs(d, i, end) = end
    BY <1>2 DEF JmpAbs, IsJmpAbs
  <2>2. end.ok => ~IsJmpAbs(i)
    BY <1>2
  <2>3. end.ok => (end.ok <=> ~IsJmpAbs(i) \/ d.n + 9 <= MaxLength)
    BY <2>2
  <2> QED BY <2>1, <2>3
<1> QED BY <1>1, <1>2

\* What CopyInstruction finds, for what the bytes before the opcode tell.
LEMMA InstructionTold ==
  ASSUME NEW i \in Instructions
  PROVE  LET d == AtOpcode(i)
             e == EntryOf(d, i)
             c == CopyInstruction(i)
             s == Size(d, e, i)
         IN  /\ Good(c)
             /\ c.ok => e # Invalid
             /\ e # Invalid =>
                  /\ s \in Nat \ {0} /\ d.n \in Nat
                  /\ c.n = d.n + s
                  /\ c.ok => d.n + s <= MaxLength
                  /\ ~(IsJmpAbs(i) /\ d.address) => (c.ok <=> d.n + s <= MaxLength)
<1> DEFINE d == AtOpcode(i)
           e == EntryOf(d, i)
           c == CopyInstruction(i)
           s == Size(d, e, i)
           ahead == LooksAhead(d, i)
           end == CopyBytes(ahead, e, i)
<1>1. /\ ToldAll(d, i) /\ Good(d) /\ d \in States /\ d.n \in Nat /\ d.ok \in BOOLEAN
      /\ (d.ok <=> d.n + 1 <= MaxLength) /\ (d.vex <=> IsVex(i))
  BY AtOpcodeTold DEF ToldAll, Good, States
<1>2. e \in Entries
  BY EntryOfEntries
<1>3. c = IF e = Invalid THEN [ahead EXCEPT !.ok = FALSE] ELSE JmpAbs(d, i, end)
  BY DEF CopyInstruction
<1>4. CASE e = Invalid
  <2>1. ahead = d \/ ahead = Needs(d, 2)
    BY DEF LooksAhead
  <2>2. Good(ahead)
    BY <1>1, <2>1, NeedsGood
  <2> HIDE DEF ahead
  <2>3. c = [ahead EXCEPT !.ok = FALSE]
    BY <1>3, <1>4
  <2> HIDE DEF c
  <2>4. Good(c) /\ ~c.ok
    BY <2>2, <2>3 DEF Good, States
  <2> QED BY <1>4, <2>4 DEF c
<1>5. CASE e # Invalid
  <2>1. FixedSize(d, e) \in Nat /\ FixedSize(d, e) > 0 /\ s \in Nat \ {0}
        /\ s >= FixedSize(d, e)
    BY <1>2, <1>5, SizeFacts
  <2>2. \E need \in 0..2 : need <= FixedSize(d, e) /\ After(d, ahead, 0, need, d.vex, d.rax)
    <3>1. CASE ahead = d
      BY <1>1, <2>1, <3>1, StartAfter
    <3>2. CASE ahead # d
      <4>1. ahead = Needs(d, 2) /\ FixedSize(d, e) >= 2
        BY <1>5, <3>2, AheadFacts
      <4>2. /\ 0 \in Nat /\ 2 \in Nat \ {0} /\ 2 = 0 + 2 /\ 2 >= 0
        OBVIOUS
      <4> HIDE DEF d, ahead, e
      <4>3. After(d, Needs(d, 2), 0, 2, d.vex, d.rax)
        BY <1>1, <4>2, StartAfter, NeedsAfter, Zenon
      <4>4. 2 \in 0..2 /\ 2 <= FixedSize(d, e)
        BY <2>1, <4>1
      <4> QED BY <4>1, <4>3, <4>4, Zenon
    <3> QED BY <3>1, <3>2
  <2> HIDE DEF ahead, e
  <2>3. After(d, end, s, s, d.vex, d.rax)
    BY <1>1, <1>2, <1>5, <2>2, CopyBytesTold
  <2> HIDE DEF end, s, d
  <2>4. Good(end) /\ end.n = d.n + s /\ (end.ok <=> d.ok /\ (s = 0 \/ d.n + s <= MaxLength))
    BY <2>3 DEF After
  <2>5. end.ok <=> d.n + s <= MaxLength
    BY <1>1, <2>1, <2>4, Maximum
  <2>6. c = JmpAbs(d, i, end)
    BY <1>3, <1>5
  <2> HIDE DEF c
  <2>7. /\ Good(c) /\ c.n = d.n + s
        /\ c.ok => end.ok
        /\ end.ok => (c.ok <=> ~IsJmpAbs(i) \/ d.n + 9 <= MaxLength)
    BY <1>1, <2>1, <2>4, <2>6, JmpAbsTold
  <2>8. IsJmpAbs(i) /\ ~d.address => s = 9
    <3> SUFFICES ASSUME IsJmpAbs(i), ~d.address PROVE s = 9
      OBVIOUS
    <3>1. ~d.vex /\ i.esc = "REX2" /\ i.m = 0 /\ i.op = "A1"
      BY <1>1 DEF IsJmpAbs, IsVex
    <3>2. e = CopyBytes1Address
      BY <3>1 DEF e, EntryOf, OneByte
    <3>3. e.mod = 0 /\ FixedSize(d, e) = 9
      BY <3>2 DEF CopyBytes1Address, Entry, FixedSize
    <3> QED BY <3>3 DEF s, Size
  <2>9. ~(IsJmpAbs(i) /\ d.address) => (c.ok <=> d.n + s <= MaxLength)
    BY <2>5, <2>7, <2>8
  <2>10. c.ok => d.n + s <= MaxLength
    BY <2>5, <2>7
  <2> QED BY <1>1, <1>5, <2>1, <2>7, <2>9, <2>10 DEF c, s, d, e
<1> QED BY <1>4, <1>5

-----------------------------------------------------------------------------
(* The entries agree with how long the processor takes an instruction to be. *)

\* What FixedSize finds for an entry that has its ModR/M byte at mod.
Is(d, e, fixed, mod) == FixedSize(d, e) = fixed /\ e.mod = mod /\ e # Invalid

LEMMA FixedSizes ==
  ASSUME NEW d
  PROVE  /\ Is(d, CopyBytes1, 1, 0)
         /\ Is(d, CopyBytes1Address, IF d.address THEN 5 ELSE 9, 0)
         /\ Is(d, CopyBytes2, 2, 0)
         /\ Is(d, CopyBytes2CantJump, 2, 0)
         /\ Is(d, CopyBytes3, 3, 0)
         /\ Is(d, CopyBytes3Or5, IF d.operand /\ ~d.rax /\ ~d.vex THEN 3 ELSE 5, 0)
         /\ Is(d, CopyBytes3Or5Rax,
               IF d.rax THEN 9 ELSE IF d.operand /\ ~d.vex THEN 3 ELSE 5, 0)
         /\ Is(d, CopyBytes3Or5Target, 5, 0)
         /\ Is(d, CopyBytes4, 4, 0)
         /\ Is(d, CopyBytes2Mod, 2, 1)
         /\ Is(d, CopyBytes2Mod1, 3, 1)
         /\ Is(d, CopyBytes2ModOperand, IF d.operand /\ ~d.rax /\ ~d.vex THEN 4 ELSE 6, 1)
         /\ Is(d, CopyBytes3Mod, 3, 2)
         /\ Is(d, CopyBytes3Mod1, 4, 2)
         /\ Is(d, CopyBytesXop, 5, 4)
         /\ Is(d, CopyBytesXop1, 6, 4)
         /\ Is(d, CopyBytesXop4, 9, 4)
         /\ Is(d, XBegin, IF d.operand /\ ~d.rax /\ ~d.vex THEN 4 ELSE 6, 0)
         /\ Is(d, Jump, 2, 0)
  BY DEF Is, FixedSize, Entry, Invalid, CopyBytes1, CopyBytes1Address, CopyBytes2, CopyBytes2CantJump, CopyBytes3,
         CopyBytes3Or5, CopyBytes3Or5Rax, CopyBytes3Or5Target, CopyBytes4, CopyBytes2Mod,
         CopyBytes2Mod1, CopyBytes2ModOperand, CopyBytes3Mod, CopyBytes3Mod1, CopyBytesXop,
         CopyBytesXop1, CopyBytesXop4, XBegin, Jump

\* The entry of an instruction has the size that the processor finds from the opcode on.
Measured(d, i) ==
  LET e == EntryOf(d, i) IN
    /\ e # Invalid
    /\ Lead(i) + FixedSize(d, e)
         = OpcodeBytes(i) + ImmediateBytes(i) + (IF HasModRm(i) THEN 1 ELSE 0)
    /\ e.mod = 0 => ~HasModRm(i) \/ i.rm = "reg"
    /\ e.mod # 0 => HasModRm(i)
    /\ OpcodeBytes(i) \in Nat /\ ImmediateBytes(i) \in Nat

\* For instructions without ModR/M byte.
LEMMA FittingPlain ==
  ASSUME NEW d, NEW i, ~HasModRm(i), NEW e, EntryOf(d, i) = e, NEW fixed \in Nat, Is(d, e, fixed, 0),
         NEW imm \in Nat, ImmediateBytes(i) = imm,
         Lead(i) \in Nat, OpcodeBytes(i) \in Nat, Lead(i) + fixed = OpcodeBytes(i) + imm
  PROVE  Measured(d, i)
<1>1. FixedSize(d, e) = fixed /\ e.mod = 0 /\ e # Invalid
  BY DEF Is
<1>2. Lead(i) + fixed = OpcodeBytes(i) + imm + 0
  OBVIOUS
<1> QED BY <1>1, <1>2, Zenon DEF Measured

\* For those with one.
LEMMA FittingModRm ==
  ASSUME NEW d, NEW i, HasModRm(i), NEW e, EntryOf(d, i) = e, NEW fixed \in Nat, NEW mod,
         Is(d, e, fixed, mod), mod # 0 \/ i.rm = "reg",
         NEW imm \in Nat, ImmediateBytes(i) = imm,
         Lead(i) \in Nat, OpcodeBytes(i) \in Nat, Lead(i) + fixed = OpcodeBytes(i) + imm + 1
  PROVE  Measured(d, i)
<1>1. FixedSize(d, e) = fixed /\ e.mod = mod /\ e # Invalid
  BY DEF Is
<1> QED BY <1>1, Zenon DEF Measured

\* Map 0, but for XOP.
LEMMA OneByteMeasured ==
  ASSUME NEW i \in Instructions, NEW d, ToldAll(d, i), ~d.vex,
         i.esc = "none" \/ (i.esc = "REX2" /\ i.m = 0), ~IsXop(i), i.op \in OneByteOpcodes,
         i.op = "8F" => i.reg = 0 /\ i.esc = "none",
         i.op = "FF" => i.reg # 7,
         i.op = "C7" => i.reg = 0 \/ (i.reg = 7 /\ i.rm = "reg")
  PROVE  Measured(d, i)
<1> DEFINE operand == IF d.operand /\ ~d.rax THEN 2 ELSE 4
           address == IF d.address THEN 4 ELSE 8
           rax == IF d.rax THEN 8 ELSE operand
<1>1. MapOf(i) = 0 /\ MapOf(i) \notin {1, 3, 5} /\ EntryOf(d, i) = OneByte(i) /\ i.esc # "0F"
  <2>1. MapOf(i) = 0
    BY DEF MapOf
  <2> QED BY <2>1 DEF EntryOf
<1>2. /\ Lead(i) \in Nat /\ OpcodeBytes(i) \in Nat /\ OpcodeBytes(i) = Lead(i) + 1
  <2>1. CASE i.esc = "none"
    <3>1. Lead(i) = 0 /\ OpcodeBytes(i) = 1
      BY <2>1 DEF Lead, OpcodeBytes
    <3> QED BY <3>1
  <2>2. CASE i.esc = "REX2"
    <3>1. Lead(i) = 2 /\ OpcodeBytes(i) = 3
      BY <2>2 DEF Lead, OpcodeBytes
    <3> QED BY <3>1
  <2> QED BY <2>1, <2>2
<1>3. HasModRm(i) <=> i.op \in {"8B", "83", "81", "F6", "F7", "C7", "FF", "8F"}
  BY <1>1 DEF HasModRm
<1>4. /\ OperandBytes(i) = operand
      /\ (IF Wide(i) THEN 8 ELSE OperandBytes(i)) = rax
      /\ (IF Has(i, "67") THEN 4 ELSE 8) = address
  BY DEF OperandBytes, ToldAll
<1>n. operand \in Nat /\ address \in Nat /\ rax \in Nat /\ 1 # 0
  OBVIOUS
<1>5. /\ Is(d, CopyBytes1Address, 1 + address, 0)
      /\ Is(d, CopyBytes3Or5, 1 + operand, 0)
      /\ Is(d, CopyBytes3Or5Rax, 1 + rax, 0)
      /\ Is(d, CopyBytes2ModOperand, 2 + operand, 1)
      /\ Is(d, XBegin, 2 + operand, 0)
  BY FixedSizes
<1> HIDE DEF operand, address, rax
<1>6. ASSUME ~HasModRm(i), NEW e, OneByte(i) = e, NEW imm \in Nat, ImmediateBytes(i) = imm,
             NEW fixed, fixed = 1 + imm, Is(d, e, fixed, 0)
      PROVE  Measured(d, i)
  <2>1. Lead(i) + fixed = OpcodeBytes(i) + imm /\ fixed \in Nat
    BY <1>2, <1>6
  <2> QED BY <1>1, <1>2, <1>6, <2>1, FittingPlain, Zenon
<1>7. ASSUME HasModRm(i), NEW e, OneByte(i) = e, NEW imm \in Nat, ImmediateBytes(i) = imm,
             NEW fixed, fixed = 2 + imm, NEW mod, Is(d, e, fixed, mod), mod # 0 \/ i.rm = "reg"
      PROVE  Measured(d, i)
  <2>1. Lead(i) + fixed = OpcodeBytes(i) + imm + 1 /\ fixed \in Nat
    BY <1>2, <1>7
  <2> QED BY <1>1, <1>2, <1>7, <2>1, FittingModRm, Zenon
<1>m. ASSUME HasModRm(i), NEW e, OneByte(i) = e, NEW imm \in Nat, ImmediateBytes(i) = imm,
             NEW fixed, fixed = 2 + imm, Is(d, e, fixed, 1)
      PROVE  Measured(d, i)
  <2>1. 1 # 0 \/ i.rm = "reg"
    OBVIOUS
  <2> QED BY <1>7, <1>m, <2>1, Zenon
<1>8. CASE i.op \in {"90", "C3", "CC"}
  <2>1. OneByte(i) = CopyBytes1
    BY <1>8, Zenon DEF OneByte
  <2>2. ImmediateBytes(i) = 0
    BY <1>8, <1>1, Zenon DEF ImmediateBytes
  <2>3. ~HasModRm(i)
    BY <1>8, <1>3
  <2>4. Is(d, CopyBytes1, 1, 0)
    BY FixedSizes
  <2>5. 0 \in Nat /\ 1 = 1 + 0
    OBVIOUS
  <2> QED BY <1>6, <2>1, <2>2, <2>3, <2>4, <2>5
<1>9. CASE i.op \in {"6A", "E0", "74", "EB"}
  <2>1. OneByte(i) \in {CopyBytes2, CopyBytes2CantJump, Jump}
    BY <1>9, Zenon DEF OneByte
  <2>2. ImmediateBytes(i) = 1
    BY <1>9, <1>1, Zenon DEF ImmediateBytes
  <2>3. ~HasModRm(i)
    BY <1>9, <1>3
  <2>4. Is(d, CopyBytes2, 2, 0) /\ Is(d, CopyBytes2CantJump, 2, 0) /\ Is(d, Jump, 2, 0)
    BY FixedSizes
  <2>5. 1 \in Nat /\ 2 = 1 + 1
    OBVIOUS
  <2> QED BY <1>6, <2>1, <2>2, <2>3, <2>4, <2>5
<1>10. CASE i.op = "C2"
  <2>1. OneByte(i) = CopyBytes3
    BY <1>10, Zenon DEF OneByte
  <2>2. ImmediateBytes(i) = 2
    BY <1>10, <1>1, Zenon DEF ImmediateBytes
  <2>3. ~HasModRm(i)
    BY <1>10, <1>3
  <2>4. Is(d, CopyBytes3, 3, 0)
    BY FixedSizes
  <2>5. 2 \in Nat /\ 3 = 1 + 2
    OBVIOUS
  <2> QED BY <1>6, <2>1, <2>2, <2>3, <2>4, <2>5
<1>11. CASE i.op = "C8"
  <2>1. OneByte(i) = CopyBytes4
    BY <1>11, Zenon DEF OneByte
  <2>2. ImmediateBytes(i) = 3
    BY <1>11, <1>1, Zenon DEF ImmediateBytes
  <2>3. ~HasModRm(i)
    BY <1>11, <1>3
  <2>4. Is(d, CopyBytes4, 4, 0)
    BY FixedSizes
  <2>5. 3 \in Nat /\ 4 = 1 + 3
    OBVIOUS
  <2> QED BY <1>6, <2>1, <2>2, <2>3, <2>4, <2>5
<1>12. CASE i.op \in {"E8", "E9"}
  <2>1. OneByte(i) = CopyBytes3Or5Target
    BY <1>12, Zenon DEF OneByte
  <2>2. ImmediateBytes(i) = 4
    BY <1>12, <1>1, Zenon DEF ImmediateBytes
  <2>3. ~HasModRm(i)
    BY <1>12, <1>3
  <2>4. Is(d, CopyBytes3Or5Target, 5, 0)
    BY FixedSizes
  <2>5. 4 \in Nat /\ 5 = 1 + 4
    OBVIOUS
  <2> QED BY <1>6, <2>1, <2>2, <2>3, <2>4, <2>5
<1>13. CASE i.op = "A1"
  <2>1. OneByte(i) = CopyBytes1Address
    BY <1>13, Zenon DEF OneByte
  <2>2. ImmediateBytes(i) = address
    BY <1>13, <1>1, <1>4, Zenon DEF ImmediateBytes
  <2>3. ~HasModRm(i)
    BY <1>13, <1>3
  <2> QED BY <1>n, <1>5, <1>6, <2>1, <2>2, <2>3
<1>14. CASE i.op = "A9"
  <2>1. OneByte(i) = CopyBytes3Or5
    BY <1>14, Zenon DEF OneByte
  <2>2. ImmediateBytes(i) = operand
    BY <1>14, <1>1, <1>4, Zenon DEF ImmediateBytes
  <2>3. ~HasModRm(i)
    BY <1>14, <1>3
  <2> QED BY <1>n, <1>5, <1>6, <2>1, <2>2, <2>3
<1>15. CASE i.op = "B8"
  <2>1. OneByte(i) = CopyBytes3Or5Rax
    BY <1>15, Zenon DEF OneByte
  <2>2. ImmediateBytes(i) = rax
    BY <1>15, <1>1, <1>4, Zenon DEF ImmediateBytes
  <2>3. ~HasModRm(i)
    BY <1>15, <1>3
  <2> QED BY <1>n, <1>5, <1>6, <2>1, <2>2, <2>3
<1>16. CASE i.op \in {"8B", "FF"}
  <2>1. OneByte(i) = CopyBytes2Mod
    BY <1>16, Zenon DEF OneByte, CopyFF
  <2>2. ImmediateBytes(i) = 0
    BY <1>16, <1>1, Zenon DEF ImmediateBytes
  <2>3. HasModRm(i)
    BY <1>16, <1>3
  <2>4. Is(d, CopyBytes2Mod, 2, 1)
    BY FixedSizes
  <2>5. 0 \in Nat /\ 2 = 2 + 0
    OBVIOUS
  <2> QED BY <1>m, <2>1, <2>2, <2>3, <2>4, <2>5
<1>17. CASE i.op = "8F" /\ i.m \notin {8, 9, 10}
  <2>1. OneByte(i) = CopyBytes2Mod
    BY <1>17, Zenon DEF OneByte, CopyXop
  <2>2. ImmediateBytes(i) = 0
    BY <1>17, <1>1, Zenon DEF ImmediateBytes
  <2>3. HasModRm(i)
    BY <1>17, <1>3
  <2>4. Is(d, CopyBytes2Mod, 2, 1)
    BY FixedSizes
  <2>5. 0 \in Nat /\ 2 = 2 + 0
    OBVIOUS
  <2> QED BY <1>m, <2>1, <2>2, <2>3, <2>4, <2>5
<1>18. CASE i.op = "83"
  <2>1. OneByte(i) = CopyBytes2Mod1
    BY <1>18, Zenon DEF OneByte
  <2>2. ImmediateBytes(i) = 1
    BY <1>18, <1>1, Zenon DEF ImmediateBytes
  <2>3. HasModRm(i)
    BY <1>18, <1>3
  <2>4. Is(d, CopyBytes2Mod1, 3, 1)
    BY FixedSizes
  <2>5. 1 \in Nat /\ 3 = 2 + 1
    OBVIOUS
  <2> QED BY <1>m, <2>1, <2>2, <2>3, <2>4, <2>5
<1>19. CASE i.op = "81"
  <2>1. OneByte(i) = CopyBytes2ModOperand
    BY <1>19, Zenon DEF OneByte
  <2>2. ImmediateBytes(i) = operand
    BY <1>19, <1>1, <1>4, Zenon DEF ImmediateBytes
  <2>3. HasModRm(i)
    BY <1>19, <1>3
  <2> QED BY <1>n, <1>5, <1>m, <2>1, <2>2, <2>3, Zenon
<1>20. CASE i.op = "F6" /\ i.reg \in {0, 1}
  <2>1. OneByte(i) = CopyBytes2Mod1
    BY <1>20, Zenon DEF OneByte, CopyF6
  <2>2. ImmediateBytes(i) = 1
    BY <1>20, <1>1, Zenon DEF ImmediateBytes
  <2>3. HasModRm(i)
    BY <1>20, <1>3
  <2>4. Is(d, CopyBytes2Mod1, 3, 1)
    BY FixedSizes
  <2>5. 1 \in Nat /\ 3 = 2 + 1
    OBVIOUS
  <2> QED BY <1>m, <2>1, <2>2, <2>3, <2>4, <2>5
<1>21. CASE i.op = "F7" /\ i.reg \in {0, 1}
  <2>1. OneByte(i) = CopyBytes2ModOperand
    BY <1>21, Zenon DEF OneByte, CopyF7
  <2>2. ImmediateBytes(i) = operand
    BY <1>21, <1>1, <1>4, Zenon DEF ImmediateBytes
  <2>3. HasModRm(i)
    BY <1>21, <1>3
  <2> QED BY <1>n, <1>5, <1>m, <2>1, <2>2, <2>3, Zenon
<1>22. CASE i.op \in {"F6", "F7"} /\ i.reg \notin {0, 1}
  <2>1. OneByte(i) = CopyBytes2Mod
    BY <1>22, Zenon DEF OneByte, CopyF6, CopyF7
  <2>2. ImmediateBytes(i) = 0
    BY <1>22, <1>1, Zenon DEF ImmediateBytes
  <2>3. HasModRm(i)
    BY <1>22, <1>3
  <2>4. Is(d, CopyBytes2Mod, 2, 1)
    BY FixedSizes
  <2>5. 0 \in Nat /\ 2 = 2 + 0
    OBVIOUS
  <2> QED BY <1>m, <2>1, <2>2, <2>3, <2>4, <2>5
<1>23. CASE i.op = "C7" /\ i.reg # 7
  <2>1. OneByte(i) = CopyBytes2ModOperand
    BY <1>23, Zenon DEF OneByte, CopyC7
  <2>2. ImmediateBytes(i) = operand
    BY <1>23, <1>1, <1>4, Zenon DEF ImmediateBytes
  <2>3. HasModRm(i)
    BY <1>23, <1>3
  <2> QED BY <1>n, <1>5, <1>m, <2>1, <2>2, <2>3, Zenon
<1>24. CASE i.op = "C7" /\ i.reg = 7 /\ i.rm = "reg"
  <2>1. OneByte(i) = XBegin
    BY <1>24, Zenon DEF OneByte, CopyC7
  <2>2. ImmediateBytes(i) = operand
    BY <1>24, <1>1, <1>4, Zenon DEF ImmediateBytes
  <2>3. HasModRm(i)
    BY <1>24, <1>3
  <2> QED BY <1>n, <1>5, <1>7, <2>1, <2>2, <2>3, <1>24, Zenon
<1>25. /\ i.op = "8F" => i.m \notin {8, 9, 10}
       /\ i.op = "C7" => i.reg # 7 \/ (i.reg = 7 /\ i.rm = "reg")
  BY DEF IsXop
<1> QED BY <1>25, <1>8, <1>9, <1>10, <1>11, <1>12, <1>13, <1>14, <1>15, <1>16, <1>17, <1>18, <1>19, <1>20, <1>21, <1>22, <1>23, <1>24 DEF OneByteOpcodes

\* For opcodes of one byte after what leads to their map.
LEMMA FittingPlain1 ==
  ASSUME NEW d, NEW i, ~HasModRm(i), NEW e, EntryOf(d, i) = e,
         NEW imm \in Nat, ImmediateBytes(i) = imm, NEW fixed, fixed = 1 + imm, Is(d, e, fixed, 0),
         Lead(i) \in Nat, OpcodeBytes(i) = Lead(i) + 1
  PROVE  Measured(d, i)
<1>1. fixed \in Nat /\ OpcodeBytes(i) \in Nat /\ Lead(i) + fixed = OpcodeBytes(i) + imm
  OBVIOUS
<1> QED BY <1>1, FittingPlain, Zenon

LEMMA FittingModRm1 ==
  ASSUME NEW d, NEW i, HasModRm(i), NEW e, EntryOf(d, i) = e,
         NEW imm \in Nat, ImmediateBytes(i) = imm, NEW fixed, fixed = 2 + imm, Is(d, e, fixed, 1),
         Lead(i) \in Nat, OpcodeBytes(i) = Lead(i) + 1
  PROVE  Measured(d, i)
<1>1. fixed \in Nat /\ OpcodeBytes(i) \in Nat /\ Lead(i) + fixed = OpcodeBytes(i) + imm + 1
  OBVIOUS
<1>2. 1 # 0 \/ i.rm = "reg"
  OBVIOUS
<1> QED BY <1>1, <1>2, FittingModRm, Zenon

\* Map 1.
LEMMA TwoByteMeasured ==
  ASSUME NEW i \in Instructions, NEW d, ToldAll(d, i), ~d.vex,
         i.esc = "0F" \/ (i.esc = "REX2" /\ i.m = 1 /\ i.op # "78"),
         i.op \in TwoByteOpcodes \ {"38", "3A"},
         i.op = "78" /\ (Has(i, "66") \/ Has(i, "F2")) => i.rm = "reg"
  PROVE  Measured(d, i)
<1>1. /\ MapOf(i) = 1 /\ MapOf(i) \notin {0, 3} /\ EntryOf(d, i) = TwoByte(d, i) /\ i.esc # "none"
      /\ ~IsXop(i)
  <2>1. MapOf(i) = 1
    BY DEF MapOf
  <2> QED BY <2>1 DEF EntryOf, IsXop
<1>2. Lead(i) \in Nat /\ OpcodeBytes(i) = Lead(i) + 1
  <2>1. CASE i.esc = "0F"
    <3>1. Lead(i) = 1 /\ OpcodeBytes(i) = 2
      BY <1>1, <2>1 DEF Lead, OpcodeBytes
    <3> QED BY <3>1
  <2>2. CASE i.esc = "REX2"
    <3>1. Lead(i) = 2 /\ OpcodeBytes(i) = 3
      BY <1>1, <2>2 DEF Lead, OpcodeBytes
    <3> QED BY <3>1
  <2> QED BY <2>1, <2>2
<1>3. HasModRm(i) <=> i.op \notin {"05", "37", "77", "85"}
  <2>1. MapOf(i) \notin {0, 2, 3, 6} /\ MapOf(i) \in {1, 5}
    BY <1>1
  <2> QED BY <2>1, Zenon DEF HasModRm
<1>4. /\ d.operand <=> Has(i, "66")
      /\ d.f2 <=> Has(i, "F2")
  BY DEF ToldAll
<1>5. CASE i.op \in {"05", "37", "77"}
  <2>1. EntryOf(d, i) = CopyBytes1
    BY <1>1, <1>5, Zenon DEF TwoByte
  <2>2. ImmediateBytes(i) = 0
    BY <1>1, <1>5, Zenon DEF ImmediateBytes
  <2>3. ~HasModRm(i)
    BY <1>5, <1>3
  <2>4. Is(d, CopyBytes1, 1, 0)
    BY FixedSizes
  <2>5. 0 \in Nat /\ 1 = 1 + 0
    OBVIOUS
  <2> QED BY <1>2, <2>1, <2>2, <2>3, <2>4, <2>5, FittingPlain1, Zenon
<1>6. CASE i.op = "85"
  <2>1. EntryOf(d, i) = CopyBytes3Or5Target
    BY <1>1, <1>6, Zenon DEF TwoByte
  <2>2. ImmediateBytes(i) = 4
    BY <1>1, <1>6, Zenon DEF ImmediateBytes
  <2>3. ~HasModRm(i)
    BY <1>6, <1>3
  <2>4. Is(d, CopyBytes3Or5Target, 5, 0)
    BY FixedSizes
  <2>5. 4 \in Nat /\ 5 = 1 + 4
    OBVIOUS
  <2> QED BY <1>2, <2>1, <2>2, <2>3, <2>4, <2>5, FittingPlain1, Zenon
<1>7. CASE i.op \in {"10", "B6"}
  <2>1. EntryOf(d, i) = CopyBytes2Mod
    BY <1>1, <1>7, Zenon DEF TwoByte
  <2>2. ImmediateBytes(i) = 0
    BY <1>1, <1>7, Zenon DEF ImmediateBytes
  <2>3. HasModRm(i)
    BY <1>7, <1>3
  <2>4. Is(d, CopyBytes2Mod, 2, 1)
    BY FixedSizes
  <2>5. 0 \in Nat /\ 2 = 2 + 0
    OBVIOUS
  <2> QED BY <1>2, <2>1, <2>2, <2>3, <2>4, <2>5, FittingModRm1, Zenon
<1>8. CASE i.op \in {"A4", "C2"}
  <2>1. EntryOf(d, i) = CopyBytes2Mod1
    BY <1>1, <1>8, Zenon DEF TwoByte
  <2>2. ImmediateBytes(i) = 1
    BY <1>1, <1>8, Zenon DEF ImmediateBytes
  <2>3. HasModRm(i)
    BY <1>8, <1>3
  <2>4. Is(d, CopyBytes2Mod1, 3, 1)
    BY FixedSizes
  <2>5. 1 \in Nat /\ 3 = 2 + 1
    OBVIOUS
  <2> QED BY <1>2, <2>1, <2>2, <2>3, <2>4, <2>5, FittingModRm1, Zenon
<1>9. CASE i.op = "78" /\ ~(Has(i, "66") \/ Has(i, "F2"))
  <2>1. EntryOf(d, i) = CopyBytes2Mod
    BY <1>1, <1>9, <1>4, Zenon DEF TwoByte, Copy0F78
  <2>2. ImmediateBytes(i) = 0
    BY <1>1, <1>9, Zenon DEF ImmediateBytes
  <2>3. HasModRm(i)
    BY <1>9, <1>3
  <2>4. Is(d, CopyBytes2Mod, 2, 1)
    BY FixedSizes
  <2>5. 0 \in Nat /\ 2 = 2 + 0
    OBVIOUS
  <2> QED BY <1>2, <2>1, <2>2, <2>3, <2>4, <2>5, FittingModRm1, Zenon
<1>10. CASE i.op = "78" /\ (Has(i, "66") \/ Has(i, "F2"))
  <2>1. EntryOf(d, i) = CopyBytes4 /\ i.esc = "0F" /\ i.rm = "reg"
    BY <1>1, <1>4, <1>10, Zenon DEF TwoByte, Copy0F78
  <2>2. ImmediateBytes(i) = 2
    BY <1>1, <1>10, <2>1, Zenon DEF ImmediateBytes
  <2>3. HasModRm(i)
    BY <1>3, <1>10
  <2>4. Is(d, CopyBytes4, 4, 0)
    BY FixedSizes
  <2>5. 2 \in Nat /\ 4 \in Nat /\ OpcodeBytes(i) \in Nat /\ Lead(i) + 4 = OpcodeBytes(i) + 2 + 1
    BY <1>2
  <2> QED BY <1>2, <2>1, <2>2, <2>3, <2>4, <2>5, FittingModRm, Zenon
<1> QED BY <1>5, <1>6, <1>7, <1>8, <1>9, <1>10 DEF TwoByteOpcodes

\* The opcodes of three bytes, 0F 38 and 0F 3A.
LEMMA ThreeByteMeasured ==
  ASSUME NEW i \in Instructions, NEW d, ~d.vex, i.esc = "0F", i.op \in {"38", "3A"}
  PROVE  Measured(d, i)
<1>1. EntryOf(d, i) = TwoByte(d, i) /\ ~IsXop(i) /\ Lead(i) = 1
  BY DEF EntryOf, IsXop, Lead
<1>2. CASE i.op = "38"
  <2>1. MapOf(i) = 2 /\ MapOf(i) \notin {0, 1, 3, 5}
    <3>1. MapOf(i) = 2
      BY <1>2 DEF MapOf
    <3> QED BY <3>1
  <2>2. EntryOf(d, i) = CopyBytes3Mod
    BY <1>1, <1>2, Zenon DEF TwoByte
  <2>3. ImmediateBytes(i) = 0
    BY <1>1, <1>2, <2>1, Zenon DEF ImmediateBytes
  <2>4. HasModRm(i) /\ OpcodeBytes(i) = 3
    BY <1>1, <2>1 DEF HasModRm, OpcodeBytes
  <2>5. Is(d, CopyBytes3Mod, 3, 2) /\ (2 # 0 \/ i.rm = "reg")
    BY FixedSizes
  <2>6. /\ 0 \in Nat /\ 3 \in Nat /\ Lead(i) \in Nat /\ OpcodeBytes(i) \in Nat
        /\ Lead(i) + 3 = OpcodeBytes(i) + 0 + 1
    BY <1>1, <2>4
  <2> QED BY <2>2, <2>3, <2>4, <2>5, <2>6, FittingModRm, Zenon
<1>3. CASE i.op = "3A"
  <2>1. MapOf(i) = 3 /\ MapOf(i) \notin {0, 1, 5}
    <3>1. MapOf(i) = 3
      BY <1>3 DEF MapOf
    <3> QED BY <3>1
  <2>2. EntryOf(d, i) = CopyBytes3Mod1
    BY <1>1, <1>3, Zenon DEF TwoByte
  <2>3. ImmediateBytes(i) = 1
    BY <1>1, <1>3, <2>1, Zenon DEF ImmediateBytes
  <2>4. HasModRm(i) /\ OpcodeBytes(i) = 3
    BY <1>1, <2>1 DEF HasModRm, OpcodeBytes
  <2>5. Is(d, CopyBytes3Mod1, 4, 2) /\ (2 # 0 \/ i.rm = "reg")
    BY FixedSizes
  <2>6. /\ 1 \in Nat /\ 4 \in Nat /\ Lead(i) \in Nat /\ OpcodeBytes(i) \in Nat
        /\ Lead(i) + 4 = OpcodeBytes(i) + 1 + 1
    BY <1>1, <2>4
  <2> QED BY <2>2, <2>3, <2>4, <2>5, <2>6, FittingModRm, Zenon
<1> QED BY <1>2, <1>3

\* XOP.
LEMMA XopMeasured ==
  ASSUME NEW i \in Instructions, NEW d, ~d.vex, IsXop(i)
  PROVE  Measured(d, i)
<1>1. i.esc = "none" /\ i.op = "8F" /\ MapOf(i) = 0 /\ i.m \in {8, 9, 10}
  BY DEF IsXop, MapOf
<1>2. EntryOf(d, i) = CopyXop(i)
  <2>1. EntryOf(d, i) = OneByte(i)
    BY <1>1 DEF EntryOf
  <2> QED BY <1>1, <2>1, Zenon DEF OneByte
<1>3. HasModRm(i) /\ Lead(i) = 0 /\ OpcodeBytes(i) = 4
  <2>1. HasModRm(i)
    BY <1>1 DEF HasModRm
  <2>2. Lead(i) = 0
    BY <1>1 DEF Lead
  <2>3. OpcodeBytes(i) = 4
    BY <1>1 DEF OpcodeBytes
  <2> QED BY <2>1, <2>2, <2>3
<1> DEFINE imm == CASE i.m = 8 -> 1 [] i.m = 9 -> 0 [] i.m = 10 -> 4
<1>4. ImmediateBytes(i) = imm
  <2>1. MapOf(i) \notin {1, 3, 5} /\ i.esc # "0F"
    BY <1>1
  <2> HIDE DEF imm
  <2>2. ~(i.op \in {"6A", "83", "E0", "74", "EB"}) /\ ~(i.op \in {"E8", "E9"})
        /\ ~(i.op \in {"A9", "81", "C7"})
    BY <1>1
  <2> QED BY <1>1, <2>1, <2>2, Zenon DEF ImmediateBytes, imm
<1>5. ASSUME NEW e, CopyXop(i) = e, NEW n \in Nat, imm = n, NEW fixed, fixed = 5 + n, Is(d, e, fixed, 4)
      PROVE  Measured(d, i)
  <2>1. /\ fixed \in Nat /\ Lead(i) \in Nat /\ OpcodeBytes(i) \in Nat
        /\ Lead(i) + fixed = OpcodeBytes(i) + n + 1
        /\ 4 # 0 \/ i.rm = "reg"
    BY <1>3, <1>5
  <2>2. ImmediateBytes(i) = n
    BY <1>4, <1>5
  <2> QED BY <1>2, <1>3, <1>5, <2>1, <2>2, FittingModRm, Zenon
<1> HIDE DEF imm
<1>6. CASE i.m = 8
  <2>1. CopyXop(i) = CopyBytesXop1 /\ imm = 1
    BY <1>6 DEF CopyXop, imm
  <2>2. Is(d, CopyBytesXop1, 6, 4) /\ 6 = 5 + 1 /\ 1 \in Nat
    BY FixedSizes
  <2> QED BY <1>5, <2>1, <2>2
<1>7. CASE i.m = 9
  <2>1. CopyXop(i) = CopyBytesXop /\ imm = 0
    BY <1>7 DEF CopyXop, imm
  <2>2. Is(d, CopyBytesXop, 5, 4) /\ 5 = 5 + 0 /\ 0 \in Nat
    BY FixedSizes
  <2> QED BY <1>5, <2>1, <2>2
<1>8. CASE i.m = 10
  <2>1. CopyXop(i) = CopyBytesXop4 /\ imm = 4
    BY <1>8 DEF CopyXop, imm
  <2>2. Is(d, CopyBytesXop4, 9, 4) /\ 9 = 5 + 4 /\ 4 \in Nat
    BY FixedSizes
  <2> QED BY <1>5, <2>1, <2>2
<1> QED BY <1>1, <1>6, <1>7, <1>8

\* VEX and EVEX.
LEMMA VexMeasured ==
  ASSUME NEW i \in Instructions, NEW d, d.vex = TRUE,
         \/ /\ i.esc \in {"VEX2", "VEX3"}
            /\ (i.m = 1 /\ i.op \in {"10", "77", "C2"}) \/ i.m \in {2, 3}
         \/ /\ i.esc = "EVEX"
            /\ (i.m \in {1, 5} /\ i.op \in {"10", "78", "C2"}) \/ i.m \in {2, 3, 6}
  PROVE  Measured(d, i)
<1>1. /\ EntryOf(d, i) = Vex(d, i) /\ MapOf(i) = i.m /\ ~IsXop(i)
      /\ i.esc # "none" /\ i.esc # "0F"
  BY DEF EntryOf, MapOf, IsXop
<1>2. Lead(i) \in Nat /\ OpcodeBytes(i) = Lead(i) + 1
  <2>1. CASE i.esc = "VEX2"
    <3>1. Lead(i) = 2 /\ OpcodeBytes(i) = 3
      BY <1>1, <2>1 DEF Lead, OpcodeBytes
    <3> QED BY <3>1
  <2>2. CASE i.esc = "VEX3"
    <3>1. Lead(i) = 3 /\ OpcodeBytes(i) = 4
      BY <1>1, <2>2 DEF Lead, OpcodeBytes
    <3> QED BY <3>1
  <2>3. CASE i.esc = "EVEX"
    <3>1. Lead(i) = 4 /\ OpcodeBytes(i) = 5
      BY <1>1, <2>3 DEF Lead, OpcodeBytes
    <3> QED BY <3>1
  <2> QED BY <2>1, <2>2, <2>3
<1>3. CASE i.m \in {1, 5}
  <2>1. /\ i.m \notin {0, 2, 3, 6} /\ i.m # 2 /\ i.m # 3 /\ i.m # 6
        /\ i.esc = "EVEX" \/ i.m = 1
        /\ i.op \in {"10", "77", "78", "C2"}
        /\ i.op = "78" => i.esc = "EVEX"
    BY <1>3
  <2>2. HasModRm(i) <=> i.op # "77"
    BY <1>1, <1>3, <2>1, Zenon DEF HasModRm
  <2>3. CASE i.op = "10"
    <3>1. EntryOf(d, i) = CopyBytes2Mod
      BY <1>1, <1>3, <2>1, <2>3, Zenon DEF Vex, TwoByte
    <3>2. ImmediateBytes(i) = 0
      BY <1>1, <1>3, <2>1, <2>3, Zenon DEF ImmediateBytes
    <3>3. HasModRm(i)
      BY <2>2, <2>3
    <3>4. Is(d, CopyBytes2Mod, 2, 1) /\ 0 \in Nat /\ 2 = 2 + 0
      BY FixedSizes
    <3> QED BY <1>2, <3>1, <3>2, <3>3, <3>4, FittingModRm1, Zenon
  <2>4. CASE i.op = "C2"
    <3>1. EntryOf(d, i) = CopyBytes2Mod1
      BY <1>1, <1>3, <2>1, <2>4, Zenon DEF Vex, TwoByte
    <3>2. ImmediateBytes(i) = 1
      BY <1>1, <1>3, <2>1, <2>4, Zenon DEF ImmediateBytes
    <3>3. HasModRm(i)
      BY <2>2, <2>4
    <3>4. Is(d, CopyBytes2Mod1, 3, 1) /\ 1 \in Nat /\ 3 = 2 + 1
      BY FixedSizes
    <3> QED BY <1>2, <3>1, <3>2, <3>3, <3>4, FittingModRm1, Zenon
  <2>5. CASE i.op = "77"
    <3>1. EntryOf(d, i) = CopyBytes1
      BY <1>1, <1>3, <2>1, <2>5, Zenon DEF Vex, TwoByte
    <3>2. ImmediateBytes(i) = 0
      BY <1>1, <1>3, <2>1, <2>5, Zenon DEF ImmediateBytes
    <3>3. ~HasModRm(i)
      BY <2>2, <2>5
    <3>4. Is(d, CopyBytes1, 1, 0) /\ 0 \in Nat /\ 1 = 1 + 0
      BY FixedSizes
    <3> QED BY <1>2, <3>1, <3>2, <3>3, <3>4, FittingPlain1, Zenon
  <2>6. CASE i.op = "78"
    <3>1. EntryOf(d, i) = CopyBytes2Mod
      BY <1>1, <1>3, <2>1, <2>6, Zenon DEF Vex
    <3>2. ImmediateBytes(i) = 0
      BY <1>1, <1>3, <2>1, <2>6, Zenon DEF ImmediateBytes
    <3>3. HasModRm(i)
      BY <2>2, <2>6
    <3>4. Is(d, CopyBytes2Mod, 2, 1) /\ 0 \in Nat /\ 2 = 2 + 0
      BY FixedSizes
    <3> QED BY <1>2, <3>1, <3>2, <3>3, <3>4, FittingModRm1, Zenon
  <2> QED BY <2>1, <2>3, <2>4, <2>5, <2>6
<1>4. CASE i.m = 2 \/ (i.m = 6 /\ i.esc = "EVEX")
  <2>1. i.m \notin {0, 1, 3, 5}
    BY <1>4
  <2>2. EntryOf(d, i) = CopyBytes2Mod
    BY <1>1, <1>4, <2>1, Zenon DEF Vex
  <2>3. ImmediateBytes(i) = 0
    BY <1>1, <1>4, <2>1, Zenon DEF ImmediateBytes
  <2>4. HasModRm(i)
    BY <1>1, <1>4 DEF HasModRm
  <2>5. Is(d, CopyBytes2Mod, 2, 1) /\ 0 \in Nat /\ 2 = 2 + 0
    BY FixedSizes
  <2> QED BY <1>2, <2>2, <2>3, <2>4, <2>5, FittingModRm1, Zenon
<1>5. CASE i.m = 3
  <2>1. i.m \notin {0, 1, 2, 5, 6}
    BY <1>5
  <2>2. EntryOf(d, i) = CopyBytes2Mod1
    BY <1>1, <1>5, <2>1, Zenon DEF Vex
  <2>3. ImmediateBytes(i) = 1
    BY <1>1, <1>5, <2>1, Zenon DEF ImmediateBytes
  <2>4. HasModRm(i)
    BY <1>1, <1>5 DEF HasModRm
  <2>5. Is(d, CopyBytes2Mod1, 3, 1) /\ 1 \in Nat /\ 3 = 2 + 1
    BY FixedSizes
  <2> QED BY <1>2, <2>2, <2>3, <2>4, <2>5, FittingModRm1, Zenon
<1> QED BY <1>3, <1>4, <1>5

\* Whatever instruction the processor knows, its entry has its size.
LEMMA LegalMeasured ==
  ASSUME NEW i \in Instructions, Legal(i), NEW d, ToldAll(d, i)
  PROVE  Measured(d, i)
<1>1. i.esc \in {"none", "0F", "REX2", "VEX2", "VEX3", "EVEX"}
  BY InstructionFacts
<1>2. d.vex \in BOOLEAN /\ (d.vex <=> IsVex(i))
  BY DEF ToldAll, Good, States
<1>3. CASE i.esc = "none"
  <2>1. ~d.vex
    BY <1>2, <1>3 DEF IsVex
  <2>2. /\ i.op \in OneByteOpcodes
        /\ i.op = "8F" /\ ~IsXop(i) => i.reg = 0
        /\ i.op = "FF" => i.reg # 7
        /\ i.op = "C7" => i.reg = 0 \/ (i.reg = 7 /\ i.rm = "reg")
    BY <1>3, Zenon DEF Legal
  <2> QED BY <1>3, <2>1, <2>2, OneByteMeasured, XopMeasured
<1>4. CASE i.esc = "0F"
  <2>1. ~d.vex
    BY <1>2, <1>4 DEF IsVex
  <2>2. /\ i.op \in TwoByteOpcodes
        /\ i.op = "78" /\ (Has(i, "66") \/ Has(i, "F2")) => i.rm = "reg"
    BY <1>4, Zenon DEF Legal
  <2>3. CASE i.op \in {"38", "3A"}
    BY <1>4, <2>1, <2>3, ThreeByteMeasured
  <2>4. CASE i.op \notin {"38", "3A"}
    <3>1. i.op \in TwoByteOpcodes \ {"38", "3A"}
      BY <2>2, <2>4
    <3> QED BY <1>4, <2>1, <2>2, <3>1, TwoByteMeasured
  <2> QED BY <2>3, <2>4
<1>5. CASE i.esc = "REX2"
  <2>1. ~d.vex
    BY <1>2, <1>5 DEF IsVex
  <2>2. /\ i.m = 0 => i.op \in {"8B", "83", "81", "B8", "A9", "A1"}
        /\ i.m = 1 => i.op \in {"10", "B6", "A4"}
        /\ i.m \in {0, 1}
    BY <1>5, Zenon DEF Legal
  <2>3. CASE i.m = 0
    <3>1. ~IsXop(i) /\ i.op \in OneByteOpcodes /\ i.op \notin {"8F", "FF", "C7"}
      BY <1>5, <2>2, <2>3 DEF IsXop, OneByteOpcodes
    <3> QED BY <1>5, <2>1, <2>3, <3>1, OneByteMeasured
  <2>4. CASE i.m = 1
    <3>1. i.op \in TwoByteOpcodes \ {"38", "3A"} /\ i.op # "78"
      BY <2>2, <2>4 DEF TwoByteOpcodes
    <3> QED BY <1>5, <2>1, <2>4, <3>1, TwoByteMeasured
  <2> QED BY <2>2, <2>3, <2>4
<1>6. CASE i.esc \in {"VEX2", "VEX3"}
  <2>1. d.vex = TRUE
    BY <1>2, <1>6 DEF IsVex
  <2>2. (i.m = 1 /\ i.op \in {"10", "77", "C2"}) \/ i.m \in {2, 3}
    BY <1>6, Zenon DEF Legal
  <2> QED BY <1>6, <2>1, <2>2, VexMeasured
<1>7. CASE i.esc = "EVEX"
  <2>1. d.vex = TRUE
    BY <1>2, <1>7 DEF IsVex
  <2>2. (i.m \in {1, 5} /\ i.op \in {"10", "78", "C2"}) \/ i.m \in {2, 3, 6}
    BY <1>7, Zenon DEF Legal
  <2> QED BY <1>7, <2>1, <2>2, VexMeasured
<1> QED BY <1>1, <1>3, <1>4, <1>5, <1>6, <1>7

\* The disassembler finds the end where the processor does.
LEMMA LegalEnd ==
  ASSUME NEW i \in Instructions, Legal(i)
  PROVE  LET c == CopyInstruction(i) IN
           /\ c.ok <=> Length(i) <= MaxLength
           /\ c.ok => c.n = Length(i)
<1> DEFINE d == AtOpcode(i)
           e == EntryOf(d, i)
           c == CopyInstruction(i)
           s == Size(d, e, i)
           L == Len(i.prefixes)
<1>1. ToldAll(d, i) /\ d.n = L + Lead(i) /\ (d.address <=> Has(i, "67"))
  BY AtOpcodeTold DEF ToldAll
<1>2. Measured(d, i) /\ e # Invalid /\ e \in Entries
  <2>1. Measured(d, i)
    BY <1>1, LegalMeasured
  <2> QED BY <2>1, EntryOfEntries DEF Measured
<1>3. /\ s \in Nat \ {0} /\ d.n \in Nat
      /\ c.n = d.n + s
      /\ ~(IsJmpAbs(i) /\ d.address) => (c.ok <=> d.n + s <= MaxLength)
  BY <1>2, InstructionTold
<1>4. ~(IsJmpAbs(i) /\ d.address)
  <2>1. IsJmpAbs(i) => ToSet(i.prefixes) \subseteq {"2E", "64"}
    BY Zenon DEF Legal, IsJmpAbs
  <2> QED BY <1>1, <2>1 DEF Has
<1>5. Length(i) = d.n + s
  <2> DEFINE m == ModRm(i.rm) + (IF i.rm = "sib base 5" THEN 4 ELSE 0)
             place == OperandPlace(i.rm)
             rest == OpcodeBytes(i) + ImmediateBytes(i)
  <2>1. m = place /\ place \in Nat /\ (i.rm = "reg" => place = 0)
    <3>1. m = place
      BY ModRmFacts
    <3> DEFINE base5 == IF i.rm = "sib base 5" THEN 4 ELSE 0
    <3>6. ModRm(i.rm) \in 0..5
      BY ModRmFacts
    <3>3. ModRm(i.rm) \in Nat /\ base5 \in Nat
      BY <3>6
    <3> HIDE DEF base5
    <3>4. ModRm(i.rm) + base5 \in Nat
      BY <3>3
    <3>5. m \in Nat
      BY <3>4 DEF base5
    <3>2. i.rm = "reg" => place = 0
      BY Zenon DEF OperandPlace
    <3> QED BY <3>1, <3>2, <3>5
  <2>2. s = FixedSize(d, e) + (IF e.mod = 0 THEN 0 ELSE m)
    BY DEF Size
  <2>3. /\ Lead(i) + FixedSize(d, e) = rest + (IF HasModRm(i) THEN 1 ELSE 0)
        /\ e.mod = 0 => ~HasModRm(i) \/ i.rm = "reg"
        /\ e.mod # 0 => HasModRm(i)
    BY <1>2 DEF Measured
  <2>4. Length(i) = L + OpcodeBytes(i) + ImmediateBytes(i) + (IF HasModRm(i) THEN 1 + place ELSE 0)
    BY DEF Length
  <2>5. /\ L \in Nat /\ Lead(i) \in Nat /\ FixedSize(d, e) \in Nat
        /\ OpcodeBytes(i) \in Nat /\ ImmediateBytes(i) \in Nat
    BY <1>2, InstructionFacts, SizeFacts DEF Measured
  <2> HIDE DEF m, place, s, e, d, L
  <2>6. CASE e.mod = 0 /\ ~HasModRm(i)
    BY <1>1, <2>2, <2>3, <2>4, <2>5, <2>6
  <2>7. CASE e.mod = 0 /\ HasModRm(i)
    BY <1>1, <2>1, <2>2, <2>3, <2>4, <2>5, <2>7
  <2>8. CASE e.mod # 0
    BY <1>1, <2>1, <2>2, <2>3, <2>4, <2>5, <2>8
  <2> QED BY <2>6, <2>7, <2>8
<1> HIDE DEF d, e, c, s
<1> QED BY <1>3, <1>4, <1>5 DEF c, d, e, s

-----------------------------------------------------------------------------
(* Each instruction is looked at by itself: nothing is assumed of the sizes. *)

LEMMA InstrFacts ==
  ASSUME InstrOK, instr # None
  PROVE  IF arm64 THEN instr \in InstructionsARM64 ELSE instr \in Instructions
  BY CopyLoopAssumption DEF InstrOK

\* The code recognises each end of a function.
LEMMA EndsRecognised ==
  ASSUME InstrOK, instr # None, EndsFunction(instr)
  PROVE  DoesCodeEndFunction(instr)
<1>1. CASE arm64
  BY <1>1, InstrFacts DEF EndsFunction, DoesCodeEndFunction, DoesCodeEndFunctionArm64,
                          NeverPassesARM64
<1>2. CASE ~arm64
  <2>1. /\ NeverPasses(instr) /\ instr.prefixes = <<>> /\ instr.esc = "none"
        /\ instr.op = "FF" => instr.rm = "rip" /\ instr.reg = 4
    BY <1>2 DEF EndsFunction
  <2>2. \/ instr.op \in {"C3", "C2", "EB", "E9"}
        \/ instr.op = "FF" /\ instr.rm = "rip" /\ instr.reg = 4
    BY <2>1 DEF NeverPasses
  <2> QED BY <1>2, <2>1, <2>2 DEF DoesCodeEndFunction, DoesCodeEndFunctionX64
<1> QED BY <1>1, <1>2 DEF InstrOK

LEMMA LoopInit == Init => LoopInv
  BY DEF Init, LoopInv, InstrOK, EndInv

LEMMA LoopNext == LoopInv /\ [Next]_vars => LoopInv'
<1> SUFFICES ASSUME LoopInv, [Next]_vars PROVE LoopInv'
  OBVIOUS
<1> USE DEF LoopInv, InstrOK, EndInv
<1>1. ASSUME NEW arm \in BOOLEAN, NEW p \in Places[arm], Begin(arm, p) PROVE LoopInv'
  BY <1>1 DEF Begin, Clear
<1>2. CASE Fetch
  <2>1. instr' \in First[arm64] \cup Later[arm64]
    BY <1>2 DEF Fetch
  <2> QED BY <1>2, <2>1 DEF Fetch, where
<1>3. CASE Refuse
  BY <1>3 DEF Refuse, Fail, Clear
<1>4. CASE Copy
  <2>1. instr # None /\ phase = "moving" /\ ~over
    BY <1>4 DEF Copy
  <2>2. /\ phase' = IF \/ Len(rAlign') >= AlignSize
                       \/ DoesCodeEndFunction(instr)
                       \/ Enough(cbTarget')
                    THEN "filling" ELSE "moving"
        /\ over' = (over \/ EndsFunction(instr))
        /\ instr' = None /\ arm64' = arm64
    BY <1>4 DEF Copy, where
  <2>3. EndsFunction(instr) \in BOOLEAN
    BY DEF EndsFunction, NeverPasses, NeverPassesARM64
  <2>4. over' => phase' = "filling"
    BY <2>1, <2>2, EndsRecognised
  <2>5. phase' \in {"moving", "filling"} /\ over' \in BOOLEAN
    BY <2>2, <2>3
  <2> QED BY <2>2, <2>4, <2>5
<1>5. ASSUME NEW size \in Fillers[arm64], Fill(size) PROVE LoopInv'
  BY <1>5 DEF Fill, where
<1>6. CASE Unfit
  BY <1>6 DEF Unfit, Fail, Clear
<1>7. CASE Finish
  BY <1>7 DEF Finish, where
<1>8. CASE UNCHANGED vars
  BY <1>8 DEF vars, where
<1> QED BY <1>1, <1>2, <1>3, <1>4, <1>5, <1>6, <1>7, <1>8 DEF Next

LEMMA LoopAlways == Spec => []LoopInv
  BY LoopInit, LoopNext, PTL DEF Spec

\* For every set of instructions of x64, with any number of prefixes in any order, that
\* the processor knows: CopyInstruction finds the end where the processor does, and
\* refuses exactly those that are too long.
THEOREM EveryLengthIsRight == Spec => []MeasuredRight
<1>1. LoopInv => MeasuredRight
  <2> SUFFICES ASSUME LoopInv, instr # None, ~arm64, Legal(instr)
               PROVE  LET d == CopyInstruction(instr) IN
                        IF Length(instr) <= MaxLength THEN d.ok /\ d.n = Length(instr) ELSE ~d.ok
    BY DEF MeasuredRight
  <2>1. instr \in Instructions
    BY InstrFacts DEF LoopInv
  <2> QED BY <2>1, LegalEnd
<1> QED BY <1>1, LoopAlways, PTL

\* For every instruction, known to the processor or not: no byte after the longest
\* instruction is looked at.
THEOREM NothingReadPastTheLongest == Spec => []ReadsWithin
<1>1. LoopInv => ReadsWithin
  <2> SUFFICES ASSUME LoopInv, instr # None, ~arm64
               PROVE  CopyInstruction(instr).read <= MaxLength
    BY DEF ReadsWithin
  <2>1. instr \in Instructions
    BY InstrFacts DEF LoopInv
  <2> QED BY <2>1, InstructionTold DEF Good
<1> QED BY <1>1, LoopAlways, PTL

\* For every function, however short: nothing that follows its end is moved.
THEOREM MovingStopsAtTheEnd == Spec => []StopsAtEnd
<1>1. LoopInv => StopsAtEnd
  BY DEF LoopInv, EndInv, StopsAtEnd
<1> QED BY <1>1, LoopAlways, PTL

-----------------------------------------------------------------------------
(* How much longer a copy is.                                              *)

\* Only LOOPcc and JCXZ are not to be enlarged.
LEMMA NoEnlarge ==
  ASSUME NEW i \in Instructions, NEW d, EntryOf(d, i) = CopyBytes2CantJump
  PROVE  i.op = "E0"
<1>1. /\ CopyBytes2CantJump \notin {CopyBytes1, CopyBytes1Address, CopyBytes2, CopyBytes3,
           CopyBytes3Or5, CopyBytes3Or5Rax, CopyBytes3Or5Target, CopyBytes4, CopyBytes2Mod,
           CopyBytes2Mod1, CopyBytes2ModOperand, CopyBytes3Mod, CopyBytes3Mod1, CopyBytesXop,
           CopyBytesXop1, CopyBytesXop4, XBegin, Jump, Invalid}
  BY DEF Entry, CopyBytes1, CopyBytes1Address, CopyBytes2, CopyBytes2CantJump,
         CopyBytes3, CopyBytes3Or5, CopyBytes3Or5Rax, CopyBytes3Or5Target, CopyBytes4,
         CopyBytes2Mod, CopyBytes2Mod1, CopyBytes2ModOperand, CopyBytes3Mod, CopyBytes3Mod1,
         CopyBytesXop, CopyBytesXop1, CopyBytesXop4, XBegin, Jump, Invalid
<1> DEFINE Rest == {CopyBytes1, CopyBytes1Address, CopyBytes2, CopyBytes3,
           CopyBytes3Or5, CopyBytes3Or5Rax, CopyBytes3Or5Target, CopyBytes4, CopyBytes2Mod,
           CopyBytes2Mod1, CopyBytes2ModOperand, CopyBytes3Mod, CopyBytes3Mod1, CopyBytesXop,
           CopyBytesXop1, CopyBytesXop4, XBegin, Jump, Invalid}
<1>2. /\ CopyF6(i) \in Rest /\ CopyF7(i) \in Rest /\ CopyC7(i) \in Rest
      /\ CopyFF(i) \in Rest /\ CopyXop(i) \in Rest /\ Copy0F78(d) \in Rest
  BY DEF CopyF6, CopyF7, CopyC7, CopyFF, CopyXop, Copy0F78
<1>3. TwoByte(d, i) \in Rest
  BY <1>2 DEF TwoByte
<1>4. Vex(d, i) \in Rest
  BY <1>3 DEF Vex
<1>5. i.op # "E0" => OneByte(i) \in Rest
  BY <1>2 DEF OneByte
<1> QED BY <1>1, <1>3, <1>4, <1>5 DEF EntryOf

\* What is copied takes at most four bytes more, and no byte more for an instruction
\* of one byte.
LEMMA ExtraFacts ==
  ASSUME NEW i \in Instructions, CopyInstruction(i).ok, i.op # "E0", NEW far
  PROVE  /\ CopyInstruction(i).n \in 1..MaxLength
         /\ Extra(i, far) \in 0..4
         /\ Extra(i, far) > 0 => CopyInstruction(i).n >= 2
<1> DEFINE d == AtOpcode(i)
           e == EntryOf(d, i)
           c == CopyInstruction(i)
           s == Size(d, e, i)
           o == OffsetSize(i)
<1>1. /\ e # Invalid /\ s \in Nat \ {0} /\ d.n \in Nat /\ c.n = d.n + s
      /\ d.n + s <= MaxLength
  BY InstructionTold
<1>2. c.n \in 1..MaxLength /\ (s >= 2 => c.n >= 2)
  <2> HIDE DEF c, s, d
  <2> QED BY <1>1, Maximum
<1>3. e \in Entries /\ e # CopyBytes2CantJump
  BY EntryOfEntries, NoEnlarge
<1>4. e.rel \in 0..2 /\ "NOENLARGE" \notin e.flags
  BY <1>3, EntriesFacts
<1>5. CASE IsJump(i)
  <2>1. e = Jump
    BY <1>5 DEF IsJump
  <2>2. FixedSize(d, e) = 2 /\ s >= 2
    BY <1>3, <2>1, FixedSizes, SizeFacts DEF Is
  <2>3. Extra(i, far) = Enlarged(i)
    BY <1>5 DEF Extra
  <2>4. Enlarged(i) \in {3, 4}
    BY <1>5 DEF Enlarged
  <2> QED BY <1>2, <2>2, <2>3, <2>4
<1>6. CASE ~IsJump(i)
  <2> DEFINE short == o \in {1, 2} /\ ~Fits(i.rel - far, o)
  <2>1. Extra(i, far) = IF short THEN 4 - o ELSE 0
    BY <1>4, <1>6 DEF Extra
  <2>2. o = IF e.rel > 0 THEN s - e.rel ELSE IF e.mod > 0 /\ i.rm = "rip" THEN 4 ELSE 0
    BY DEF OffsetSize
  <2> HIDE DEF o, s, e, c, d
  <2>3. short => o \in {1, 2}
    OBVIOUS
  <2>4. short => e.rel > 0 /\ s = o + e.rel
    BY <1>1, <1>4, <2>2, <2>3
  <2>5. short => s >= 2
    BY <1>1, <1>4, <2>3, <2>4
  <2> HIDE DEF short
  <2>6. Extra(i, far) \in 0..4 /\ (Extra(i, far) > 0 => s >= 2)
    BY <2>1, <2>3, <2>5
  <2> QED BY <1>2, <2>6 DEF c
<1> QED BY <1>5, <1>6

\* A sequence of some elements, of which there are at most so many.
Short(s, most) == \E X : s \in Seq(X) /\ Len(s) \in 1..most

LEMMA ShortOne ==
  ASSUME NEW a, NEW most \in Nat \ {0}
  PROVE  Short(<<a>>, most)
<1>1. <<a>> \in Seq({a}) /\ Len(<<a>>) \in 1..most
  OBVIOUS
<1> QED BY <1>1 DEF Short

LEMMA ShortJoin ==
  ASSUME NEW s, NEW m \in Nat, Short(s, m), NEW t, NEW n \in Nat, Short(t, n),
         NEW most \in Nat, m + n <= most
  PROVE  Short(s \o t, most)
<1>1. PICK X : s \in Seq(X) /\ Len(s) \in 1..m
  BY DEF Short
<1>2. PICK Y : t \in Seq(Y) /\ Len(t) \in 1..n
  BY DEF Short
<1>3. s \in Seq(X \cup Y) /\ t \in Seq(X \cup Y)
  BY <1>1, <1>2
<1>4. s \o t \in Seq(X \cup Y) /\ Len(s \o t) = Len(s) + Len(t)
  BY <1>3
<1>5. Len(s \o t) \in 1..most
  BY <1>1, <1>2, <1>4
<1> QED BY <1>4, <1>5 DEF Short

\* EmitMovImmediate takes at most four instructions, one for each piece.
LEMMA EmitShort ==
  ASSUME NEW rd, NEW value
  PROVE  Short(EmitMovImmediate(rd, value), 4)
<1> DEFINE Of(p) == {n \in 0..3 : Piece(value, n) = p}
           default == IF Cardinality(Of(Ones)) > Cardinality(Of(0)) THEN Ones ELSE 0
           left == (0..3) \ Of(default)
           S == IF left = {} THEN {0} ELSE left
           order == Descending(S)
           Lead0(n) == IF default = Ones THEN Instr("movn64", rd, n, Ones - Piece(value, n))
                       ELSE Instr("movz64", rd, n, Piece(value, n))
           code0 == [n \in DOMAIN order |->
                       IF n = 1 THEN Lead0(order[1])
                       ELSE Instr("movk64", rd, order[n], Piece(value, order[n]))]
<1>1. \/ EmitMovImmediate(rd, value) = <<Instr("movn32", rd, 0, Ones - Piece(value, 0))>>
      \/ EmitMovImmediate(rd, value) = code0
  BY DEF EmitMovImmediate
<1>2. S \subseteq 0..3 /\ S # {}
  OBVIOUS
<1> HIDE DEF S
<1>3. Cardinality(S) \in 1..4
  <2> DEFINE low == 0
             high == 3
  <2>0. low \in Int /\ high \in Int /\ low <= high /\ high - low + 1 = 4
    OBVIOUS
  <2> HIDE DEF low, high
  <2>a. IsFiniteSet(low..high) /\ Cardinality(low..high) = high - low + 1
    BY <2>0, FS_Interval
  <2>1. IsFiniteSet(0..3) /\ Cardinality(0..3) = 4
    BY <2>0, <2>a DEF low, high
  <2>2. IsFiniteSet(S) /\ Cardinality(S) \in Nat /\ Cardinality(S) <= 4
    BY <1>2, <2>1, FS_Subset, FS_CardinalityType
  <2>3. Cardinality(S) # 0
    BY <1>2, <2>2, FS_EmptySet
  <2> QED BY <2>2, <2>3
<1>4. DOMAIN order = 1..Cardinality(S)
  BY DEF Descending
<1> DEFINE N == Cardinality(S)
           X == {code0[n] : n \in 1..N}
<1>5. DOMAIN code0 = 1..N
  BY <1>4
<1>6. code0 = [n \in 1..N |-> code0[n]]
  BY <1>4
<1> HIDE DEF code0, N
<1>7. code0 \in [1..N -> X]
  BY <1>6
<1>8. N \in 1..4
  BY <1>3 DEF N
<1>9. code0 \in Seq(X) /\ Len(code0) = N
  <2> HIDE DEF X
  <2>1. N \in Nat
    BY <1>8
  <2>2. code0 \in Seq(X)
    BY <1>7, <2>1, SeqDef
  <2> QED BY <1>5, <2>1, <2>2, LenProperties
<1>10. Short(code0, 4)
  BY <1>8, <1>9 DEF Short
<1> QED BY <1>1, <1>10, ShortOne

LEMMA ShortMore ==
  ASSUME NEW s, NEW m \in Nat, Short(s, m), NEW most \in Nat, m <= most
  PROVE  Short(s, most)
<1>1. PICK X : s \in Seq(X) /\ Len(s) \in 1..m
  BY DEF Short
<1>2. Len(s) \in 1..most
  BY <1>1
<1> QED BY <1>1, <1>2 DEF Short

LEMMA ShortPair ==
  ASSUME NEW a, NEW b
  PROVE  Short(<<a, b>>, 2)
<1>1. <<a, b>> \in Seq({a, b}) /\ Len(<<a, b>>) = 2
  OBVIOUS
<1>2. 2 \in 1..2
  OBVIOUS
<1> QED BY <1>1, <1>2, Zenon DEF Short

LEMMA AdrShort ==
  ASSUME NEW i, NEW src, NEW dst
  PROVE  Short(CopyAdr(i, src, dst), 6)
<1>0. 1 \in Nat \ {0} /\ 6 \in Nat \ {0} /\ 4 \in Nat /\ 6 \in Nat /\ 4 <= 6
  OBVIOUS
<1> DEFINE target == IF i.op = "adr" THEN Target(i, src) ELSE (Pages(src) + i.imm) * PageSize
           off == target - dst
           deltaPage == Pages(target) - Pages(dst)
           near == i.op = "adr" /\ Within(off, Reach21)
           pages == Within(deltaPage, Reach21)
           one == Adrp(i.r, deltaPage)
           two == Add32(i.r, target)
<1>1. CASE near
  <2>1. CopyAdr(i, src, dst) = <<Adr(i.r, off)>>
    BY <1>1, Zenon DEF CopyAdr
  <2> QED BY <1>0, <2>1, ShortOne, Zenon
<1>2. CASE ~near /\ pages
  <2>1. CopyAdr(i, src, dst) = <<one>> \o (IF i.op = "adr" THEN <<two>> ELSE <<>>)
    BY <1>2, Zenon DEF CopyAdr
  <2> HIDE DEF one, two
  <2>a. <<one>> \in Seq({one})
    OBVIOUS
  <2>b. <<one>> \o <<>> = <<one>>
    BY <2>a, ConcatEmptySeq
  <2>2. CopyAdr(i, src, dst) = <<one>> \o <<two>> \/ CopyAdr(i, src, dst) = <<one>>
    BY <2>1, <2>b, Zenon
  <2>3. 1 + 1 <= 6 /\ 1 \in Nat
    OBVIOUS
  <2>4. Short(<<one>> \o <<two>>, 6)
    BY <1>0, <2>3, ShortOne, ShortJoin, Zenon
  <2> QED BY <1>0, <2>2, <2>4, ShortOne, Zenon
<1>3. CASE ~near /\ ~pages
  <2>1. CopyAdr(i, src, dst) = EmitMovImmediate(i.r, target)
    BY <1>3, Zenon DEF CopyAdr
  <2>2. Short(EmitMovImmediate(i.r, target), 4)
    BY EmitShort, Zenon
  <2> QED BY <1>0, <2>1, <2>2, ShortMore, Zenon
<1> QED BY <1>1, <1>2, <1>3, Zenon

LEMMA FarShort ==
  ASSUME NEW skip, NEW target, NEW dst
  PROVE  Short(FarBranch(skip, target, dst), 6)
<1>0. 2 \in Nat /\ 4 \in Nat /\ 6 \in Nat /\ 4 + 2 <= 6 /\ 2 <= 6
  OBVIOUS
<1> DEFINE b == Branch(FALSE, target - (dst + 4))
           far == EmitMovImmediate(Scratch, target)
           br == Br(FALSE)
<1>1. FarBranch(skip, target, dst) = <<skip, b>> \/ FarBranch(skip, target, dst) = far \o <<skip, br>>
  BY Zenon DEF FarBranch
<1>2. Short(<<skip, b>>, 6)
  BY <1>0, ShortPair, ShortMore, Zenon
<1>3. Short(far, 4) /\ Short(<<skip, br>>, 2)
  BY EmitShort, ShortPair, Zenon
<1>4. Short(far \o <<skip, br>>, 6)
  BY <1>0, <1>3, ShortJoin, Zenon
<1> QED BY <1>1, <1>2, <1>4, Zenon

\* An instruction of ARM64 becomes one to six.
LEMMA CopyShort ==
  ASSUME NEW i, NEW src, NEW dst, NEW value
  PROVE  Short(CopyInstructionArm64(i, src, dst, value), 6)
<1>0. /\ 1 \in Nat /\ 1 \in Nat \ {0} /\ 6 \in Nat \ {0} /\ 4 \in Nat /\ 6 \in Nat
      /\ 4 <= 6 /\ 4 + 1 <= 6
  OBVIOUS
<1>1. \A a : Short(<<a>>, 6) /\ Short(<<a>>, 1)
  BY <1>0, ShortOne, Zenon
<1>2. \A rd, x : Short(EmitMovImmediate(rd, x), 4)
  BY EmitShort, Zenon
<1>3. \A rd, x : Short(EmitMovImmediate(rd, x), 6)
  BY <1>0, <1>2, ShortMore, Zenon
<1>4. \A rd, x, a : Short(EmitMovImmediate(rd, x) \o <<a>>, 6)
  BY <1>0, <1>1, <1>2, ShortJoin, Zenon
<1>5. Short(CopyBcc(i, src, dst), 6)
  BY <1>1, FarShort, Zenon DEF CopyBcc
<1>6. Short(CopyB_or_Bl(i, src, dst), 6)
  BY <1>1, <1>4, Zenon DEF CopyB_or_Bl
<1>7. Short(CopyCbz(i, src, dst), 6)
  BY <1>1, FarShort, Zenon DEF CopyCbz
<1>8. Short(CopyTbz(i, src, dst), 6)
  BY <1>1, FarShort, Zenon DEF CopyTbz
<1>9. Short(CopyLdrLiteral(i, src, dst, value), 6)
  <2> DEFINE near == Within(Target(i, src) - dst, 8 * Reach19)
  <2>1. CASE near
    BY <2>1, <1>1, Zenon DEF CopyLdrLiteral
  <2>2. CASE ~near /\ i.op = "ldr"
    BY <2>2, <1>3, Zenon DEF CopyLdrLiteral
  <2>3. CASE ~near /\ i.op # "ldr"
    BY <2>3, <1>4, Zenon DEF CopyLdrLiteral
  <2> QED BY <2>1, <2>2, <2>3, Zenon
<1>10. Short(CopyAdr(i, src, dst), 6)
  BY AdrShort, Zenon
<1>11. CASE i.op \in {"adr", "adrp"}
  BY <1>10, <1>11, Zenon DEF CopyInstructionArm64
<1>12. CASE i.op = "bcc"
  BY <1>5, <1>12, Zenon DEF CopyInstructionArm64
<1>13. CASE i.op \in {"b", "bl"}
  BY <1>6, <1>13, Zenon DEF CopyInstructionArm64
<1>14. CASE i.op = "cbz"
  BY <1>7, <1>14, Zenon DEF CopyInstructionArm64
<1>15. CASE i.op = "tbz"
  BY <1>8, <1>15, Zenon DEF CopyInstructionArm64
<1>16. CASE i.op \in {"ldr", "ldrv"}
  BY <1>9, <1>16, Zenon DEF CopyInstructionArm64
<1>17. CASE i.op \notin {"adr", "adrp", "bcc", "b", "bl", "cbz", "tbz", "ldr", "ldrv"}
  <2>1. CopyInstructionArm64(i, src, dst, value) = <<i>>
    BY <1>17, Zenon DEF CopyInstructionArm64
  <2> QED BY <1>1, <2>1, Zenon
<1> QED BY <1>11, <1>12, <1>13, <1>14, <1>15, <1>16, <1>17, Zenon

-----------------------------------------------------------------------------
(* What rAlign tells, for the sizes of SlimDetours.inl.                    *)

Entry8 == [obTarget : 0..255, obTrampoline : 0..255]

\* The most bytes of an instruction, and of its copy, and by how much a copy is longer.
Longest == IF arm64 THEN 4 ELSE 15
LongestCopy == IF arm64 THEN 24 ELSE 19
Growth == IF arm64 THEN 6 ELSE 3

\* What the last entry says of those before it.
LEMMA LastFacts ==
  ASSUME IInv
  PROVE  LET last == EndOf(Len(rAlign)) IN
           /\ Len(rAlign) \in Nat /\ DOMAIN rAlign = 1..Len(rAlign)
           /\ last.obTarget \in 0..255 /\ last.obTrampoline \in 0..255
           /\ last.obTrampoline <= Growth * last.obTarget
           /\ Len(rAlign) <= last.obTarget
           /\ \A k \in DOMAIN rAlign : /\ rAlign[k].obTarget <= last.obTarget
                                       /\ rAlign[k].obTrampoline <= last.obTrampoline
           /\ \A k \in DOMAIN rAlign : rAlign[k] \in Entry8
<1> DEFINE last == EndOf(Len(rAlign))
<1>1. rAlign \in Seq(Entry8)
  BY DEF IInv, CountsOK, Entry8
<1>2. /\ Len(rAlign) \in Nat /\ DOMAIN rAlign = 1..Len(rAlign)
      /\ \A k \in DOMAIN rAlign : rAlign[k] \in Entry8
  BY <1>1
<1>3. CASE Len(rAlign) = 0
  <2>1. last.obTarget = 0 /\ last.obTrampoline = 0
    BY <1>3 DEF EndOf
  <2> QED BY <1>2, <1>3, <2>1 DEF Growth
<1>4. CASE Len(rAlign) # 0
  <2>1. Len(rAlign) \in DOMAIN rAlign
    BY <1>2, <1>4
  <2>2. last = rAlign[Len(rAlign)]
    BY <1>4 DEF EndOf
  <2>3. last \in Entry8
    BY <1>2, <2>1, <2>2
  <2>4. last.obTarget \in 0..255 /\ last.obTrampoline \in 0..255
    BY <2>3 DEF Entry8
  <2>5. last.obTrampoline <= Growth * last.obTarget /\ Len(rAlign) <= last.obTarget
    BY <2>1, <2>2 DEF IInv, AlignInv, Growth
  <2> HIDE DEF last
  <2>6. ASSUME NEW k \in DOMAIN rAlign
        PROVE  rAlign[k].obTarget <= last.obTarget /\ rAlign[k].obTrampoline <= last.obTrampoline
    <3>1. CASE k = Len(rAlign)
      <4>1. rAlign[k] = last
        BY <2>2, <3>1
      <4> QED BY <2>4, <4>1
    <3>2. CASE k < Len(rAlign)
      <4>1. /\ rAlign[k].obTarget < rAlign[Len(rAlign)].obTarget
            /\ rAlign[k].obTrampoline < rAlign[Len(rAlign)].obTrampoline
        BY <2>1, <2>6, <3>2 DEF IInv, UpInv
      <4>2. rAlign[k] \in Entry8
        BY <1>2
      <4>3. rAlign[k].obTarget \in 0..255 /\ rAlign[k].obTrampoline \in 0..255
        BY <4>2 DEF Entry8
      <4>4. rAlign[k].obTarget < last.obTarget /\ rAlign[k].obTrampoline < last.obTrampoline
        BY <2>2, <4>1
      <4>5. \A a, b \in 0..255 : a < b => a <= b
        OBVIOUS
      <4> QED BY <2>4, <4>3, <4>4, <4>5, Zenon
    <3> QED BY <1>2, <3>1, <3>2
  <2> QED BY <1>2, <2>4, <2>5, <2>6 DEF last
<1> QED BY <1>2, <1>3, <1>4

\* How far a step of the loop goes on, in the target and in rbCode.
LEMMA CopyMoves ==
  ASSUME Sizes, NoLoops, IInv, Copy
  PROVE  \E n, m \in Nat :
           /\ cbTarget' = cbTarget + n
           /\ code' = code + m
           /\ n \in 1..Longest /\ m \in 1..LongestCopy
           /\ m <= Growth * n
           /\ arm64 => n = 4
<1>1. cbTarget \in Nat /\ code \in Nat
  BY DEF IInv, CountsOK
<1>2. CASE arm64
  <2>1. cbTarget' = cbTarget + 4 /\ code' = code + 4 * Len(Copied)
    BY <1>2 DEF Copy
  <2>2. Short(Copied, 6)
    BY CopyShort, Zenon DEF Copied
  <2>3. Len(Copied) \in 1..6
    BY <2>2 DEF Short
  <2> DEFINE len == Len(Copied)
             m == 4 * len
  <2>a. len \in 1..6
    BY <2>3
  <2> HIDE DEF len
  <2>4. m \in Nat /\ m \in 1..24 /\ m <= 6 * 4
    BY <2>a
  <2>5. code' = code + m
    BY <2>1 DEF len
  <2> HIDE DEF m
  <2> QED BY <1>2, <2>1, <2>4, <2>5 DEF Longest, LongestCopy, Growth
<1>3. CASE ~arm64
  <2> DEFINE n == CopyInstruction(instr).n
             extra == Extra(instr, Distance)
  <2>1. /\ CopyInstruction(instr).ok
        /\ cbTarget' = cbTarget + n
        /\ code' = code + n + extra
    BY <1>3 DEF Copy
  <2>2. instr \in First[FALSE] \cup Later[FALSE]
    BY <1>3 DEF Copy, IInv, LoopInv, InstrOK
  <2>3. instr \in Instructions
    BY <2>2, CopyLoopAssumption
  <2>4. instr.op # "E0"
    BY <2>2 DEF NoLoops
  <2>5. n \in 1..MaxLength /\ extra \in 0..4 /\ (extra > 0 => n >= 2)
    BY <2>1, <2>3, <2>4, ExtraFacts
  <2>6. MaxLength = 15
    BY DEF Sizes
  <2> HIDE DEF n, extra
  <2> DEFINE m == n + extra
  <2>7. n \in 1..15 /\ m \in 1..19 /\ m <= 3 * n /\ n \in Nat /\ m \in Nat
    BY <2>5, <2>6
  <2>8. code' = code + m
    BY <1>1, <2>1, <2>5, <2>6
  <2> HIDE DEF m
  <2> QED BY <1>3, <2>1, <2>7, <2>8 DEF Longest, LongestCopy, Growth
<1> QED BY <1>2, <1>3

\* Nothing is written down yet, or any more.
LEMMA EmptyEntries ==
  ASSUME rAlign' = <<>>, cbTarget' = 0, code' = 0, base' \in Int, delta' \in Int,
         phase' # "broken", Sizes, arm64' \in BOOLEAN
  PROVE  (CountsOK /\ AlignInv /\ UpInv /\ SizeInv)'
<1>1. Len(rAlign') = 0 /\ DOMAIN rAlign' = {}
  OBVIOUS
<1>2. CountsOK'
  BY DEF CountsOK
<1>3. AlignInv' /\ UpInv'
  BY <1>1 DEF AlignInv, UpInv
<1>4. EndOf(0)' = [obTarget |-> 0, obTrampoline |-> 0]
  BY DEF EndOf
<1>5. EndOf(Len(rAlign))' = [obTarget |-> 0, obTrampoline |-> 0]
  BY <1>1 DEF EndOf
<1>6. cbTarget' < JumpSize[arm64'] /\ Len(rAlign') < AlignSize /\ Len(rAlign') <= AlignSize
  BY <1>1, CopyLoopAssumption
<1>7. cbTarget' <= (IF arm64' THEN 12 ELSE 19) /\ cbTarget' % 4 = 0
  OBVIOUS
<1>a. /\ code' = EndOf(Len(rAlign))'.obTrampoline
      /\ EndOf(Len(rAlign))'.obTarget = cbTarget' /\ cbTarget' <= cbTarget'
  BY <1>5
<1>8. SizeInv'
  BY <1>6, <1>7, <1>a, Zenon DEF SizeInv
<1> QED BY <1>2, <1>3, <1>8

\* Where nothing is moved, the entries stay right.
LEMMA SameEntries ==
  ASSUME IInv, UNCHANGED <<rAlign, arm64>>
  PROVE  (AlignInv /\ UpInv)' /\ EndOf(Len(rAlign))' = EndOf(Len(rAlign))
<1>1. AlignInv'
  BY Zenon DEF IInv, AlignInv, EndOf
<1>2. UpInv'
  BY Zenon DEF IInv, UpInv
<1> QED BY <1>1, <1>2 DEF EndOf

LEMMA IInvInit ==
  ASSUME Sizes, Init
  PROVE  IInv
<1>1. Len(rAlign) = 0 /\ DOMAIN rAlign = {} /\ rAlign = <<>>
  BY DEF Init
<1>2. CountsOK
  BY <1>1 DEF CountsOK, Init
<1>3. AlignInv /\ UpInv
  BY <1>1 DEF AlignInv, UpInv
<1>4. EndOf(Len(rAlign)) = [obTarget |-> 0, obTrampoline |-> 0]
  BY <1>1 DEF EndOf
<1>5. SizeInv
  BY <1>1, <1>4 DEF SizeInv, Sizes, Init
<1> QED BY <1>2, <1>3, <1>5, LoopInit DEF IInv

\* An instruction is moved: the new entry follows the others.
LEMMA CopyKeeps ==
  ASSUME Sizes, NoLoops, IInv, Copy
  PROVE  (CountsOK /\ AlignInv /\ UpInv /\ SizeInv)'
<1> DEFINE last == EndOf(Len(rAlign))
           q == [obTarget |-> cbTarget', obTrampoline |-> code']
<1>0. Len(rAlign) \in Nat
  BY LastFacts
<1> PICK L \in Nat : L = Len(rAlign)
  BY <1>0
<1>1. PICK n \in Nat, m \in Nat :
        /\ cbTarget' = cbTarget + n
        /\ code' = code + m
        /\ n \in 1..Longest /\ m \in 1..LongestCopy
        /\ m <= Growth * n
        /\ arm64 => n = 4
  BY CopyMoves
<1>2. /\ arm64' = arm64 /\ base' = base /\ delta' = delta
      /\ phase = "moving"
      /\ rAlign' = Append(rAlign, Place(cbTarget', code'))
      /\ phase' = IF \/ Len(rAlign') >= AlignSize
                     \/ DoesCodeEndFunction(instr)
                     \/ Enough(cbTarget')
                  THEN "filling" ELSE "moving"
  BY DEF Copy, where, IInv, LoopInv, EndInv
<1>3. /\ L \in Nat /\ DOMAIN rAlign = 1..L
      /\ last.obTarget \in 0..255 /\ last.obTrampoline \in 0..255
      /\ last.obTrampoline <= Growth * last.obTarget
      /\ L <= last.obTarget
      /\ \A k \in DOMAIN rAlign : /\ rAlign[k].obTarget <= last.obTarget
                                  /\ rAlign[k].obTrampoline <= last.obTrampoline
      /\ \A k \in DOMAIN rAlign : rAlign[k] \in Entry8
  BY LastFacts
<1>4. /\ code = last.obTrampoline /\ cbTarget = last.obTarget
      /\ cbTarget < JumpSize[arm64]
      /\ L < AlignSize
      /\ arm64 => cbTarget % 4 = 0
  BY <1>2 DEF IInv, SizeInv
<1>5. arm64 \in BOOLEAN /\ cbTarget \in Nat /\ code \in Nat /\ rAlign \in Seq(Entry8)
      /\ base \in Int /\ delta \in Int
  BY DEF IInv, CountsOK, LoopInv, InstrOK, Entry8
<1>6. /\ cbTarget' <= (IF arm64 THEN 12 ELSE 19) /\ code' <= (IF arm64 THEN 72 ELSE 31)
      /\ cbTarget' \in 0..255 /\ code' \in 0..255
      /\ code' <= Growth * cbTarget'
      /\ arm64 => cbTarget' % 4 = 0
  <2> HIDE DEF last
  <2>1. CASE arm64
    <3>1. cbTarget < 12 /\ cbTarget % 4 = 0 /\ n = 4 /\ m \in 1..24 /\ code <= 6 * cbTarget
      BY <1>1, <1>3, <1>4, <2>1 DEF Sizes, LongestCopy, Growth
    <3>2. cbTarget <= 8
      BY <1>5, <3>1
    <3>3. cbTarget + n <= 12 /\ (cbTarget + n) % 4 = 0 /\ code + m <= 72
          /\ code + m <= 6 * (cbTarget + n)
      BY <1>5, <3>1, <3>2
    <3> QED BY <1>1, <1>5, <2>1, <3>3 DEF Growth
  <2>2. CASE ~arm64
    <3>1. cbTarget < 5 /\ n \in 1..15 /\ m \in 1..19 /\ m <= 3 * n /\ code <= 3 * cbTarget
      <4>1. n \in 1..15 /\ m \in 1..19 /\ m <= 3 * n
        BY <1>1, <2>2 DEF Longest, LongestCopy, Growth
      <4>2. code <= 3 * cbTarget
        BY <1>3, <1>4, <2>2 DEF Growth
      <4>3. arm64 = FALSE
        BY <1>5, <2>2
      <4>4. cbTarget < 5
        BY <1>4, <4>3 DEF Sizes
      <4> QED BY <4>1, <4>2, <4>4
    <3>2. cbTarget + n <= 19 /\ code + m <= 31 /\ code + m <= 3 * (cbTarget + n)
      BY <1>5, <3>1
    <3> QED BY <1>1, <1>5, <2>2, <3>2 DEF Growth
  <2> QED BY <2>1, <2>2, <1>5
<1>7. Place(cbTarget', code') = q
  <2>0. \A x \in 0..255 : Byte(x) = x
    BY DEF Byte
  <2>1. Byte(cbTarget') = cbTarget' /\ Byte(code') = code'
    BY <1>6, <2>0, Zenon
  <2> QED BY <2>1 DEF Place
<1>8. q \in Entry8
  BY <1>6 DEF Entry8
<1>9. /\ rAlign' \in Seq(Entry8) /\ Len(rAlign') = L + 1
      /\ DOMAIN rAlign' = 1..(L + 1)
      /\ \A k \in 1..L : rAlign'[k] = rAlign[k]
      /\ rAlign'[L + 1] = q
  BY <1>2, <1>5, <1>7, <1>8
<1> HIDE DEF last, q
<1>10. CountsOK'
  <2>0. \A x \in 0..255 : x \in Nat
    OBVIOUS
  <2>1. cbTarget' \in Nat /\ code' \in Nat
    BY <1>6, <2>0, Zenon
  <2>2. base' \in Int /\ delta' \in Int /\ rAlign' \in Seq(Entry8)
    BY <1>2, <1>5, <1>9, Zenon
  <2> QED BY <2>1, <2>2, Zenon DEF CountsOK, Entry8
<1>11. q.obTarget = cbTarget' /\ q.obTrampoline = code'
  BY DEF q
<1>12. /\ last.obTarget < q.obTarget /\ last.obTrampoline < q.obTrampoline
       /\ q.obTarget \in 0..255 /\ q.obTrampoline \in 0..255
  <2>1. n >= 1 /\ m >= 1
    BY <1>1 DEF Longest, LongestCopy
  <2>2. cbTarget < cbTarget' /\ code < code'
    BY <1>1, <1>5, <2>1
  <2> QED BY <1>4, <1>6, <1>11, <2>2
<1>13. EndOf(Len(rAlign))' = q
  BY <1>3, <1>9 DEF EndOf
<1>14. EndOf(L)' = last
  <2>1. CASE L = 0
    BY <2>1 DEF EndOf, last
  <2>2. CASE L # 0
    <3>1. rAlign'[L] = rAlign[L]
      BY <1>3, <1>9, <2>2
    <3> QED BY <2>2, <3>1 DEF EndOf, last
  <2> QED BY <2>1, <2>2
<1>15. AlignInv'
  <2> SUFFICES ASSUME NEW k \in 1..(L + 1)
               PROVE  LET p == EndOf(k - 1)'
                          r == rAlign'[k]
                      IN  /\ p.obTarget < r.obTarget /\ p.obTrampoline < r.obTrampoline
                          /\ r.obTrampoline <= (IF arm64' THEN 6 ELSE 3) * r.obTarget
                          /\ p.obTarget < JumpSize[arm64']
                          /\ r.obTarget <= p.obTarget + (IF arm64' THEN 4 ELSE 15)
                          /\ r.obTrampoline <= p.obTrampoline + (IF arm64' THEN 24 ELSE 19)
                          /\ arm64' => r.obTarget % 4 = 0
                          /\ k <= r.obTarget
    BY <1>9 DEF AlignInv
  <2>1. CASE k <= L
    <3>1. rAlign'[k] = rAlign[k] /\ k \in DOMAIN rAlign
      BY <1>3, <1>9, <2>1
    <3>2. EndOf(k - 1)' = EndOf(k - 1)
      <4>1. k - 1 = 0 \/ k - 1 \in 1..L
        BY <1>3, <2>1
      <4>2. k - 1 # 0 => rAlign'[k - 1] = rAlign[k - 1]
        BY <1>9, <4>1
      <4> QED BY <4>2 DEF EndOf
    <3>3. arm64' = arm64
      BY <1>2
    <3> QED BY <3>1, <3>2, <3>3, Zenon DEF IInv, AlignInv
  <2>2. CASE k = L + 1
    <3>1. rAlign'[k] = q
      BY <1>9, <2>2
    <3>2. k - 1 = L
      BY <1>3, <2>2
    <3>3. EndOf(k - 1)' = last
      BY <1>14, <3>2
    <3>4. arm64' = arm64
      BY <1>2
    <3>5. q.obTrampoline <= (IF arm64 THEN 6 ELSE 3) * q.obTarget
      BY <1>6, <1>11 DEF Growth
    <3>6. last.obTarget < JumpSize[arm64]
      BY <1>4
    <3>7. q.obTarget <= last.obTarget + (IF arm64 THEN 4 ELSE 15)
      BY <1>1, <1>4, <1>5, <1>11 DEF Longest
    <3>8. q.obTrampoline <= last.obTrampoline + (IF arm64 THEN 24 ELSE 19)
      BY <1>1, <1>4, <1>5, <1>11 DEF LongestCopy
    <3>9. arm64 => q.obTarget % 4 = 0
      BY <1>6, <1>11
    <3>a. \A b, c \in 0..255 : L <= b /\ b < c => L + 1 <= c
      OBVIOUS
    <3>10. k <= q.obTarget
      BY <1>3, <1>12, <2>2, <3>a, Zenon
    <3> QED BY <1>12, <3>1, <3>3, <3>4, <3>5, <3>6, <3>7, <3>8, <3>9, <3>10, Zenon
  <2> QED BY <1>3, <2>1, <2>2
<1>16. UpInv'
  <2> SUFFICES ASSUME NEW j \in 1..(L + 1), NEW k \in 1..(L + 1), j < k
               PROVE  /\ rAlign'[j].obTarget < rAlign'[k].obTarget
                      /\ rAlign'[j].obTrampoline < rAlign'[k].obTrampoline
    BY <1>9 DEF UpInv
  <2>1. j \in 1..L /\ rAlign'[j] = rAlign[j] /\ j \in DOMAIN rAlign
    BY <1>3, <1>9
  <2>2. CASE k <= L
    <3>1. k \in DOMAIN rAlign /\ rAlign'[k] = rAlign[k]
      BY <1>3, <1>9, <2>2
    <3> QED BY <2>1, <3>1, Zenon DEF IInv, UpInv
  <2>3. CASE k = L + 1
    <3>1. rAlign'[k] = q
      BY <1>9, <2>3
    <3>2. rAlign[j] \in Entry8
      BY <1>3, <2>1
    <3>3. rAlign[j].obTarget \in 0..255 /\ rAlign[j].obTrampoline \in 0..255
      BY <3>2 DEF Entry8
    <3>4. rAlign[j].obTarget <= last.obTarget /\ rAlign[j].obTrampoline <= last.obTrampoline
      BY <1>3, <2>1
    <3>5. \A a, b, c \in 0..255 : a <= b /\ b < c => a < c
      OBVIOUS
    <3>6. /\ rAlign[j].obTarget < q.obTarget /\ rAlign[j].obTrampoline < q.obTrampoline
      BY <1>3, <1>12, <3>3, <3>4, <3>5, Zenon
    <3> QED BY <2>1, <3>1, <3>6, Zenon
  <2> QED BY <1>3, <2>2, <2>3
<1>17. SizeInv'
  <2>1. Len(rAlign') <= AlignSize
    BY <1>3, <1>4, <1>9, CopyLoopAssumption
  <2>2. phase' = "moving" => Len(rAlign') < AlignSize /\ cbTarget' < JumpSize[arm64']
    <3>1. JumpSize[arm64'] \in Nat
      BY <1>2, <1>5, CopyLoopAssumption
    <3>2. Enough(cbTarget') <=> cbTarget' >= JumpSize[arm64]
      BY DEF Enough
    <3>3. Len(rAlign') \in Nat /\ AlignSize \in Nat
      BY <1>3, <1>9, CopyLoopAssumption
    <3>4. phase' = "moving" => ~(Len(rAlign') >= AlignSize) /\ ~(cbTarget' >= JumpSize[arm64])
      BY <1>2, <3>2
    <3> QED BY <1>2, <1>6, <3>1, <3>3, <3>4
  <2>3. phase' # "broken"
    BY <1>2
  <2>4. code' = q.obTrampoline /\ cbTarget' = q.obTarget /\ q.obTarget <= cbTarget'
    BY <1>6, <1>11
  <2> QED BY <1>2, <1>6, <1>13, <2>1, <2>2, <2>3, <2>4 DEF SizeInv
<1> QED BY <1>10, <1>15, <1>16, <1>17

LEMMA IInvNext ==
  ASSUME Sizes, NoLoops, IInv, [Next]_vars
  PROVE  IInv'
<1>1. LoopInv'
  BY LoopNext DEF IInv
<1> SUFFICES (CountsOK /\ AlignInv /\ UpInv /\ SizeInv)'
  BY <1>1 DEF IInv
<1>0. /\ arm64 \in BOOLEAN /\ base \in Int /\ delta \in Int /\ cbTarget \in Nat /\ code \in Nat
      /\ rAlign \in Seq(Entry8)
  BY DEF IInv, LoopInv, InstrOK, CountsOK, Entry8
<1> DEFINE last == EndOf(Len(rAlign))
<1>2. ASSUME Fail PROVE (CountsOK /\ AlignInv /\ UpInv /\ SizeInv)'
  <2>1. /\ rAlign' = <<>> /\ cbTarget' = 0 /\ code' = 0 /\ base' = 0 /\ delta' = 0
        /\ phase' = "idle" /\ arm64' = FALSE
    BY <1>2 DEF Fail, Clear
  <2>2. 0 \in Int
    OBVIOUS
  <2>3. base' \in Int /\ delta' \in Int /\ phase' # "broken" /\ arm64' \in BOOLEAN
    BY <2>1, <2>2, Zenon
  <2> QED BY <2>1, <2>3, EmptyEntries, Zenon
<1>3. ASSUME NEW arm \in BOOLEAN, NEW p \in Places[arm], Begin(arm, p)
      PROVE  (CountsOK /\ AlignInv /\ UpInv /\ SizeInv)'
  <2>1. p \in Nat \X Int
    BY CopyLoopAssumption
  <2>2. /\ rAlign' = <<>> /\ cbTarget' = 0 /\ code' = 0 /\ base' \in Int /\ delta' \in Int
        /\ phase' # "broken" /\ arm64' \in BOOLEAN
    BY <1>3, <2>1 DEF Begin, Clear
  <2> QED BY <2>2, EmptyEntries
<1>4. CASE Fetch
  <2>1. UNCHANGED <<phase, arm64, base, delta, cbTarget, code, rAlign>>
    BY <1>4 DEF Fetch, where
  <2>2. CountsOK'
    BY <2>1 DEF IInv, CountsOK
  <2>3. SizeInv'
    BY <2>1, Zenon DEF IInv, SizeInv, EndOf
  <2> QED BY <2>1, <2>2, <2>3, SameEntries
<1>5. CASE Refuse
  BY <1>2, <1>5 DEF Refuse
<1>6. CASE Copy
  BY <1>6, CopyKeeps
<1>7. ASSUME NEW size \in Fillers[arm64], Fill(size)
      PROVE  (CountsOK /\ AlignInv /\ UpInv /\ SizeInv)'
  <2>1. /\ phase = "filling" /\ ~(cbTarget >= JumpSize[arm64])
        /\ cbTarget' = cbTarget + size
        /\ UNCHANGED <<phase, arm64, base, delta, code, rAlign>>
    BY <1>7 DEF Fill, Enough, where
  <2>2. (AlignInv /\ UpInv)' /\ EndOf(Len(rAlign))' = last
    BY <2>1, SameEntries
  <2>3. /\ code = last.obTrampoline /\ last.obTarget <= cbTarget
        /\ arm64 => cbTarget % 4 = 0
        /\ Len(rAlign) <= AlignSize
    BY DEF IInv, SizeInv
  <2>4. last.obTarget \in 0..255
    BY LastFacts
  <2>5. size \in Nat /\ cbTarget' \in Nat
    BY <1>0, <2>1, CopyLoopAssumption
  <2>6. last.obTarget <= cbTarget'
    <3> HIDE DEF last
    <3>1. last.obTarget \in Int
      BY <2>4
    <3>2. size >= 0
      BY <2>5
    <3> QED BY <1>0, <2>1, <2>3, <2>5, <3>1, <3>2
  <2>7. cbTarget' <= (IF arm64 THEN 12 ELSE 19) /\ (arm64 => cbTarget' % 4 = 0)
    <3>1. CASE arm64
      <4>1. arm64 = TRUE
        BY <3>1
      <4>2. size = 4 /\ JumpSize[arm64] = 12
        BY <4>1 DEF Sizes
      <4>3. cbTarget < 12 /\ cbTarget % 4 = 0
        BY <1>0, <2>1, <2>3, <3>1, <4>2
      <4>4. cbTarget + 4 <= 12 /\ (cbTarget + 4) % 4 = 0
        BY <1>0, <4>3
      <4> QED BY <2>1, <3>1, <4>2, <4>4
    <3>2. CASE ~arm64
      <4>1. arm64 = FALSE
        BY <1>0, <3>2
      <4>2. size \in 1..11 /\ JumpSize[arm64] = 5
        BY <4>1 DEF Sizes
      <4>3. cbTarget < 5
        BY <1>0, <2>1, <4>2
      <4>4. cbTarget + size <= 19
        BY <1>0, <4>2, <4>3
      <4> QED BY <2>1, <3>2, <4>4
    <3> QED BY <3>1, <3>2
  <2>8. CountsOK'
    BY <1>0, <2>1, <2>5 DEF CountsOK, Entry8
  <2> HIDE DEF last
  <2>9. SizeInv'
    BY <2>1, <2>2, <2>3, <2>6, <2>7, Zenon DEF SizeInv
  <2> QED BY <2>2, <2>8, <2>9
<1>8. CASE Unfit
  BY <1>2, <1>8 DEF Unfit
<1>9. CASE Finish
  <2>1. UNCHANGED <<arm64, base, delta, cbTarget, code, rAlign>>
    BY <1>9 DEF Finish, where
  <2>2. CountsOK'
    BY <2>1 DEF IInv, CountsOK
  <2>3. phase' # "moving" /\ (phase' = "broken" => code > CodeSize[arm64])
    BY <1>9 DEF Finish
  <2>4. SizeInv'
    BY <2>1, <2>3, Zenon DEF IInv, SizeInv, EndOf
  <2> QED BY <2>1, <2>2, <2>4, SameEntries
<1>10. CASE UNCHANGED vars
  <2>1. UNCHANGED <<phase, arm64, base, delta, cbTarget, code, rAlign>>
    BY <1>10 DEF vars, where
  <2>2. CountsOK'
    BY <2>1 DEF IInv, CountsOK
  <2>3. SizeInv'
    BY <2>1, Zenon DEF IInv, SizeInv, EndOf
  <2> QED BY <2>1, <2>2, <2>3, SameEntries
<1> QED BY <1>3, <1>4, <1>5, <1>6, <1>7, <1>8, <1>9, <1>10 DEF Next

LEMMA IInvAlways ==
  ASSUME Sizes, NoLoops
  PROVE  Spec => []IInv
<1>1. Init => IInv
  BY IInvInit
<1>2. IInv /\ [Next]_vars => IInv'
  BY IInvNext
<1> QED BY <1>1, <1>2, PTL DEF Spec

\* An entry is the only one with its place: those not in use are zero.
LEMMA OnlyEntry ==
  ASSUME IInv, NEW n \in DOMAIN rAlign
  PROVE  /\ {k \in 1..AlignSize : Align(k).obTarget = rAlign[n].obTarget} = {n}
         /\ {k \in 1..AlignSize : Align(k).obTrampoline = rAlign[n].obTrampoline} = {n}
<1>1. /\ Len(rAlign) \in Nat /\ DOMAIN rAlign = 1..Len(rAlign)
      /\ \A k \in DOMAIN rAlign : rAlign[k] \in Entry8
  BY LastFacts
<1>2. Len(rAlign) <= AlignSize
  BY DEF IInv, SizeInv
<1>3. n \in 1..AlignSize /\ Align(n) = rAlign[n]
  BY <1>1, <1>2, CopyLoopAssumption DEF Align
<1>4. \A k \in DOMAIN rAlign : rAlign[k].obTarget \in 0..255 /\ rAlign[k].obTrampoline \in 0..255
  BY <1>1 DEF Entry8
<1>5. rAlign[n].obTarget # 0 /\ rAlign[n].obTrampoline # 0
  <2> DEFINE p == EndOf(n - 1)
  <2>1. p.obTarget < rAlign[n].obTarget /\ p.obTrampoline < rAlign[n].obTrampoline
    BY DEF IInv, AlignInv
  <2>2. p.obTarget \in 0..255 /\ p.obTrampoline \in 0..255
    <3>1. CASE n = 1
      <4>1. n - 1 = 0 /\ 0 \in 0..255
        BY <3>1
      <4> QED BY <4>1 DEF EndOf
    <3>2. CASE n # 1
      <4>1. n - 1 \in DOMAIN rAlign /\ n - 1 # 0
        BY <1>1, <3>2
      <4> QED BY <1>4, <4>1 DEF EndOf
    <3> QED BY <3>1, <3>2
  <2> HIDE DEF p
  <2>3. \A a, b \in 0..255 : a < b => b # 0
    OBVIOUS
  <2> QED BY <1>4, <2>1, <2>2, <2>3, Zenon
<1>6. ASSUME NEW k \in 1..AlignSize, k # n
      PROVE  /\ Align(k).obTarget # rAlign[n].obTarget
             /\ Align(k).obTrampoline # rAlign[n].obTrampoline
  <2>1. CASE k \notin DOMAIN rAlign
    BY <1>5, <2>1 DEF Align
  <2>2. CASE k \in DOMAIN rAlign
    <3>1. Align(k) = rAlign[k]
      BY <2>2 DEF Align
    <3>2. k < n \/ n < k
      BY <1>1, <1>6, <2>2
    <3>3. \/ /\ rAlign[k].obTarget < rAlign[n].obTarget
             /\ rAlign[k].obTrampoline < rAlign[n].obTrampoline
          \/ /\ rAlign[n].obTarget < rAlign[k].obTarget
             /\ rAlign[n].obTrampoline < rAlign[k].obTrampoline
      BY <2>2, <3>2, Zenon DEF IInv, UpInv
    <3>4. \A a, b \in 0..255 : a < b => a # b
      OBVIOUS
    <3> QED BY <1>4, <2>2, <3>1, <3>3, <3>4, Zenon
  <2> QED BY <2>1, <2>2
<1> QED BY <1>3, <1>6

LEMMA MinOne ==
  ASSUME NEW n \in Nat
  PROVE  Min({n}) = n
  BY DEF Min

\* For the sizes of SlimDetours.inl and all instructions but LOOPcc and JCXZ: the places
\* of a moved instruction and of its copy lead to each other.
THEOREM EntriesLeadBothWays ==
  ASSUME Sizes, NoLoops
  PROVE  Spec => []AlignExact
<1>1. ASSUME IInv PROVE AlignExact
  <2>1. ASSUME NEW n \in DOMAIN rAlign
        PROVE  /\ FromTarget(rAlign[n].obTarget) = rAlign[n].obTrampoline
               /\ FromTrampoline(rAlign[n].obTrampoline) = rAlign[n].obTarget
    <3>1. n \in Nat
      BY <1>1, LastFacts
    <3>2. Min({n}) = n /\ {n} # {} /\ Align(n) = rAlign[n]
      BY <3>1, MinOne DEF Align
    <3> QED BY <1>1, <3>2, OnlyEntry, Zenon DEF FromTarget, FromTrampoline
  <2>2. \A m, n \in DOMAIN rAlign : m < n =>
          /\ rAlign[m].obTarget < rAlign[n].obTarget
          /\ rAlign[m].obTrampoline < rAlign[n].obTrampoline
    BY <1>1 DEF IInv, UpInv
  <2>3. Align(Len(rAlign)) = EndOf(Len(rAlign))
    <3>1. Len(rAlign) \in Nat /\ DOMAIN rAlign = 1..Len(rAlign)
      BY <1>1, LastFacts
    <3>2. Len(rAlign) = 0 <=> Len(rAlign) \notin DOMAIN rAlign
      BY <3>1
    <3> QED BY <3>2, Zenon DEF Align, EndOf
  <2>4. Align(Len(rAlign)).obTrampoline = code /\ Align(Len(rAlign)).obTarget <= cbTarget
    BY <1>1, <2>3, Zenon DEF IInv, SizeInv
  <2> QED BY <2>1, <2>2, <2>4, Zenon DEF AlignExact
<1> QED BY <1>1, IInvAlways, PTL

\* For the same sizes and instructions: rbRestore has room for what is overwritten, and
\* rbCode for the jump to pbRemain, if none of the copies of x64 is longer than 12 bytes.
THEOREM CodeHasRoom ==
  ASSUME Sizes, NoLoops
  PROVE  Spec => []Room
<1>1. ASSUME IInv PROVE Room
  <2> DEFINE last == EndOf(Len(rAlign))
             L == Len(rAlign)
             Start(n) == IF n = 1 THEN 0 ELSE rAlign[n - 1].obTrampoline
             short == \A n \in DOMAIN rAlign : rAlign[n].obTrampoline - Start(n) <= 12
  <2>1. /\ L \in Nat /\ DOMAIN rAlign = 1..L
        /\ last.obTarget \in 0..255 /\ last.obTrampoline \in 0..255
        /\ last.obTrampoline <= Growth * last.obTarget
        /\ \A k \in DOMAIN rAlign : rAlign[k] \in Entry8
    BY <1>1, LastFacts
  <2>2. /\ code = last.obTrampoline /\ last.obTarget <= cbTarget
        /\ cbTarget <= (IF arm64 THEN 12 ELSE 19)
        /\ phase = "broken" => code > CodeSize[arm64]
        /\ arm64 \in BOOLEAN /\ cbTarget \in Nat /\ code \in Nat
    BY <1>1 DEF IInv, SizeInv, LoopInv, InstrOK, CountsOK
  <2>3. cbTarget <= RestoreSize[arm64]
    <3>1. CASE arm64 = TRUE
      <4>1. RestoreSize[arm64] = 24
        BY <3>1 DEF Sizes
      <4>2. cbTarget <= 12
        BY <2>2, <3>1, Zenon
      <4> QED BY <2>2, <4>1, <4>2
    <3>2. CASE arm64 = FALSE
      <4>1. RestoreSize[arm64] = 30
        BY <3>2 DEF Sizes
      <4>2. cbTarget <= 19
        BY <2>2, <3>2, Zenon
      <4> QED BY <2>2, <4>1, <4>2
    <3> QED BY <2>2, <3>1, <3>2
  <2>4. CASE arm64 = TRUE
    <3>0. Growth = 6 /\ cbTarget <= 12
      BY <2>2, <2>4, Zenon DEF Growth
    <3>a. last.obTrampoline <= 6 * last.obTarget
      BY <2>1, <3>0, Zenon
    <3> HIDE DEF last
    <3>b. \A a \in 0..255 : \A b, c \in Nat : b <= 6 * a /\ a <= c /\ c <= 12 => b <= 72
      OBVIOUS
    <3>1. code <= 72
      BY <2>1, <2>2, <3>0, <3>a, <3>b, Zenon
    <3>2. CodeSize[arm64] = 128 /\ JumpBackSize[arm64] = 16
      BY <2>4 DEF Sizes
    <3>3. phase # "broken" /\ code + JumpBackSize[arm64] <= CodeSize[arm64]
      BY <2>2, <3>1, <3>2
    <3> QED BY <2>2, <2>3, <2>4, <3>1, <3>3, Zenon DEF Room
  <2>5. CASE arm64 = FALSE
    <3>1. CodeSize[arm64] = 30 /\ JumpBackSize[arm64] = 6 /\ JumpSize[arm64] = 5
      BY <2>5 DEF Sizes
    <3>2. short => code <= 24
      <4>1. CASE L = 0
        BY <2>2, <4>1 DEF EndOf
      <4>2. CASE L # 0
        <5>1. L \in DOMAIN rAlign /\ last = rAlign[L]
          BY <2>1, <4>2 DEF EndOf
        <5> DEFINE p == EndOf(L - 1)
        <5>2. p.obTarget < 5
          BY <1>1, <3>1, <5>1 DEF IInv, AlignInv
        <5>3. p.obTrampoline = Start(L) /\ p.obTarget \in Nat /\ p.obTrampoline \in Nat
              /\ p.obTrampoline <= 3 * p.obTarget
          <6>1. CASE L = 1
            BY <6>1 DEF EndOf
          <6>2. CASE L # 1
            <7>1. L - 1 \in DOMAIN rAlign /\ L - 1 # 0
              BY <2>1, <4>2, <6>2
            <7>2. p = rAlign[L - 1]
              BY <7>1 DEF EndOf
            <7>3. \A e \in Entry8 : e.obTarget \in Nat /\ e.obTrampoline \in Nat
              BY DEF Entry8
            <7>a. rAlign[L - 1].obTarget \in Nat /\ rAlign[L - 1].obTrampoline \in Nat
              BY <2>1, <7>1, <7>3, Zenon
            <7>4. p.obTarget \in Nat /\ p.obTrampoline \in Nat
              BY <7>2, <7>a, Zenon
            <7>5. p.obTrampoline <= 3 * p.obTarget
              BY <1>1, <2>5, <7>1, <7>2 DEF IInv, AlignInv
            <7> QED BY <6>2, <7>2, <7>4, <7>5
          <6> QED BY <6>1, <6>2
        <5>4. short => last.obTrampoline - Start(L) <= 12
          BY <5>1
        <5> HIDE DEF p, last, short
        <5>5. ASSUME NEW a \in Nat, NEW b \in Nat, NEW c \in Nat, a < 5, b <= 3 * a, c - b <= 12
              PROVE  c <= 24
          BY <5>5, SMT
        <5>a. \A a \in 0..255 : a \in Nat
          OBVIOUS
        <5>6. last.obTrampoline \in Nat
          BY <2>1, <5>a, Zenon
        <5>7. short => last.obTrampoline <= 24
          BY <5>2, <5>3, <5>4, <5>5, <5>6, Zenon
        <5> QED BY <2>2, <5>7
      <4> QED BY <4>1, <4>2
    <3> HIDE DEF last, short
    <3>3. short => phase # "broken" /\ code + JumpBackSize[arm64] <= CodeSize[arm64]
      BY <2>2, <3>1, <3>2
    <3>4. cbTarget <= 19
      BY <2>2, <2>5
    <3> QED BY <2>3, <2>5, <3>3, <3>4, Zenon DEF Room, short
  <2> QED BY <2>2, <2>4, <2>5
<1> QED BY <1>1, IInvAlways, PTL

-----------------------------------------------------------------------------
(* Where what is copied leads.                                             *)

\* Which entries have an offset to be adjusted.
LEMMA RelativeEntries ==
  ASSUME NEW e \in Entries
  PROVE  /\ e.rel > 0 => e \in {CopyBytes2CantJump, CopyBytes3Or5Target, XBegin, Jump}
         /\ e.rel > 0 => e.mod = 0
         /\ CopyBytes3Or5Target.rel = 1 /\ XBegin.rel = 2 /\ Jump.rel = 1
         /\ Jump # CopyBytes3Or5Target /\ Jump # XBegin
  BY DEF Entries, Entry, CopyBytes1, CopyBytes1Address, CopyBytes2, CopyBytes2CantJump,
         CopyBytes3, CopyBytes3Or5, CopyBytes3Or5Rax, CopyBytes3Or5Target, CopyBytes4,
         CopyBytes2Mod, CopyBytes2Mod1, CopyBytes2ModOperand, CopyBytes3Mod, CopyBytes3Mod1,
         CopyBytesXop, CopyBytesXop1, CopyBytesXop4, XBegin, Jump, Invalid

\* Only the jumps and XBEGIN of map 0 have the entries of these.
LEMMA JumpEntries ==
  ASSUME NEW i \in Instructions, NEW d
  PROVE  /\ EntryOf(d, i) = Jump =>
              i.op \in {"74", "EB"} /\ ~d.vex /\ i.esc # "0F" /\ ~(i.esc = "REX2" /\ i.m = 1)
         /\ EntryOf(d, i) = XBegin =>
              i.op = "C7" /\ i.reg = 7 /\ ~d.vex /\ i.esc # "0F" /\ ~(i.esc = "REX2" /\ i.m = 1)
<1> DEFINE Rest == {CopyBytes1, CopyBytes1Address, CopyBytes2, CopyBytes2CantJump, CopyBytes3,
           CopyBytes3Or5, CopyBytes3Or5Rax, CopyBytes3Or5Target, CopyBytes4, CopyBytes2Mod,
           CopyBytes2Mod1, CopyBytes2ModOperand, CopyBytes3Mod, CopyBytes3Mod1, CopyBytesXop,
           CopyBytesXop1, CopyBytesXop4, Invalid}
<1>1. Jump \notin Rest /\ XBegin \notin Rest /\ Jump # XBegin
  BY DEF Entry, CopyBytes1, CopyBytes1Address, CopyBytes2, CopyBytes2CantJump,
         CopyBytes3, CopyBytes3Or5, CopyBytes3Or5Rax, CopyBytes3Or5Target, CopyBytes4,
         CopyBytes2Mod, CopyBytes2Mod1, CopyBytes2ModOperand, CopyBytes3Mod, CopyBytes3Mod1,
         CopyBytesXop, CopyBytesXop1, CopyBytesXop4, XBegin, Jump, Invalid
<1>2. /\ CopyF6(i) \in Rest /\ CopyF7(i) \in Rest /\ (~(i.reg = 7) => CopyC7(i) \in Rest)
      /\ CopyFF(i) \in Rest /\ CopyXop(i) \in Rest /\ Copy0F78(d) \in Rest
      /\ CopyC7(i) \in Rest \cup {XBegin}
  BY DEF CopyF6, CopyF7, CopyC7, CopyFF, CopyXop, Copy0F78
<1>3. TwoByte(d, i) \in Rest
  BY <1>2 DEF TwoByte
<1>4. Vex(d, i) \in Rest
  BY <1>3 DEF Vex
<1>5. i.op \notin {"74", "EB", "C7"} => OneByte(i) \in Rest
  BY <1>2 DEF OneByte
<1>6. i.op = "C7" => OneByte(i) = CopyC7(i)
  BY Zenon DEF OneByte
<1>7. i.op \in {"74", "EB"} => OneByte(i) = Jump
  BY Zenon DEF OneByte
<1> HIDE DEF Rest
<1>8. /\ OneByte(i) = Jump => i.op \in {"74", "EB"}
      /\ OneByte(i) = XBegin => i.op = "C7" /\ i.reg = 7
  BY <1>1, <1>2, <1>5, <1>6, <1>7
<1> QED BY <1>1, <1>3, <1>4, <1>8 DEF EntryOf

\* The offset of an instruction that leads, or reads, elsewhere has four bytes in its copy,
\* and no other has one.
LEMMA LegalRelative ==
  ASSUME NEW i \in Instructions, Legal(i), NEW d, ToldAll(d, i), i.op # "E0", ~ShortXBegin(i)
  PROVE  LET e == EntryOf(d, i) IN
           /\ e = Jump => i.esc = "none" /\ i.op \in {"74", "EB"}
           /\ e # Jump /\ e.rel > 0 => Size(d, e, i) - e.rel = 4
           /\ e # Jump /\ IsRelative(i) => e.rel > 0
           /\ ReadsNear(i) => e.mod > 0 /\ e.rel = 0
<1> DEFINE e == EntryOf(d, i)
<1>1. /\ i.esc \in {"none", "0F", "REX2", "VEX2", "VEX3", "EVEX"}
      /\ d.vex <=> i.esc \in {"VEX2", "VEX3", "EVEX"}
  BY InstructionFacts DEF ToldAll, IsVex
<1>2. e \in Entries /\ e # CopyBytes2CantJump
  BY EntryOfEntries, NoEnlarge
<1>3. /\ i.esc = "REX2" /\ i.m = 0 => i.op \in {"8B", "83", "81", "B8", "A9", "A1"}
      /\ i.esc = "REX2" => i.m \in {0, 1}
      /\ i.esc = "REX2" /\ i.m = 1 => i.op \in {"10", "B6", "A4"}
      /\ i.esc \in {"VEX2", "VEX3"} => (i.m = 1 /\ i.op \in {"10", "77", "C2"}) \/ i.m \in {2, 3}
      /\ i.esc = "EVEX" => (i.m \in {1, 5} /\ i.op \in {"10", "78", "C2"}) \/ i.m \in {2, 3, 6}
  BY Zenon DEF Legal
<1>4. e = Jump => i.esc = "none" /\ i.op \in {"74", "EB"}
  BY <1>1, <1>3, JumpEntries
<1>5. e = XBegin => i.esc = "none" /\ i.op = "C7" /\ i.reg = 7
  BY <1>1, <1>3, JumpEntries
<1>6. e.rel > 0 => e \in {CopyBytes3Or5Target, XBegin, Jump} /\ Size(d, e, i) = FixedSize(d, e)
  <2>1. e.rel > 0 => e \in {CopyBytes3Or5Target, XBegin, Jump} /\ e.mod = 0
    BY <1>2, RelativeEntries
  <2> HIDE DEF e
  <2>a. FixedSize(d, e) \in 0..13
    BY <1>2, SizeFacts
  <2>2. FixedSize(d, e) \in Int
    BY <2>a
  <2>3. e.mod = 0 => Size(d, e, i) = FixedSize(d, e) + 0
    BY Zenon DEF Size
  <2> QED BY <2>1, <2>2, <2>3
<1>7. e # Jump /\ e.rel > 0 => Size(d, e, i) - e.rel = 4
  <2>1. e = XBegin => ~(d.operand /\ ~d.rax /\ ~d.vex)
    BY <1>5 DEF ShortXBegin, ToldAll
  <2>2. e = XBegin => FixedSize(d, e) = 6
    BY <2>1, FixedSizes DEF Is
  <2>3. e = CopyBytes3Or5Target => FixedSize(d, e) = 5
    BY FixedSizes DEF Is
  <2> HIDE DEF e
  <2> QED BY <1>2, <1>6, <2>2, <2>3, RelativeEntries
<1>8. e # Jump /\ IsRelative(i) => e.rel > 0
  <2> SUFFICES ASSUME IsRelative(i), e # Jump PROVE e.rel > 0
    OBVIOUS
  <2>1. \/ i.esc = "none" /\ i.op \in {"74", "EB", "E8", "E9"}
        \/ i.esc = "none" /\ i.op = "C7" /\ i.reg = 7
        \/ i.esc = "0F" /\ i.op = "85"
    <3>1. /\ i.esc = "none" => MapOf(i) = 0
          /\ i.esc = "0F" => MapOf(i) \in {1, 2, 3}
          /\ i.esc \notin {"none", "0F"} => MapOf(i) = i.m
      BY Zenon DEF MapOf
    <3> QED BY <1>1, <1>3, <3>1 DEF IsRelative
  <2>2. CASE i.esc = "none"
    <3>1. e = OneByte(i)
      BY <1>1, <2>2 DEF EntryOf
    <3>2. i.op \in {"74", "EB"} => OneByte(i) = Jump
      BY Zenon DEF OneByte
    <3>3. i.op \in {"E8", "E9"} => OneByte(i) = CopyBytes3Or5Target
      BY Zenon DEF OneByte
    <3>4. i.op = "C7" => OneByte(i) = CopyC7(i)
      BY Zenon DEF OneByte
    <3>5. i.op = "C7" => i.reg = 0 \/ (i.reg = 7 /\ i.rm = "reg")
      BY <2>2, Zenon DEF Legal
    <3>6. e \in {CopyBytes3Or5Target, XBegin}
      BY <2>1, <2>2, <3>1, <3>2, <3>3, <3>4, <3>5 DEF CopyC7
    <3> QED BY <1>2, <3>6, RelativeEntries
  <2>3. CASE i.esc = "0F"
    <3>1. e = TwoByte(d, i)
      BY <1>1, <2>3 DEF EntryOf
    <3>2. i.op = "85" => TwoByte(d, i) = CopyBytes3Or5Target
      BY Zenon DEF TwoByte
    <3> QED BY <1>2, <2>1, <2>3, <3>1, <3>2, RelativeEntries
  <2> QED BY <2>1, <2>2, <2>3
<1>9. ReadsNear(i) => e.mod > 0 /\ e.rel = 0
  <2> SUFFICES ASSUME ReadsNear(i) PROVE e.mod > 0 /\ e.rel = 0
    OBVIOUS
  <2>1. e.mod # 0
    BY LegalMeasured DEF Measured, ReadsNear
  <2>2. e.mod \in {0, 1, 2, 4} /\ e.rel \in 0..2
    BY <1>2, EntriesFacts
  <2>3. e.rel > 0 => e.mod = 0
    BY <1>2, RelativeEntries
  <2> HIDE DEF e
  <2> QED BY <2>1, <2>2, <2>3
<1> HIDE DEF e
<1> QED BY <1>4, <1>7, <1>8, <1>9 DEF e

\* A number that fits is stored whole.
LEMMA StoredWhole ==
  ASSUME NEW x \in Int, Fits(x, 4)
  PROVE  Stored(x, 4) = x
<1>1. Limit(4) = LongLimit /\ LongLimit \in Nat \ {0}
  BY DisassemblerAssumption DEF Limit
<1>2. \A h \in Nat \ {0}, y \in Int : -h <= y /\ y < h => ((y + h) % (2 * h)) - h = y
  BY SMT
<1> QED BY <1>1, <1>2 DEF Fits, Stored

\* The instruction that the copy is takes as many bytes as the code says.
LEMMA BecomesLength ==
  ASSUME NEW i \in Instructions, IsJump(i), i.esc = "none", i.op \in {"74", "EB"}
  PROVE  /\ Length(i) \in Nat
         /\ Length(Becomes(i)) = Length(i) + Enlarged(i)
<1> DEFINE b == Becomes(i)
           L == Len(i.prefixes)
<1>1. L \in Nat /\ b.prefixes = i.prefixes /\ b.op \in {"E9", "85"}
  BY InstructionFacts DEF Becomes, Instructions
<1>2. Length(i) = L + 2
  <2>1. MapOf(i) = 0 /\ ~IsXop(i)
    BY Zenon DEF MapOf, IsXop
  <2>2. ImmediateBytes(i) = 1
    BY <2>1, Zenon DEF ImmediateBytes
  <2>3. OpcodeBytes(i) = 1 /\ ~HasModRm(i)
    BY <2>1 DEF OpcodeBytes, HasModRm
  <2> HIDE DEF L
  <2> QED BY <1>1, <2>2, <2>3 DEF Length, L
<1>3. CASE i.op = "EB"
  <2>1. b.op = "E9" /\ b.esc = "none" /\ Enlarged(i) = 3
    BY <1>3 DEF Becomes, Enlarged, Instructions
  <2> HIDE DEF b
  <2>2. MapOf(b) = 0 /\ ~IsXop(b)
    BY <2>1, Zenon DEF MapOf, IsXop
  <2>3. ImmediateBytes(b) = 4
    BY <2>1, <2>2, Zenon DEF ImmediateBytes
  <2>4. OpcodeBytes(b) = 1 /\ ~HasModRm(b)
    BY <2>1, <2>2 DEF OpcodeBytes, HasModRm
  <2>5. Length(b) = L + 5
    <3> HIDE DEF L
    <3> QED BY <1>1, <2>3, <2>4 DEF Length, L
  <2> HIDE DEF L
  <2> QED BY <1>1, <1>2, <2>1, <2>5 DEF b
<1>4. CASE i.op = "74"
  <2>1. b.op = "85" /\ b.esc = "0F" /\ Enlarged(i) = 4
    BY <1>4 DEF Becomes, Enlarged, Instructions
  <2> HIDE DEF b
  <2>2. MapOf(b) = 1 /\ MapOf(b) \notin {0, 3} /\ ~IsXop(b)
    BY <2>1 DEF MapOf, IsXop
  <2>3. ImmediateBytes(b) = 4
    BY <2>1, <2>2, Zenon DEF ImmediateBytes
  <2>4. OpcodeBytes(b) = 2 /\ ~HasModRm(b)
    BY <2>1, <2>2 DEF OpcodeBytes, HasModRm
  <2>5. Length(b) = L + 6
    <3> HIDE DEF L
    <3> QED BY <1>1, <2>3, <2>4 DEF Length, L
  <2> HIDE DEF L
  <2> QED BY <1>1, <1>2, <2>1, <2>5 DEF b
<1> HIDE DEF b, L
<1>5. Length(i) \in Nat
  BY <1>1, <1>2
<1> QED BY <1>3, <1>4, <1>5 DEF b

\* The copy of an instruction at any distance.
LEMMA LeadsOn ==
  ASSUME NEW i \in Instructions, Legal(i), CopyInstruction(i).ok, i.op # "E0", ~ShortXBegin(i),
         NEW far \in Int
  PROVE  LET old == Length(i)
             new == Length(Becomes(i))
         IN  /\ CopyInstruction(i).n + Extra(i, far) = new
             /\ (IsRelative(i) \/ ReadsNear(i)) =>
                  LET target == old + i.rel - far - new
                  IN  Fits(target, 4) => NewOffset(i, far) = target
<1> DEFINE d == AtOpcode(i)
           e == EntryOf(d, i)
           o == OffsetSize(i)
           old == Length(i)
           new == Length(Becomes(i))
           target == old + i.rel - far - new
<1>1. CopyInstruction(i).n = old /\ old \in Int
  <2>1. CopyInstruction(i).n = old
    BY LegalEnd
  <2>2. CopyInstruction(i).n \in 1..MaxLength
    BY ExtraFacts
  <2> QED BY <2>1, <2>2
<1>2. i.rel \in Int
  BY DEF Instructions
<1>3. /\ e = Jump => i.esc = "none" /\ i.op \in {"74", "EB"}
      /\ e # Jump /\ e.rel > 0 => Size(d, e, i) - e.rel = 4
      /\ e # Jump /\ IsRelative(i) => e.rel > 0
      /\ ReadsNear(i) => e.mod > 0 /\ e.rel = 0
  BY AtOpcodeTold, LegalRelative
<1>4. CASE IsJump(i)
  <2>1. e = Jump /\ Enlarged(i) \in {3, 4} /\ Extra(i, far) = Enlarged(i)
    BY <1>4 DEF IsJump, Enlarged, Extra
  <2>2. new = old + Enlarged(i)
    BY <1>3, <1>4, <2>1, BecomesLength
  <2>3. NewOffset(i, far) = Stored(i.rel - (far + Enlarged(i)), 4)
    BY <1>4 DEF NewOffset
  <2> HIDE DEF old, new, e
  <2>4. target = i.rel - (far + Enlarged(i)) /\ target \in Int
    BY <1>1, <1>2, <2>1, <2>2
  <2> HIDE DEF target
  <2>5. Fits(target, 4) => NewOffset(i, far) = target
    BY <2>3, <2>4, StoredWhole
  <2>6. CopyInstruction(i).n + Extra(i, far) = new
    BY <1>1, <2>1, <2>2
  <2> QED BY <2>5, <2>6 DEF target, old, new
<1>5. CASE ~IsJump(i)
  <2>1. e # Jump /\ new = old /\ NewOffset(i, far) = Stored(i.rel - far, o)
    BY <1>5 DEF IsJump, Becomes, NewOffset
  <2>2. o = IF e.rel > 0 THEN Size(d, e, i) - e.rel ELSE IF e.mod > 0 /\ i.rm = "rip" THEN 4 ELSE 0
    BY DEF OffsetSize
  <2>3. o \in {0, 4} /\ (IsRelative(i) \/ ReadsNear(i) => o = 4)
    <3>1. ReadsNear(i) => i.rm = "rip"
      BY DEF ReadsNear
    <3> HIDE DEF e, d, o
    <3> QED BY <1>3, <2>1, <2>2, <3>1
  <2>4. Extra(i, far) = 0
    <3> HIDE DEF e, d
    <3> QED BY <1>5, <2>3 DEF Extra, o
  <2> HIDE DEF old, new, e, o
  <2>5. target = i.rel - far /\ target \in Int /\ CopyInstruction(i).n + Extra(i, far) = new
    BY <1>1, <1>2, <2>1, <2>4
  <2> HIDE DEF target
  <2>6. (IsRelative(i) \/ ReadsNear(i)) /\ Fits(target, 4) => NewOffset(i, far) = target
    BY <2>1, <2>3, <2>5, StoredWhole
  <2> QED BY <2>5, <2>6 DEF target, old, new
<1> QED BY <1>4, <1>5

\* How far rbCode and the target are apart is a number.
Distances == delta \in Int /\ cbTarget \in Int /\ code \in Int

LEMMA DistancesNext ==
  ASSUME NoLoops
  PROVE  LoopInv /\ Distances /\ [Next]_vars => Distances'
<1> SUFFICES ASSUME LoopInv, Distances, [Next]_vars PROVE Distances'
  OBVIOUS
<1>1. ASSUME NEW arm \in BOOLEAN, NEW p \in Places[arm], Begin(arm, p) PROVE Distances'
  <2>1. p[2] \in Int
    BY CopyLoopAssumption
  <2> QED BY <1>1, <2>1 DEF Begin, Clear, Distances
<1>2. CASE Fetch
  BY <1>2 DEF Fetch, where, Distances
<1>3. CASE Refuse \/ Unfit
  BY <1>3 DEF Refuse, Unfit, Fail, Clear, Distances
<1>4. CASE Copy
  <2>1. delta' = delta
    BY <1>4 DEF Copy, where
  <2>2. CASE arm64
    <3>1. cbTarget' = cbTarget + 4 /\ code' = code + 4 * Len(Copied)
      BY <1>4, <2>2 DEF Copy
    <3>2. Len(Copied) \in Int
      <4>1. Short(Copied, 6)
        BY CopyShort, Zenon DEF Copied
      <4> QED BY <4>1 DEF Short
    <3> QED BY <2>1, <3>1, <3>2 DEF Distances
  <2>3. CASE ~arm64
    <3> DEFINE n == CopyInstruction(instr).n
               extra == Extra(instr, Distance)
    <3>1. /\ CopyInstruction(instr).ok
          /\ cbTarget' = cbTarget + n
          /\ code' = code + n + extra
      BY <1>4, <2>3 DEF Copy
    <3>2. instr \in First[FALSE] \cup Later[FALSE]
      BY <1>4, <2>3 DEF Copy, LoopInv, InstrOK
    <3>3. instr \in Instructions /\ instr.op # "E0"
      BY <3>2, CopyLoopAssumption DEF NoLoops
    <3>4. n \in 1..MaxLength /\ extra \in 0..4
      BY <3>1, <3>3, ExtraFacts
    <3> HIDE DEF n, extra
    <3> QED BY <2>1, <3>1, <3>4 DEF Distances
  <2> QED BY <2>2, <2>3
<1>5. ASSUME NEW size \in Fillers[arm64], Fill(size) PROVE Distances'
  <2>1. size \in Int
    BY CopyLoopAssumption DEF LoopInv, InstrOK
  <2> QED BY <1>5, <2>1 DEF Fill, where, Distances
<1>6. CASE Finish
  BY <1>6 DEF Finish, where, Distances
<1>7. CASE UNCHANGED vars
  BY <1>7 DEF vars, where, Distances
<1> QED BY <1>1, <1>2, <1>3, <1>4, <1>5, <1>6, <1>7 DEF Next

\* For all instructions but LOOPcc, JCXZ and XBEGIN with an offset of two bytes: what is
\* moved leads, or reads, where it did, and its copy takes as many bytes as the loop goes
\* on by, whatever the sizes, the places and the prefixes are.
THEOREM CopiesLeadOn ==
  ASSUME NoLoops, NoShortXBegins
  PROVE  Spec => []TargetsKept
<1>1. Init => Distances
  BY DEF Init, Distances
<1>2. LoopInv /\ Distances => TargetsKept
  <2> SUFFICES ASSUME LoopInv, Distances, instr # None, ~arm64, Legal(instr),
                      CopyInstruction(instr).ok
               PROVE  LET old == Length(instr)
                          new == Length(Becomes(instr))
                      IN  /\ CopyInstruction(instr).n + Extra(instr, Distance) = new
                          /\ (IsRelative(instr) \/ ReadsNear(instr)) =>
                               LET target == old + instr.rel - Distance - new
                               IN  Fits(target, 4) => NewOffset(instr, Distance) = target
    BY Zenon DEF TargetsKept
  <2>1. instr \in First[FALSE] \cup Later[FALSE]
    BY DEF LoopInv, InstrOK
  <2>2. instr \in Instructions /\ instr.op # "E0" /\ ~ShortXBegin(instr)
    BY <2>1, CopyLoopAssumption DEF NoLoops, NoShortXBegins
  <2>3. Distance \in Int
    BY DEF Distance, Distances
  <2> QED BY <2>2, <2>3, LeadsOn, Zenon
<1>3. Distances /\ LoopInv /\ LoopInv' /\ [Next]_vars => Distances'
  BY DistancesNext
<1> QED BY <1>1, <1>2, <1>3, LoopAlways, PTL DEF Spec
-----------------------------------------------------------------------------
(* Numbers of four pieces.                                                 *)

\* Numbers divided by another, and what is left.
LEMMA Division ==
  ASSUME NEW b \in Nat \ {0}, NEW q \in Int, NEW r \in Int, 0 <= r, r < b
  PROVE  (b * q + r) \div b = q /\ (b * q + r) % b = r
<1>1. (b * q + r) \div b = q
  BY SMT
<1>2. (b * q + r) % b = r
  BY SMT
<1> QED BY <1>1, <1>2

\* Both of them, of any number.
LEMMA Divided ==
  ASSUME NEW a \in Int, NEW b \in Nat \ {0}
  PROVE  /\ a \div b \in Int /\ a % b \in Int /\ a = b * (a \div b) + (a % b)
         /\ 0 <= a % b /\ a % b < b
  BY SMT

\* A product of numbers up to these.
LEMMA Grows ==
  ASSUME NEW a \in Nat \ {0}, NEW b \in Nat \ {0}, NEW x \in Int, NEW y \in Int,
         0 <= x, x < a, 0 <= y, y < b
  PROVE  a * b \in Nat \ {0} /\ 0 <= x + a * y /\ x + a * y < a * b /\ x + a * y \in Int
<1>1. a * b \in Nat \ {0} /\ a * y \in Int
  BY SMT
<1>2. y + 1 <= b
  BY SMT
<1>3. a * (y + 1) <= a * b /\ a * (y + 1) = a * y + a
  BY <1>2, SMT
<1>4. 0 <= a * y
  BY SMT
<1> QED BY <1>1, <1>3, <1>4, SMT

\* Registers hold numbers of four pieces.
LEMMA Weights ==
  /\ PieceSize \in Nat \ {0} /\ PieceSize > 1
  /\ WSize \in Nat \ {0} /\ WSize * PieceSize \in Nat \ {0} /\ XSize \in Nat \ {0}
  /\ XSize = PieceSize * (PieceSize * (PieceSize * PieceSize))
  /\ WSize * PieceSize = PieceSize * (PieceSize * PieceSize)
  /\ PieceSize <= WSize /\ WSize <= XSize
  /\ Weight(0) = 1 /\ Weight(1) = PieceSize /\ Weight(2) = WSize
  /\ Weight(3) = WSize * PieceSize
<1>1. PieceSize \in Nat \ {0} /\ PieceSize > 1
  BY InstructionSetARM64Assumption
<1>2. /\ Weight(0) = 1 /\ Weight(1) = PieceSize /\ Weight(2) = WSize
      /\ Weight(3) = WSize * PieceSize
  BY DEF Weight
<1>a. \A p \in Nat \ {0} : p * p \in Nat \ {0} /\ p <= p * p
  BY SMT
<1>b. \A p, q \in Nat \ {0} : p * q \in Nat \ {0}
  BY SMT
<1>3. WSize \in Nat \ {0} /\ PieceSize <= WSize
  BY <1>1, <1>a DEF WSize
<1>4. WSize * PieceSize \in Nat \ {0} /\ XSize \in Nat \ {0} /\ WSize <= XSize
  BY <1>1, <1>3, <1>a, <1>b DEF XSize
<1>5. \A p \in Nat : (p * p) * (p * p) = p * (p * (p * p)) /\ (p * p) * p = p * (p * p)
  BY SMT
<1>6. /\ XSize = PieceSize * (PieceSize * (PieceSize * PieceSize))
      /\ WSize * PieceSize = PieceSize * (PieceSize * PieceSize)
  BY <1>1, <1>5 DEF XSize, WSize
<1> QED BY <1>1, <1>2, <1>3, <1>4, <1>6

Pieces4 == [0..3 -> 0..PieceSize - 1]

\* The number with these pieces.
Sum4(g) == g[0] + PieceSize * (g[1] + PieceSize * (g[2] + PieceSize * g[3]))

\* The parts of a number of four pieces.
LEMMA FourPieces ==
  ASSUME NEW a \in 0..PieceSize - 1, NEW b \in 0..PieceSize - 1, NEW c \in 0..PieceSize - 1,
         NEW d \in Int,
         NEW x, x = a + PieceSize * (b + PieceSize * (c + PieceSize * d))
  PROVE  /\ x \in Int
         /\ Piece(x, 0) = a /\ Piece(x, 1) = b /\ Piece(x, 2) = c
         /\ x \div Weight(3) = d
         /\ d \in 0..PieceSize - 1 => x \in 0..XSize - 1
<1> DEFINE P == PieceSize
           t2 == c + P * d
           t1 == b + P * t2
           s1 == a + P * b
           s2 == s1 + WSize * c
<1>1. P \in Nat \ {0} /\ a \in Int /\ b \in Int /\ c \in Int
  BY Weights
<1> HIDE DEF P
<1>a. /\ 0 <= a /\ a < P /\ 0 <= b /\ b < P /\ 0 <= c /\ c < P
  BY Weights DEF P
<1>2. t2 \in Int
  BY <1>1
<1> HIDE DEF t2
<1>3. t1 \in Int
  BY <1>1, <1>2
<1> HIDE DEF t1
<1>4. x = P * t1 + a /\ x \in Int
  <2>1. x = a + P * t1
    BY DEF t1, t2, P
  <2> QED BY <1>1, <1>3, <2>1
<1>5. s1 \in Int /\ 0 <= s1 /\ s1 < WSize
  BY <1>1, <1>a, Grows DEF WSize, P
<1>6. x = WSize * t2 + s1
  <2>1. P * (b + P * t2) = P * b + (P * P) * t2
    BY <1>1, <1>2, SMT
  <2>2. WSize = P * P
    BY DEF WSize, P
  <2> QED BY <1>1, <1>2, <1>4, <2>1, <2>2 DEF t1
<1> HIDE DEF s1
<1>7. s2 \in Int /\ 0 <= s2 /\ s2 < WSize * P
  BY <1>1, <1>a, <1>5, Weights, Grows
<1>8. x = (WSize * P) * d + s2
  <2>1. WSize \in Nat
    BY Weights
  <2>2. WSize * (c + P * d) = WSize * c + (WSize * P) * d
    BY <1>1, <2>1, SMT
  <2> QED BY <1>1, <1>5, <1>6, <2>1, <2>2 DEF t2
<1> HIDE DEF s2
<1>9. Piece(x, 0) = a
  <2>1. Piece(x, 0) = (x \div 1) % P
    BY Weights DEF Piece, P
  <2>2. x \div 1 = x
    BY <1>4, SMT
  <2>3. (P * t1 + a) % P = a
    BY <1>1, <1>3, <1>a, Division
  <2> QED BY <1>4, <2>1, <2>2, <2>3
<1>10. Piece(x, 1) = b
  <2>1. Piece(x, 1) = (x \div P) % P
    BY Weights DEF Piece, P
  <2>2. x \div P = t1
    BY <1>1, <1>3, <1>4, <1>a, Division
  <2>3. t1 = P * t2 + b
    BY <1>1, <1>2 DEF t1
  <2>4. (P * t2 + b) % P = b
    BY <1>1, <1>2, <1>a, Division
  <2> QED BY <2>1, <2>2, <2>3, <2>4
<1>11. Piece(x, 2) = c
  <2>1. Piece(x, 2) = (x \div WSize) % P
    BY Weights DEF Piece, P
  <2>2. x \div WSize = t2
    BY <1>2, <1>5, <1>6, Weights, Division
  <2>3. t2 = P * d + c
    BY <1>1 DEF t2
  <2> QED BY <1>1, <1>a, <2>1, <2>2, <2>3, Division
<1>12. x \div Weight(3) = d
  <2>1. Weight(3) = WSize * P /\ WSize * P \in Nat \ {0}
    BY Weights DEF P
  <2> QED BY <1>7, <1>8, <2>1, Division
<1>13. d \in 0..P - 1 => x \in 0..XSize - 1
  <2> SUFFICES ASSUME d \in 0..P - 1 PROVE x \in 0..XSize - 1
    OBVIOUS
  <2>1. 0 <= d /\ d < P
    BY <1>1
  <2>2. WSize * P \in Nat \ {0}
    BY Weights DEF P
  <2>3. 0 <= s2 + (WSize * P) * d /\ s2 + (WSize * P) * d < (WSize * P) * P
    BY <1>1, <1>7, <2>1, <2>2, Grows
  <2>4. (WSize * P) * P = XSize
    <3>1. WSize \in Nat /\ \A w \in Nat : (w * P) * P = w * (P * P)
      BY <1>1, Weights, SMT
    <3> QED BY <3>1 DEF XSize, WSize, P
  <2>5. x = s2 + (WSize * P) * d /\ XSize \in Nat
    BY <1>1, <1>7, <1>8, <2>2, Weights
  <2> QED BY <1>4, <2>3, <2>4, <2>5
<1> QED BY <1>4, <1>9, <1>10, <1>11, <1>12, <1>13 DEF P

\* A number made of four pieces has those pieces.
LEMMA SumFacts ==
  ASSUME NEW g \in Pieces4
  PROVE  Sum4(g) \in 0..XSize - 1 /\ \A n \in 0..3 : Piece(Sum4(g), n) = g[n]
<1> DEFINE x == Sum4(g)
<1>1. g[0] \in 0..PieceSize - 1 /\ g[1] \in 0..PieceSize - 1 /\ g[2] \in 0..PieceSize - 1
      /\ g[3] \in 0..PieceSize - 1
  BY DEF Pieces4
<1>2. g[3] \in Int /\ PieceSize \in Nat \ {0}
  BY <1>1, Weights
<1>3. x = g[0] + PieceSize * (g[1] + PieceSize * (g[2] + PieceSize * g[3]))
  BY DEF Sum4
<1> HIDE DEF x
<1>4. /\ Piece(x, 0) = g[0] /\ Piece(x, 1) = g[1] /\ Piece(x, 2) = g[2]
      /\ x \div Weight(3) = g[3] /\ x \in 0..XSize - 1
  <2> DEFINE a == g[0]
             b == g[1]
             c == g[2]
             d == g[3]
  <2>1. /\ a \in 0..PieceSize - 1 /\ b \in 0..PieceSize - 1 /\ c \in 0..PieceSize - 1
        /\ d \in 0..PieceSize - 1 /\ d \in Int
        /\ x = a + PieceSize * (b + PieceSize * (c + PieceSize * d))
    BY <1>1, <1>2, <1>3
  <2> HIDE DEF a, b, c, d
  <2>2. /\ Piece(x, 0) = a /\ Piece(x, 1) = b /\ Piece(x, 2) = c
        /\ x \div Weight(3) = d /\ x \in 0..XSize - 1
    BY <2>1, FourPieces
  <2> QED BY <2>2 DEF a, b, c, d
<1>5. Piece(x, 3) = g[3]
  <2>1. \A p \in Nat \ {0} : \A y \in 0..p - 1 : y % p = y
    BY SMT
  <2> QED BY <1>1, <1>2, <1>4, <2>1 DEF Piece
<1>6. \A n \in 0..3 : n = 0 \/ n = 1 \/ n = 2 \/ n = 3
  OBVIOUS
<1> QED BY <1>4, <1>5, <1>6 DEF x

\* The pieces of any number are those of the number that a register holds of it.
LEMMA PiecesOfNumber ==
  ASSUME NEW v \in Int
  PROVE  LET g == [n \in 0..3 |-> Piece(v, n)] IN g \in Pieces4 /\ Sum4(g) = v % XSize
<1> DEFINE P == PieceSize
           q1 == v \div P   r0 == v % P
           q2 == q1 \div P  r1 == q1 % P
           q3 == q2 \div P  r2 == q2 % P
           q4 == q3 \div P  r3 == q3 % P
           s == r0 + P * (r1 + P * (r2 + P * r3))
           g == [n \in 0..3 |-> Piece(v, n)]
<1>1. P \in Nat \ {0}
  BY Weights
<1> HIDE DEF P
<1>2. q1 \in Int /\ r0 \in 0..P - 1 /\ v = P * q1 + r0
  BY <1>1, Divided
<1> HIDE DEF q1, r0
<1>3. q2 \in Int /\ r1 \in 0..P - 1 /\ q1 = P * q2 + r1
  BY <1>1, <1>2, Divided
<1> HIDE DEF q2, r1
<1>4. q3 \in Int /\ r2 \in 0..P - 1 /\ q2 = P * q3 + r2
  BY <1>1, <1>3, Divided
<1> HIDE DEF q3, r2
<1>5. q4 \in Int /\ r3 \in 0..P - 1 /\ q3 = P * q4 + r3
  BY <1>1, <1>4, Divided
<1>6. v = r0 + P * (r1 + P * (r2 + P * q3))
  BY <1>1, <1>2, <1>3, <1>4
<1>7. Piece(v, 0) = r0 /\ Piece(v, 1) = r1 /\ Piece(v, 2) = r2 /\ Piece(v, 3) = r3
  <2>1. /\ Piece(v, 0) = r0 /\ Piece(v, 1) = r1 /\ Piece(v, 2) = r2
        /\ v \div Weight(3) = q3
    BY <1>2, <1>3, <1>4, <1>6, FourPieces DEF P
  <2> QED BY <2>1 DEF Piece, r3, P
<1> HIDE DEF q4, r3
<1>8. s \in 0..XSize - 1
  <2>1. r3 \in Int
    BY <1>1, <1>5
  <2>2. /\ r0 \in 0..PieceSize - 1 /\ r1 \in 0..PieceSize - 1 /\ r2 \in 0..PieceSize - 1
        /\ r3 \in 0..PieceSize - 1
    BY <1>2, <1>3, <1>4, <1>5 DEF P
  <2>3. s = r0 + PieceSize * (r1 + PieceSize * (r2 + PieceSize * r3))
    BY DEF P
  <2> HIDE DEF s
  <2> QED BY <2>1, <2>2, <2>3, FourPieces
<1>9. v = XSize * q4 + s
  <2>1. P * (r1 + P * (r2 + P * q3)) = P * (r1 + P * (r2 + P * r3)) + (P * (P * (P * P))) * q4
    <3>1. r1 \in Int /\ r2 \in Int /\ r3 \in Int
      BY <1>1, <1>3, <1>4, <1>5
    <3>2. P * q3 = P * r3 + (P * P) * q4
      BY <1>1, <1>5, <3>1, SMT
    <3>3. P * (r2 + P * q3) = P * (r2 + P * r3) + (P * (P * P)) * q4
      BY <1>1, <1>4, <1>5, <3>1, <3>2, SMT
    <3> QED BY <1>1, <1>4, <1>5, <3>1, <3>3, SMT
  <2>2. XSize = P * (P * (P * P)) /\ XSize \in Nat
    BY Weights DEF P
  <2>3. r0 \in Int /\ P * (r1 + P * (r2 + P * r3)) \in Int
    BY <1>1, <1>2, <1>3, <1>4, <1>5
  <2> QED BY <1>5, <1>6, <2>1, <2>2, <2>3
<1>10. v % XSize = s
  <2> HIDE DEF s
  <2>1. s \in Int /\ 0 <= s /\ s < XSize /\ XSize \in Nat \ {0}
    BY <1>8, Weights
  <2> QED BY <1>5, <1>9, <2>1, Division
<1>11. /\ g[0] = r0 /\ g[1] = r1 /\ g[2] = r2 /\ g[3] = r3
       /\ \A n \in 0..3 : n = 0 \/ n = 1 \/ n = 2 \/ n = 3
  BY <1>7
<1>12. g \in Pieces4
  <2>1. \A n \in 0..3 : Piece(v, n) \in 0..PieceSize - 1
    BY <1>2, <1>3, <1>4, <1>5, <1>7, <1>11 DEF P
  <2> QED BY <2>1 DEF Pieces4
<1> HIDE DEF g
<1>13. Sum4(g) = s
  BY <1>11 DEF Sum4, P
<1> QED BY <1>10, <1>12, <1>13 DEF g

\* What MOVK, MOVZ and MOVN make of pieces.
LEMMA Movk ==
  ASSUME NEW g \in Pieces4, NEW n \in 0..3, NEW p \in 0..PieceSize - 1
  PROVE  /\ [g EXCEPT ![n] = p] \in Pieces4
         /\ Sum4(g) + (p - ((Sum4(g) \div Weight(n)) % PieceSize)) * Weight(n)
              = Sum4([g EXCEPT ![n] = p])
<1> DEFINE h == [g EXCEPT ![n] = p]
           P == PieceSize
<1>1. h \in Pieces4
  BY DEF Pieces4
<1>2. (Sum4(g) \div Weight(n)) % PieceSize = g[n]
  BY SumFacts DEF Piece
<1>3. P \in Int /\ p \in Int /\ g[0] \in Int /\ g[1] \in Int /\ g[2] \in Int /\ g[3] \in Int
  BY Weights DEF Pieces4
<1>4. h[n] = p /\ \A m \in 0..3 : m # n => h[m] = g[m]
  BY DEF Pieces4
<1>5. Weight(0) = 1 /\ Weight(1) = P /\ Weight(2) = P * P /\ Weight(3) = (P * P) * P
  BY Weights DEF WSize
<1>w. /\ Sum4(g) = g[0] + P * (g[1] + P * (g[2] + P * g[3]))
      /\ Sum4(h) = h[0] + P * (h[1] + P * (h[2] + P * h[3]))
  BY DEF Sum4
<1> HIDE DEF h, P
<1>6. Sum4(g) + (p - g[n]) * Weight(n) = Sum4(h)
  <2>1. CASE n = 0
    <3>1. h[0] = p /\ h[1] = g[1] /\ h[2] = g[2] /\ h[3] = g[3]
      BY <1>4, <2>1
    <3>2. P * (g[1] + P * (g[2] + P * g[3])) \in Int
      BY <1>3
    <3> QED BY <1>3, <1>5, <1>w, <2>1, <3>1, <3>2
  <2>2. CASE n = 1
    <3>1. h[0] = g[0] /\ h[1] = p /\ h[2] = g[2] /\ h[3] = g[3]
      BY <1>4, <2>2
    <3> QED BY <1>3, <1>5, <1>w, <2>2, <3>1, SMT
  <2>3. CASE n = 2
    <3>1. h[0] = g[0] /\ h[1] = g[1] /\ h[2] = p /\ h[3] = g[3]
      BY <1>4, <2>3
    <3> QED BY <1>3, <1>5, <1>w, <2>3, <3>1, SMT
  <2>4. CASE n = 3
    <3>1. h[0] = g[0] /\ h[1] = g[1] /\ h[2] = g[2] /\ h[3] = p
      BY <1>4, <2>4
    <3> QED BY <1>3, <1>5, <1>w, <2>4, <3>1, SMT
  <2> QED BY <2>1, <2>2, <2>3, <2>4
<1> QED BY <1>1, <1>2, <1>6 DEF h

\* All pieces the same.
LEMMA AllSame ==
  /\ [m \in 0..3 |-> 0] \in Pieces4 /\ Sum4([m \in 0..3 |-> 0]) = 0
  /\ [m \in 0..3 |-> Ones] \in Pieces4 /\ Sum4([m \in 0..3 |-> Ones]) = XSize - 1
  /\ Ones \in 0..PieceSize - 1 /\ Ones # 0
<1> DEFINE P == PieceSize
<1>1. P \in Nat /\ P > 1 /\ XSize = P * (P * (P * P))
  BY Weights
<1>2. /\ [m \in 0..3 |-> 0] \in Pieces4 /\ [m \in 0..3 |-> Ones] \in Pieces4
      /\ Ones \in 0..P - 1 /\ Ones # 0
  BY <1>1 DEF Ones, Pieces4
<1>3. \A x : Sum4([m \in 0..3 |-> x]) = x + P * (x + P * (x + P * x))
  BY DEF Sum4
<1>4. 0 + P * (0 + P * (0 + P * 0)) = 0
  BY <1>1, SMT
<1>5. (P - 1) + P * ((P - 1) + P * ((P - 1) + P * (P - 1))) = (P * (P * (P * P))) - 1
  <2> HIDE DEF P
  <2>1. P * (P - 1) = P * P - P
    BY <1>1, SMT
  <2>2. P * ((P - 1) + P * (P - 1)) = P * (P * P) - P
    BY <1>1, <2>1, SMT
  <2>3. P * ((P - 1) + P * ((P - 1) + P * (P - 1))) = P * (P * (P * P)) - P
    BY <1>1, <2>2, SMT
  <2> QED BY <1>1, <2>3
<1>6. Ones = P - 1
  BY DEF Ones
<1> QED BY <1>1, <1>2, <1>3, <1>4, <1>5, <1>6

\* MOVZ makes a number with one piece, of zeros else.
LEMMA Movz ==
  ASSUME NEW n \in 0..3, NEW p \in 0..PieceSize - 1
  PROVE  /\ [[m \in 0..3 |-> 0] EXCEPT ![n] = p] \in Pieces4
         /\ p * Weight(n) = Sum4([[m \in 0..3 |-> 0] EXCEPT ![n] = p])
<1> DEFINE g == [m \in 0..3 |-> 0]
<1>1. g \in Pieces4 /\ Sum4(g) = 0 /\ g[n] = 0
  BY AllSame
<1> HIDE DEF g
<1>2. (Sum4(g) \div Weight(n)) % PieceSize = 0
  BY <1>1, SumFacts DEF Piece
<1>3. Weight(n) \in Int /\ p \in Int
  BY Weights
<1>4. 0 + (p - 0) * Weight(n) = p * Weight(n)
  BY <1>3
<1> QED BY <1>1, <1>2, <1>4, Movk DEF g

\* MOVN makes one of ones else.
LEMMA Movn ==
  ASSUME NEW n \in 0..3, NEW p \in 0..PieceSize - 1
  PROVE  /\ [[m \in 0..3 |-> Ones] EXCEPT ![n] = p] \in Pieces4
         /\ (XSize - 1) - ((Ones - p) * Weight(n)) = Sum4([[m \in 0..3 |-> Ones] EXCEPT ![n] = p])
<1> DEFINE g == [m \in 0..3 |-> Ones]
<1>1. g \in Pieces4 /\ Sum4(g) = XSize - 1 /\ g[n] = Ones
  BY AllSame
<1> HIDE DEF g
<1>2. (Sum4(g) \div Weight(n)) % PieceSize = Ones
  BY <1>1, SumFacts DEF Piece
<1>3. Weight(n) \in Int /\ p \in Int /\ Ones \in Int /\ XSize \in Int
  BY Weights, AllSame
<1>4. (XSize - 1) + (p - Ones) * Weight(n) = (XSize - 1) - ((Ones - p) * Weight(n))
  <2>1. \A a, b, w \in Int : (a - b) * w = -((b - a) * w) /\ (b - a) * w \in Int
    BY SMT
  <2>2. \A a, b \in Int : a + (-b) = a - b
    OBVIOUS
  <2> QED BY <1>3, <2>1, <2>2
<1> QED BY <1>1, <1>2, <1>4, Movk DEF g

-----------------------------------------------------------------------------
(* What instructions of ARM64 do, one after the other.                     *)

After4(here) == here + 4

Same(p, q) == p = q

\* A step of Effect: an instruction that control does not come to does nothing.
StepOf(s, c, here, holds, held, place) ==
  IF s.pc # here THEN s
  ELSE [pc |-> Onward(c, here, s.x, holds),
        x |-> [s.x EXCEPT ![c.r] = Changed(c, here, s.x, held, place)],
        call |-> c.op \in {"bl", "blr"}]

\* The states that m steps lead through.
StepsOf(f, m, seq, a, x0, holds, held, place) ==
  /\ f[0] = [pc |-> a, x |-> x0, call |-> FALSE]
  /\ \A n \in 1..m : f[n] = StepOf(f[n - 1], seq[n], a + 4 * (n - 1), holds, held, place)

\* What code does is what its steps lead through.
LEMMA EffectSteps ==
  ASSUME NEW seq, Len(seq) \in Nat, NEW a, NEW x0, NEW holds, NEW held, NEW place
  PROVE  \E f : /\ StepsOf(f, Len(seq), seq, a, x0, holds, held, place)
                /\ Effect(seq, a, x0, holds, held, place) = f[Len(seq)]
<1> DEFINE Start == [pc |-> a, x |-> x0, call |-> FALSE]
           Go(s, n) == StepOf(s, seq[n], a + 4 * (n - 1), holds, held, place)
           RunIs(f, m) == f = [n \in 0..m |-> IF n = 0 THEN Start ELSE Go(f[n - 1], n)]
           Goes(m) == \E f : RunIs(f, m)
           Without == {m \in 0..Len(seq) : ~Goes(m)}
           L == Len(seq)
<1>1. L \in Nat
  OBVIOUS
<1> HIDE DEF Go, Start, L
<1>2. Goes(0)
  <2> DEFINE f == [n \in 0..0 |-> Start]
  <2>1. f = [n \in 0..0 |-> IF n = 0 THEN Start ELSE Go(f[n - 1], n)]
    OBVIOUS
  <2> HIDE DEF f
  <2> QED BY <2>1
<1>3. ASSUME NEW m \in Nat, NEW f, RunIs(f, m) PROVE Goes(m + 1)
  <2> DEFINE g == [n \in 0..m + 1 |-> IF n = m + 1 THEN Go(f[m], m + 1) ELSE f[n]]
  <2>1. \A n \in 0..m : n \in 0..m + 1 /\ n # m + 1 /\ g[n] = f[n]
    OBVIOUS
  <2>2. g[m + 1] = Go(g[m], m + 1)
    BY <2>1
  <2>3. \A n \in 0..m + 1 : g[n] = IF n = 0 THEN Start ELSE Go(g[n - 1], n)
    <3>1. ASSUME NEW n \in 0..m PROVE g[n] = IF n = 0 THEN Start ELSE Go(g[n - 1], n)
      <4>1. f[n] = IF n = 0 THEN Start ELSE Go(f[n - 1], n)
        BY <1>3
      <4>2. n # 0 => n - 1 \in 0..m
        OBVIOUS
      <4> HIDE DEF g
      <4> QED BY <2>1, <4>1, <4>2
    <3>2. \A n \in 0..m + 1 : n \in 0..m \/ n = m + 1
      OBVIOUS
    <3>3. m + 1 # 0 /\ m + 1 - 1 = m
      OBVIOUS
    <3> HIDE DEF g
    <3> QED BY <2>2, <3>1, <3>2, <3>3
  <2>4. RunIs(g, m + 1)
    <3>1. g = [n \in 0..m + 1 |-> g[n]]
      OBVIOUS
    <3> HIDE DEF g
    <3> QED BY <2>3, <3>1
  <2> HIDE DEF g, RunIs
  <2> QED BY <2>4
<1>4. ASSUME NEW m \in Nat, Goes(m) PROVE Goes(m + 1)
  <2>1. PICK f : RunIs(f, m)
    BY <1>4
  <2> HIDE DEF RunIs, Goes
  <2> QED BY <1>3, <2>1
<1>5. Goes(L)
  <2> SUFFICES ASSUME ~Goes(L) PROVE FALSE
    OBVIOUS
  <2> HIDE DEF Goes
  <2>1. Without \in SUBSET Nat /\ Without # {}
    BY <1>1 DEF L
  <2>2. PICK m \in Without : \A k \in Without : m <= k
    BY <2>1, Least
  <2>3. m \in 0..Len(seq) /\ m # 0 /\ ~Goes(m)
    BY <1>2, <2>2
  <2>4. m - 1 \in Nat /\ m - 1 \in 0..Len(seq) /\ ~(m <= m - 1) /\ m - 1 + 1 = m
    BY <1>1, <2>3 DEF L
  <2>5. Goes(m - 1)
    BY <2>2, <2>4
  <2> HIDE DEF Without
  <2>6. Goes(m - 1 + 1)
    BY <1>4, <2>4, <2>5
  <2> QED BY <2>3, <2>4, <2>6
<1> DEFINE f == CHOOSE g : RunIs(g, L)
<1>6. RunIs(f, L)
  BY <1>5
<1>7. Effect(seq, a, x0, holds, held, place) = f[L]
  BY DEF Effect, StepOf, Go, Start, L
<1> HIDE DEF f
<1>8. StepsOf(f, L, seq, a, x0, holds, held, place)
  <2>1. f[0] = Start
    BY <1>1, <1>6
  <2>2. ASSUME NEW n \in 1..L PROVE f[n] = Go(f[n - 1], n)
    <3>1. n \in 0..L /\ n # 0
      BY <1>1
    <3> QED BY <1>6, <3>1
  <2> QED BY <2>1, <2>2 DEF StepsOf, Start, Go
<1> QED BY <1>7, <1>8 DEF L

\* What one instruction does.
LEMMA EffectOfOne ==
  ASSUME NEW c, NEW a \in Int, NEW x0, NEW holds, NEW held, NEW place
  PROVE  Effect(<<c>>, a, x0, holds, held, place)
           = [pc |-> Onward(c, a, x0, holds),
              x |-> [x0 EXCEPT ![c.r] = Changed(c, a, x0, held, place)],
              call |-> c.op \in {"bl", "blr"}]
<1> DEFINE seq == <<c>>
<1>1. /\ Len(seq) = 1 /\ seq[1] = c /\ 1 \in 1..1 /\ 1 - 1 = 0 /\ a + 4 * (1 - 1) = a
      /\ Len(seq) \in Nat
  OBVIOUS
<1> HIDE DEF seq
<1>a. Len(seq) \in Nat
  BY <1>1
<1>2. PICK f : /\ StepsOf(f, Len(seq), seq, a, x0, holds, held, place)
               /\ Effect(seq, a, x0, holds, held, place) = f[Len(seq)]
  BY <1>a, EffectSteps, Zenon
<1>3. f[0] = [pc |-> a, x |-> x0, call |-> FALSE]
  BY <1>2, Zenon DEF StepsOf
<1>4. f[1] = StepOf(f[1 - 1], seq[1], a + 4 * (1 - 1), holds, held, place)
  BY <1>1, <1>2, Zenon DEF StepsOf
<1>5. f[1] = StepOf(f[0], c, a, holds, held, place)
  BY <1>1, <1>4
<1>6. f[1] = [pc |-> Onward(c, a, x0, holds),
              x |-> [x0 EXCEPT ![c.r] = Changed(c, a, x0, held, place)],
              call |-> c.op \in {"bl", "blr"}]
  BY <1>3, <1>5 DEF StepOf
<1> QED BY <1>1, <1>2, <1>6, Zenon DEF seq

FirstOf(c, a, x0, holds, held, place) ==
  [pc |-> Onward(c, a, x0, holds),
   x |-> [x0 EXCEPT ![c.r] = Changed(c, a, x0, held, place)],
   call |-> c.op \in {"bl", "blr"}]

\* What two do, of which the first may lead past the second.
LEMMA EffectOfTwo ==
  ASSUME NEW c, NEW d, NEW a \in Int, NEW x0, NEW holds, NEW held, NEW place
  PROVE  Same(Effect(<<c, d>>, a, x0, holds, held, place),
              StepOf(FirstOf(c, a, x0, holds, held, place), d, After4(a), holds, held, place))
<1> DEFINE seq == <<c, d>>
<1>1. /\ Len(seq) = 2 /\ seq[1] = c /\ seq[2] = d /\ 1 \in 1..2 /\ 2 \in 1..2
      /\ a + 4 * (1 - 1) = a /\ a + 4 * (2 - 1) = a + 4 /\ Len(seq) \in Nat /\ 1 - 1 = 0 /\ 2 - 1 = 1
  OBVIOUS
<1> HIDE DEF seq
<1>a. Len(seq) \in Nat
  BY <1>1
<1>2. PICK f : /\ StepsOf(f, Len(seq), seq, a, x0, holds, held, place)
               /\ Effect(seq, a, x0, holds, held, place) = f[Len(seq)]
  BY <1>a, EffectSteps, Zenon
<1>3. f[0] = [pc |-> a, x |-> x0, call |-> FALSE]
  BY <1>2, Zenon DEF StepsOf
<1>4. /\ f[1] = StepOf(f[1 - 1], seq[1], a + 4 * (1 - 1), holds, held, place)
      /\ f[2] = StepOf(f[2 - 1], seq[2], a + 4 * (2 - 1), holds, held, place)
  BY <1>1, <1>2, Zenon DEF StepsOf
<1>5. /\ f[1] = StepOf(f[0], c, a, holds, held, place)
      /\ f[2] = StepOf(f[1], d, a + 4, holds, held, place)
  BY <1>1, <1>4
<1>6. f[1] = [pc |-> Onward(c, a, x0, holds),
              x |-> [x0 EXCEPT ![c.r] = Changed(c, a, x0, held, place)],
              call |-> c.op \in {"bl", "blr"}]
  BY <1>3, <1>5 DEF StepOf
<1> QED BY <1>1, <1>2, <1>5, <1>6, Zenon DEF seq, FirstOf, Same, After4

-----------------------------------------------------------------------------
(* EmitMovImmediate.                                                       *)

Order(S, n) == CHOOSE x \in S : Cardinality({y \in S : y > x}) = n - 1

\* Descending goes through all of a set.
LEMMA DescendingAll ==
  ASSUME NEW S, S \subseteq 0..3, S # {}
  PROVE  /\ Cardinality(S) \in 1..4
         /\ Descending(S) = [n \in 1..Cardinality(S) |-> Order(S, n)]
         /\ \A n \in 1..Cardinality(S) : Order(S, n) \in S
         /\ \A x \in S : \E n \in 1..Cardinality(S) : Order(S, n) = x
<1> DEFINE N == Cardinality(S)
           above(x) == {y \in S : y > x}
           rank(x) == Cardinality(above(x)) + 1
<1>1. IsFiniteSet(S) /\ N \in 1..4
  <2> DEFINE low == 0
             high == 3
  <2>0. low \in Int /\ high \in Int /\ low <= high /\ high - low + 1 = 4
    OBVIOUS
  <2> HIDE DEF low, high
  <2>a. IsFiniteSet(low..high) /\ Cardinality(low..high) = high - low + 1
    BY <2>0, FS_Interval
  <2>1. IsFiniteSet(0..3) /\ Cardinality(0..3) = 4
    BY <2>0, <2>a DEF low, high
  <2>2. IsFiniteSet(S) /\ Cardinality(S) \in Nat /\ Cardinality(S) <= 4
    BY <2>1, FS_Subset, FS_CardinalityType
  <2>3. Cardinality(S) # 0
    BY <2>2, FS_EmptySet
  <2> QED BY <2>2, <2>3
<1>2. ASSUME NEW x \in S
      PROVE  IsFiniteSet(above(x)) /\ Cardinality(above(x)) \in 0..N - 1
  <2>1. above(x) \subseteq S /\ x \notin above(x)
    <3>1. x \in Int
      OBVIOUS
    <3> QED BY <3>1
  <2>2. IsFiniteSet(above(x)) /\ Cardinality(above(x)) \in Nat /\ Cardinality(above(x)) <= N
        /\ (Cardinality(above(x)) = N => above(x) = S)
    BY <1>1, <2>1, FS_Subset, FS_CardinalityType
  <2> QED BY <1>1, <2>1, <2>2
<1>3. ASSUME NEW x \in S, NEW y \in S, x < y PROVE Cardinality(above(y)) < Cardinality(above(x))
  <2>1. above(y) \subseteq above(x) /\ y \in above(x) /\ y \notin above(y)
    <3>1. \A z \in S : z \in Int
      OBVIOUS
    <3>2. x \in Int /\ y \in Int /\ x < y
      BY <1>3
    <3>3. \A z \in S : z > y => z > x
      BY <3>1, <3>2
    <3>4. y > x /\ ~(y > y)
      BY <3>2
    <3> QED BY <3>3, <3>4
  <2>2. Cardinality(above(y)) <= Cardinality(above(x))
        /\ (Cardinality(above(y)) = Cardinality(above(x)) => above(y) = above(x))
    <3> HIDE DEF above
    <3> QED BY <1>2, <2>1, FS_Subset
  <2> HIDE DEF above
  <2>3. Cardinality(above(y)) \in Int /\ Cardinality(above(x)) \in Int
    BY <1>2
  <2> QED BY <2>1, <2>2, <2>3
<1>4. ASSUME NEW x \in S, NEW y \in S, rank(x) = rank(y) PROVE x = y
  <2>1. Cardinality(above(x)) \in Int /\ Cardinality(above(y)) \in Int
    <3> HIDE DEF above
    <3> QED BY <1>2
  <2>2. x < y \/ y < x \/ x = y
    <3>1. x \in Int /\ y \in Int
      OBVIOUS
    <3> QED BY <3>1
  <2> DEFINE a == Cardinality(above(x))
             b == Cardinality(above(y))
  <2>3. a + 1 = b + 1
    BY <1>4
  <2>4. (x < y => b < a) /\ (y < x => a < b)
    BY <1>3
  <2>5. a \in Int /\ b \in Int
    BY <2>1
  <2> HIDE DEF a, b
  <2> QED BY <2>2, <2>3, <2>4, <2>5
<1>5. \A x \in S : rank(x) \in 1..N
  <2> HIDE DEF above
  <2> QED BY <1>1, <1>2
<1>6. ASSUME NEW n \in 1..N PROVE \E x \in S : rank(x) = n
  <2> DEFINE f == [x \in S |-> rank(x)]
  <2>1. f \in Injection(S, 1..N)
    <3>1. f \in [S -> 1..N] /\ \A x, y \in S : f[x] = f[y] => x = y
      <4> HIDE DEF rank
      <4> QED BY <1>4, <1>5
    <3> QED BY <3>1 DEF Injection, IsInjective
  <2>2. IsFiniteSet(1..N) /\ Cardinality(1..N) = N
    <3>1. 1 \in Int /\ N \in Int /\ 1 <= N /\ N - 1 + 1 = N
      BY <1>1
    <3> HIDE DEF N
    <3> QED BY <3>1, FS_Interval
  <2>3. f \in Surjection(S, 1..N)
    <3> HIDE DEF f
    <3> QED BY <1>1, <2>1, <2>2, FS_Injection
  <2> QED BY <2>3 DEF Surjection
<1>7. \A n \in 1..N : Order(S, n) \in S /\ rank(Order(S, n)) = n
  <2> TAKE n \in 1..N
  <2>1. PICK x \in S : rank(x) = n
    BY <1>6
  <2>2. Cardinality(above(x)) = n - 1
    <3>1. Cardinality(above(x)) \in Int
      BY <1>2
    <3> HIDE DEF above
    <3> QED BY <2>1, <3>1
  <2>3. Order(S, n) \in S /\ Cardinality({y \in S : y > Order(S, n)}) = n - 1
    BY <2>2 DEF Order
  <2>4. n \in Int /\ n - 1 + 1 = n
    OBVIOUS
  <2> QED BY <2>3, <2>4
<1>8. \A x \in S : \E n \in 1..N : Order(S, n) = x
  <2> HIDE DEF rank, N
  <2> QED BY <1>4, <1>5, <1>7
<1>9. Descending(S) = [n \in 1..N |-> Order(S, n)]
  BY DEF Descending, Order
<1> QED BY <1>1, <1>7, <1>8, <1>9

\* An instruction that only changes a register.
Sets(c) ==
  c.op \in {"movn32", "movn64", "movz64", "movk64", "add32", "adr",
            "adrp", "ldr", "ldrv", "ldrx"}

Put(x0, rd, u) == [x0 EXCEPT ![rd] = u]

At(here, x0, rd, u) == [pc |-> here, x |-> Put(x0, rd, u), call |-> FALSE]

\* A step that sets a register.
LEMMA MoveStep ==
  ASSUME NEW x0, NEW rd, NEW u, NEW c, NEW here, Sets(c), c.r = rd,
         NEW holds, NEW held, NEW place
  PROVE  Same(StepOf(At(here, x0, rd, u), c, here, holds, held, place),
              At(After4(here), x0, rd, Changed(c, here, Put(x0, rd, u), held, place)))
<1> DEFINE x == Put(x0, rd, u)
           v == Changed(c, here, x, held, place)
           s == At(here, x0, rd, u)
           bl == c.op \in {"bl", "blr"}
<1>1. ~Taken(c, holds)
  BY DEF Taken, Sets
<1>2. Onward(c, here, x, holds) = After4(here)
  BY <1>1 DEF Onward, After4
<1>3. s.pc = here /\ s.x = x /\ bl = FALSE
  BY DEF Sets, At
<1>4. [x EXCEPT ![rd] = v] = Put(x0, rd, v)
  <2> HIDE DEF v
  <2> QED BY DEF Put
<1> HIDE DEF s, x, bl
<1>5. StepOf(s, c, here, holds, held, place)
        = [pc |-> Onward(c, here, x, holds), x |-> [x EXCEPT ![rd] = v], call |-> bl]
  BY <1>3, Zenon DEF StepOf, v, bl
<1> HIDE DEF v
<1>6. StepOf(s, c, here, holds, held, place) = At(After4(here), x0, rd, v)
  BY <1>2, <1>3, <1>4, <1>5, Zenon DEF At
<1> QED BY <1>6 DEF s, x, v, Same

\* The state after so many instructions of EmitMovImmediate: which pieces are there.
Moved(s, n, a, x0, rd, value, default, S) ==
  \E g \in Pieces4 :
    /\ s = At(a + 4 * n, x0, rd, Sum4(g))
    /\ \A j \in 0..3 : g[j] = IF \E m \in 1..n : Order(S, m) = j THEN Piece(value, j) ELSE default

\* Pieces fit the field of a MOVZ, MOVN or MOVK.
LEMMA PieceRange ==
  ASSUME NEW v \in Int
  PROVE  \A n \in 0..3 : Piece(v, n) \in 0..PieceSize - 1
<1> DEFINE g == [n \in 0..3 |-> Piece(v, n)]
<1>1. g \in Pieces4
  BY PiecesOfNumber
<1>2. \A n \in 0..3 : g[n] = Piece(v, n)
  OBVIOUS
<1> HIDE DEF g
<1> QED BY <1>1, <1>2 DEF Pieces4

\* The first one: MOVZ or MOVN.
LEMMA FirstMoved ==
  ASSUME NEW D, NEW x0 \in [D -> Int], NEW rd \in D, NEW value \in Int, NEW a \in Int,
         NEW holds, NEW held, NEW place, NEW default \in {0, Ones}, NEW S, NEW n \in 0..3,
         n = Order(S, 1),
         NEW c, c = IF default = Ones THEN Instr("movn64", rd, n, Ones - Piece(value, n))
                    ELSE Instr("movz64", rd, n, Piece(value, n))
  PROVE  Moved(StepOf([pc |-> a, x |-> x0, call |-> FALSE], c, a, holds, held, place),
               1, a, x0, rd, value, default, S)
<1> DEFINE p == Piece(value, n)
           g == [[m \in 0..3 |-> default] EXCEPT ![n] = p]
           y == Changed(c, a, x0, held, place)
<1>1. p \in 0..PieceSize - 1
  BY PieceRange
<1> HIDE DEF p
<1>2. g \in Pieces4 /\ y = Sum4(g)
  <2>1. CASE default = Ones
    <3>1. c = Instr("movn64", rd, n, Ones - p)
      BY <2>1 DEF p
    <3>2. y = (XSize - 1) - ((Ones - p) * Weight(n))
      BY <3>1 DEF Changed, Instr
    <3> QED BY <1>1, <2>1, <3>2, Movn
  <2>2. CASE default = 0
    <3>1. c = Instr("movz64", rd, n, p)
      BY <2>2, AllSame DEF p
    <3>2. y = p * Weight(n)
      BY <3>1 DEF Changed, Instr
    <3> QED BY <1>1, <2>2, <3>2, Movz
  <2> QED BY <2>1, <2>2
<1>3. c.op \in {"movn64", "movz64"} /\ c.r = rd
  BY DEF Instr
<1>4. x0 = [x0 EXCEPT ![rd] = x0[rd]]
  OBVIOUS
<1>5. StepOf([pc |-> a, x |-> x0, call |-> FALSE], c, a, holds, held, place)
        = At(a + 4, x0, rd, y)
  <2> DEFINE u == x0[rd]
  <2>1. Sets(c) /\ c.r = rd
    BY <1>3 DEF Sets
  <2>2. At(a, x0, rd, u) = [pc |-> a, x |-> x0, call |-> FALSE] /\ x0 = Put(x0, rd, u)
    BY <1>4 DEF At, Put
  <2>3. y = Changed(c, a, Put(x0, rd, u), held, place)
    BY <2>2
  <2> HIDE DEF y, u
  <2>4. Same(StepOf(At(a, x0, rd, u), c, a, holds, held, place),
             At(After4(a), x0, rd, Changed(c, a, Put(x0, rd, u), held, place)))
    BY <2>1, MoveStep, Zenon
  <2> QED BY <2>2, <2>3, <2>4, Zenon DEF After4, Same
<1>6. \A j \in 0..3 : g[j] = IF \E m \in 1..1 : Order(S, m) = j THEN Piece(value, j) ELSE default
  BY DEF p
<1>7. a + 4 = a + 4 * 1
  OBVIOUS
<1> HIDE DEF g, y
<1> QED BY <1>2, <1>5, <1>6, <1>7, Zenon DEF Moved

\* Each further one: MOVK.
LEMMA NextMoved ==
  ASSUME NEW D, NEW x0 \in [D -> Int], NEW rd \in D, NEW value \in Int, NEW a \in Int,
         NEW holds, NEW held, NEW place, NEW default, NEW S, NEW n \in Nat, NEW s,
         Moved(s, n, a, x0, rd, value, default, S),
         NEW k \in 0..3, k = Order(S, n + 1),
         NEW c, c = Instr("movk64", rd, k, Piece(value, k))
  PROVE  Moved(StepOf(s, c, a + 4 * n, holds, held, place), n + 1, a, x0, rd, value, default, S)
<1>1. PICK g \in Pieces4 :
        /\ s = At(a + 4 * n, x0, rd, Sum4(g))
        /\ \A j \in 0..3 : g[j] = IF \E m \in 1..n : Order(S, m) = j THEN Piece(value, j) ELSE default
  BY DEF Moved
<1> DEFINE p == Piece(value, k)
           h == [g EXCEPT ![k] = p]
           here == a + 4 * n
           u == Sum4(g)
           x == Put(x0, rd, u)
           y == Changed(c, here, x, held, place)
<1>2. p \in 0..PieceSize - 1
  BY PieceRange
<1>3. u \in Int /\ x[rd] = u /\ here \in Int
  <2>1. u \in 0..XSize - 1
    BY SumFacts
  <2> HIDE DEF u
  <2> QED BY <2>1 DEF Put
<1>4. y = u + (p - ((u \div Weight(k)) % PieceSize)) * Weight(k)
  <2> HIDE DEF u, p
  <2>1. c.op = "movk64" /\ c.r = rd /\ c.k = k /\ c.imm = p
    BY DEF Instr, p
  <2> HIDE DEF x
  <2> QED BY <1>3, <2>1 DEF Changed
<1>5. h \in Pieces4 /\ y = Sum4(h)
  BY <1>2, <1>4, Movk
<1>6. StepOf(s, c, here, holds, held, place) = At(here + 4, x0, rd, y)
  <2>1. Sets(c) /\ c.r = rd
    BY DEF Instr, Sets
  <2>2. s = At(here, x0, rd, u)
    BY <1>1
  <2>3. Same(StepOf(At(here, x0, rd, u), c, here, holds, held, place),
             At(After4(here), x0, rd, Changed(c, here, Put(x0, rd, u), held, place)))
    <3> HIDE DEF here, u
    <3> QED BY <2>1, MoveStep, Zenon
  <2> QED BY <2>2, <2>3, Zenon DEF After4, Same
<1>7. here + 4 = a + 4 * (n + 1)
  OBVIOUS
<1>8. \A j \in 0..3 :
        h[j] = IF \E m \in 1..n + 1 : Order(S, m) = j THEN Piece(value, j) ELSE default
  <2> TAKE j \in 0..3
  <2>1. (\E m \in 1..n + 1 : Order(S, m) = j) <=> (\E m \in 1..n : Order(S, m) = j) \/ k = j
    <3>1. \A m : m \in 1..n + 1 <=> m \in 1..n \/ m = n + 1
      OBVIOUS
    <3> QED BY <3>1
  <2>2. h[j] = IF j = k THEN Piece(value, j) ELSE g[j]
    BY DEF Pieces4
  <2> HIDE DEF h
  <2> QED BY <1>1, <2>1, <2>2
<1> HIDE DEF h, y, here
<1> QED BY <1>5, <1>6, <1>7, <1>8, Zenon DEF Moved, here

\* Which instructions EmitMovImmediate makes: the first sets all pieces, and each further
\* one, in the order of S, one of those that are not the default.
Emits(seq, rd, value, default, S) ==
  /\ S \subseteq 0..3 /\ S # {} /\ default \in {0, Ones}
  /\ \A j \in (0..3) \ S : Piece(value, j) = default
  /\ Len(seq) = Cardinality(S)
  /\ seq[1] = IF default = Ones THEN Instr("movn64", rd, Order(S, 1), Ones - Piece(value, Order(S, 1)))
              ELSE Instr("movz64", rd, Order(S, 1), Piece(value, Order(S, 1)))
  /\ \A n \in 2..Cardinality(S) :
       seq[n] = Instr("movk64", rd, Order(S, n), Piece(value, Order(S, n)))

\* Or it is a single instruction for a word whose upper piece is all ones.
EmitsWord(seq, rd, value) ==
  /\ Piece(value, 2) = 0 /\ Piece(value, 3) = 0 /\ Piece(value, 1) = Ones
  /\ seq = <<Instr("movn32", rd, 0, Ones - Piece(value, 0))>>

\* EmitMovImmediate emits a MOVN of 32 bits or one piece after the other.
LEMMA EmitParts ==
  ASSUME NEW rd, NEW value
  PROVE  LET seq == EmitMovImmediate(rd, value)
         IN  EmitsWord(seq, rd, value) \/ \E default, S : Emits(seq, rd, value, default, S)
<1> DEFINE seq == EmitMovImmediate(rd, value)
           Of(p) == {n \in 0..3 : Piece(value, n) = p}
           default == IF Cardinality(Of(Ones)) > Cardinality(Of(0)) THEN Ones ELSE 0
           left == (0..3) \ Of(default)
           S == IF left = {} THEN {0} ELSE left
           order == Descending(S)
           Lead1(n) == IF default = Ones THEN Instr("movn64", rd, n, Ones - Piece(value, n))
                                        ELSE Instr("movz64", rd, n, Piece(value, n))
           many == [n \in DOMAIN order |->
                      IF n = 1 THEN Lead1(order[1])
                      ELSE Instr("movk64", rd, order[n], Piece(value, order[n]))]
           word == {2, 3} \subseteq Of(0) /\ 1 \in Of(Ones)
<1>1. seq = IF word THEN <<Instr("movn32", rd, 0, Ones - Piece(value, 0))>> ELSE many
  BY DEF EmitMovImmediate
<1>2. CASE word
  <2>1. Piece(value, 2) = 0 /\ Piece(value, 3) = 0 /\ Piece(value, 1) = Ones
    BY <1>2
  <2>2. seq = <<Instr("movn32", rd, 0, Ones - Piece(value, 0))>>
    <3> HIDE DEF seq, word, many
    <3> QED BY <1>1, <1>2
  <2> HIDE DEF seq
  <2> QED BY <2>1, <2>2 DEF EmitsWord, seq
<1>3. CASE ~word
  <2>1. S \subseteq 0..3 /\ S # {} /\ default \in {0, Ones}
    <3>1. left \subseteq 0..3 /\ {0} \subseteq 0..3
      <4> HIDE DEF default
      <4> QED OBVIOUS
    <3> HIDE DEF left
    <3> QED BY <3>1
  <2>2. \A j \in (0..3) \ S : Piece(value, j) = default
    <3> HIDE DEF default
    <3>1. \A j \in (0..3) \ left : Piece(value, j) = default
      OBVIOUS
    <3> HIDE DEF left
    <3> QED BY <3>1
  <2> HIDE DEF S
  <2>3. /\ Cardinality(S) \in 1..4
        /\ order = [n \in 1..Cardinality(S) |-> Order(S, n)]
    BY <2>1, DescendingAll
  <2>4. DOMAIN order = 1..Cardinality(S) /\ \A n \in 1..Cardinality(S) : order[n] = Order(S, n)
    <3> HIDE DEF order
    <3> QED BY <2>3
  <2>5. seq = many
    <3> HIDE DEF seq, word, many
    <3> QED BY <1>1, <1>3
  <2> HIDE DEF order
  <2>6. many = [n \in 1..Cardinality(S) |->
                  IF n = 1 THEN Lead1(order[1])
                  ELSE Instr("movk64", rd, order[n], Piece(value, order[n]))]
    BY <2>4
  <2> HIDE DEF many, default, seq
  <2>7. 1 \in 1..Cardinality(S) /\ \A n \in 2..Cardinality(S) : n \in 1..Cardinality(S) /\ n # 1
    BY <2>3
  <2>8. seq[1] = Lead1(Order(S, 1))
    BY <2>4, <2>5, <2>6, <2>7
  <2>9. \A n \in 2..Cardinality(S) :
          seq[n] = Instr("movk64", rd, Order(S, n), Piece(value, Order(S, n)))
    BY <2>4, <2>5, <2>6, <2>7
  <2>10. Len(seq) = Cardinality(S)
    BY <2>3, <2>5, <2>6
  <2>11. Emits(seq, rd, value, default, S)
    BY <2>1, <2>2, <2>8, <2>9, <2>10 DEF Emits
  <2> QED BY <2>11 DEF seq
<1> QED BY <1>2, <1>3

\* f goes through a sequence that begins with seq.
Begins(f, seq, all, m, a, x0, holds, held, place) ==
  /\ StepsOf(f, m, all, a, x0, holds, held, place)
  /\ Len(seq) <= m
  /\ \A n \in 1..Len(seq) : all[n] = seq[n]

\* The former sets the register to the value.
LEMMA WordRun ==
  ASSUME NEW D, NEW x0 \in [D -> Int], NEW rd \in D, NEW value \in Int, NEW a \in Int,
         NEW holds, NEW held, NEW place, NEW seq, EmitsWord(seq, rd, value),
         NEW f, NEW all, NEW m \in Nat, Begins(f, seq, all, m, a, x0, holds, held, place)
  PROVE  Len(seq) = 1 /\ f[1] = At(a + 4, x0, rd, value % XSize)
<1> DEFINE c == Instr("movn32", rd, 0, Ones - Piece(value, 0))
           v == value % XSize
           y == (WSize - 1) - (Ones - Piece(value, 0))
<1>1. Len(seq) = 1 /\ seq[1] = c /\ 1 \in 1..1
  BY DEF EmitsWord
<1>2. f[1] = StepOf(f[0], c, a, holds, held, place) /\ f[0] = [pc |-> a, x |-> x0, call |-> FALSE]
  <2>1. 1 \in 1..m /\ a + 4 * (1 - 1) = a /\ 1 - 1 = 0
    BY <1>1 DEF Begins
  <2>2. f[1] = StepOf(f[1 - 1], all[1], a + 4 * (1 - 1), holds, held, place)
    BY <2>1, Zenon DEF Begins, StepsOf
  <2>3. all[1] = c
    BY <1>1, Zenon DEF Begins
  <2>4. f[0] = [pc |-> a, x |-> x0, call |-> FALSE]
    BY Zenon DEF Begins, StepsOf
  <2> HIDE DEF c
  <2> QED BY <2>1, <2>2, <2>3, <2>4
<1>3. y = v
  <2> DEFINE g == [n \in 0..3 |-> Piece(value, n)]
             p == Piece(value, 0)
             P == PieceSize
  <2>1. Sum4(g) = v
    BY PiecesOfNumber
  <2>2. Sum4(g) = p + P * (Ones + P * (0 + P * 0))
    BY DEF EmitsWord, Sum4
  <2>3. P \in Nat \ {0} /\ WSize = P * P /\ Ones = P - 1 /\ p \in Int
    BY Weights, PieceRange DEF WSize, Ones
  <2> HIDE DEF p, P, g, v
  <2>4. P * (Ones + P * (0 + P * 0)) = P * P - P
    BY <2>3, SMT
  <2>5. P * P \in Int
    BY <2>3
  <2> QED BY <2>1, <2>2, <2>3, <2>4, <2>5 DEF p
<1>4. StepOf([pc |-> a, x |-> x0, call |-> FALSE], c, a, holds, held, place) = At(a + 4, x0, rd, y)
  <2> DEFINE u == x0[rd]
  <2>1. Sets(c) /\ c.r = rd
    BY DEF Instr, Sets
  <2>2. At(a, x0, rd, u) = [pc |-> a, x |-> x0, call |-> FALSE]
    BY DEF At, Put
  <2>3. y = Changed(c, a, Put(x0, rd, u), held, place)
    BY DEF Instr, Changed
  <2> HIDE DEF y, u, c
  <2>4. Same(StepOf(At(a, x0, rd, u), c, a, holds, held, place),
             At(After4(a), x0, rd, Changed(c, a, Put(x0, rd, u), held, place)))
    BY <2>1, MoveStep, Zenon
  <2> QED BY <2>2, <2>3, <2>4, Zenon DEF After4, Same
<1> HIDE DEF y, c
<1> QED BY <1>1, <1>2, <1>3, <1>4

\* So does the latter.
LEMMA PiecesRun ==
  ASSUME NEW D, NEW x0 \in [D -> Int], NEW rd \in D, NEW value \in Int, NEW a \in Int,
         NEW holds, NEW held, NEW place,
         NEW seq, NEW default, NEW S, Emits(seq, rd, value, default, S),
         NEW f, NEW all, NEW m \in Nat, Begins(f, seq, all, m, a, x0, holds, held, place)
  PROVE  Len(seq) \in 1..4 /\ f[Len(seq)] = At(a + 4 * Len(seq), x0, rd, value % XSize)
<1> DEFINE N == Cardinality(S)
           RunIs(n) == Moved(f[n], n, a, x0, rd, value, default, S)
<1>1. /\ N \in 1..4 /\ Len(seq) = N
      /\ \A n \in 1..N : Order(S, n) \in S
      /\ \A x \in S : \E n \in 1..N : Order(S, n) = x
  BY DescendingAll DEF Emits
<1>2. S \subseteq 0..3 /\ \A n \in 1..N : Order(S, n) \in 0..3
  BY <1>1 DEF Emits
<1>3. /\ f[0] = [pc |-> a, x |-> x0, call |-> FALSE]
      /\ \A n \in 1..N : f[n] = StepOf(f[n - 1], seq[n], a + 4 * (n - 1), holds, held, place)
  <2>1. f[0] = [pc |-> a, x |-> x0, call |-> FALSE]
    BY Zenon DEF Begins, StepsOf
  <2>2. \A n \in 1..N : n \in 1..m /\ all[n] = seq[n]
    <3>1. N <= m /\ N \in Int /\ \A n \in 1..N : all[n] = seq[n]
      BY <1>1 DEF Begins
    <3> HIDE DEF N
    <3> QED BY <3>1
  <2>3. \A n \in 1..m : f[n] = StepOf(f[n - 1], all[n], a + 4 * (n - 1), holds, held, place)
    BY Zenon DEF Begins, StepsOf
  <2> HIDE DEF N
  <2> QED BY <2>1, <2>2, <2>3
<1> HIDE DEF N
<1>4. RunIs(1)
  <2>1. 1 \in 1..N /\ 1 - 1 = 0 /\ a + 4 * (1 - 1) = a
    BY <1>1
  <2>2. f[1] = StepOf([pc |-> a, x |-> x0, call |-> FALSE], seq[1], a, holds, held, place)
    BY <1>3, <2>1
  <2> DEFINE n == Order(S, 1)
             c == seq[1]
  <2>3. /\ n \in 0..3 /\ n = Order(S, 1) /\ default \in {0, Ones}
        /\ c = IF default = Ones THEN Instr("movn64", rd, n, Ones - Piece(value, n))
               ELSE Instr("movz64", rd, n, Piece(value, n))
    BY <1>2, <2>1 DEF Emits
  <2> HIDE DEF n, c
  <2>4. Moved(StepOf([pc |-> a, x |-> x0, call |-> FALSE], c, a, holds, held, place),
              1, a, x0, rd, value, default, S)
    BY <2>3, FirstMoved
  <2> QED BY <2>2, <2>4, Zenon DEF c
<1>5. ASSUME NEW n \in 1..3, n + 1 \in 1..N, RunIs(n) PROVE RunIs(n + 1)
  <2> DEFINE k == Order(S, n + 1)
             c == seq[n + 1]
             s == f[n]
  <2>1. n + 1 - 1 = n /\ n \in Nat /\ n + 1 \in 2..N
    BY <1>1, <1>5
  <2>2. f[n + 1] = StepOf(s, c, a + 4 * n, holds, held, place)
    BY <1>3, <1>5, <2>1
  <2>3. k \in 0..3 /\ k = Order(S, n + 1) /\ c = Instr("movk64", rd, k, Piece(value, k))
    BY <1>2, <1>5, <2>1 DEF Emits, N
  <2>4. Moved(s, n, a, x0, rd, value, default, S)
    BY <1>5
  <2> HIDE DEF k, c, s
  <2>5. Moved(StepOf(s, c, a + 4 * n, holds, held, place), n + 1, a, x0, rd, value, default, S)
    BY <2>1, <2>3, <2>4, NextMoved
  <2> QED BY <2>2, <2>5
<1>6. RunIs(N)
  <2> HIDE DEF RunIs
  <2>1. N = 1 \/ N = 2 \/ N = 3 \/ N = 4
    BY <1>1
  <2>2. N >= 2 => RunIs(1 + 1)
    BY <1>1, <1>4, <1>5
  <2>3. N >= 3 => RunIs(2 + 1)
    BY <1>1, <2>2, <1>5
  <2>4. N >= 4 => RunIs(3 + 1)
    BY <1>1, <2>3, <1>5
  <2> QED BY <1>4, <2>1, <2>2, <2>3, <2>4
<1>7. PICK g \in Pieces4 :
        /\ f[N] = At(a + 4 * N, x0, rd, Sum4(g))
        /\ \A j \in 0..3 : g[j] = IF \E i \in 1..N : Order(S, i) = j THEN Piece(value, j) ELSE default
  BY <1>6 DEF Moved
<1>8. \A j \in 0..3 : g[j] = Piece(value, j)
  <2> TAKE j \in 0..3
  <2>1. CASE j \in S
    BY <1>1, <1>7, <2>1
  <2>2. CASE j \notin S
    BY <1>7, <2>2 DEF Emits
  <2> QED BY <2>1, <2>2
<1>9. g = [n \in 0..3 |-> Piece(value, n)]
  BY <1>8 DEF Pieces4
<1>10. Sum4(g) = value % XSize
  BY <1>9, PiecesOfNumber
<1> QED BY <1>1, <1>7, <1>10

\* However EmitMovImmediate does it, the register then holds the number.
LEMMA MovRun ==
  ASSUME NEW D, NEW x0 \in [D -> Int], NEW rd \in D, NEW value \in Int, NEW a \in Int,
         NEW holds, NEW held, NEW place,
         NEW seq, seq = EmitMovImmediate(rd, value),
         NEW f, NEW all, NEW m \in Nat, Begins(f, seq, all, m, a, x0, holds, held, place)
  PROVE  Len(seq) \in 1..4 /\ f[Len(seq)] = At(a + 4 * Len(seq), x0, rd, value % XSize)
<1>1. CASE EmitsWord(seq, rd, value)
  <2>1. Len(seq) = 1 /\ f[1] = At(a + 4, x0, rd, value % XSize)
    BY <1>1, WordRun
  <2>2. a + 4 = a + 4 * 1 /\ 1 \in 1..4
    OBVIOUS
  <2> QED BY <2>1, <2>2
<1>2. CASE \E default, S : Emits(seq, rd, value, default, S)
  <2>1. PICK default, S : Emits(seq, rd, value, default, S)
    BY <1>2
  <2> QED BY <2>1, PiecesRun
<1> QED BY <1>1, <1>2, EmitParts

-----------------------------------------------------------------------------
(* What instructions of ARM64 become.                                      *)

\* An offset in words that a field has room for.
LEMMA SignedKept ==
  ASSUME NEW x \in Int, NEW reach \in Nat \ {0}, Within(x, reach)
  PROVE  Signed(x, reach) = x
<1> DEFINE b == 2 * reach
           r == x + reach
<1>1. b \in Nat \ {0} /\ r \in Int /\ 0 <= r /\ r < b
  BY DEF Within
<1>2. b * 0 + r = r
  BY <1>1
<1> HIDE DEF b, r
<1>3. r % b = r
  BY <1>1, <1>2, Division
<1> QED BY <1>3 DEF Signed, b, r

\* The same for an offset in words.
LEMMA WordsKept ==
  ASSUME NEW d \in Int, d % 4 = 0, NEW reach \in Nat \ {0}, Within(d, 4 * reach)
  PROVE  Words(d, reach) = d
<1> DEFINE q == d \div 4
<1>1. q \in Int /\ d = 4 * q
  OBVIOUS
<1> HIDE DEF q
<1>2. Within(q, reach)
  BY <1>1 DEF Within
<1>3. Signed(q, reach) = q
  BY <1>1, <1>2, SignedKept
<1> QED BY <1>1, <1>3 DEF Words, q

Registers(x, D) == x \in [D -> Int]

State(pc, x, call) == [pc |-> pc, x |-> x, call |-> call]

\* An instruction that only changes where control is.
Leads(c) == c.op \in {"bcc", "b", "bl", "cbz", "tbz", "br", "blr"}

\* Branches change no register.
LEMMA LeadsChanged ==
  ASSUME NEW c, Leads(c), NEW a, NEW x, NEW held, NEW place
  PROVE  Changed(c, a, x, held, place) = x[c.r]
BY DEF Leads, Changed

\* A step that control comes to, of a branch.
LEMMA LeadStep ==
  ASSUME NEW D, NEW x, Registers(x, D), NEW c, Leads(c), NEW here, NEW call,
         NEW holds, NEW held, NEW place
  PROVE  Same(StepOf(State(here, x, call), c, here, holds, held, place),
              State(Onward(c, here, x, holds), x, c.op \in {"bl", "blr"}))
<1> DEFINE s == State(here, x, call)
           bl == c.op \in {"bl", "blr"}
<1>1. s.pc = here /\ s.x = x
  BY DEF State
<1>2. Changed(c, here, x, held, place) = x[c.r]
  BY LeadsChanged
<1>3. [x EXCEPT ![c.r] = x[c.r]] = x
  BY DEF Registers
<1> HIDE DEF s, bl
<1>4. StepOf(s, c, here, holds, held, place)
        = [pc |-> Onward(c, here, x, holds), x |-> x, call |-> bl]
  BY <1>1, <1>2, <1>3, Zenon DEF StepOf, bl
<1> QED BY <1>4, Zenon DEF Same, State, s, bl

\* A step that control does not come to.
LEMMA PassStep ==
  ASSUME NEW pc, NEW x, NEW call, NEW c, NEW here, pc # here, NEW holds, NEW held, NEW place
  PROVE  Same(StepOf(State(pc, x, call), c, here, holds, held, place), State(pc, x, call))
BY DEF StepOf, State, Same

\* What registers hold at first.
Regs(i) == [r \in {0, i.r, Scratch} |-> -1 - r]

RegsOf(i) == {0, i.r, Scratch}

\* What a copy has to do.
Alike(new, len, dst, i, src, holds, held) ==
  LET to == Onward(i, src, Regs(i), holds)
  IN  /\ new.pc = IF to = src + 4 THEN dst + 4 * len ELSE to
      /\ \A r \in {0, i.r} \ {Scratch} :
           new.x[r] = IF r = i.r THEN Changed(i, src, Regs(i), held, Target(i, src)) ELSE Regs(i)[r]
      /\ new.call = (i.op \in {"bl", "blr"})

\* What has to be shown of a copy.
LEMMA ActsFrom ==
  ASSUME NEW i \in InstructionsARM64, NEW src \in Int, NEW dst \in Int, NEW held, NEW seq,
         \A holds \in BOOLEAN :
           Alike(Effect(seq, dst, Regs(i), holds, held, Target(i, src)), Len(seq), dst,
                 i, src, holds, held)
  PROVE  ActsAs(seq, dst, i, src, held)
<1> SUFFICES ASSUME NEW holds \in BOOLEAN
             PROVE  LET x0 == [r \in {0, i.r, Scratch} |-> -1 - r]
                        old == Effect(<<i>>, src, x0, holds, held, Target(i, src))
                        new == Effect(seq, dst, x0, holds, held, Target(i, src))
                        follows == dst + 4 * Len(seq)
                    IN  /\ new.pc = IF old.pc = src + 4 THEN follows ELSE old.pc
                        /\ \A r \in {0, i.r} \ {Scratch} : new.x[r] = old.x[r]
                        /\ new.call = old.call
  BY DEF ActsAs
<1> DEFINE x0 == Regs(i)
           old == Effect(<<i>>, src, x0, holds, held, Target(i, src))
           new == Effect(seq, dst, x0, holds, held, Target(i, src))
           y == Changed(i, src, x0, held, Target(i, src))
           to == Onward(i, src, x0, holds)
           bl == i.op \in {"bl", "blr"}
<1>1. old = [pc |-> to, x |-> [x0 EXCEPT ![i.r] = y], call |-> bl]
  BY EffectOfOne
<1>2. old.pc = to /\ old.x = [x0 EXCEPT ![i.r] = y] /\ old.call = bl
  <2> HIDE DEF old, to, x0, y, bl
  <2> QED BY <1>1
<1>3. Alike(new, Len(seq), dst, i, src, holds, held)
  OBVIOUS
<1> HIDE DEF new, old, y, to, bl
<1>4. \A r \in {0, i.r} \ {Scratch} : [x0 EXCEPT ![i.r] = y][r] = IF r = i.r THEN y ELSE x0[r]
  BY DEF Regs
<1> HIDE DEF x0
<1>5. /\ new.pc = IF old.pc = src + 4 THEN dst + 4 * Len(seq) ELSE old.pc
      /\ \A r \in {0, i.r} \ {Scratch} : new.x[r] = old.x[r]
      /\ new.call = old.call
  BY <1>2, <1>3, <1>4 DEF Alike, to, y, bl, x0
<1> QED BY <1>5, Zenon DEF new, old, x0, Regs

\* What registers hold at first is a number.
LEMMA SetUp ==
  ASSUME NEW i \in InstructionsARM64
  PROVE  /\ Regs(i) \in [RegsOf(i) -> Int] /\ Registers(Regs(i), RegsOf(i))
         /\ i.r \in RegsOf(i) /\ Scratch \in RegsOf(i) /\ 0 \in RegsOf(i)
         /\ i.imm \in Int
<1>1. i.r \in Int /\ i.imm \in Int
  BY DEF InstructionsARM64
<1> QED BY <1>1 DEF Regs, RegsOf, Registers, Scratch

\* What a branch does.
LEMMA LeadAlone ==
  ASSUME NEW D, NEW x, Registers(x, D), NEW c, Leads(c), NEW a \in Int,
         NEW holds, NEW held, NEW place
  PROVE  Effect(<<c>>, a, x, holds, held, place)
           = State(Onward(c, a, x, holds), x, c.op \in {"bl", "blr"})
<1>1. Changed(c, a, x, held, place) = x[c.r]
  BY LeadsChanged
<1>2. [x EXCEPT ![c.r] = x[c.r]] = x
  BY DEF Registers
<1> DEFINE bl == c.op \in {"bl", "blr"}
           to == Onward(c, a, x, holds)
           y == Changed(c, a, x, held, place)
<1>3. Effect(<<c>>, a, x, holds, held, place) = [pc |-> to, x |-> [x EXCEPT ![c.r] = y], call |-> bl]
  BY EffectOfOne
<1> HIDE DEF bl, to, y
<1>4. [x EXCEPT ![c.r] = y] = x
  BY <1>1, <1>2, Zenon DEF y
<1> QED BY <1>3, <1>4, Zenon DEF State, bl, to

\* What two branches do.
LEMMA LeadPair ==
  ASSUME NEW D, NEW x, Registers(x, D), NEW c, Leads(c), NEW d, Leads(d), NEW a \in Int,
         NEW holds, NEW held, NEW place
  PROVE  Effect(<<c, d>>, a, x, holds, held, place)
           = IF Onward(c, a, x, holds) = a + 4
             THEN State(Onward(d, a + 4, x, holds), x, d.op \in {"bl", "blr"})
             ELSE State(Onward(c, a, x, holds), x, c.op \in {"bl", "blr"})
<1>1. Changed(c, a, x, held, place) = x[c.r]
  BY LeadsChanged
<1>2. [x EXCEPT ![c.r] = x[c.r]] = x
  BY DEF Registers
<1> DEFINE bl == c.op \in {"bl", "blr"}
           to == Onward(c, a, x, holds)
           y == Changed(c, a, x, held, place)
           next == a + 4
           s == [pc |-> to, x |-> [x EXCEPT ![c.r] = y], call |-> bl]
<1>3. Effect(<<c, d>>, a, x, holds, held, place) = StepOf(s, d, next, holds, held, place)
  <2>1. a \in Int
    OBVIOUS
  <2>2. Same(Effect(<<c, d>>, a, x, holds, held, place),
             StepOf(FirstOf(c, a, x, holds, held, place), d, After4(a), holds, held, place))
    BY <2>1, EffectOfTwo, Zenon
  <2> QED BY <2>2, Zenon DEF Same, FirstOf, After4
<1>4. s = State(to, x, bl)
  <2> HIDE DEF bl, to, y
  <2>1. [x EXCEPT ![c.r] = y] = x
    BY <1>1, <1>2, Zenon DEF y
  <2> QED BY <2>1, Zenon DEF State
<1> HIDE DEF s, to, bl, next
<1>5. CASE to = next
  <2>1. Same(StepOf(State(next, x, bl), d, next, holds, held, place),
             State(Onward(d, next, x, holds), x, d.op \in {"bl", "blr"}))
    BY LeadStep, Zenon
  <2> QED BY <1>3, <1>4, <1>5, <2>1, Zenon DEF Same, to, next
<1>6. CASE to # next
  <2>1. Same(StepOf(State(to, x, bl), d, next, holds, held, place), State(to, x, bl))
    BY <1>6, PassStep, Zenon
  <2> QED BY <1>3, <1>4, <1>6, <2>1, Zenon DEF Same, to, next, bl
<1> QED BY <1>5, <1>6

\* A branch that need not be changed into another.
Branches5 == {"bcc", "b", "bl", "cbz", "tbz"}

\* A branch leads to its target or to what follows, and these are two places.
LEMMA BranchFacts ==
  ASSUME NEW i \in InstructionsARM64, i.op \in Branches5, NEW src \in Int, i.imm # 4,
         NEW holds, NEW held
  PROVE  /\ Leads(i)
         /\ Onward(i, src, Regs(i), holds) = IF Taken(i, holds) THEN Target(i, src) ELSE src + 4
         /\ Target(i, src) \in Int /\ Target(i, src) # src + 4
         /\ Changed(i, src, Regs(i), held, Target(i, src)) = Regs(i)[i.r]
<1>1. Leads(i) /\ i.op \notin {"br", "blr"}
  BY DEF Leads, Branches5
<1>2. i.imm \in Int
  BY SetUp
<1>3. Changed(i, src, Regs(i), held, Target(i, src)) = Regs(i)[i.r]
  BY <1>1, LeadsChanged
<1>4. Target(i, src) \in Int /\ Target(i, src) # src + 4
  BY <1>2 DEF Target
<1>5. Onward(i, src, Regs(i), holds) = IF Taken(i, holds) THEN Target(i, src) ELSE src + 4
  BY <1>1 DEF Onward, Target
<1> QED BY <1>1, <1>3, <1>4, <1>5

\* A branch within reach of its target keeps leading there.
LEMMA NearActs ==
  ASSUME NEW i \in InstructionsARM64, i.op \in Branches5, NEW src \in Int, NEW dst \in Int, i.imm # 4,
         NEW held, NEW c, c.op = i.op, c.imm = Target(i, src) - dst,
         \A holds \in BOOLEAN : Taken(c, holds) <=> Taken(i, holds)
  PROVE  ActsAs(<<c>>, dst, i, src, held)
<1> SUFFICES ASSUME NEW holds \in BOOLEAN
             PROVE  Alike(Effect(<<c>>, dst, Regs(i), holds, held, Target(i, src)), Len(<<c>>), dst,
                          i, src, holds, held)
  BY ActsFrom
<1> DEFINE x == Regs(i)
           to == Onward(i, src, x, holds)
           at == Onward(c, dst, x, holds)
           t == Target(i, src)
           y == Changed(i, src, x, held, t)
           new == Effect(<<c>>, dst, x, holds, held, t)
<1>1. /\ to = IF Taken(i, holds) THEN t ELSE src + 4
      /\ t \in Int /\ t # src + 4 /\ Leads(i) /\ y = x[i.r]
  BY BranchFacts
<1>2. Leads(c) /\ c.op \notin {"br", "blr"} /\ c.op = i.op
  BY <1>1 DEF Leads, Branches5
<1>3. at = IF Taken(c, holds) THEN t ELSE dst + 4
  <2>1. dst + c.imm = t
    BY <1>1
  <2> HIDE DEF t
  <2> QED BY <1>2, <2>1 DEF Onward
<1>4. new = State(at, x, c.op \in {"bl", "blr"})
  BY <1>2, SetUp, LeadAlone
<1>5. Len(<<c>>) = 1 /\ dst + 4 * 1 = dst + 4 /\ (Taken(c, holds) <=> Taken(i, holds))
  OBVIOUS
<1> HIDE DEF new, at, t, to, y, x
<1>6. new.pc = at /\ new.x = x /\ new.call = (c.op \in {"bl", "blr"})
  BY <1>4 DEF State
<1>7. /\ new.pc = IF to = src + 4 THEN dst + 4 * 1 ELSE to
      /\ \A r \in {0, i.r} \ {Scratch} : new.x[r] = IF r = i.r THEN y ELSE x[r]
      /\ new.call = (i.op \in {"bl", "blr"})
  BY <1>1, <1>2, <1>3, <1>5, <1>6
<1> QED BY <1>5, <1>7, Zenon DEF Alike, new, t, to, y, x

\* The opposite condition leads past a branch that is taken always.
Skips(c, i) ==
  /\ c.op \in {"bcc", "cbz", "tbz"} /\ c.imm = 8
  /\ \A holds \in BOOLEAN : Taken(c, holds) <=> ~Taken(i, holds)

\* The branch around the next instruction.
LEMMA SkipOnward ==
  ASSUME NEW c, NEW i, Skips(c, i), NEW a \in Int, NEW x, NEW holds \in BOOLEAN
  PROVE  /\ Leads(c) /\ c.op \notin {"bl", "blr"}
         /\ Onward(c, a, x, holds) = IF Taken(i, holds) THEN a + 4 ELSE a + 8
<1>1. c.op \notin {"br", "blr", "bl"} /\ Leads(c) /\ (Taken(c, holds) <=> ~Taken(i, holds))
  BY DEF Skips, Leads
<1>2. Onward(c, a, x, holds) = IF Taken(c, holds) THEN a + 8 ELSE a + 4
  BY <1>1 DEF Onward, Skips
<1> QED BY <1>1, <1>2

\* The opposite branch around a B to the target leads where the branch did.
LEMMA AroundActs ==
  ASSUME NEW i \in InstructionsARM64, i.op \in {"bcc", "cbz", "tbz"}, NEW src \in Int,
         NEW dst \in Int, i.imm # 4, NEW held,
         NEW c, Skips(c, i), NEW d, d.op = "b", d.imm = Target(i, src) - (dst + 4)
  PROVE  ActsAs(<<c, d>>, dst, i, src, held)
<1> SUFFICES ASSUME NEW holds \in BOOLEAN
             PROVE  Alike(Effect(<<c, d>>, dst, Regs(i), holds, held, Target(i, src)),
                          Len(<<c, d>>), dst, i, src, holds, held)
  BY ActsFrom
<1> DEFINE x == Regs(i)
           to == Onward(i, src, x, holds)
           at == Onward(c, dst, x, holds)
           on == Onward(d, dst + 4, x, holds)
           t == Target(i, src)
           y == Changed(i, src, x, held, t)
           new == Effect(<<c, d>>, dst, x, holds, held, t)
<1>1. /\ to = IF Taken(i, holds) THEN t ELSE src + 4
      /\ t \in Int /\ t # src + 4 /\ y = x[i.r]
  BY BranchFacts DEF Branches5
<1>2. /\ Leads(c) /\ c.op \notin {"bl", "blr"}
      /\ at = IF Taken(i, holds) THEN dst + 4 ELSE dst + 8
  BY SkipOnward
<1>3. on = t /\ Leads(d) /\ d.op \notin {"bl", "blr"}
  <2>1. dst + 4 + d.imm = t
    BY <1>1
  <2> HIDE DEF t
  <2>2. Taken(d, holds) /\ d.op \notin {"br", "blr"}
    BY DEF Taken
  <2> QED BY <2>1, <2>2 DEF Onward, Leads
<1>4. new = IF at = dst + 4 THEN State(on, x, d.op \in {"bl", "blr"})
            ELSE State(at, x, c.op \in {"bl", "blr"})
  <2>1. Registers(x, RegsOf(i))
    BY SetUp
  <2> HIDE DEF x
  <2> QED BY <1>2, <1>3, <2>1, LeadPair
<1>5. Len(<<c, d>>) = 2 /\ dst + 4 * 2 = dst + 8 /\ dst + 8 # dst + 4
  OBVIOUS
<1>6. i.op \notin {"bl", "blr"}
  OBVIOUS
<1> HIDE DEF new, at, on, t, to, y, x
<1>7. new = State(IF Taken(i, holds) THEN t ELSE dst + 8, x, FALSE)
  <2>1. (c.op \in {"bl", "blr"}) = FALSE /\ (d.op \in {"bl", "blr"}) = FALSE
    BY <1>2, <1>3
  <2>2. CASE Taken(i, holds)
    <3>1. at = dst + 4
      BY <1>2, <2>2
    <3>2. new = State(on, x, d.op \in {"bl", "blr"})
      BY <1>4, <3>1, Zenon
    <3> QED BY <1>3, <2>1, <2>2, <3>2, Zenon
  <2>3. CASE ~Taken(i, holds)
    <3>1. at = dst + 8 /\ at # dst + 4
      BY <1>2, <1>5, <2>3
    <3>2. new = State(at, x, c.op \in {"bl", "blr"})
      BY <1>4, <3>1, Zenon
    <3> QED BY <2>1, <2>3, <3>1, <3>2, Zenon
  <2> QED BY <2>2, <2>3
<1>8. /\ new.pc = (IF Taken(i, holds) THEN t ELSE dst + 8) /\ new.x = x /\ new.call = FALSE
  BY <1>7 DEF State
<1>9. /\ new.pc = IF to = src + 4 THEN dst + 4 * 2 ELSE to
      /\ \A r \in {0, i.r} \ {Scratch} : new.x[r] = IF r = i.r THEN y ELSE x[r]
      /\ new.call = (i.op \in {"bl", "blr"})
  <2>1. new.pc = IF to = src + 4 THEN dst + 4 * 2 ELSE to
    BY <1>1, <1>5, <1>8
  <2>2. \A r \in {0, i.r} \ {Scratch} : new.x[r] = IF r = i.r THEN y ELSE x[r]
    BY <1>1, <1>8
  <2>3. (i.op \in {"bl", "blr"}) = FALSE
    BY <1>6
  <2> QED BY <1>8, <2>1, <2>2, <2>3, Zenon
<1> QED BY <1>5, <1>9, Zenon DEF Alike, new, t, to, y, x

-----------------------------------------------------------------------------
\* EmitMovImmediate, and nothing, one instruction or two after it.
LEMMA MovSequence ==
  ASSUME NEW rd, NEW value, NEW X, NEW tail \in Seq(X)
  PROVE  LET mov == EmitMovImmediate(rd, value)
             all == mov \o tail
         IN  /\ Len(mov) \in 1..4 /\ Len(all) = Len(mov) + Len(tail)
             /\ \A n \in 1..Len(mov) : all[n] = mov[n]
             /\ \A n \in 1..Len(tail) : all[Len(mov) + n] = tail[n]
<1>1. PICK Y : EmitMovImmediate(rd, value) \in Seq(Y) /\ Len(EmitMovImmediate(rd, value)) \in 1..4
  BY EmitShort DEF Short
<1> DEFINE mov == EmitMovImmediate(rd, value)
<1> HIDE DEF mov
<1>2. mov \in Seq(X \cup Y) /\ tail \in Seq(X \cup Y) /\ Len(mov) \in 1..4
  BY <1>1 DEF mov
<1> QED BY <1>2 DEF mov

\* The moved number alone.
LEMMA MovAlone ==
  ASSUME NEW D, NEW x0 \in [D -> Int], NEW rd \in D, NEW value \in Int, NEW a \in Int,
         NEW holds, NEW held, NEW place
  PROVE  LET mov == EmitMovImmediate(rd, value)
         IN  /\ Len(mov) \in 1..4
             /\ Effect(mov, a, x0, holds, held, place)
                  = At(a + 4 * Len(mov), x0, rd, value % XSize)
<1> DEFINE mov == EmitMovImmediate(rd, value)
           m == Len(mov)
<1>1. m \in 1..4
  BY EmitShort DEF Short
<1>2. PICK f : /\ StepsOf(f, m, mov, a, x0, holds, held, place)
               /\ Effect(mov, a, x0, holds, held, place) = f[m]
  <2> HIDE DEF mov
  <2> QED BY <1>1, EffectSteps
<1> HIDE DEF m, mov
<1>3. m \in Nat /\ mov = EmitMovImmediate(rd, value)
  BY <1>1 DEF mov
<1>4. Begins(f, mov, mov, m, a, x0, holds, held, place)
  BY <1>1, <1>2 DEF Begins, m
<1>5. f[Len(mov)] = At(a + 4 * Len(mov), x0, rd, value % XSize)
  BY <1>3, <1>4, MovRun
<1> QED BY <1>1, <1>2, <1>5 DEF m, mov

\* Another instruction after it.
LEMMA MovThenOne ==
  ASSUME NEW D, NEW x0 \in [D -> Int], NEW rd \in D, NEW value \in Int, NEW a \in Int,
         NEW holds, NEW held, NEW place, NEW c
  PROVE  LET N == Len(EmitMovImmediate(rd, value))
             all == EmitMovImmediate(rd, value) \o <<c>>
         IN  /\ N \in 1..4 /\ Len(all) = N + 1
             /\ Same(Effect(all, a, x0, holds, held, place),
                     StepOf(At(a + 4 * N, x0, rd, value % XSize), c, a + 4 * N, holds, held, place))
<1> DEFINE mov == EmitMovImmediate(rd, value)
           all == mov \o <<c>>
           N == Len(mov)
           m == Len(all)
           tail == <<c>>
<1>1. N \in 1..4 /\ m = N + 1 /\ (\A n \in 1..N : all[n] = mov[n]) /\ all[N + 1] = c
  <2>1. tail \in Seq({c}) /\ Len(tail) = 1 /\ tail[1] = c /\ 1 \in 1..Len(tail)
    OBVIOUS
  <2>2. all = mov \o tail
    OBVIOUS
  <2> HIDE DEF tail
  <2>3. /\ N \in 1..4 /\ m = N + Len(tail)
        /\ \A n \in 1..N : all[n] = mov[n]
        /\ \A n \in 1..Len(tail) : all[N + n] = tail[n]
    BY <2>1, <2>2, MovSequence
  <2> HIDE DEF all, N, m, mov
  <2> QED BY <2>1, <2>3
<1>2. PICK f : /\ StepsOf(f, m, all, a, x0, holds, held, place)
               /\ Effect(all, a, x0, holds, held, place) = f[m]
  <2> HIDE DEF all
  <2> QED BY <1>1, EffectSteps
<1> HIDE DEF N, m, all, mov
<1>3. m \in Nat /\ mov = EmitMovImmediate(rd, value)
  BY <1>1 DEF mov
<1>4. Begins(f, mov, all, m, a, x0, holds, held, place)
  BY <1>1, <1>2 DEF Begins, N
<1>5. f[N] = At(a + 4 * N, x0, rd, value % XSize)
  BY <1>3, <1>4, MovRun DEF N
<1>6. f[N + 1] = StepOf(f[N], c, a + 4 * N, holds, held, place)
  <2>1. N + 1 \in 1..m /\ N + 1 - 1 = N
    BY <1>1
  <2> DEFINE k == N + 1
  <2>k. k \in 1..m
    BY <2>1
  <2> HIDE DEF k
  <2>2. f[k] = StepOf(f[k - 1], all[k], a + 4 * (k - 1), holds, held, place)
    BY <1>2, <2>k, Zenon DEF StepsOf
  <2> QED BY <1>1, <2>1, <2>2 DEF k
<1> QED BY <1>1, <1>2, <1>5, <1>6, Zenon DEF Same, N, all, mov, m

\* Two others after it.
LEMMA MovThenTwo ==
  ASSUME NEW D, NEW x0 \in [D -> Int], NEW rd \in D, NEW value \in Int, NEW a \in Int,
         NEW holds, NEW held, NEW place, NEW c, NEW d
  PROVE  LET N == Len(EmitMovImmediate(rd, value))
             all == EmitMovImmediate(rd, value) \o <<c, d>>
         IN  /\ N \in 1..4 /\ Len(all) = N + 2
             /\ Same(Effect(all, a, x0, holds, held, place),
                     StepOf(StepOf(At(a + 4 * N, x0, rd, value % XSize), c, a + 4 * N,
                                   holds, held, place),
                            d, a + 4 * N + 4, holds, held, place))
<1> DEFINE mov == EmitMovImmediate(rd, value)
           all == mov \o <<c, d>>
           N == Len(mov)
           m == Len(all)
           tail == <<c, d>>
<1>1. /\ N \in 1..4 /\ m = N + 2 /\ (\A n \in 1..N : all[n] = mov[n])
      /\ all[N + 1] = c /\ all[N + 2] = d
  <2>1. /\ tail \in Seq({c, d}) /\ Len(tail) = 2 /\ tail[1] = c /\ tail[2] = d
        /\ 1 \in 1..Len(tail) /\ 2 \in 1..Len(tail)
    OBVIOUS
  <2>2. all = mov \o tail
    OBVIOUS
  <2> HIDE DEF tail
  <2>3. /\ N \in 1..4 /\ m = N + Len(tail)
        /\ \A n \in 1..N : all[n] = mov[n]
        /\ \A n \in 1..Len(tail) : all[N + n] = tail[n]
    BY <2>1, <2>2, MovSequence
  <2> HIDE DEF all, N, m, mov
  <2> QED BY <2>1, <2>3
<1>2. PICK f : /\ StepsOf(f, m, all, a, x0, holds, held, place)
               /\ Effect(all, a, x0, holds, held, place) = f[m]
  <2> HIDE DEF all
  <2> QED BY <1>1, EffectSteps
<1> HIDE DEF N, m, all, mov
<1>3. m \in Nat /\ mov = EmitMovImmediate(rd, value)
  BY <1>1 DEF mov
<1>4. Begins(f, mov, all, m, a, x0, holds, held, place)
  BY <1>1, <1>2 DEF Begins, N
<1>5. f[N] = At(a + 4 * N, x0, rd, value % XSize)
  BY <1>3, <1>4, MovRun DEF N
<1>6. f[N + 1] = StepOf(f[N], c, a + 4 * N, holds, held, place)
  <2>1. N + 1 \in 1..m /\ N + 1 - 1 = N
    BY <1>1
  <2> DEFINE k == N + 1
  <2>k. k \in 1..m
    BY <2>1
  <2> HIDE DEF k
  <2>2. f[k] = StepOf(f[k - 1], all[k], a + 4 * (k - 1), holds, held, place)
    BY <1>2, <2>k, Zenon DEF StepsOf
  <2> QED BY <1>1, <2>1, <2>2 DEF k
<1>7. f[N + 2] = StepOf(f[N + 1], d, a + 4 * N + 4, holds, held, place)
  <2>1. N + 2 \in 1..m /\ N + 2 - 1 = N + 1 /\ a + 4 * (N + 1) = a + 4 * N + 4
    BY <1>1
  <2> DEFINE k == N + 2
  <2>k. k \in 1..m
    BY <2>1
  <2> HIDE DEF k
  <2>2. f[k] = StepOf(f[k - 1], all[k], a + 4 * (k - 1), holds, held, place)
    BY <1>2, <2>k, Zenon DEF StepsOf
  <2> QED BY <1>1, <2>1, <2>2 DEF k
<1> QED BY <1>1, <1>2, <1>5, <1>6, <1>7, Zenon DEF Same, N, all, mov, m

\* A number that a register holds is kept.
LEMMA SmallRest ==
  ASSUME NEW n \in Nat \ {0}, NEW x \in 0..n - 1
  PROVE  x % n = x
<1>1. x \in Int /\ 0 <= x /\ x < n /\ n * 0 + x = x
  OBVIOUS
<1> QED BY <1>1, Division

\* The scratch register holds the target.
LEMMA PutScratch ==
  ASSUME NEW i \in InstructionsARM64, NEW t \in Int
  PROVE  /\ Registers(Put(Regs(i), Scratch, t), RegsOf(i))
         /\ Put(Regs(i), Scratch, t)[Scratch] = t
         /\ \A r \in {0, i.r} \ {Scratch} : Put(Regs(i), Scratch, t)[r] = Regs(i)[r]
<1> DEFINE x == Regs(i)
           D == RegsOf(i)
           y == Put(x, Scratch, t)
<1>1. x \in [D -> Int] /\ Scratch \in D /\ \A r \in {0, i.r} : r \in D
  BY SetUp DEF RegsOf
<1> HIDE DEF x, D
<1>2. y \in [D -> Int] /\ y[Scratch] = t /\ \A r \in D : r # Scratch => y[r] = x[r]
  BY <1>1 DEF Put
<1> HIDE DEF y
<1>3. Registers(y, D) /\ y[Scratch] = t /\ \A r \in {0, i.r} \ {Scratch} : y[r] = x[r]
  BY <1>1, <1>2 DEF Registers
<1> QED BY <1>3 DEF x, D, y

\* The opposite branch around a BR to the target leads where the branch did.
LEMMA AroundFarActs ==
  ASSUME NEW i \in InstructionsARM64, i.op \in {"bcc", "cbz", "tbz"}, NEW src \in Int,
         NEW dst \in Int, i.imm # 4, NEW held,
         NEW c, Skips(c, i), NEW d, d.op = "br", Target(i, src) \in 0..XSize - 1
  PROVE  ActsAs(EmitMovImmediate(Scratch, Target(i, src)) \o <<c, d>>, dst, i, src, held)
<1> DEFINE t == Target(i, src)
           seq == EmitMovImmediate(Scratch, t) \o <<c, d>>
<1> SUFFICES ASSUME NEW holds \in BOOLEAN
             PROVE  Alike(Effect(seq, dst, Regs(i), holds, held, t), Len(seq), dst, i, src, holds, held)
  <2> HIDE DEF seq
  <2> QED BY ActsFrom DEF seq
<1> DEFINE x0 == Regs(i)
           x == Put(x0, Scratch, t)
           N == Len(EmitMovImmediate(Scratch, t))
           h == dst + 4 * N
           to == Onward(i, src, x0, holds)
           at == Onward(c, h, x, holds)
           y == Changed(i, src, x0, held, t)
           new == Effect(seq, dst, x0, holds, held, t)
           end == IF Taken(i, holds) THEN t ELSE h + 8
<1>1. /\ to = IF Taken(i, holds) THEN t ELSE src + 4
      /\ t \in Int /\ t # src + 4 /\ y = x0[i.r]
  BY BranchFacts DEF Branches5
<1>2. t % XSize = t
  BY SmallRest, Weights
<1>3. /\ x0 \in [RegsOf(i) -> Int] /\ Scratch \in RegsOf(i)
      /\ Registers(x, RegsOf(i)) /\ x[Scratch] = t
      /\ \A r \in {0, i.r} \ {Scratch} : x[r] = x0[r]
  BY <1>1, SetUp, PutScratch
<1>4. /\ N \in 1..4 /\ Len(seq) = N + 2
      /\ Same(new, StepOf(StepOf(At(h, x0, Scratch, t), c, h, holds, held, t),
                          d, h + 4, holds, held, t))
  <2>1. t \in Int /\ dst \in Int
    BY <1>1
  <2>2. x0 \in [RegsOf(i) -> Int] /\ Scratch \in RegsOf(i)
    BY <1>3
  <2> HIDE DEF t, x0
  <2>3. /\ N \in 1..4 /\ Len(seq) = N + 2
        /\ Same(new, StepOf(StepOf(At(dst + 4 * N, x0, Scratch, t % XSize), c, dst + 4 * N,
                                   holds, held, t),
                            d, dst + 4 * N + 4, holds, held, t))
    BY <2>1, <2>2, MovThenTwo
  <2> HIDE DEF N, new
  <2> QED BY <1>2, <2>3
<1>5. h \in Int /\ dst + 4 * (N + 2) = h + 8 /\ h + 4 # h + 8
  BY <1>4
<1> HIDE DEF N, h
<1>6. /\ Leads(c) /\ c.op \notin {"bl", "blr"}
      /\ at = IF Taken(i, holds) THEN h + 4 ELSE h + 8
  BY <1>5, SkipOnward
<1> HIDE DEF x, t, x0, at
<1>7. StepOf(At(h, x0, Scratch, t), c, h, holds, held, t) = State(at, x, FALSE)
  <2>1. At(h, x0, Scratch, t) = State(h, x, FALSE)
    BY DEF At, State, x
  <2>2. Same(StepOf(State(h, x, FALSE), c, h, holds, held, t),
             State(Onward(c, h, x, holds), x, c.op \in {"bl", "blr"}))
    BY <1>3, <1>6, LeadStep, Zenon
  <2>3. (c.op \in {"bl", "blr"}) = FALSE
    BY <1>6
  <2> QED BY <2>1, <2>2, <2>3, Zenon DEF Same, at
<1> DEFINE g == h + 4
<1>8. new = StepOf(State(at, x, FALSE), d, g, holds, held, t)
  BY <1>4, <1>7, Zenon DEF Same
<1>9. new = State(end, x, FALSE)
  <2>1. CASE Taken(i, holds)
    <3>1. at = g
      BY <1>6, <2>1
    <3>2. Leads(d) /\ (d.op \in {"bl", "blr"}) = FALSE /\ d.op = "br" /\ Taken(d, holds)
      BY DEF Leads, Taken
    <3>3. Onward(d, g, x, holds) = t
      BY <1>3, <3>2 DEF Onward
    <3> HIDE DEF g
    <3>4. Same(StepOf(State(g, x, FALSE), d, g, holds, held, t),
               State(Onward(d, g, x, holds), x, d.op \in {"bl", "blr"}))
      BY <1>3, <3>2, LeadStep, Zenon
    <3> QED BY <1>8, <2>1, <3>1, <3>2, <3>3, <3>4, Zenon DEF Same
  <2>2. CASE ~Taken(i, holds)
    <3>1. at = h + 8 /\ at # g
      BY <1>5, <1>6, <2>2
    <3> HIDE DEF g
    <3>2. Same(StepOf(State(at, x, FALSE), d, g, holds, held, t), State(at, x, FALSE))
      BY <3>1, PassStep, Zenon
    <3> QED BY <1>8, <2>2, <3>1, <3>2, Zenon DEF Same
  <2> QED BY <2>1, <2>2
<1> HIDE DEF new, to, y, end
<1>10. new.pc = end /\ new.x = x /\ new.call = FALSE
  BY <1>9 DEF State
<1>11. /\ new.pc = IF to = src + 4 THEN dst + 4 * (N + 2) ELSE to
       /\ \A r \in {0, i.r} \ {Scratch} : new.x[r] = IF r = i.r THEN y ELSE x0[r]
       /\ new.call = (i.op \in {"bl", "blr"})
  <2>1. new.pc = IF to = src + 4 THEN dst + 4 * (N + 2) ELSE to
    BY <1>1, <1>5, <1>10 DEF end
  <2>2. \A r \in {0, i.r} \ {Scratch} : new.x[r] = IF r = i.r THEN y ELSE x0[r]
    BY <1>1, <1>3, <1>10
  <2>3. (i.op \in {"bl", "blr"}) = FALSE
    OBVIOUS
  <2> QED BY <1>10, <2>1, <2>2, <2>3, Zenon
<1> QED BY <1>4, <1>11, Zenon DEF Alike, new, t, to, y, x0

\* BR and BLR lead where B and BL did.
LEMMA JumpFarActs ==
  ASSUME NEW i \in InstructionsARM64, i.op \in {"b", "bl"}, NEW src \in Int,
         NEW dst \in Int, i.imm # 4, NEW held,
         NEW d, d.op = (IF i.op = "bl" THEN "blr" ELSE "br"), Target(i, src) \in 0..XSize - 1
  PROVE  ActsAs(EmitMovImmediate(Scratch, Target(i, src)) \o <<d>>, dst, i, src, held)
<1> DEFINE t == Target(i, src)
           seq == EmitMovImmediate(Scratch, t) \o <<d>>
<1> SUFFICES ASSUME NEW holds \in BOOLEAN
             PROVE  Alike(Effect(seq, dst, Regs(i), holds, held, t), Len(seq), dst, i, src, holds, held)
  <2> HIDE DEF seq
  <2> QED BY ActsFrom DEF seq
<1> DEFINE x0 == Regs(i)
           x == Put(x0, Scratch, t)
           N == Len(EmitMovImmediate(Scratch, t))
           h == dst + 4 * N
           to == Onward(i, src, x0, holds)
           y == Changed(i, src, x0, held, t)
           new == Effect(seq, dst, x0, holds, held, t)
           bl == d.op \in {"bl", "blr"}
<1>1. /\ to = IF Taken(i, holds) THEN t ELSE src + 4
      /\ t \in Int /\ t # src + 4 /\ y = x0[i.r]
  BY BranchFacts DEF Branches5
<1>a. to = t
  BY <1>1 DEF Taken
<1>2. t % XSize = t
  BY SmallRest, Weights
<1>3. /\ x0 \in [RegsOf(i) -> Int] /\ Scratch \in RegsOf(i)
      /\ Registers(x, RegsOf(i)) /\ x[Scratch] = t
      /\ \A r \in {0, i.r} \ {Scratch} : x[r] = x0[r]
  BY <1>1, SetUp, PutScratch
<1>4. /\ N \in 1..4 /\ Len(seq) = N + 1
      /\ Same(new, StepOf(At(h, x0, Scratch, t), d, h, holds, held, t))
  <2> HIDE DEF t, x0
  <2> QED BY <1>1, <1>2, <1>3, MovThenOne
<1> HIDE DEF N, h, x, t, x0
<1>5. Leads(d) /\ Onward(d, h, x, holds) = t /\ bl = (i.op \in {"bl", "blr"})
  <2>1. d.op \in {"br", "blr"} /\ Taken(d, holds)
    BY DEF Taken
  <2> QED BY <1>3, <2>1 DEF Leads, Onward
<1>6. new = State(t, x, bl)
  <2>1. At(h, x0, Scratch, t) = State(h, x, FALSE)
    BY DEF At, State, x
  <2>2. Same(StepOf(State(h, x, FALSE), d, h, holds, held, t),
             State(Onward(d, h, x, holds), x, d.op \in {"bl", "blr"}))
    BY <1>3, <1>5, LeadStep, Zenon
  <2> HIDE DEF new
  <2> QED BY <1>4, <1>5, <2>1, <2>2, Zenon DEF Same, bl
<1> HIDE DEF new, to, y, bl
<1>7. new.pc = t /\ new.x = x /\ new.call = bl
  BY <1>6 DEF State
<1>8. /\ new.pc = IF to = src + 4 THEN dst + 4 * (N + 1) ELSE to
      /\ \A r \in {0, i.r} \ {Scratch} : new.x[r] = IF r = i.r THEN y ELSE x0[r]
      /\ new.call = (i.op \in {"bl", "blr"})
  BY <1>1, <1>a, <1>3, <1>5, <1>7
<1> HIDE DEF seq
<1>9. Len(seq) = N + 1
  BY <1>4
<1>10. Alike(new, N + 1, dst, i, src, holds, held)
  BY <1>8, Zenon DEF Alike, t, to, y, x0
<1> QED BY <1>9, <1>10 DEF new, x0

\* An instruction that sets a register goes on to the next one.
LEMMA SetsFacts ==
  ASSUME NEW i, Sets(i), NEW a, NEW x, NEW holds
  PROVE  /\ Onward(i, a, x, holds) = a + 4
         /\ (i.op \in {"bl", "blr"}) = FALSE
<1>1. ~Taken(i, holds)
  BY DEF Sets, Taken
<1> QED BY <1>1 DEF Sets, Onward

\* The copy has set the register to y.
LEMMA SetAlike ==
  ASSUME NEW i \in InstructionsARM64, Sets(i), NEW src \in Int, NEW dst \in Int, NEW held,
         NEW holds, NEW len \in Nat, NEW y, y = Changed(i, src, Regs(i), held, Target(i, src)),
         NEW new, new = At(dst + 4 * len, Regs(i), i.r, y)
  PROVE  Alike(new, len, dst, i, src, holds, held)
<1> DEFINE x == Regs(i)
           bl == i.op \in {"bl", "blr"}
           to == Onward(i, src, x, holds)
<1>1. to = src + 4 /\ bl = FALSE
  BY SetsFacts
<1>2. \A r \in {0, i.r} \ {Scratch} : Put(x, i.r, y)[r] = IF r = i.r THEN y ELSE x[r]
  <2>1. x \in [RegsOf(i) -> Int] /\ \A r \in {0, i.r} : r \in RegsOf(i)
    BY SetUp
  <2> HIDE DEF x
  <2> QED BY <2>1 DEF Put
<1> HIDE DEF x, bl, to
<1>3. new.pc = dst + 4 * len /\ new.x = Put(x, i.r, y) /\ new.call = FALSE
  BY DEF At, x
<1>4. /\ new.pc = IF to = src + 4 THEN dst + 4 * len ELSE to
      /\ \A r \in {0, i.r} \ {Scratch} : new.x[r] = IF r = i.r THEN y ELSE x[r]
      /\ new.call = bl
  BY <1>1, <1>2, <1>3
<1> QED BY <1>4, Zenon DEF Alike, to, x, bl

\* One instruction sets the register as the other did.
LEMMA SetActs ==
  ASSUME NEW i \in InstructionsARM64, Sets(i), NEW src \in Int, NEW dst \in Int, NEW held,
         NEW c, Sets(c), c.r = i.r,
         Changed(c, dst, Regs(i), held, Target(i, src))
           = Changed(i, src, Regs(i), held, Target(i, src))
  PROVE  ActsAs(<<c>>, dst, i, src, held)
<1> DEFINE seq == <<c>>
           x == Regs(i)
           t == Target(i, src)
           y == Changed(c, dst, x, held, t)
<1> SUFFICES ASSUME NEW holds \in BOOLEAN
             PROVE  Alike(Effect(seq, dst, x, holds, held, t), Len(seq), dst, i, src, holds, held)
  BY ActsFrom
<1> DEFINE new == Effect(seq, dst, x, holds, held, t)
           to == Onward(c, dst, x, holds)
           bl == c.op \in {"bl", "blr"}
<1>1. to = dst + 4 /\ bl = FALSE
  BY SetsFacts
<1>2. new = [pc |-> to, x |-> [x EXCEPT ![c.r] = y], call |-> bl]
  BY EffectOfOne
<1>3. Len(seq) = 1 /\ 1 \in Nat /\ dst + 4 * 1 = dst + 4
  OBVIOUS
<1>4. y = Changed(i, src, Regs(i), held, Target(i, src))
  OBVIOUS
<1> HIDE DEF new, to, bl, y, x, t, seq
<1>5. new = At(dst + 4 * 1, x, i.r, y)
  BY <1>1, <1>2, <1>3, Zenon DEF At, Put
<1>6. Alike(new, 1, dst, i, src, holds, held)
  BY <1>3, <1>4, <1>5, SetAlike DEF x
<1> QED BY <1>3, <1>6 DEF new

\* So do the moves of EmitMovImmediate.
LEMMA MovActs ==
  ASSUME NEW i \in InstructionsARM64, Sets(i), NEW src \in Int, NEW dst \in Int, NEW held,
         NEW value \in Int,
         value % XSize = Changed(i, src, Regs(i), held, Target(i, src))
  PROVE  ActsAs(EmitMovImmediate(i.r, value), dst, i, src, held)
<1> DEFINE seq == EmitMovImmediate(i.r, value)
           x == Regs(i)
           t == Target(i, src)
           y == value % XSize
           N == Len(seq)
<1> SUFFICES ASSUME NEW holds \in BOOLEAN
             PROVE  Alike(Effect(seq, dst, x, holds, held, t), Len(seq), dst, i, src, holds, held)
  <2> HIDE DEF seq
  <2> QED BY ActsFrom DEF seq
<1> DEFINE new == Effect(seq, dst, x, holds, held, t)
<1>1. x \in [RegsOf(i) -> Int] /\ i.r \in RegsOf(i)
  BY SetUp
<1>2. y = Changed(i, src, Regs(i), held, Target(i, src))
  OBVIOUS
<1> HIDE DEF x, t
<1>3. N \in 1..4 /\ new = At(dst + 4 * N, x, i.r, y)
  <2>1. dst \in Int /\ value \in Int
    OBVIOUS
  <2>2. /\ N \in 1..4
        /\ Effect(EmitMovImmediate(i.r, value), dst, x, holds, held, t)
             = At(dst + 4 * N, x, i.r, value % XSize)
    BY <1>1, <2>1, MovAlone
  <2> QED BY <2>2
<1> HIDE DEF N, new, y
<1>4. N \in Nat
  BY <1>3
<1>5. Alike(new, N, dst, i, src, holds, held)
  BY <1>2, <1>3, <1>4, SetAlike DEF x
<1> QED BY <1>5 DEF N, new

\* ADRP and ADD.
LEMMA PairActs ==
  ASSUME NEW i \in InstructionsARM64, Sets(i), NEW src \in Int, NEW dst \in Int, NEW held,
         NEW c, Sets(c), c.r = i.r, NEW d, Sets(d), d.r = i.r,
         NEW u, u = Changed(c, dst, Regs(i), held, Target(i, src)),
         Changed(d, dst + 4, Put(Regs(i), i.r, u), held, Target(i, src))
           = Changed(i, src, Regs(i), held, Target(i, src))
  PROVE  ActsAs(<<c, d>>, dst, i, src, held)
<1> DEFINE seq == <<c, d>>
           x == Regs(i)
           t == Target(i, src)
           h == dst + 4
           y == Changed(d, h, Put(x, i.r, u), held, t)
<1> SUFFICES ASSUME NEW holds \in BOOLEAN
             PROVE  Alike(Effect(seq, dst, x, holds, held, t), Len(seq), dst, i, src, holds, held)
  BY ActsFrom
<1> DEFINE new == Effect(seq, dst, x, holds, held, t)
           to == Onward(c, dst, x, holds)
           bl == c.op \in {"bl", "blr"}
<1>1. to = h /\ bl = FALSE
  BY SetsFacts
<1>2. new = StepOf(FirstOf(c, dst, x, holds, held, t), d, h, holds, held, t)
  <2> HIDE DEF t, x
  <2>1. dst \in Int
    OBVIOUS
  <2>2. Same(Effect(<<c, d>>, dst, x, holds, held, t),
             StepOf(FirstOf(c, dst, x, holds, held, t), d, After4(dst), holds, held, t))
    BY <2>1, EffectOfTwo, Zenon
  <2> QED BY <2>2, Zenon DEF Same, After4
<1>3. Len(seq) = 2 /\ 2 \in Nat /\ dst + 4 * 2 = h + 4
  OBVIOUS
<1>4. y = Changed(i, src, Regs(i), held, Target(i, src))
  OBVIOUS
<1>u. u = Changed(c, dst, x, held, t)
  OBVIOUS
<1> HIDE DEF new, to, bl, y, x, t, seq, h
<1>5. FirstOf(c, dst, x, holds, held, t) = At(h, x, i.r, u)
  BY <1>1, <1>u, Zenon DEF At, Put, FirstOf, to, bl
<1>6. Same(StepOf(At(h, x, i.r, u), d, h, holds, held, t),
           At(After4(h), x, i.r, Changed(d, h, Put(x, i.r, u), held, t)))
  BY MoveStep, Zenon
<1>7. new = At(dst + 4 * 2, x, i.r, y)
  BY <1>2, <1>3, <1>5, <1>6, Zenon DEF Same, After4, y
<1>8. Alike(new, 2, dst, i, src, holds, held)
  BY <1>3, <1>4, <1>7, SetAlike DEF x
<1> QED BY <1>3, <1>8 DEF new

\* A load whose address the scratch register holds.
LEMMA LoadFarActs ==
  ASSUME NEW i \in InstructionsARM64, i.op = "ldrv", NEW src \in Int, NEW dst \in Int, NEW held,
         NEW c, c.op = "ldrx", c.r = i.r, c.k = 2 + i.k, Target(i, src) \in 0..XSize - 1
  PROVE  ActsAs(EmitMovImmediate(Scratch, Target(i, src)) \o <<c>>, dst, i, src, held)
<1> DEFINE t == Target(i, src)
           seq == EmitMovImmediate(Scratch, t) \o <<c>>
<1> SUFFICES ASSUME NEW holds \in BOOLEAN
             PROVE  Alike(Effect(seq, dst, Regs(i), holds, held, t), Len(seq), dst, i, src, holds, held)
  <2> HIDE DEF seq
  <2> QED BY ActsFrom DEF seq
<1> DEFINE x0 == Regs(i)
           x == Put(x0, Scratch, t)
           N == Len(EmitMovImmediate(Scratch, t))
           h == dst + 4 * N
           to == Onward(i, src, x0, holds)
           y == Changed(i, src, x0, held, t)
           z == Changed(c, h, x, held, t)
           new == Effect(seq, dst, x0, holds, held, t)
           bl == i.op \in {"bl", "blr"}
           blc == c.op \in {"bl", "blr"}
           on == Onward(c, h, x, holds)
<1>0. t \in Int
  BY SetUp DEF Target
<1>1. to = src + 4 /\ bl = FALSE /\ on = h + 4 /\ blc = FALSE
  <2>1. Sets(i) /\ Sets(c)
    BY DEF Sets
  <2> QED BY <2>1, SetsFacts
<1>2. t % XSize = t
  BY SmallRest, Weights
<1>3. /\ x0 \in [RegsOf(i) -> Int] /\ Scratch \in RegsOf(i) /\ i.r \in RegsOf(i)
      /\ Registers(x, RegsOf(i)) /\ x[Scratch] = t
      /\ \A r \in {0, i.r} \ {Scratch} : x[r] = x0[r]
  BY <1>0, SetUp, PutScratch
<1>4. /\ N \in 1..4 /\ Len(seq) = N + 1
      /\ Same(new, StepOf(At(h, x0, Scratch, t), c, h, holds, held, t))
  <2> HIDE DEF t, x0
  <2> QED BY <1>0, <1>2, <1>3, MovThenOne
<1>5. y = z
  <2>1. y = Loaded(t, i.k + 2)
    BY DEF Changed, Target
  <2>2. z = Loaded(x[Scratch], c.k)
    BY DEF Changed
  <2>3. i.k + 2 = 2 + i.k
    <3>1. i.k \in Int
      BY DEF InstructionsARM64
    <3> QED BY <3>1
  <2> QED BY <1>3, <2>1, <2>2, <2>3
<1>6. dst + 4 * (N + 1) = h + 4
  BY <1>4
<1> HIDE DEF N, h, x, t, x0, z, y, to, bl, blc, new, on, seq
<1>7. new = [pc |-> on, x |-> [x EXCEPT ![i.r] = z], call |-> blc]
  <2> DEFINE s == At(h, x0, Scratch, t)
  <2>1. s.pc = h /\ s.x = x
    BY DEF At, x
  <2> HIDE DEF s
  <2>2. StepOf(s, c, h, holds, held, t) = [pc |-> on, x |-> [x EXCEPT ![c.r] = z], call |-> blc]
    BY <2>1, Zenon DEF StepOf, on, z, blc
  <2> QED BY <1>4, <2>2, Zenon DEF Same, s
<1>8. new.pc = on /\ new.x = [x EXCEPT ![i.r] = z] /\ new.call = blc
  BY <1>7
<1>9. \A r \in {0, i.r} \ {Scratch} : [x EXCEPT ![i.r] = z][r] = IF r = i.r THEN z ELSE x0[r]
  <2>1. x \in [RegsOf(i) -> Int] /\ \A r \in {0, i.r} : r \in RegsOf(i)
    BY <1>3 DEF Registers, RegsOf
  <2> QED BY <1>3, <2>1
<1>10. /\ new.pc = IF to = src + 4 THEN dst + 4 * (N + 1) ELSE to
       /\ \A r \in {0, i.r} \ {Scratch} : new.x[r] = IF r = i.r THEN y ELSE x0[r]
       /\ new.call = bl
  BY <1>1, <1>5, <1>6, <1>8, <1>9
<1>11. Alike(new, N + 1, dst, i, src, holds, held)
  BY <1>10, Zenon DEF Alike, t, to, y, x0, bl
<1> QED BY <1>4, <1>11 DEF new, x0

-----------------------------------------------------------------------------
\* The distances that copies are given are in words.
LEMMA Distance4 ==
  ASSUME NEW i \in InstructionsARM64, i.imm % 4 = 0, NEW src \in Int, NEW dst \in Int,
         (src - dst) % 4 = 0
  PROVE  /\ Target(i, src) \in Int
         /\ Target(i, src) - dst \in Int /\ (Target(i, src) - dst) % 4 = 0
         /\ Target(i, src) - (dst + 4) \in Int /\ (Target(i, src) - (dst + 4)) % 4 = 0
<1>1. i.imm \in Int
  BY SetUp
<1> DEFINE a == i.imm
           b == src - dst
<1>2. a \in Int /\ a % 4 = 0 /\ b \in Int /\ b % 4 = 0
  BY <1>1
<1>3. src + a - dst = a + b /\ src + a - (dst + 4) = a + b - 4
  BY <1>1
<1> HIDE DEF a, b
<1>4. a + b \in Int /\ (a + b) % 4 = 0 /\ (a + b - 4) % 4 = 0
  BY <1>2
<1> QED BY <1>1, <1>3, <1>4 DEF Target, a

\* A skip of two instructions is within reach.
LEMMA Reaches ==
  /\ Reach14 \in Nat \ {0} /\ Reach19 \in Nat \ {0} /\ Reach21 \in Nat \ {0} /\ Reach26 \in Nat \ {0}
  /\ 2 < Reach14 /\ 2 < Reach19 /\ 2 < Reach26 /\ PageSize \in Nat \ {0}
  /\ Words(8, Reach19) = 8 /\ Words(8, Reach14) = 8
<1>1. /\ Reach14 \in Nat \ {0} /\ Reach19 \in Nat \ {0} /\ Reach21 \in Nat \ {0}
      /\ Reach26 \in Nat \ {0} /\ PageSize \in Nat \ {0}
      /\ 2 < Reach14 /\ 2 < Reach19 /\ 2 < Reach26
  BY InstructionSetARM64Assumption
<1>2. 8 \in Int /\ 8 % 4 = 0
  OBVIOUS
<1>3. Within(8, 4 * Reach19) /\ Within(8, 4 * Reach14)
  BY <1>1 DEF Within
<1> QED BY <1>1, <1>2, <1>3, WordsKept

\* FarBranch leads where the branch did.
LEMMA FarBranchActs ==
  ASSUME NEW i \in InstructionsARM64, i.op \in {"bcc", "cbz", "tbz"}, i.imm % 4 = 0, i.imm # 4,
         NEW src \in Int, NEW dst \in Int, (src - dst) % 4 = 0, NEW held,
         NEW c, Skips(c, i), Target(i, src) \in 0..XSize - 1
  PROVE  ActsAs(FarBranch(c, Target(i, src), dst), dst, i, src, held)
<1> DEFINE t == Target(i, src)
           near == Within(t - (dst + 4), 4 * Reach26)
<1>1. t - (dst + 4) \in Int /\ (t - (dst + 4)) % 4 = 0
  BY Distance4
<1>2. CASE near
  <2> DEFINE d == Branch(FALSE, t - (dst + 4))
  <2>1. Words(t - (dst + 4), Reach26) = t - (dst + 4)
    BY <1>1, <1>2, Reaches, WordsKept
  <2>2. d.op = "b" /\ d.imm = t - (dst + 4)
    BY <2>1 DEF Branch, Instr
  <2>3. FarBranch(c, t, dst) = <<c, d>>
    BY <1>2, Zenon DEF FarBranch
  <2> HIDE DEF d
  <2>4. ActsAs(<<c, d>>, dst, i, src, held)
    BY <2>2, AroundActs
  <2> QED BY <2>3, <2>4
<1>3. CASE ~near
  <2> DEFINE d == Br(FALSE)
  <2>1. FarBranch(c, t, dst) = EmitMovImmediate(Scratch, t) \o <<c, d>>
    BY <1>3, Zenon DEF FarBranch
  <2>2. d.op = "br"
    BY DEF Br, Instr
  <2> HIDE DEF d
  <2>3. ActsAs(EmitMovImmediate(Scratch, t) \o <<c, d>>, dst, i, src, held)
    BY <2>2, AroundFarActs
  <2> QED BY <2>1, <2>3
<1> QED BY <1>2, <1>3

\* CopyBcc, but for AL and NV too far away, which have no opposite.
LEMMA BccActs ==
  ASSUME NEW i \in InstructionsARM64, i.op = "bcc", i.imm % 4 = 0, i.imm # 4,
         NEW src \in Int, NEW dst \in Int, (src - dst) % 4 = 0, NEW held,
         Target(i, src) \in 0..XSize - 1,
         i.k < 14 \/ Within(Target(i, src) - dst, 4 * Reach19)
  PROVE  ActsAs(CopyBcc(i, src, dst), dst, i, src, held)
<1> DEFINE t == Target(i, src)
           opposite == IF i.k % 2 = 0 THEN i.k + 1 ELSE i.k - 1
           near == Within(t - dst, 4 * Reach19)
<1>1. t - dst \in Int /\ (t - dst) % 4 = 0
  BY Distance4
<1>2. i.k \in 0..15
  BY DEF InstructionsARM64
<1>3. CASE near
  <2> DEFINE c == Bcc(i.k, t - dst)
  <2>1. Words(t - dst, Reach19) = t - dst
    BY <1>1, <1>3, Reaches, WordsKept
  <2>2. c.op = i.op /\ c.imm = t - dst /\ c.k = i.k
    BY <2>1 DEF Bcc, Instr
  <2>3. CopyBcc(i, src, dst) = <<c>>
    BY <1>3, Zenon DEF CopyBcc
  <2> HIDE DEF c
  <2>4. \A holds \in BOOLEAN : Taken(c, holds) <=> Taken(i, holds)
    BY <2>2 DEF Taken
  <2>5. ActsAs(<<c>>, dst, i, src, held)
    BY <2>2, <2>4, NearActs DEF Branches5
  <2> QED BY <2>3, <2>5
<1>4. CASE ~near
  <2> DEFINE c == Bcc(opposite, 8)
  <2>1. CopyBcc(i, src, dst) = FarBranch(c, t, dst)
    BY <1>4, Zenon DEF CopyBcc
  <2>2. c.op = "bcc" /\ c.imm = 8 /\ c.k = opposite
    BY Reaches DEF Bcc, Instr
  <2>3. i.k < 14
    BY <1>4
  <2>4. opposite \in Int /\ opposite < 14 /\ (opposite % 2 = 0 <=> ~(i.k % 2 = 0))
    BY <1>2, <2>3
  <2> HIDE DEF c, opposite
  <2>5. Skips(c, i)
    <3>1. ~(c.k >= 14) /\ ~(i.k >= 14)
      BY <1>2, <2>2, <2>3, <2>4
    <3> QED BY <2>2, <2>4, <3>1 DEF Skips, Taken
  <2>6. ActsAs(FarBranch(c, t, dst), dst, i, src, held)
    BY <2>5, FarBranchActs
  <2> QED BY <2>1, <2>6
<1> QED BY <1>3, <1>4

\* CopyB_or_Bl.
LEMMA BActs ==
  ASSUME NEW i \in InstructionsARM64, i.op \in {"b", "bl"}, i.imm % 4 = 0, i.imm # 4,
         NEW src \in Int, NEW dst \in Int, (src - dst) % 4 = 0, NEW held,
         Target(i, src) \in 0..XSize - 1
  PROVE  ActsAs(CopyB_or_Bl(i, src, dst), dst, i, src, held)
<1> DEFINE t == Target(i, src)
           near == Within(t - dst, 4 * Reach26)
           bl == i.op = "bl"
<1>1. t - dst \in Int /\ (t - dst) % 4 = 0
  BY Distance4
<1>2. CASE near
  <2> DEFINE c == Branch(bl, t - dst)
  <2>1. Words(t - dst, Reach26) = t - dst
    BY <1>1, <1>2, Reaches, WordsKept
  <2>2. c.op = i.op /\ c.imm = t - dst
    BY <2>1 DEF Branch, Instr
  <2>3. CopyB_or_Bl(i, src, dst) = <<c>>
    BY <1>2, Zenon DEF CopyB_or_Bl
  <2> HIDE DEF c
  <2>4. \A holds \in BOOLEAN : Taken(c, holds) <=> Taken(i, holds)
    BY <2>2 DEF Taken
  <2>5. ActsAs(<<c>>, dst, i, src, held)
    BY <2>2, <2>4, NearActs DEF Branches5
  <2> QED BY <2>3, <2>5
<1>3. CASE ~near
  <2> DEFINE d == Br(bl)
  <2>1. CopyB_or_Bl(i, src, dst) = EmitMovImmediate(Scratch, t) \o <<d>>
    BY <1>3, Zenon DEF CopyB_or_Bl
  <2>2. d.op = IF bl THEN "blr" ELSE "br"
    BY DEF Br, Instr
  <2> HIDE DEF d
  <2>3. ActsAs(EmitMovImmediate(Scratch, t) \o <<d>>, dst, i, src, held)
    BY <2>2, JumpFarActs
  <2> QED BY <2>1, <2>3
<1> QED BY <1>2, <1>3

\* CopyCbz.
LEMMA CbzActs ==
  ASSUME NEW i \in InstructionsARM64, i.op = "cbz", i.imm % 4 = 0, i.imm # 4, i.k \in {0, 1},
         NEW src \in Int, NEW dst \in Int, (src - dst) % 4 = 0, NEW held,
         Target(i, src) \in 0..XSize - 1
  PROVE  ActsAs(CopyCbz(i, src, dst), dst, i, src, held)
<1> DEFINE t == Target(i, src)
           near == Within(t - dst, 4 * Reach19)
<1>1. t - dst \in Int /\ (t - dst) % 4 = 0
  BY Distance4
<1>2. CASE near
  <2> DEFINE c == Cbz(i.k, i.r, t - dst)
  <2>1. Words(t - dst, Reach19) = t - dst
    BY <1>1, <1>2, Reaches, WordsKept
  <2>2. c.op = i.op /\ c.imm = t - dst /\ c.k = i.k
    BY <2>1 DEF Cbz, Instr
  <2>3. CopyCbz(i, src, dst) = <<c>>
    BY <1>2, Zenon DEF CopyCbz
  <2> HIDE DEF c
  <2>4. \A holds \in BOOLEAN : Taken(c, holds) <=> Taken(i, holds)
    BY <2>2 DEF Taken
  <2>5. ActsAs(<<c>>, dst, i, src, held)
    BY <2>2, <2>4, NearActs DEF Branches5
  <2> QED BY <2>3, <2>5
<1>3. CASE ~near
  <2> DEFINE c == Cbz(1 - i.k, i.r, 8)
  <2>1. CopyCbz(i, src, dst) = FarBranch(c, t, dst)
    BY <1>3, Zenon DEF CopyCbz
  <2>2. c.op = "cbz" /\ c.imm = 8 /\ c.k = 1 - i.k
    BY Reaches DEF Cbz, Instr
  <2> HIDE DEF c
  <2>3. c.k = 0 <=> ~(i.k = 0)
    BY <2>2
  <2>4. Skips(c, i)
    BY <2>2, <2>3 DEF Skips, Taken
  <2>5. ActsAs(FarBranch(c, t, dst), dst, i, src, held)
    BY <2>4, FarBranchActs
  <2> QED BY <2>1, <2>5
<1> QED BY <1>2, <1>3

\* CopyTbz.
LEMMA TbzActs ==
  ASSUME NEW i \in InstructionsARM64, i.op = "tbz", i.imm % 4 = 0, i.imm # 4, i.k \in {0, 1},
         NEW src \in Int, NEW dst \in Int, (src - dst) % 4 = 0, NEW held,
         Target(i, src) \in 0..XSize - 1
  PROVE  ActsAs(CopyTbz(i, src, dst), dst, i, src, held)
<1> DEFINE t == Target(i, src)
           near == Within(t - dst, Reach14)
<1>1. t - dst \in Int /\ (t - dst) % 4 = 0
  BY Distance4
<1>2. CASE near
  <2> DEFINE c == Tbz(i.k, i.r, t - dst)
  <2>1. Words(t - dst, Reach14) = t - dst
    <3>1. Within(t - dst, 4 * Reach14)
      BY <1>1, <1>2, Reaches DEF Within
    <3> HIDE DEF t
    <3> QED BY <1>1, <3>1, Reaches, WordsKept
  <2>2. c.op = i.op /\ c.imm = t - dst /\ c.k = i.k
    BY <2>1 DEF Tbz, Instr
  <2>3. CopyTbz(i, src, dst) = <<c>>
    BY <1>2, Zenon DEF CopyTbz
  <2> HIDE DEF c
  <2>4. \A holds \in BOOLEAN : Taken(c, holds) <=> Taken(i, holds)
    BY <2>2 DEF Taken
  <2>5. ActsAs(<<c>>, dst, i, src, held)
    BY <2>2, <2>4, NearActs DEF Branches5
  <2> QED BY <2>3, <2>5
<1>3. CASE ~near
  <2> DEFINE c == Tbz(1 - i.k, i.r, 8)
  <2>1. CopyTbz(i, src, dst) = FarBranch(c, t, dst)
    BY <1>3, Zenon DEF CopyTbz
  <2>2. c.op = "tbz" /\ c.imm = 8 /\ c.k = 1 - i.k
    BY Reaches DEF Tbz, Instr
  <2> HIDE DEF c
  <2>3. c.k = 0 <=> ~(i.k = 0)
    BY <2>2
  <2>4. Skips(c, i)
    BY <2>2, <2>3 DEF Skips, Taken
  <2>5. ActsAs(FarBranch(c, t, dst), dst, i, src, held)
    BY <2>4, FarBranchActs
  <2> QED BY <2>1, <2>5
<1> QED BY <1>2, <1>3

\* Literals are read as numbers that a register holds.
LEMMA ExtendedRange ==
  ASSUME NEW value \in 0..XSize - 1, NEW k \in 0..2
  PROVE  Extended(value, k) \in 0..XSize - 1
<1>1. WSize \in Nat \ {0} /\ XSize \in Nat \ {0} /\ WSize <= XSize
  BY Weights
<1>2. CASE k = 0
  <2>1. value % WSize \in Int /\ 0 <= value % WSize /\ value % WSize < WSize
    BY <1>1, Divided
  <2> QED BY <1>1, <1>2, <2>1 DEF Extended
<1>3. CASE k = 1
  BY <1>3 DEF Extended
<1>4. CASE k = 2
  <2> DEFINE s == Signed(value % WSize, WSize \div 2)
             half == WSize \div 2
  <2>1. WSize > 1
    BY Weights
  <2>2. half \in Nat \ {0}
    BY <1>1, <2>1
  <2>3. value % WSize \in Int
    BY <1>1, Divided
  <2> HIDE DEF half
  <2>4. ((value % WSize) + half) % (2 * half) \in Int
    <3> DEFINE a == (value % WSize) + half
               b == 2 * half
    <3>1. a \in Int /\ b \in Nat \ {0}
      BY <2>2, <2>3
    <3> HIDE DEF a, b
    <3>2. a % b \in Int
      BY <3>1, Divided
    <3> QED BY <3>2 DEF a, b
  <2>5. s \in Int
    BY <2>2, <2>4 DEF Signed, half
  <2> HIDE DEF s
  <2>6. s % XSize \in Int /\ 0 <= s % XSize /\ s % XSize < XSize
    BY <1>1, <2>5, Divided
  <2>7. Extended(value, k) = s % XSize
    BY <1>4 DEF Extended, s
  <2> QED BY <1>1, <2>6, <2>7
<1> QED BY <1>2, <1>3, <1>4

\* CopyLdrLiteral, within reach of the field or beyond the limit that the code takes for it.
LEMMA LoadActs ==
  ASSUME NEW i \in InstructionsARM64, i.op \in {"ldr", "ldrv"}, i.imm % 4 = 0,
         i.op = "ldr" => i.k \in 0..2,
         NEW src \in Int, NEW dst \in Int, (src - dst) % 4 = 0, NEW held \in 0..XSize - 1,
         Target(i, src) \in 0..XSize - 1,
         Within(Target(i, src) - dst, 4 * Reach19) \/ ~Within(Target(i, src) - dst, 8 * Reach19)
  PROVE  ActsAs(CopyLdrLiteral(i, src, dst, held), dst, i, src, held)
<1> DEFINE t == Target(i, src)
           near == Within(t - dst, 8 * Reach19)
           value == IF i.k = 3 THEN 0 ELSE Extended(held, i.k)
           y == Changed(i, src, Regs(i), held, t)
<1>1. t - dst \in Int /\ (t - dst) % 4 = 0
  BY Distance4
<1>2. Sets(i)
  BY DEF Sets
<1>3. i.op = "ldr" => y = Extended(held, i.k) /\ value = y
  BY DEF Changed, Target
<1>4. i.op = "ldrv" => y = Loaded(t, i.k + 2)
  BY DEF Changed, Target
<1>5. CASE near
  <2> DEFINE c == LdrLit(i.op, i.k, i.r, t - dst)
  <2>1. Words(t - dst, Reach19) = t - dst
    BY <1>1, <1>5, Reaches, WordsKept
  <2>2. c.op = i.op /\ c.imm = t - dst /\ c.k = i.k /\ c.r = i.r
    BY <2>1 DEF LdrLit, Instr
  <2>3. CopyLdrLiteral(i, src, dst, held) = <<c>>
    BY <1>5, Zenon DEF CopyLdrLiteral
  <2> HIDE DEF c
  <2>4. Sets(c)
    BY <1>2, <2>2 DEF Sets
  <2>5. Changed(c, dst, Regs(i), held, t) = y
    <3>1. dst + c.imm = t
      <4>1. t \in Int
        BY Distance4
      <4> HIDE DEF t
      <4> QED BY <2>2, <4>1
    <3> HIDE DEF y
    <3>2. CASE i.op = "ldr"
      BY <1>3, <2>2, <3>1, <3>2 DEF Changed
    <3>3. CASE i.op = "ldrv"
      BY <1>4, <2>2, <3>1, <3>3 DEF Changed
    <3> QED BY <3>2, <3>3
  <2>6. ActsAs(<<c>>, dst, i, src, held)
    BY <1>2, <2>2, <2>4, <2>5, SetActs
  <2> QED BY <2>3, <2>6
<1>6. CASE ~near /\ i.op = "ldr"
  <2>1. CopyLdrLiteral(i, src, dst, held) = EmitMovImmediate(i.r, value)
    BY <1>6, Zenon DEF CopyLdrLiteral
  <2>2. value \in 0..XSize - 1
    BY <1>6, ExtendedRange
  <2>3. value \in Int /\ value % XSize = y
    <3> HIDE DEF value, y
    <3> QED BY <1>3, <1>6, <2>2, Weights, SmallRest
  <2> HIDE DEF value
  <2>4. ActsAs(EmitMovImmediate(i.r, value), dst, i, src, held)
    BY <1>2, <2>3, MovActs
  <2> QED BY <2>1, <2>4
<1>7. CASE ~near /\ i.op = "ldrv"
  <2> DEFINE c == LdrFpNeon(2 + i.k, i.r)
  <2>1. CopyLdrLiteral(i, src, dst, held) = EmitMovImmediate(Scratch, t) \o <<c>>
    <3>1. i.op # "ldr"
      BY <1>7
    <3> QED BY <1>7, <3>1, Zenon DEF CopyLdrLiteral
  <2>2. c.op = "ldrx" /\ c.r = i.r /\ c.k = 2 + i.k
    BY DEF LdrFpNeon, Instr
  <2> HIDE DEF c
  <2>3. ActsAs(EmitMovImmediate(Scratch, t) \o <<c>>, dst, i, src, held)
    BY <1>7, <2>2, LoadFarActs
  <2> QED BY <2>1, <2>3
<1> QED BY <1>5, <1>6, <1>7

InPage(a) == a % PageSize

\* The page of an address.
LEMMA PageFacts ==
  ASSUME NEW a \in Int
  PROVE  /\ Pages(a) \in Int /\ PageOf(a) = PageSize * Pages(a) /\ InPage(a) \in Int
         /\ a = PageSize * Pages(a) + InPage(a)
<1>1. PageSize \in Nat \ {0}
  BY Reaches
<1>2. /\ a \div PageSize \in Int /\ a % PageSize \in Int
      /\ a = PageSize * (a \div PageSize) + (a % PageSize)
  BY <1>1, Divided
<1> DEFINE q == a \div PageSize
           r == a % PageSize
<1>3. q \in Int /\ r \in Int /\ a = PageSize * q + r
  BY <1>2
<1>4. Pages(a) = q /\ PageOf(a) = a - r
  BY DEF Pages, PageOf
<1> HIDE DEF q, r
<1>5. PageSize * q \in Int
  BY <1>1, <1>3
<1>6. a - r = PageSize * q
  BY <1>3, <1>5
<1>7. /\ Pages(a) \in Int /\ PageOf(a) = PageSize * Pages(a) /\ r \in Int
      /\ a = PageSize * Pages(a) + r
  BY <1>3, <1>4, <1>6
<1>8. r = InPage(a)
  BY DEF r, InPage
<1> QED BY <1>7, <1>8

\* Two instructions as one sequence.
LEMMA JoinTwo ==
  ASSUME NEW c, NEW d
  PROVE  <<c>> \o <<d>> = <<c, d>>
<1> DEFINE a == <<c>>
           b == <<d>>
           s == a \o b
           t == <<c, d>>
<1>1. /\ a \in Seq({c, d}) /\ b \in Seq({c, d}) /\ Len(a) = 1 /\ Len(b) = 1
      /\ a[1] = c /\ b[1] = d
  OBVIOUS
<1> HIDE DEF a, b
<1>2. s \in Seq({c, d}) /\ Len(s) = 2 /\ s[1] = c /\ s[2] = d
  <2> DEFINE X == {c, d}
  <2>1. a \in Seq(X) /\ b \in Seq(X)
    BY <1>1
  <2> HIDE DEF X
  <2>2. /\ s \in Seq(X) /\ Len(s) = Len(a) + Len(b)
        /\ \A n \in 1..Len(a) + Len(b) : s[n] = IF n <= Len(a) THEN a[n] ELSE b[n - Len(a)]
    BY <2>1, ConcatProperties
  <2> QED BY <1>1, <2>2 DEF X
<1>3. t \in Seq({c, d}) /\ Len(t) = 2 /\ t[1] = c /\ t[2] = d
  OBVIOUS
<1> HIDE DEF s, t
<1>4. \A n \in 1..Len(s) : s[n] = t[n]
  <2>1. \A n \in 1..2 : n = 1 \/ n = 2
    OBVIOUS
  <2> QED BY <1>2, <1>3, <2>1
<1>5. s = t
  BY <1>2, <1>3, <1>4, SeqEqual
<1> QED BY <1>5 DEF s, t, a, b

\* ADRP leads from one page to another.
LEMMA PageToPage ==
  ASSUME NEW a \in Int, NEW q \in Int
  PROVE  PageOf(a) + (q - Pages(a)) * PageSize = PageSize * q
<1> DEFINE P == PageSize
           p == Pages(a)
<1>1. P \in Int /\ p \in Int /\ PageOf(a) = P * p
  <2>1. P \in Int
    BY Reaches
  <2>2. a \in Int
    OBVIOUS
  <2>3. p \in Int /\ PageOf(a) = PageSize * Pages(a)
    BY <2>2, PageFacts, Zenon
  <2> QED BY <2>1, <2>3, Zenon
<1> HIDE DEF P, p
<1>2. (q - p) * P = P * q - P * p
  BY <1>1, SMT
<1>3. P * q \in Int /\ P * p \in Int
  BY <1>1
<1> QED BY <1>1, <1>2, <1>3 DEF P, p

\* CopyAdr, of an ADR within reach or to an address that a W register holds.
LEMMA AdrActs ==
  ASSUME NEW i \in InstructionsARM64, i.op = "adr", NEW src \in Int, NEW dst \in Int, NEW held,
         Target(i, src) \in 0..XSize - 1,
         Within(Target(i, src) - dst, Reach21) \/ Target(i, src) < WSize
  PROVE  ActsAs(CopyAdr(i, src, dst), dst, i, src, held)
<1> DEFINE t == Target(i, src)
           near == Within(t - dst, Reach21)
           dp == Pages(t) - Pages(dst)
           paged == Within(dp, Reach21)
           y == Changed(i, src, Regs(i), held, t)
<1>1. Sets(i) /\ t \in Int /\ t - dst \in Int /\ y = t % XSize /\ t % XSize = t
  <2>1. t \in Int
    BY SetUp DEF Target
  <2>2. y = t % XSize
    BY DEF Changed, Target
  <2>3. t % XSize = t
    BY SmallRest, Weights
  <2> HIDE DEF t
  <2> QED BY <2>1, <2>2, <2>3 DEF Sets
<1>2. CASE near
  <2> DEFINE c == Adr(i.r, t - dst)
  <2>1. Signed(t - dst, Reach21) = t - dst
    BY <1>1, <1>2, Reaches, SignedKept
  <2>2. c.op = "adr" /\ c.imm = t - dst /\ c.r = i.r
    BY <2>1 DEF Adr, Instr
  <2>3. CopyAdr(i, src, dst) = <<c>>
    BY <1>2, Zenon DEF CopyAdr
  <2> HIDE DEF c
  <2>4. dst + c.imm = t
    <3> HIDE DEF t
    <3> QED BY <1>1, <2>2
  <2>5. Changed(c, dst, Regs(i), held, t) = y
    <3> HIDE DEF y, t
    <3> QED BY <1>1, <2>2, <2>4 DEF Changed
  <2>6. Sets(c)
    BY <2>2 DEF Sets
  <2>7. ActsAs(<<c>>, dst, i, src, held)
    BY <1>1, <2>2, <2>5, <2>6, SetActs
  <2> QED BY <2>3, <2>7
<1>3. CASE ~near /\ paged
  <2> DEFINE c == Adrp(i.r, dp)
             d == Add32(i.r, t)
             u == PageSize * Pages(t)
             x == Put(Regs(i), i.r, u)
             m == InPage(t)
  <2>1. /\ PageSize \in Nat \ {0} /\ Pages(t) \in Int /\ Pages(dst) \in Int
        /\ t = u + m /\ m \in Int /\ u \in Int /\ 0 <= m
    <3> HIDE DEF t
    <3>1. PageSize \in Nat \ {0} /\ Pages(t) \in Int /\ Pages(dst) \in Int
      BY <1>1, Reaches, PageFacts
    <3>2. t = u + m /\ m \in Int
      BY <1>1, PageFacts
    <3>3. 0 <= m
      BY <1>1, <3>1, Divided DEF InPage
    <3>4. u \in Int
      BY <3>1
    <3> HIDE DEF u, m
    <3> QED BY <3>1, <3>2, <3>3, <3>4
  <2>2. Signed(dp, Reach21) = dp
    <3>1. dp \in Int
      BY <2>1
    <3> QED BY <1>3, <3>1, Reaches, SignedKept
  <2>3. c.op = "adrp" /\ c.imm = dp /\ c.r = i.r
    BY <2>2 DEF Adrp, Instr
  <2>4. d.op = "add32" /\ d.imm = m /\ d.r = i.r
    BY DEF Add32, Instr, InPage
  <2>5. CopyAdr(i, src, dst) = <<c, d>>
    <3>1. CopyAdr(i, src, dst) = <<c>> \o <<d>>
      BY <1>3, Zenon DEF CopyAdr
    <3>2. <<c>> \o <<d>> = <<c, d>>
      BY JoinTwo
    <3> QED BY <3>1, <3>2
  <2> HIDE DEF c, d
  <2>6. u \in 0..XSize - 1
    <3>1. 0 <= u
      <4>1. \A p \in Nat \ {0} : \A q \in Int : 0 <= q => 0 <= p * q
        BY SMT
      <4>2. 0 <= Pages(t)
        <5>1. \A b \in Nat \ {0} : \A a \in Int : 0 <= a => 0 <= a \div b
          BY SMT
        <5>2. 0 <= t
          OBVIOUS
        <5> HIDE DEF t
        <5> QED BY <1>1, <2>1, <5>1, <5>2 DEF Pages
      <4> HIDE DEF t
      <4> QED BY <2>1, <4>1, <4>2
    <3>2. u <= t
      <4> HIDE DEF t, u, m
      <4> QED BY <1>1, <2>1
    <3> HIDE DEF u
    <3> QED BY <1>1, <2>1, <3>1, <3>2, Weights
  <2>7. u = Changed(c, dst, Regs(i), held, t)
    <3>1. Changed(c, dst, Regs(i), held, t) = (PageOf(dst) + dp * PageSize) % XSize
      <4> HIDE DEF dp
      <4> QED BY <2>3 DEF Changed
    <3>2. PageOf(dst) + dp * PageSize = u
      BY <2>1, PageToPage
    <3>3. u % XSize = u
      <4> HIDE DEF u
      <4> QED BY <2>6, SmallRest, Weights
    <3> QED BY <3>1, <3>2, <3>3
  <2>8. x[i.r] = u
    <3>1. Regs(i) \in [RegsOf(i) -> Int] /\ i.r \in RegsOf(i)
      BY SetUp
    <3> HIDE DEF u
    <3> QED BY <3>1 DEF Put
  <2>9. Changed(d, dst + 4, x, held, t) = y
    <3>1. Changed(d, dst + 4, x, held, t) = (u + m) % WSize
      <4> HIDE DEF x, u, m
      <4> QED BY <2>4, <2>8 DEF Changed
    <3>2. t \in 0..WSize - 1
      BY <1>1, <1>3, Weights
    <3>3. t % WSize = t
      <4> HIDE DEF t
      <4> QED BY <3>2, SmallRest, Weights
    <3> HIDE DEF t, u, y, m
    <3> QED BY <1>1, <2>1, <3>1, <3>3
  <2>10. Sets(c) /\ Sets(d)
    BY <2>3, <2>4 DEF Sets
  <2> HIDE DEF u
  <2>11. ActsAs(<<c, d>>, dst, i, src, held)
    BY <1>1, <2>3, <2>4, <2>7, <2>9, <2>10, PairActs
  <2> QED BY <2>5, <2>11
<1>4. CASE ~near /\ ~paged
  <2>1. CopyAdr(i, src, dst) = EmitMovImmediate(i.r, t)
    BY <1>4, Zenon DEF CopyAdr
  <2>2. ActsAs(EmitMovImmediate(i.r, t), dst, i, src, held)
    BY <1>1, MovActs
  <2> QED BY <2>1, <2>2
<1> QED BY <1>2, <1>3, <1>4

\* CopyAdr, of an ADRP.
LEMMA AdrpActs ==
  ASSUME NEW i \in InstructionsARM64, i.op = "adrp", NEW src \in Int, NEW dst \in Int, NEW held
  PROVE  ActsAs(CopyAdr(i, src, dst), dst, i, src, held)
<1> DEFINE q == Pages(src) + i.imm
           t == q * PageSize
           dp == Pages(t) - Pages(dst)
           paged == Within(dp, Reach21)
           y == Changed(i, src, Regs(i), held, Target(i, src))
<1>1. /\ PageSize \in Nat \ {0} /\ q \in Int /\ i.imm \in Int /\ Pages(src) \in Int
      /\ Pages(dst) \in Int
  BY SetUp, Reaches, PageFacts
<1>2. t \in Int /\ t = PageSize * q
  <2> HIDE DEF q
  <2> QED BY <1>1
<1>3. y = t % XSize /\ Sets(i)
  <2>1. y = (PageOf(src) + i.imm * PageSize) % XSize
    BY DEF Changed
  <2>2. i.imm = q - Pages(src)
    BY <1>1
  <2>3. PageOf(src) + (q - Pages(src)) * PageSize = PageSize * q
    <3> HIDE DEF q
    <3> QED BY <1>1, PageToPage
  <2> HIDE DEF q, y
  <2> QED BY <1>2, <2>1, <2>2, <2>3 DEF Sets
<1>4. Pages(t) = q
  <2>1. t = PageSize * q + 0
    BY <1>2
  <2> HIDE DEF q, t
  <2> QED BY <1>1, <2>1, Division DEF Pages
<1>5. CASE paged
  <2> DEFINE c == Adrp(i.r, dp)
  <2>1. CopyAdr(i, src, dst) = <<c>>
    <3>1. CopyAdr(i, src, dst) = <<c>> \o <<>>
      <4>1. i.op # "adr"
        OBVIOUS
      <4> QED BY <1>5, <4>1, Zenon DEF CopyAdr
    <3>2. <<c>> \o <<>> = <<c>>
      <4> HIDE DEF c
      <4> QED OBVIOUS
    <3> QED BY <3>1, <3>2
  <2>2. dp \in Int
    BY <1>1, <1>4
  <2>3. Signed(dp, Reach21) = dp
    <3> HIDE DEF dp
    <3> QED BY <1>5, <2>2, Reaches, SignedKept
  <2>4. c.op = "adrp" /\ c.imm = dp /\ c.r = i.r
    BY <2>3 DEF Adrp, Instr
  <2> HIDE DEF c
  <2>5. Changed(c, dst, Regs(i), held, Target(i, src)) = y
    <3>1. Changed(c, dst, Regs(i), held, Target(i, src)) = (PageOf(dst) + dp * PageSize) % XSize
      <4> HIDE DEF dp
      <4> QED BY <2>4 DEF Changed
    <3>2. PageOf(dst) + dp * PageSize = PageSize * q
      BY <1>1, <1>4, PageToPage
    <3> HIDE DEF y, t, q, dp
    <3> QED BY <1>2, <1>3, <3>1, <3>2
  <2>6. Sets(c)
    BY <2>4 DEF Sets
  <2>7. ActsAs(<<c>>, dst, i, src, held)
    BY <1>3, <2>4, <2>5, <2>6, SetActs
  <2> QED BY <2>1, <2>7
<1>6. CASE ~paged
  <2>1. CopyAdr(i, src, dst) = EmitMovImmediate(i.r, t)
    <3>1. i.op # "adr"
      OBVIOUS
    <3> QED BY <1>6, <3>1, Zenon DEF CopyAdr
  <2> HIDE DEF t
  <2>2. ActsAs(EmitMovImmediate(i.r, t), dst, i, src, held)
    BY <1>2, <1>3, MovActs
  <2> QED BY <2>1, <2>2
<1> QED BY <1>5, <1>6

\* An instruction that neither leads elsewhere nor changes a register is copied as it is.
LEMMA StillActs ==
  ASSUME NEW i \in InstructionsARM64, i.op \in {"other", "ret"}, NEW src \in Int, NEW dst \in Int,
         NEW held
  PROVE  ActsAs(<<i>>, dst, i, src, held)
<1> DEFINE seq == <<i>>
           x == Regs(i)
           t == Target(i, src)
<1> SUFFICES ASSUME NEW holds \in BOOLEAN
             PROVE  Alike(Effect(seq, dst, x, holds, held, t), Len(seq), dst, i, src, holds, held)
  BY ActsFrom
<1> DEFINE new == Effect(seq, dst, x, holds, held, t)
           to == Onward(i, dst, x, holds)
           from == Onward(i, src, x, holds)
           bl == i.op \in {"bl", "blr"}
           y == Changed(i, dst, x, held, t)
           z == Changed(i, src, x, held, t)
<1>1. to = dst + 4 /\ from = src + 4
  BY DEF Onward, Taken
<1>2. y = x[i.r] /\ z = x[i.r]
  BY DEF Changed
<1>3. new = [pc |-> to, x |-> [x EXCEPT ![i.r] = y], call |-> bl]
  BY EffectOfOne
<1>4. Len(seq) = 1 /\ dst + 4 * 1 = dst + 4
  OBVIOUS
<1>5. [x EXCEPT ![i.r] = x[i.r]] = x
  <2>1. x \in [RegsOf(i) -> Int]
    BY SetUp
  <2> HIDE DEF x
  <2> QED BY <2>1
<1> HIDE DEF new, to, from, bl, y, z, x, t, seq
<1>6. new.pc = to /\ new.x = x /\ new.call = bl
  BY <1>2, <1>3, <1>5
<1>7. /\ new.pc = IF from = src + 4 THEN dst + 4 * 1 ELSE from
      /\ \A r \in {0, i.r} \ {Scratch} : new.x[r] = IF r = i.r THEN z ELSE x[r]
      /\ new.call = bl
  BY <1>1, <1>2, <1>4, <1>6
<1>8. Alike(new, 1, dst, i, src, holds, held)
  BY <1>7, Zenon DEF Alike, from, z, x, bl, t
<1> QED BY <1>4, <1>8 DEF new

\* Nor is a jump to where a register says.
LEMMA BrActs ==
  ASSUME NEW i \in InstructionsARM64, i.op = "br", NEW src \in Int, 0 <= src, NEW dst \in Int,
         NEW held
  PROVE  ActsAs(<<i>>, dst, i, src, held)
<1> DEFINE seq == <<i>>
           x == Regs(i)
           t == Target(i, src)
<1> SUFFICES ASSUME NEW holds \in BOOLEAN
             PROVE  Alike(Effect(seq, dst, x, holds, held, t), Len(seq), dst, i, src, holds, held)
  BY ActsFrom
<1> DEFINE new == Effect(seq, dst, x, holds, held, t)
           to == Onward(i, dst, x, holds)
           from == Onward(i, src, x, holds)
           bl == i.op \in {"bl", "blr"}
           z == Changed(i, src, x, held, t)
<1>1. to = x[Scratch] /\ from = x[Scratch] /\ Leads(i)
  BY DEF Onward, Taken, Leads
<1>2. x[Scratch] # src + 4
  <2>1. x[Scratch] = -1 - Scratch
    BY DEF Regs
  <2> HIDE DEF x
  <2> QED BY <2>1 DEF Scratch
<1>3. z = x[i.r]
  BY <1>1, LeadsChanged
<1>4. new = State(to, x, bl)
  BY <1>1, SetUp, LeadAlone
<1>5. Len(seq) = 1
  OBVIOUS
<1> HIDE DEF new, to, from, bl, z, x, t, seq
<1>6. new.pc = to /\ new.x = x /\ new.call = bl
  BY <1>4 DEF State
<1>7. /\ new.pc = IF from = src + 4 THEN dst + 4 * 1 ELSE from
      /\ \A r \in {0, i.r} \ {Scratch} : new.x[r] = IF r = i.r THEN z ELSE x[r]
      /\ new.call = bl
  BY <1>1, <1>2, <1>3, <1>6
<1>8. Alike(new, 1, dst, i, src, holds, held)
  BY <1>7, Zenon DEF Alike, from, z, x, bl, t
<1> QED BY <1>5, <1>8 DEF new

\* The copy of an instruction of ARM64, wherever it is moved.
LEMMA CopyActs ==
  ASSUME NEW i \in InstructionsARM64, ProperFields(i), NEW src \in Nat, NEW dst \in Int,
         (src - dst) % 4 = 0, NEW held \in 0..XSize - 1,
         LeadsSomewhere(i) => Target(i, src) \in 0..XSize - 1,
         ~Misencoded(i, src, dst)
  PROVE  ActsAs(CopyInstructionArm64(i, src, dst, held), dst, i, src, held)
<1> DEFINE t == Target(i, src)
<1>0. src \in Int /\ i.op \in {"other", "ret", "br", "adr", "adrp", "bcc", "b", "bl", "cbz", "tbz",
                               "ldr", "ldrv"}
  BY DEF InstructionsARM64
<1>1. CASE i.op \in {"other", "ret"}
  <2>1. CopyInstructionArm64(i, src, dst, held) = <<i>>
    BY <1>1 DEF CopyInstructionArm64
  <2>2. ActsAs(<<i>>, dst, i, src, held)
    BY <1>0, <1>1, StillActs
  <2> QED BY <2>1, <2>2
<1>2. CASE i.op = "br"
  <2>1. CopyInstructionArm64(i, src, dst, held) = <<i>>
    BY <1>2 DEF CopyInstructionArm64
  <2>2. 0 <= src
    OBVIOUS
  <2>3. ActsAs(<<i>>, dst, i, src, held)
    BY <1>0, <1>2, <2>2, BrActs
  <2> QED BY <2>1, <2>3
<1>3. CASE i.op = "adr"
  <2>1. CopyInstructionArm64(i, src, dst, held) = CopyAdr(i, src, dst)
    BY <1>3 DEF CopyInstructionArm64
  <2>2. t \in 0..XSize - 1
    BY <1>3 DEF LeadsSomewhere
  <2>3. Within(t - dst, Reach21) \/ t < WSize
    <3>1. t \in Int /\ WSize \in Int
      BY <1>0, <2>2, SetUp, Weights DEF Target
    <3>2. Within(t - dst, Reach21) \/ ~(t >= WSize)
      BY <1>3, Zenon DEF Misencoded
    <3> HIDE DEF t
    <3> QED BY <3>1, <3>2
  <2> HIDE DEF t
  <2>4. ActsAs(CopyAdr(i, src, dst), dst, i, src, held)
    BY <1>0, <1>3, <2>2, <2>3, AdrActs DEF t
  <2> QED BY <2>1, <2>4
<1>4. CASE i.op = "adrp"
  <2>1. CopyInstructionArm64(i, src, dst, held) = CopyAdr(i, src, dst)
    BY <1>4 DEF CopyInstructionArm64
  <2>2. ActsAs(CopyAdr(i, src, dst), dst, i, src, held)
    BY <1>0, <1>4, AdrpActs
  <2> QED BY <2>1, <2>2
<1>5. CASE i.op = "bcc"
  <2>1. CopyInstructionArm64(i, src, dst, held) = CopyBcc(i, src, dst)
    BY <1>5 DEF CopyInstructionArm64
  <2>2. t \in 0..XSize - 1 /\ i.imm % 4 = 0 /\ i.imm # 4
    BY <1>5 DEF LeadsSomewhere, ProperFields
  <2>3. i.k < 14 \/ Within(t - dst, 4 * Reach19)
    <3>1. i.k \in Int
      BY DEF InstructionsARM64
    <3>2. ~(i.k >= 14) \/ Within(t - dst, 4 * Reach19)
      BY <1>5, Zenon DEF Misencoded
    <3> HIDE DEF t
    <3> QED BY <3>1, <3>2
  <2>4. ActsAs(CopyBcc(i, src, dst), dst, i, src, held)
    BY <1>0, <1>5, <2>2, <2>3, BccActs
  <2> QED BY <2>1, <2>4
<1>6. CASE i.op \in {"b", "bl"}
  <2>1. CopyInstructionArm64(i, src, dst, held) = CopyB_or_Bl(i, src, dst)
    BY <1>6 DEF CopyInstructionArm64
  <2>2. t \in 0..XSize - 1 /\ i.imm % 4 = 0 /\ i.imm # 4
    BY <1>6 DEF LeadsSomewhere, ProperFields
  <2>3. ActsAs(CopyB_or_Bl(i, src, dst), dst, i, src, held)
    BY <1>0, <1>6, <2>2, BActs
  <2> QED BY <2>1, <2>3
<1>7. CASE i.op = "cbz"
  <2>1. CopyInstructionArm64(i, src, dst, held) = CopyCbz(i, src, dst)
    BY <1>7 DEF CopyInstructionArm64
  <2>2. t \in 0..XSize - 1 /\ i.imm % 4 = 0 /\ i.imm # 4 /\ i.k \in {0, 1}
    BY <1>7 DEF LeadsSomewhere, ProperFields
  <2>3. ActsAs(CopyCbz(i, src, dst), dst, i, src, held)
    BY <1>0, <1>7, <2>2, CbzActs
  <2> QED BY <2>1, <2>3
<1>8. CASE i.op = "tbz"
  <2>1. CopyInstructionArm64(i, src, dst, held) = CopyTbz(i, src, dst)
    BY <1>8 DEF CopyInstructionArm64
  <2>2. t \in 0..XSize - 1 /\ i.imm % 4 = 0 /\ i.imm # 4 /\ i.k \in {0, 1}
    BY <1>8 DEF LeadsSomewhere, ProperFields
  <2>3. ActsAs(CopyTbz(i, src, dst), dst, i, src, held)
    BY <1>0, <1>8, <2>2, TbzActs
  <2> QED BY <2>1, <2>3
<1>9. CASE i.op \in {"ldr", "ldrv"}
  <2>1. CopyInstructionArm64(i, src, dst, held) = CopyLdrLiteral(i, src, dst, held)
    BY <1>9 DEF CopyInstructionArm64
  <2>2. t \in 0..XSize - 1 /\ i.imm % 4 = 0
    BY <1>9 DEF LeadsSomewhere, ProperFields
  <2>3. ~(i.op = "ldr" /\ i.k = 3)
    BY Zenon DEF Misencoded
  <2>4. i.op = "ldr" => i.k \in 0..2
    <3>1. i.op = "ldr" => i.k \in 0..3
      BY DEF ProperFields
    <3> QED BY <2>3, <3>1
  <2>5. Within(t - dst, 4 * Reach19) \/ ~Within(t - dst, 8 * Reach19)
    BY <1>9, Zenon DEF Misencoded
  <2>6. ActsAs(CopyLdrLiteral(i, src, dst, held), dst, i, src, held)
    BY <1>0, <1>9, <2>2, <2>4, <2>5, LoadActs
  <2> QED BY <2>1, <2>6
<1> QED BY <1>0, <1>1, <1>2, <1>3, <1>4, <1>5, <1>6, <1>7, <1>8, <1>9

-----------------------------------------------------------------------------
\* The jump of ARM64 has a size.
LEMMA JumpFacts ==
  JumpARM64 \in Nat \ {0} /\ 0 \in 0..XSize - 1
<1>1. JumpARM64 \in Nat \ {0}
  BY CopyLoopAssumption DEF JumpARM64
<1>2. XSize \in Nat \ {0}
  BY Weights
<1> HIDE DEF XSize
<1>3. 0 \in 0..XSize - 1
  BY <1>2
<1> QED BY <1>1, <1>3

\* Steps keep that.
LEMMA PlacesNext ==
  LoopInv /\ PlacesInv /\ [Next]_vars => PlacesInv'
<1> SUFFICES ASSUME LoopInv, PlacesInv, [Next]_vars PROVE PlacesInv'
  OBVIOUS
<1>0. 0 \in 0..XSize - 1 /\ JumpARM64 \in Nat \ {0}
  BY JumpFacts
<1>1. ASSUME NEW arm \in BOOLEAN, NEW p \in Places[arm], Begin(arm, p) PROVE PlacesInv'
  <2>1. CASE arm
    <3>1. p \in Places[TRUE] /\ p \in Nat \X Int
      BY <2>1, CopyLoopAssumption
    <3>2. p = <<p[1], p[2]>>
      BY <3>1
    <3>3. base' = p[1] /\ delta' = p[2] /\ cbTarget' = 0 /\ code' = 0 /\ literal' = 0
      BY <1>1 DEF Begin, Clear
    <3>4. <<base', delta'>> \in Places[TRUE]
      BY <3>1, <3>2, <3>3
    <3>5. /\ cbTarget' \in Nat /\ code' \in Nat /\ cbTarget' % 4 = 0 /\ code' % 4 = 0
          /\ cbTarget' < JumpARM64 /\ literal' \in 0..XSize - 1
      BY <1>0, <3>3
    <3> QED BY <3>4, <3>5 DEF PlacesInv
  <2>2. CASE ~arm
    BY <1>1, <2>2 DEF Begin, PlacesInv
  <2> QED BY <2>1, <2>2
<1>2. CASE Fetch
  <2>1. literal' \in Literals \cup {0}
    BY <1>2 DEF Fetch
  <2>2. literal' \in 0..XSize - 1
    <3>1. Literals \subseteq 0..XSize - 1
      BY InstructionSetARM64Assumption
    <3> QED BY <1>0, <2>1, <3>1
  <2> HIDE DEF XSize
  <2> QED BY <1>2, <2>2 DEF Fetch, where, PlacesInv
<1>3. CASE Refuse \/ Unfit
  BY <1>3 DEF Refuse, Unfit, Fail, PlacesInv
<1>4. CASE Copy
  <2>1. CASE arm64
    <3>1. /\ cbTarget' = cbTarget + 4 /\ code' = code + 4 * Len(Copied)
          /\ literal' = 0 /\ UNCHANGED where /\ instr # None
      BY <1>4, <2>1 DEF Copy
    <3>2. Len(Copied) \in Nat
      <4>1. Short(Copied, 6)
        BY CopyShort, Zenon DEF Copied
      <4> QED BY <4>1 DEF Short
    <3>3. phase = "moving"
      BY <3>1 DEF LoopInv, EndInv
    <3>4. /\ <<base, delta>> \in Places[TRUE] /\ cbTarget \in Nat /\ code \in Nat
          /\ cbTarget % 4 = 0 /\ code % 4 = 0
      BY <2>1, <3>3 DEF PlacesInv
    <3>5. cbTarget' \in Nat /\ cbTarget' % 4 = 0
      BY <3>1, <3>4
    <3>6. code' \in Nat /\ code' % 4 = 0
      <4> DEFINE len == Len(Copied)
      <4>1. len \in Nat /\ code' = code + 4 * len
        BY <3>1, <3>2
      <4> HIDE DEF len
      <4> QED BY <3>4, <4>1
    <3>7. phase' = "moving" => cbTarget' < JumpARM64
      <4>1. phase' = "moving" => ~(cbTarget' >= JumpARM64)
        <5>1. arm64 = TRUE
          BY <2>1 DEF LoopInv, InstrOK
        <5>2. phase' = "moving" => ~(cbTarget' >= JumpSize[arm64])
          BY <1>4 DEF Copy, Enough
        <5> QED BY <5>1, <5>2, Zenon DEF JumpARM64
      <4> QED BY <1>0, <2>1, <3>5, <4>1
    <3> QED BY <1>0, <3>1, <3>4, <3>5, <3>6, <3>7 DEF PlacesInv, where
  <2>2. CASE ~arm64
    BY <1>4, <2>2 DEF Copy, where, PlacesInv
  <2> QED BY <2>1, <2>2
<1>5. ASSUME NEW size \in Fillers[arm64], Fill(size) PROVE PlacesInv'
  <2>1. size \in Nat
    BY CopyLoopAssumption DEF LoopInv, InstrOK
  <2>2. /\ UNCHANGED <<phase, arm64, base, delta, code, literal>> /\ phase = "filling"
        /\ cbTarget' = cbTarget + size
    BY <1>5 DEF Fill, where
  <2>3. CASE arm64
    <3>1. /\ <<base, delta>> \in Places[TRUE] /\ cbTarget \in Nat /\ code \in Nat
          /\ literal \in 0..XSize - 1
      BY <2>2, <2>3 DEF PlacesInv
    <3>2. cbTarget' \in Nat
      BY <2>1, <2>2, <3>1
    <3>3. phase' # "moving"
      BY <2>2
    <3> QED BY <2>2, <3>1, <3>2, <3>3, Zenon DEF PlacesInv
  <2>4. CASE ~arm64
    BY <2>2, <2>4, Zenon DEF PlacesInv
  <2> QED BY <2>3, <2>4
<1>6. CASE Finish
  BY <1>6 DEF Finish, where, PlacesInv
<1>7. CASE UNCHANGED vars
  BY <1>7 DEF vars, where, PlacesInv
<1> QED BY <1>1, <1>2, <1>3, <1>4, <1>5, <1>6, <1>7 DEF Next

\* In ARM64 code that is properly encoded, at addresses, what is moved does what it did,
\* wherever rbCode is, but for the four kinds of instruction that Misencoded names: it
\* leads to the same place, with the same registers but the scratch register, as a call or
\* not, although it may have become up to six instructions.
THEOREM CopiesActAlike ==
  ASSUME ProperCode, AlignedPlaces
  PROVE  Spec => []ActsAlikeElse
<1>1. Init => PlacesInv
  BY DEF Init, PlacesInv
<1>2. LoopInv /\ PlacesInv => ActsAlikeElse
  <2> DEFINE src == base + cbTarget
             dst == base + delta + code
  <2> SUFFICES ASSUME LoopInv, PlacesInv, instr # None, arm64, ~Misencoded(instr, src, dst)
               PROVE  ActsAs(Copied, dst, instr, src, literal)
    BY Zenon DEF ActsAlikeElse
  <2>1. phase = "moving" /\ instr \in First[TRUE] \cup Later[TRUE]
    BY DEF LoopInv, InstrOK, EndInv
  <2>2. /\ <<base, delta>> \in Places[TRUE] /\ cbTarget \in Nat /\ code \in Nat
        /\ cbTarget % 4 = 0 /\ code % 4 = 0 /\ cbTarget < JumpARM64
        /\ literal \in 0..XSize - 1
    BY <2>1 DEF PlacesInv
  <2>3. base \in Nat /\ delta \in Int /\ delta % 4 = 0 /\ JumpARM64 \in Nat
    <3>1. <<base, delta>> \in Nat \X Int /\ JumpARM64 \in Nat
      BY <2>2, CopyLoopAssumption, JumpFacts
    <3>2. <<base, delta>>[2] % 4 = 0
      BY <2>2 DEF AlignedPlaces
    <3> QED BY <3>1, <3>2
  <2>4. src \in Nat /\ dst \in Int /\ (src - dst) % 4 = 0
    <3>1. src \in Nat /\ dst \in Int
      BY <2>2, <2>3
    <3>2. src - dst = cbTarget - delta - code
      BY <2>2, <2>3
    <3> HIDE DEF src, dst
    <3> QED BY <2>2, <2>3, <3>1, <3>2
  <2>5. instr \in InstructionsARM64 /\ ProperFields(instr)
    BY <2>1, CopyLoopAssumption DEF ProperCode
  <2>6. LeadsSomewhere(instr) => Target(instr, src) \in 0..XSize - 1
    <3>1. ASSUME LeadsSomewhere(instr), NEW p \in Places[TRUE], NEW n \in 0..JumpARM64 - 1,
                 n % 4 = 0
          PROVE  Target(instr, p[1] + n) \in 0..XSize - 1
      BY <2>1, <3>1, Zenon DEF ProperCode, JumpARM64
    <3>2. cbTarget \in 0..JumpARM64 - 1
      BY <2>2, <2>3
    <3>3. <<base, delta>>[1] = base
      OBVIOUS
    <3> QED BY <2>2, <3>1, <3>2, <3>3
  <2> HIDE DEF src, dst
  <2>7. ActsAs(CopyInstructionArm64(instr, src, dst, literal), dst, instr, src, literal)
    BY <2>2, <2>4, <2>5, <2>6, CopyActs
  <2> QED BY <2>7, Zenon DEF Copied, src, dst
<1>3. PlacesInv /\ LoopInv /\ [Next]_vars => PlacesInv'
  BY PlacesNext
<1> QED BY <1>1, <1>2, <1>3, LoopAlways, PTL DEF Spec
=============================================================================
