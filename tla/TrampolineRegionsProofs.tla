----------------------- MODULE TrampolineRegionsProofs -----------------------
(***************************************************************************)
(* Proofs about TrampolineRegions, for any regions of any size, any        *)
(* requests, and any number of operations.                                 *)
(***************************************************************************)
EXTENDS TrampolineRegionsInv, SequenceTheorems, WellFoundedInduction, TLAPS

-----------------------------------------------------------------------------
(* Numbers and sequences.                                                  *)

\* Every set of natural numbers that is not empty has a least element.
LEMMA Least ==
  ASSUME NEW S \in SUBSET Nat, S # {}
  PROVE  \E m \in S : \A k \in S : m <= k
<1>1. IsWellFoundedOn({ss \in Nat \X Nat : ss[1] < ss[2]}, Nat)
  BY NatLessThanWellFounded DEF OpToRel
<1>2. PICK m \in S : \A k \in S : ~ (<<k, m>> \in {ss \in Nat \X Nat : ss[1] < ss[2]})
  BY <1>1, WFMin
<1>3. ASSUME NEW k \in S PROVE m <= k
  <2>1. <<k, m>> \in Nat \X Nat /\ k \in Nat /\ m \in Nat
    OBVIOUS
  <2>2. ~(k < m)
    BY <1>2, <2>1
  <2> QED BY <2>1, <2>2
<1> QED BY <1>3

LEMMA ToSetFacts ==
  ASSUME NEW S, NEW s \in Seq(S)
  PROVE  /\ ToSet(s) \subseteq S
         /\ DOMAIN s = 1..Len(s)
         /\ Len(s) \in Nat
         /\ \A t \in ToSet(s) : \E i \in 1..Len(s) : s[i] = t
         /\ \A i \in 1..Len(s) : s[i] \in ToSet(s)
<1>1. DOMAIN s = 1..Len(s) /\ Len(s) \in Nat /\ s \in [1..Len(s) -> S]
  BY LenProperties
<1> QED BY <1>1 DEF ToSet

LEMMA EmptyFacts == << >> \in Seq({}) /\ ToSet(<< >>) = {} /\ IsInjective(<< >>)
  BY EmptySeq DEF ToSet, IsInjective

LEMMA TailFacts ==
  ASSUME NEW S, NEW s \in Seq(S), s # << >>
  PROVE  /\ Head(s) \in S
         /\ Tail(s) \in Seq(S)
         /\ Len(Tail(s)) = Len(s) - 1
         /\ Len(s) \in Nat \ {0}
         /\ ToSet(s) = {Head(s)} \cup ToSet(Tail(s))
         /\ IsInjective(s) => IsInjective(Tail(s)) /\ Head(s) \notin ToSet(Tail(s))
<1>1. DOMAIN s = 1..Len(s) /\ Len(s) \in Nat \ {0} /\ s \in [1..Len(s) -> S]
  BY LenProperties, EmptySeq
<1>2. /\ Head(s) = s[1] /\ Head(s) \in S /\ Tail(s) \in Seq(S) /\ Len(Tail(s)) = Len(s) - 1
      /\ \A i \in 1..Len(s) - 1 : Tail(s)[i] = s[i + 1]
  BY <1>1, HeadTailProperties
<1>3. DOMAIN Tail(s) = 1..Len(s) - 1
  BY <1>2, LenProperties
<1>4. ToSet(s) = {Head(s)} \cup ToSet(Tail(s))
  <2>1. ASSUME NEW i \in 1..Len(s), i # 1 PROVE i - 1 \in 1..Len(s) - 1 /\ Tail(s)[i - 1] = s[i]
    BY <1>1, <1>2, <2>1
  <2>2. ASSUME NEW i \in 1..Len(s) - 1 PROVE i + 1 \in 1..Len(s)
    BY <1>1
  <2>3. ToSet(s) \subseteq {Head(s)} \cup ToSet(Tail(s))
    <3> SUFFICES ASSUME NEW i \in 1..Len(s) PROVE s[i] = Head(s) \/ s[i] \in ToSet(Tail(s))
      BY <1>1 DEF ToSet
    <3> QED BY <1>2, <1>3, <2>1 DEF ToSet
  <2>4. ToSet(Tail(s)) \subseteq ToSet(s)
    BY <1>1, <1>2, <1>3, <2>2 DEF ToSet
  <2>5. Head(s) \in ToSet(s)
    BY <1>1, <1>2 DEF ToSet
  <2> QED BY <2>3, <2>4, <2>5
<1>5. ASSUME IsInjective(s) PROVE IsInjective(Tail(s)) /\ Head(s) \notin ToSet(Tail(s))
  <2>1. ASSUME NEW i \in 1..Len(s) - 1 PROVE i + 1 \in 1..Len(s) /\ i + 1 # 1 /\ 1 \in 1..Len(s)
    BY <1>1
  <2>2. \A i \in 1..Len(s) - 1 : Tail(s)[i] # Head(s)
    BY <1>1, <1>2, <1>5, <2>1 DEF IsInjective
  <2>3. \A i, j \in 1..Len(s) - 1 : Tail(s)[i] = Tail(s)[j] => i = j
    BY <1>1, <1>2, <1>5, <2>1 DEF IsInjective
  <2> QED BY <1>3, <2>2, <2>3 DEF IsInjective, ToSet
<1> QED BY <1>1, <1>2, <1>4, <1>5

LEMMA ConsFacts ==
  ASSUME NEW S, NEW s \in Seq(S), NEW e \in S
  PROVE  /\ <<e>> \o s \in Seq(S)
         /\ <<e>> \o s # << >>
         /\ ToSet(<<e>> \o s) = {e} \cup ToSet(s)
         /\ IsInjective(s) /\ e \notin ToSet(s) => IsInjective(<<e>> \o s)
<1> DEFINE t == <<e>> \o s
<1>1. <<e>> \in Seq(S) /\ Len(<<e>>) = 1 /\ <<e>>[1] = e /\ Len(s) \in Nat
  BY LenProperties
<1>2. t \in Seq(S) /\ Len(t) = 1 + Len(s)
  BY <1>1, ConcatProperties
<1>3. DOMAIN t = 1..Len(s) + 1 /\ DOMAIN s = 1..Len(s)
  BY <1>1, <1>2, LenProperties
<1>4. t[1] = e /\ \A i \in 1..Len(s) : t[i + 1] = s[i]
  <2>1. \A i \in 1..1 + Len(s) : t[i] = IF i <= 1 THEN <<e>>[i] ELSE s[i - 1]
    BY <1>1, ConcatProperties
  <2>2. \A i \in 1..Len(s) : i + 1 \in 1..1 + Len(s) /\ ~(i + 1 <= 1) /\ (i + 1) - 1 = i
    BY <1>1
  <2>3. 1 \in 1..1 + Len(s)
    BY <1>1
  <2> HIDE DEF t
  <2> QED BY <1>1, <2>1, <2>2, <2>3
<1> HIDE DEF t
<1>5. ASSUME NEW i \in 1..Len(s) + 1, i # 1 PROVE i - 1 \in 1..Len(s) /\ t[i] = s[i - 1]
  <2>1. i - 1 \in 1..Len(s) /\ (i - 1) + 1 = i
    BY <1>1, <1>5
  <2> QED BY <1>4, <2>1
<1>6. \A i \in 1..Len(s) : i + 1 \in 1..Len(s) + 1
  BY <1>1
<1>7. 1 \in 1..Len(s) + 1
  BY <1>1
<1>8. t # << >>
  BY <1>1, <1>2, EmptySeq
<1>9. ToSet(t) = {e} \cup ToSet(s)
  <2>1. ToSet(t) \subseteq {e} \cup ToSet(s)
    <3> SUFFICES ASSUME NEW i \in 1..Len(s) + 1 PROVE t[i] = e \/ t[i] \in ToSet(s)
      BY <1>3 DEF ToSet
    <3> QED BY <1>3, <1>4, <1>5 DEF ToSet
  <2>2. ToSet(s) \subseteq ToSet(t) /\ e \in ToSet(t)
    BY <1>3, <1>4, <1>6, <1>7 DEF ToSet
  <2> QED BY <2>1, <2>2
<1>10. ASSUME IsInjective(s), e \notin ToSet(s) PROVE IsInjective(t)
  <2>1. \A i \in 1..Len(s) : s[i] # e
    BY <1>3, <1>10 DEF ToSet
  <2> SUFFICES ASSUME NEW i \in 1..Len(s) + 1, NEW j \in 1..Len(s) + 1, t[i] = t[j]
               PROVE  i = j
    BY <1>3 DEF IsInjective
  <2>2. CASE i = 1
    BY <1>4, <1>5, <2>1, <2>2
  <2>3. CASE j = 1
    BY <1>4, <1>5, <2>1, <2>3
  <2>4. CASE i # 1 /\ j # 1
    <3>1. i - 1 = j - 1
      BY <1>3, <1>5, <1>10, <2>4 DEF IsInjective
    <3> QED BY <1>1, <3>1
  <2> QED BY <2>2, <2>3, <2>4
<1> QED BY <1>2, <1>8, <1>9, <1>10 DEF t

\* A list of regions from which some were unlinked.
LEMMA RemainingFacts ==
  ASSUME NEW S \in SUBSET Places, NEW list, NEW s \in Remaining(list, S), Len(list) \in Nat
  PROVE  s \in Seq(Places) /\ IsInjective(s) /\ ToSet(s) = S
<1>1. s \in BoundedSeq(S, Len(list)) /\ IsInjective(s) /\ ToSet(s) = S
  BY DEF Remaining
<1>2. PICK m \in 0..Len(list) : s \in [1..m -> S]
  BY <1>1 DEF BoundedSeq, SeqOf
<1>3. s \in Seq(S)
  BY <1>2, SeqDef
<1> QED BY <1>1, <1>3, SeqMonotonic

-----------------------------------------------------------------------------
(* Regions and trampolines.                                                *)

LEMMA AddressFacts ==
  ASSUME NEW p \in Places, NEW i \in 0..Units - 1
  PROVE  Address(p, i) \div Units = p
  BY RegionAssumption, SMT DEF Address

LEMMA RegionFacts == \A s \in Trampolines : RegionOf(s) \in Places
<1> SUFFICES ASSUME NEW p \in Places, NEW i \in 1..Units - 1 PROVE RegionOf(Address(p, i)) = p
  BY DEF Trampolines
<1>1. i \in 0..Units - 1
  BY RegionAssumption
<1> QED BY <1>1, AddressFacts DEF RegionOf

LEMMA StockFacts ==
  ASSUME NEW p \in Places
  PROVE  /\ Stock(p) \in Seq(Trampolines)
         /\ Stock(p) # << >>
         /\ IsInjective(Stock(p))
         /\ \A s \in ToSet(Stock(p)) : s \in Trampolines /\ RegionOf(s) = p
<1>1. Units - 3 \in Nat \ {0} /\ p \in Nat
  BY RegionAssumption
<1>2. ASSUME NEW i \in 1..Units - 3
      PROVE  /\ Address(p, i + 2) \in Trampolines
             /\ RegionOf(Address(p, i + 2)) = p
  <2>1. i + 2 \in 1..Units - 1 /\ i + 2 \in 0..Units - 1
    BY RegionAssumption
  <2> QED BY <2>1, AddressFacts DEF Trampolines, RegionOf
<1>3. Stock(p) \in [1..Units - 3 -> Trampolines]
  BY <1>2 DEF Stock
<1>4. Stock(p) \in Seq(Trampolines)
  BY <1>1, <1>3, SeqDef
<1>5. DOMAIN Stock(p) = 1..Units - 3
  BY DEF Stock
<1>6. Stock(p) # << >>
  <2>1. Len(Stock(p)) = Units - 3
    BY <1>1, <1>4, <1>5, LenProperties
  <2> QED BY <1>1, <1>4, <2>1, EmptySeq
<1>7. IsInjective(Stock(p))
  <2> SUFFICES ASSUME NEW i \in 1..Units - 3, NEW j \in 1..Units - 3,
                      Address(p, i + 2) = Address(p, j + 2)
               PROVE  i = j
    BY <1>5 DEF IsInjective, Stock
  <2>1. p * Units \in Int
    BY <1>1, RegionAssumption
  <2> QED BY <2>1, RegionAssumption DEF Address
<1>8. \A s \in ToSet(Stock(p)) : s \in Trampolines /\ RegionOf(s) = p
  BY <1>2, <1>5 DEF ToSet, Stock
<1> QED BY <1>4, <1>6, <1>7, <1>8

LEMMA TrampolinesAreNumbers == Trampolines \subseteq Nat
<1> SUFFICES ASSUME NEW p \in Places, NEW i \in 1..Units - 1 PROVE Address(p, i) \in Nat
  BY DEF Trampolines
<1>1. p \in Nat /\ Units \in Nat /\ i \in Nat
  BY RegionAssumption
<1>2. p * Units \in Nat
  BY <1>1
<1> QED BY <1>1, <1>2 DEF Address

\* What pbRemain says is right: a region whose trampolines all count as free has none
\* in use.  A trampoline over another one of its region does count as free, but then
\* the other one is in use, and serves a function.
LEMMA EmptyUnused ==
  ASSUME IInv, doomed = {}, NEW rem, LeadsRight(rem), NEW r \in Places, RegionEmpty(r, rem),
         NEW s \in Trampolines, RegionOf(s) = r
  PROVE  ~Used(s)
<1> SUFFICES ASSUME Used(s) PROVE FALSE
  OBVIOUS
<1>1. \A u \in Trampolines : Used(u) =>
        serves[u] \in Requests /\ serves[u].target \in Nat /\ rem[u] = serves[u].target
  BY RegionAssumption DEF IInv, TypeOK, Used, LeadsRight
<1>2. \A u \in Trampolines : Used(u) /\ RegionOf(u) = r => RegionOf(serves[u].target) = r
  BY <1>1, RegionAssumption DEF RegionEmpty
<1>3. \A u \in Trampolines : Used(u) /\ RegionOf(u) = r => serves[u].target \in Trampolines
  BY <1>1, <1>2, RegionAssumption
<1> DEFINE t == serves[s].target
<1>4. t \in Trampolines /\ RegionOf(t) = r
  BY <1>2, <1>3
<1>5. Used(t) /\ serves[t].target \notin Trampolines
  BY <1>4 DEF IInv, HookedOverInv
<1> QED BY <1>3, <1>4, <1>5

\* Whichever region the next trampoline is taken from, it is one of the list and
\* its first free trampoline suits the request.
LEMMA SuitableFacts ==
  ASSUME TypeOK, FreeListsExact, NEW q \in Requests, Suitable(q) # Null
  PROVE  Suitable(q) \in Listed /\ Suits(Suitable(q), q)
<1>1. CASE default # Null /\ Suits(default, q)
  BY <1>1 DEF Suitable, FreeListsExact
<1>2. CASE ~(default # Null /\ Suits(default, q))
  <2>1. \E r \in Listed : Suits(r, q)
    BY <1>2 DEF Suitable
  <2>2. regions \in Seq(Places) /\ DOMAIN regions = 1..Len(regions) /\ Len(regions) \in Nat
    BY LenProperties DEF TypeOK
  <2> DEFINE Fit == {i \in 1..Len(regions) : Suits(regions[i], q)}
             First(i) == /\ Suits(regions[i], q)
                         /\ \A j \in 1..i - 1 : ~Suits(regions[j], q)
  <2>3. Fit \in SUBSET Nat /\ Fit # {}
    BY <2>1, <2>2 DEF Listed, ToSet
  <2>4. PICK m \in Fit : \A k \in Fit : m <= k
    <3> HIDE DEF Fit
    <3> QED BY <2>3, Least
  <2>5. \E i \in DOMAIN regions : First(i)
    <3>1. m \in 1..Len(regions) /\ Suits(regions[m], q)
      OBVIOUS
    <3>2. ASSUME NEW j \in 1..m - 1 PROVE ~Suits(regions[j], q)
      <4>1. j \in 1..Len(regions) /\ ~(m <= j)
        BY <2>2
      <4> QED BY <2>4, <4>1
    <3> QED BY <2>2, <3>1, <3>2
  <2> DEFINE i == CHOOSE i \in DOMAIN regions : First(i)
  <2>6. i \in DOMAIN regions /\ First(i)
    <3> HIDE DEF First
    <3> QED BY <2>5
  <2>7. Suitable(q) = regions[i]
    BY <1>2, <2>1 DEF Suitable
  <2>8. regions[i] \in Listed
    <3> HIDE DEF i
    <3> QED BY <2>6 DEF Listed, ToSet
  <2> HIDE DEF i
  <2> QED BY <2>6, <2>7, <2>8
<1> QED BY <1>1, <1>2

-----------------------------------------------------------------------------
(* Attaching.                                                              *)

\* Region r, which was on the list or is new, has its free trampolines on stock, list
\* is the list with it, and links is pbRemain with the links of its stock.
Prepared(r, list, stock, links, q) ==
  /\ links \in [Trampolines -> Nat \cup {Null}] /\ LeadsRight(links)
  /\ Reachable(q)
  /\ list \in Seq(Places) /\ IsInjective(list) /\ ToSet(list) = Listed \cup {r}
  /\ stock \in Seq(Trampolines) /\ stock # << >> /\ IsInjective(stock)
  /\ ToSet(stock) = {s \in ToSet(Stock(r)) : ~Used(s)}
  /\ r \in Listed => ec[r] = q.ec
  /\ ec' = [ec EXCEPT ![r] = q.ec]
  /\ writable' = (Listed \cup {r}) \cap ToSet(regions')
  /\ phase' = phase /\ phase = "open"
  /\ removed' = removed /\ leaked' = leaked /\ doomed' = doomed /\ freed' = freed

\* The kinds of code of regions in use are as they were.
LEMMA KindFacts ==
  ASSUME IInv, NEW q \in Requests, NEW r \in Places, NEW list, NEW stock, NEW links,
         Prepared(r, list, stock, links, q)
  PROVE  /\ ec' \in [Places -> BOOLEAN]
         /\ ec'[r] = q.ec
         /\ \A s \in Trampolines : Used(s) => ec'[RegionOf(s)] = ec[RegionOf(s)]
<1>1. q.ec \in BOOLEAN /\ ec \in [Places -> BOOLEAN]
  BY RegionAssumption DEF IInv, TypeOK
<1>2. ec' \in [Places -> BOOLEAN] /\ ec'[r] = q.ec /\ \A p \in Places : p # r => ec'[p] = ec[p]
  BY <1>1 DEF Prepared
<1>3. ASSUME NEW s \in Trampolines, Used(s) PROVE ec'[RegionOf(s)] = ec[RegionOf(s)]
  <2>1. RegionOf(s) \in Listed /\ RegionOf(s) \in Places
    BY <1>3, RegionFacts DEF IInv, FreeListsExact
  <2> QED BY <1>2, <2>1 DEF Prepared
<1> QED BY <1>2, <1>3

\* The head of the stock is handed out.
LEMMA TakeStep ==
  ASSUME IInv, NEW q \in Requests, NEW r \in Places, NEW list, NEW stock, NEW links,
         Prepared(r, list, stock, links, q), InBounds(Head(stock), q),
         serves' = [serves EXCEPT ![Head(stock)] = q],
         pbRemain' = [links EXCEPT ![Head(stock)] = q.target],
         added' = added \cup {Head(stock)},
         free' = [free EXCEPT ![r] = Tail(stock)],
         regions' = list,
         default' = r
  PROVE  IInv'
<1> DEFINE h == Head(stock)
<1>1. /\ h \in Trampolines /\ Tail(stock) \in Seq(Trampolines) /\ IsInjective(Tail(stock))
      /\ h \notin ToSet(Tail(stock)) /\ ToSet(stock) = {h} \cup ToSet(Tail(stock))
  BY TailFacts DEF Prepared
<1>2. h \in ToSet(Stock(r)) /\ ~Used(h) /\ RegionOf(h) = r
  BY <1>1, StockFacts DEF Prepared
<1> HIDE DEF h
<1>3. q # Null
  BY RegionAssumption
<1>4. /\ serves' = [serves EXCEPT ![h] = q] /\ pbRemain' = [links EXCEPT ![h] = q.target]
      /\ added' = added \cup {h} /\ h = Head(stock)
  BY DEF h
<1>5. \A s \in Trampolines : serves'[s] = IF s = h THEN q ELSE serves[s]
  BY <1>4 DEF IInv, TypeOK
<1>6. \A s \in Trampolines : Used(s)' <=> Used(s) \/ s = h
  BY <1>1, <1>3, <1>5 DEF Used
<1>7. Listed' = Listed \cup {r}
  BY DEF Prepared, Listed
<1>8. \A p \in Places : ToSet(Stock(p)) \subseteq Trampolines /\ (p # r => h \notin ToSet(Stock(p)))
  BY <1>2, StockFacts
<1>9. /\ free' \in [Places -> Seq(Trampolines)]
      /\ free'[r] = Tail(stock) /\ \A p \in Places : p # r => free'[p] = free[p]
  BY <1>1 DEF IInv, TypeOK
<1>10. TypeOK'
  <2>1. serves' \in [Trampolines -> Requests \cup {Null}]
    BY <1>1, <1>4 DEF IInv, TypeOK
  <2>2. writable' \subseteq Listed'
    BY DEF Prepared, Listed
  <2>3. (added \cup removed \cup leaked \cup doomed \subseteq Trampolines)'
    BY <1>1, <1>4 DEF IInv, TypeOK, Prepared
  <2>4. pbRemain' \in [Trampolines -> Nat \cup {Null}]
    <3>1. q.target \in Nat
      BY RegionAssumption
    <3> QED BY <1>1, <1>4, <3>1 DEF Prepared
  <2> QED BY <1>9, <2>1, <2>2, <2>3, <2>4, KindFacts DEF IInv, TypeOK, Prepared
<1>11. FreeListsExact'
  <2>1. ASSUME NEW p \in Listed'
        PROVE  IsInjective(free'[p]) /\ ToSet(free'[p]) = {s \in ToSet(Stock(p)) : ~Used(s)'}
    <3>1. CASE p = r
      <4>1. ToSet(Tail(stock)) = ToSet(stock) \ {h}
        BY <1>1
      <4>2. \A s \in ToSet(Stock(r)) : ~Used(s)' <=> ~Used(s) /\ s # h
        BY <1>6, <1>8
      <4>3. ToSet(Tail(stock)) = {s \in ToSet(Stock(r)) : ~Used(s)'}
        BY <4>1, <4>2 DEF Prepared
      <4> QED BY <1>1, <1>9, <3>1, <4>3
    <3>2. CASE p # r
      <4>1. p \in Listed /\ p \in Places
        BY <1>7, <3>2, ToSetFacts DEF IInv, TypeOK, Listed
      <4>2. \A s \in ToSet(Stock(p)) : Used(s)' <=> Used(s)
        BY <1>6, <1>8, <3>2, <4>1
      <4> QED BY <1>9, <3>2, <4>1, <4>2 DEF IInv, FreeListsExact
    <3> QED BY <3>1, <3>2
  <2>2. \A s \in Trampolines : Used(s)' => RegionOf(s) \in Listed'
    BY <1>2, <1>6, <1>7 DEF IInv, FreeListsExact
  <2>3. default' \in Listed' /\ IsInjective(regions')
    BY <1>7 DEF Prepared
  <2> QED BY <2>1, <2>2, <2>3 DEF FreeListsExact
<1>12. InReach'
  BY <1>2, <1>4, <1>5, <1>6, KindFacts DEF IInv, InReach
<1>13. UseInv'
  <2>1. doomed' = {} /\ removed' = removed /\ phase = "open" /\ phase' = "open"
    BY DEF Prepared, IInv, PhaseInv
  <2>2. \A s \in added' \cup removed' : Used(s)'
    <3> SUFFICES ASSUME NEW s \in added' \cup removed' PROVE Used(s)'
      OBVIOUS
    <3>1. s = h \/ s \in added \cup removed
      BY <1>4, <2>1
    <3>2. added \cup removed \subseteq Trampolines /\ \A u \in added \cup removed : Used(u)
      BY <2>1 DEF IInv, TypeOK, UseInv
    <3> QED BY <1>1, <1>6, <3>1, <3>2
  <2>3. \A s \in Trampolines : Used(s)' => s \in ToSet(Stock(RegionOf(s)))
    BY <1>2, <1>6 DEF IInv, UseInv
  <2> QED BY <2>1, <2>2, <2>3 DEF UseInv
<1>14. PhaseInv'
  BY <1>7 DEF Prepared, IInv, PhaseInv, Listed
<1>15. LeadsRight(pbRemain)'
  <2>1. \A s \in Trampolines : pbRemain'[s] = IF s = h THEN q.target ELSE links[s]
    BY <1>4 DEF Prepared
  <2> QED BY <1>5, <1>6, <2>1 DEF LeadsRight, Prepared
<1>16. HookedOverInv'
  <2>1. doomed = {} /\ doomed' = {} /\ phase = "open" /\ added' = added \cup {h}
    BY <1>4 DEF Prepared, IInv, PhaseInv
  <2>2. ASSUME NEW u \in Trampolines, Used(u)', serves'[u].target \in Trampolines
        PROVE  LET t == serves'[u].target IN
                 Used(t) /\ serves[t].target \notin Trampolines /\ t \notin added
    <3>1. CASE u = h
      BY <1>5, <2>2, <3>1 DEF Prepared, Reachable
    <3>2. CASE u # h
      BY <1>5, <1>6, <2>1, <2>2, <3>2 DEF IInv, HookedOverInv
    <3> QED BY <3>1, <3>2
  <2>3. \A t \in Trampolines : Used(t) => t # h /\ Used(t)' /\ serves'[t] = serves[t]
    BY <1>2, <1>5, <1>6
  <2> QED BY <2>1, <2>2, <2>3 DEF HookedOverInv
<1> QED BY <1>10, <1>11, <1>12, <1>13, <1>14, <1>15, <1>16 DEF IInv

\* The trampoline is put back into its region, or was never taken.
LEMMA LinkStep ==
  ASSUME IInv, NEW q \in Requests, NEW r \in Places, NEW list, NEW stock, NEW links,
         Prepared(r, list, stock, links, q),
         serves' = serves,
         added' = added,
         pbRemain' = links,
         free' = [free EXCEPT ![r] = stock],
         regions' = list,
         default' = r
  PROVE  IInv'
<1>1. \A s \in Trampolines : Used(s)' <=> Used(s)
  BY DEF Used
<1>2. Listed' = Listed \cup {r}
  BY DEF Prepared, Listed
<1>3. /\ free' \in [Places -> Seq(Trampolines)]
      /\ free'[r] = stock /\ \A p \in Places : p # r => free'[p] = free[p]
  BY DEF IInv, TypeOK, Prepared
<1>4. TypeOK'
  <2>1. writable' \subseteq Listed'
    BY DEF Prepared, Listed
  <2>2. (added \cup removed \cup leaked \cup doomed \subseteq Trampolines)'
    BY DEF IInv, TypeOK, Prepared
  <2> QED BY <1>3, <2>1, <2>2, KindFacts DEF IInv, TypeOK, Prepared
<1>5. FreeListsExact'
  <2>1. ASSUME NEW p \in Listed'
        PROVE  IsInjective(free'[p]) /\ ToSet(free'[p]) = {s \in ToSet(Stock(p)) : ~Used(s)'}
    <3>1. p \in Places /\ (p # r => p \in Listed)
      BY <1>2, ToSetFacts DEF IInv, TypeOK, Listed
    <3>2. \A s \in ToSet(Stock(p)) : Used(s)' <=> Used(s)
      BY <1>1, <3>1, StockFacts
    <3>3. CASE p = r
      BY <1>3, <3>2, <3>3 DEF Prepared
    <3>4. CASE p # r
      BY <1>3, <3>1, <3>2, <3>4 DEF IInv, FreeListsExact
    <3> QED BY <3>3, <3>4
  <2>2. \A s \in Trampolines : Used(s)' => RegionOf(s) \in Listed'
    BY <1>1, <1>2 DEF IInv, FreeListsExact
  <2>3. default' \in Listed' /\ IsInjective(regions')
    BY <1>2 DEF Prepared
  <2> QED BY <2>1, <2>2, <2>3 DEF FreeListsExact
<1>6. InReach'
  BY <1>1, KindFacts DEF IInv, InReach
<1>7. UseInv'
  BY <1>1 DEF IInv, TypeOK, UseInv, Prepared
<1>8. PhaseInv'
  BY <1>2 DEF Prepared, IInv, PhaseInv, Listed
<1>9. LeadsRight(pbRemain)'
  BY <1>1 DEF LeadsRight, Prepared
<1>10. HookedOverInv'
  BY <1>1 DEF IInv, HookedOverInv, Prepared
<1> QED BY <1>4, <1>5, <1>6, <1>7, <1>8, <1>9, <1>10 DEF IInv

\* The region is given back, as nothing else of it is in use.
LEMMA ReleaseStep ==
  ASSUME IInv, NEW q \in Requests, NEW r \in Places, NEW list, NEW stock, NEW links,
         Prepared(r, list, stock, links, q), RegionEmpty(r, links), Release(r, list),
         serves' = serves,
         added' = added
  PROVE  IInv'
<1>1. \A s \in Trampolines : Used(s)' <=> Used(s)
  BY DEF Used
<1>2. regions' \in Seq(Places) /\ IsInjective(regions') /\ Listed' = (Listed \cup {r}) \ {r}
  <2>1. ToSet(list) \ {r} \in SUBSET Places /\ Len(list) \in Nat
    BY ToSetFacts DEF Prepared
  <2>2. regions' \in Seq(Places) /\ IsInjective(regions') /\ ToSet(regions') = ToSet(list) \ {r}
    BY <2>1, RemainingFacts DEF Release
  <2> QED BY <2>2 DEF Prepared, Listed
<1>3. /\ free' \in [Places -> Seq(Trampolines)]
      /\ \A p \in Places : p # r => free'[p] = free[p]
  <2>1. << >> \in Seq(Trampolines)
    BY EmptySeq
  <2> QED BY <2>1 DEF IInv, TypeOK, Release
<1>4. default' = Null
  BY DEF Release
<1>5. \A s \in Trampolines : Used(s) => RegionOf(s) \in Listed'
  <2>1. doomed = {} /\ LeadsRight(links)
    BY DEF Prepared, IInv, PhaseInv
  <2>2. \A s \in Trampolines : Used(s) => RegionOf(s) # r
    BY <2>1, EmptyUnused
  <2> QED BY <1>2, <2>2 DEF IInv, FreeListsExact
<1>6. pbRemain' = Forgotten(Listed')
  BY <1>2 DEF Release, Prepared
<1>7. TypeOK'
  <2>1. writable' \subseteq Listed'
    BY DEF Prepared, Listed
  <2>2. (added \cup removed \cup leaked \cup doomed \subseteq Trampolines)'
    BY DEF IInv, TypeOK, Prepared
  <2>3. pbRemain' \in [Trampolines -> Nat \cup {Null}]
    BY <1>6 DEF IInv, TypeOK, Forgotten
  <2> QED BY <1>2, <1>3, <1>4, <2>1, <2>2, <2>3, KindFacts DEF IInv, TypeOK, Prepared
<1>8. FreeListsExact'
  <2>1. ASSUME NEW p \in Listed'
        PROVE  IsInjective(free'[p]) /\ ToSet(free'[p]) = {s \in ToSet(Stock(p)) : ~Used(s)'}
    <3>1. p \in Places /\ p # r /\ p \in Listed
      BY <1>2, ToSetFacts DEF IInv, TypeOK, Listed
    <3>2. \A s \in ToSet(Stock(p)) : Used(s)' <=> Used(s)
      BY <1>1, <3>1, StockFacts
    <3> QED BY <1>3, <3>1, <3>2 DEF IInv, FreeListsExact
  <2>2. \A s \in Trampolines : Used(s)' => RegionOf(s) \in Listed'
    BY <1>1, <1>5
  <2> QED BY <1>2, <1>4, <2>1, <2>2 DEF FreeListsExact
<1>9. InReach'
  BY <1>1, KindFacts DEF IInv, InReach
<1>10. UseInv'
  BY <1>1 DEF IInv, TypeOK, UseInv, Prepared
<1>11. PhaseInv'
  <2>1. writable' = Listed'
    BY <1>2 DEF Prepared, Listed
  <2> QED BY <2>1 DEF Prepared, IInv, PhaseInv
<1>12. LeadsRight(pbRemain)'
  BY <1>1, <1>5, <1>6 DEF IInv, LeadsRight, Forgotten
<1>13. HookedOverInv'
  BY <1>1 DEF IInv, HookedOverInv, Prepared
<1> QED BY <1>7, <1>8, <1>9, <1>10, <1>11, <1>12, <1>13 DEF IInv

LEMMA AttachFromListStep ==
  ASSUME IInv, NEW q \in Requests, AttachFromList(q)
  PROVE  IInv'
<1> DEFINE r == Suitable(q)
           stock == free[r]
<1>1. phase = "open" /\ r # Null /\ HandOut(r, regions, stock, pbRemain, q)
  BY DEF AttachFromList
<1>2. r \in Listed /\ Suits(r, q)
  BY <1>1, SuitableFacts DEF IInv
<1>3. r \in Places
  BY <1>2, ToSetFacts DEF IInv, TypeOK, Listed
<1> HIDE DEF r
<1>4. stock # << >> /\ InBounds(Head(stock), q) /\ ec[r] = q.ec
  BY <1>2 DEF Suits
<1>5. Prepared(r, regions, stock, pbRemain, q)
  <2>1. ec' = [ec EXCEPT ![r] = q.ec]
    BY <1>3, <1>4 DEF AttachFromList, IInv, TypeOK
  <2>2. writable' = (Listed \cup {r}) \cap ToSet(regions')
    BY <1>1, <1>2 DEF AttachFromList, IInv, PhaseInv
  <2>3. regions \in Seq(Places) /\ IsInjective(regions) /\ ToSet(regions) = Listed \cup {r}
    BY <1>2 DEF IInv, TypeOK, FreeListsExact, Listed
  <2>4. /\ stock \in Seq(Trampolines) /\ IsInjective(stock)
        /\ ToSet(stock) = {s \in ToSet(Stock(r)) : ~Used(s)}
    BY <1>2, <1>3 DEF IInv, TypeOK, FreeListsExact
  <2>5. /\ phase' = phase /\ removed' = removed /\ leaked' = leaked /\ doomed' = doomed
        /\ freed' = freed
    BY DEF AttachFromList
  <2>6. /\ pbRemain \in [Trampolines -> Nat \cup {Null}] /\ LeadsRight(pbRemain)
        /\ Reachable(q)
    BY DEF IInv, TypeOK, AttachFromList
  <2> QED BY <1>1, <1>4, <2>1, <2>2, <2>3, <2>4, <2>5, <2>6 DEF Prepared
<1> HIDE DEF stock
<1>6. CASE /\ serves' = [serves EXCEPT ![Head(stock)] = q]
           /\ pbRemain' = [pbRemain EXCEPT ![Head(stock)] = q.target]
           /\ added' = added \cup {Head(stock)}
           /\ free' = [free EXCEPT ![r] = Tail(stock)]
           /\ regions' = regions
           /\ default' = r
  BY <1>3, <1>4, <1>5, <1>6, TakeStep
<1>7. CASE RegionEmpty(r, pbRemain) /\ Release(r, regions) /\ serves' = serves /\ added' = added
  BY <1>3, <1>5, <1>7, ReleaseStep
<1>8. CASE /\ regions' = regions
           /\ default' = r
           /\ free' = [free EXCEPT ![r] = stock]
           /\ pbRemain' = pbRemain
           /\ serves' = serves /\ added' = added
  BY <1>3, <1>5, <1>8, LinkStep
<1> QED BY <1>1, <1>6, <1>7, <1>8 DEF HandOut

LEMMA AttachFromNewStep ==
  ASSUME IInv, NEW q \in Requests, NEW p \in Places, AttachFromNew(q, p)
  PROVE  IInv'
<1> DEFINE list == <<p>> \o regions
           stock == Stock(p)
           links == Stocked(p)
<1>1. phase = "open" /\ p \notin Listed
  BY DEF AttachFromNew
<1>2. Prepared(p, list, stock, links, q)
  <2>1. ec' = [ec EXCEPT ![p] = q.ec]
    BY DEF AttachFromNew
  <2>2. writable' = (Listed \cup {p}) \cap ToSet(regions')
    BY <1>1 DEF AttachFromNew, IInv, PhaseInv
  <2>3. list \in Seq(Places) /\ IsInjective(list) /\ ToSet(list) = Listed \cup {p}
    BY <1>1, ConsFacts DEF IInv, TypeOK, FreeListsExact, Listed
  <2>4. stock \in Seq(Trampolines) /\ stock # << >> /\ IsInjective(stock)
    BY StockFacts
  <2>5. \A s \in ToSet(stock) : ~Used(s)
    BY <1>1, StockFacts DEF IInv, FreeListsExact
  <2>6. /\ phase' = phase /\ removed' = removed /\ leaked' = leaked /\ doomed' = doomed
        /\ freed' = freed
    BY DEF AttachFromNew
  <2>7. /\ links \in [Trampolines -> Nat \cup {Null}]
        /\ \A s \in Trampolines : IF RegionOf(s) # p THEN links[s] = pbRemain[s]
                                 ELSE links[s] = Null \/ RegionOf(links[s]) = p
    <3>1. ASSUME NEW s \in Trampolines, s + 1 \in ToSet(Stock(p))
          PROVE  s + 1 \in Nat /\ RegionOf(s + 1) = p
      BY <3>1, StockFacts, TrampolinesAreNumbers
    <3> QED BY <3>1 DEF Stocked, IInv, TypeOK
  <2>8. LeadsRight(links)
    <3>1. \A s \in Trampolines : Used(s) => RegionOf(s) # p
      BY <1>1 DEF IInv, FreeListsExact
    <3> HIDE DEF links
    <3> QED BY <2>7, <3>1 DEF IInv, LeadsRight
  <2>9. Reachable(q)
    BY DEF AttachFromNew
  <2> HIDE DEF links
  <2> QED BY <1>1, <2>1, <2>2, <2>3, <2>4, <2>5, <2>6, <2>7, <2>8, <2>9 DEF Prepared
<1>3. \/ InBounds(Head(stock), q) /\ HandOut(p, list, stock, links, q)
      \/ /\ regions' = list
         /\ default' = p
         /\ free' = [free EXCEPT ![p] = stock]
         /\ pbRemain' = links
         /\ serves' = serves /\ added' = added
  BY DEF AttachFromNew
<1> HIDE DEF list, stock, links
<1>4. CASE /\ InBounds(Head(stock), q)
           /\ serves' = [serves EXCEPT ![Head(stock)] = q]
           /\ pbRemain' = [links EXCEPT ![Head(stock)] = q.target]
           /\ added' = added \cup {Head(stock)}
           /\ free' = [free EXCEPT ![p] = Tail(stock)]
           /\ regions' = list
           /\ default' = p
  BY <1>2, <1>4, TakeStep
<1>5. CASE RegionEmpty(p, links) /\ Release(p, list) /\ serves' = serves /\ added' = added
  BY <1>2, <1>5, ReleaseStep
<1>6. CASE /\ regions' = list
           /\ default' = p
           /\ free' = [free EXCEPT ![p] = stock]
           /\ pbRemain' = links
           /\ serves' = serves /\ added' = added
  BY <1>2, <1>6, LinkStep
<1> QED BY <1>3, <1>4, <1>5, <1>6 DEF HandOut

-----------------------------------------------------------------------------
(* Freeing.                                                                *)

LEMMA FreeTrampolineStep ==
  ASSUME IInv, NEW s \in Trampolines, FreeTrampoline(s)
  PROVE  IInv'
<1> DEFINE r == RegionOf(s)
<1>1. /\ phase = "closing" /\ phase' = "closing" /\ s \in doomed /\ Used(s)
      /\ doomed' = doomed \ {s} /\ serves' = [serves EXCEPT ![s] = Null]
      /\ free' = [free EXCEPT ![r] = <<s>> \o @] /\ freed' = TRUE
      /\ pbRemain' = [pbRemain EXCEPT ![s] = IF free[r] = << >> THEN Null ELSE Head(free[r])]
      /\ regions' = regions /\ default' = default /\ ec' = ec /\ writable' = writable
      /\ added' = added /\ removed' = removed /\ leaked' = leaked
  BY DEF FreeTrampoline, IInv, UseInv
<1>2. r \in Listed /\ r \in Places /\ s \in ToSet(Stock(r))
  BY <1>1, RegionFacts DEF IInv, FreeListsExact, UseInv
<1> HIDE DEF r
<1>3. serves' \in [Trampolines -> Requests \cup {Null}]
  BY <1>1 DEF IInv, TypeOK
<1>4. \A u \in Trampolines : Used(u)' <=> Used(u) /\ u # s
  BY <1>1 DEF Used, IInv, TypeOK
<1>5. \A u \in Trampolines : u # s => serves'[u] = serves[u]
  BY <1>1 DEF IInv, TypeOK
<1>6. /\ free[r] \in Seq(Trampolines) /\ IsInjective(free[r])
      /\ ToSet(free[r]) = {u \in ToSet(Stock(r)) : ~Used(u)}
  BY <1>2 DEF IInv, TypeOK, FreeListsExact
<1>7. /\ <<s>> \o free[r] \in Seq(Trampolines) /\ IsInjective(<<s>> \o free[r])
      /\ ToSet(<<s>> \o free[r]) = {s} \cup ToSet(free[r])
  BY <1>1, <1>6, ConsFacts
<1>8. /\ free' \in [Places -> Seq(Trampolines)]
      /\ free'[r] = <<s>> \o free[r] /\ \A p \in Places : p # r => free'[p] = free[p]
  BY <1>1, <1>2, <1>7 DEF IInv, TypeOK
<1>9. Listed' = Listed
  BY <1>1 DEF Listed
<1>10. ASSUME free[r] # << >> PROVE Head(free[r]) \in Nat /\ RegionOf(Head(free[r])) = r
  <2>1. Head(free[r]) \in ToSet(Stock(r))
    BY <1>6, <1>10, TailFacts
  <2> QED BY <1>2, <2>1, StockFacts, TrampolinesAreNumbers
<1>11. TypeOK'
  <2>1. pbRemain' \in [Trampolines -> Nat \cup {Null}]
    BY <1>1, <1>10 DEF IInv, TypeOK
  <2> QED BY <1>1, <1>3, <1>8, <1>9, <2>1 DEF IInv, TypeOK
<1>12. FreeListsExact'
  <2>1. ASSUME NEW p \in Listed'
        PROVE  IsInjective(free'[p]) /\ ToSet(free'[p]) = {u \in ToSet(Stock(p)) : ~Used(u)'}
    <3>1. p \in Places /\ p \in Listed
      BY <1>9, ToSetFacts DEF IInv, TypeOK, Listed
    <3>2. ToSet(Stock(p)) \subseteq Trampolines /\ (p # r => s \notin ToSet(Stock(p)))
      BY <1>2, <3>1, StockFacts
    <3>3. CASE p = r
      <4>1. {s} \cup ToSet(free[r]) = {u \in ToSet(Stock(r)) : ~Used(u)'}
        BY <1>2, <1>4, <1>6, <3>2, <3>3
      <4> QED BY <1>7, <1>8, <3>3, <4>1
    <3>4. CASE p # r
      <4>1. \A u \in ToSet(Stock(p)) : Used(u)' <=> Used(u)
        BY <1>4, <3>2, <3>4
      <4> QED BY <1>8, <3>1, <3>4, <4>1 DEF IInv, FreeListsExact
    <3> QED BY <3>3, <3>4
  <2> QED BY <1>1, <1>4, <1>9, <2>1 DEF IInv, FreeListsExact
<1>13. InReach'
  BY <1>1, <1>4, <1>5 DEF IInv, InReach
<1>14. UseInv'
  BY <1>1, <1>4 DEF IInv, TypeOK, UseInv
<1>15. PhaseInv'
  BY <1>1, <1>9 DEF IInv, PhaseInv
<1>16. LeadsRight(pbRemain)'
  <2>1. \A u \in Trampolines : u # s => pbRemain'[u] = pbRemain[u]
    BY <1>1 DEF IInv, TypeOK
  <2>2. pbRemain'[s] = Null \/ RegionOf(pbRemain'[s]) = RegionOf(s)
    BY <1>1, <1>10 DEF IInv, TypeOK, r
  <2> QED BY <1>4, <1>5, <2>1, <2>2 DEF IInv, LeadsRight
<1>17. HookedOverInv'
  <2> SUFFICES ASSUME NEW u \in Trampolines, Used(u)', (serves[u].target \in Trampolines)',
                      u \notin doomed'
               PROVE  (LET t == serves[u].target IN
                         /\ Used(t) /\ serves[t].target \notin Trampolines
                         /\ t \notin doomed /\ (phase = "open" => t \notin added))'
    BY DEF HookedOverInv
  <2> DEFINE t == serves[u].target
  <2>1. u # s /\ Used(u) /\ u \notin doomed /\ serves'[u].target = t /\ t \in Trampolines
    BY <1>1, <1>4, <1>5
  <2>2. Used(t) /\ serves[t].target \notin Trampolines /\ t \notin doomed
    BY <2>1 DEF IInv, HookedOverInv
  <2>3. t # s /\ Used(t)' /\ serves'[t] = serves[t]
    BY <1>1, <1>4, <1>5, <2>1, <2>2
  <2>4. Used(serves[u].target)'
    BY <2>1, <2>3 DEF Used
  <2> QED BY <1>1, <2>1, <2>2, <2>3, <2>4
<1> QED BY <1>11, <1>12, <1>13, <1>14, <1>15, <1>16, <1>17 DEF IInv

LEMMA CloseStep ==
  ASSUME IInv, Close
  PROVE  IInv'
<1>1. /\ phase = "closing" /\ phase' = "idle" /\ doomed = {} /\ freed' = FALSE
      /\ writable' = writable \ Listed /\ added' = {} /\ removed' = {}
      /\ ec' = ec /\ serves' = serves /\ leaked' = leaked /\ doomed' = doomed
  BY DEF Close, Runnable
<1>2. writable' = {}
  BY <1>1 DEF IInv, PhaseInv
<1>3. \A s \in Trampolines : Used(s)' <=> Used(s)
  BY <1>1 DEF Used
<1>4. /\ regions' \in Seq(Places) /\ IsInjective(regions')
      /\ free' \in [Places -> Seq(Trampolines)]
      /\ Listed' \subseteq Listed /\ \A p \in Listed' : free'[p] = free[p]
      /\ \A s \in Trampolines : Used(s) => RegionOf(s) \in Listed'
      /\ pbRemain' \in [Trampolines -> Nat \cup {Null}] /\ LeadsRight(pbRemain')
      /\ default' \in Places \cup {Null} /\ (default' # Null => default' \in Listed')
  <2>1. CASE freed
    <3> DEFINE Kept == {r \in Listed : ~RegionEmpty(r, pbRemain)}
    <3>1. Kept \in SUBSET Places /\ Len(regions) \in Nat
      BY ToSetFacts DEF IInv, TypeOK, Listed
    <3>2. /\ regions' \in Remaining(regions, Kept)
          /\ default' = IF regions' # regions THEN Null ELSE default
          /\ free' = [r \in Places |-> IF r \in ToSet(regions') THEN free[r] ELSE << >>]
          /\ pbRemain' = Forgotten(ToSet(regions'))
      BY <2>1 DEF Close, FreeUnusedRegions
    <3>3. regions' \in Seq(Places) /\ IsInjective(regions') /\ ToSet(regions') = Kept
      <4> HIDE DEF Kept
      <4> QED BY <3>1, <3>2, RemainingFacts
    <3>4. Listed' = Kept /\ Listed' \subseteq Listed
      BY <3>3 DEF Listed
    <3>5. free' \in [Places -> Seq(Trampolines)] /\ \A p \in Listed' : free'[p] = free[p]
      <4>1. << >> \in Seq(Trampolines)
        BY EmptySeq
      <4> QED BY <3>1, <3>2, <3>3, <3>4, <4>1 DEF IInv, TypeOK
    <3>6. ASSUME NEW s \in Trampolines, Used(s) PROVE RegionOf(s) \in Listed'
      <4>1. RegionOf(s) \in Listed /\ RegionOf(s) \in Places
        BY <3>6, RegionFacts DEF IInv, FreeListsExact
      <4>2. ~RegionEmpty(RegionOf(s), pbRemain)
        BY <1>1, <3>6, <4>1, EmptyUnused DEF IInv
      <4> QED BY <3>4, <4>1, <4>2
    <3>7. default' \in Places \cup {Null} /\ (default' # Null => default' \in Listed')
      BY <3>2 DEF IInv, TypeOK, FreeListsExact, Listed
    <3>8. pbRemain' \in [Trampolines -> Nat \cup {Null}] /\ LeadsRight(pbRemain')
      <4>1. pbRemain' = Forgotten(Listed')
        BY <3>2 DEF Listed
      <4>2. pbRemain' \in [Trampolines -> Nat \cup {Null}]
        BY <4>1 DEF IInv, TypeOK, Forgotten
      <4> QED BY <3>6, <4>1, <4>2 DEF IInv, LeadsRight, Forgotten
    <3> QED BY <3>3, <3>4, <3>5, <3>6, <3>7, <3>8
  <2>2. CASE ~freed
    <3>1. regions' = regions /\ default' = default /\ free' = free /\ pbRemain' = pbRemain
      BY <2>2 DEF Close
    <3>2. Listed' = Listed
      BY <3>1 DEF Listed
    <3> QED BY <3>1, <3>2 DEF IInv, TypeOK, FreeListsExact
  <2> QED BY <2>1, <2>2 DEF IInv, TypeOK
<1>5. TypeOK'
  BY <1>1, <1>2, <1>4 DEF IInv, TypeOK
<1>6. FreeListsExact'
  <2>1. ASSUME NEW p \in Listed'
        PROVE  IsInjective(free'[p]) /\ ToSet(free'[p]) = {s \in ToSet(Stock(p)) : ~Used(s)'}
    <3>1. p \in Places /\ p \in Listed
      BY <1>4, ToSetFacts DEF IInv, TypeOK, Listed
    <3>2. \A s \in ToSet(Stock(p)) : Used(s)' <=> Used(s)
      BY <1>3, <3>1, StockFacts
    <3> QED BY <1>4, <3>1, <3>2 DEF IInv, FreeListsExact
  <2> QED BY <1>3, <1>4, <2>1 DEF FreeListsExact
<1>7. InReach'
  BY <1>1, <1>3 DEF IInv, InReach
<1>8. UseInv'
  BY <1>1, <1>3 DEF IInv, UseInv
<1>9. PhaseInv'
  BY <1>1 DEF PhaseInv
<1>10. LeadsRight(pbRemain)'
  BY <1>1, <1>3, <1>4 DEF LeadsRight
<1>11. HookedOverInv'
  BY <1>1, <1>3 DEF IInv, HookedOverInv
<1> QED BY <1>5, <1>6, <1>7, <1>8, <1>9, <1>10, <1>11 DEF IInv

-----------------------------------------------------------------------------
(* The steps that leave lists and use as they are.                         *)

LEMMA QuietStep ==
  ASSUME IInv,
         regions' = regions, free' = free, ec' = ec, serves' = serves, pbRemain' = pbRemain,
         default' = default \/ default' = Null
  PROVE  /\ Listed' = Listed
         /\ (\A s \in Trampolines : Used(s)' <=> Used(s))
         /\ FreeListsExact'
         /\ InReach'
         /\ LeadsRight(pbRemain)'
<1>1. Listed' = Listed
  BY DEF Listed
<1>2. \A s \in Trampolines : Used(s)' <=> Used(s)
  BY DEF Used
<1>3. \A p \in Listed : \A s \in ToSet(Stock(p)) : Used(s)' <=> Used(s)
  BY DEF Used
<1>4. FreeListsExact'
  BY <1>1, <1>2, <1>3 DEF IInv, FreeListsExact
<1>5. InReach'
  BY <1>2 DEF IInv, InReach
<1>6. LeadsRight(pbRemain)'
  BY <1>2 DEF IInv, LeadsRight
<1> QED BY <1>1, <1>2, <1>4, <1>5, <1>6

LEMMA BeginStep ==
  ASSUME IInv, phase = "idle", writable' \subseteq Listed,
         phase' = "idle" \/ (phase' = "open" /\ writable' = Listed),
         UNCHANGED <<regions, default, free, ec, pbRemain, serves, added, removed, leaked, doomed,
                     freed>>
  PROVE  IInv'
<1>1. /\ Listed' = Listed /\ (\A s \in Trampolines : Used(s)' <=> Used(s))
      /\ FreeListsExact' /\ InReach' /\ LeadsRight(pbRemain)'
  BY QuietStep
<1>2. TypeOK'
  BY <1>1 DEF IInv, TypeOK
<1>3. UseInv'
  BY <1>1 DEF IInv, TypeOK, UseInv, PhaseInv
<1>4. PhaseInv'
  BY <1>1 DEF IInv, TypeOK, PhaseInv
<1>5. HookedOverInv'
  BY <1>1 DEF IInv, HookedOverInv, PhaseInv
<1> QED BY <1>1, <1>2, <1>3, <1>4, <1>5 DEF IInv

LEMMA DetachStep ==
  ASSUME IInv, phase = "open", phase' = "open",
         NEW S \in SUBSET {s \in Trampolines : Used(s)}, removed' = removed \cup S,
         default' = default \/ default' = Null,
         UNCHANGED <<regions, free, ec, writable, pbRemain, serves, added, leaked, doomed, freed>>
  PROVE  IInv'
<1>1. /\ Listed' = Listed /\ (\A s \in Trampolines : Used(s)' <=> Used(s))
      /\ FreeListsExact' /\ InReach' /\ LeadsRight(pbRemain)'
  BY QuietStep
<1>2. TypeOK'
  BY <1>1 DEF IInv, TypeOK
<1>3. UseInv'
  BY <1>1 DEF IInv, TypeOK, UseInv
<1>4. PhaseInv'
  BY <1>1 DEF IInv, PhaseInv
<1>5. HookedOverInv'
  BY <1>1 DEF IInv, HookedOverInv, PhaseInv
<1> QED BY <1>1, <1>2, <1>3, <1>4, <1>5 DEF IInv

LEMMA ClosingStep ==
  ASSUME IInv, phase = "open", phase' = "closing",
         doomed' \in SUBSET (added \cup removed),
         \A s \in doomed', u \in Trampolines \ doomed' : Used(u) => serves[u].target # s,
         leaked' \in SUBSET (leaked \cup removed),
         UNCHANGED <<regions, default, free, ec, writable, pbRemain, serves, added, removed, freed>>
  PROVE  IInv'
<1>1. /\ Listed' = Listed /\ (\A s \in Trampolines : Used(s)' <=> Used(s))
      /\ FreeListsExact' /\ InReach' /\ LeadsRight(pbRemain)'
  BY QuietStep
<1>2. TypeOK'
  BY <1>1 DEF IInv, TypeOK
<1>3. UseInv'
  BY <1>1 DEF IInv, TypeOK, UseInv
<1>4. PhaseInv'
  BY <1>1 DEF IInv, PhaseInv
<1>5. HookedOverInv'
  BY <1>1 DEF IInv, HookedOverInv, PhaseInv
<1> QED BY <1>1, <1>2, <1>3, <1>4, <1>5 DEF IInv

-----------------------------------------------------------------------------
(* The theorems.                                                           *)

LEMMA InvInit == Init => IInv
<1> SUFFICES ASSUME Init PROVE IInv
  OBVIOUS
<1>1. << >> \in Seq(Places) /\ << >> \in Seq(Trampolines) /\ Listed = {} /\ IsInjective(regions)
  BY EmptyFacts, EmptySeq DEF Init, Listed
<1>2. TypeOK
  BY <1>1 DEF Init, TypeOK
<1>3. \A s \in Trampolines : ~Used(s)
  BY DEF Init, Used
<1>4. LeadsRight(pbRemain) /\ HookedOverInv
  BY <1>3 DEF Init, LeadsRight, HookedOverInv
<1> QED BY <1>1, <1>2, <1>3, <1>4 DEF Init, IInv, FreeListsExact, InReach, UseInv, PhaseInv

LEMMA InvNext == IInv /\ [Next]_vars => IInv'
<1> SUFFICES ASSUME IInv, [Next]_vars PROVE IInv'
  OBVIOUS
<1>1. CASE Begin
  <2>1. writable' = Listed
    BY <1>1 DEF Begin, IInv, TypeOK
  <2> QED BY <1>1, <2>1, BeginStep DEF Begin
<1>2. ASSUME NEW n \in DOMAIN regions, BeginFailsAt(n) PROVE IInv'
  <2>1. {regions[i] : i \in 1..n - 1} \subseteq Listed
    <3>1. DOMAIN regions = 1..Len(regions) /\ Len(regions) \in Nat
      BY LenProperties DEF IInv, TypeOK
    <3>2. 1..n - 1 \subseteq DOMAIN regions
      BY <3>1
    <3> QED BY <3>2 DEF Listed, ToSet
  <2>2. writable' \subseteq Listed
    BY <1>2, <2>1 DEF BeginFailsAt, IInv, TypeOK
  <2>3. /\ phase = "idle" /\ phase' = "idle"
        /\ regions' = regions /\ default' = default /\ free' = free /\ ec' = ec
        /\ pbRemain' = pbRemain /\ serves' = serves /\ added' = added /\ removed' = removed
        /\ leaked' = leaked
        /\ doomed' = doomed /\ freed' = freed
    BY <1>2 DEF BeginFailsAt
  <2> QED BY <2>2, <2>3, BeginStep
<1>3. CASE BeginFailsLate
  <2>1. writable' \subseteq Listed
    BY <1>3 DEF BeginFailsLate, Runnable, IInv, TypeOK
  <2>2. /\ phase = "idle" /\ phase' = "idle"
        /\ regions' = regions /\ default' = default /\ free' = free /\ ec' = ec
        /\ pbRemain' = pbRemain /\ serves' = serves /\ added' = added /\ removed' = removed
        /\ leaked' = leaked
        /\ doomed' = doomed /\ freed' = freed
    BY <1>3 DEF BeginFailsLate
  <2> QED BY <2>1, <2>2, BeginStep
<1>4. ASSUME NEW q \in Requests, AttachFindsNone(q) PROVE IInv'
  <2>1. removed' = removed \cup {}
    BY <1>4 DEF AttachFindsNone
  <2> QED BY <1>4, <2>1, DetachStep DEF AttachFindsNone
<1>5. ASSUME NEW s \in Trampolines, Detach(s) PROVE IInv'
  <2>1. {s} \in SUBSET {u \in Trampolines : Used(u)} /\ removed' = removed \cup {s}
    BY <1>5 DEF Detach
  <2> QED BY <1>5, <2>1, DetachStep DEF Detach
<1>6. CASE Commit
  BY <1>6, ClosingStep DEF Commit, Freeable
<1>7. CASE Abort
  <2>1. \A s \in added, u \in Trampolines \ added : Used(u) => serves[u].target # s
    BY <1>7 DEF Abort, IInv, TypeOK, PhaseInv, HookedOverInv
  <2> QED BY <1>7, <2>1, ClosingStep DEF Abort
<1>8. CASE UNCHANGED vars
  <2>1. /\ Listed' = Listed /\ (\A s \in Trampolines : Used(s)' <=> Used(s))
        /\ FreeListsExact' /\ InReach' /\ LeadsRight(pbRemain)'
    BY <1>8, QuietStep DEF vars
  <2> QED BY <1>8, <2>1 DEF vars, IInv, TypeOK, UseInv, PhaseInv, HookedOverInv
<1> QED
  BY <1>1, <1>2, <1>3, <1>4, <1>5, <1>6, <1>7, <1>8, AttachFromListStep, AttachFromNewStep,
     FreeTrampolineStep, CloseStep DEF Next

\* Stock and use of all regions agree at every step, however attaches fail, begins
\* fail, and trampolines are leaked, handed out and given back.
THEOREM RegionsStayConsistent == Spec => []IInv
<1> QED BY InvInit, InvNext, PTL DEF Spec

\* A trampoline of a listed region is free or in use, never both and never free
\* twice; regions in use and the default region are on the list.
THEOREM FreeListsAreExact == Spec => []FreeListsExact
<1>1. IInv => FreeListsExact
  BY DEF IInv
<1> QED BY <1>1, RegionsStayConsistent, PTL

\* What an attach was given is within the bounds it asked for, and of its kind of
\* code, for as long as it is in use.
THEOREM HandedOutWithinReach == Spec => []InReach
<1>1. IInv => InReach
  BY DEF IInv
<1> QED BY <1>1, RegionsStayConsistent, PTL

\* All regions can be written to during a transaction and none after it, whatever
\* an earlier one left behind.
THEOREM RegionsWritableWhileOpen == Spec => WritableExactlyWhileOpen
<1> DEFINE A == /\ phase' # "idle" => writable' = Listed'
                /\ phase = "closing" /\ phase' = "idle" => writable' = {}
<1>1. IInv /\ IInv' /\ [Next]_vars => [A]_vars
  <2> SUFFICES ASSUME IInv, IInv', Next PROVE A
    OBVIOUS
  <2>1. phase' # "idle" => writable' = Listed'
    BY DEF IInv, PhaseInv
  <2>2. ASSUME phase = "closing", phase' = "idle" PROVE writable' = {}
    <3>1. Close
      BY <2>2 DEF Next, Begin, BeginFailsAt, BeginFailsLate, AttachFromList, AttachFromNew,
                  AttachFindsNone, Detach, FreeTrampoline, Commit, Abort
    <3> QED BY <2>2, <3>1 DEF Close, Runnable, IInv, PhaseInv
  <2> QED BY <2>1, <2>2
<1> QED BY <1>1, RegionsStayConsistent, PTL DEF Spec, WritableExactlyWhileOpen

\* Once a transaction has freed a trampoline, every region that is left is in use.
THEOREM UnusedRegionsAreReleased == Spec => NoUnusedRegionKept
<1> DEFINE A == phase = "closing" /\ phase' = "idle" /\ freed =>
                  \A r \in ToSet(regions') : \E s \in Trampolines : RegionOf(s) = r /\ Used(s)
<1>1. IInv /\ [Next]_vars => [A]_vars
  <2> SUFFICES ASSUME IInv, Next, phase = "closing", phase' = "idle", freed,
                      NEW r \in ToSet(regions')
               PROVE  \E s \in Trampolines : RegionOf(s) = r /\ Used(s)
    OBVIOUS
  <2>1. Close
    BY DEF Next, Begin, BeginFailsAt, BeginFailsLate, AttachFromList, AttachFromNew,
           AttachFindsNone, Detach, FreeTrampoline, Commit, Abort
  <2> DEFINE Kept == {x \in Listed : ~RegionEmpty(x, pbRemain)}
  <2>2. Kept \in SUBSET Places /\ Len(regions) \in Nat
    BY ToSetFacts DEF IInv, TypeOK, Listed
  <2>3. regions' \in Remaining(regions, Kept)
    BY <2>1 DEF Close, FreeUnusedRegions
  <2>4. ToSet(regions') = Kept
    <3> HIDE DEF Kept
    <3> QED BY <2>2, <2>3, RemainingFacts
  <2> QED BY <2>4 DEF RegionEmpty, IInv, LeadsRight
<1> QED BY <1>1, RegionsStayConsistent, PTL DEF Spec, NoUnusedRegionKept
=============================================================================
