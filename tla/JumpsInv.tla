------------------------------ MODULE JumpsInv ------------------------------
(***************************************************************************)
(* What is assumed of the code that is hooked, and the invariant from      *)
(* which the properties of Jumps follow, see JumpsProofs.                  *)
(*                                                                         *)
(* Hooks at one place lie on each other: of the record of each, attached   *)
(* or leaked, what it saved is the jump of the one below it, and the       *)
(* lowest saved what was there without hooks.                              *)
(***************************************************************************)
EXTENDS Jumps

AnyTrampoline == Trampolines[FALSE] \cup Trampolines[TRUE]

InTrampoline(a) == \E t \in AnyTrampoline : t <= a /\ a < t + TrampolineSize

\* The cell of f at a, if there is one.
Part(f, a) == IF a \in DOMAIN f THEN <<f[a]>> ELSE <<>>

IsFunction(f) == f = [a \in DOMAIN f |-> f[a]]

-----------------------------------------------------------------------------
\* Code without hooks: what is at an address, and where a pointer leads.
OldAt(l, a) == IF a \in DOMAIN l.image THEN l.image[a] ELSE Cell("none", 0, 0, 1)
OldSlot(l, a) == IF a \in DOMAIN l.slots THEN l.slots[a] ELSE -1
OldImported(l, a, slot) == a \in DOMAIN l.image /\ slot \in l.iat

OldSkipImport(l, a) ==
  LET slot == a + OldAt(l, a).len + OldAt(l, a).n
  IN  IF OldAt(l, a).op = "mem" /\ OldImported(l, a, slot) THEN OldSlot(l, slot) ELSE a

OldIsOsPatch(l, a) ==
  OldAt(l, a).op = "mem" /\ OldAt(l, a).len = 6 /\ OldAt(l, a).n = PageSize - 6

Behind(l, a) == a + 2 + OldAt(l, a).n
Far(l, a) == a + 5 + OldAt(l, a).n

OldSkipPatch(l, a) ==
  IF OldAt(l, a).op # "short" THEN a
  ELSE IF OldAt(l, Behind(l, a)).op = "near" /\ ~OldIsOsPatch(l, Far(l, Behind(l, a)))
    THEN Far(l, Behind(l, a))
    ELSE OldSkipImport(l, Behind(l, a))

OldSkipJmp(l, a) == OldSkipPatch(l, OldSkipImport(l, a))

OldIsImportArm64(l, a) ==
  /\ OldAt(l, a).op = "adrp" /\ OldAt(l, a).r = 16
  /\ OldAt(l, a + 4).op = "ldr" /\ OldAt(l, a + 4).r = 16
  /\ OldAt(l, a + 8) = Br(16)

OldSkipImportArm64(l, a) ==
  LET slot == PageOf(a) + OldAt(l, a).n * PageSize + 8 * OldAt(l, a + 4).n
  IN  IF OldIsImportArm64(l, a) /\ OldImported(l, a, slot) THEN OldSlot(l, slot) ELSE a

Branch(l, a) == a + OldAt(l, a).n

OldSkipJmpArm64(l, a) ==
  IF OldAt(l, a).op = "b" /\ OldSkipImportArm64(l, Branch(l, a)) # Branch(l, a)
  THEN OldSkipImportArm64(l, Branch(l, a))
  ELSE OldSkipImportArm64(l, a)

OldCodeFromPointer(l, a) == IF a \in l.ec THEN OldSkipJmpArm64(l, a) ELSE OldSkipJmp(l, a)

\* What is read while a pointer is followed.
SeenPatch(l, a) ==
  {a} \cup (IF OldAt(l, a).op # "short" THEN {}
            ELSE {Behind(l, a)} \cup (IF OldAt(l, Behind(l, a)).op # "near" THEN {}
                                      ELSE {Far(l, Behind(l, a))}))

SeenImport(l, a) ==
  IF OldAt(l, a).op = "adrp" /\ OldAt(l, a).r = 16 THEN {a, a + 4, a + 8} ELSE {a}

Seen(l, a) ==
  IF a \in l.ec
  THEN SeenImport(l, a)
         \cup (IF OldAt(l, a).op = "b" THEN SeenImport(l, Branch(l, a)) ELSE {})
  ELSE {a} \cup SeenPatch(l, OldSkipImport(l, a))

-----------------------------------------------------------------------------
\* Where hooks are put when there are none yet, and the bytes they may take there:
\* the instructions that a jump takes a byte of.
Places(l) == {OldCodeFromPointer(l, p) : p \in l.entries}

JumpOn(arm) == IF arm THEN 12 ELSE 5

InSpan(l, b, a) ==
  \E c \in b..b + JumpOn(b \in l.ec) - 1 : c <= a /\ a < c + OldAt(l, c).len

\* Instructions have sizes, and trampolines are apart from the code.
ProperCode(l) ==
  /\ \A a \in DOMAIN l.image : a \in Int /\ l.image[a].len \in 1..15
  /\ \A a \in DOMAIN l.slots \cup l.iat : a \in Int
  /\ IsFunction(l.image) /\ IsFunction(l.slots)
  /\ \A a \in DOMAIN l.image \cup DOMAIN l.slots \cup l.iat \cup l.ec : ~InTrampoline(a)

\* Where hooks are put is apart, from one another and from trampolines.
ProperPlaces(l) ==
  \A b \in Places(l) :
    /\ b \in Int
    /\ \A c \in b..b + JumpOn(b \in l.ec) - 1 :
         \A a \in c..c + OldAt(l, c).len - 1 :
           /\ ~InTrampoline(a)
           /\ \A other \in Places(l) \ {b} : ~InSpan(l, other, a)

\* Pointers are not followed over bytes that hooks may take: but the one they lead
\* to, or one behind a branch that is not followed.
ProperEntries(l) ==
  \A p \in l.entries : \A a \in Seen(l, p) :
    /\ a \in Int
    /\ ~InTrampoline(a)
    /\ \A b \in Places(l) : InSpan(l, b, a) =>
         \/ b = OldCodeFromPointer(l, p) /\ (b = p \/ (p \notin l.ec /\ b = a))
         \/ p \in l.ec /\ OldAt(l, p).op = "b" /\ OldCodeFromPointer(l, p) = p
              /\ a = b /\ a = Branch(l, p)

\* Nor are those to detours.
ProperDetours(l) ==
  \A h \in Hooks : \A a \in Seen(l, l.detour[h]) :
    a \in Int /\ ~InTrampoline(a) /\ \A b \in Places(l) : ~InSpan(l, b, a)

\* The sizes of the source, and trampolines are apart.
ASSUME JumpsNumbers ==
  /\ JumpSize = [arm \in BOOLEAN |-> JumpOn(arm)]
  /\ {Pool, RemainSlot, DetourSlot, CodeIn} \subseteq Nat
  /\ 34 <= CodeIn /\ CodeIn + 6 <= TrampolineSize
  /\ RemainSlot < DetourSlot /\ Pool < DetourSlot
  /\ DetourSlot % 8 = 0 /\ PageSize % 8 = 0 /\ PageSize > 0
  /\ Trampolines \in [BOOLEAN -> SUBSET Nat]
  /\ Trampolines[FALSE] \cap Trampolines[TRUE] = {}
  /\ \A t, u \in AnyTrampoline : t < u => t + TrampolineSize <= u

ASSUME JumpsLayouts ==
  \A l \in Layouts : ProperCode(l) /\ ProperPlaces(l) /\ ProperEntries(l) /\ ProperDetours(l)

-----------------------------------------------------------------------------
\* What is kept of hooks: of those attached, and of those leaked.
Records == {hook[h] : h \in ToSet(order)} \cup leaked

\* Where a hook may be put: a place, or the jump behind that of another hook.
OnHook(s, q) == q.at \in Trampolines[FALSE] /\ s = q.at + CodeIn

InArea(s, a) == IF s \in Places(layout) THEN InSpan(layout, s, a) ELSE s <= a /\ a < s + 6

InRecord(r, a) == r.target <= a /\ a < r.remain

JumpAt(s) == JumpOn(s \in layout.ec)

\* What is at an address without the hooks at this place.
Base(a) ==
  IF \E t \in Trampolines[FALSE] : a = t + CodeIn
  THEN <<JmpIndirect(a, a - CodeIn + DetourSlot)>>
  ELSE Part(layout.image, a)

\* The jump of a hook at s.
JumpCell(s, t, a) ==
  IF s \in layout.ec
  THEN IF a \in {s, s + 4, s + 8}
       THEN <<JmpIndirectArm64(s, t + DetourSlot)[1 + (a - s) \div 4]>>
       ELSE <<>>
  ELSE IF a = s THEN <<JmpImmediate(s, t + CodeIn)>> ELSE <<>>

HasJump(f, s, t) == \A a \in s..s + JumpAt(s) - 1 : Part(f, a) = JumpCell(s, t, a)

-----------------------------------------------------------------------------
TypeInv ==
  /\ layout \in Layouts
  /\ IsFunction(code) /\ IsFunction(slots)
  /\ \A a \in DOMAIN code \cup DOMAIN slots : a \in Int
  /\ IsFunction(hook) /\ DOMAIN hook = Hooks
  /\ order \in Seq(Hooks)
  /\ \A m, n \in DOMAIN order : order[m] = order[n] => m = n

\* Each hook has a trampoline of its own; its bytes are where it was put.
RecordInv(r) ==
  /\ r.target \in Int /\ r.remain \in Int
  /\ r.at \in Trampolines[r.target \in layout.ec]
  /\ r.target + JumpAt(r.target) <= r.remain
  /\ \A a \in r.target..r.remain - 1 : InArea(r.target, a)
  /\ IsFunction(r.rbRestore)
  /\ \A a \in DOMAIN r.rbRestore : a \in Int /\ InRecord(r, a)

RecordsInv ==
  /\ \A r \in Records : RecordInv(r)
  /\ \A q, r \in Records : q.at = r.at => q = r
  /\ \A g, h \in ToSet(order) : hook[g] = hook[h] => g = h
  /\ \A h \in ToSet(order) : hook[h] \notin leaked

\* Each hook is at a place, or on an older one, whose place is its own.
SiteInv(rank, r) ==
  \/ r.target \in Places(layout) /\ r.home = r.target
  \/ \E q \in Records : OnHook(r.target, q) /\ rank[q.at] < rank[r.at] /\ r.home = q.home

Above(rank, q, r) == q.target = r.target /\ rank[r.at] < rank[q.at]

\* The latest hook of a place has its jump there.
TopInv(rank, r) ==
  (\A q \in Records : ~Above(rank, q, r)) => HasJump(code, r.target, r.at)

\* One on another takes no more than the jump, which it saved if it is the next.
NextInv(rank, q, r) ==
  Above(rank, q, r) =>
    /\ q.remain = q.target + JumpAt(q.target)
    /\ (\A x \in Records : ~(Above(rank, q, x) /\ Above(rank, x, r)))
         => HasJump(q.rbRestore, r.target, r.at)

\* The oldest one saved what was there.
BottomInv(rank, r) ==
  (\A q \in Records : ~Above(rank, r, q)) =>
    \A a \in r.target..r.remain - 1 : Part(r.rbRestore, a) = Base(a)

RankInv(rank) ==
  /\ \A q, r \in Records : rank[q.at] = rank[r.at] => q = r
  /\ \A m, n \in DOMAIN order : m < n => rank[hook[order[m]].at] < rank[hook[order[n]].at]
  /\ \A r \in Records : SiteInv(rank, r) /\ TopInv(rank, r) /\ BottomInv(rank, r)
  /\ \A q, r \in Records : NextInv(rank, q, r)

\* Where no hook is, the code is as without.
Plain(a) ==
  \/ ~InTrampoline(a)
  \/ \E q \in Records : q.at \in Trampolines[FALSE] /\ a \in q.at + CodeIn..q.at + CodeIn + 5

PlainInv ==
  /\ \A a \in Int : Plain(a) /\ (\A r \in Records : ~InRecord(r, a)) => Part(code, a) = Base(a)
  /\ \A t \in AnyTrampoline \ Used : \A a \in t..t + TrampolineSize - 1 :
       a \notin DOMAIN code /\ a \notin DOMAIN slots
  /\ \A a \in Int : ~InTrampoline(a) => Part(slots, a) = Part(layout.slots, a)

\* Each hook leads to its detour, that of ARM64 code to ARM64 code.
DetourInv ==
  \A h \in ToSet(order) :
    LET detour == OldCodeFromPointer(layout, layout.detour[h]) IN
      /\ Part(slots, hook[h].at + DetourSlot) = <<detour>>
      /\ hook[h].at \in Trampolines[TRUE] => IsEcCode(detour)

Ordered(n) == \E rank \in [AnyTrampoline -> 0..n] : RankInv(rank)

JumpsIInv ==
  TypeInv /\ RecordsInv /\ PlainInv /\ DetourInv /\ \E n \in Nat : Ordered(n)
=============================================================================
