----------------------------- MODULE MCCopyLoop -----------------------------
(***************************************************************************)
(* CopyLoop for each kind of instruction of x64, after no prefix, up to    *)
(* two, or so many that the longest instruction is reached; and for each   *)
(* one of ARM64 that the code knows, with offsets at the ends of their     *)
(* range.                                                                  *)
(***************************************************************************)
EXTENDS CopyLoopInv

CONSTANT MaxPrefixes

PrefixBytes == {"66", "67", "2E", "64", "F2", "F3", "40", "48"}

MCPrefixes ==
  UNION {[1..n -> PrefixBytes] : n \in 0..MaxPrefixes}
    \cup (IF MaxPrefixes = 0 THEN {} ELSE {[k \in 1..n |-> "66"] : n \in 3..15})

\* What an instruction has after its prefixes.
Rest(esc, m, w, op, rm, reg, rel) ==
  [esc |-> esc, m |-> m, w |-> w, op |-> op, rm |-> rm, reg |-> reg, rel |-> rel]

Operands ==
  {"reg", "mem", "disp8", "disp32", "sib", "sib disp8", "sib disp32", "sib base 5"}

ShortOffsets == {-128, 0, 127}
LongOffsets == {-LongLimit, -100, LongLimit - 1}

Plain(esc, m, w, ops) == {Rest(esc, m, w, op, "none", 0, 0) : op \in ops}

WithOperand(esc, m, w, ops, regs) ==
  {Rest(esc, m, w, op, rm, reg, 0) : op \in ops, rm \in Operands, reg \in regs}
  \cup {Rest(esc, m, w, op, "rip", reg, rel) : op \in ops, reg \in regs, rel \in LongOffsets}

Relative(esc, m, ops, offsets) ==
  {Rest(esc, m, FALSE, op, "none", 0, rel) : op \in ops, rel \in offsets}

Others ==
  Plain("none", 0, FALSE, {"90", "C3", "CC", "6A", "C2", "C8", "A9", "B8", "A1", "82"})
    \cup WithOperand("none", 0, FALSE, {"8B", "83", "81"}, {0})
    \cup WithOperand("none", 0, FALSE, {"F6", "F7"}, {0, 2})
    \cup WithOperand("none", 0, FALSE, {"C7"}, {0})
    \cup WithOperand("none", 0, FALSE, {"FF"}, {4, 6, 7})
    \cup {Rest("none", m, FALSE, "8F", rm, 0, 0) : m \in {0, 8, 9, 10}, rm \in Operands}
    \cup Plain("0F", 1, FALSE, {"04", "05"})
    \cup WithOperand("0F", 1, FALSE, {"B6", "A4", "38", "3A"}, {0})
    \cup {Rest("0F", 1, FALSE, "78", rm, 0, 0) : rm \in {"reg", "mem", "disp32"}}

Escaped ==
  UNION {Plain("REX2", 0, w, {"B8", "A9"})
         \cup Plain("REX2", 0, FALSE, {"A1"})
         \cup WithOperand("REX2", 0, w, {"8B", "81"}, {0})
         \cup WithOperand("REX2", 1, w, {"B6", "A4"}, {0}) : w \in BOOLEAN}
    \cup UNION {Plain(esc, 1, FALSE, {"77"})
                \cup WithOperand(esc, 1, FALSE, {"10", "C2", "78"}, {0}) : esc \in {"VEX2", "VEX3"}}
    \cup UNION {WithOperand("VEX3", m, TRUE, {"10"}, {0}) : m \in 2..5}
    \cup UNION {WithOperand("EVEX", m, TRUE, {"10"}, {0}) : m \in 1..6}
    \cup WithOperand("EVEX", 1, FALSE, {"78", "C2"}, {0})

Jumps ==
  Relative("none", 0, {"74", "EB"}, ShortOffsets)
    \cup Relative("none", 0, {"E8", "E9"}, LongOffsets)
    \cup Relative("0F", 1, {"85"}, LongOffsets)

After(prefixes, rests) ==
  {[prefixes |-> p, esc |-> r.esc, m |-> r.m, w |-> r.w, op |-> r.op, rm |-> r.rm,
    reg |-> r.reg, rel |-> r.rel] : p \in prefixes, r \in rests}

XBegins == {Rest("none", 0, FALSE, "C7", "reg", 7, rel) : rel \in LongOffsets}

\* Of each size, moved and unmoved, and each kind of target.
Followers ==
  After({<<>>}, Plain("none", 0, FALSE, {"90", "C3", "6A", "C8"})
                  \cup {Rest("none", 0, FALSE, "8B", "reg", 0, 0),
                        Rest("none", 0, FALSE, "8B", "rip", 0, 0),
                        Rest("none", 0, FALSE, "C7", "sib disp32", 0, 0)}
                  \cup {r \in Jumps : r.rel \in {-100, 0}})
    \cup After({<<"64">>, <<"64", "66">>, <<"64", "64", "64", "64">>},
             {Rest("none", 0, FALSE, "C7", "sib disp32", 0, 0)})
    \cup After({<<"48">>}, Plain("none", 0, FALSE, {"B8"}))
    \cup After({<<"F3">>}, Plain("none", 0, FALSE, {"C3"}))

-----------------------------------------------------------------------------
\* The ends of a field's range, in units of so many bytes.
Ends(reach, unit) == {unit * n : n \in {-reach, reach - 1}}

WithOffset(op, ks, offsets) == {Instr(op, 0, k, imm) : k \in ks, imm \in offsets}

\* Conditions EQ and NE, and AL and NV; TBZ and CBZ and their opposites.
Branches ==
  WithOffset("bcc", {0, 1, 14, 15}, Ends(Reach19, 4))
    \cup WithOffset("b", {0, HPAT}, Ends(Reach26, 4))
    \cup WithOffset("bl", {0}, Ends(Reach26, 4))
    \cup WithOffset("cbz", {0, 1}, Ends(Reach19, 4))
    \cup WithOffset("tbz", {0, 1}, Ends(Reach14, 4))

NearAddresses == {Instr("adr", 3, 0, imm) : imm \in Ends(Reach21, 1) \cup {0, 1}}

Addresses ==
  NearAddresses \cup {Instr("adrp", 3, 0, imm) : imm \in Ends(Reach21, 1) \cup {0}}

Loads ==
  {Instr("ldr", 3, size, imm) : size \in 0..3, imm \in Ends(Reach19, 4)}
    \cup {Instr("ldrv", 35, size, imm) : size \in 0..2, imm \in Ends(Reach19, 4)}

Still == {Instr(op, 0, 0, 0) : op \in {"other", "ret", "br"}}

-----------------------------------------------------------------------------
MCFirst ==
  [arm \in BOOLEAN |->
     IF arm THEN Branches \cup Addresses \cup Loads \cup Still
     ELSE After(MCPrefixes, Others \cup Escaped \cup Jumps) \cup After({<<>>, <<"48">>}, XBegins)]

MCLater ==
  [arm \in BOOLEAN |->
     IF arm THEN Branches \cup Addresses \cup Loads \cup Still ELSE Followers]

\* Functions that begin with an address of their own.
MCFirstAddress == [arm \in BOOLEAN |-> IF arm THEN NearAddresses ELSE Followers]

MCFillers == [arm \in BOOLEAN |-> IF arm THEN {4} ELSE {1, 2, 11}]

\* ARM64: targets below and above the size of a W register; rbCode within reach of
\* an ADR, of a B, and of an ADRP only.
MCPlaces ==
  [arm \in BOOLEAN |->
     IF arm
     THEN {p \in {2^12 + 40, WSize + 4, 5 * WSize + 8, 100 * WSize + 300}
                  \X {d * s : d \in {64, 2^9, 2^10 + 12, 2^13 - 32}, s \in {-1, 1}} :
             p[1] + p[2] > 0}
     ELSE {0} \X {-(LongLimit \div 2), LongLimit \div 2}]

\* With pieces of zeros, of ones and others; negative words; a MOVN of 32 bits.
MCLiterals ==
  LET pieces(a, b, c, d) == a + PieceSize * (b + PieceSize * (c + PieceSize * d))
  IN  {0, pieces(5, 0, 0, 0), pieces(5, Ones, 0, 0), pieces(5, 6, 7, 8),
       pieces(5, Ones, Ones, Ones), pieces(Ones, Ones, Ones, Ones), pieces(0, 64, 0, 9)}

MCCodeSize     == [arm \in BOOLEAN |-> IF arm THEN 128 ELSE 30]
MCRestoreSize  == [arm \in BOOLEAN |-> IF arm THEN 24 ELSE 30]
MCJumpSize     == [arm \in BOOLEAN |-> IF arm THEN 12 ELSE 5]
MCJumpBackSize == [arm \in BOOLEAN |-> IF arm THEN 16 ELSE 6]

\* What the theorems about rAlign, the room in rbCode, the targets and the copies take for
\* granted.
ASSUME MCCopyLoopAssumption == Sizes /\ NoLoops /\ NoShortXBegins /\ ProperCode /\ AlignedPlaces
=============================================================================
