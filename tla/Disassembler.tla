---------------------------- MODULE Disassembler ----------------------------
(***************************************************************************)
(* Measuring and moving one instruction of x64 (Disassembler.c).  For what *)
(* is known of an instruction see InstructionSet.                          *)
(***************************************************************************)
EXTENDS InstructionSet

CONSTANTS
  MaxLength, \* DETOUR_MAX_INSTRUCTION_LENGTH
  LongLimit  \* LONG_MAX + 1: 2^31 in the code, less where TLC computes

ASSUME DisassemblerAssumption ==
  /\ MaxLength \in Nat \ {0}
  /\ LongLimit \in Nat
  /\ LongLimit > 2^15

\* The entries of g_rceCopyMap: sizes without and with a prefix, offsets of the
\* ModR/M byte and of the relative target (0 for none), and flags.
Entry(size, size16, mod, relOffset, flags) ==
  [size |-> size, size16 |-> size16, mod |-> mod, rel |-> relOffset, flags |-> flags]

CopyBytes1           == Entry(1, 1, 0, 0, {})
CopyBytes1Address    == Entry(9, 5, 0, 0, {"ADDRESS"})
CopyBytes2           == Entry(2, 2, 0, 0, {})
CopyBytes2CantJump   == Entry(2, 2, 0, 1, {"NOENLARGE"})
CopyBytes3           == Entry(3, 3, 0, 0, {})
CopyBytes3Or5        == Entry(5, 3, 0, 0, {})
CopyBytes3Or5Rax     == Entry(5, 3, 0, 0, {"RAX"})
CopyBytes3Or5Target  == Entry(5, 5, 0, 1, {})
CopyBytes4           == Entry(4, 4, 0, 0, {})
CopyBytes2Mod        == Entry(2, 2, 1, 0, {})
CopyBytes2Mod1       == Entry(3, 3, 1, 0, {})
CopyBytes2ModOperand == Entry(6, 4, 1, 0, {})
CopyBytes3Mod        == Entry(3, 3, 2, 0, {})
CopyBytes3Mod1       == Entry(4, 4, 2, 0, {})
CopyBytesXop         == Entry(5, 5, 4, 0, {})
CopyBytesXop1        == Entry(6, 6, 4, 0, {})
CopyBytesXop4        == Entry(9, 9, 4, 0, {})
XBegin               == Entry(6, 4, 0, 2, {})
Jump                 == Entry(2, 2, 0, 1, {"JUMP"})
Invalid              == Entry(0, 0, 0, 0, {"INVALID"})

-----------------------------------------------------------------------------
\* The state of the disassembler: how many bytes it is past the first one, how
\* far it has looked, and what the prefixes told it.
Fresh == [n |-> 0, read |-> 1, ok |-> TRUE, operand |-> FALSE, address |-> FALSE,
          rax |-> FALSE, f2 |-> FALSE, vex |-> FALSE]

\* detour_readable, and the return if the bytes are not.
Needs(d, bytes) ==
  IF d.ok /\ d.n + bytes <= MaxLength
  THEN [d EXCEPT !.read = IF @ > d.n + bytes THEN @ ELSE d.n + bytes]
  ELSE [d EXCEPT !.ok = FALSE]

Past(d, bytes) == [d EXCEPT !.n = @ + bytes]

\* Mutant: a REX that is not the last prefix counts.
PrefixKeepingRex(d) == Past(Needs(d, 2), 1)

CopyBytesPrefix(d) == Past([Needs(d, 2) EXCEPT !.rax = FALSE], 1)

CopyPrefix(d, p) ==
  CASE p = "66" -> CopyBytesPrefix([d EXCEPT !.operand = TRUE])
    [] p = "67" -> CopyBytesPrefix([d EXCEPT !.address = TRUE])
    [] p = "F2" -> CopyBytesPrefix([d EXCEPT !.f2 = TRUE])
    [] p \in {"40", "48"} -> Past([Needs(d, 2) EXCEPT !.rax = p = "48"], 1)
    [] OTHER -> CopyBytesPrefix(d)

\* Copy0F, CopyRex2, CopyVex2, CopyVex3 and CopyEvex, up to the opcode.
CopyEscape(d, i) ==
  CASE i.esc = "none" -> d
    [] i.esc = "0F"   -> Past(Needs(d, 2), 1)
    [] i.esc = "REX2" -> Past([Needs(d, 3) EXCEPT !.rax = @ \/ i.w], 2)
    [] i.esc = "VEX2" -> Needs(Past([Needs(d, 2) EXCEPT !.vex = TRUE], 2), 1)
    [] i.esc = "VEX3" -> Needs(Past([Needs(Needs(d, 2), 3) EXCEPT
                                       !.vex = TRUE, !.rax = @ \/ i.w], 3), 1)
    [] i.esc = "EVEX" -> Needs(Past([Needs(Needs(d, 2), 4) EXCEPT
                                       !.vex = TRUE, !.rax = @ \/ i.w], 4), 1)

-----------------------------------------------------------------------------
CopyF6(i) == IF i.reg \in {0, 1} THEN CopyBytes2Mod1 ELSE CopyBytes2Mod
CopyF7(i) == IF i.reg \in {0, 1} THEN CopyBytes2ModOperand ELSE CopyBytes2Mod
CopyC7(i) == IF i.reg = 7 /\ i.rm = "reg" THEN XBegin ELSE CopyBytes2ModOperand
CopyFF(i) == IF i.reg = 7 THEN Invalid ELSE CopyBytes2Mod

CopyXop(i) ==
  CASE i.m = 8  -> CopyBytesXop1
    [] i.m = 9  -> CopyBytesXop
    [] i.m = 10 -> CopyBytesXop4
    [] OTHER    -> IF i.reg # 0 THEN Invalid ELSE CopyBytes2Mod

Copy0F78(d) == IF d.f2 \/ d.operand THEN CopyBytes4 ELSE CopyBytes2Mod

\* g_rceCopyTable of x64: an opcode for each kind of entry, and for each handler.
OneByte(i) ==
  CASE i.op \in {"90", "C3", "CC"} -> CopyBytes1
    [] i.op = "A1" -> CopyBytes1Address
    [] i.op = "6A" -> CopyBytes2
    [] i.op = "E0" -> CopyBytes2CantJump
    [] i.op \in {"74", "EB"} -> Jump
    [] i.op = "C2" -> CopyBytes3
    [] i.op = "C8" -> CopyBytes4
    [] i.op = "A9" -> CopyBytes3Or5
    [] i.op = "B8" -> CopyBytes3Or5Rax
    [] i.op \in {"E8", "E9"} -> CopyBytes3Or5Target
    [] i.op = "8B" -> CopyBytes2Mod
    [] i.op = "83" -> CopyBytes2Mod1
    [] i.op = "81" -> CopyBytes2ModOperand
    [] i.op = "8F" -> CopyXop(i)
    [] i.op = "F6" -> CopyF6(i)
    [] i.op = "F7" -> CopyF7(i)
    [] i.op = "C7" -> CopyC7(i)
    [] i.op = "FF" -> CopyFF(i)
    [] OTHER -> Invalid

\* g_rceCopyTable0F, likewise; Copy0F00 and Copy0FB8 are in the table of x86 only.
TwoByte(d, i) ==
  CASE i.op \in {"05", "37", "77"} -> CopyBytes1
    [] i.op \in {"10", "B6"} -> CopyBytes2Mod
    [] i.op \in {"A4", "C2"} -> CopyBytes2Mod1
    [] i.op = "38" -> CopyBytes3Mod
    [] i.op = "3A" -> CopyBytes3Mod1
    [] i.op = "85" -> CopyBytes3Or5Target
    [] i.op = "78" -> Copy0F78(d)
    [] OTHER -> Invalid

\* CopyVexEvexCommon, and what CopyVexCommon refuses.
Vex(d, i) ==
  CASE i.m \in {1, 5} /\ (i.esc = "EVEX" \/ i.m = 1) ->
         IF i.op \in {"37", "38", "3A", "78", "7A", "7B"}
         THEN IF i.esc = "EVEX" THEN CopyBytes2Mod ELSE Invalid
         ELSE TwoByte(d, i)
    [] i.m = 2 \/ (i.m = 6 /\ i.esc = "EVEX") -> CopyBytes2Mod
    [] i.m = 3 -> CopyBytes2Mod1
    [] OTHER -> Invalid

EntryOf(d, i) ==
  IF d.vex THEN Vex(d, i)
  ELSE IF i.esc = "0F" \/ (i.esc = "REX2" /\ i.m = 1) THEN TwoByte(d, i)
  ELSE OneByte(i)

\* The handlers that look at the byte after the opcode before they go on.
LooksAhead(d, i) ==
  IF ~d.vex /\ (EntryOf(d, i) = Jump \/
                (i.esc \in {"none", "REX2"} /\ i.m # 1 /\
                   i.op \in {"8F", "F6", "F7", "C7", "FF"}))
  THEN Needs(d, 2) ELSE d

-----------------------------------------------------------------------------
\* g_rbModRm: the bytes that follow the ModR/M byte.
ModRm(rm) ==
  CASE rm \in {"disp8", "sib", "sib base 5"} -> 1
    [] rm = "sib disp8" -> 2
    [] rm \in {"disp32", "rip"} -> 4
    [] rm = "sib disp32" -> 5
    [] OTHER -> 0

\* Those for which the byte after the ModR/M byte is read as well.
ReadsSib(rm) == rm \in {"sib", "sib base 5"}

FixedSize(d, e) ==
  IF "ADDRESS" \in e.flags THEN IF d.address THEN e.size16 ELSE e.size
  ELSE IF d.rax THEN e.size + (IF "RAX" \in e.flags THEN 4 ELSE 0)
  ELSE IF d.operand /\ ~d.vex THEN e.size16
  ELSE e.size

Size(d, e, i) ==
  FixedSize(d, e) +
  (IF e.mod = 0 THEN 0 ELSE ModRm(i.rm) + (IF i.rm = "sib base 5" THEN 4 ELSE 0))

\* Mutant: the ModR/M byte is read without looking whether it is there.
CopyBytesBlindly(d, e, i) ==
  LET seen == IF e.mod = 0 THEN d ELSE [d EXCEPT !.read = Max({@, d.n + e.mod + 1})]
  IN  Past(Needs(seen, Size(d, e, i)), Size(d, e, i))

CopyBytes(d, e, i) ==
  LET modrm == IF e.mod = 0 THEN d ELSE Needs(d, e.mod + 1)
      sib   == IF e.mod > 0 /\ ReadsSib(i.rm) THEN Needs(modrm, e.mod + 2) ELSE modrm
  IN  Past(Needs(sib, Size(d, e, i)), Size(d, e, i))

\* What the bytes at the opcode are read by.
AtOpcode(i) ==
  LET past[n \in 0..Len(i.prefixes)] ==
        IF n = 0 THEN Fresh ELSE CopyPrefix(past[n - 1], i.prefixes[n])
  IN  CopyEscape(past[Len(i.prefixes)], i)

\* What CopyRex2 does after the instruction: the target of JMPABS is read.
JmpAbs(d, i, end) ==
  IF end.ok /\ i.esc = "REX2" /\ i.m = 0 /\ ~i.w /\ i.op = "A1"
  THEN [Needs([end EXCEPT !.n = d.n], 9) EXCEPT !.n = end.n]
  ELSE end

\* CopyInstruction: the instruction's end, and whether it is known and whole.
CopyInstruction(i) ==
  LET d == AtOpcode(i)
      e == EntryOf(d, i)
  IN  IF e = Invalid THEN [LooksAhead(d, i) EXCEPT !.ok = FALSE]
      ELSE JmpAbs(d, i, CopyBytes(LooksAhead(d, i), e, i))

-----------------------------------------------------------------------------
\* The bytes of the offset that is to be adjusted, 0 if there is none.
OffsetSize(i) ==
  LET d == AtOpcode(i)
      e == EntryOf(d, i)
  IN  IF e.rel > 0 THEN Size(d, e, i) - e.rel
      ELSE IF e.mod > 0 /\ i.rm = "rip" THEN 4
      ELSE 0

\* One more than the largest number that so many bytes hold.
Limit(bytes) == CASE bytes = 1 -> 128 [] bytes = 2 -> 32768 [] OTHER -> LongLimit

Fits(x, bytes) == -Limit(bytes) <= x /\ x < Limit(bytes)

\* What is left of a number that is stored in so many bytes.
Stored(x, bytes) == ((x + Limit(bytes)) % (2 * Limit(bytes))) - Limit(bytes)

IsJump(i) == EntryOf(AtOpcode(i), i) = Jump

\* Mutant: the second byte of the opcode of the longer jump is forgotten.
EnlargedBy3(i) == IF IsJump(i) THEN 3 ELSE 0

\* CopyBytesJump: by how much the jump with a long offset is longer.
Enlarged(i) ==
  IF ~IsJump(i) THEN 0 ELSE IF i.op = "EB" THEN 3 ELSE 4

\* The instruction that the copy is.
Becomes(i) ==
  IF ~IsJump(i) THEN i
  ELSE IF i.op = "EB" THEN [i EXCEPT !.op = "E9"]
  ELSE [i EXCEPT !.esc = "0F", !.m = 1, !.op = "85"]

\* The offset of the copy, delta bytes away: AdjustTarget and CopyBytesJump.
NewOffset(i, delta) ==
  IF IsJump(i) THEN Stored(i.rel - (delta + Enlarged(i)), 4)
  ELSE Stored(i.rel - delta, OffsetSize(i))

\* *plExtra: AdjustTarget, CopyBytesJump and NOENLARGE.
Extra(i, delta) ==
  LET short == OffsetSize(i) \in {1, 2} /\ ~Fits(i.rel - delta, OffsetSize(i))
      e     == EntryOf(AtOpcode(i), i)
  IN  IF IsJump(i) THEN Enlarged(i)
      ELSE IF ~short THEN 0
      ELSE IF "NOENLARGE" \in e.flags THEN OffsetSize(i) - 4
      ELSE 4 - OffsetSize(i)

=============================================================================
