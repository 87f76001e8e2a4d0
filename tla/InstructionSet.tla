--------------------------- MODULE InstructionSet ---------------------------
(***************************************************************************)
(* Instructions of x64 as the processor takes them: what Disassembler is   *)
(* checked against.  Nothing here is taken from the code.                  *)
(*                                                                         *)
(* An instruction is given by what its bytes say:                          *)
(*   prefixes  legacy prefixes and REX, in their order ("40" is any REX    *)
(*             without W, "48" with it, "2E" any segment but FS and GS)    *)
(*   esc       how its opcode map is chosen: "none", "0F", "REX2", "VEX2", *)
(*             "VEX3", "EVEX"; and for these m, the map, and w, the W bit  *)
(*   op        the opcode; one stands for all that are alike               *)
(*   rm, reg   the ModR/M byte: its operand, and the field of the opcode   *)
(*   rel       the signed offset from its end, if it has one               *)
(***************************************************************************)
EXTENDS Integers, Sequences, FiniteSetsExt, Folds, SequencesExt

Instructions ==
  [prefixes : Seq({"66", "67", "2E", "64", "F2", "F3", "40", "48"}),
   esc : {"none", "0F", "REX2", "VEX2", "VEX3", "EVEX"}, m : 0..10, w : BOOLEAN,
   op : STRING, reg : 0..7, rel : Int,
   rm : {"none", "reg", "mem", "disp8", "disp32", "rip", "sib", "sib disp8",
         "sib disp32", "sib base 5"}]

\* The opcodes that stand for the others, of maps 0 and 1.
OneByteOpcodes ==
  {"90", "C3", "CC", "A1", "6A", "E0", "74", "EB", "C2", "C8", "A9", "B8", "E8", "E9",
   "8B", "83", "81", "8F", "F6", "F7", "C7", "FF"}

TwoByteOpcodes == {"05", "37", "77", "10", "B6", "A4", "C2", "38", "3A", "85", "78"}

Has(i, p) == p \in ToSet(i.prefixes)

\* Only the last prefix can be a REX that counts.
Wide(i) ==
  \/ i.esc \in {"REX2", "VEX3", "EVEX"} /\ i.w
  \/ i.prefixes # <<>> /\ Last(i.prefixes) = "48"

OperandBytes(i) == IF Has(i, "66") /\ ~Wide(i) THEN 2 ELSE 4

\* The bytes 0F 38 and 0F 3A lead to maps 2 and 3.
MapOf(i) ==
  CASE i.esc = "none" -> 0
    [] i.esc = "0F" -> IF i.op = "38" THEN 2 ELSE IF i.op = "3A" THEN 3 ELSE 1
    [] OTHER -> i.m

IsXop(i) == i.esc = "none" /\ i.op = "8F" /\ i.m \in 8..10

HasModRm(i) ==
  \/ MapOf(i) = 0 /\ i.op \in {"8B", "83", "81", "F6", "F7", "C7", "FF", "8F"}
  \/ MapOf(i) \in {1, 5} /\ i.op \notin {"05", "37", "77", "85"}
  \/ MapOf(i) \in {2, 3, 6}

ImmediateBytes(i) ==
  LET map == MapOf(i)
      test == i.reg \in {0, 1}
  IN CASE IsXop(i) -> (CASE i.m = 8 -> 1 [] i.m = 9 -> 0 [] i.m = 10 -> 4)
       [] map = 0 /\ i.op \in {"6A", "83", "E0", "74", "EB"} -> 1
       [] map = 0 /\ i.op = "C2" -> 2
       [] map = 0 /\ i.op = "C8" -> 3
       [] map = 0 /\ i.op \in {"E8", "E9"} -> 4
       [] map = 0 /\ i.op \in {"A9", "81", "C7"} -> OperandBytes(i)
       [] map = 0 /\ i.op = "B8" -> (IF Wide(i) THEN 8 ELSE OperandBytes(i))
       [] map = 0 /\ i.op = "A1" -> (IF Has(i, "67") THEN 4 ELSE 8)
       [] map = 0 /\ i.op = "F6" /\ test -> 1
       [] map = 0 /\ i.op = "F7" /\ test -> OperandBytes(i)
       [] map = 1 /\ i.op = "85" -> 4
       [] i.esc = "0F" /\ i.op = "78" /\ (Has(i, "66") \/ Has(i, "F2")) -> 2
       [] map \in {1, 5} /\ i.op \in {"A4", "C2"} -> 1
       [] map = 3 -> 1
       [] OTHER -> 0

\* SIB byte and displacement.
OperandPlace(rm) ==
  CASE rm \in {"disp8", "sib"} -> 1
    [] rm = "sib disp8" -> 2
    [] rm \in {"disp32", "rip"} -> 4
    [] rm \in {"sib disp32", "sib base 5"} -> 5
    [] OTHER -> 0

OpcodeBytes(i) ==
  CASE IsXop(i) -> 4
    [] i.esc = "none" /\ ~IsXop(i) -> 1
    [] i.esc = "0F" -> IF MapOf(i) = 1 THEN 2 ELSE 3
    [] i.esc \in {"REX2", "VEX2"} -> 3
    [] i.esc = "VEX3" -> 4
    [] i.esc = "EVEX" -> 5

\* How long the instruction is.
Length(i) ==
  Len(i.prefixes) + OpcodeBytes(i) + ImmediateBytes(i)
    + (IF HasModRm(i) THEN 1 + OperandPlace(i.rm) ELSE 0)

\* Whether the processor knows the instruction, if it is not too long.
Legal(i) ==
  /\ i.esc \in {"VEX2", "VEX3", "EVEX"} \/ IsXop(i) => ToSet(i.prefixes) \subseteq {"67", "2E", "64"}
  /\ i.esc = "REX2" => ~Has(i, "40") /\ ~Has(i, "48")
  /\ CASE i.esc = "none" ->
            /\ i.op \in OneByteOpcodes
            /\ i.op = "8F" /\ ~IsXop(i) => i.reg = 0
            /\ i.op = "FF" => i.reg # 7
            /\ i.op = "C7" => i.reg = 0 \/ (i.reg = 7 /\ i.rm = "reg")
       [] i.esc = "0F" ->
            /\ i.op \in TwoByteOpcodes
            /\ i.op = "78" /\ (Has(i, "66") \/ Has(i, "F2")) => i.rm = "reg"
       [] i.esc = "REX2" ->
            /\ i.m = 0 => i.op \in {"8B", "83", "81", "B8", "A9", "A1"}
            /\ i.m = 0 /\ i.op = "A1" => ~i.w /\ ToSet(i.prefixes) \subseteq {"2E", "64"}
            /\ i.m = 1 => i.op \in {"10", "B6", "A4"}
            /\ i.m \in {0, 1}
       [] i.esc \in {"VEX2", "VEX3"} ->
            (i.m = 1 /\ i.op \in {"10", "77", "C2"}) \/ i.m \in {2, 3}
       [] i.esc = "EVEX" ->
            (i.m \in {1, 5} /\ i.op \in {"10", "78", "C2"}) \/ i.m \in {2, 3, 6}

\* Whether the instruction ends in an offset to other code.
IsRelative(i) ==
  \/ MapOf(i) = 0 /\ i.op \in {"E0", "74", "EB", "E8", "E9"}
  \/ MapOf(i) = 0 /\ i.op = "C7" /\ i.reg = 7
  \/ MapOf(i) = 1 /\ i.op = "85"

\* Whether it reads an address that is given by its distance.
ReadsNear(i) == HasModRm(i) /\ i.rm = "rip"

\* Whether what follows the instruction is only reached from elsewhere.
NeverPasses(i) ==
  \/ i.esc = "none" /\ i.op \in {"C3", "C2", "EB", "E9"}
  \/ i.esc = "none" /\ i.op = "FF" /\ i.reg \in {4, 5}
  \/ i.esc = "REX2" /\ i.m = 0 /\ i.op = "A1"
=============================================================================
