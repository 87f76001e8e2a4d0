-------------------------- MODULE InstructionSetARM64 --------------------------
(***************************************************************************)
(* Instructions of ARM64 as the processor takes them: what                 *)
(* DisassemblerARM64 is checked against.  Nothing here is taken from the   *)
(* code.                                                                   *)
(*                                                                         *)
(* An instruction is given by what its fields say:                         *)
(*   op   which it is; "other" for all that say nothing of an address      *)
(*   r    its register Rd or Rt; FP/NEON registers count from 32           *)
(*   k    the condition (bcc), whether it is for not zero (cbz, tbz), the  *)
(*        size field (ldr, ldrv) or the size (ldrx), the piece (movn,      *)
(*        movz, movk), or which code is found behind a b (see HPAT)        *)
(*   imm  its immediate: an offset in bytes from the instruction, or pages *)
(*        (adrp), or a number                                              *)
(*                                                                         *)
(* Each immediate has the range of its field; the ranges are scaled down   *)
(* for TLC, with their order kept.                                         *)
(***************************************************************************)
EXTENDS Integers, Sequences

CONSTANTS
  PageSize,  \* 2^12: ADRP counts pages of so many bytes
  PieceSize, \* 2^16: the numbers of MOVN, MOVZ, MOVK; an address has four such pieces
  Reach14,   \* 2^13, past the largest number in the signed field of TBZ, TBNZ
  Reach19,   \* 2^18: of B.cond, CBZ, CBNZ, LDR
  Reach21,   \* 2^20: of ADR, ADRP
  Reach26,   \* 2^25: of B, BL
  Literals   \* what the literals of a function may hold

\* The numbers of W and X registers.
WSize == PieceSize * PieceSize
XSize == WSize * WSize

ASSUME InstructionSetARM64Assumption ==
  /\ {PageSize, PieceSize, Reach14, Reach19, Reach21, Reach26} \subseteq Nat \ {0}
  /\ PieceSize > 1
  /\ 2 < Reach14 /\ Reach14 < Reach19 /\ Reach19 < Reach26 /\ Reach21 = 4 * Reach19
  /\ Literals \subseteq 0..XSize - 1

\* The scratch register.
Scratch == 17

InstructionsARM64 ==
  [op : {"other", "ret", "br", "adr", "adrp", "bcc", "b", "bl", "cbz", "tbz", "ldr", "ldrv"},
   r : 0..63, k : 0..15, imm : Int]

\* k of a b to an "HPAT" page, through which the system leads to a patched function.
HPAT == 1

\* What of x is left in a signed field.
Signed(x, reach) == ((x + reach) % (2 * reach)) - reach

\* What the nth piece of a number counts for.
Weight(n) ==
  CASE n = 0 -> 1 [] n = 1 -> PieceSize [] n = 2 -> WSize [] n = 3 -> WSize * PieceSize

\* A branch is taken, or not, for a condition or its opposite; AL and NV always.
Taken(i, holds) ==
  CASE i.op = "bcc" -> i.k >= 14 \/ (holds <=> i.k % 2 = 0)
    [] i.op \in {"cbz", "tbz"} -> holds <=> i.k = 0
    [] i.op \in {"b", "bl", "br", "blr"} -> TRUE
    [] OTHER -> FALSE

\* Whether what follows the instruction is only reached from elsewhere.  A b to an
\* HPAT page stands where the system patched a function, the rest of which goes on.
NeverPassesARM64(i) == i.op \in {"ret", "br"} \/ (i.op = "b" /\ i.k # HPAT)

PageOf(a) == a - (a % PageSize)

\* What an FP/NEON register holds after a load of this size from there.
Loaded(a, size) == a + size * XSize

\* A literal, as LDR (W, X) and LDRSW read it.
Extended(value, size) ==
  CASE size = 0 -> value % WSize
    [] size = 1 -> value
    [] size = 2 -> Signed(value % WSize, WSize \div 2) % XSize

\* The register an instruction changes, and what to.  x is what the registers
\* hold, literal what memory holds at the place the original instruction reads.
Changed(i, a, x, literal, place) ==
  LET near == a + i.imm
  IN  CASE i.op = "adr"    -> near % XSize
        [] i.op = "adrp"   -> (PageOf(a) + i.imm * PageSize) % XSize
        [] i.op = "add32"  -> (x[i.r] + i.imm) % WSize
        [] i.op = "add64"  -> (x[i.r] + i.imm) % XSize
        [] i.op = "movn32" -> (WSize - 1) - i.imm
        [] i.op = "movn64" -> (XSize - 1) - (i.imm * Weight(i.k))
        [] i.op = "movz64" -> i.imm * Weight(i.k)
        [] i.op = "movk64" -> x[i.r] + (i.imm - ((x[i.r] \div Weight(i.k)) % PieceSize)) * Weight(i.k)
        [] i.op = "ldr"    -> IF i.k = 3 THEN x[i.r]
                              ELSE IF near = place THEN Extended(literal, i.k) ELSE -100
        [] i.op = "ldrv"   -> Loaded(near, i.k + 2)
        [] i.op = "ldrx"   -> Loaded(x[Scratch], i.k)
        [] OTHER           -> x[i.r]

\* Where control goes from an instruction at a.
Onward(i, a, x, holds) ==
  IF ~Taken(i, holds) THEN a + 4
  ELSE IF i.op \in {"br", "blr"} THEN x[Scratch]
  ELSE a + i.imm

\* What the instructions code at a do, from the first on: where control leaves
\* them, with which registers, and whether as a call.
Effect(code, a, x0, holds, literal, place) ==
  LET run[n \in 0..Len(code)] ==
        IF n = 0 THEN [pc |-> a, x |-> x0, call |-> FALSE]
        ELSE LET s == run[n - 1]
                 here == a + 4 * (n - 1)
                 i == code[n]
             IN  IF s.pc # here THEN s
                 ELSE [pc |-> Onward(i, here, s.x, holds),
                       x |-> [s.x EXCEPT ![i.r] = Changed(i, here, s.x, literal, place)],
                       call |-> i.op \in {"bl", "blr"}]
  IN  run[Len(code)]
=============================================================================
