--------------------------- MODULE DisassemblerARM64 ---------------------------
(***************************************************************************)
(* Moving one instruction of ARM64 (Disassembler.c).  For what is known of *)
(* an instruction see InstructionSetARM64.                                 *)
(*                                                                         *)
(* The limits in the code are written by the fields they belong to:        *)
(* 1 << 13 is Reach14, 1 << 20 is 4 * Reach19 and Reach21, 1 << 21 is      *)
(* 8 * Reach19, 1 << 27 is 4 * Reach26.                                    *)
(***************************************************************************)
EXTENDS InstructionSetARM64, FiniteSetsExt

Instr(op, r, k, imm) == [op |-> op, r |-> r, k |-> k, imm |-> imm]

Within(x, limit) == -limit <= x /\ x < limit

\* What is left of an offset in words in a field.
Words(delta, reach) == 4 * Signed(delta \div 4, reach)

\* The ..._Assemble functions.
Adr(rd, delta)            == Instr("adr", rd, 0, Signed(delta, Reach21))
Adrp(rd, pages)           == Instr("adrp", rd, 0, Signed(pages, Reach21))
Add32(rd, imm)            == Instr("add32", rd, 0, imm % PageSize)
Bcc(condition, delta)     == Instr("bcc", 0, condition, Words(delta, Reach19))
Branch(link, delta)       == Instr(IF link THEN "bl" ELSE "b", 0, 0, Words(delta, Reach26))
Br(link)                  == Instr(IF link THEN "blr" ELSE "br", Scratch, 0, 0)
Cbz(nz, rt, delta)        == Instr("cbz", rt, nz, Words(delta, Reach19))
Tbz(nz, rt, delta)        == Instr("tbz", rt, nz, Words(delta, Reach14))
LdrLit(op, size, rt, delta) == Instr(op, rt, size, Words(delta, Reach19))
LdrFpNeon(size, rt)       == Instr("ldrx", rt, size, 0)

-----------------------------------------------------------------------------
Piece(value, n) == (value \div Weight(n)) % PieceSize

Ones == PieceSize - 1

\* Pieces are looked at from the highest to the lowest.
Descending(S) ==
  [n \in 1..Cardinality(S) |-> CHOOSE x \in S : Cardinality({y \in S : y > x}) = n - 1]

\* Mutant: MOVN is given the piece as it is.
EmitMovImmediateUninverted(rd, value) ==
  LET Of(p) == {n \in 0..3 : Piece(value, n) = p}
      default == IF Cardinality(Of(Ones)) > Cardinality(Of(0)) THEN Ones ELSE 0
      left == (0..3) \ Of(default)
      order == Descending(IF left = {} THEN {0} ELSE left)
  IN  [n \in DOMAIN order |->
         Instr(IF n > 1 THEN "movk64" ELSE IF default = Ones THEN "movn64" ELSE "movz64",
               rd, order[n], Piece(value, order[n]))]

EmitMovImmediate(rd, value) ==
  LET Of(p) == {n \in 0..3 : Piece(value, n) = p}
      default == IF Cardinality(Of(Ones)) > Cardinality(Of(0)) THEN Ones ELSE 0
      left == (0..3) \ Of(default)
      order == Descending(IF left = {} THEN {0} ELSE left)
      Lead(n) == IF default = Ones THEN Instr("movn64", rd, n, Ones - Piece(value, n))
                                    ELSE Instr("movz64", rd, n, Piece(value, n))
  IN  IF {2, 3} \subseteq Of(0) /\ 1 \in Of(Ones)
      THEN <<Instr("movn32", rd, 0, Ones - Piece(value, 0))>>
      ELSE [n \in DOMAIN order |->
              IF n = 1 THEN Lead(order[1])
              ELSE Instr("movk64", rd, order[n], Piece(value, order[n]))]

-----------------------------------------------------------------------------
\* Where an instruction's offset leads; pbTarget.
Target(i, src) == src + i.imm

Pages(a) == a \div PageSize

CopyAdr(i, src, dst) ==
  LET target == IF i.op = "adr" THEN Target(i, src) ELSE (Pages(src) + i.imm) * PageSize
      delta == target - dst
      deltaPage == Pages(target) - Pages(dst)
  IN  CASE i.op = "adr" /\ Within(delta, Reach21) -> <<Adr(i.r, delta)>>
        [] ~(i.op = "adr" /\ Within(delta, Reach21))
             /\ Within(deltaPage, Reach21) ->
             <<Adrp(i.r, deltaPage)>> \o (IF i.op = "adr" THEN <<Add32(i.r, target)>> ELSE <<>>)
        [] OTHER -> EmitMovImmediate(i.r, target)

\* Mutant: the B after a skip is given the offset from the skip.
FarBranchTooFar(skip, target, dst) == <<skip, Branch(FALSE, target - dst)>>

\* A branch that is too far: the opposite condition skips one that is not.
FarBranch(skip, target, dst) ==
  IF Within(target - (dst + 4), 4 * Reach26)
  THEN <<skip, Branch(FALSE, target - (dst + 4))>>
  ELSE EmitMovImmediate(Scratch, target) \o <<skip, Br(FALSE)>>

CopyBcc(i, src, dst) ==
  LET opposite == IF i.k % 2 = 0 THEN i.k + 1 ELSE i.k - 1
  IN  IF Within(Target(i, src) - dst, 4 * Reach19)
      THEN <<Bcc(i.k, Target(i, src) - dst)>>
      ELSE FarBranch(Bcc(opposite, 8), Target(i, src), dst)

CopyB_or_Bl(i, src, dst) ==
  IF Within(Target(i, src) - dst, 4 * Reach26)
  THEN <<Branch(i.op = "bl", Target(i, src) - dst)>>
  ELSE EmitMovImmediate(Scratch, Target(i, src)) \o <<Br(i.op = "bl")>>

CopyCbz(i, src, dst) ==
  IF Within(Target(i, src) - dst, 4 * Reach19)
  THEN <<Cbz(i.k, i.r, Target(i, src) - dst)>>
  ELSE FarBranch(Cbz(1 - i.k, i.r, 8), Target(i, src), dst)

CopyTbz(i, src, dst) ==
  IF Within(Target(i, src) - dst, Reach14)
  THEN <<Tbz(i.k, i.r, Target(i, src) - dst)>>
  ELSE FarBranch(Tbz(1 - i.k, i.r, 8), Target(i, src), dst)

\* value is what the literal reads as, a prefetch (PRFM) being no case of it.
CopyLdrLiteral(i, src, dst, literal) ==
  LET value == IF i.k = 3 THEN 0 ELSE Extended(literal, i.k)
  IN  CASE Within(Target(i, src) - dst, 8 * Reach19) ->
             <<LdrLit(i.op, i.k, i.r, Target(i, src) - dst)>>
        [] ~Within(Target(i, src) - dst, 8 * Reach19) /\ i.op = "ldr" ->
             EmitMovImmediate(i.r, value)
        [] OTHER ->
             EmitMovImmediate(Scratch, Target(i, src)) \o <<LdrFpNeon(2 + i.k, i.r)>>

\* CopyInstructionArm64: the instructions at dst that i, at src, becomes.
CopyInstructionArm64(i, src, dst, literal) ==
  CASE i.op \in {"adr", "adrp"} -> CopyAdr(i, src, dst)
    [] i.op = "bcc" -> CopyBcc(i, src, dst)
    [] i.op \in {"b", "bl"} -> CopyB_or_Bl(i, src, dst)
    [] i.op = "cbz" -> CopyCbz(i, src, dst)
    [] i.op = "tbz" -> CopyTbz(i, src, dst)
    [] i.op \in {"ldr", "ldrv"} -> CopyLdrLiteral(i, src, dst, literal)
    [] OTHER -> <<i>>

\* detour_does_code_end_function_arm64; detour_is_code_os_patched only knows
\* branches forward.
DoesCodeEndFunctionArm64(i) ==
  \/ i.op \in {"ret", "br"}
  \/ i.op = "b" /\ ~(i.k = HPAT /\ i.imm >= 0)

-----------------------------------------------------------------------------
\* Whether the code at dst does what i does at src: for a condition that holds
\* and one that does not, it leads to the same place, or to what follows it, with
\* the same registers but the scratch register.
ActsAs(code, dst, i, src, literal) ==
  \A holds \in BOOLEAN :
    LET x0 == [r \in {0, i.r, Scratch} |-> -1 - r]
        old == Effect(<<i>>, src, x0, holds, literal, Target(i, src))
        new == Effect(code, dst, x0, holds, literal, Target(i, src))
        follows == dst + 4 * Len(code)
    IN  /\ new.pc = IF old.pc = src + 4 THEN follows ELSE old.pc
        /\ \A r \in {0, i.r} \ {Scratch} : new.x[r] = old.x[r]
        /\ new.call = old.call
=============================================================================
