------------------------------ MODULE CopyLoop ------------------------------
(***************************************************************************)
(* SlimDetoursAttach moves the first instructions of a target, x64 or      *)
(* ARM64 code, to rbCode, until there is room for the jump, and writes     *)
(* down in rAlign which place there takes the part of which place in the   *)
(* target.  A build for ARM64EC meets both kinds of code, others one.      *)
(*                                                                         *)
(* A step of the loop is two steps here: Fetch says which instruction the  *)
(* target has next, and Copy or Refuse is what the code does with it.      *)
(***************************************************************************)
EXTENDS Disassembler, DisassemblerARM64

\* A function of BOOLEAN depends on the kind of code: TRUE is ARM64.
CONSTANTS
  First,        \* the instructions a target begins with
  Later,        \* those that follow
  Fillers,      \* the sizes detour_is_code_filler knows
  Places,       \* where targets are, and how far rbCode is from them
  CodeSize,     \* sizeof(rbCode)
  RestoreSize,  \* sizeof(rbRestore)
  JumpSize,     \* SIZE_OF_JMP
  JumpBackSize, \* the jump to pbRemain, and its literal
  AlignSize,    \* ARRAYSIZE(rAlign)
  None

ASSUME CopyLoopAssumption ==
  /\ Fillers \in [BOOLEAN -> SUBSET (Nat \ {0})]
  /\ \A arm \in BOOLEAN : Places[arm] \subseteq Nat \X Int
  /\ {CodeSize, RestoreSize, JumpSize, JumpBackSize} \subseteq [BOOLEAN -> Nat \ {0}]
  /\ AlignSize \in Nat \ {0}
  /\ First[FALSE] \cup Later[FALSE] \subseteq Instructions
  /\ First[TRUE] \cup Later[TRUE] \subseteq InstructionsARM64
  /\ \A arm \in BOOLEAN : None \notin First[arm] \cup Later[arm]

VARIABLES
  phase,    \* "idle", "moving" instructions, "filling", "done", or "broken" by
            \* the __debugbreak
  arm64,    \* whether this target is ARM64 code
  base,     \* pbTarget
  delta,    \* how far rbCode is from it
  instr,    \* the next instruction of the target, or None
  literal,  \* what the literal holds that this instruction loads, if any
  cbTarget, \* bytes of the target that are moved or filler
  code,     \* pbTrampoline - rbCode
  rAlign,   \* the entries in use
  over      \* whether the end of the function was moved

where == <<arm64, base, delta>>

vars == <<phase, where, instr, literal, cbTarget, code, rAlign, over>>

Byte(x) == x % 256

\* detour_does_code_end_function, and detour_does_code_end_function_arm64
DoesCodeEndFunctionX64(i) ==
  \/ i.prefixes = <<>> /\ i.esc = "none" /\ i.op \in {"EB", "E9", "E0", "C2", "C3", "CC"}
  \/ i.prefixes = <<"F3">> /\ i.esc = "none" /\ i.op = "C3"
  \/ /\ i.esc = "none" /\ i.op = "FF" /\ i.reg = 4 /\ i.rm = "rip"
     /\ i.prefixes \in {<<>>, <<"40">>, <<"48">>, <<"2E">>, <<"64">>}

\* Mutant: for ARM64, only returns and jumps to where a register says.
DoesCodeEndFunctionNoBranch(i) ==
  IF arm64 THEN i.op \in {"ret", "br"} ELSE DoesCodeEndFunctionX64(i)

DoesCodeEndFunction(i) ==
  IF arm64 THEN DoesCodeEndFunctionArm64(i) ELSE DoesCodeEndFunctionX64(i)

\* The end of a function: what never passes control on, without prefixes, but for jumps
\* to where a register says or what is in memory elsewhere than at a distance, which the
\* code does not recognise.
EndsFunction(i) ==
  IF arm64 THEN NeverPassesARM64(i)
  ELSE /\ NeverPasses(i)
       /\ i.prefixes = <<>> /\ i.esc = "none"
       /\ i.op = "FF" => i.rm = "rip" /\ i.reg = 4

Clear ==
  /\ instr' = None
  /\ literal' = 0
  /\ cbTarget' = 0
  /\ code' = 0
  /\ rAlign' = <<>>
  /\ over' = FALSE

Init ==
  /\ phase = "idle"
  /\ arm64 = FALSE
  /\ base = 0
  /\ delta = 0
  /\ instr = None
  /\ literal = 0
  /\ cbTarget = 0
  /\ code = 0
  /\ rAlign = <<>>
  /\ over = FALSE

-----------------------------------------------------------------------------
\* An attach comes to its loop, with a target and a trampoline so far away.
Begin(arm, p) ==
  /\ phase \in {"idle", "done"}
  /\ phase' = "moving"
  /\ arm64' = arm
  /\ base' = p[1]
  /\ delta' = p[2]
  /\ Clear

\* The target has this instruction next.
Fetch ==
  /\ phase = "moving"
  /\ instr = None
  /\ instr' \in IF cbTarget = 0 THEN First[arm64] ELSE Later[arm64]
  /\ literal' \in IF arm64 /\ instr'.op = "ldr" THEN Literals ELSE {0}
  /\ UNCHANGED <<phase, where, cbTarget, code, rAlign, over>>

\* Attach fails and gives the trampoline back.
Fail ==
  /\ phase' = "idle"
  /\ arm64' = FALSE
  /\ base' = 0
  /\ delta' = 0
  /\ Clear

\* STATUS_ILLEGAL_INSTRUCTION, which ARM64 code never leads to
Refuse ==
  /\ instr # None
  /\ ~arm64
  /\ ~CopyInstruction(instr).ok
  /\ Fail

\* How far the next instruction is moved: pbDst - pbSrc.
Distance == delta + code - cbTarget

\* Mutant: the entry names the places where the instruction begins.
PlaceOfBegin(target, trampoline) ==
  [obTarget |-> Byte(cbTarget), obTrampoline |-> Byte(code)]

\* An entry of rAlign, for the place after an instruction.
Place(target, trampoline) ==
  [obTarget |-> Byte(target), obTrampoline |-> Byte(trampoline)]

\* Mutant: one more byte than the jump needs.
EnoughAndOne(moved) == moved > JumpSize[arm64]

\* Whether the loops have found room for the jump.
Enough(moved) == moved >= JumpSize[arm64]

\* The copy of an instruction of ARM64, at pbTrampoline.
Copied ==
  CopyInstructionArm64(instr, base + cbTarget, base + delta + code, literal)

Copy ==
  /\ instr # None
  /\ \/ /\ arm64
        /\ cbTarget' = cbTarget + 4
        /\ code' = code + 4 * Len(Copied)
     \/ /\ ~arm64
        /\ CopyInstruction(instr).ok
        /\ LET moved == CopyInstruction(instr).n IN
             /\ cbTarget' = cbTarget + moved
             /\ code' = code + moved + Extra(instr, Distance)
  /\ rAlign' = Append(rAlign, Place(cbTarget', code'))
  /\ phase' = IF \/ Len(rAlign') >= AlignSize
                 \/ DoesCodeEndFunction(instr)
                 \/ Enough(cbTarget')
              THEN "filling" ELSE "moving"
  /\ over' = (over \/ EndsFunction(instr))
  /\ instr' = None
  /\ literal' = 0
  /\ UNCHANGED where

\* "Consume, but don't duplicate padding"
Fill(size) ==
  /\ phase = "filling"
  /\ ~Enough(cbTarget)
  /\ cbTarget' = cbTarget + size
  /\ UNCHANGED <<phase, where, instr, literal, code, rAlign, over>>

\* STATUS_INVALID_BLOCK_LENGTH: no filler follows, or STATUS_INVALID_HANDLE.
Unfit ==
  /\ phase = "filling"
  /\ ~(Enough(cbTarget) /\ cbTarget <= CodeSize[arm64] - JumpSize[arm64])
  /\ Fail

\* The code is as it stays: cbCode, cbRestore, rbRestore and the jump to pbRemain.
\* Where pbTrampoline > pbPool, __debugbreak comes first.
Finish ==
  /\ phase = "filling"
  /\ Enough(cbTarget)
  /\ cbTarget <= CodeSize[arm64] - JumpSize[arm64]
  /\ phase' = IF code > CodeSize[arm64] THEN "broken" ELSE "done"
  /\ UNCHANGED <<where, instr, literal, cbTarget, code, rAlign, over>>

Next ==
  \/ \E arm \in BOOLEAN : \E p \in Places[arm] : Begin(arm, p)
  \/ Fetch
  \/ Refuse
  \/ Copy
  \/ \E size \in Fillers[arm64] : Fill(size)
  \/ Unfit
  \/ Finish

Spec == Init /\ [][Next]_vars

-----------------------------------------------------------------------------
\* detour_align_from_trampoline and detour_align_from_target: entries not in use
\* are zero, and so is what is not found.
Align(n) == IF n \in DOMAIN rAlign THEN rAlign[n] ELSE [obTarget |-> 0, obTrampoline |-> 0]

FromTrampoline(place) ==
  LET found == {n \in 1..AlignSize : Align(n).obTrampoline = place}
  IN  IF found = {} THEN 0 ELSE Align(Min(found)).obTarget

FromTarget(place) ==
  LET found == {n \in 1..AlignSize : Align(n).obTarget = place}
  IN  IF found = {} THEN 0 ELSE Align(Min(found)).obTrampoline

\* Whatever prefixes, maps and operands come together, the disassembler finds
\* the end of an instruction where the processor does, and refuses one that is
\* too long: a wrong length moves half an instruction.
MeasuredRight ==
  instr # None /\ ~arm64 /\ Legal(instr) =>
    LET d == CopyInstruction(instr) IN
      IF Length(instr) <= MaxLength THEN d.ok /\ d.n = Length(instr) ELSE ~d.ok

\* "a read past it is a read of whatever follows the instruction stream"
\* (Disassembler.c:110): no byte after the longest instruction is looked at, in
\* instructions that are refused neither.
ReadsWithin == instr # None /\ ~arm64 => CopyInstruction(instr).read <= MaxLength

\* "insures that any targets remain constant" (Disassembler.c:78): the copy takes
\* as many bytes as the loop goes on by, and leads, or reads, where the
\* instruction did, if that is within reach of it at all.
TargetsKept ==
  instr # None /\ ~arm64 /\ Legal(instr) /\ CopyInstruction(instr).ok =>
    LET old == Length(instr)
        new == Length(Becomes(instr))
    IN  /\ CopyInstruction(instr).n + Extra(instr, Distance) = new
        /\ (IsRelative(instr) \/ ReadsNear(instr)) =>
             LET target == old + instr.rel - Distance - new
             IN  Fits(target, 4) => NewOffset(instr, Distance) = target

\* A place in the target and the one that takes its part lead to each other, for
\* the place after each moved instruction, and both go up: no entry hides another.
AlignExact ==
  phase = "done" =>
    /\ \A n \in DOMAIN rAlign :
         /\ FromTarget(rAlign[n].obTarget) = rAlign[n].obTrampoline
         /\ FromTrampoline(rAlign[n].obTrampoline) = rAlign[n].obTarget
    /\ \A m, n \in DOMAIN rAlign : m < n =>
         /\ rAlign[m].obTarget < rAlign[n].obTarget
         /\ rAlign[m].obTrampoline < rAlign[n].obTrampoline
    /\ Align(Len(rAlign)).obTrampoline = code
    /\ Align(Len(rAlign)).obTarget <= cbTarget

\* "insures that any targets remain constant" (Disassembler.c:77): in ARM64 code,
\* where the copy of an instruction may be up to six, it does what the instruction
\* did, wherever rbCode is.
ActsAlike == instr # None /\ arm64 => ActsAs(Copied, base + delta + code, instr,
                                            base + cbTarget, literal)

\* What the code gets wrong: see README.
Misencoded(i, src, dst) ==
  LET far(limit) == ~Within(Target(i, src) - dst, limit)
  IN  \/ i.op = "ldr" /\ i.k = 3
      \/ i.op = "bcc" /\ i.k >= 14 /\ far(4 * Reach19)
      \/ i.op \in {"ldr", "ldrv"} /\ far(4 * Reach19) /\ ~far(8 * Reach19)
      \/ i.op = "adr" /\ far(Reach21) /\ Target(i, src) >= WSize

\* The same for all but four kinds of instruction.
ActsAlikeElse ==
  instr # None /\ arm64 /\ ~Misencoded(instr, base + cbTarget, base + delta + code) =>
    ActsAs(Copied, base + delta + code, instr, base + cbTarget, literal)

\* There is room for the jump to pbRemain, and rbRestore has room for what is
\* overwritten.  For x64, rbCode holds the moved code, "target code + jmp to pbRemain"
\* (SlimDetours.inl:66), as long as no moved instruction takes more than 12 bytes there:
\* the code bounds the bytes of the target, which may be fewer than those of the copy.
\* "X86/X64 obTarget can reach 19 bytes" (SlimDetours.inl:23); "ARM64 obTarget can reach
\* 12 bytes, while obTrampoline can reach 72 bytes" (:22), with instructions growing "as
\* much as 6 times" (:46).
Room ==
  LET Start(n) == IF n = 1 THEN 0 ELSE rAlign[n - 1].obTrampoline
      short == \A n \in DOMAIN rAlign : rAlign[n].obTrampoline - Start(n) <= 12
  IN  /\ cbTarget <= RestoreSize[arm64]
      /\ IF arm64 THEN cbTarget <= 12 /\ code <= 72 ELSE cbTarget <= 19
      /\ arm64 \/ short => /\ phase # "broken"
                           /\ phase = "done" => code + JumpBackSize[arm64] <= CodeSize[arm64]

\* Nothing that follows the function is moved, and overwritten: the loop stops at its
\* end, even if there is no room for the jump yet.
StopsAtEnd == instr # None => ~over
=============================================================================
