---------------------------- MODULE CopyLoopInv ----------------------------
(***************************************************************************)
(* The inductive invariants of CopyLoop.                                   *)
(***************************************************************************)
EXTENDS CopyLoop

\* The sizes that SlimDetours.inl gives the fields of a trampoline and the jumps,
\* the longest instruction and the fillers that are known.
Sizes ==
  /\ MaxLength = 15
  /\ JumpSize[FALSE] = 5 /\ JumpSize[TRUE] = 12
  /\ CodeSize[FALSE] = 30 /\ CodeSize[TRUE] = 128
  /\ RestoreSize[FALSE] = 30 /\ RestoreSize[TRUE] = 24
  /\ JumpBackSize[FALSE] = 6 /\ JumpBackSize[TRUE] = 16
  /\ AlignSize = 8
  /\ Fillers[FALSE] \subseteq 1..11 /\ Fillers[TRUE] \subseteq {4}

\* No LOOPcc and no JCXZ: they have no form with a long target, and one that leads out
\* of its reach is given a negative extra size.
NoLoops == \A i \in First[FALSE] \cup Later[FALSE] : i.op # "E0"

\* XBEGIN with an offset of two bytes, which is not enlarged either.
ShortXBegin(i) == i.esc = "none" /\ i.op = "C7" /\ i.reg = 7 /\ Has(i, "66") /\ ~Wide(i)

NoShortXBegins == \A i \in First[FALSE] \cup Later[FALSE] : ~ShortXBegin(i)

\* Code as compilers and assemblers make it: offsets of branches and literals in words,
\* fields with values that mean something, and no branch to the next instruction.
ProperFields(i) ==
  /\ i.op \in {"bcc", "b", "bl", "cbz", "tbz", "ldr", "ldrv"} => i.imm % 4 = 0
  /\ i.op \in {"bcc", "b", "bl", "cbz", "tbz"} => i.imm # 4
  /\ i.op \in {"cbz", "tbz"} => i.k \in {0, 1}
  /\ i.op = "ldr" => i.k \in 0..3

\* Whose offset leads to an address; the pages of ADRP wrap.
LeadsSomewhere(i) == i.op \notin {"other", "ret", "br", "adrp"}

\* Instructions of ARM64 are at multiples of four, and name addresses, wherever among the
\* first they are.
ProperCode ==
  \A i \in First[TRUE] \cup Later[TRUE] :
    /\ ProperFields(i)
    /\ LeadsSomewhere(i) =>
         \A p \in Places[TRUE], n \in 0..JumpSize[TRUE] - 1 :
           n % 4 = 0 => Target(i, p[1] + n) \in 0..XSize - 1

AlignedPlaces == \A p \in Places[TRUE] : p[2] % 4 = 0

\* Which instruction is looked at.
InstrOK ==
  /\ phase \in {"idle", "moving", "filling", "done", "broken"}
  /\ arm64 \in BOOLEAN
  /\ instr \in First[arm64] \cup Later[arm64] \cup {None}
  /\ over \in BOOLEAN

\* Instructions are fetched while there are some to be moved, and none is after the
\* end of the function.
EndInv ==
  /\ instr # None => phase = "moving"
  /\ over => phase \in {"filling", "done", "broken"}

\* What holds whatever the sizes of the fields and jumps are.
LoopInv == InstrOK /\ EndInv

\* Where the code is, how much of it there is, and what is written down.
CountsOK ==
  /\ base \in Int /\ delta \in Int
  /\ cbTarget \in Nat
  /\ code \in Nat
  /\ rAlign \in Seq([obTarget : 0..255, obTrampoline : 0..255])

\* Where the nth moved instruction ends, in the target and in rbCode.
EndOf(n) == IF n = 0 THEN [obTarget |-> 0, obTrampoline |-> 0] ELSE rAlign[n]

\* Of each moved instruction an entry tells where it ends: entries go up, and fit a byte.
\* In rbCode an instruction takes at most three times its bytes, or six times for ARM64.
AlignInv ==
  \A n \in DOMAIN rAlign :
    LET p == EndOf(n - 1)
        q == rAlign[n]
    IN  /\ p.obTarget < q.obTarget /\ p.obTrampoline < q.obTrampoline
        /\ q.obTrampoline <= (IF arm64 THEN 6 ELSE 3) * q.obTarget
        /\ p.obTarget < JumpSize[arm64]
        /\ q.obTarget <= p.obTarget + (IF arm64 THEN 4 ELSE 15)
        /\ q.obTrampoline <= p.obTrampoline + (IF arm64 THEN 24 ELSE 19)
        /\ arm64 => q.obTarget % 4 = 0
        /\ n <= q.obTarget

\* So do any two of them.
UpInv ==
  \A m, n \in DOMAIN rAlign : m < n =>
    /\ rAlign[m].obTarget < rAlign[n].obTarget
    /\ rAlign[m].obTrampoline < rAlign[n].obTrampoline

\* The loop goes on as long as there is no room for the jump, and what it has moved is
\* what the last entry says; after it there is only filler.
SizeInv ==
  LET last == EndOf(Len(rAlign)) IN
    /\ code = last.obTrampoline
    /\ last.obTarget <= cbTarget
    /\ phase = "moving" => cbTarget = last.obTarget /\ cbTarget < JumpSize[arm64]
    /\ cbTarget <= IF arm64 THEN 12 ELSE 19
    /\ arm64 => cbTarget % 4 = 0
    /\ phase = "broken" => code > CodeSize[arm64]
    /\ Len(rAlign) <= AlignSize
    /\ phase = "moving" => Len(rAlign) < AlignSize

JumpARM64 == JumpSize[TRUE]

\* Where the next instruction of ARM64 is, where its copy goes and what its literal holds.
PlacesInv ==
  arm64 =>
    /\ phase # "idle" => <<base, delta>> \in Places[TRUE]
    /\ cbTarget \in Nat /\ code \in Nat
    /\ phase = "moving" => cbTarget % 4 = 0 /\ code % 4 = 0 /\ cbTarget < JumpARM64
    /\ literal \in 0..XSize - 1

IInv == LoopInv /\ CountsOK /\ AlignInv /\ UpInv /\ SizeInv
=============================================================================
