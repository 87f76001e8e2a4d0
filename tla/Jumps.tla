------------------------------- MODULE Jumps -------------------------------
(***************************************************************************)
(* Where hooks are put, and where calls run to (Instruction.c): pointers   *)
(* are followed to the code behind them through import thunks, patches and *)
(* jumps, on code that is hooked already; jumps are written and recognised *)
(* again.  The instructions of a function, its thunks and trampolines are  *)
(* cells at addresses; a processor (Trace) says what a call does.          *)
(*                                                                         *)
(* A transaction is one attach or one detach here, and one step: see       *)
(* Transaction for longer ones.                                            *)
(***************************************************************************)
EXTENDS Integers, Sequences, FiniteSetsExt, Functions, SequencesExt

CONSTANTS
  Hooks,        \* hooks a client may attach and detach
  Layouts,      \* code that may be hooked, see MCJumps
  Trampolines,  \* for x64 and ARM64 (TRUE) code, the trampolines
  PageSize,     \* PAGE_SIZE
  JumpSize,     \* for x64 and ARM64 code, SIZE_OF_JMP
  MaxLeaks,     \* bound: trampolines that may be leaked
  MaxHops,      \* bound: jumps that follow each other
  MaxEvents,    \* bound: instructions and detours that a call runs
  None

\* Offsets in a trampoline: rbCode is first.
CONSTANTS Pool, RemainSlot, DetourSlot, CodeIn, TrampolineSize

ASSUME JumpsAssumption ==
  /\ {PageSize, MaxLeaks, MaxHops, MaxEvents, TrampolineSize} \subseteq Nat
  /\ 0 < Pool /\ Pool < RemainSlot /\ RemainSlot < DetourSlot
  /\ DetourSlot < CodeIn /\ CodeIn < TrampolineSize
  /\ JumpSize \in [BOOLEAN -> Nat \ {0}]
  /\ \A arm \in BOOLEAN : \A t \in Trampolines[arm] : t % 8 = 0

VARIABLES
  layout,   \* the code there is
  code,     \* the cell at each address where an instruction begins
  slots,    \* the pointers in memory that jumps use
  hook,     \* for each hook attached, where: see Hook
  pointer,  \* *ppPointer of each hook
  order,    \* the attached hooks, the oldest first
  leaked    \* what is kept of hooks whose trampolines were leaked

vars == <<layout, code, slots, hook, pointer, order, leaked>>

-----------------------------------------------------------------------------
\* A cell: what the instruction is, its offset or number, its register, its length.
Cell(op, n, r, len) == [op |-> op, n |-> n, r |-> r, len |-> len]

Short(rel)    == Cell("short", rel, 0, 2)  \* EB
Near(rel)     == Cell("near", rel, 0, 5)   \* E9
Mem(rel, rex) == Cell("mem", rel, 0, 6 + rex) \* FF 25, after a REX or not

B(rel)        == Cell("b", rel, 0, 4)
Adrp(r, page) == Cell("adrp", page, r, 4)
Ldr(r, n)     == Cell("ldr", n, r, 4)      \* LDR r, [r, n * 8]
LdrPc(r, rel) == Cell("ldrpc", rel, r, 4)
Br(r)         == Cell("br", 0, r, 4)

At(a) == IF a \in DOMAIN code THEN code[a] ELSE Cell("none", 0, 0, 1)
Slot(a) == IF a \in DOMAIN slots THEN slots[a] ELSE -1

IsEcCode(a) ==
  a \in layout.ec \/ \E t \in Trampolines[TRUE] : t <= a /\ a < t + TrampolineSize

PageOf(a) == a - (a % PageSize)

Without(f, from, to) == Restrict(f, {a \in DOMAIN f : a < from \/ a >= to})

\* f, and g where f has nothing.
Over(f, g) == [a \in DOMAIN f \cup DOMAIN g |-> IF a \in DOMAIN f THEN f[a] ELSE g[a]]

\* The cells of a sequence, one behind the other from a on.
Placed(cells, a) ==
  LET start[n \in 1..Len(cells)] == IF n = 1 THEN a ELSE start[n - 1] + cells[n - 1].len
  IN  [b \in {start[n] : n \in DOMAIN cells} |->
         cells[CHOOSE n \in DOMAIN cells : start[n] = b]]

-----------------------------------------------------------------------------
\* The processor: where a jump at pc leads, pc if there is none.
Hop(cells, mem, pc) ==
  LET Cur(a) == IF a \in DOMAIN cells THEN cells[a] ELSE Cell("none", 0, 0, 1)
      Load(a) == IF a \in DOMAIN mem THEN mem[a] ELSE -1
      i == Cur(pc)
  IN  CASE i.op \in {"short", "near"} -> pc + i.len + i.n
        [] i.op = "b"    -> pc + i.n
        [] i.op = "mem"  -> Load(pc + i.len + i.n)
        [] i.op = "nop"  -> pc + 4
        [] i.op = "adrp" /\ Cur(pc + 4).op = "ldr" /\ Cur(pc + 4).r = i.r /\ Cur(pc + 8) = Br(i.r) ->
             Load(PageOf(pc) + i.n * PageSize + 8 * Cur(pc + 4).n)
        [] i.op = "ldrpc" /\ Cur(pc + 4) = Br(i.r) -> Load(pc + i.n)
        [] OTHER -> pc

\* What is behind all the jumps.
Settled(cells, mem, pc) ==
  LET behind[k \in 0..MaxHops, a \in Int] ==
        LET next == Hop(cells, mem, a)
        IN  IF k = 0 \/ next = a THEN a ELSE behind[k - 1, next]
  IN  behind[MaxHops, pc]

\* What a call of an address runs: the instructions of the function, by number, and
\* detours, each of which calls its original.
Trace(cells, mem, original, address) ==
  LET runs[k \in 0..MaxEvents, a \in Int] ==
        LET pc == Settled(cells, mem, a)
            i == IF pc \in DOMAIN cells THEN cells[pc] ELSE Cell("none", 0, 0, 1)
        IN  CASE k > 0 /\ i.op = "plain"  -> <<<<"body", i.n>>>> \o runs[k - 1, pc + i.len]
              [] k > 0 /\ i.op = "detour" -> <<<<"detour", i.n>>>> \o runs[k - 1, original[i.n]]
              [] i.op = "ret"             -> <<>>
              [] OTHER                    -> <<<<"lost", pc>>>>
  IN  runs[MaxEvents, address]

-----------------------------------------------------------------------------
\* detour_gen_jmp_immediate and _indirect, detour_gen_jmp_indirect_arm64.
JmpImmediate(a, to) == Near(to - (a + 5))
JmpIndirect(a, slot) == Mem(slot - (a + 6), 0)

\* Mutant: the distance of the places, not of their pages.
JmpIndirectArm64Unrounded(a, slot) ==
  <<Adrp(17, (slot - a) \div PageSize), Ldr(17, (slot % PageSize) \div 8), Br(17)>>

JmpIndirectArm64(a, slot) ==
  <<Adrp(17, (PageOf(slot) - PageOf(a)) \div PageSize), Ldr(17, (slot % PageSize) \div 8), Br(17)>>

IsJmpImmediateTo(a, to) == At(a) = JmpImmediate(a, to)

\* Mutant: the distance is taken from where the jump begins.
IsJmpIndirectFromBegin(a, slot) == At(a) = Mem(slot - a, 0)

IsJmpIndirectTo(a, slot) == At(a) = JmpIndirect(a, slot)
IsJmpIndirectToArm64(a, slot) ==
  <<At(a), At(a + 4), At(a + 8)>> = JmpIndirectArm64(a, slot)

-----------------------------------------------------------------------------
\* detour_is_imported: code of an image, through its import address table.
IsImported(a, slot) == a \in DOMAIN layout.image /\ slot \in layout.iat

\* Over an import thunk, if there is one.
SkipImport(a) ==
  LET slot == a + At(a).len + At(a).n
  IN  IF At(a).op = "mem" /\ IsImported(a, slot) THEN Slot(slot) ELSE a

\* A jump to the jump that the system puts where it patches a function.
IsOsPatch(a) == At(a).op = "mem" /\ At(a).len = 6 /\ At(a).n = PageSize - 6

\* Over a short jump, and an import thunk or a long jump behind it.
SkipPatch(a) ==
  LET behind == a + 2 + At(a).n
      far == behind + 5 + At(behind).n
  IN  IF At(a).op # "short" THEN a
      ELSE IF At(behind).op = "near" /\ ~IsOsPatch(far) THEN far
      ELSE SkipImport(behind)

SkipJmp(a) == SkipPatch(SkipImport(a))

IsImportArm64(a) ==
  At(a).op = "adrp" /\ At(a).r = 16 /\ At(a + 4).op = "ldr" /\ At(a + 4).r = 16
    /\ At(a + 8) = Br(16)

SkipImportArm64(a) ==
  LET slot == PageOf(a) + At(a).n * PageSize + 8 * At(a + 4).n
  IN  IF IsImportArm64(a) /\ IsImported(a, slot) THEN Slot(slot) ELSE a

SkipJmpArm64(a) ==
  LET behind == a + At(a).n
  IN  IF At(a).op = "b" /\ SkipImportArm64(behind) # behind
      THEN SkipImportArm64(behind)
      ELSE SkipImportArm64(a)

\* SlimDetoursCodeFromPointer
CodeFromPointer(a) == IF IsEcCode(a) THEN SkipJmpArm64(a) ELSE SkipJmp(a)

-----------------------------------------------------------------------------
\* detour_is_code_os_patched
IsCodeOsPatched(a) ==
  /\ At(a).op = "b" /\ At(a).n >= 0
  /\ At(a + At(a).n) = LdrPc(16, PageSize)
  /\ At(a + At(a).n + 4) = Br(16)

EndsFunction(a) ==
  \/ At(a).op \in {"short", "near", "mem", "ret", "br"}
  \/ At(a).op = "b" /\ ~IsCodeOsPatched(a)

\* Where the instructions from a on are, those to be moved, and the filler behind.
Nth(a) ==
  LET nth[n \in 1..5] == IF n = 1 THEN a ELSE nth[n - 1] + At(nth[n - 1]).len
  IN  nth

Enough(a, n) == Nth(a)[n + 1] - a >= JumpSize[IsEcCode(a)]

MovedCount(a) ==
  Min({n \in 1..4 : n = 4 \/ Enough(a, n) \/ EndsFunction(Nth(a)[n])})

PatchedCount(a) ==
  Max({n \in MovedCount(a)..4 :
         \A m \in MovedCount(a) + 1..n : ~Enough(a, m - 1) /\ At(Nth(a)[m]).op = "nop"})

\* An instruction of from, for to: it leads where it led.  See Disassembler.
CopyInstruction(from, to) ==
  LET i == At(from) IN
  CASE i.op \in {"near", "mem", "b"} -> Cell(i.op, i.n + from - to, i.r, i.len)
    [] i.op = "adrp" -> Cell(i.op, i.n + (PageOf(from) - PageOf(to)) \div PageSize, i.r, i.len)
    [] OTHER -> i

-----------------------------------------------------------------------------
\* The place that an address in a trampoline stands for: the one that is hooked.
Home(a) ==
  LET records == {hook[h] : h \in ToSet(order)} \cup leaked
      around == {r \in records : r.at <= a /\ a < r.at + TrampolineSize}
  IN  IF around = {} THEN a ELSE (CHOOSE r \in around : TRUE).home

\* Mutant: a leaked trampoline is given out again.
UsedByHooks == {hook[h].at : h \in ToSet(order)}

Used == {hook[h].at : h \in ToSet(order)} \cup {r.at : r \in leaked}

\* Mutant: the filler that is overwritten is not kept.
SavedWithoutFiller(target, remain) ==
  Restrict(code, {a \in DOMAIN code : target <= a /\ a < Nth(target)[MovedCount(target) + 1]})

\* rbRestore
Saved(target, remain) ==
  Restrict(code, {a \in DOMAIN code : target <= a /\ a < remain})

\* What Attach and Commit write: rbCode, the jump to pbRemain, rbCodeIn, and the
\* jump at the target; brk up to pbRemain.
Patched(target, t, remain, arm) ==
  LET nth == Nth(target)
      moved == [n \in 1..MovedCount(target) |-> CopyInstruction(nth[n], t + nth[n] - target)]
      end == t + nth[MovedCount(target) + 1] - target
      back == IF arm THEN <<LdrPc(17, t + Pool - end), Br(17)>>
                     ELSE <<JmpIndirect(end, t + RemainSlot)>>
      jump == IF arm THEN JmpIndirectArm64(target, t + DetourSlot)
                     ELSE <<JmpImmediate(target, t + CodeIn)>>
      codeIn == IF arm THEN <<>> ELSE <<JmpIndirect(t + CodeIn, t + DetourSlot)>>
  IN  Over(Placed(jump, target),
        Over(Placed(moved \o back, t),
          Over(Placed(codeIn, t + CodeIn), Without(code, target, remain))))

Init ==
  /\ layout \in Layouts
  /\ code = layout.image
  /\ slots = layout.slots
  /\ hook = [h \in Hooks |-> None]
  /\ pointer = [h \in Hooks |-> None]
  /\ order = <<>>
  /\ leaked = {}

\* Begin, Attach and Commit.  An x64 build refuses ARM64 code, of the pointer and of
\* where it leads; any other refuses an x64 detour of it.
Hook(h, p) ==
  LET target == CodeFromPointer(p)
      detour == CodeFromPointer(layout.detour[h])
      arm == IsEcCode(target)
      remain == Nth(target)[PatchedCount(target) + 1]
  IN  /\ h \notin ToSet(order)
      /\ layout.x64 => ~IsEcCode(p) /\ ~arm
      /\ detour # target
      /\ arm => IsEcCode(detour)
      /\ remain - target >= JumpSize[arm]
      /\ Trampolines[arm] \ Used # {}
      /\ LET t == Min(Trampolines[arm] \ Used) IN
           /\ hook' = [hook EXCEPT ![h] =
                [at |-> t, target |-> target, remain |-> remain, home |-> Home(target),
                 rbRestore |-> Saved(target, remain)]]
           /\ code' = Patched(target, t, remain, arm)
           /\ slots' = Over([a \in {t + DetourSlot} |-> detour],
                 Over([a \in {IF arm THEN t + Pool ELSE t + RemainSlot} |-> remain], slots))
           /\ pointer' = [pointer EXCEPT ![h] = t]
      /\ order' = Append(order, h)
      /\ UNCHANGED <<layout, leaked>>

\* Mutant: of the two jumps, only the one at the target is looked at.
HookIsAtTarget(r) ==
  IF IsEcCode(r.at) THEN IsJmpIndirectToArm64(r.target, r.at + DetourSlot)
  ELSE IsJmpImmediateTo(r.target, r.at + CodeIn)

HookIsStillThere(r) ==
  IF IsEcCode(r.at) THEN IsJmpIndirectToArm64(r.target, r.at + DetourSlot)
  ELSE /\ IsJmpImmediateTo(r.target, r.at + CodeIn)
       /\ IsJmpIndirectTo(r.at + CodeIn, r.at + DetourSlot)

\* Mutant: the detour is compared as the caller gives it.
MayUnhookAsGiven(h) == layout.detour[h] = Slot(hook[h].at + DetourSlot)

\* Whether Detach accepts the detour: it is the one the trampoline leads to, and not
\* x64 code where ARM64 code is hooked.
MayUnhook(h) ==
  LET detour == CodeFromPointer(layout.detour[h]) IN
    /\ IsEcCode(hook[h].at) => IsEcCode(detour)
    /\ detour = Slot(hook[h].at + DetourSlot)

\* Begin, Detach and Commit: the jump is taken off and the trampoline freed, or it
\* is leaked, in bypass mode.
Unhook(h) ==
  LET r == hook[h]
  IN  /\ h \in ToSet(order)
      /\ MayUnhook(h)
      /\ \/ /\ HookIsStillThere(r)
            /\ code' = Over(r.rbRestore,
                  Without(Without(code, r.target, r.remain), r.at, r.at + TrampolineSize))
            /\ slots' = Without(slots, r.at, r.at + TrampolineSize)
            /\ UNCHANGED leaked
         \/ /\ ~HookIsStillThere(r)
            /\ Cardinality(leaked) < MaxLeaks
            /\ slots' = [slots EXCEPT ![r.at + DetourSlot] = r.at]
            /\ leaked' = leaked \cup {r}
            /\ UNCHANGED code
      /\ pointer' = [pointer EXCEPT ![h] = r.target]
      /\ hook' = [hook EXCEPT ![h] = None]
      /\ \E n \in DOMAIN order : order[n] = h /\ order' = RemoveAt(order, n)
      /\ UNCHANGED layout

Next ==
  \E h \in Hooks :
    \/ \E p \in layout.entries : Hook(h, p)
    \/ Unhook(h)

Spec == Init /\ [][Next]_vars

-----------------------------------------------------------------------------
Calls(a) == Trace(code, slots, pointer, a)

\* What a call of e is to run: what it runs without hooks, and before each place
\* where hooks are, their detours, the latest first.
Promised(e) ==
  LET detours(a) == LET here == SelectSeq(order, LAMBDA h : hook[h].home = a)
                    IN  [n \in DOMAIN here |-> <<"detour", here[Len(here) + 1 - n]>>]
      from[k \in 0..MaxHops, a \in Int] ==
        LET i == layout.image[a]
            next == Hop(layout.image, layout.slots, a)
        IN  IF k = 0 THEN <<<<"lost", a>>>>
            ELSE detours(a) \o
              CASE i.op = "plain" -> <<<<"body", i.n>>>> \o from[k - 1, a + i.len]
                [] i.op = "ret"   -> <<>>
                [] OTHER          -> from[k - 1, next]
  IN  from[MaxHops, e]

\* "The latter detour will be called before the former one" (Demo/TwiceSimpleHook.c:2),
\* and after them the function, each of its instructions once, whichever of its
\* pointers is called, which one each hook was attached by, and in which order hooks
\* have come and gone.
LatestFirst ==
  \A e \in layout.entries : Calls(e) = Promised(e)

\* A hook can be detached: its detour is found again as what it was found as.
MayAlwaysUnhook == \A h \in ToSet(order) : MayUnhook(h)

\* Nothing is leaked without need: the jumps of a hook are recognised, unless another
\* one came to the same place later, or was leaked there.
RecognisedUnlessCovered ==
  \A n \in DOMAIN order :
    LET home == hook[order[n]].home IN
      (\A m \in n + 1..Len(order) : hook[order[m]].home # home)
        /\ (\A r \in leaked : r.home # home)
      => HookIsStillThere(hook[order[n]])

\* When all hooks are gone and none was leaked, no byte is different.
AllRestored == order = <<>> /\ leaked = {} => code = layout.image /\ slots = layout.slots
=============================================================================
