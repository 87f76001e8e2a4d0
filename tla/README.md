# A verification development for KNSoft.SlimDetours

TLA+ models of [SlimDetours](../src/README.md), an inline hooking library for
Windows on x86, x64, ARM64 and ARM64EC, with the TLC runs that check them and the
theorems that TLAPS proves about them. Paths like `Transaction.c:210` are relative
to `Source/KNSoft.SlimDetours/`.

## 1. The system

A hook replaces the first bytes of a function (the *target*) by a jump to a
*detour*. The replaced instructions are moved into a *trampoline*, through which
the detour can still call the original function. Hooks are changed in
*transactions*: begin, any number of attaches and detaches, commit or abort.

| component | state it keeps | operations | what makes it correct |
|---|---|---|---|
| Transactions (`Transaction.c`) | `s_nPendingThreadId`, the list of pending operations; and the code of targets, the trampolines, `*ppPointer`, page protections | BeginEx, Attach, Detach, Commit, Abort | no jump or pointer leads to a freed trampoline; a call of a target always reaches the original code, and the detours in the right order; aborts leave no trace; pages get their protection back; a transaction lets the next one in |
| Trampoline regions (`Trampoline.c`) | `s_pRegions`, `s_pRegion`, a free list per region, whether regions are writable | alloc, free, free unused regions, make writable, make runnable | free lists are exact, no region is given back in use, none is kept unused or left writable, what is handed out is within reach of the target |
| Thread suspension (`Thread.c:9-288`) | enumeration cursor, buffer of handles, `s_phSuspendedThreads` | suspend all others, resume | everybody stops; nothing stays suspended and no handle open; no wait for a lock that a stopped thread holds |
| Thread update (`Thread.c:290-360`, `Trampoline.c:470-498`) | the program counter of each suspended thread, `rAlign` | update | no thread executes a mixture of old and new instructions |
| Memory manager (`Memory.c`) | the private heap, the region reserved for system DLLs | init, alloc, free, uninitialize, alloc region | one heap, initialised once; no lock shared with suspended threads |
| Search for address space (`Trampoline.c:70-276`) | none | search down or up from a place | terminates, finds only places within its bounds that are not reserved |
| Jumps in code (`Instruction.c`) | none | recognise, follow and generate jumps, bounds of a jump, filler | whichever pointer to a function is used, for the first hook or a later one, the right place is hooked, and a hook is recognised again |
| Disassembler (`Disassembler.c`) | none | copy one instruction and relocate it | a moved instruction does what it did before |
| Inline hook helpers (`InlineHook.c`) | none | one transaction for one hook, or for several; find the functions to be hooked | all or nothing, also inside a caller's transaction |

**How they interact.** BeginEx takes ownership with a compare-and-exchange,
initialises memory, makes the regions writable and suspends all other threads.
Attach allocates an operation on the heap and a trampoline from a region, copies
instructions with the disassembler, and makes the target's page writable; Detach
finds the trampoline behind `*ppPointer`. Both put their operation at the *head* of the
list. Commit walks the list twice: first it writes or restores the targets, then,
after updating the suspended threads, it restores page protections and frees
trampolines; then it releases empty regions, makes the rest runnable, resumes the
threads, and lets go of the ownership. Abort walks it once.

**What is hard.** Operations of one transaction are applied latest first; several
hooks of one target form a chain of trampolines, each with a copy of what it
replaced; another library may hook over any of them at any time, so that a detach
has to leak its trampoline; page protections nest; failures happen halfway; threads
start threads while they are being suspended, hold locks when they are stopped, and
are stopped at any instruction. `PROJECT.json` lists these hazards one by one, with
the properties that watch them.

## 2. Modules

| module | models | checked by |
|---|---|---|
| `Transaction` | `Transaction.c`, with the first bytes of a target abstracted to what they do | `Transaction.cfg`, `HookedOver.cfg` |
| `HookOrder` | abstract specification: the detours of a target are called latest first, then the original code | |
| `TransactionOrder` | the refinement mapping from `Transaction` to `HookOrder` | `Transaction.cfg` |
| `TransactionInv` | the inductive invariants of `Transaction` | `Transaction.cfg` |
| `TrampolineRegions` | `Trampoline.c`, and the parts of begin, attach, commit and abort that use it | `Regions.cfg` |
| `TrampolineRegionsInv` | the inductive invariant of `TrampolineRegions` | `Regions.cfg` |
| `TrampolineRegionsProofs` | theorems about `TrampolineRegions` | `tlapm` |
| `ThreadSuspend` | `Thread.c` for NT6 and NT5, with the threads of the process around it | `Threads.cfg` |
| `ThreadSuspendInv` | the inductive invariant of `ThreadSuspend` | `Threads.cfg` |
| `ThreadSuspendProofs` | theorems about `ThreadSuspend` | `tlapm` |
| `ThreadUpdate` | `detour_thread_update`, with threads that execute the code | `Update.cfg`, `UpdateARM64.cfg` |
| `ThreadUpdateProofs` | the inductive invariants of `ThreadUpdate`, and theorems about it | `tlapm` |
| `MemoryInit` | `Memory.c`: initialization, the ARM64EC gate, uninitialization | `MemoryInit.cfg` |
| `MemoryInitInv` | the inductive invariant of `MemoryInit` | `MemoryInit.cfg` |
| `MemoryInitProofs` | theorems about `MemoryInit` | `tlapm` |
| `RegionSearch` | the search for a free place, the region reserved for system DLLs, the bounds of jumps | `Search.cfg` |
| `RegionSearchInv` | the inductive invariant of `RegionSearch` | |
| `RegionSearchProofs` | theorems about `RegionSearch` | `tlapm` |
| `InstructionSet` | reference: instructions of x64, their length and what they refer to, by the processor's rules | |
| `Disassembler` | `Disassembler.c` for x64: measuring an instruction, and moving it | `Copy.cfg` |
| `InstructionSetARM64` | reference: what an ARM64 instruction does, by the processor's rules | |
| `DisassemblerARM64` | `Disassembler.c` for ARM64: what each relative instruction becomes | `Copy.cfg`, `AddressARM64.cfg` |
| `CopyLoop` | Attach's loop over the instructions of a target, filler, `rAlign`, room in `rbCode`, for both kinds of code | `Copy.cfg`, `AddressARM64.cfg` |
| `CopyLoopInv` | the inductive invariants of `CopyLoop`, and the sizes they need | |
| `CopyLoopProofs` | theorems about `Disassembler` and `CopyLoop` | `tlapm` |
| `Jumps` | `Instruction.c`: following, writing and recognising jumps, with a processor that runs the calls; attach and detach as far as they read and write code | `Jumps.cfg` |
| `JumpsInv` | what is assumed of the code around the hooked places, and the inductive invariant of `Jumps` | `Jumps.cfg` (the assumptions) |
| `JumpsProofs` | theorems about `Jumps` | `tlapm` |
| `AtomicHooks` | abstract specification: a call of a helper sets or unsets all its hooks at one moment, or none | |
| `InlineHooks` | `InlineHook.c` over the actions of `Transaction`, and the refinement mapping to `AtomicHooks` | `Helpers.cfg` |
| `InlineHooksInv` | the inductive invariant of `InlineHooks` | |
| `InlineHooksProofs` | theorems about `Transaction`, and about `InlineHooks`, which run on it | `tlapm` |
| `MCCopyLoop`, `MCInlineHooks`, `MCJumps`, `MCTransaction`, `MCTrampolineRegions`, `MCThreadUpdate`, `MCRegionSearch` | values of constants for TLC | |

Operators whose comment begins with `Mutant:` are not used by the specifications;
each is a wrong variant of the definition that follows it, named in
`PROJECT.json`, and makes TLC report the property named there.

### Transaction

`owner` is `s_nPendingThreadId`; `ops` the list of operations, its head being the
last element; `code[t]` what the first bytes of target `t` do (the original
instructions, or a jump into a trampoline); `tramp` the trampolines, with `rest` for
`rbRestore` and `rbCode` (what the bytes did before); `ptr[h]` is `*ppPointer` of
hook `h`; `perm` the protection of pages. A transaction is not atomic: `ApplyRemove`,
`ApplyAdd` and `RestoreOne` each do one round of one of the loops in Commit and
Abort, so that the properties also hold in between. `Begin`, `Attach`, `Detach` are one action
each, since only the owner can change what they read. `Attach` contains the copy of
the target's bytes and the recorded protection, `Detach` the checks of
`Transaction.c:676`. `HookIsStillThere` is the comparison of the target's bytes with
the jump into this very trampoline. `Foreign` trampolines belong to another library
that hooks and unhooks targets the same way; it acts only between transactions, since
its threads are suspended during one.

The protection call at the end uses the trampoline's `cbRestore`, which is zero once
the trampoline has been freed; `Unprotect` models that.

*Client discipline.* With `Disciplined`, a transaction has at most one attach of
a target, or else detaches of distinct hooks of it. The code does not ask for that, and
nothing documents it; `HookedOver.cfg` shows what happens without.

`HookOrder` knows nothing of trampolines. The mapping follows a call through
`code`, the detours, their pointers and the trampolines' moved code, leaving out
leaked trampolines in bypass mode. It yields what runs (`Runs`: detours, and where the call
ends, `Original` unless it gets lost) and what of it runs before what (`Before`), which is an order as
long as no call goes round in circles.

### TrampolineRegions

Addresses count trampolines, so a region is `Units` of them, the first taken by the
header. `regions` and `default` are `s_pRegions` and `s_pRegion`, `free[r]` the list through
`pbRemain`, and `pbRemain` what that member holds: of a free trampoline the next of the list, of one in use the
place in the target's code to go on at, of which only the trampoline or the 64 KB block it lies in is kept. From it, and from nothing else,
`RegionEmpty` tells whether a region may be released, as `detour_is_region_empty` does. `serves[s]`, the request that trampoline `s` was handed out for, is history
that no action of the code's depends on: it says which trampolines are in use, and clients follow it. `HandOut` has the two outcomes of Attach: the trampoline stays, or a later
failure of Attach gives it back and releases its region if it counts as empty
(`Transaction.c:428-435`). A search for a new region may find any free place of its
window, or none: what else the process has allocated is not modelled.

The target of a request is a function in a block that is no region's, or `rbCodeIn` of a trampoline, where a pointer to a
hooked function leads by then. In the latter case `pbRemain` of the second trampoline lies in the region of the first one, perhaps in its own, and does not
tell that it is in use. What saves the region is the first trampoline, as long as that one is kept for the second: `Commit` chooses what it frees and
leaks, but never frees what something is hooked over (`Freeable`, by the check at `Transaction.c:210-229`, see `Transaction`), and clients keep to the discipline of `Transaction`
(`Reachable`, `Detach`). A hook over a hook over a hook is put at the second one's target again: one jump is followed (`Jumps`).
Left out is a function that ends with the last byte of a block, right before a region: its `pbRemain` would be the region's first byte and count as inside (`Trampoline.c:401`).

### ThreadSuspend

`list` is the process's list of threads in order of creation, through which
`NtGetNextThread` goes; ended threads may be passed over or returned. One action per
system call: the next thread, its query and suspension, the wait until it has stopped
(`NtGetContextThread`), growth of the buffer, resumption of one thread. `moving` threads are
suspended but have not stopped; they still do everything a running thread does. Other
threads start threads, end, and take and release the lock of the process heap.
`Stubborn` threads can neither be queried nor suspended.

`nt5` tells which build it is. For NT5 the threads are taken from a snapshot, which takes memory of the heap (`AllocSnapshot`). Where there is more to tell
than it has room for (`TooSmall`), it is freed (`DropSnapshot`) and allocated again with as much as the system asks for, and threads that are started in the meantime may make that too little again.
`room` counts the threads it suffices for; those of other processes, which the snapshot also lists, are not counted. It is freed at last
while the threads are suspended (`SnapshotDone`). `listedThen`, the threads there were at Begin, is a history variable.

### ThreadUpdate

Threads execute machine instructions of a target: in place, through the jump and the
detour, or in the trampoline. `done` and `part` record what a thread has really
done; they are history variables no action depends on, except for counting on.
Attach and detach of the target are atomic here, since all threads are stopped.
Offsets are counted in instructions, which keeps their order; an offset inside an
instruction of the trampoline is in no entry of `rAlign`, as in the code.

### MemoryInit

`heap` is `_detour_memory_heap`, which in an ARM64EC build also holds one of two marks;
`taken[t]` the local `Heap` of a thread, `live` the private heaps that exist, `known` what
`detour_memory_init` has found out. Interlocked operations are one action each, and so is every
part of the initialization in between. `pending` and `suspended` are what Begin, Commit and Abort do to
other threads. `SlimDetours.h:85` leaves it to callers of `SlimDetoursUninitialize`
to keep other threads out. The model asks for that up to the exchange only where there are
marks (`MayEnter`), and up to the end in other builds.

### RegionSearch

One step per round of the loops of `detour_alloc_region_from_lo` and `_from_hi`, and one for the
allocation, so that another thread can take a place between query and allocation. `Windows` are the
six searches of 64-bit Windows, from the start of the 64 KB block that the target is in. Memory is in use by blocks of one region, of which neighbours
belong together or not (`joined`); the last one of an allocation is half used, so that its end is not
aligned. `policy` is whether the process may have executable memory at all. `TrampolineRegions` uses the result: any
place of a window, or none.

### InstructionSet, Disassembler, InstructionSetARM64, DisassemblerARM64, CopyLoop

An instruction is a record of what its bytes say: prefixes, how its opcode map is chosen, opcode, operand, relative offset.
`InstructionSet` says from this how long it is, whether it is legal, and what it refers to, as the processor sees
it and without regard to the code. `Disassembler` says what the code makes of it: `Entry` and the operators after it
are `g_rceCopyMap`, `OneByte` and `TwoByte` the two opcode tables, with one opcode for each kind of
entry and each handler. The disassembler's record `d` goes through the
handlers as `pDisasm` does; `n` is how far `pbSrc` has moved, and `read` how far a byte was looked at. `NewOffset`, `Enlarged` and `Extra`
are what `AdjustTarget`, `CopyBytesJump` and `CopyBytes` write and report.

For ARM64, `InstructionSetARM64` says what instructions do (`Effect`): where control goes, which register changes, and whether it is a
call. `DisassemblerARM64` says which instructions the code writes for one; each handler is an operator. All immediates have scaled
fields (`Reach14` to `Reach26`, `PageSize`, `PieceSize`), and the limits in the code are written by the field they belong to, so that
the order of the ranges is kept. `ActsAs` compares both sides, for a condition that holds and one that does not. x17 is no operand of
the moved instructions and may change, which is what the code itself assumes (`Disassembler.c:2764`).

`CopyLoop` is the two loops of Attach and the checks after them. The target's bytes are chosen one instruction at a time
(`Fetch`); whether filler follows is chosen as well. `code` is `pbTrampoline - rbCode`, `base` where the target is, `delta` how far
`rbCode` is from it, `literal` what a literal load finds. `over` remembers that the end of the function was moved; no action depends on it.
`arm64` is chosen for each target, as an ARM64EC build has both kinds.

### Jumps

Code is a function from addresses to instructions (`Cell`), and so are `slots`, the pointers in memory that indirect jumps use.
A layout is a function with the thunks that lead to it; it says which slots are in the import address table. `Hook` is a transaction of
one attach: both pointers are followed (`CodeFromPointer`), instructions moved, the filler consumed, and trampoline and jump written. An x64 build refuses ARM64 code (`Transaction.c:392-402`), and other builds an
x64 detour of ARM64 code, at attach and again at detach (`Transaction.c:384`, `660`).
`Unhook` is one of one detach, with its check of the detour, the recognition of both jumps, and leak and bypass. `Trace` is what a
call of an address runs. `home` is the place of the function that a hook was put at, also when its pointer led into the
trampoline of an earlier hook by then; it is history. `order` holds the hooks attached, earliest first. The jump bounds that `detour_find_jmp_bounds` gives are in `RegionSearch`.

### InlineHooks

Each helper is a sequence of steps of `Transaction`: begin, one attach or detach after the other, commit or abort. `call[c]` is where client
`c` is in one. Begin may fail because threads cannot be suspended, and fails while a transaction is open, also the caller's own.
An attach or detach may fail at any time. Clients also run transactions of their own (`DirectStep`), and call helpers in them. `MayCall` is what a caller has
to keep to: set what is not set, unset what is set. `SlimDetoursInlineHook` is `SlimDetoursInlineHooks` for one hook.
`AtomicHooks` promises that all hooks of a call change at one moment. The mapping puts this moment at the call of Commit, from which on
nothing can fail: `Attached` is what is set when the commit that runs is over.

## 3. Runs

| run | states | what it shows |
|---|---|---|
| `transactions` | 84,654 | two clients, three hooks, two of them on one target, three trampolines, one foreign hook, up to three operations per transaction: the safety properties of `Transaction`; every commit and abort ends; `Transaction` implements `HookOrder`, so that a call gets through at each step of a commit; the invariant that is proved inductive holds |
| `helpers` | 251,601 | two clients, three hooks, two operations per transaction: helpers implement `AtomicHooks`, with their failures, and leave the caller's transaction alone |
| `regions` | 234,316 | two regions of two trampolines, requests with wide and narrow bounds, for both kinds of code, and for a target in a trampoline, three operations per transaction, two leaks |
| `memory` | 92,246 | three threads of an ARM64EC build, two private heaps or none: one heap, gate, and end of waiting |
| `search` | 268,696 | nine blocks in any use, three places of Ntdll, four targets of which two jump on, one change by another thread |
| `threads` | 379,645 | builds for NT6 and NT5, three threads in any order, one that cannot be suspended, two more that any may start, a buffer for one handle, and first a snapshot for three threads |
| `update` | 296 | two threads, a target of four instructions of which two are moved, the first expanding to two, and two that stay call a callee |
| `copy` | 153,964 | x64 instructions of each kind of table entry, behind up to two of eight prefixes, or up to fifteen prefixes, to start with, and one of each size and kind of target to go on with; ARM64 instructions of each relative kind, offsets at the ends of their ranges |
| `jumps` | 34,756 | three hooks that come and go on each of sixteen layouts, by any pointer, one leak |
| `hooked_over`, `update_arm64`, `address_arm64` | | disagreements, see below |

*Why the bounds are enough.* Three hooks and a foreign one allow chains of three
trampolines with a foreign one at any height, detaches in any order, and a second target on the
same page; with three operations, a page is made writable three times. More trampolines than
hooks can be attached are used up by leaks, then Attach is no longer possible, which is
the code's out-of-memory path. Two trampolines per region suffice for a region that is partly
used; a request that only fits the first unit of one place and the last of the other
makes the sanity check fail; and a hook over a hook may be in the region of the first one or in the other. In `threads`, the room for one handle makes the second suspended thread
grow the buffer; two threads that are started let one start another, and make the snapshot too small, once or twice. In `search`, a gigabyte is two regions, so that a window spans six blocks
and system DLLs two; the step past them is as long as a gigabyte (the code's is an eighth), which makes it
miss free places sooner. `memory` is a build for ARM64EC, where the gate
matters; builds without marks, in which the owner of the transaction is alone, are covered by the theorems.
For two clients, `helpers` has helpers and open transactions meet in any order; hooks belong to one client each, as a pointer may only be used by one, and two of them share a target.
In `copy`, up to fifteen prefixes reach past the longest instruction from every kind of opcode. A LONG has 24 bits there instead of 32, as TLC
computes with 32 bits itself; nothing depends on the number but that it is more than 16. `rbCode` lies a quarter of its
range below or above the target. For ARM64, it is within reach of an ADR, of a B, and only of an ADRP, on both sides; a piece of an
address has 7 bits for 16, a page 5 for 12, and fields are scaled to 7 to 10 bits, so that all the products fit. What comes second is taken from a smaller set (`Later`), for the lengths only add up; at most
five instructions are moved, so that the eight entries of `rAlign` always suffice. In `jumps`, a page has 512 bytes, and everything lies on different pages, on both sides of the trampolines; with three hooks on one function there
is one on top, in the middle and at the bottom to be taken off. Four trampolines of each kind are for three hooks and the one leak.
The theorems of section 4 have no such bounds.

*Fairness.* `Transaction!FairSpec` assumes weak fairness of `Internal` only: once Commit or Abort
is called, it is straight-line code over a finite list that waits for nobody. Nothing
is assumed of clients: a transaction that is opened may stay open. `ThreadSuspend!FairSpec`
assumes weak fairness of `Call`, the steps of library calls; whether the client is blocked on the heap
lock, or has suspended itself, is what `CallsReturn` finds out. Nothing is assumed of other threads.
`MemoryInit!Fairness` is weak fairness of each thread's steps inside a call, for `NtYieldExecution` lets
others run; it only counts while the thread can run all the time, which is why `WaitingEnds` asks that
threads are not suspended over and over. `RegionSearch!Spec` assumes that the search, which waits for nobody, goes on.
`InlineHooks!HelperSpec` assumes that of helpers, one by one, and of a commit or abort: they wait for no lock and no other thread; a
thread that was suspended by another's transaction goes on once that has ended. `AtomicHooks` turns it into the promise that a call returns.

### Disagreements

- **`hooked_over`.** `Attach(h2)`, then `Detach(h1)`, of one target in one
  transaction. Attach copies the jump to h1's trampoline. Commit applies the latest
  operation first, finds that jump still in place, removes it and marks h1's
  trampoline for release, then installs h2. h2's trampoline leads to the freed
  one. The comment at `Transaction.c:237` promises bypass and leak.
- **`update_arm64`.** A detach does not look for threads inside the three
  instructions of the jump; they go on in the middle of the restored bytes. (The jump
  to `pbRemain`, two instructions, has the same problem: a thread between them is sent to the start.) `NoThreadMixes` is for jumps of one instruction; what
  holds of ARM64 is `NoThreadIsStranded`.
- **`address_arm64`.** An ADR out of reach becomes ADRP and ADD, but the ADD is one for 32-bit registers (`Disassembler.c:2705`): the address
  loses its upper half. `ActsAlikeElse` is about everything but this and the three in the next list.

Some need no run of their own:

- Three more of ARM64: a literal load is kept if its target is within 2 MB, while the field reaches 1 MB (`Disassembler.c:2900`), and then reads
  elsewhere; a prefetch (PRFM) of a literal becomes a move of 0 into the register whose number stands for its kind; B.AL and B.NV out
  of reach are inverted into each other, which both always branch. BC.cond is copied as it is.
- Patched bytes on two pages: `NtProtectVirtualMemory` reports one old protection, which both pages are
  given (`Transaction.c:325`), or the second page is left as it is if the first had already been made writable. "Restore all of the page permissions"
  (`Transaction.c:319`) holds for targets within a page: `PermsRestored` fails with `PagesOf` of two pages, and `ProtectionsRestored` assumes `NoStraddling`.
- LOOPcc and JCXZ have no form with a long target. `AdjustTarget` stores what fits into the byte (`Disassembler.c:1046`),
  `NOENLARGE` turns the extra size into -3, and nobody asks: Attach succeeds, the copy leads anywhere, and the next
  instruction is written over it. The instructions of `MCCopyLoop` are without them; `TargetsKept` fails on E0.
- XBEGIN behind a 66 prefix has an offset of two bytes. Out of its reach it is cut off, and the two extra bytes that are reported
  (`Disassembler.c:1052`) take the next instruction further on than the copy ends, to a gap of two bytes in `rbCode`. `MCCopyLoop` is without it too.
- `detour_does_code_end_function` looks for `jmp eax` at the byte E0 (`Instruction.c:358`), which is LOOPNE; the jump is FF E0. A function
  that ends with such a jump before there are five bytes is not refused: what follows it is moved and overwritten. `EndsFunction` leaves out jumps through registers.
- A function that is reached by a short jump and hooked there: after the first hook the short jump leads to E9, and the second hook takes the
  first one's `rbCodeIn` for the function. Calls run as promised (`LatestFirst`); but after a detach of the second hook its `*ppPointer` leads into the first
  one's trampoline, and dangles once that is detached. `jumps` has clients attach by the pointers of the layout only.
- For NT5, the snapshot is freed while the threads are suspended (`Thread.c:182`): without the private heap this waits for the lock of the process heap.
- `SlimDetoursInitInlineHooks` on hooks that are set overwrites their pointers to trampolines; they can then not be detached. `InlineHooks` rules it out for callers.
- With the process heap as a fallback (`Memory.c:264`, `PrivateHeap = FALSE`), the deadlock that the private heap is there to avoid
  (README.md:16) comes back: `CallsReturn` fails.
- `detour_thread_update` changes program counters only. A call instruction that was moved (`Calls = {1}` in
  `ThreadUpdate`) returns into a trampoline that a detach has freed: `NoMixture` fails.
- `SlimDetours.inl:66` says that `rbCode` has room for the moved code and the jump to `pbRemain`. Two conditional short jumps grow to
  twelve bytes; with an instruction of more than twelve bytes behind them the jump does not fit, for `Transaction.c:546`
  bounds the bytes of the target, and counts five for a jump that takes six. "In practice 11 seems to be the limit" (`SlimDetours.inl:36`)
  of an instruction; `Room` says how far that carries. Three of the jumps, the last with thirteen prefixes, take 31 bytes, and Attach stops at its
  `__debugbreak` (`Transaction.c:539`), though "obTrampoline spans the 30-byte rbCode buffer" (`SlimDetours.inl:24`).
- An address relative to RIP that the trampoline cannot reach is cut off (`Disassembler.c:1057`); `TargetsKept` is about those in reach.
- The comment at `Trampoline.c:355` leaves one trampoline off the free
  list of a new region, the loop after it leaves two (`Stock`), so that one is never used.

## 4. Proofs

The first part of `InlineHooksProofs` is about `Transaction`, and, as all modules with proofs, checked by `tlapm` without any step left open. The only assumptions
are `TransactionAssumption` (types of constants, distinct sentinels), and, where stated,
`Disciplined` and `NoStraddling` (no target crosses a page boundary).

- `TypeCorrect`: `Spec => []TypeOK`, without the discipline (`TypeOK` is part of `IInv`, which a run checks). Alone it is not
  inductive, as the restoring loops look at trampolines of operations; `TypeInv` adds
  that zeroed and used trampolines can be told apart (`FieldInv`), when nothing is pending (`PhaseInv`),
  and that operations refer to used trampolines until they are undone (`LiveInv`).
- `InductiveInvariant`: `Spec => []IInv`. The trampolines in use, apart from those an attach has
  prepared and those a detach took off, form the *chains* (`Chained`). `ChainInv` says that
  a target's jump leads into its own chain, that moved code leads further down it, that
  nobody is led to twice, and that only the top is led to by the target's jump. `OperationInv` says what a pending operation knows
  of its trampoline, `PointerInv` ties pointers to chained trampolines and back, and
  `RemovedInv` says that a trampoline taken off leads into the chain or to one that is
  freed after it: without it, the order of the two loops of Commit, which is what makes several detaches of one target safe,
  would be lost. The hard case is `ApplyRemove`: popping the top of a chain (`PopChain`), and leaking from its middle (`LeakStep`).
- From `IInv`: `NothingDangles`, `DetourReachable`, `NothingStranded`, `LeaksAreJustified`.
- `OrderIsKept`: `Spec => ImplementsHookOrder`. Chains have any length, and `tlapm` cannot use induction over them; so the trampolines a
  call meets are the least set that following does not leave (`Met`), of which it suffices to know a few facts: that only the trampolines in it matter (`MetSame`), and
  that it is the top and what is met from there on (`MetTop`). An applied attach then puts a detour in front (`FrontStep`), a detach
  that finds its jump takes it off the top (`TopStep`), and one that leaks takes it out from where it stands (`BypassStep`, `TakeOutHidden`); all other steps leave
  what is met alone (`OrderFacts` with `ChainInv` keep each target's calls on its own chain). `ForeignInv`, part of `IInv`, keeps detours apart.
- `ProtectionsRestored`: with `NoStraddling`, `PermInv` is inductive as well: the oldest
  operation on a page recorded its own protection and all later ones found it writable, so undoing
  them latest first ends with the right one.

`MemoryInitProofs` does the same for `MemoryInit`, from `MemoryAssumption` (distinct sentinels) alone, for any
number of threads and both kinds of build. `IInv` says that the gate has one holder at most (`GateInv`), how holders and
owners of the transaction keep each other out where there are no marks (`PlainInv`, `OwnerInv`), what is known and which
private heap exists at each point of a holder's way (`KnownInv`, `HeapInv`), and that there is no holder while somebody is past
initialization or suspends the others (`ReadyInv`). `InitIsDone`, `HeapIsNotLost` and
`NobodyIsSuspendedInside` follow.

Its second part, about the helpers, needs, besides `TransactionAssumption`, only that `Null` is no call (`InlineHooksAssumption`), and no discipline. `HelperInv` says what the
place a helper is in tells of the transaction: in its loop, that exactly the first elements of its list are queued
(`LoopInv`); elsewhere, that a transaction of its client's is not its own unless an abort is due or a commit runs, and that what a commit has
left to do is of one kind (`RestInv`); and what a search has found (`FoundInv`). From it, `HelpersRunTransactions`: `HelperSpec => Spec`, which makes the theorems
about `Transaction` hold of helpers as well; `HelpersAreAtomic`: every step maps to a step of `AtomicHooks` or a stutter, where `AtomicCommit` is the one that
takes effect, and the rounds of the commit only move hooks from what is left to what is done (`ApplyKeepsAttached`); `OuterTransactionIsKept` and `ToldOnlyWhatIsFound`.

`ThreadSuspendProofs` assumes `ThreadAssumption`: that there are finitely many threads, and sentinels are distinct; who is stubborn, the order in which threads are listed, and
the room of the buffer are arbitrary, and other threads start, end, and take the lock at any step. `CountInv` ties suspensions, handles and threads that have not come to a stop to the
buffer and the thread at hand; `CursorInv` says what an enumeration keeps and that nothing of it outlives it. `Nt6Inv` is the heart: `Passed`, what the list
holds up to `prev`, has ended, cannot or need not be suspended, or is in the buffer; at the end of the list, `Passed` is everybody. A thread that is started
comes after all that were passed, so it is found as long as the enumeration runs; once it is over, only a running thread that was started too late, or a stubborn one, can start it.
`Nt5Inv` says the same of the snapshot, for the threads of `listedThen`. They give `NobodyElseRuns` and `NothingIsLeftOver`.

`TrampolineRegionsProofs` assumes `RegionAssumption` (regions of at least four units, as `Stock` leaves out two of those behind the header; requests for functions outside of regions, or for x64 code in trampolines; distinct sentinels). How many regions there can be
and where, which requests come, and which attaches and begins fail, is arbitrary. `FreeListsExact` alone is not inductive: that a trampoline that is freed is
not on the list already follows from `UseInv`, which says that what is about to be freed is in use, once, and
came from its region's stock. `LeadsRight` ties `pbRemain` to use: a region counts as empty only if its trampolines in use are all hooks over others of it, and
`HookedOverInv` says that the others then are in use as well, for functions, so that there are none (`EmptyUnused`). It holds while a commit frees one trampoline after the other, as none of the doomed is under one that stays. `PhaseInv` says what is left to do in each phase, and that a begin that fails halfway makes no region writable that a
later one forgets. `FreeListsAreExact`, `HandedOutWithinReach`, `RegionsWritableWhileOpen` and `UnusedRegionsAreReleased` follow.

`RegionSearchProofs` assumes `SearchAssumption`: sizes and bounds are multiples of a region, a gigabyte is no more than what is kept for system DLLs,
and a target's jump reaches two gigabytes. The address space is of any size and any part of it in use. `WindowInv` keeps a search within its window;
from it, and from the arithmetic of the bounds, `FoundWithinReach`. `PassedInv` says what the last two searches have seen: they
look at everything between the bounds on one side of the target each, and between two steps (`Stride`, past system DLLs; else to the next block, or to the end of an
allocation) lies nothing that is free. It holds while nobody else changes memory, which gives `FailsOnlyIfHopeless`.

`ThreadUpdateProofs` assumes `SingleSteps` where a theorem says so: jumps are one instruction, no moved instruction but the first expands to several, and none of the moved ones is a call. That is what
`detour_thread_update` relies on: for threads elsewhere it has no place to send them to. The number of threads and instructions is arbitrary. `ThreadsGoOnRight` is the inductive
invariant: where a thread is tells what it has done (`InTarget`, `InCode`), while the hook is set no thread is where the jump lies but at its
start, and none is in a trampoline out of use. `NoThreadMixes` follows. Without `SingleSteps`, but for calls, which `update_arm64` shows to be needed,
`NoThreadIsStranded` still says that no thread is left in a freed trampoline.

`CopyLoopProofs` is about each instruction by itself, and about the loop.

- `EveryLengthIsRight`, `NothingReadPastTheLongest` and `MovingStopsAtTheEnd` have no hypotheses but the assumptions of the modules: any longest instruction,
  any sets of instructions. Prefixes may be any number and in any order; what the disassembler knows after them (`PrefixesTold`) is proved by the least number of
  prefixes after which it would not hold, as `tlapm` cannot use induction theorems. `AtOpcodeTold` adds the escapes, and then each entry of the
  tables is a case (`OneByteMeasured` to `VexMeasured`): the length by the processor's rules is what `Size` makes of the entry and the prefixes.
- `EntriesLeadBothWays` and `CodeHasRoom` assume `Sizes`, the numbers in `SlimDetours.inl` and `Transaction.c`, and `NoLoops`, as LOOPcc and JCXZ
  shrink (see above); `MCCopyLoop` lets TLC find both true of the instances. `AlignInv` says how each entry of `rAlign` follows the one before: up on both sides, at most
  three times as long in `rbCode` (six for ARM64), and only from where there was no room yet, so that offsets fit a byte. It needs that a copy of x64 has at
  most four bytes more than the instruction, and none more for an instruction of one byte (`ExtraFacts`), and that a copy of ARM64 is at most six instructions (`CopyShort`).
  `UpInv`, that any two entries go up, makes each the only one with its place, unused entries being zero (`OnlyEntry`).
- `CopiesLeadOn` assumes `NoLoops` and `NoShortXBegins`, and nothing of the sizes: any field widths, any places, any prefixes. The entries of the tables with an offset are few
  (`RelativeEntries`, `JumpEntries`); what a copy is made of and how long it is (`BecomesLength`) then shows that it leads where the instruction did (`LeadsOn`).

- `CopiesActAlike`, for ARM64, assumes `ProperCode`: offsets of branches and literals in words, no branch to the next instruction, and branches, literals and ADR that lead to
  addresses of a register's range; and `AlignedPlaces`. Any widths of fields, pages and pieces that keep the order of `InstructionSetARM64Assumption`, any places and any literals. The proof
  runs through what copies do: `MovRun`, that the moves of `EmitMovImmediate`, a piece at a time from the highest, leave the number in the register
  (`PiecesOfNumber` and `Movk` are about its pieces, `DescendingAll` about their order), the skips and jumps behind them (`AroundFarActs`, `JumpFarActs`, `LoadFarActs`), offsets that fit
  their field (`SignedKept`, `WordsKept`), the pages of ADRP (`PageToPage`); one lemma for each kind of instruction (`BccActs` to `AdrpActs`), and `CopyActs` for all.
  `PlacesInv` says where the instruction at hand and its copy are. What `Misencoded` rules out is what these lemmas need and the code does not give.

`JumpsProofs` is about code of any layout, any hooks, and hooks that come and go in any order, by any of the pointers, with any number of leaks. It assumes
`JumpsNumbers` (the sizes of jumps, the order of the members of a trampoline, trampolines that do not overlap) and `JumpsLayouts`: instructions have sizes and
trampolines lie apart from the code (`ProperCode`), the bytes that hooks may take at one place are apart from those of another and from trampolines (`ProperPlaces`), and what is read while a
pointer is followed is not among them, apart from the place it leads to and a branch's target that is not followed (`ProperEntries`, `ProperDetours`). TLC evaluates both for the
sixteen layouts of `MCJumps`. Code outside of them, say a thunk that lies in the first bytes of a function that is hooked too, is not promised anything by Detours.

- `JumpsIInvHolds`: `Spec => []JumpsIInv`. The invariant speaks of `Records`, of hooks attached and of hooks leaked, as the latter still hold what they saved. A
  hook is at a place of its own, or at `rbCodeIn` of an older one's trampoline, where a pointer leads once that one's jump is there (`SiteInv`). The order in which hooks were put in is some rank of
  their trampolines (`RankInv`), which no variable keeps for leaked ones: there only has to be one. The latest hook at a site has its jump there (`TopInv`); a later one took
  no more than the jump of the one below it, and saved it (`NextInv`); the earliest saved what was there (`BottomInv`). Where no hook is, the code is as without (`PlainInv`),
  and each trampoline holds the detour found without any hooks, ARM64 code if ARM64 code is hooked (`DetourInv`).
- The two steps: `PutRankInv` for a hook that is put on top, whose pointer, followed through the code as hooked, leads to a site (`HookedSite`); `OffRanks` for one taken off, which has to be the
  latest of its site, for it was recognised (`StillThere`: jumps of two trampolines differ, `JumpDistinct`, also in pages and offsets as ARM64 has them, `PageDistance`), so what it restores is the jump of the one below it or
  the original (`UnhookWrites`). A leaked one changes nothing but its list. `SameFollowed` says why pointers lead where they led: nothing that is read has changed.
- From it: `MayAlwaysUnhookHolds` and `RecognisedUnlessCoveredHolds`. `AllRestoredHolds` compares code cell by cell: without records every address is as without hooks, and
  trampolines not in use hold nothing.

The invariant speaks of all addresses, so no run checks it as it stands.

The proofs asked for more care than the runs in three places: arms of a CASE that overlapped (`OpcodeBytes`), which TLC
takes in order and TLA+ does not; opcodes without an entry of their own, now left out by `OneByteOpcodes` and `TwoByteOpcodes`; and `Room`, which a copy of 31 bytes refutes.

Only model-checked: liveness (`TransactionEnds`, `CallsReturn`, `WaitingEnds`, `SearchEnds`, and that the calls of helpers return), which is out of the
prover's reach; and `LatestFirst` of `Jumps`. What a call runs is followed through `MaxHops` jumps and calls of a recursive function, and there are as many as there are hooks: this asks for an induction over them, which `tlapm` cannot do.
What it says of the list of hooks is proved for `Transaction`, where the code is abstracted to what it does (`OrderIsKept`); what is left to TLC is that the instructions do that.

## 5. What is not modelled

- The disassembler for 32-bit x86; opcodes one by one (a wrong entry for one opcode among many of its kind);
  the targets it reports (`*ppTarget`), and copying without a destination; the reading of a near jump with operand prefix by AMD's processors, which is shorter than Intel's.
- Code that branches back into the bytes that are overwritten, and code that uses x17 or x16 across its first instructions.
- 32-bit forms of jumps (absolute addresses in FF 25); how the import address table of an image is found (`IsImported` is told by the layout).
- The search for address space on 32-bit Windows and NT5, how the version of the system and the registry are read,
  and addresses that wrap around. Uninitialization while others use the library, which the header rules out.
- Two attaches, or two detaches of one hook, of the same target within a transaction, beyond the run `hooked_over`.
- A foreign library that writes during a transaction, and threads that run through a
  target while it is rewritten (`fSuspendThreads` FALSE).
- `SlimDetours.NDK.inl`, the demos, build files.

## 6. Plan

Done, in this order: `Transaction` with its refinement, invariants and proofs;
`TrampolineRegions`; `ThreadSuspend`; `ThreadUpdate`; `MemoryInit` with its proofs; `RegionSearch`;
`Disassembler` and `CopyLoop` for x64, then for ARM64; `ThreadSuspend` for NT5, with its proofs; `Jumps`; `InlineHooks` with its refinement and proofs;
the proofs of `TrampolineRegions`, `RegionSearch`, `ThreadUpdate`, `CopyLoop` and `Jumps`.

Next:

1. `ThreadUpdate` with several targets in one transaction.
2. Undisciplined transactions: two attaches of a target, two detaches of a hook.
