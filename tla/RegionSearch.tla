---------------------------- MODULE RegionSearch ----------------------------
(***************************************************************************)
(* The search for a place to put a region of trampolines                   *)
(* (detour_alloc_trampoline_allocate_new, Trampoline.c), within reach of a *)
(* target and of where a jump at the target leads, or of the slot it reads *)
(* (detour_find_jmp_bounds, Instruction.c), and away from where Windows    *)
(* puts system DLLs (Memory.c), on 64-bit Windows.                         *)
(*                                                                         *)
(* An address counts half regions, so that addresses come aligned and not. *)
(* Memory is in use by blocks of one region.  Other threads allocate and   *)
(* free some while the search goes on.                                     *)
(***************************************************************************)
EXTENDS Integers, Sequences, FiniteSets

CONSTANTS
  Minimum, Maximum,  \* first and last address that user mode may have
  Gigabyte,          \* 1 GB
  Slack,             \* 512 KB
  Stride,            \* 0x08000000
  SystemLowest,      \* SYSTEM_RESERVED_REGION_LOWEST
  SystemSize,        \* SYSTEM_RESERVED_REGION_SIZE
  Bases,             \* where Ntdll may be
  Targets,           \* pairs: a target, and what a jump at the target refers to
  MaxChanges,        \* bound: what other threads allocate or free meanwhile
  Null               \* the NULL pointer, or no jump

RegionSize == 2

Distance(a, b) == IF a < b THEN b - a ELSE a - b

\* A relative jump or reference reaches 2 GB.
ASSUME SearchAssumption ==
  /\ {Minimum, Maximum, Gigabyte, Slack, Stride, SystemLowest, SystemSize} \subseteq Nat \ {0}
  /\ \A n \in {Minimum, Maximum + 1, Gigabyte, Stride, SystemLowest, SystemSize} :
       n % RegionSize = 0
  /\ Slack <= Gigabyte
  /\ Gigabyte <= SystemSize
  /\ SystemLowest + SystemSize <= Maximum + 1
  /\ Bases \subseteq {a \in Minimum..Maximum : a % RegionSize = 0}
  /\ Targets \subseteq (Minimum..Maximum) \X (Minimum..Maximum \cup {Null})
  /\ \A r \in Targets : r[2] # Null => Distance(r[1], r[2]) <= 2 * Gigabyte
  /\ MaxChanges \in Nat
  /\ Null \notin Int

VARIABLES
  used,     \* the blocks that are in use, by their addresses
  joined,   \* whether blocks in use next to one another were allocated together
  policy,   \* whether the process may allocate executable memory
  ntdll,    \* where Ntdll is
  request,  \* the target, and where it jumps to
  pc,       \* "try", "allocate" or "done"
  window,   \* how many of the searches have been given up, and the one going on
  try,      \* pbTry
  found,    \* the region, or NULL
  changes   \* what other threads have changed so far

vars == <<used, joined, policy, ntdll, request, pc, window, try, found, changes>>

Blocks == {a \in Minimum..Maximum : a % RegionSize = 0}

Target == request[1]
Jump == request[2]

\* Mutant: what Windows returns is taken to be aligned.
NotRounded(a) == a

RoundDown(a) == a - (a % RegionSize)
RoundUp(a) == RoundDown(a + RegionSize - 1)

\* detour_alloc_trampoline searches from the start of the target's region.
Start == RoundDown(Target)

-----------------------------------------------------------------------------
(* Addresses that are for system DLLs. *)

\* Mutant: the part beyond the lowest address is not carried over to the top.
ReservedWithoutCarry ==
  LET upper == IF ntdll >= SystemLowest THEN ntdll - 1 ELSE Maximum
  IN  {a \in SystemLowest..upper : a > upper - Gigabyte}

\* A gigabyte below Ntdll, what does not fit there at the top of the system's
\* region; and the topmost one if Ntdll is not there at all.
Reserved ==
  LET upper == IF ntdll >= SystemLowest THEN ntdll - 1 ELSE Maximum
      lower == upper - Gigabyte + 1
  IN  IF ntdll >= SystemLowest /\ lower < SystemLowest
      THEN SystemLowest..upper \cup lower + SystemSize..SystemLowest + SystemSize - 1
      ELSE lower..upper

-----------------------------------------------------------------------------
(* Reach. *)

\* detour_memory_2gb_below
Below(a) == IF a > Minimum + 2 * Gigabyte THEN a - (2 * Gigabyte - Slack) ELSE Minimum + Slack

\* Mutant: no room is left for a region that starts before the bound.
AboveNoSlack(a) == IF a <= Maximum - 2 * Gigabyte THEN a + 2 * Gigabyte ELSE Maximum - Slack

\* detour_memory_2gb_above
Above(a) == IF a <= Maximum - 2 * Gigabyte THEN a + (2 * Gigabyte - Slack) ELSE Maximum - Slack

Lo == IF Jump # Null /\ Jump >= Target THEN Below(Jump) ELSE Below(Target)
Hi == IF Jump # Null /\ Jump < Target THEN Above(Jump) ELSE Above(Target)

\* The searches, in order: "down" from below hi, or "up" from lo.
Up(lo, hi) == [up |-> TRUE, lo |-> lo, hi |-> hi]
Down(lo, hi) == [up |-> FALSE, lo |-> lo, hi |-> hi]

FarBelow == Down(Lo, Start - Gigabyte)
FarAbove == Up(Start + Gigabyte, Hi)
AnyBelow == Down(Lo, Start)
AnyAbove == Up(Start, Hi)

Windows ==
  (IF Start > Gigabyte THEN <<FarBelow>> ELSE << >>)
  \o <<FarAbove>>
  \o (IF Start > Gigabyte THEN <<Up(Start - Gigabyte, Start)>> ELSE << >>)
  \o <<Down(Start, Start + Gigabyte), AnyBelow, AnyAbove>>

First(w) == IF w.up THEN RoundUp(w.lo) ELSE RoundDown(w.hi - RegionSize)

Inside(w, a) == IF w.up THEN a < w.hi ELSE a > w.lo

\* The next one on after a, in the direction of w.
Ahead(w, a, distance) == IF w.up THEN a + distance ELSE a - distance

-----------------------------------------------------------------------------
(* What NtQueryVirtualMemory says of a block in use. *)

Together(a, b) == IF joined THEN \A c \in Blocks : a <= c /\ c <= b => c \in used ELSE a = b

AllocationBase(b) ==
  CHOOSE a \in used : a <= b /\ Together(a, b) /\ \A c \in used : Together(c, b) => a <= c

\* The end is within the last block, not at a multiple of RegionSize.
AllocationEnd(b) ==
  1 + (CHOOSE a \in used : a >= b /\ Together(b, a) /\ \A c \in used : Together(b, c) => c <= a)

-----------------------------------------------------------------------------

\* What stays loaded.
Images == {Start, ntdll}

Init ==
  /\ request \in Targets
  /\ ntdll \in Bases
  /\ used \in {u \in SUBSET Blocks : Images \subseteq u}
  /\ joined \in BOOLEAN
  /\ policy \in {"allowed", "blocked", "unsupported"}
  /\ pc = "try"
  /\ window = 1
  /\ try = First(Windows[1])
  /\ found = Null
  /\ changes = 0

Fixed == UNCHANGED <<joined, policy, ntdll, request>>

W == Windows[window]

\* This search returns NULL: on to the next, if there is one.
GiveUp ==
  /\ IF window < Len(Windows)
     THEN window' = window + 1 /\ try' = First(Windows[window + 1]) /\ pc' = "try"
     ELSE pc' = "done" /\ UNCHANGED <<window, try>>
  /\ UNCHANGED <<used, found, changes>>
  /\ Fixed

GoOn(a) ==
  /\ try' = a
  /\ pc' = "try"
  /\ UNCHANGED <<used, window, found, changes>>
  /\ Fixed

\* The end of the window, or of memory.
Exhausted ==
  /\ pc = "try"
  /\ ~Inside(W, try) \/ (try \notin Reserved /\ try \notin Minimum..Maximum)
  /\ GiveUp

SkipReserved ==
  /\ pc = "try"
  /\ Inside(W, try)
  /\ try \in Reserved
  /\ GoOn(Ahead(W, try, Stride))

\* Mutant: upwards as downwards, from the base of what is in the way.
SkipUsedFromBase ==
  /\ pc = "try"
  /\ Inside(W, try)
  /\ try \in used \ Reserved
  /\ GoOn(Ahead(W, AllocationBase(try), RegionSize))

\* Mutant: the search goes one region further than to the end of it.
SkipUsedTooFar ==
  /\ pc = "try"
  /\ Inside(W, try)
  /\ try \in used \ Reserved
  /\ GoOn(IF W.up THEN RoundUp(AllocationEnd(try)) + RegionSize
                  ELSE RoundDown(AllocationBase(try) - 2 * RegionSize))

SkipUsed ==
  /\ pc = "try"
  /\ Inside(W, try)
  /\ try \in used \ Reserved
  /\ GoOn(IF W.up THEN RoundUp(AllocationEnd(try))
                  ELSE RoundDown(AllocationBase(try) - RegionSize))

SeenFree ==
  /\ pc = "try"
  /\ Inside(W, try)
  /\ try \in Blocks \ (used \cup Reserved)
  /\ pc' = "allocate"
  /\ UNCHANGED <<used, window, try, found, changes>>
  /\ Fixed

\* detour_alloc_region
Allocate ==
  /\ pc = "allocate"
  /\ policy = "allowed"
  /\ try \notin used
  /\ used' = used \cup {try}
  /\ found' = try
  /\ pc' = "done"
  /\ UNCHANGED <<window, try, changes>>
  /\ Fixed

\* STATUS_DYNAMIC_CODE_BLOCKED
Blocked ==
  /\ pc = "allocate"
  /\ policy = "blocked"
  /\ GiveUp

\* Any other failure: somebody was faster, or there is no memory for ARM64EC code.
AllocateFails ==
  /\ pc = "allocate"
  /\ policy = "unsupported" \/ (policy = "allowed" /\ try \in used)
  /\ GoOn(Ahead(W, try, RegionSize))

Search ==
  \/ Exhausted \/ SkipReserved \/ SkipUsed \/ SeenFree \/ Allocate \/ Blocked \/ AllocateFails

\* Another thread allocates or frees memory.
Other ==
  /\ pc # "done"
  /\ changes < MaxChanges
  /\ \/ \E b \in Blocks \ used : used' = used \cup {b}
     \/ \E b \in used \ Images : used' = used \ {b}
  /\ changes' = changes + 1
  /\ UNCHANGED <<pc, window, try, found>>
  /\ Fixed

Done == pc = "done" /\ UNCHANGED vars

Next == Search \/ Other \/ Done

\* The search waits for nobody.
Spec == Init /\ [][Next]_vars /\ WF_vars(Search)

-----------------------------------------------------------------------------

(* Every byte of the region found can jump to the target and the target to it;
   and, unless found by a search that does not look at the bounds, it can jump to
   where the target jumps.  No part of it is where system DLLs go, and a whole
   gigabyte is kept for them wherever Ntdll is. *)
WithinReach ==
  /\ Cardinality(Reserved) = Gigabyte
  /\ found # Null =>
       \A a \in {found, found + RegionSize - 1} :
         /\ a \notin Reserved
         /\ Distance(a, Target) < 2 * Gigabyte
         /\ Jump # Null /\ W \in {FarBelow, FarAbove, AnyBelow, AnyAbove} =>
              Distance(a, Jump) < 2 * Gigabyte

(* While nobody else changes anything, the search only fails if nothing within
   the bounds is free but what comes right after or before system DLLs. *)
NothingMissed ==
  pc = "done" /\ found = Null /\ changes = 0 /\ policy = "allowed" =>
    \A b \in Blocks \ (used \cup Reserved) :
      (Lo < b /\ b < Hi) => \E a \in Reserved : Distance(a, b) < Stride

(* The search comes to an end, whatever is in its way. *)
SearchEnds == <>(pc = "done")

=============================================================================
