------------------------------ MODULE MCJumps ------------------------------
(***************************************************************************)
(* Jumps for the ways in which a function may be reached.  Page size and   *)
(* addresses are small; functions, thunks and slots lie on different pages *)
(* and on both sides of the trampolines.                                   *)
(***************************************************************************)
EXTENDS JumpsInv, TLC

CONSTANTS h1, h2, h3

\* Instructions 1 to 4 of a function, and its end; of x64, some shorter.
Function(a) ==
  Placed(<<Cell("plain", 1, 0, 3), Cell("plain", 2, 0, 4), Cell("plain", 3, 0, 5),
           Cell("ret", 0, 0, 1)>>, a)

FunctionArm64(a) ==
  Placed(<<Cell("plain", 1, 0, 4), Cell("plain", 2, 0, 4), Cell("plain", 3, 0, 4),
           Cell("plain", 4, 0, 4), Cell("ret", 0, 0, 4)>>, a)

MemTo(a, slot, rex) == Mem(slot - (a + 6 + rex), rex)
ShortTo(a, to) == Short(to - (a + 2))
NearTo(a, to) == Near(to - (a + 5))

ImportArm64(a, slot) ==
  Placed(<<Adrp(16, (PageOf(slot) - PageOf(a)) \div PageSize), Ldr(16, (slot % PageSize) \div 8),
           Br(16)>>, a)

\* Detours: h1's is given directly, h2's by an import thunk, h3's is as h1's.
DetourCells ==
  4096 :> Cell("detour", h1, 0, 1) @@ 4160 :> Cell("detour", h2, 0, 1)
    @@ 4224 :> Cell("detour", h3, 0, 1)

Layout(cells, pointers, iat, entries, arm) ==
  LET thunk == IF arm THEN ImportArm64(4032, 4608) ELSE 4032 :> MemTo(4032, 4608, 0)
  IN  [image   |-> cells @@ DetourCells @@ thunk,
       slots   |-> pointers @@ 4608 :> 4160,
       iat     |-> iat \cup {4608},
       entries |-> entries,
       detour  |-> h1 :> 4096 @@ h2 :> 4032 @@ h3 :> 4224,
       x64     |-> ~arm,
       ec      |-> IF arm THEN DOMAIN cells \cup {4032, 4096, 4160, 4224} ELSE {}]

X64(cells, pointers, iat, entries) == Layout(cells, pointers, iat, entries, FALSE)
Arm64(cells, pointers, iat, entries) == Layout(cells, pointers, iat, entries, TRUE)

NoSlots == [a \in {} |-> 0]

LayoutsX64 == {
  \* an import thunk, with a REX or not, and one outside the import address table
  X64(Function(1000) @@ 900 :> MemTo(900, 800, 0), 800 :> 1000, {800}, {900, 1000}),
  X64(Function(1000) @@ 900 :> MemTo(900, 800, 1), 800 :> 1000, {800}, {900, 1000}),
  X64(Function(1000) @@ 900 :> MemTo(900, 800, 0), 800 :> 1000, {}, {900, 1000}),
  \* a long jump
  X64(Function(1000) @@ 900 :> NearTo(900, 1000), NoSlots, {}, {900, 1000}),
  \* a short jump to the function, to a long jump, to an import thunk
  X64(Function(1000) @@ 990 :> ShortTo(990, 1000), NoSlots, {}, {990, 1000}),
  X64(Function(2000) @@ 1000 :> ShortTo(1000, 995) @@ 995 :> NearTo(995, 2000), NoSlots, {},
      {1000, 2000}),
  X64(Function(1000) @@ 990 :> ShortTo(990, 900) @@ 900 :> MemTo(900, 800, 0), 800 :> 1000,
      {800}, {990, 1000}),
  \* an import of one that the system patched
  X64(Function(2000) @@ 900 :> MemTo(900, 800, 0)
        @@ 1000 :> ShortTo(1000, 995) @@ 995 :> NearTo(995, 1536) @@ 1536 :> Mem(PageSize - 6, 0),
      800 :> 1000 @@ (1536 + PageSize) :> 2000, {800}, {900, 1000})}

LayoutsArm64 == {
  Arm64(FunctionArm64(1000) @@ ImportArm64(904, 800), 800 :> 1000, {800}, {904, 1000}),
  Arm64(FunctionArm64(1000) @@ ImportArm64(904, 800), 800 :> 1000, {}, {904, 1000}),
  \* a branch to an import, to a function, with room behind it or none
  Arm64(FunctionArm64(1000) @@ 960 :> B(904 - 960) @@ ImportArm64(904, 800), 800 :> 1000, {800},
        {960, 904, 1000}),
  Arm64(FunctionArm64(1000) @@ 960 :> B(40) @@ 964 :> Cell("nop", 0, 0, 4)
          @@ 968 :> Cell("nop", 0, 0, 4), NoSlots, {}, {960, 1000}),
  Arm64(FunctionArm64(1000) @@ 960 :> B(40) @@ 964 :> B(36), NoSlots, {}, {960, 1000}),
  \* one that the system patched
  Arm64(FunctionArm64(2000) @@ 1000 :> B(536) @@ 1004 :> Cell("plain", 2, 0, 4)
          @@ 1008 :> Cell("plain", 3, 0, 4) @@ 1012 :> Cell("ret", 0, 0, 4)
          @@ 1536 :> LdrPc(16, PageSize) @@ 1540 :> Br(16),
        (1536 + PageSize) :> 2000, {}, {1000, 2000})}

\* An x64 thunk that leads to ARM64 code, hooked by an ARM64EC build, and by an x64
\* build, next to an x64 function.
LayoutsMixed == {
  [Arm64(FunctionArm64(1000) @@ 900 :> MemTo(900, 800, 0), 800 :> 1000, {800}, {900, 1000})
     EXCEPT !.ec = @ \ {900}],
  [X64(Function(1000) @@ FunctionArm64(2000) @@ 900 :> MemTo(900, 800, 0), 800 :> 2000, {800},
       {900, 1000, 2000})
     EXCEPT !.ec = DOMAIN FunctionArm64(2000)]}

MCLayouts == LayoutsX64 \cup LayoutsArm64 \cup LayoutsMixed

MCTrampolines ==
  [arm \in BOOLEAN |-> {(IF arm THEN 3072 ELSE 5120) + 192 * n : n \in 0..3}]

MCJumpSize == [arm \in BOOLEAN |-> IF arm THEN 12 ELSE 5]
=============================================================================
