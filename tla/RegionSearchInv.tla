-------------------------- MODULE RegionSearchInv --------------------------
(***************************************************************************)
(* The inductive invariant of RegionSearch.                                *)
(***************************************************************************)
EXTENDS RegionSearch

TypeOK ==
  /\ used \in SUBSET Blocks
  /\ Images \subseteq used
  /\ joined \in BOOLEAN
  /\ policy \in {"allowed", "blocked", "unsupported"}
  /\ ntdll \in Bases
  /\ request \in Targets
  /\ pc \in {"try", "allocate", "done"}
  /\ window \in 1..Len(Windows)
  /\ try \in Int /\ try % RegionSize = 0
  /\ found \in Blocks \cup {Null}
  /\ changes \in 0..MaxChanges

\* A search stays on the side of the bound that it started from; what it has looked
\* at, and what it found, is within the other one and not for system DLLs.
WindowInv ==
  /\ IF W.up THEN W.lo <= try ELSE try <= W.hi - RegionSize
  /\ pc = "allocate" => try \in Blocks \ Reserved /\ Inside(W, try)
  /\ found # Null => pc = "done" /\ found = try /\ Inside(W, try) /\ try \notin Reserved \cup Images

\* No place for a region, or one that a step past system DLLs skips.
Hopeless(b) == b \in used \cup Reserved \/ \E a \in Reserved : Distance(a, b) < Stride

\* What the search that goes on has passed.
Passed ==
  {b \in Blocks : IF W.up THEN W.lo <= b /\ b < try /\ b < W.hi
                          ELSE W.lo < b /\ try < b /\ b <= W.hi - RegionSize}

\* While nobody else changes anything, the last two searches pass nothing that could
\* be had; together they look at all there is within the bounds.
PassedInv ==
  changes = 0 /\ policy = "allowed" =>
    /\ pc = "allocate" => try \notin used
    /\ window >= Len(Windows) - 1 /\ pc # "done" => \A b \in Passed : Hopeless(b)
    /\ window = Len(Windows) => \A b \in Blocks : Lo < b /\ b < Start => Hopeless(b)
    /\ pc = "done" /\ found = Null =>
         \A b \in Blocks : Lo < b /\ b < Hi => Hopeless(b)

\* Where the search is, and that it has missed nothing on its way.
IInv == TypeOK /\ WindowInv /\ PassedInv
=============================================================================
