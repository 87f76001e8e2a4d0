------------------------- MODULE TrampolineRegions -------------------------
(***************************************************************************)
(* Where trampolines come from (Trampoline.c): regions of 64 KB that are   *)
(* allocated within reach of a target, each with a list of its free        *)
(* trampolines, and released when none of them is in use.  Regions are     *)
(* writable while a transaction is open.                                   *)
(*                                                                         *)
(* Addresses count trampolines: the region at place p starts at p * Units. *)
(* The process allocates and frees memory of its own all the time, so a    *)
(* search for a place may come back with any one of its window, or none.   *)
(***************************************************************************)
EXTENDS Integers, Sequences, SequencesExt

CONSTANTS
  Places,    \* 64 KB blocks of the address space, numbered
  Units,     \* trampolines that fit a region, with the header in the first; 64 KB
             \* hold hundreds, and four are the least of which one can be used
  Gigabyte,  \* how far from the target the first searches start
  Requests,  \* calls of detour_alloc_trampoline: target, bounds, ARM64EC
  MaxOps,    \* bound: operations of one transaction
  MaxLeaks,  \* bound: trampolines that are leaked
  Null       \* the NULL pointer

Address(p, i) == p * Units + i

Trampolines == {Address(p, i) : p \in Places, i \in 1..Units - 1}

RegionOf(s) == s \div Units

\* The target of a request is a function, in a block that is no region's, or rbCodeIn
\* of a trampoline: a function that is hooked already leads there.
ASSUME RegionAssumption ==
  /\ Places \subseteq Nat
  /\ Units \in Nat \ 0..3
  /\ Gigabyte \in Nat
  /\ {MaxOps, MaxLeaks} \subseteq Nat
  /\ Requests \subseteq [target : Nat, lo : Nat, hi : Nat, ec : BOOLEAN]
  /\ \A q \in Requests : IF q.target \in Trampolines THEN ~q.ec ELSE RegionOf(q.target) \notin Places
  /\ Null \notin Nat
  /\ Null \notin Requests

VARIABLES
  phase,     \* "idle", "open", or "closing": Commit or Abort frees
  regions,   \* s_pRegions, the list of regions
  default,   \* s_pRegion, the default region
  free,      \* pFree of each region, followed through pbRemain
  ec,        \* fEcCode of each region
  writable,  \* the regions that are PAGE_EXECUTE_READWRITE
  pbRemain,  \* of each trampoline: what is left of the target's code, or the next free
             \* trampoline; of the former only which trampoline or block it lies in
  serves,    \* the request each trampoline in use was handed out for
  added,     \* trampolines of the transaction's attaches
  removed,   \* trampolines of the transaction's detaches
  leaked,    \* trampolines that were not freed when they were detached
  doomed,    \* those the closing transaction has yet to free
  freed      \* local of Commit and Abort

vars == <<phase, regions, default, free, ec, writable, pbRemain, serves, added, removed,
          leaked, doomed, freed>>

\* Mutant: the list starts one trampoline too high.
StockTooLong(p) == [i \in 1..Units - 2 |-> Address(p, i + 2)]

\* pTrampoline[i] of the code is unit i + 1; its loop leaves out 0 and 1.
Stock(p) == [i \in 1..Units - 3 |-> Address(p, i + 2)]

Used(s) == serves[s] # Null

Listed == ToSet(regions)

\* Mutant: only the first trampoline is looked at.
FirstFree(r, rem) == rem[Head(Stock(r))] = Null \/ RegionOf(rem[Head(Stock(r))]) = r

\* With pbRemain as in rem, every trampoline of region r counts as free: its pbRemain
\* is NULL or in the region.
RegionEmpty(r, rem) ==
  \A s \in Trampolines : RegionOf(s) = r => rem[s] = Null \/ RegionOf(rem[s]) = r

Init ==
  /\ phase = "idle"
  /\ regions = << >>
  /\ default = Null
  /\ free = [p \in Places |-> << >>]
  /\ ec = [p \in Places |-> FALSE]
  /\ writable = {}
  /\ pbRemain = [s \in Trampolines |-> Null]
  /\ serves = [s \in Trampolines |-> Null]
  /\ added = {}
  /\ removed = {}
  /\ leaked = {}
  /\ doomed = {}
  /\ freed = FALSE

-----------------------------------------------------------------------------

\* Mutant: the regions of earlier transactions are not made writable.
BeginReadOnly ==
  /\ phase = "idle"
  /\ phase' = "open"
  /\ UNCHANGED <<regions, default, free, ec, writable, pbRemain, serves, added, removed,
                 leaked, doomed, freed>>

Begin ==
  /\ phase = "idle"
  /\ phase' = "open"
  /\ writable' = writable \cup Listed
  /\ UNCHANGED <<regions, default, free, ec, pbRemain, serves, added, removed, leaked,
                 doomed, freed>>

\* NtProtectVirtualMemory fails at the nth region of the list: the transaction
\* does not open, and the regions before that one stay writable.
BeginFailsAt(n) ==
  /\ phase = "idle"
  /\ writable' = writable \cup {regions[i] : i \in 1..n - 1}
  /\ UNCHANGED <<phase, regions, default, free, ec, pbRemain, serves, added, removed, leaked,
                 doomed, freed>>

\* Mutant: only the default region is made executable again.
DefaultRunnable == writable \ {default}

Runnable == writable \ Listed

\* Suspending the threads fails after all regions were made writable.
BeginFailsLate ==
  /\ phase = "idle"
  /\ writable' = Runnable
  /\ UNCHANGED <<phase, regions, default, free, ec, pbRemain, serves, added, removed, leaked,
                 doomed, freed>>

-----------------------------------------------------------------------------

InBounds(s, q) == q.lo <= s /\ s <= q.hi

\* Mutant: the kind of code is not compared.
SuitsAnyCode(r, q) == free[r] # << >> /\ InBounds(Head(free[r]), q)

Suits(r, q) == ec[r] = q.ec /\ free[r] # << >> /\ InBounds(Head(free[r]), q)

\* The region the next trampoline is taken from: the default one if it suits,
\* or else the first of the list that does.
Suitable(q) ==
  IF default # Null /\ Suits(default, q) THEN default
  ELSE IF \E r \in Listed : Suits(r, q)
       THEN LET i == CHOOSE i \in DOMAIN regions :
                       /\ Suits(regions[i], q)
                       /\ \A j \in 1..i - 1 : ~Suits(regions[j], q)
            IN  regions[i]
       ELSE Null

\* The windows detour_alloc_trampoline_allocate_new searches, around the block of the
\* target.  Those within a gigabyte of it do not look at the bounds.
Window(q) ==
  {p \in Places : LET a == Address(p, 0)
                      t == Address(RegionOf(q.target), 0)
                  IN  \/ q.lo < a /\ a < q.hi
                      \/ t > Gigabyte /\ t - Gigabyte <= a /\ a < t
                      \/ t < a /\ a < t + Gigabyte}

RoomForAnother == Cardinality(added \cup removed) < MaxOps

\* The target of q is there: a trampoline is one once the jump to it was written, and
\* clients do not hook what the same transaction detaches.  The jump at rbCodeIn of a
\* hook over another hook is not found, as only one jump is followed from a function.
Reachable(q) ==
  q.target \in Trampolines =>
    /\ Used(q.target)
    /\ q.target \notin added \cup removed
    /\ ~serves[q.target].ec
    /\ serves[q.target].target \notin Trampolines

\* What is left of the list once all regions but those of S are unlinked.
Remaining(list, S) ==
  {s \in BoundedSeq(S, Len(list)) :
     /\ IsInjective(s)
     /\ ToSet(s) = S
     /\ \A i, j \in DOMAIN s : i < j => \E k, l \in DOMAIN list :
          k < l /\ list[k] = s[i] /\ list[l] = s[j]}

\* pbRemain when p is a new region, all of it zero but for the links of its list.
Stocked(p) ==
  [s \in Trampolines |->
     IF RegionOf(s) # p THEN pbRemain[s]
     ELSE IF {s, s + 1} \subseteq ToSet(Stock(p)) THEN s + 1
     ELSE Null]

\* pbRemain when only the regions of kept are left.
Forgotten(kept) ==
  [s \in Trampolines |-> IF RegionOf(s) \in kept THEN pbRemain[s] ELSE Null]

\* A region that is given back to the system takes its contents along.
Release(r, list) ==
  /\ regions' \in Remaining(list, ToSet(list) \ {r})
  /\ default' = Null
  /\ free' = [free EXCEPT ![r] = << >>]
  /\ pbRemain' = Forgotten(ToSet(list) \ {r})

\* The head of the stock of region r goes to request q; links is pbRemain before.
\* Attach may still fail, over an instruction it cannot copy: it then puts the
\* trampoline back, and releases the region if that counts as empty.
HandOut(r, list, stock, links, q) ==
  \/ /\ serves' = [serves EXCEPT ![Head(stock)] = q]
     /\ pbRemain' = [links EXCEPT ![Head(stock)] = q.target]
     /\ added' = added \cup {Head(stock)}
     /\ free' = [free EXCEPT ![r] = Tail(stock)]
     /\ regions' = list
     /\ default' = r
  \/ /\ IF RegionEmpty(r, links)
        THEN Release(r, list)
        ELSE /\ regions' = list
             /\ default' = r
             /\ free' = [free EXCEPT ![r] = stock]
             /\ pbRemain' = links
     /\ UNCHANGED <<serves, added>>

AttachFromList(q) ==
  /\ phase = "open"
  /\ RoomForAnother
  /\ Reachable(q)
  /\ LET r == Suitable(q) IN
       /\ r # Null
       /\ HandOut(r, regions, free[r], pbRemain, q)
  /\ writable' = writable \cap ToSet(regions')
  /\ UNCHANGED <<phase, ec, removed, leaked, doomed, freed>>

\* A new region; the sanity check that fails after it was linked leaves it there.
AttachFromNew(q, p) ==
  /\ phase = "open"
  /\ RoomForAnother
  /\ Reachable(q)
  /\ Suitable(q) = Null
  /\ p \in Window(q) \ Listed
  /\ ec' = [ec EXCEPT ![p] = q.ec]
  /\ \/ /\ InBounds(Head(Stock(p)), q)
        /\ HandOut(p, <<p>> \o regions, Stock(p), Stocked(p), q)
     \/ /\ ~InBounds(Head(Stock(p)), q)
        /\ regions' = <<p>> \o regions
        /\ default' = p
        /\ free' = [free EXCEPT ![p] = Stock(p)]
        /\ pbRemain' = Stocked(p)
        /\ UNCHANGED <<serves, added>>
  /\ writable' = (writable \cup {p}) \cap ToSet(regions')
  /\ UNCHANGED <<phase, removed, leaked, doomed, freed>>

\* No memory within reach.
AttachFindsNone(q) ==
  /\ phase = "open"
  /\ Reachable(q)
  /\ Suitable(q) = Null
  /\ default' = Null
  /\ UNCHANGED <<phase, regions, free, ec, writable, pbRemain, serves, added, removed,
                 leaked, doomed, freed>>

\* Clients do not detach what the same transaction hooks.
Detach(s) ==
  /\ phase = "open"
  /\ RoomForAnother
  /\ Used(s)
  /\ s \notin added \cup removed \cup leaked
  /\ \A u \in added : serves[u].target # s
  /\ removed' = removed \cup {s}
  /\ UNCHANGED <<phase, regions, default, free, ec, writable, pbRemain, serves, added,
                 leaked, doomed, freed>>

-----------------------------------------------------------------------------

\* Mutant: what is hooked over is freed as well.
FreeableAnyway == SUBSET removed

\* The detaches that may find their jumps in place, or else leak: a trampoline that is
\* hooked over is not one of them, unless the hook over it goes as well.
Freeable ==
  {S \in SUBSET removed : \A s \in S, u \in Trampolines \ S :
                            Used(u) => serves[u].target # s}

\* Commit frees what was removed, except for what it leaks; Abort what was added.
Commit ==
  /\ phase = "open"
  /\ phase' = "closing"
  /\ doomed' \in Freeable
  /\ leaked' = leaked \cup (removed \ doomed')
  /\ Cardinality(leaked') <= MaxLeaks
  /\ UNCHANGED <<regions, default, free, ec, writable, pbRemain, serves, added, removed,
                 freed>>

Abort ==
  /\ phase = "open"
  /\ phase' = "closing"
  /\ doomed' = added
  /\ UNCHANGED <<regions, default, free, ec, writable, pbRemain, serves, added, removed,
                 leaked, freed>>

\* Mutant: the trampoline is put on the list, but not linked to the next one.
FreeUnlinked(s) ==
  /\ phase = "closing"
  /\ s \in doomed
  /\ doomed' = doomed \ {s}
  /\ serves' = [serves EXCEPT ![s] = Null]
  /\ free' = [free EXCEPT ![RegionOf(s)] = <<s>> \o @]
  /\ freed' = TRUE
  /\ UNCHANGED <<phase, regions, default, ec, writable, pbRemain, added, removed, leaked>>

FreeTrampoline(s) ==
  /\ phase = "closing"
  /\ s \in doomed
  /\ doomed' = doomed \ {s}
  /\ serves' = [serves EXCEPT ![s] = Null]
  /\ free' = [free EXCEPT ![RegionOf(s)] = <<s>> \o @]
  /\ pbRemain' = [pbRemain EXCEPT ![s] = IF free[RegionOf(s)] = << >> THEN Null
                                         ELSE Head(free[RegionOf(s)])]
  /\ freed' = TRUE
  /\ UNCHANGED <<phase, regions, default, ec, writable, added, removed, leaked>>

\* Mutant: s_pRegion is not reset.
FreeKeepingDefault ==
  /\ regions' \in Remaining(regions, {r \in Listed : ~RegionEmpty(r, pbRemain)})
  /\ default' = default
  /\ free' = [r \in Places |-> IF r \in ToSet(regions') THEN free[r] ELSE << >>]
  /\ pbRemain' = Forgotten(ToSet(regions'))

\* Mutant: only the head of the list is looked at.
FreeHeadOnly ==
  /\ regions' = IF RegionEmpty(Head(regions), pbRemain) THEN Tail(regions) ELSE regions
  /\ default' = IF regions' # regions THEN Null ELSE default
  /\ free' = [r \in Places |-> IF r \in ToSet(regions') THEN free[r] ELSE << >>]
  /\ pbRemain' = Forgotten(ToSet(regions'))

FreeUnusedRegions ==
  /\ regions' \in Remaining(regions, {r \in Listed : ~RegionEmpty(r, pbRemain)})
  /\ default' = IF regions' # regions THEN Null ELSE default
  /\ free' = [r \in Places |-> IF r \in ToSet(regions') THEN free[r] ELSE << >>]
  /\ pbRemain' = Forgotten(ToSet(regions'))

Close ==
  /\ phase = "closing"
  /\ doomed = {}
  /\ IF freed THEN FreeUnusedRegions ELSE UNCHANGED <<regions, default, free, pbRemain>>
  /\ freed' = FALSE
  /\ phase' = "idle"
  /\ writable' = Runnable
  /\ added' = {}
  /\ removed' = {}
  /\ UNCHANGED <<ec, serves, leaked, doomed>>

Next ==
  \/ Begin
  \/ \E n \in DOMAIN regions : BeginFailsAt(n)
  \/ BeginFailsLate
  \/ \E q \in Requests : \/ AttachFromList(q)
                         \/ \E p \in Places : AttachFromNew(q, p)
                         \/ AttachFindsNone(q)
  \/ \E s \in Trampolines : Detach(s) \/ FreeTrampoline(s)
  \/ Commit
  \/ Abort
  \/ Close

Spec == Init /\ [][Next]_vars

-----------------------------------------------------------------------------

TypeOK ==
  /\ phase \in {"idle", "open", "closing"}
  /\ regions \in Seq(Places)
  /\ default \in Places \cup {Null}
  /\ free \in [Places -> Seq(Trampolines)]
  /\ ec \in [Places -> BOOLEAN]
  /\ writable \subseteq Listed
  /\ pbRemain \in [Trampolines -> Nat \cup {Null}]
  /\ serves \in [Trampolines -> Requests \cup {Null}]
  /\ added \cup removed \cup leaked \cup doomed \subseteq Trampolines
  /\ freed \in BOOLEAN

\* Every trampoline of a listed region is on the free list of its region or in
\* use, never both and never twice on the list; no trampoline in use lies in a
\* region that was given back; and the default region, that the next attach reads
\* without a look at the list, is on the list however regions come and go.
FreeListsExact ==
  /\ IsInjective(regions)
  /\ \A r \in Listed :
       /\ IsInjective(free[r])
       /\ ToSet(free[r]) = {s \in ToSet(Stock(r)) : ~Used(s)}
  /\ \A s \in Trampolines : Used(s) => RegionOf(s) \in Listed
  /\ default # Null => default \in Listed

\* A trampoline in use is within the bounds it was asked for, and in a region of
\* the kind of code it was asked for.
InReach ==
  \A s \in Trampolines :
    Used(s) => InBounds(s, serves[s]) /\ ec[RegionOf(s)] = serves[s].ec

\* Whatever a transaction writes to is writable, trampolines it fills in and those
\* whose place on a free list it changes; and when it is over no region is left
\* writable, also if an earlier one failed to open and left some so.
WritableExactlyWhileOpen ==
  [][/\ phase' # "idle" => writable' = Listed'
     /\ phase = "closing" /\ phase' = "idle" => writable' = {}]_vars

\* A transaction that freed a trampoline leaves no region that is not in use,
\* also none that a failed attach left behind.
NoUnusedRegionKept ==
  [][phase = "closing" /\ phase' = "idle" /\ freed =>
       \A r \in ToSet(regions') : \E s \in Trampolines : RegionOf(s) = r /\ Used(s)]_vars
=============================================================================
