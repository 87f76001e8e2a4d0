--------------------------- MODULE MCTransaction ---------------------------
(***************************************************************************)
(* Transaction on a small instance: three hooks, two of them on the same   *)
(* target, and a foreign hook.  Both targets are on the page p1.           *)
(***************************************************************************)
EXTENDS TransactionOrder, TransactionInv, TLC

CONSTANTS h1, h2, h3, t1, t2, p1, RX

MCTargetOf == (h1 :> t1) @@ (h2 :> t1) @@ (h3 :> t2)
MCFirstPage == [t \in Targets |-> p1]
MCOnePage == [t \in Targets |-> {p1}]
MCInitPerm == [p \in Pages |-> RX]
MCPerms == {RX, RWX}
=============================================================================
