--------------------------- MODULE MCInlineHooks ---------------------------
(***************************************************************************)
(* InlineHooks for two clients: c1 has two hooks, c2 one on a function     *)
(* that c1 hooks too.                                                      *)
(***************************************************************************)
EXTENDS InlineHooksInv, TLC

CONSTANTS c1, c2, h1, h2, h3, t1, t2, p1, RX

MCHooksOf == (c1 :> {h1, h3}) @@ (c2 :> {h2})
MCTargetOf == (h1 :> t1) @@ (h2 :> t1) @@ (h3 :> t2)
MCFirstPage == [t \in Targets |-> p1]
MCPagesOf == [t \in Targets |-> {p1}]
MCInitPerm == [p \in Pages |-> RX]
MCPerms == {RX, RWX}
=============================================================================
