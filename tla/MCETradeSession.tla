--------------------------- MODULE MCETradeSession ---------------------------
(* ETradeSession with tabs that nothing tells apart.                       *)
EXTENDS ETradeSession, TLC

Alike == Permutations(Tabs)
=============================================================================
