---------------------------- MODULE MCETradeCache ----------------------------
(* ETradeCache with tabs and resources that nothing tells apart.           *)
EXTENDS ETradeCache, TLC

Alike == Permutations(Callers) \cup Permutations(Keys)
=============================================================================
