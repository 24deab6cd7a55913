--------------------------- MODULE MCNetworthSync ---------------------------
(* NetworthSync with two institutions, which nothing tells apart.          *)
EXTENDS NetworthSync, TLC

Banks == Permutations(Items)
=============================================================================
