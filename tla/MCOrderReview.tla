---------------------------- MODULE MCOrderReview ----------------------------
(* OrderReview with lines and terms that nothing tells apart.              *)
EXTENDS OrderReview, TLC

Alike == Permutations(Lines) \cup Permutations(Terms)
=============================================================================
