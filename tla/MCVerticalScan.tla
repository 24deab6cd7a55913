----------------------------- MODULE MCVerticalScan -----------------------------
(* VerticalScan with expirations of one year, the first of them the best. *)
EXTENDS VerticalScan

MCYear == [e \in 1 .. Last |-> 1]
MCRank == [e \in 1 .. Last |-> IF e = 1 THEN 1 ELSE Last + 2 - e]
=============================================================================
