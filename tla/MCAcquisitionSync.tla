-------------------------- MODULE MCAcquisitionSync --------------------------
(* AcquisitionSync with processes that nothing tells apart. *)
EXTENDS AcquisitionSync, TLC

Alike == Permutations(Workers)
=============================================================================
