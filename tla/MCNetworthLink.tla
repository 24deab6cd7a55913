--------------------------- MODULE MCNetworthLink ---------------------------
(* NetworthLink in two tabs: one link of two institutions, and one without *)
(* any of its own, which can renew the consent of the others.              *)
EXTENDS NetworthLink, TLC

CONSTANTS first, second, bank, broker

OfferedInLinks == (first :> {bank, broker}) @@ (second :> {})
Tabs == Permutations(Sessions) \cup Permutations({bank, broker})
=============================================================================
