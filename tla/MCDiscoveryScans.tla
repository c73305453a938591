--------------------------- MODULE MCDiscoveryScans ---------------------------
(* Instances of DiscoveryScans for model checking.                          *)
EXTENDS DiscoveryScans, TLC

CONSTANTS a1, a2, a3, b1, b2, s1, s2, s3

TwoLabs == [n \in Networks |-> IF n \in {b1, b2} THEN "b" ELSE "a"]

Alike == Permutations({a1, a2, a3}) \cup Permutations({b1, b2}) \cup Permutations({s1, s2})
=============================================================================
