-------------------------------- MODULE MCIpam --------------------------------
(* Instances of Ipam for model checking.                                    *)
EXTENDS Ipam, TLC

CONSTANTS s1, s2, c1, z1, a1, dA

\* Two /30s, and a /31 in one of them.
Blocks == {0 .. 3, 4 .. 7, 4 .. 5}
Spans == {{5}, 5 .. 6}
OneDevice == dA :> "A"

Alike == Permutations({s1, s2})
=============================================================================
