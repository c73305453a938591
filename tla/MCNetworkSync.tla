---------------------------- MODULE MCNetworkSync ----------------------------
(* Small instances of NetworkSync for TLC. *)
EXTENDS NetworkSync, TLC

CONSTANTS v1, v2, s1, s2, A, B

\* A network, one of its halves, and a network apart.
SmallCidrs == {{1, 2}, {1}, {3}}
SmallRanges == {{1}, {1, 2}}

\* One device reports a VLAN and a tagged network with a DHCP range; another
\* reports only a network tagged with a VLAN it does not list.
Tagged ==
  [vlans |-> 10 :> A, subnets |-> {1, 2} :> [name |-> A, number |-> 10],
   scopes |-> {[cidr |-> {1, 2}, range |-> {1}]}]

Untagged ==
  [vlans |-> <<>>, subnets |-> {3} :> [name |-> A, number |-> 20], scopes |-> {}]

TwoDevices == {Tagged, Untagged}

Ids == Permutations(VlanIds) \cup Permutations(SubnetIds)
=============================================================================
