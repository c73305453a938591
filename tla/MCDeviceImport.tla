---------------------------- MODULE MCDeviceImport ----------------------------
(* Instances of DeviceImport for model checking.                            *)
EXTENDS DeviceImport, TLC

CONSTANTS d1, d2, d3

Device(id, name, mac, type, parent) ==
  [id |-> id, name |-> name, mac |-> mac, type |-> type, parent |-> parent]
Switch(id, host, name) == [id |-> id, host |-> host, name |-> name]

\* A node with a guest and a bridge; and two devices of one name that only
\* their MACs tell apart, one of them that node.
Cluster ==
  [devices |-> {Device("r1", "n1", "m1", "server", None),
                Device("r2", "n2", None, "vm", "n1")},
   switches |-> {Switch("r3", "n1", "br0")}]
Namesakes ==
  [devices |-> {Device("r1", "n1", "m1", "server", None),
                Device("r4", "n1", "m2", "server", None)},
   switches |-> {}]
Answers == {Cluster, Namesakes}

\* All devices, or guests of nodes that are kept by hand.
TwoToggles == {{"hosts", "guests"}, {"guests"}}

Alike == Permutations({d1, d2, d3})
=============================================================================
