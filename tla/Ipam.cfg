\* Two subnets in two labs, or overlapping in one; a scope, a zone, an assignment.
CONSTANTS
  s1 = s1
  s2 = s2
  c1 = c1
  z1 = z1
  a1 = a1
  dA = dA
  None = None
  SubnetIds = {s1, s2}
  ScopeIds = {c1}
  ZoneIds = {z1}
  AssignmentIds = {a1}
  Labs = {"A", "B"}
  Cidrs <- Blocks
  Ranges <- Spans
  Gateways = {5}
  Ips = {1, 6}
  Devices = {dA}
  LabOf <- OneDevice
SPECIFICATION Spec
SYMMETRY Alike
INVARIANTS BackupIsRestorable ProposalIsAccepted
PROPERTIES OnlyTwoEditsStrand OverlapsOnlyShrink
CHECK_DEADLOCK FALSE
