\* Collections of two devices, merged, mirrored or reviewed, and edits in between.
CONSTANTS
  v1 = v1
  v2 = v2
  s1 = s1
  s2 = s2
  A = A
  B = B
  NoVlan = NoVlan
  VlanIds = {v1, v2}
  SubnetIds = {s1, s2}
  Numbers = {10, 20}
  Names = {A, B}
  Cidrs <- SmallCidrs
  Ranges <- SmallRanges
  Collections <- TwoDevices
  MaxEdits = 1
  MaxPreviews = 1
SYMMETRY Ids
SPECIFICATION NetworkSpec
INVARIANTS TablesConsistent
PROPERTIES OnlyConfirmedMirrorsTake SyncDelivers
