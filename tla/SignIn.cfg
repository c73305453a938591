\* Two browsers, two flows, a local account and two of the provider.
CONSTANTS
  Browsers = {b1, b2}
  Locals = {l1}
  Persons = {p1, p2}
  Backups <- BackupTables
  MaxFlows = 2
  SessionIds = {i1, i2}
  MaxEdits = 2
  None = None
SYMMETRY Symmetry
SPECIFICATION Spec
INVARIANTS SessionsAreCurrent FlowsStayInTheirBrowser BootstrapIsRight
