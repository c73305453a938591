\* Three rows for a node, its guest and a namesake.
CONSTANTS
  d1 = d1
  d2 = d2
  d3 = d3
  None = None
  Ids = {d1, d2, d3}
  Inventories <- Answers
  HandNames = {"n1", "n2"}
  HandMacs = {}
  HandTypes = {"server", "vm"}
  Toggles <- TwoToggles
SPECIFICATION ImportSpec
SYMMETRY Alike
INVARIANTS LinksAreLive
PROPERTIES NothingIsImportedTwice ImportIsIdempotent
CHECK_DEADLOCK FALSE
