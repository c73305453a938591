\* An administrator and an editor, two pulls, a secret entered twice.
CONSTANTS
  k1 = k1
  k2 = k2
  Unborn = Unborn
  Gone = Gone
  Connections = {"c1"}
  Users = {"admin", "other", "editor"}
  Admins = {"admin", "other"}
  Configs = {k1, k2}
  MaxPulls = 2
  MaxSecrets = 2
SPECIFICATION Spec
SYMMETRY Alike
INVARIANTS UndisturbedReviewsStand
PROPERTIES ImplementsReview
