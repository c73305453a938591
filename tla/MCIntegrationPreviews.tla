------------------------- MODULE MCIntegrationPreviews -------------------------
(* Instances of IntegrationPreviews for model checking.                     *)
EXTENDS IntegrationPreviews, TLC

CONSTANTS k1, k2

Alike == Permutations({k1, k2})
=============================================================================
