--------------------------- MODULE MCDiscoveryInbox ---------------------------
(* An instance of DiscoveryInbox for model checking.                        *)
EXTENDS DiscoveryInbox, Naturals

CONSTANTS a1, d1, d2
=============================================================================
