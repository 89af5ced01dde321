------------------------- MODULE MCRoutingInfoCache -------------------------
(* Three clients of one url that come, exchange and leave.                  *)
EXTENDS RoutingInfoCache, TLC

CONSTANTS c1, c2, c3

Symmetry == Permutations(Clients)
=============================================================================
