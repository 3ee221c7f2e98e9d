--------------------------- MODULE MCGatewaySession ---------------------------
(* An instance of GatewaySession for TLC: two callers, and two streams one after the      *)
(* other or overlapping.                                                                  *)
EXTENDS GatewaySession
==============================================================================
