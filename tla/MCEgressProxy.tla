--------------------------- MODULE MCEgressProxy ----------------------------
(* An instance of EgressProxy for TLC: see EgressConnections.cfg. *)
EXTENDS EgressProxy
=============================================================================
