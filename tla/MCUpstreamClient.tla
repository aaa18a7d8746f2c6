-------------------------- MODULE MCUpstreamClient --------------------------
(* Constants for UpstreamClient. *)
EXTENDS UpstreamClient

CONSTANTS ip1, ip2
=============================================================================
