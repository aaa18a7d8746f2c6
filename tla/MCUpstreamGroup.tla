--------------------------- MODULE MCUpstreamGroup --------------------------
(* Two upstreams and every configuration. *)
EXTENDS UpstreamGroup

CONSTANTS u1, u2

MCUpstreams == <<u1, u2>>

MCConfigs == Config
=============================================================================
