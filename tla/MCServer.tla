------------------------------ MODULE MCServer ------------------------------
(* Two DNS servers and the HTTP server, a query for each. *)
EXTENDS Server, TLC

CONSTANTS udp, tcp, http, q1, q2, q3

MCDnsServers == <<udp, tcp>>

MCVia == (q1 :> udp) @@ (q2 :> tcp) @@ (q3 :> http)
=============================================================================
