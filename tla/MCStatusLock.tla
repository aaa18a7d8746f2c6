---------------------------- MODULE MCStatusLock ----------------------------
(* Readers and controllers for StatusLock. *)
EXTENDS StatusLock, TLC

CONSTANTS q1, q2, s1, c1, c2, g1, g2

(* Two queries and a call of BlockingStatus. *)
MCClientGroups == (q1 :> {g1, g2}) @@ (q2 :> {g1}) @@ (s1 :> {})
=============================================================================
