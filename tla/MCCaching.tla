----------------------------- MODULE MCCaching ------------------------------
(* Answers for Caching. *)
EXTENDS Caching

CONSTANTS q1, q2

Reply(rcode, ttls, truncated, cd) ==
  [rcode |-> rcode, ttls |-> ttls, truncated |-> truncated, cd |-> cd]

(* TTLs below, within and above the configured times, without records, and *)
(* answers with flags; a client that set the CD flag has it in its answer. *)
MCAnswers ==
  {Reply("success", <<4, 0, 3>>, FALSE, FALSE),
   Reply("success", <<>>, FALSE, FALSE),
   Reply("success", <<2>>, TRUE, FALSE),
   Reply("success", <<2>>, FALSE, FALSE),
   Reply("nxdomain", <<>>, FALSE, TRUE),
   Reply("servfail", <<>>, FALSE, FALSE)}
=============================================================================
