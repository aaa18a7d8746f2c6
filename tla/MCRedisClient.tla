---------------------------- MODULE MCRedisClient ---------------------------
(* Two queries, one of which has two groups to test, a call of the API and *)
(* the subscriber; each channel has room for one message.                  *)
EXTENDS RedisClient, TLC

CONSTANTS q1, q2, api, sub, g1, g2

MCReaders == {q1, q2}
MCClientGroups == q1 :> {g1, g2} @@ q2 :> {}
=============================================================================
