----------------------------- MODULE MCBlocking -----------------------------
(* Values for the constants of Blocking: two denylists, durations below,   *)
(* at and above zero.                                                      *)
EXTENDS Blocking

CONSTANTS ads, kids, default, unknown

MCDenylistGroups == {ads, kids}
MCDurations == {-1, 0, 1, 2}

(* None, one or several known groups. *)
MCKnownArgs == {{}, {ads}, {ads, kids}}

(* As above, and a list with a group that is not configured. *)
MCAllArgs == MCKnownArgs \cup {{ads, unknown}}
=============================================================================
