--------------------------- MODULE MCBlockingSync ---------------------------
(* Instances and calls for BlockingSync. *)
EXTENDS BlockingSync

CONSTANTS a, b, ads, kids, default, unknown

MCDenylistGroups == {ads, kids}

(* All groups, one group, and a list with an unknown group. *)
MCArgs == {{}, {ads}, {ads, unknown}}

MCDurations == {0, 1}
=============================================================================
