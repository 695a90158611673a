----------------------------- MODULE ClientMapMC -----------------------------
(* Three requests for the map, two worker threads. *)
EXTENDS ClientMap

CONSTANTS q1, q2, q3, w1, w2, none

=============================================================================
