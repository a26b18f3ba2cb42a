--------------------------- MODULE MCRoomRegistry ---------------------------
(* Model values for the checks of RoomRegistry. *)
EXTENDS RoomRegistry

CONSTANTS k1, k2, r1, r2, u1, q1, q2
=============================================================================
