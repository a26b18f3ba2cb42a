--------------------------- MODULE MCRoomPlayback ---------------------------
(* Model values and symmetry for the checks of RoomPlayback. *)
EXTENDS RoomPlayback, TLC

CONSTANTS a, b, q1, q2

MCPositions == {-1, 1}
Interchangeable == Permutations(Tracks) \cup Permutations(Reqs)
=============================================================================
