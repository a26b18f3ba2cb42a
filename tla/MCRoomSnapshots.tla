--------------------------- MODULE MCRoomSnapshots ---------------------------
(***************************************************************************)
(* Model values, symmetry and a bound for the checks of RoomPlayback and   *)
(* RoomSnapshots: a behaviour follows either the playback alone, or the    *)
(* arrays and snapshots of a room that is paused at the start of its first *)
(* track, with one command at a time.  The commands do to the arrays what  *)
(* they do whatever is played, and nothing played depends on the arrays.   *)
(***************************************************************************)
EXTENDS RoomSnapshots, TLC

CONSTANTS a, b, q1, q2, m1, m2, m3, x1

VARIABLE followed   \* whether it is the snapshots

MCPositions == {-1, 1}
Interchangeable == Permutations(Tracks) \cup Permutations(Reqs) \cup Permutations(Arrays)

Paused ==
  /\ room = [EmptyRoom EXCEPT !.queue = room.queue]
  /\ now = 0
  /\ \A q, r \in Reqs : arrived[q] # Never /\ arrived[r] # Never => q = r

MCInit == SnapInit /\ followed \in BOOLEAN

MCNext ==
  \/ ~followed /\ Next /\ UNCHANGED <<memVars, followed>>
  \/ followed /\ SnapNext /\ Paused' /\ UNCHANGED followed

MCSpec == MCInit /\ [][MCNext]_<<snapVars, followed>>
=============================================================================
