---------------------------- MODULE MCListenRoom ----------------------------
(* Model values and symmetry for the checks of ListenRoom. *)
EXTENDS ListenRoomProps, TLC

CONSTANTS host, guest, c1, c2, q1, q2

(* The guest reconnects; the host and the guest listen. *)
GuestTwice == [c \in Conns |-> guest]
HostAndGuest == (c1 :> host @@ c2 :> guest)

Interchangeable == Permutations(Conns) \cup Permutations(Reqs)
=============================================================================
