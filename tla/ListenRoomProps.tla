--------------------------- MODULE ListenRoomProps ---------------------------
(***************************************************************************)
(* What ListenRoom is expected to guarantee.                               *)
(***************************************************************************)
EXTENDS ListenRoom

(* The shape of the state. *)
TypeOK ==
  /\ room \in Room
  /\ conn \in [Conns -> [pc     : {"idle", "auth", "greet", "loop", "remove"},
                         alive  : BOOLEAN,
                         seen   : Nat,
                         over   : BOOLEAN,
                         roster : SUBSET Users]]
  /\ req \in [Reqs -> [pc     : {"idle", "join", "leave"} \cup CommandPcs,
                       user   : Users \cup {None},
                       cmd    : Cmds,
                       target : Users \cup {None}]]

Attached(c) == \E u \in Users : room.members[u] = c
Reading(c) == conn[c].pc = "loop" /\ Attached(c)

(***************************************************************************)
(* A send on a closed channel and a second close panic, and kickMember and *)
(* handleRoomCommand would keep Room.mu for ever.  Go is kept from it by a *)
(* discipline no single method shows: a channel is open exactly as long as *)
(* its member is in the map, it serves one user, and a handler that has    *)
(* not added itself or has returned owns none.                             *)
(***************************************************************************)
ChannelDiscipline ==
  /\ \A u \in Present(room) :
       LET x == room.members[u]
       IN /\ room.chan[x].open
          /\ \/ x = u
             \/ x \in Conns /\ UserOf[x] = u
                /\ conn[x].pc \in {"greet", "loop", "remove"}
  /\ \A x \in Recs : room.chan[x].open => \E u \in Users : room.members[u] = x

LastIs(q, i, ev) == q[i].ev = ev /\ \A j \in i+1 .. Len(q) : q[j].ev # ev
HasNo(q, ev) == \A i \in 1 .. Len(q) : q[i].ev # ev

(***************************************************************************)
(* No update is lost, a closing included: the last state a member's stream *)
(* holds, or if it holds none the last one its client was sent, is the     *)
(* state the room is in.                                                   *)
(***************************************************************************)
FeedIsCurrent ==
  \A c \in Conns : Reading(c) =>
    LET q == room.chan[c].q
    IN /\ HasNo(q, "state") => conn[c].seen = room.version
                               /\ conn[c].over = room.closed
       /\ \A i \in 1 .. Len(q) :
            LastIs(q, i, "state") => q[i].ver = room.version
                                     /\ q[i].closed = room.closed

(* Nobody in the room is missing from the roster a client will end up with. *)
RosterCoversMembers ==
  \A c \in Conns : Reading(c) =>
    LET q == room.chan[c].q
    IN /\ HasNo(q, "members") => Present(room) \subseteq conn[c].roster
       /\ \A i \in 1 .. Len(q) :
            LastIs(q, i, "members") => Present(room) \subseteq q[i].mem

(* Nothing follows a kicked frame: the kicked member's stream ends with it. *)
KickedIsLast ==
  \A c \in Conns : LET q == room.chan[c].q
                   IN \A i \in 1 .. Len(q) :
                        q[i].ev = "kicked" => i = Len(q) /\ ~room.chan[c].open

(* While a client is a member, its stream never jumps over a version. *)
StreamSkipsNoVersion ==
  [][\A c \in Conns : Reading(c) => conn'[c].seen <= conn[c].seen + 1]_vars

(***************************************************************************)
(* The room implements the promise of RoomFeed to every connection: what a *)
(* listener is owed are the versions of the state frames in its channel.   *)
(***************************************************************************)
Owed(c) ==
  LET q == room.chan[c].q
  IN {q[i].ver : i \in {i \in 1 .. Len(q) : q[i].ev = "state"}}

Feeds ==
  [c \in Conns |->
     IF conn[c].pc \in {"greet", "loop"}
       THEN [st      |-> IF Attached(c) THEN "in" ELSE "cut",
             alive   |-> conn[c].alive,
             greeted |-> conn[c].pc = "loop",
             owed    |-> Owed(c),
             seen    |-> conn[c].seen]
       ELSE [st |-> "off", alive |-> FALSE, greeted |-> FALSE, owed |-> {}, seen |-> 0]]

Promise == INSTANCE RoomFeed WITH
  Listeners <- Conns, version <- room.version, feed <- Feeds

FeedRefined == Promise!Spec

(***************************************************************************)
(* A connected listener loses its place only because its buffer was full,  *)
(* because the host kicked it, or because of its own user: a newer         *)
(* connection, a join, a leave, a command that found the user missing, or  *)
(* an older connection of the user that is being torn down.                *)
(***************************************************************************)
Listening(c) ==
  Attached(c) /\ conn[c].alive /\ conn[c].pc \in {"greet", "loop"}

(* A playback command, kick or close sends two frames, anything else one. *)
Overflows(c) ==
  Len(room.chan[c].q) + (IF room'.version > room.version THEN 2 ELSE 1) > Cap

CutForCause(c) ==
  LET u == UserOf[c]
  IN \/ Overflows(c)
     \/ \E q \in Reqs :
          /\ req'[q] # req[q]
          /\ \/ req[q].user = u /\ req[q].pc \in {"join", "leave", "readd"}
             \/ req[q].user = Host /\ req[q].target = u /\ req[q].pc = "kick"
     \/ \E d \in Conns \ {c} :
          /\ conn'[d] # conn[d]
          /\ UserOf[d] = u /\ conn[d].pc \in {"auth", "remove"}

CutOnlyForCause ==
  [][\A c \in Conns : Listening(c) /\ ~Attached(c)' => CutForCause(c)]_vars

(* A stream whose member is no longer in the room ends. *)
RemovedStreamEnds ==
  \A c \in Conns :
    (conn[c].pc = "loop" /\ ~Attached(c)) ~> conn[c].pc = "idle"

(* A member's stream catches up with the room, or ends being a member's. *)
StreamCatchesUp ==
  \A c \in Conns : Reading(c) ~> (~Attached(c) \/ conn[c].seen = room.version)

(* The handler of a client that went away returns, whatever arrives. *)
DeadClientReleased ==
  \A c \in Conns :
    (conn[c].pc \in {"greet", "loop"} /\ ~conn[c].alive) ~> conn[c].pc = "idle"

(***************************************************************************)
(* What the repository says and the code does not do.                      *)
(***************************************************************************)

(* listen_room.go:214, "the same id reconnects: close the old channel so   *)
(* that the old SSE exits, then replace": the old one exiting does not     *)
(* touch the new one.                                                      *)
ReconnectSurvives ==
  [][\A c, d \in Conns :
       /\ Listening(c) /\ c # d
       /\ conn[d].pc = "remove" /\ conn'[d].pc = "idle"
       => Attached(c)' \/ Overflows(c)]_vars

(* MOBILE-API.md:278, a members frame is sent when members come and go: a  *)
(* client that has been sent everything knows who is in the room.          *)
RosterIsExact ==
  \A c \in Conns :
    Reading(c) /\ room.chan[c].q = <<>> => conn[c].roster = Present(room)

(* MOBILE-API.md:279 and listen_room.go:643: after the room was closed, *)
(* the server closes the connections.                                   *)
ClosedStreamsEnd ==
  \A c \in Conns :
    (conn[c].pc = "loop" /\ room.closed) ~> conn[c].pc = "idle"
=============================================================================
