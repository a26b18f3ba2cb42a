----------------------------- MODULE RoomFanout -----------------------------
(***************************************************************************)
(* The *Room methods of apps/fnmusic/listen_room.go that move members and  *)
(* frames: who is in the room, and what waits in each member's channel.    *)
(* Every method runs under Room.mu, so each is an operator from a Room to  *)
(* the Room the critical section leaves behind.  The playback fields of    *)
(* the Room are the subject of RoomPlayback.                               *)
(***************************************************************************)
EXTENDS Naturals, Sequences

CONSTANTS Users,    \* upstream user ids, what identity() returns
          Conns,    \* calls of handleRoomEvents (SSE connections)
          Cap,      \* sseBuffer, 16 in the code
          None      \* the absence of a member, of a user, of a kick target

ASSUME FanoutAssumption ==
  /\ Users \cap Conns = {}
  /\ None \notin Users \cup Conns
  /\ Cap \in Nat \ {0}

(***************************************************************************)
(* A Member struct is identified by who made it.  Member c in Conns was    *)
(* made by the events handler c, which alone reads its channel.  Member u  *)
(* in Users was made for user u by /create, /join or /command: nobody      *)
(* reads its channel, and only the newest such member of u is ever in use. *)
(***************************************************************************)
Recs == Users \cup Conns

Frame == [ev     : {"state", "members", "closed", "kicked", "unread"},
          ver    : Nat,             \* state frames: the version
          mem    : SUBSET Users,    \* members frames: the roster
          closed : BOOLEAN]         \* state frames: Room.Closed

Buffer == {q \in Seq(Frame) : Len(q) <= Cap}
Chan == [open : BOOLEAN, q : Buffer]

(* Member.evt of every record, Room.Members, Room.Version, Room.Closed. *)
Room == [members : [Users -> Recs \cup {None}],
         chan    : [Recs -> Chan],
         version : Nat,
         closed  : BOOLEAN]

Fresh == [open |-> TRUE, q |-> <<>>]
Dead  == [open |-> FALSE, q |-> <<>>]

EmptyRoom == [members |-> [u \in Users |-> None],
              chan    |-> [x \in Recs |-> Dead],
              version |-> 0,
              closed  |-> FALSE]

Present(r) == {u \in Users : r.members[u] # None}

StateFrame(r) ==
  [ev |-> "state", ver |-> r.version, mem |-> {}, closed |-> r.closed]
MembersFrame(r) ==
  [ev |-> "members", ver |-> 0, mem |-> Present(r), closed |-> FALSE]
ClosedFrame ==
  [ev |-> "closed", ver |-> 0, mem |-> {}, closed |-> FALSE]
KickedFrame ==
  [ev |-> "kicked", ver |-> 0, mem |-> {}, closed |-> FALSE]

(* m.evt <- frame.  Of frames that nobody reads only the number matters. *)
Unread == [ev |-> "unread", ver |-> 0, mem |-> {}, closed |-> FALSE]

Push(x, ch, f) ==
  [ch EXCEPT !.q = Append(@, IF x \in Conns THEN f ELSE Unread)]

(***************************************************************************)
(* close(m.evt).  What is buffered stays readable by the member's reader;  *)
(* the buffer of a member that has no reader is garbage.                   *)
(***************************************************************************)
Close(x, ch) == [open |-> FALSE, q |-> IF x \in Conns THEN ch.q ELSE <<>>]

(* The select that takes one frame out of a replaced member's channel. *)
Drain(ch) == IF ch.q = <<>> THEN ch ELSE [ch EXCEPT !.q = Tail(@)]

SlowTooLate(r) ==                   \* mutant: takes a full buffer for a free one
  {u \in Present(r) : Len(r.chan[r.members[u]].q) > Cap}

Slow(r) == {u \in Present(r) : Len(r.chan[r.members[u]].q) >= Cap}

(***************************************************************************)
(* broadcastLocked: the frame was encoded before the loop, so it does not  *)
(* see the evictions the loop makes.                                       *)
(***************************************************************************)
BroadcastDropsFrame(r, f) ==        \* mutant: a full buffer loses the frame
  [r EXCEPT !.chan = [x \in Recs |->
     IF \E u \in Present(r) \ Slow(r) : r.members[u] = x
       THEN Push(x, @[x], f) ELSE @[x]]]

BroadcastForgetsClose(r, f) ==      \* mutant: evicts without close(m.evt)
  [r EXCEPT
     !.members = [u \in Users |-> IF u \in Slow(r) THEN None ELSE @[u]],
     !.chan = [x \in Recs |->
       IF \E u \in Present(r) \ Slow(r) : r.members[u] = x
         THEN Push(x, @[x], f) ELSE @[x]]]

Broadcast(r, f) ==
  LET slow == Slow(r)
      cut  == {r.members[u] : u \in slow}
      sent == {r.members[u] : u \in Present(r) \ slow}
  IN [r EXCEPT
        !.members = [u \in Users |-> IF u \in slow THEN None ELSE r.members[u]],
        !.chan = [x \in Recs |->
          IF x \in cut THEN Close(x, r.chan[x])
          ELSE IF x \in sent THEN Push(x, r.chan[x], f)
          ELSE r.chan[x]]]

(* broadcastStateLocked / broadcastMembersLocked *)
BroadcastState(r) ==
  LET next == [r EXCEPT !.version = @ + 1]
  IN Broadcast(next, StateFrame(next))

BroadcastMembers(r) == Broadcast(r, MembersFrame(r))

(***************************************************************************)
(* addMember: the old channel of the same user loses one frame and is      *)
(* closed, the new member x takes its place, everybody hears of it.        *)
(***************************************************************************)
AddMemberTellsFirst(r, u, x) ==     \* mutant: broadcasts, then adds
  LET old == r.members[u]
      told == BroadcastMembers(r)
  IN [told EXCEPT
        !.members[u] = x,
        !.chan = [y \in Recs |-> IF y = x THEN Fresh
                                 ELSE IF y = old THEN Close(y, Drain(@[y]))
                                 ELSE @[y]]]

AddMember(r, u, x) ==
  LET old == r.members[u]
  IN BroadcastMembers(
       [r EXCEPT
          !.members[u] = x,
          !.chan = [y \in Recs |-> IF y = x THEN Fresh
                                   ELSE IF y = old THEN Close(y, Drain(r.chan[y]))
                                   ELSE r.chan[y]]])

(* delete(r.Members, u) after close(m.evt), where u is a member *)
Drop(r, u) ==
  IF r.members[u] = None THEN r
  ELSE [r EXCEPT !.members[u] = None,
                 !.chan[r.members[u]] = Close(r.members[u], @)]

(* removeMember: whoever holds the user's place now goes. *)
RemoveMember(r, u) == BroadcastMembers(Drop(r, u))

(* kickMember: a kicked frame if the buffer has room, then the removal. *)
KickMemberKeepsPlace(r, u) ==       \* mutant: closed but not deleted
  BroadcastMembers(
    IF u \notin Present(r) THEN r
    ELSE [r EXCEPT !.chan[r.members[u]] =
            Close(r.members[u], IF u \in Slow(r) THEN @
                                ELSE Push(r.members[u], @, KickedFrame))])

KickMember(r, u) ==
  LET told == IF u \in Present(r) \ Slow(r)
                THEN [r EXCEPT !.chan[r.members[u]] = Push(r.members[u], @, KickedFrame)]
                ELSE r
  IN BroadcastMembers(Drop(told, u))

(***************************************************************************)
(* What the cases of applyCommand do to members and frames: every playback *)
(* command, and kick, tell the state and the roster; close marks the room  *)
(* and tells the state and then "closed".                                  *)
(***************************************************************************)
ApplyBroadcast(r) == BroadcastMembers(BroadcastState(r))

ApplyCloseMarksLate(r) ==           \* mutant: Closed is set after the broadcasts
  [Broadcast(BroadcastState(r), ClosedFrame) EXCEPT !.closed = TRUE]

ApplyClose(r) ==
  Broadcast(BroadcastState([r EXCEPT !.closed = TRUE]), ClosedFrame)

=============================================================================
