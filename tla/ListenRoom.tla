----------------------------- MODULE ListenRoom -----------------------------
(***************************************************************************)
(* One listen-together room and everything that acts on it concurrently:   *)
(* the SSE handlers (handleRoomEvents), the POST handlers (join, leave,    *)
(* command).  A step is what a goroutine does between two points where     *)
(* others can run: one critical section of Room.mu, one turn of the SSE    *)
(* select loop.  The table of rooms, and the janitor that deletes from it, *)
(* are the subject of RoomRegistry: seen from here a room that is no       *)
(* longer in the table is one at which no more requests arrive.            *)
(***************************************************************************)
EXTENDS RoomFanout, FiniteSets

CONSTANTS Reqs,         \* calls of the POST handlers that may be in flight
          UserOf,       \* whose token each connection carries
          Host,         \* Room.HostID
          MaxVersion    \* bound on Room.Version: no command arrives beyond it

ASSUME ListenAssumption ==
  /\ UserOf \in [Conns -> Users]
  /\ Host \in Users
  /\ MaxVersion \in Nat

VARIABLES
  room,     \* the Room
  conn,     \* the events handlers, and what each has written to its client
  req       \* the POST handlers

vars == <<room, conn, req>>

(***************************************************************************)
(* An events handler: "auth" between getRoom and addMember (identity() is  *)
(* asking the upstream), "greet" before the first frames are written,      *)
(* "loop" in the select loop, "remove" when it left the loop to call       *)
(* removeMember.  alive: the client still holds the connection.  seen,     *)
(* over, roster: version and closed of the last state frame, and the       *)
(* members of the last members frame, written to the client.               *)
(***************************************************************************)
IdleConn == [pc |-> "idle", alive |-> FALSE,
             seen |-> 0, over |-> FALSE, roster |-> {}]

(* A POST handler, past getRoom: pc names the call it makes next. *)
Cmds == {"playback", "kick", "close", "unknown"}
IdleReq == [pc |-> "idle", user |-> None, cmd |-> "unknown", target |-> None]

CommandPcs == {"check", "readd", "apply", "kick"}

(* getRoom, of a room that is in the table *)
Found == ~room.closed

-----------------------------------------------------------------------------
(* The state handleRoomCreate leaves: the host is in, with no reader. *)
Init ==
  /\ room = AddMember(EmptyRoom, Host, Host)
  /\ conn = [c \in Conns |-> IdleConn]
  /\ req = [q \in Reqs |-> IdleReq]

-----------------------------------------------------------------------------
(* handleRoomEvents *)

EventsLookup(c) ==
  /\ conn[c].pc = "idle"
  /\ Found
  /\ conn' = [conn EXCEPT ![c] = [IdleConn EXCEPT !.pc = "auth", !.alive = TRUE]]
  /\ UNCHANGED <<room, req>>

(* identity() failed, the client's cancelled context being one reason. *)
EventsReject(c) ==
  /\ conn[c].pc = "auth"
  /\ conn' = [conn EXCEPT ![c] = IdleConn]
  /\ UNCHANGED <<room, req>>

EventsJoin(c) ==
  /\ conn[c].pc = "auth"
  /\ room' = AddMember(room, UserOf[c], c)
  /\ conn' = [conn EXCEPT ![c].pc = "greet"]
  /\ UNCHANGED req

(* The first state and members frames, from a critical section of their own. *)
EventsGreetNoState(c) ==            \* mutant: the state waits for a broadcast
  /\ conn[c].pc = "greet"
  /\ conn' = [conn EXCEPT ![c].pc = "loop", ![c].roster = Present(room)]
  /\ UNCHANGED <<room, req>>

EventsGreet(c) ==
  /\ conn[c].pc = "greet"
  /\ conn' = [conn EXCEPT ![c] = [@ EXCEPT !.pc = "loop",
                                           !.seen = room.version,
                                           !.over = room.closed,
                                           !.roster = Present(room)]]
  /\ UNCHANGED <<room, req>>

(* case frame, alive := <-m.evt: the frame is written. *)
Written(k, f) ==
  CASE f.ev = "state"   -> [k EXCEPT !.seen = f.ver, !.over = f.closed]
    [] f.ev = "members" -> [k EXCEPT !.roster = f.mem]
    [] OTHER            -> k

StreamFrame(c) ==
  LET q == room.chan[c].q
  IN /\ conn[c].pc = "loop"
     /\ q # <<>>
     /\ room' = [room EXCEPT !.chan[c].q = Tail(q)]
     /\ conn' = [conn EXCEPT ![c] = Written(@, Head(q))]
     /\ UNCHANGED req

(* The frame is taken but the write fails. *)
StreamWriteError(c) ==
  LET q == room.chan[c].q
  IN /\ conn[c].pc = "loop"
     /\ ~conn[c].alive
     /\ q # <<>>
     /\ room' = [room EXCEPT !.chan[c].q = Tail(q)]
     /\ conn' = [conn EXCEPT ![c] = [IdleConn EXCEPT !.pc = "remove"]]
     /\ UNCHANGED req

StreamGoneAtFrame(c) ==             \* mutant: neither ctx.Done() nor ping
  /\ conn[c].pc = "loop"
  /\ ~conn[c].alive
  /\ room.chan[c].q # <<>>
  /\ conn' = [conn EXCEPT ![c] = [IdleConn EXCEPT !.pc = "remove"]]
  /\ UNCHANGED <<room, req>>

(* ctx.Done(), or a ping that cannot be written. *)
StreamGone(c) ==
  /\ conn[c].pc = "loop"
  /\ ~conn[c].alive
  /\ conn' = [conn EXCEPT ![c] = [IdleConn EXCEPT !.pc = "remove"]]
  /\ UNCHANGED <<room, req>>

(* !alive: the channel is closed and empty; the handler returns. *)
StreamClosed(c) ==
  /\ conn[c].pc = "loop"
  /\ room.chan[c] = Dead
  /\ conn' = [conn EXCEPT ![c] = IdleConn]
  /\ UNCHANGED <<room, req>>

(* room.removeMember(id), by user; what this handler's channel still holds *)
(* is garbage once the handler has returned.                               *)
StreamRemove(c) ==
  /\ conn[c].pc = "remove"
  /\ room' = [RemoveMember(room, UserOf[c]) EXCEPT !.chan[c].q = <<>>]
  /\ conn' = [conn EXCEPT ![c] = IdleConn]
  /\ UNCHANGED req

(* The client goes away, or its network does. *)
ClientDrop(c) ==
  /\ conn[c].alive
  /\ conn' = [conn EXCEPT ![c].alive = FALSE]
  /\ UNCHANGED <<room, req>>

-----------------------------------------------------------------------------
(* handleRoomJoin, handleRoomLeave, handleRoomCommand *)

Commands == {q \in Reqs : req[q].pc \in CommandPcs}

(* identity() and getRoom succeeded.  Playback stands for every cmd that *)
(* is neither kick nor close nor unknown, and for a kick of no one.      *)
RequestArrives(q, u) ==
  /\ req[q].pc = "idle"
  /\ Found
  /\ \/ \E pc \in {"join", "leave"} :
          req' = [req EXCEPT ![q] =
                    [pc |-> pc, user |-> u, cmd |-> "unknown", target |-> None]]
     \/ /\ room.version + Cardinality(Commands) < MaxVersion
        /\ \E cmd \in Cmds, t \in Users \cup {None} :
             /\ cmd = "kick" <=> t # None
             /\ req' = [req EXCEPT ![q] =
                          [pc |-> "check", user |-> u, cmd |-> cmd, target |-> t]]
  /\ UNCHANGED <<room, conn>>

Done(q) == req' = [req EXCEPT ![q] = IdleReq]
Goto(q, pc) == req' = [req EXCEPT ![q].pc = pc]

JoinAdd(q) ==
  /\ req[q].pc = "join"
  /\ room' = AddMember(room, req[q].user, req[q].user)
  /\ Done(q)
  /\ UNCHANGED conn

LeaveRemove(q) ==
  /\ req[q].pc = "leave"
  /\ room' = RemoveMember(room, req[q].user)
  /\ Done(q)
  /\ UNCHANGED conn

(* A sender who is not a member is added again, in a later critical section. *)
CmdCheck(q) ==
  /\ req[q].pc = "check"
  /\ Goto(q, IF req[q].user \in Present(room) THEN "apply" ELSE "readd")
  /\ UNCHANGED <<room, conn>>

CmdReAdd(q) ==
  /\ req[q].pc = "readd"
  /\ room' = AddMember(room, req[q].user, req[q].user)
  /\ Goto(q, "apply")
  /\ UNCHANGED conn

(* applyCommand refuses kick and close to members, and unknown commands. *)
RefusedUnknown(k) == k.cmd = "unknown"      \* mutant: isHost is not asked

Refused(k) == k.cmd = "unknown" \/ (k.cmd \in {"kick", "close"} /\ k.user # Host)

CmdApply(q) ==
  /\ req[q].pc = "apply"
  /\ \/ /\ Refused(req[q])
        /\ Done(q)
        /\ UNCHANGED room
     \/ /\ ~Refused(req[q])
        /\ req[q].cmd = "close"
        /\ room' = ApplyClose(room)
        /\ Done(q)
     \/ /\ ~Refused(req[q])
        /\ req[q].cmd # "close"
        /\ room' = ApplyBroadcast(room)
        /\ IF req[q].target # None THEN Goto(q, "kick") ELSE Done(q)
  /\ UNCHANGED conn

CmdKick(q) ==
  /\ req[q].pc = "kick"
  /\ room' = KickMember(room, req[q].target)
  /\ Done(q)
  /\ UNCHANGED conn

-----------------------------------------------------------------------------
ConnStep(c) ==
  \/ EventsReject(c) \/ EventsJoin(c) \/ EventsGreet(c)
  \/ StreamFrame(c) \/ StreamWriteError(c) \/ StreamGone(c)
  \/ StreamClosed(c) \/ StreamRemove(c)

ReqStep(q) ==
  \/ JoinAdd(q) \/ LeaveRemove(q)
  \/ CmdCheck(q) \/ CmdReAdd(q) \/ CmdApply(q) \/ CmdKick(q)

Next ==
  \/ \E c \in Conns : EventsLookup(c) \/ ConnStep(c) \/ ClientDrop(c)
  \/ \E q \in Reqs, u \in Users : RequestArrives(q, u)
  \/ \E q \in Reqs : ReqStep(q)

Spec == Init /\ [][Next]_vars

(***************************************************************************)
(* A goroutine that can run does run; the upstream answers identity(); a   *)
(* client that is alive reads what it is sent; and select, which picks at  *)
(* random among its ready cases, does not ignore a cancelled context for   *)
(* ever.  Nothing is asked of arrivals and of clients going away.          *)
(***************************************************************************)
Fairness ==
  /\ \A c \in Conns : WF_vars(ConnStep(c)) /\ WF_vars(StreamGone(c))
  /\ \A q \in Reqs : WF_vars(ReqStep(q))

FairSpec == Spec /\ Fairness
=============================================================================
