-------------------------- MODULE ListenRoomProofs --------------------------
(***************************************************************************)
(* For every number of users, connections, requests and buffered frames.   *)
(* IInv: the state keeps its type, no buffer exceeds its capacity, and the *)
(* discipline holds that keeps the code from sending on a closed channel   *)
(* or closing one twice.  SInv adds what is on its way to each connection, *)
(* from which follow that no update and no member is lost on the way, that *)
(* a place is lost only for a cause, that the room implements RoomFeed,    *)
(* and that a stream whose place is lost can come to its end.              *)
(***************************************************************************)
EXTENDS ListenRoomProps, RoomFanoutProofs

(* A connection that is a member is one of its user's, and running. *)
Owned ==
  \A u \in Users, c \in Conns : room.members[u] = c =>
    UserOf[c] = u /\ conn[c].pc \in {"greet", "loop", "remove"}

IInv == TypeOK /\ WellFormed(room) /\ Owned

LEMMA IInvImplies == IInv => ChannelDiscipline
<1> SUFFICES ASSUME IInv PROVE ChannelDiscipline
  OBVIOUS
<1>1. \A u \in Present(room) :
        LET x == room.members[u]
        IN /\ room.chan[x].open
           /\ \/ x = u
              \/ /\ x \in Conns
                 /\ UserOf[x] = u
                 /\ conn[x].pc \in {"greet", "loop", "remove"}
  BY DEF IInv, WellFormed, Owned, Present
<1>2. \A x \in Recs : room.chan[x].open => \E u \in Users : room.members[u] = x
  BY DEF IInv, WellFormed
<1>3. QED
  BY <1>1, <1>2 DEF ChannelDiscipline

(* Changing what a channel holds, within its capacity, and nothing else. *)
LEMMA BufferKeeps ==
  ASSUME NEW r, WellFormed(r), NEW x \in Recs, NEW q \in Buffer
  PROVE  LET s == [r EXCEPT !.chan[x].q = q]
         IN WellFormed(s) /\ s.members = r.members
<1> DEFINE C == [r.chan EXCEPT ![x] = [r.chan[x] EXCEPT !.q = q]]
           s == [r EXCEPT !.chan[x].q = q]
<1>1. r \in Room /\ r.chan \in [Recs -> Chan]
  BY DEF WellFormed, Room
<1>2. C \in [Recs -> Chan] /\ \A y \in Recs : C[y].open = r.chan[y].open
  BY <1>1 DEF Chan
<1>3. s \in Room /\ s.members = r.members /\ s.chan = C
  BY <1>1, <1>2 DEF Room
<1> HIDE DEF C, s
<1>4. WellFormed(s)
  BY <1>2, <1>3 DEF WellFormed, Recs
<1>5. QED
  BY <1>3, <1>4 DEF s

LEMMA EmptyWellFormed == WellFormed(EmptyRoom)
<1>1. EmptyRoom \in Room
  BY FreshType DEF EmptyRoom, Room
<1>2. QED
  BY <1>1, FreshType DEF EmptyRoom, WellFormed

LEMMA InitIInv == Init => IInv
<1> SUFFICES ASSUME Init PROVE IInv
  OBVIOUS
<1>1. WellFormed(EmptyRoom)
  BY EmptyWellFormed
<1>2. Host \in Users /\ Host \notin Conns
  BY ListenAssumption, FanoutAssumption
<1>3. /\ WellFormed(room)
      /\ \A v \in Users : room.members[v] \in {None, IF v = Host THEN Host ELSE None}
  <2>1. room = AddMember(EmptyRoom, Host, Host)
    BY DEF Init
  <2>2. \A v \in Users : EmptyRoom.members[v] = None
    BY DEF EmptyRoom
  <2> HIDE DEF Init
  <2>3. QED
    BY <1>1, <1>2, <2>1, <2>2, AddMemberKeeps
<1>4. TypeOK
  BY <1>3 DEF TypeOK, Init, WellFormed, IdleConn, IdleReq, CommandPcs, Cmds
<1>5. Owned
  BY <1>2, <1>3, FanoutAssumption DEF Owned
<1>6. QED
  BY <1>3, <1>4, <1>5 DEF IInv

(***************************************************************************)
(* The steps of an events handler.                                         *)
(***************************************************************************)
LEMMA ConnIInv ==
  ASSUME IInv, NEW c \in Conns, EventsLookup(c) \/ ConnStep(c) \/ ClientDrop(c)
  PROVE  IInv'
<1> USE DEF IInv
<1>1. /\ UserOf[c] \in Users /\ c \in Recs /\ WellFormed(room)
      /\ conn[c].seen \in Nat
  BY ListenAssumption DEF Recs, TypeOK
<1>2. CASE EventsLookup(c)
  <2>1. TypeOK'
    BY <1>2 DEF EventsLookup, TypeOK, IdleConn
  <2>2. Owned'
    BY <1>2 DEF EventsLookup, Owned, TypeOK
  <2>3. QED
    BY <1>2, <2>1, <2>2 DEF EventsLookup
<1>3. CASE EventsReject(c)
  <2>1. TypeOK'
    BY <1>3 DEF EventsReject, TypeOK, IdleConn
  <2>2. Owned'
    BY <1>3 DEF EventsReject, Owned, TypeOK
  <2>3. QED
    BY <1>3, <2>1, <2>2 DEF EventsReject
<1>4. CASE EventsJoin(c)
  <2>1. /\ WellFormed(room')
        /\ \A v \in Users :
             room'.members[v] \in {None, IF v = UserOf[c] THEN c ELSE room.members[v]}
    <3>1. \A v \in Users : room.members[v] # c
      BY <1>4 DEF EventsJoin, Owned
    <3>2. QED
      BY <1>1, <1>4, <3>1, AddMemberKeeps DEF EventsJoin
  <2>2. TypeOK'
    BY <1>4, <2>1 DEF EventsJoin, TypeOK, WellFormed
  <2>3. Owned'
    BY <1>4, <2>1, FanoutAssumption DEF EventsJoin, Owned, TypeOK
  <2>4. QED
    BY <2>1, <2>2, <2>3
<1>5. CASE EventsGreet(c)
  <2>1. TypeOK'
    <3>1. /\ room.version \in Nat /\ room.closed \in BOOLEAN
          /\ Present(room) \in SUBSET Users
      BY DEF TypeOK, Room, Present
    <3>2. QED
      BY <1>5, <3>1 DEF EventsGreet, TypeOK
  <2>2. Owned'
    BY <1>5 DEF EventsGreet, Owned, TypeOK
  <2>3. QED
    BY <1>5, <2>1, <2>2 DEF EventsGreet
<1>6. ASSUME StreamFrame(c) \/ StreamWriteError(c) PROVE IInv'
  <2> DEFINE q == room.chan[c].q
  <2>1. /\ q \in Seq(Frame) /\ Len(q) \in Nat /\ Len(q) <= Cap /\ q # <<>>
        /\ room' = [room EXCEPT !.chan[c].q = Tail(q)]
    BY <1>1, <1>6, ChanType DEF StreamFrame, StreamWriteError, WellFormed, Room
  <2>2. Tail(q) \in Buffer /\ Head(q) \in Frame
    <3>1. Tail(q) \in Seq(Frame) /\ Len(Tail(q)) = Len(q) - 1 /\ Head(q) \in Frame
      BY <2>1
    <3>2. QED
      BY <2>1, <3>1, FanoutAssumption DEF Buffer
  <2> HIDE DEF q
  <2>3. WellFormed(room') /\ room'.members = room.members
    BY <1>1, <2>1, <2>2, BufferKeeps
  <2>4. /\ UNCHANGED req
        /\ conn' \in [Conns -> [pc     : {"idle", "auth", "greet", "loop", "remove"},
                                alive  : BOOLEAN,
                                seen   : Nat,
                                over   : BOOLEAN,
                                roster : SUBSET Users]]
        /\ conn[c].pc = "loop" /\ conn'[c].pc \in {"loop", "remove"}
        /\ \A d \in Conns \ {c} : conn'[d] = conn[d]
    <3>1. CASE StreamFrame(c)
      <4>1. conn' = [conn EXCEPT ![c] = Written(conn[c], Head(q))]
        BY <3>1 DEF StreamFrame, q, TypeOK
      <4>2. /\ Written(conn[c], Head(q)) \in
                 [pc     : {"idle", "auth", "greet", "loop", "remove"},
                  alive  : BOOLEAN,
                  seen   : Nat,
                  over   : BOOLEAN,
                  roster : SUBSET Users]
            /\ Written(conn[c], Head(q)).pc = conn[c].pc
        BY <2>2 DEF Written, Frame, TypeOK
      <4>3. QED
        BY <3>1, <4>1, <4>2 DEF StreamFrame, TypeOK
    <3>2. CASE StreamWriteError(c)
      BY <3>2 DEF StreamWriteError, TypeOK, IdleConn
    <3>3. QED
      BY <1>6, <3>1, <3>2
  <2>5. TypeOK'
    BY <2>3, <2>4 DEF TypeOK, WellFormed
  <2>6. Owned'
    BY <2>3, <2>4 DEF Owned
  <2>7. QED
    BY <2>3, <2>5, <2>6
<1>7. CASE StreamGone(c)
  <2>1. TypeOK'
    BY <1>7 DEF StreamGone, TypeOK, IdleConn
  <2>2. Owned'
    BY <1>7 DEF StreamGone, Owned, TypeOK, IdleConn
  <2>3. QED
    BY <1>7, <2>1, <2>2 DEF StreamGone
<1>8. CASE StreamClosed(c)
  <2>1. \A u \in Users : room.members[u] # c
    <3>1. c # None /\ ~room.chan[c].open
      BY <1>8, FreshType, FanoutAssumption DEF StreamClosed
    <3>2. QED
      BY <3>1 DEF WellFormed
  <2>2. TypeOK'
    BY <1>8 DEF StreamClosed, TypeOK, IdleConn
  <2>3. Owned'
    BY <1>8, <2>1 DEF StreamClosed, Owned, TypeOK
  <2>4. QED
    BY <1>8, <2>2, <2>3 DEF StreamClosed
<1>9. CASE StreamRemove(c)
  <2> DEFINE r == RemoveMember(room, UserOf[c])
  <2>1. /\ WellFormed(r) /\ Shrinks(room, r) /\ r.members[UserOf[c]] = None
    BY <1>1, RemoveMemberKeeps
  <2>2. room' = [r EXCEPT !.chan[c].q = <<>>]
    BY <1>9 DEF StreamRemove
  <2>3. <<>> \in Buffer
    BY FreshType DEF Fresh, Chan
  <2> HIDE DEF r
  <2>4. WellFormed(room') /\ room'.members = r.members
    BY <1>1, <2>1, <2>2, <2>3, BufferKeeps
  <2>5. \A u \in Users : room'.members[u] # c
    <3>1. c # None
      BY FanoutAssumption
    <3>2. QED
      BY <2>1, <2>4, <3>1 DEF Shrinks, Owned
  <2>6. TypeOK'
    BY <1>9, <2>4 DEF StreamRemove, TypeOK, IdleConn, WellFormed
  <2>7. Owned'
    BY <1>9, <2>1, <2>4, <2>5, FanoutAssumption
       DEF StreamRemove, Owned, Shrinks, TypeOK
  <2>8. QED
    BY <2>4, <2>6, <2>7
<1>10. CASE ClientDrop(c)
  <2>1. TypeOK'
    BY <1>10 DEF ClientDrop, TypeOK
  <2>2. Owned'
    BY <1>10 DEF ClientDrop, Owned, TypeOK
  <2>3. QED
    BY <1>10, <2>1, <2>2 DEF ClientDrop
<1>11. QED
  BY <1>2, <1>3, <1>4, <1>5, <1>6, <1>7, <1>8, <1>9, <1>10 DEF ConnStep

(***************************************************************************)
(* The steps of the POST handlers.  They change the room through one of    *)
(* its methods and touch no connection, so what they have in common is     *)
(* which members a method can leave behind.                                *)
(***************************************************************************)
LEMMA RoomStepIInv ==
  ASSUME IInv, UNCHANGED conn, WellFormed(room'),
         \A u \in Users : room'.members[u] \in {None, u, room.members[u]},
         req' \in [Reqs -> [pc     : {"idle", "join", "leave"} \cup CommandPcs,
                            user   : Users \cup {None},
                            cmd    : Cmds,
                            target : Users \cup {None}]]
  PROVE  IInv'
<1>1. TypeOK'
  BY DEF IInv, TypeOK, WellFormed
<1>2. Owned'
  BY FanoutAssumption DEF IInv, Owned
<1>3. QED
  BY <1>1, <1>2 DEF IInv

(* addMember for a member that has no reader *)
LEMMA SelfAddKeeps ==
  ASSUME NEW r, WellFormed(r), NEW u \in Users, u \notin Conns
  PROVE  LET s == AddMember(r, u, u)
         IN WellFormed(s) /\ \A v \in Users : s.members[v] \in {None, v, r.members[v]}
<1> DEFINE s == AddMember(r, u, u)
<1>1. WellFormed(s) /\ \A v \in Users : s.members[v] \in
                         {None, IF v = u THEN u ELSE r.members[v]}
  BY AddMemberKeeps
<1> HIDE DEF s
<1>2. \A v \in Users : s.members[v] \in {None, v, r.members[v]}
  BY <1>1
<1>3. QED
  BY <1>1, <1>2 DEF s

(* A handler past its first step knows its user; one that kicks, its target. *)
ReqOK ==
  \A q \in Reqs : /\ req[q].pc # "idle" => req[q].user \in Users
                  /\ req[q].pc = "kick" => req[q].target \in Users

LEMMA ReqIInv ==
  ASSUME IInv, ReqOK, NEW q \in Reqs,
         (\E u \in Users : RequestArrives(q, u)) \/ ReqStep(q)
  PROVE  IInv' /\ ReqOK'
<1> DEFINE ReqType == [pc     : {"idle", "join", "leave"} \cup CommandPcs,
                       user   : Users \cup {None},
                       cmd    : Cmds,
                       target : Users \cup {None}]
<1>1. /\ req \in [Reqs -> ReqType] /\ WellFormed(room) /\ IdleReq \in ReqType
  BY DEF IInv, TypeOK, IdleReq, Cmds
<1>2. \A u \in Users : room.members[u] \in {None, u, room.members[u]}
  OBVIOUS
<1>3. ASSUME Done(q) PROVE req' \in [Reqs -> ReqType] /\ ReqOK'
  BY <1>1, <1>3 DEF Done, ReqOK, IdleReq
<1>4. ASSUME NEW pc \in CommandPcs, Goto(q, pc), req[q].user \in Users,
             pc = "kick" => req[q].target \in Users
      PROVE  req' \in [Reqs -> ReqType] /\ ReqOK'
  <2>1. [req[q] EXCEPT !.pc = pc] \in ReqType
    BY <1>1
  <2>2. QED
    BY <1>1, <1>4, <2>1 DEF Goto, ReqOK
<1>5. ASSUME NEW u \in Users, RequestArrives(q, u) PROVE IInv' /\ ReqOK'
  <2>1. req' \in [Reqs -> ReqType] /\ ReqOK'
    <3>1. CASE \E pc \in {"join", "leave"} :
                 req' = [req EXCEPT ![q] =
                           [pc |-> pc, user |-> u, cmd |-> "unknown", target |-> None]]
      BY <1>1, <3>1 DEF ReqOK, Cmds
    <3>2. CASE \E cmd \in Cmds, t \in Users \cup {None} :
                 req' = [req EXCEPT ![q] =
                           [pc |-> "check", user |-> u, cmd |-> cmd, target |-> t]]
      BY <1>1, <3>2 DEF ReqOK, CommandPcs
    <3>3. QED
      BY <1>5, <3>1, <3>2 DEF RequestArrives
  <2>2. UNCHANGED <<room, conn>>
    BY <1>5 DEF RequestArrives
  <2>3. QED
    BY <1>1, <1>2, <2>1, <2>2, RoomStepIInv
<1>6. CASE JoinAdd(q)
  <2>1. req[q].user \in Users /\ req[q].user \notin Conns
    BY <1>6, FanoutAssumption DEF JoinAdd, ReqOK
  <2>2. /\ WellFormed(room')
        /\ \A u \in Users : room'.members[u] \in {None, u, room.members[u]}
    <3>1. room' = AddMember(room, req[q].user, req[q].user)
      BY <1>6 DEF JoinAdd
    <3>2. QED
      BY <1>1, <2>1, <3>1, SelfAddKeeps
  <2>3. QED
    BY <1>3, <1>6, <2>2, RoomStepIInv DEF JoinAdd
<1>7. CASE LeaveRemove(q)
  <2>1. req[q].user \in Users
    BY <1>7 DEF LeaveRemove, ReqOK
  <2>2. /\ WellFormed(room')
        /\ \A u \in Users : room'.members[u] \in {None, u, room.members[u]}
    <3>1. room' = RemoveMember(room, req[q].user)
      BY <1>7 DEF LeaveRemove
    <3>2. WellFormed(room') /\ Shrinks(room, room')
      BY <1>1, <2>1, <3>1, RemoveMemberKeeps
    <3>3. QED
      BY <3>2 DEF Shrinks
  <2>3. QED
    BY <1>3, <1>7, <2>2, RoomStepIInv DEF LeaveRemove
<1>8. CASE CmdCheck(q)
  <2>1. req[q].user \in Users
    BY <1>8 DEF CmdCheck, ReqOK
  <2>2. req' \in [Reqs -> ReqType] /\ ReqOK'
    <3>1. CASE Goto(q, "apply")
      BY <1>4, <2>1, <3>1 DEF CommandPcs
    <3>2. CASE Goto(q, "readd")
      BY <1>4, <2>1, <3>2 DEF CommandPcs
    <3>3. QED
      BY <1>8, <3>1, <3>2 DEF CmdCheck
  <2>3. QED
    BY <1>1, <1>2, <1>8, <2>2, RoomStepIInv DEF CmdCheck
<1>9. CASE CmdReAdd(q)
  <2>1. req[q].user \in Users /\ req[q].user \notin Conns
    BY <1>9, FanoutAssumption DEF CmdReAdd, ReqOK
  <2>2. /\ WellFormed(room')
        /\ \A u \in Users : room'.members[u] \in {None, u, room.members[u]}
    <3>1. room' = AddMember(room, req[q].user, req[q].user)
      BY <1>9 DEF CmdReAdd
    <3>2. QED
      BY <1>1, <2>1, <3>1, SelfAddKeeps
  <2>3. req' \in [Reqs -> ReqType] /\ ReqOK'
    BY <1>4, <1>9, <2>1 DEF CmdReAdd, CommandPcs
  <2>4. QED
    BY <1>9, <2>2, <2>3, RoomStepIInv DEF CmdReAdd
<1>10. CASE CmdApply(q)
  <2>1. req[q].user \in Users
    BY <1>10 DEF CmdApply, ReqOK
  <2>2. req' \in [Reqs -> ReqType] /\ ReqOK'
    <3>1. CASE Done(q)
      BY <1>3, <3>1
    <3>2. CASE req[q].target # None /\ Goto(q, "kick")
      <4>1. req[q].target \in Users
        BY <1>1, <3>2
      <4>2. QED
        BY <1>4, <2>1, <3>2, <4>1 DEF CommandPcs
    <3>3. QED
      BY <1>10, <3>1, <3>2 DEF CmdApply
  <2>3. /\ WellFormed(room')
        /\ \A u \in Users : room'.members[u] \in {None, u, room.members[u]}
    <3>1. \/ UNCHANGED room
          \/ room' = ApplyClose(room)
          \/ room' = ApplyBroadcast(room)
      BY <1>10 DEF CmdApply
    <3>2. QED
      BY <1>1, <3>1, ApplyKeeps DEF Shrinks
  <2>4. QED
    BY <1>10, <2>2, <2>3, RoomStepIInv DEF CmdApply
<1>11. CASE CmdKick(q)
  <2>1. req[q].target \in Users
    BY <1>11 DEF CmdKick, ReqOK
  <2>2. /\ WellFormed(room')
        /\ \A u \in Users : room'.members[u] \in {None, u, room.members[u]}
    <3>1. room' = KickMember(room, req[q].target)
      BY <1>11 DEF CmdKick
    <3>2. WellFormed(room') /\ Shrinks(room, room')
      BY <1>1, <2>1, <3>1, KickMemberKeeps
    <3>3. QED
      BY <3>2 DEF Shrinks
  <2>3. QED
    BY <1>3, <1>11, <2>2, RoomStepIInv DEF CmdKick
<1>12. QED
  BY <1>5, <1>6, <1>7, <1>8, <1>9, <1>10, <1>11 DEF ReqStep

(* IInv /\ ReqOK is inductive. *)
LEMMA Inductive == Spec => [](IInv /\ ReqOK)
<1>1. Init => IInv /\ ReqOK
  BY InitIInv DEF Init, ReqOK, IdleReq
<1>2. IInv /\ ReqOK /\ [Next]_vars => (IInv /\ ReqOK)'
  <2> SUFFICES ASSUME IInv, ReqOK, [Next]_vars PROVE (IInv /\ ReqOK)'
    OBVIOUS
  <2>1. ASSUME NEW c \in Conns, EventsLookup(c) \/ ConnStep(c) \/ ClientDrop(c)
        PROVE  (IInv /\ ReqOK)'
    <3>1. IInv'
      BY <2>1, ConnIInv
    <3>2. UNCHANGED req
      BY <2>1 DEF EventsLookup, ConnStep, ClientDrop, EventsReject, EventsJoin,
                  EventsGreet, StreamFrame, StreamWriteError, StreamGone,
                  StreamClosed, StreamRemove
    <3>3. QED
      BY <3>1, <3>2 DEF ReqOK
  <2>2. ASSUME NEW q \in Reqs, (\E u \in Users : RequestArrives(q, u)) \/ ReqStep(q)
        PROVE  (IInv /\ ReqOK)'
    BY <2>2, ReqIInv
  <2>3. CASE UNCHANGED vars
    BY <2>3 DEF vars, IInv, ReqOK, TypeOK, WellFormed, Owned
  <2>4. QED
    BY <2>1, <2>2, <2>3 DEF Next
<1>3. QED
  BY <1>1, <1>2, PTL DEF Spec

(***************************************************************************)
(* Every reachable state has its type; in particular no operation ever     *)
(* blocks on, or overruns, a member's buffer.                              *)
(***************************************************************************)
THEOREM TypeCorrect == Spec => []TypeOK
<1>1. IInv /\ ReqOK => TypeOK
  BY DEF IInv
<1>2. QED
  BY <1>1, Inductive, PTL

(***************************************************************************)
(* No interleaving of handlers makes the code send on a closed channel or  *)
(* close one twice, and no channel outlives its member's place.            *)
(***************************************************************************)
THEOREM ChannelsDisciplined == Spec => []ChannelDiscipline
<1>1. IInv /\ ReqOK => ChannelDiscipline
  BY IInvImplies
<1>2. QED
  BY <1>1, Inductive, PTL
-----------------------------------------------------------------------------
(***************************************************************************)
(* What is on its way to each connection.                                  *)
(***************************************************************************)
States(q) == {i \in 1 .. Len(q) : q[i].ev = "state"}
Vers(q) == {q[i].ver : i \in States(q)}
Ascending(q) == \A i, j \in States(q) : i < j => q[i].ver < q[j].ver
EndsIn(q, ev, S) == \A i \in 1 .. Len(q) : LastIs(q, i, ev) => q[i] \in S

Current(r) == {f \in Frame : f.ver = r.version /\ f.closed = r.closed}
Covering(r) == {f \in Frame : Present(r) \subseteq f.mem}

(* Whoever it belongs to, a channel holds versions that were published, in  *)
(* order, and nothing after a kicked frame, which only the dropped get; in  *)
(* that of a member no later version is missing behind one that is there.   *)
ChanOK(r, c) ==
  LET q == r.chan[c].q
  IN /\ Ascending(q)
     /\ \A v \in Vers(q) : v <= r.version
     /\ \A i \in 1 .. Len(q) : q[i].ev = "kicked" => i = Len(q) /\ ~In(r, c)
     /\ In(r, c) => /\ \A v \in Vers(q) : v + 1 .. r.version \subseteq Vers(q)
                    /\ EndsIn(q, "state", Current(r))
                    /\ EndsIn(q, "members", Covering(r))

(* What its handler k has written and what is queued add up. *)
ReadOK(r, c, k) ==
  LET q == r.chan[c].q
  IN In(r, c) /\ k.pc = "loop" =>
       /\ k.seen + 1 .. r.version \subseteq Vers(q)
       /\ HasNo(q, "state") => k.seen = r.version /\ k.over = r.closed
       /\ HasNo(q, "members") => Present(r) \subseteq k.roster

(* Nothing was written before the greeting. *)
Unsent(k) == k.pc = "auth" => k.seen = 0

StreamsOK ==
  \A c \in Conns : /\ ChanOK(room, c)
                   /\ ReadOK(room, c, conn[c])
                   /\ Unsent(conn[c])

(* Only a kick by the host gets as far as kickMember. *)
KickOK ==
  \A q \in Reqs :
    /\ req[q].pc \in CommandPcs => (req[q].cmd = "kick" <=> req[q].target # None)
    /\ req[q].pc = "kick" => req[q].user = Host

SInv == IInv /\ ReqOK /\ StreamsOK /\ KickOK

-----------------------------------------------------------------------------
(* Queues of frames: one more at the end, one less at the front. *)
LEMMA VersType ==
  ASSUME NEW q \in Seq(Frame)
  PROVE  Vers(q) \subseteq Nat
<1>1. \A i \in 1 .. Len(q) : q[i] \in Frame
  BY ElementOfSeq
<1>2. QED
  BY <1>1 DEF Vers, States, Frame

LEMMA AppendVers ==
  ASSUME NEW q \in Seq(Frame), NEW f \in Frame
  PROVE  LET p == Append(q, f)
         IN /\ p \in Seq(Frame) /\ Len(p) = Len(q) + 1
            /\ Vers(p) = IF f.ev = "state" THEN Vers(q) \cup {f.ver} ELSE Vers(q)
            /\ Ascending(q) /\ (f.ev = "state" => \A v \in Vers(q) : v < f.ver) => Ascending(p)
<1> DEFINE p == Append(q, f)
           n == Len(q)
<1>1. /\ p \in Seq(Frame) /\ Len(p) = n + 1 /\ n \in Nat
      /\ \A i \in 1 .. n : p[i] = q[i]
      /\ p[n + 1] = f
  BY AppendProperties
<1> HIDE DEF p
<1>2. States(p) = IF f.ev = "state" THEN States(q) \cup {n + 1} ELSE States(q)
  BY <1>1 DEF States
<1>3. \A i \in States(q) : i \in 1 .. n /\ p[i] = q[i]
  BY <1>1 DEF States
<1>4. Vers(p) = IF f.ev = "state" THEN Vers(q) \cup {f.ver} ELSE Vers(q)
  <2>1. CASE f.ev = "state"
    <3>1. \A v : v \in Vers(p) <=> v \in Vers(q) \/ v = f.ver
      BY <1>1, <1>2, <1>3, <2>1 DEF Vers
    <3>2. QED
      BY <2>1, <3>1
  <2>2. CASE f.ev # "state"
    BY <1>2, <1>3, <2>2 DEF Vers
  <2>3. QED
    BY <2>1, <2>2
<1>5. ASSUME Ascending(q), f.ev = "state" => \A v \in Vers(q) : v < f.ver
      PROVE  Ascending(p)
  <2> SUFFICES ASSUME NEW i \in States(p), NEW j \in States(p), i < j
               PROVE  p[i].ver < p[j].ver
    BY DEF Ascending
  <2>1. i \in States(q)
    BY <1>1, <1>2 DEF States
  <2>2. CASE j \in States(q)
    BY <1>3, <1>5, <2>1, <2>2 DEF Ascending
  <2>3. CASE j \notin States(q)
    <3>1. f.ev = "state" /\ p[j] = f
      BY <1>1, <1>2, <2>3
    <3>2. p[i].ver \in Vers(q)
      BY <1>3, <2>1 DEF Vers
    <3>3. QED
      BY <1>5, <3>1, <3>2
  <2>4. QED
    BY <2>2, <2>3
<1>6. QED
  BY <1>1, <1>4, <1>5 DEF p

LEMMA AppendEnds ==
  ASSUME NEW q \in Seq(Frame), NEW f \in Frame, NEW ev, NEW S,
         IF f.ev = ev THEN f \in S ELSE EndsIn(q, ev, S)
  PROVE  EndsIn(Append(q, f), ev, S)
<1> DEFINE p == Append(q, f)
           n == Len(q)
<1>1. /\ Len(p) = n + 1 /\ n \in Nat
      /\ \A i \in 1 .. n : p[i] = q[i]
      /\ p[n + 1] = f
  BY AppendProperties
<1> HIDE DEF p
<1> SUFFICES ASSUME NEW i \in 1 .. Len(p), LastIs(p, i, ev) PROVE p[i] \in S
  BY DEF EndsIn, p
<1>2. CASE i = n + 1
  BY <1>1, <1>2 DEF LastIs
<1>3. CASE i \in 1 .. n
  <2>1. f.ev # ev
    BY <1>1, <1>3 DEF LastIs
  <2>2. LastIs(q, i, ev)
    BY <1>1, <1>3 DEF LastIs
  <2>3. QED
    BY <1>1, <1>3, <2>1, <2>2 DEF EndsIn
<1>4. QED
  BY <1>1, <1>2, <1>3

LEMMA AppendHasNo ==
  ASSUME NEW q \in Seq(Frame), NEW f \in Frame, NEW ev
  PROVE  HasNo(Append(q, f), ev) <=> HasNo(q, ev) /\ f.ev # ev
<1> DEFINE p == Append(q, f)
           n == Len(q)
<1>1. /\ Len(p) = n + 1 /\ n \in Nat
      /\ \A i \in 1 .. n : p[i] = q[i]
      /\ p[n + 1] = f
  BY AppendProperties
<1> HIDE DEF p
<1>2. QED
  BY <1>1 DEF HasNo, p

LEMMA TailOf ==
  ASSUME NEW q \in Seq(Frame), q # <<>>
  PROVE  /\ Head(q) \in Frame /\ Head(q) = q[1] /\ Len(q) \in Nat \ {0}
         /\ Tail(q) \in Seq(Frame) /\ Len(Tail(q)) = Len(q) - 1
         /\ \A i \in 1 .. Len(q) - 1 : Tail(q)[i] = q[i + 1]
         /\ \A i \in 2 .. Len(q) : i - 1 \in 1 .. Len(q) - 1 /\ Tail(q)[i - 1] = q[i]
<1>1. Len(q) \in Nat \ {0}
  BY EmptySeq
<1>2. /\ Head(q) \in Frame /\ Head(q) = q[1]
      /\ Tail(q) \in Seq(Frame) /\ Len(Tail(q)) = Len(q) - 1
  BY HeadTailProperties
<1>3. \A i \in 1 .. Len(q) - 1 : Tail(q)[i] = q[i + 1]
  BY <1>2, HeadTailProperties
<1>4. \A i \in 2 .. Len(q) : i - 1 \in 1 .. Len(q) - 1 /\ (i - 1) + 1 = i
  BY <1>1
<1>5. QED
  BY <1>1, <1>2, <1>3, <1>4

LEMMA TailVers ==
  ASSUME NEW q \in Seq(Frame), q # <<>>, Ascending(q)
  PROVE  /\ Ascending(Tail(q))
         /\ Head(q).ev # "state" => Vers(Tail(q)) = Vers(q)
         /\ Head(q).ev = "state" => /\ Vers(Tail(q)) = Vers(q) \ {Head(q).ver}
                                    /\ Head(q).ver \in Vers(q)
                                    /\ \A v \in Vers(q) : Head(q).ver <= v
<1> DEFINE p == Tail(q)
           n == Len(q)
<1>1. /\ Head(q) = q[1] /\ n \in Nat \ {0}
      /\ p \in Seq(Frame) /\ Len(p) = n - 1
      /\ \A i \in 1 .. n - 1 : p[i] = q[i + 1]
      /\ \A i \in 2 .. n : i - 1 \in 1 .. n - 1 /\ p[i - 1] = q[i]
      /\ \A i \in 1 .. n : q[i] \in Frame
  BY TailOf, ElementOfSeq
<1> HIDE DEF p
<1>2. \A i \in States(p) : i + 1 \in States(q) /\ p[i] = q[i + 1] /\ i \in Nat /\ i + 1 # 1
  BY <1>1 DEF States
<1>3. \A i \in States(q) : i = 1 \/ (i - 1 \in States(p) /\ p[i - 1] = q[i])
  BY <1>1 DEF States
<1>4. Ascending(p)
  BY <1>2 DEF Ascending
<1>5. CASE Head(q).ev # "state"
  <2>1. 1 \notin States(q)
    BY <1>1, <1>5 DEF States
  <2>2. \A v : v \in Vers(p) <=> v \in Vers(q)
    BY <1>2, <1>3, <2>1 DEF Vers
  <2>3. QED
    BY <1>4, <1>5, <2>2 DEF p
<1>6. CASE Head(q).ev = "state"
  <2>1. 1 \in States(q) /\ \A i \in States(q) : i \in Nat /\ i >= 1 /\ q[i].ver \in Nat
    BY <1>1, <1>6 DEF States, Frame
  <2>2. \A i \in States(q) : i # 1 => q[1].ver < q[i].ver
    BY <2>1 DEF Ascending
  <2>3. \A v : v \in Vers(p) <=> v \in Vers(q) /\ v # q[1].ver
    BY <1>2, <1>3, <2>1, <2>2 DEF Vers
  <2>4. \A v \in Vers(q) : q[1].ver <= v
    BY <2>1, <2>2 DEF Vers
  <2>5. Vers(p) = Vers(q) \ {q[1].ver}
    BY <2>3
  <2>6. q[1].ver \in Vers(q)
    BY <2>1 DEF Vers
  <2>7. QED
    BY <1>1, <1>4, <1>6, <2>4, <2>5, <2>6 DEF p
<1>7. QED
  BY <1>5, <1>6

LEMMA TailEnds ==
  ASSUME NEW q \in Seq(Frame), q # <<>>, NEW ev, NEW S, EndsIn(q, ev, S)
  PROVE  /\ EndsIn(Tail(q), ev, S)
         /\ HasNo(Tail(q), ev) => IF Head(q).ev = ev THEN Head(q) \in S ELSE HasNo(q, ev)
<1> DEFINE p == Tail(q)
           n == Len(q)
<1>1. /\ Head(q) = q[1] /\ n \in Nat \ {0} /\ Len(p) = n - 1
      /\ \A i \in 1 .. n - 1 : p[i] = q[i + 1]
      /\ \A i \in 2 .. n : i - 1 \in 1 .. n - 1 /\ p[i - 1] = q[i]
  BY TailOf
<1> HIDE DEF p
<1>2. ASSUME NEW i \in 1 .. Len(p), LastIs(p, i, ev) PROVE p[i] \in S
  <2>1. i + 1 \in 1 .. n /\ p[i] = q[i + 1]
    BY <1>1
  <2>2. \A j \in i + 2 .. n : j - 1 \in i + 1 .. Len(p) /\ q[j] = p[j - 1]
    BY <1>1
  <2>3. LastIs(q, i + 1, ev)
    BY <1>2, <2>1, <2>2 DEF LastIs
  <2>4. QED
    BY <2>1, <2>3 DEF EndsIn
<1>3. ASSUME HasNo(p, ev) PROVE IF Head(q).ev = ev THEN Head(q) \in S ELSE HasNo(q, ev)
  <2>1. \A i \in 2 .. n : q[i].ev # ev
    BY <1>1, <1>3 DEF HasNo
  <2>2. CASE q[1].ev = ev
    <3>1. LastIs(q, 1, ev)
      BY <2>1, <2>2 DEF LastIs
    <3>2. QED
      BY <1>1, <2>2, <3>1 DEF EndsIn
  <2>3. CASE q[1].ev # ev
    BY <1>1, <2>1, <2>3 DEF HasNo
  <2>4. QED
    BY <2>2, <2>3
<1>4. QED
  BY <1>2, <1>3 DEF EndsIn, p

-----------------------------------------------------------------------------
(* What the moves of RoomFanoutProofs make of the channel of c. *)
LEMMA NoneKicked ==
  ASSUME NEW r, NEW c, ChanOK(r, c), In(r, c)
  PROVE  HasNo(r.chan[c].q, "kicked")
BY DEF ChanOK, HasNo

(* One that is not a member's: it only has to be in order. *)
LEMMA OutOK ==
  ASSUME NEW s, NEW c, ~In(s, c), Ascending(s.chan[c].q),
         \A v \in Vers(s.chan[c].q) : v <= s.version,
         \A i \in 1 .. Len(s.chan[c].q) :
           s.chan[c].q[i].ev = "kicked" => i = Len(s.chan[c].q)
  PROVE  ChanOK(s, c) /\ \A k : ReadOK(s, c, k)
BY DEF ChanOK, ReadOK

LEMMA KickedLast ==
  ASSUME NEW q \in Seq(Frame), HasNo(q, "kicked"), NEW f \in Frame
  PROVE  \A i \in 1 .. Len(Append(q, f)) :
           Append(q, f)[i].ev = "kicked" => i = Len(Append(q, f))
<1>1. /\ Len(Append(q, f)) = Len(q) + 1 /\ Len(q) \in Nat
      /\ \A i \in 1 .. Len(q) : Append(q, f)[i] = q[i]
  BY AppendProperties
<1>2. QED
  BY <1>1 DEF HasNo

LEMMA RosteredKeeps ==
  ASSUME NEW r, WellFormed(r), NEW s, s.version = r.version, s.closed = r.closed,
         NEW c \in Conns, NEW u \in Users, Rostered(r, s, c, u),
         NEW k, ChanOK(r, c), ReadOK(r, c, k)
  PROVE  ChanOK(s, c) /\ ReadOK(s, c, k)
<1> DEFINE q == r.chan[c].q
           p == s.chan[c].q
<1>1. /\ q \in Seq(Frame) /\ Ascending(q) /\ \A v \in Vers(q) : v <= r.version
      /\ In(r, c) => HasNo(q, "kicked")
  BY ChannelOf, NoneKicked DEF ChanOK
<1>2. PICK m \in Frame :
        /\ m.ev = "members" /\ Present(s) \subseteq m.mem
        /\ \/ Got(r, s, c, m)
           \/ /\ r.members[u] = c /\ ~In(s, c)
              /\ p \in {q, Drain(r.chan[c]).q, Append(q, KickedFrame)}
  BY DEF Rostered
<1>3. CASE In(r, c) /\ In(s, c)
  <2>1. p = Append(q, m)
    BY <1>2, <1>3 DEF Got
  <2>2. Vers(p) = Vers(q) /\ Ascending(p)
    BY <1>1, <1>2, <2>1, AppendVers
  <2>3. HasNo(p, "kicked") /\ ~HasNo(p, "members") /\ (HasNo(p, "state") <=> HasNo(q, "state"))
    BY <1>1, <1>2, <1>3, <2>1, AppendHasNo
  <2>4. EndsIn(p, "state", Current(s))
    <3>1. EndsIn(q, "state", Current(s))
      BY <1>3 DEF ChanOK, Current
    <3>2. QED
      BY <1>1, <1>2, <2>1, <3>1, AppendEnds
  <2>5. EndsIn(p, "members", Covering(s))
    BY <1>1, <1>2, <2>1, AppendEnds DEF Covering
  <2>6. ChanOK(s, c)
    BY <1>1, <1>3, <2>2, <2>3, <2>4, <2>5 DEF ChanOK, HasNo
  <2>7. ReadOK(s, c, k)
    BY <1>3, <2>2, <2>3 DEF ReadOK
  <2>8. QED
    BY <2>6, <2>7
<1>4. CASE In(r, c) /\ ~In(s, c) /\ p = q
  <2>1. \A i \in 1 .. Len(p) : p[i].ev = "kicked" => i = Len(p)
    BY <1>1, <1>4 DEF HasNo
  <2>2. QED
    BY <1>1, <1>4, <2>1, OutOK
<1>5. CASE In(r, c) /\ ~In(s, c) /\ p = Drain(r.chan[c]).q
  <2>1. CASE q = <<>>
    BY <1>4, <1>5, <2>1 DEF Drain
  <2>2. CASE q # <<>>
    <3>1. p = Tail(q)
      BY <1>5, <2>2, ChannelOf DEF Drain, Chan
    <3>2. Ascending(p) /\ Vers(p) \subseteq Vers(q)
      BY <1>1, <2>2, <3>1, TailVers
    <3>3. \A i \in 1 .. Len(p) : p[i].ev # "kicked"
      BY <1>1, <1>5, <2>2, <3>1, TailOf DEF HasNo
    <3>4. QED
      BY <1>1, <1>5, <3>2, <3>3, OutOK
  <2>3. QED
    BY <2>1, <2>2
<1>6. CASE In(r, c) /\ ~In(s, c) /\ p = Append(q, KickedFrame)
  <2>1. KickedFrame \in Frame /\ KickedFrame.ev = "kicked"
    BY FrameTypes DEF WellFormed, KickedFrame
  <2>2. Ascending(p) /\ Vers(p) = Vers(q)
    BY <1>1, <1>6, <2>1, AppendVers
  <2>3. \A i \in 1 .. Len(p) : p[i].ev = "kicked" => i = Len(p)
    BY <1>1, <1>6, <2>1, KickedLast
  <2>4. QED
    BY <1>1, <1>6, <2>2, <2>3, OutOK
<1>7. CASE ~In(r, c)
  <2>1. ~In(s, c) /\ p = q
    BY <1>2, <1>7 DEF Got, In
  <2>2. \A i \in 1 .. Len(p) : p[i].ev = "kicked" => i = Len(p)
    BY <2>1 DEF ChanOK
  <2>3. QED
    BY <1>1, <2>1, <2>2, OutOK
<1>8. \/ ~In(r, c)
      \/ In(r, c) /\ In(s, c)
      \/ In(r, c) /\ ~In(s, c) /\ p \in {q, Drain(r.chan[c]).q, Append(q, KickedFrame)}
  BY <1>2 DEF Got, In
<1>9. QED
  BY <1>3, <1>4, <1>5, <1>6, <1>7, <1>8

LEMMA PublishedKeeps ==
  ASSUME NEW r, WellFormed(r), NEW s, WellFormed(s), s.version = r.version + 1,
         NEW c \in Conns, Published(r, s, c), Present(s) \subseteq Present(r),
         NEW k, k.seen \in Nat, ChanOK(r, c), ReadOK(r, c, k)
  PROVE  ChanOK(s, c) /\ ReadOK(s, c, k)
<1> DEFINE q == r.chan[c].q
           p == s.chan[c].q
           st == StateFrame(s)
           n == r.version
           mid == Append(q, st)
<1>1. /\ q \in Seq(Frame) /\ Ascending(q) /\ \A v \in Vers(q) : v <= n
      /\ In(r, c) => HasNo(q, "kicked")
      /\ n \in Nat /\ s.version = n + 1 /\ Vers(q) \subseteq Nat
  <2>1. q \in Seq(Frame) /\ n \in Nat
    BY ChannelOf DEF WellFormed, Room
  <2>2. \A i \in 1 .. Len(q) : q[i] \in Frame
    BY <2>1, ElementOfSeq
  <2>3. Vers(q) \subseteq Nat
    BY <2>2 DEF Vers, States, Frame
  <2>4. QED
    BY <2>1, <2>3, NoneKicked DEF ChanOK
<1>2. st \in Frame /\ st.ev = "state" /\ st.ver = n + 1 /\ st \in Current(s)
  <2>1. st \in Frame
    BY FrameTypes DEF WellFormed
  <2>2. QED
    BY <1>1, <2>1 DEF StateFrame, Current
<1> HIDE DEF st
<1>3. /\ mid \in Seq(Frame) /\ Len(mid) = Len(q) + 1
      /\ Vers(mid) = Vers(q) \cup {n + 1} /\ Ascending(mid)
  <2>1. \A v \in Vers(q) : v < st.ver
    BY <1>1, <1>2
  <2>2. QED
    BY <1>1, <1>2, <2>1, AppendVers
<1>4. \A v \in Vers(q) \cup {n + 1} : v <= n + 1
  BY <1>1
<1>5. CASE ~In(r, c) /\ ~In(s, c) /\ p = q
  <2>1. \A i \in 1 .. Len(p) : p[i].ev = "kicked" => i = Len(p)
    BY <1>5 DEF ChanOK
  <2>2. QED
    BY <1>1, <1>4, <1>5, <2>1, OutOK
<1>6. CASE In(r, c) /\ ~In(s, c) /\ p = q
  <2>1. \A i \in 1 .. Len(p) : p[i].ev = "kicked" => i = Len(p)
    BY <1>1, <1>6 DEF HasNo
  <2>2. QED
    BY <1>1, <1>4, <1>6, <2>1, OutOK
<1>7. CASE In(r, c) /\ ~In(s, c) /\ p = mid
  <2>1. \A i \in 1 .. Len(p) : p[i].ev = "kicked" => i = Len(p)
    BY <1>1, <1>2, <1>7, KickedLast
  <2>2. QED
    BY <1>1, <1>3, <1>4, <1>7, <2>1, OutOK
<1>8. ASSUME In(r, c), In(s, c), NEW f \in Frame, p = Append(mid, f),
             f.ev \in {"members", "closed"}, f.ev = "members" => Present(s) \subseteq f.mem
      PROVE  ChanOK(s, c) /\ ReadOK(s, c, k)
  <2>1. Vers(p) = Vers(q) \cup {n + 1} /\ Ascending(p)
    BY <1>3, <1>8, AppendVers
  <2>2. HasNo(mid, "kicked") /\ ~HasNo(mid, "state")
        /\ (HasNo(mid, "members") <=> HasNo(q, "members"))
    BY <1>1, <1>2, <1>8, AppendHasNo
  <2>3. HasNo(p, "kicked") /\ ~HasNo(p, "state")
        /\ (HasNo(p, "members") => HasNo(q, "members"))
    <3> HIDE DEF mid
    <3>1. \A ev : HasNo(Append(mid, f), ev) <=> HasNo(mid, ev) /\ f.ev # ev
      BY <1>3, AppendHasNo
    <3>2. f.ev # "kicked" /\ f.ev # "state"
      BY <1>8
    <3>3. QED
      BY <1>8, <2>2, <3>1, <3>2
  <2>4. EndsIn(p, "state", Current(s))
    <3>1. EndsIn(mid, "state", Current(s))
      BY <1>1, <1>2, AppendEnds
    <3>2. QED
      BY <1>3, <1>8, <3>1, AppendEnds
  <2>5. EndsIn(p, "members", Covering(s))
    <3>1. EndsIn(q, "members", Covering(s))
      BY <1>8 DEF ChanOK, EndsIn, Covering
    <3>2. EndsIn(mid, "members", Covering(s))
      BY <1>1, <1>2, <3>1, AppendEnds
    <3>3. f.ev = "members" => f \in Covering(s)
      BY <1>8 DEF Covering
    <3>4. QED
      BY <1>3, <1>8, <3>2, <3>3, AppendEnds
  <2>6. \A v \in Vers(p) : v + 1 .. n + 1 \subseteq Vers(p)
    <3> SUFFICES ASSUME NEW v \in Vers(p), NEW w \in v + 1 .. n + 1 PROVE w \in Vers(p)
      OBVIOUS
    <3>1. v \in Nat /\ (v \in Vers(q) \/ v = n + 1)
      BY <1>1, <2>1
    <3>2. CASE w = n + 1
      BY <2>1, <3>2
    <3>3. CASE w # n + 1
      <4>1. w \in v + 1 .. n /\ v # n + 1
        BY <1>1, <3>1, <3>3
      <4>2. QED
        BY <1>8, <2>1, <3>1, <4>1 DEF ChanOK
    <3>4. QED
      BY <3>2, <3>3
  <2>7. ChanOK(s, c)
    BY <1>1, <1>4, <1>8, <2>1, <2>3, <2>4, <2>5, <2>6 DEF ChanOK, HasNo
  <2>8. ReadOK(s, c, k)
    <3> SUFFICES ASSUME k.pc = "loop"
                 PROVE  /\ k.seen + 1 .. n + 1 \subseteq Vers(p)
                        /\ HasNo(p, "members") => Present(s) \subseteq k.roster
      BY <1>1, <2>3 DEF ReadOK
    <3>1. \A w \in k.seen + 1 .. n + 1 : w = n + 1 \/ w \in k.seen + 1 .. n
      BY <1>1
    <3>2. k.seen + 1 .. n + 1 \subseteq Vers(p)
      BY <1>8, <2>1, <3>1 DEF ReadOK
    <3>3. QED
      BY <1>8, <2>3, <3>2 DEF ReadOK
  <2>9. QED
    BY <2>7, <2>8
<1>9. PICK f \in Frame :
        /\ f.ev \in {"members", "closed"}
        /\ f.ev = "members" => Present(s) \subseteq f.mem
        /\ \/ ~In(r, c) /\ ~In(s, c) /\ p = q
           \/ In(r, c) /\ In(s, c) /\ p = Append(mid, f)
           \/ In(r, c) /\ ~In(s, c) /\ (p = q \/ p = mid)
  BY DEF Published, st
<1> HIDE DEF mid
<1>10. QED
  BY <1>5, <1>6, <1>7, <1>8, <1>9

-----------------------------------------------------------------------------
(* What the steps of the handlers do to the channels of all connections. *)
LEMMA JoinMoves ==
  ASSUME IInv, NEW c \in Conns, EventsJoin(c)
  PROVE  /\ room'.version = room.version /\ room'.closed = room.closed
         /\ \A d \in Conns \ {c} : Rostered(room, room', d, UserOf[c])
         /\ In(room', c)
         /\ \E m \in Frame : /\ m.ev = "members" /\ Present(room') \subseteq m.mem
                             /\ room'.chan[c].q = <<m>>
<1>1. /\ WellFormed(room) /\ UserOf[c] \in Users /\ room' = AddMember(room, UserOf[c], c)
      /\ \A v \in Users : room.members[v] # c
  BY ListenAssumption DEF IInv, Owned, EventsJoin
<1>2. room'.version = room.version /\ room'.closed = room.closed
  BY <1>1, AddMemberKeeps
<1>3. \A d \in Conns :
        /\ d # c => Rostered(room, room', d, UserOf[c])
        /\ d = c => /\ In(room', d)
                    /\ \E m \in Frame : /\ m.ev = "members" /\ Present(room') \subseteq m.mem
                                        /\ room'.chan[d].q = <<m>>
  BY <1>1, AddMemberMoves
<1>4. QED
  BY <1>2, <1>3

LEMMA TeardownMoves ==
  ASSUME IInv, NEW c \in Conns, StreamRemove(c)
  PROVE  /\ room'.version = room.version /\ room'.closed = room.closed
         /\ \A d \in Conns \ {c} : Rostered(room, room', d, UserOf[c])
         /\ ~In(room', c) /\ room'.chan[c].q = <<>>
<1> DEFINE r == RemoveMember(room, UserOf[c])
<1>1. /\ WellFormed(room) /\ UserOf[c] \in Users /\ c \in Recs /\ c # None
      /\ room' = [r EXCEPT !.chan[c].q = <<>>]
      /\ \A v \in Users : room.members[v] = c => v = UserOf[c]
  BY ListenAssumption, FanoutAssumption DEF IInv, Owned, StreamRemove, Recs
<1>2. /\ WellFormed(r) /\ Shrinks(room, r) /\ r.members[UserOf[c]] = None
      /\ r.version = room.version /\ r.closed = room.closed
  BY <1>1, RemoveMemberKeeps
<1>3. \A d \in Conns : Rostered(room, r, d, UserOf[c])
  BY <1>1, RemoveMemberMoves
<1> HIDE DEF r
<1>4. /\ r \in Room /\ r.chan \in [Recs -> Chan]
  BY <1>2 DEF WellFormed, Room
<1>5. /\ room'.members = r.members /\ room'.version = r.version /\ room'.closed = r.closed
      /\ room'.chan[c].q = <<>>
      /\ \A d \in Conns \ {c} : room'.chan[d] = r.chan[d]
  BY <1>1, <1>4 DEF Room, Chan, Recs
<1>6. ~In(room', c)
  BY <1>1, <1>2, <1>5 DEF In, Shrinks
<1>7. ASSUME NEW d \in Conns \ {c} PROVE Rostered(room, room', d, UserOf[c])
  <2>1. Present(room') = Present(r) /\ (In(room', d) <=> In(r, d)) /\ room'.chan[d] = r.chan[d]
    BY <1>5 DEF Present, In
  <2>2. Rostered(room, r, d, UserOf[c])
    BY <1>3
  <2>3. QED
    BY <2>1, <2>2 DEF Rostered, Got
<1>8. QED
  BY <1>2, <1>5, <1>6, <1>7

(* A request that changes the room without a new version acts on the place *)
(* of its user, or of the user it kicks.                                   *)
ActsOn(k, u) ==
  \/ k.user = u /\ k.pc \in {"join", "leave", "readd"}
  \/ k.target = u /\ k.pc = "kick"

LEMMA ReqMoves ==
  ASSUME IInv, ReqOK, NEW q \in Reqs,
         (\E u \in Users : RequestArrives(q, u)) \/ ReqStep(q)
  PROVE  \/ UNCHANGED room
         \/ \E u \in Users :
              /\ room'.version = room.version /\ room'.closed = room.closed
              /\ \A c \in Conns : Rostered(room, room', c, u)
              /\ ActsOn(req[q], u) /\ req'[q] # req[q]
         \/ /\ room'.version = room.version + 1
            /\ Present(room') \subseteq Present(room)
            /\ \A c \in Conns : Published(room, room', c)
<1>1. /\ WellFormed(room)
      /\ \A p \in Reqs : req[p].pc # "idle" => req[p].user \in Users
      /\ \A p \in Reqs : req[p].pc = "kick" => req[p].target \in Users
      /\ req \in [Reqs -> [pc     : {"idle", "join", "leave"} \cup CommandPcs,
                           user   : Users \cup {None},
                           cmd    : Cmds,
                           target : Users \cup {None}]]
  BY DEF IInv, ReqOK, TypeOK
<1>2. CASE (\E u \in Users : RequestArrives(q, u)) \/ CmdCheck(q)
  BY <1>2 DEF RequestArrives, CmdCheck
<1>3. CASE JoinAdd(q) \/ CmdReAdd(q)
  <2> DEFINE u == req[q].user
  <2>1. /\ u \in Users /\ u \notin Conns /\ room' = AddMember(room, u, u)
        /\ req[q].pc \in {"join", "readd"}
    BY <1>1, <1>3, FanoutAssumption DEF JoinAdd, CmdReAdd
  <2>2. req'[q].pc \in {"idle", "apply"}
    <3>1. Done(q) \/ Goto(q, "apply")
      BY <1>3 DEF JoinAdd, CmdReAdd
    <3>2. QED
      BY <1>1, <3>1 DEF Done, Goto, IdleReq
  <2> HIDE DEF u
  <2>3. room'.version = room.version /\ room'.closed = room.closed
    BY <1>1, <2>1, AddMemberKeeps
  <2>4. \A c \in Conns : Rostered(room, room', c, u)
    BY <1>1, <2>1, AddMemberMoves
  <2>5. ActsOn(req[q], u) /\ req'[q] # req[q]
    BY <2>1, <2>2 DEF ActsOn, u
  <2>6. QED
    BY <2>1, <2>3, <2>4, <2>5
<1>4. CASE LeaveRemove(q)
  <2> DEFINE u == req[q].user
  <2>1. u \in Users /\ room' = RemoveMember(room, u) /\ req[q].pc = "leave"
    BY <1>1, <1>4 DEF LeaveRemove
  <2>2. req'[q].pc = "idle"
    BY <1>1, <1>4 DEF LeaveRemove, Done, IdleReq
  <2> HIDE DEF u
  <2>3. room'.version = room.version /\ room'.closed = room.closed
    BY <1>1, <2>1, RemoveMemberKeeps
  <2>4. \A c \in Conns : Rostered(room, room', c, u)
    BY <1>1, <2>1, RemoveMemberMoves
  <2>5. ActsOn(req[q], u) /\ req'[q] # req[q]
    BY <2>1, <2>2 DEF ActsOn, u
  <2>6. QED
    BY <2>1, <2>3, <2>4, <2>5
<1>5. CASE CmdKick(q)
  <2> DEFINE u == req[q].target
  <2>1. u \in Users /\ room' = KickMember(room, u) /\ req[q].pc = "kick"
    BY <1>1, <1>5 DEF CmdKick
  <2>2. req'[q].pc = "idle"
    BY <1>1, <1>5 DEF CmdKick, Done, IdleReq
  <2> HIDE DEF u
  <2>3. room'.version = room.version /\ room'.closed = room.closed
    BY <1>1, <2>1, KickMemberKeeps
  <2>4. \A c \in Conns : Rostered(room, room', c, u)
    BY <1>1, <2>1, KickMemberMoves
  <2>5. ActsOn(req[q], u) /\ req'[q] # req[q]
    BY <2>1, <2>2 DEF ActsOn, u
  <2>6. QED
    BY <2>1, <2>3, <2>4, <2>5
<1>6. CASE CmdApply(q)
  <2>1. \/ UNCHANGED room
        \/ room' = ApplyClose(room)
        \/ room' = ApplyBroadcast(room)
    BY <1>6 DEF CmdApply
  <2>2. CASE room' = ApplyClose(room) \/ room' = ApplyBroadcast(room)
    <3>1. Present(room') \subseteq Present(room)
      BY <1>1, <2>2, ApplyKeeps, ShrinksPresent
    <3>2. room'.version = room.version + 1
      BY <1>1, <2>2, ApplyKeeps
    <3>3. ASSUME NEW c \in Conns PROVE Published(room, room', c)
      <4>1. /\ Published(room, ApplyBroadcast(room), c)
            /\ Published(room, ApplyClose(room), c)
        BY <1>1, ApplyMoves
      <4>2. QED
        BY <2>2, <4>1
    <3>4. QED
      BY <3>1, <3>2, <3>3
  <2>3. QED
    BY <2>1, <2>2
<1>7. QED
  BY <1>2, <1>3, <1>4, <1>5, <1>6 DEF ReqStep

(* Nothing happened to it, or its reader took the first frame. *)
LEMMA SameKeeps ==
  ASSUME NEW r, NEW s, NEW c, s.chan[c].q = r.chan[c].q, s.members = r.members,
         s.version = r.version, s.closed = r.closed, ChanOK(r, c)
  PROVE  ChanOK(s, c) /\ \A k : ReadOK(r, c, k) => ReadOK(s, c, k)
<1>1. /\ In(s, c) <=> In(r, c)
      /\ Current(s) = Current(r) /\ Covering(s) = Covering(r) /\ Present(s) = Present(r)
  BY DEF In, Current, Covering, Present
<1>2. QED
  BY <1>1 DEF ChanOK, ReadOK

LEMMA TailKeeps ==
  ASSUME NEW r, WellFormed(r), NEW c \in Conns, r.chan[c].q # <<>>,
         NEW s, s.chan[c].q = Tail(r.chan[c].q), s.members = r.members,
         s.version = r.version, s.closed = r.closed, ChanOK(r, c)
  PROVE  ChanOK(s, c)
<1> DEFINE q == r.chan[c].q
           p == s.chan[c].q
<1>1. /\ q \in Seq(Frame) /\ q # <<>> /\ p = Tail(q) /\ Ascending(q) /\ r.version \in Nat
      /\ \A v \in Vers(q) : v <= r.version
      /\ In(s, c) <=> In(r, c)
      /\ Current(s) = Current(r) /\ Covering(s) = Covering(r)
  BY ChannelOf DEF ChanOK, In, Current, Covering, Present, WellFormed, Room
<1>2. /\ Ascending(p) /\ Vers(p) \subseteq Vers(q)
      /\ \A v \in Vers(p), w \in Vers(q) : w > v => w \in Vers(p)
  <2>1. /\ Ascending(p)
        /\ Head(q).ev # "state" => Vers(p) = Vers(q)
        /\ Head(q).ev = "state" => /\ Vers(p) = Vers(q) \ {Head(q).ver}
                                   /\ \A v \in Vers(q) : Head(q).ver <= v
    BY <1>1, TailVers
  <2>2. Vers(q) \subseteq Nat
    BY <1>1, VersType
  <2>3. CASE Head(q).ev # "state"
    BY <2>1, <2>3
  <2>4. CASE Head(q).ev = "state"
    BY <2>1, <2>2, <2>4, TailVers, <1>1
  <2>5. QED
    BY <2>3, <2>4
<1>3. \A i \in 1 .. Len(p) : p[i].ev = "kicked" => i = Len(p) /\ ~In(r, c)
  <2>1. /\ Len(q) \in Nat \ {0} /\ Len(p) = Len(q) - 1
        /\ \A i \in 1 .. Len(q) - 1 : p[i] = q[i + 1]
    BY <1>1, TailOf
  <2>2. \A i \in 1 .. Len(q) : q[i].ev = "kicked" => i = Len(q) /\ ~In(r, c)
    BY DEF ChanOK
  <2> HIDE DEF p, q
  <2>3. QED
    BY <2>1, <2>2
<1>4. ASSUME In(r, c)
      PROVE  /\ \A v \in Vers(p) : v + 1 .. r.version \subseteq Vers(p)
             /\ EndsIn(p, "state", Current(r))
             /\ EndsIn(p, "members", Covering(r))
  <2>1. /\ \A v \in Vers(q) : v + 1 .. r.version \subseteq Vers(q)
        /\ EndsIn(q, "state", Current(r)) /\ EndsIn(q, "members", Covering(r))
    BY <1>4 DEF ChanOK
  <2>2. Vers(q) \subseteq Nat
    BY <1>1, VersType
  <2>3. \A v \in Vers(p) : v + 1 .. r.version \subseteq Vers(p)
    BY <1>1, <1>2, <2>1, <2>2
  <2>4. QED
    BY <1>1, <2>1, <2>3, TailEnds
<1>5. QED
  BY <1>1, <1>2, <1>3, <1>4 DEF ChanOK

LEMMA WrittenKeeps ==
  ASSUME NEW r, WellFormed(r), NEW c \in Conns, r.chan[c].q # <<>>,
         NEW s, s.chan[c].q = Tail(r.chan[c].q), s.members = r.members,
         s.version = r.version, s.closed = r.closed, ChanOK(r, c),
         ReadOK(r, c, conn[c]), TypeOK
  PROVE  ReadOK(s, c, Written(conn[c], Head(r.chan[c].q)))
<1> DEFINE q == r.chan[c].q
           p == s.chan[c].q
           k == conn[c]
           f == Head(q)
<1>1. /\ q \in Seq(Frame) /\ q # <<>> /\ p = Tail(q) /\ Ascending(q) /\ r.version \in Nat
      /\ In(s, c) <=> In(r, c)
      /\ Present(s) = Present(r)
      /\ f \in Frame
  BY ChannelOf, TailOf DEF ChanOK, In, Present, WellFormed, Room
<1>2. k \in [pc     : {"idle", "auth", "greet", "loop", "remove"},
             alive  : BOOLEAN, seen : Nat, over : BOOLEAN, roster : SUBSET Users]
  BY DEF TypeOK
<1> HIDE DEF k, f
<1> SUFFICES ASSUME In(r, c), Written(k, f).pc = "loop"
             PROVE  LET w == Written(k, f)
                    IN /\ w.seen + 1 .. r.version \subseteq Vers(p)
                       /\ HasNo(p, "state") => w.seen = r.version /\ w.over = r.closed
                       /\ HasNo(p, "members") => Present(r) \subseteq w.roster
  BY <1>1 DEF ReadOK, k, f
<1>3. k.pc = "loop"
  BY <1>2 DEF Written
<1>4. /\ EndsIn(q, "state", Current(r)) /\ EndsIn(q, "members", Covering(r))
      /\ \A v \in Vers(q) : v + 1 .. r.version \subseteq Vers(q)
      /\ k.seen + 1 .. r.version \subseteq Vers(q)
      /\ HasNo(q, "state") => k.seen = r.version /\ k.over = r.closed
      /\ HasNo(q, "members") => Present(r) \subseteq k.roster
  BY <1>3 DEF ChanOK, ReadOK, k
<1>5. \A ev, S : EndsIn(q, ev, S) /\ HasNo(p, ev) =>
                   IF f.ev = ev THEN f \in S ELSE HasNo(q, ev)
  BY <1>1, TailEnds DEF f
<1>6. CASE f.ev = "state"
  <2>1. /\ Written(k, f).seen = f.ver /\ Written(k, f).over = f.closed
        /\ Written(k, f).roster = k.roster
    BY <1>2, <1>6 DEF Written
  <2>2. Vers(p) = Vers(q) \ {f.ver} /\ f.ver \in Vers(q) /\ f.ver \in Nat
    BY <1>1, <1>6, TailVers DEF f, Frame
  <2>3. f.ver + 1 .. r.version \subseteq Vers(p)
    BY <1>1, <1>4, <2>2
  <2>4. HasNo(p, "state") => f.ver = r.version /\ f.closed = r.closed
    BY <1>4, <1>5, <1>6 DEF Current
  <2>5. HasNo(p, "members") => Present(r) \subseteq k.roster
    BY <1>4, <1>5, <1>6
  <2>6. QED
    BY <2>1, <2>3, <2>4, <2>5
<1>7. CASE f.ev # "state"
  <2>1. Written(k, f).seen = k.seen /\ Written(k, f).over = k.over
    BY <1>2, <1>7 DEF Written
  <2>2. Vers(p) = Vers(q)
    BY <1>1, <1>7, TailVers DEF f
  <2>3. HasNo(p, "state") => k.seen = r.version /\ k.over = r.closed
    BY <1>4, <1>5, <1>7
  <2>4. HasNo(p, "members") => Present(r) \subseteq Written(k, f).roster
    <3>1. CASE f.ev = "members"
      <4>1. Written(k, f).roster = f.mem
        BY <1>2, <3>1 DEF Written
      <4>2. QED
        BY <1>4, <1>5, <3>1, <4>1 DEF Covering
    <3>2. CASE f.ev # "members"
      <4>1. Written(k, f).roster = k.roster
        BY <1>2, <1>7, <3>2 DEF Written
      <4>2. QED
        BY <1>4, <1>5, <3>2, <4>1
    <3>3. QED
      BY <3>1, <3>2
  <2>5. QED
    BY <1>4, <2>1, <2>2, <2>3, <2>4
<1>8. QED
  BY <1>6, <1>7

-----------------------------------------------------------------------------
(* SInv is inductive. *)
LEMMA InitSInv == Init => SInv
<1> SUFFICES ASSUME Init PROVE SInv
  OBVIOUS
<1>1. IInv /\ ReqOK
  BY InitIInv DEF Init, ReqOK, IdleReq
<1>2. /\ WellFormed(EmptyRoom) /\ Host \in Users
      /\ room = AddMember(EmptyRoom, Host, Host)
      /\ \A v \in Users : EmptyRoom.members[v] = None
      /\ \A c \in Conns : c # Host /\ EmptyRoom.chan[c].q = <<>>
      /\ EmptyRoom.version = 0 /\ EmptyRoom.closed = FALSE
  BY EmptyWellFormed, ListenAssumption, FanoutAssumption
     DEF Init, EmptyRoom, Recs, Dead
<1>3. room.version = EmptyRoom.version /\ room.closed = EmptyRoom.closed
  BY <1>2, AddMemberKeeps
<1>4. ASSUME NEW c \in Conns
      PROVE  ChanOK(room, c) /\ ReadOK(room, c, conn[c]) /\ Unsent(conn[c])
  <2>1. Rostered(EmptyRoom, room, c, Host)
    BY <1>2, AddMemberMoves
  <2>2. ~In(EmptyRoom, c)
    BY <1>2, FanoutAssumption DEF In
  <2>3. ChanOK(EmptyRoom, c) /\ ReadOK(EmptyRoom, c, conn[c])
    <3>1. Len(EmptyRoom.chan[c].q) = 0
      BY <1>2
    <3>2. QED
      BY <2>2, <3>1, OutOK DEF Ascending, Vers, States
  <2>4. ChanOK(room, c) /\ ReadOK(room, c, conn[c])
    BY <1>2, <1>3, <2>1, <2>3, RosteredKeeps
  <2>5. Unsent(conn[c])
    BY DEF Init, IdleConn, Unsent
  <2>6. QED
    BY <2>4, <2>5
<1>5. KickOK
  BY DEF Init, IdleReq, KickOK, CommandPcs
<1>6. QED
  BY <1>1, <1>4, <1>5 DEF SInv, StreamsOK

(* A reader takes the first frame of its own channel. *)
LEMMA FrameMoves ==
  ASSUME IInv, NEW c \in Conns, StreamFrame(c) \/ StreamWriteError(c)
  PROVE  /\ room.chan[c].q # <<>>
         /\ room'.chan[c].q = Tail(room.chan[c].q)
         /\ room'.members = room.members
         /\ room'.version = room.version /\ room'.closed = room.closed
         /\ \A d \in Conns \ {c} : room'.chan[d].q = room.chan[d].q
<1> DEFINE q == room.chan[c].q
<1>1. /\ c \in Recs /\ room.chan \in [Recs -> Chan] /\ room \in Room
      /\ q # <<>> /\ room' = [room EXCEPT !.chan[c].q = Tail(q)]
  BY DEF IInv, WellFormed, Room, Recs, StreamFrame, StreamWriteError
<1> HIDE DEF q
<1>2. /\ room'.chan = [room.chan EXCEPT ![c].q = Tail(q)]
      /\ room'.members = room.members
      /\ room'.version = room.version /\ room'.closed = room.closed
  BY <1>1 DEF Room
<1>3. room'.chan[c].q = Tail(q) /\ \A d \in Conns \ {c} : room'.chan[d] = room.chan[d]
  BY <1>1, <1>2 DEF Chan, Recs
<1>4. QED
  BY <1>1, <1>2, <1>3 DEF q

LEMMA ConnStreams ==
  ASSUME IInv, StreamsOK, NEW c \in Conns,
         EventsLookup(c) \/ ConnStep(c) \/ ClientDrop(c)
  PROVE  StreamsOK'
<1> DEFINE OK(d) == ChanOK(room', d) /\ ReadOK(room', d, conn'[d]) /\ Unsent(conn'[d])
<1>1. /\ conn \in [Conns -> [pc     : {"idle", "auth", "greet", "loop", "remove"},
                             alive  : BOOLEAN,
                             seen   : Nat,
                             over   : BOOLEAN,
                             roster : SUBSET Users]]
      /\ WellFormed(room) /\ TypeOK
      /\ \A d \in Conns : ChanOK(room, d) /\ ReadOK(room, d, conn[d]) /\ Unsent(conn[d])
  BY DEF IInv, TypeOK, StreamsOK
<1>2. \A d \in Conns \ {c} : conn'[d] = conn[d]
  BY <1>1 DEF EventsLookup, ConnStep, ClientDrop, EventsReject, EventsJoin,
              EventsGreet, StreamFrame, StreamWriteError, StreamGone,
              StreamClosed, StreamRemove
<1>3. SUFFICES \A d \in Conns : OK(d)
  BY DEF StreamsOK
<1>4. ASSUME \/ EventsLookup(c) \/ EventsReject(c) \/ EventsGreet(c)
             \/ StreamGone(c) \/ StreamClosed(c) \/ ClientDrop(c)
      PROVE  \A d \in Conns : OK(d)
  <2>1. room' = room
    BY <1>4 DEF EventsLookup, EventsReject, EventsGreet, StreamGone, StreamClosed,
                ClientDrop
  <2>2. ReadOK(room, c, conn'[c]) /\ Unsent(conn'[c])
    <3>1. CASE EventsGreet(c)
      <4>1. /\ conn'[c].pc = "loop" /\ conn'[c].seen = room.version
            /\ conn'[c].over = room.closed /\ conn'[c].roster = Present(room)
            /\ room.version \in Nat
        BY <1>1, <3>1 DEF EventsGreet, WellFormed, Room
      <4>2. QED
        BY <4>1 DEF ReadOK, Unsent
    <3>2. CASE ClientDrop(c)
      BY <1>1, <3>2 DEF ClientDrop, ReadOK, Unsent
    <3>3. CASE \/ EventsLookup(c) \/ EventsReject(c) \/ StreamGone(c) \/ StreamClosed(c)
      <4>1. conn'[c].pc \in {"idle", "auth", "remove"} /\ conn'[c].seen = 0
        <5>1. CASE EventsLookup(c)
          BY <1>1, <5>1 DEF EventsLookup, IdleConn
        <5>2. CASE EventsReject(c) \/ StreamClosed(c)
          BY <1>1, <5>2 DEF EventsReject, StreamClosed, IdleConn
        <5>3. CASE StreamGone(c)
          BY <1>1, <5>3 DEF StreamGone, IdleConn
        <5>4. QED
          BY <3>3, <5>1, <5>2, <5>3
      <4>2. QED
        BY <4>1 DEF ReadOK, Unsent
    <3>4. QED
      BY <1>4, <3>1, <3>2, <3>3
  <2>3. QED
    BY <1>1, <1>2, <2>1, <2>2
<1>5. CASE EventsJoin(c)
  <2>1. /\ room'.version = room.version /\ room'.closed = room.closed
        /\ \A d \in Conns \ {c} : Rostered(room, room', d, UserOf[c])
        /\ In(room', c)
    BY <1>5, JoinMoves
  <2>2. PICK m \in Frame : /\ m.ev = "members" /\ Present(room') \subseteq m.mem
                           /\ room'.chan[c].q = <<m>>
    BY <1>5, JoinMoves
  <2>3. ChanOK(room', c)
    <3>1. room'.chan[c].q[1] = m /\ Len(room'.chan[c].q) = 1
      BY <2>2
    <3>2. \A i \in 1 .. Len(room'.chan[c].q) : room'.chan[c].q[i] = m
      BY <3>1
    <3>3. States(room'.chan[c].q) = {}
      BY <2>2, <3>2 DEF States
    <3>4. m \in Covering(room')
      BY <2>2 DEF Covering
    <3>5. QED
      BY <2>2, <3>2, <3>3, <3>4 DEF ChanOK, Ascending, Vers, EndsIn, LastIs
  <2>4. conn'[c].pc = "greet"
    BY <1>1, <1>5 DEF EventsJoin
  <2>5. \A d \in Conns \ {c} : ChanOK(room', d) /\ ReadOK(room', d, conn[d])
    BY <1>1, <2>1, ListenAssumption, RosteredKeeps
  <2>6. QED
    BY <1>1, <1>2, <2>3, <2>4, <2>5 DEF ReadOK, Unsent
<1>6. CASE StreamFrame(c) \/ StreamWriteError(c)
  <2>1. /\ room.chan[c].q # <<>>
        /\ room'.chan[c].q = Tail(room.chan[c].q)
        /\ room'.members = room.members
        /\ room'.version = room.version /\ room'.closed = room.closed
        /\ \A d \in Conns \ {c} : room'.chan[d].q = room.chan[d].q
    BY <1>6, FrameMoves
  <2>2. \A d \in Conns \ {c} : ChanOK(room', d) /\ ReadOK(room', d, conn[d])
    BY <1>1, <2>1, SameKeeps
  <2>3. ChanOK(room', c)
    BY <1>1, <2>1, TailKeeps
  <2>4. ReadOK(room', c, conn'[c]) /\ Unsent(conn'[c])
    <3>1. CASE StreamFrame(c)
      <4>1. /\ conn'[c] = Written(conn[c], Head(room.chan[c].q)) /\ conn[c].pc = "loop"
        BY <1>1, <3>1 DEF StreamFrame
      <4>2. ReadOK(room', c, conn'[c])
        BY <1>1, <2>1, <4>1, WrittenKeeps
      <4>3. conn'[c].pc = "loop"
        BY <1>1, <4>1 DEF Written
      <4>4. QED
        BY <4>2, <4>3 DEF Unsent
    <3>2. CASE StreamWriteError(c)
      <4>1. conn'[c].pc = "remove"
        BY <1>1, <3>2 DEF StreamWriteError
      <4>2. QED
        BY <4>1 DEF ReadOK, Unsent
    <3>3. QED
      BY <1>6, <3>1, <3>2
  <2>5. QED
    BY <1>1, <1>2, <2>2, <2>3, <2>4
<1>7. CASE StreamRemove(c)
  <2>1. /\ room'.version = room.version /\ room'.closed = room.closed
        /\ \A d \in Conns \ {c} : Rostered(room, room', d, UserOf[c])
        /\ ~In(room', c) /\ room'.chan[c].q = <<>>
    BY <1>7, TeardownMoves
  <2>2. ChanOK(room', c) /\ ReadOK(room', c, conn'[c])
    <3>1. Len(room'.chan[c].q) = 0
      BY <2>1
    <3>2. QED
      BY <2>1, <3>1, OutOK DEF Ascending, Vers, States
  <2>3. Unsent(conn'[c])
    BY <1>1, <1>7 DEF StreamRemove, IdleConn, Unsent
  <2>4. \A d \in Conns \ {c} : ChanOK(room', d) /\ ReadOK(room', d, conn[d])
    BY <1>1, <2>1, ListenAssumption, RosteredKeeps
  <2>5. QED
    BY <1>1, <1>2, <2>2, <2>3, <2>4
<1>8. QED
  BY <1>4, <1>5, <1>6, <1>7 DEF ConnStep

LEMMA ReqStreams ==
  ASSUME IInv, ReqOK, StreamsOK, NEW q \in Reqs,
         (\E u \in Users : RequestArrives(q, u)) \/ ReqStep(q)
  PROVE  StreamsOK'
<1>1. conn' = conn
  BY DEF RequestArrives, ReqStep, JoinAdd, LeaveRemove, CmdCheck, CmdReAdd, CmdApply, CmdKick
<1>2. /\ WellFormed(room) /\ WellFormed(room')
      /\ \A c \in Conns : /\ ChanOK(room, c) /\ ReadOK(room, c, conn[c]) /\ Unsent(conn[c])
                          /\ conn[c].seen \in Nat
  BY ReqIInv DEF IInv, StreamsOK, TypeOK
<1>3. \A c \in Conns : ChanOK(room', c) /\ ReadOK(room', c, conn[c])
  <2>1. CASE UNCHANGED room
    BY <1>2, <2>1
  <2>2. ASSUME NEW u \in Users, room'.version = room.version, room'.closed = room.closed,
               \A c \in Conns : Rostered(room, room', c, u)
        PROVE  \A c \in Conns : ChanOK(room', c) /\ ReadOK(room', c, conn[c])
    BY <1>2, <2>2, RosteredKeeps
  <2>3. CASE /\ room'.version = room.version + 1
             /\ Present(room') \subseteq Present(room)
             /\ \A c \in Conns : Published(room, room', c)
    BY <1>2, <2>3, PublishedKeeps
  <2>4. QED
    BY <2>1, <2>2, <2>3, ReqMoves
<1>4. QED
  BY <1>1, <1>2, <1>3 DEF StreamsOK

LEMMA ReqKicks ==
  ASSUME IInv, KickOK, NEW q \in Reqs,
         (\E u \in Users : RequestArrives(q, u)) \/ ReqStep(q)
  PROVE  KickOK'
<1>1. req \in [Reqs -> [pc     : {"idle", "join", "leave"} \cup CommandPcs,
                        user   : Users \cup {None},
                        cmd    : Cmds,
                        target : Users \cup {None}]]
  BY DEF IInv, TypeOK
<1>2. \A p \in Reqs \ {q} : req'[p] = req[p]
  BY <1>1 DEF RequestArrives, ReqStep, JoinAdd, LeaveRemove, CmdCheck, CmdReAdd,
              CmdApply, CmdKick, Done, Goto
<1>3. /\ req'[q].pc \in CommandPcs => (req'[q].cmd = "kick" <=> req'[q].target # None)
      /\ req'[q].pc = "kick" => req'[q].user = Host
  <2>1. CASE Done(q)
    BY <1>1, <2>1 DEF Done, IdleReq, CommandPcs
  <2>2. ASSUME NEW pc \in {"apply", "readd"}, Goto(q, pc), req[q].pc \in CommandPcs
        PROVE  <1>3!1 /\ <1>3!2
    BY <1>1, <2>2 DEF Goto, KickOK
  <2>3. CASE CmdApply(q) /\ Goto(q, "kick")
    <3>1. /\ req[q].pc = "apply" /\ ~Refused(req[q]) /\ req[q].target # None
      BY <1>1, <2>3 DEF CmdApply, Done, Goto, IdleReq
    <3>2. req[q].cmd = "kick" /\ req[q].user = Host
      BY <3>1 DEF KickOK, CommandPcs, Refused
    <3>3. QED
      BY <1>1, <2>3, <3>1, <3>2 DEF Goto
  <2>4. ASSUME NEW u \in Users, RequestArrives(q, u)
        PROVE  <1>3!1 /\ <1>3!2
    BY <1>1, <2>4 DEF RequestArrives, CommandPcs
  <2>5. QED
    BY <2>1, <2>2, <2>3, <2>4
       DEF ReqStep, JoinAdd, LeaveRemove, CmdCheck, CmdReAdd, CmdApply, CmdKick, CommandPcs
<1>4. QED
  BY <1>1, <1>2, <1>3 DEF KickOK

LEMMA SInvInductive == Spec => []SInv
<1>1. Init => SInv
  BY InitSInv
<1>2. SInv /\ [Next]_vars => SInv'
  <2> SUFFICES ASSUME SInv, [Next]_vars PROVE SInv'
    OBVIOUS
  <2>1. ASSUME NEW c \in Conns, EventsLookup(c) \/ ConnStep(c) \/ ClientDrop(c)
        PROVE  SInv'
    <3>1. UNCHANGED req
      BY <2>1 DEF EventsLookup, ConnStep, ClientDrop, EventsReject, EventsJoin,
                  EventsGreet, StreamFrame, StreamWriteError, StreamGone,
                  StreamClosed, StreamRemove
    <3>2. IInv' /\ StreamsOK'
      BY <2>1, ConnIInv, ConnStreams DEF SInv
    <3>3. QED
      BY <3>1, <3>2 DEF SInv, ReqOK, KickOK
  <2>2. ASSUME NEW q \in Reqs, (\E u \in Users : RequestArrives(q, u)) \/ ReqStep(q)
        PROVE  SInv'
    BY <2>2, ReqIInv, ReqStreams, ReqKicks DEF SInv
  <2>3. CASE UNCHANGED vars
    BY <2>3 DEF vars, SInv, IInv, ReqOK, KickOK, StreamsOK, TypeOK, Owned
  <2>4. QED
    BY <2>1, <2>2, <2>3 DEF Next
<1>3. QED
  BY <1>1, <1>2, PTL DEF Spec

-----------------------------------------------------------------------------
(***************************************************************************)
(* No update of the room's state is lost on its way to a member's client,  *)
(* whatever joins, leaves, kicks, evictions and publications interleave.   *)
(***************************************************************************)
THEOREM FeedStaysCurrent == Spec => []FeedIsCurrent
<1>1. SInv => FeedIsCurrent
  <2> SUFFICES ASSUME SInv, NEW c \in Conns, Reading(c)
               PROVE  LET q == room.chan[c].q
                      IN /\ HasNo(q, "state") => conn[c].seen = room.version
                                                 /\ conn[c].over = room.closed
                         /\ \A i \in 1 .. Len(q) :
                              LastIs(q, i, "state") => q[i].ver = room.version
                                                       /\ q[i].closed = room.closed
    BY DEF FeedIsCurrent
  <2>1. In(room, c) /\ conn[c].pc = "loop" /\ ChanOK(room, c) /\ ReadOK(room, c, conn[c])
    BY DEF Reading, Attached, In, SInv, StreamsOK
  <2>2. EndsIn(room.chan[c].q, "state", Current(room))
    BY <2>1 DEF ChanOK
  <2>3. QED
    BY <2>1, <2>2 DEF ReadOK, EndsIn, Current
<1>2. QED
  BY <1>1, SInvInductive, PTL

(***************************************************************************)
(* The roster a client ends up with misses no member: a members frame that *)
(* a full buffer would have swallowed costs the listener its place.        *)
(***************************************************************************)
THEOREM RosterIsCovered == Spec => []RosterCoversMembers
<1>1. SInv => RosterCoversMembers
  <2> SUFFICES ASSUME SInv, NEW c \in Conns, Reading(c)
               PROVE  LET q == room.chan[c].q
                      IN /\ HasNo(q, "members") => Present(room) \subseteq conn[c].roster
                         /\ \A i \in 1 .. Len(q) :
                              LastIs(q, i, "members") => Present(room) \subseteq q[i].mem
    BY DEF RosterCoversMembers
  <2>1. In(room, c) /\ conn[c].pc = "loop" /\ ChanOK(room, c) /\ ReadOK(room, c, conn[c])
    BY DEF Reading, Attached, In, SInv, StreamsOK
  <2>2. EndsIn(room.chan[c].q, "members", Covering(room))
    BY <2>1 DEF ChanOK
  <2>3. QED
    BY <2>1, <2>2 DEF ReadOK, EndsIn, Covering
<1>2. QED
  BY <1>1, SInvInductive, PTL

(* Nothing is queued behind a kicked frame, and its channel is closed. *)
THEOREM KickedEndsStream == Spec => []KickedIsLast
<1>1. SInv => KickedIsLast
  <2> SUFFICES ASSUME SInv, NEW c \in Conns, NEW i \in 1 .. Len(room.chan[c].q),
                      room.chan[c].q[i].ev = "kicked"
               PROVE  i = Len(room.chan[c].q) /\ ~room.chan[c].open
    BY DEF KickedIsLast
  <2>1. i = Len(room.chan[c].q) /\ ~In(room, c)
    BY DEF SInv, StreamsOK, ChanOK
  <2>2. QED
    BY <2>1 DEF SInv, IInv, WellFormed, Recs, In
<1>2. QED
  BY <1>1, SInvInductive, PTL

(***************************************************************************)
(* The versions in a member's channel are, in order, the ones its client   *)
(* has not been sent: the first of them is the next one.                   *)
(***************************************************************************)
LEMMA NextVersion ==
  ASSUME SInv, NEW c \in Conns, Reading(c), StreamFrame(c)
  PROVE  conn'[c].seen <= conn[c].seen + 1
<1> DEFINE q == room.chan[c].q
           f == Head(q)
           k == conn[c]
<1>1. /\ q \in Seq(Frame) /\ q # <<>> /\ Ascending(q) /\ room.version \in Nat
      /\ \A v \in Vers(q) : v <= room.version
      /\ k.seen + 1 .. room.version \subseteq Vers(q)
  BY ChannelOf DEF SInv, IInv, WellFormed, Room, StreamsOK, ChanOK, ReadOK, Reading,
                   Attached, In, StreamFrame
<1>2. /\ k \in [pc     : {"idle", "auth", "greet", "loop", "remove"},
                alive  : BOOLEAN, seen : Nat, over : BOOLEAN, roster : SUBSET Users]
      /\ conn'[c] = Written(k, f)
  BY DEF SInv, IInv, TypeOK, StreamFrame
<1> HIDE DEF k
<1>3. CASE f.ev = "state"
  <2>1. /\ f.ver \in Vers(q) /\ f.ver \in Nat /\ \A v \in Vers(q) : f.ver <= v
    BY <1>1, <1>3, TailVers, VersType
  <2>2. conn'[c].seen = f.ver
    BY <1>2, <1>3 DEF Written
  <2> HIDE DEF f, q
  <2>3. f.ver <= k.seen + 1
    <3>1. k.seen + 1 <= room.version => k.seen + 1 \in Vers(q)
      BY <1>1, <1>2
    <3>2. f.ver <= room.version
      BY <1>1, <2>1
    <3>3. QED
      BY <1>1, <1>2, <2>1, <3>1, <3>2
  <2>4. QED
    BY <2>2, <2>3 DEF k
<1>4. CASE f.ev # "state"
  <2>1. conn'[c].seen = k.seen
    BY <1>2, <1>4 DEF Written
  <2>2. QED
    BY <1>2, <2>1 DEF k
<1>5. QED
  BY <1>3, <1>4

(* Only its own handler moves what a client was sent. *)
LEMMA OthersConns ==
  ASSUME SInv, NEW c \in Conns, Next, conn'[c] # conn[c]
  PROVE  EventsLookup(c) \/ ConnStep(c) \/ ClientDrop(c)
<1>1. conn \in [Conns -> [pc     : {"idle", "auth", "greet", "loop", "remove"},
                          alive  : BOOLEAN,
                          seen   : Nat,
                          over   : BOOLEAN,
                          roster : SUBSET Users]]
  BY DEF SInv, IInv, TypeOK
<1>2. ASSUME NEW q \in Reqs, (\E u \in Users : RequestArrives(q, u)) \/ ReqStep(q)
      PROVE  conn' = conn
  BY <1>2 DEF RequestArrives, ReqStep, JoinAdd, LeaveRemove, CmdCheck, CmdReAdd,
              CmdApply, CmdKick
<1>3. ASSUME NEW d \in Conns \ {c}, EventsLookup(d) \/ ConnStep(d) \/ ClientDrop(d)
      PROVE  conn'[c] = conn[c]
  BY <1>1, <1>3 DEF EventsLookup, ConnStep, ClientDrop, EventsReject, EventsJoin,
                    EventsGreet, StreamFrame, StreamWriteError, StreamGone,
                    StreamClosed, StreamRemove
<1>4. QED
  BY <1>2, <1>3 DEF Next

(***************************************************************************)
(* A member's client is sent every version: none is jumped over.           *)
(***************************************************************************)
THEOREM NoVersionSkipped == Spec => StreamSkipsNoVersion
<1>1. SInv /\ [Next]_vars => [\A c \in Conns : Reading(c) => conn'[c].seen <= conn[c].seen + 1]_vars
  <2> SUFFICES ASSUME SInv, Next, NEW c \in Conns, Reading(c)
               PROVE  conn'[c].seen <= conn[c].seen + 1
    OBVIOUS
  <2>1. conn[c].seen \in Nat /\ conn[c].pc = "loop"
    BY DEF SInv, IInv, TypeOK, Reading
  <2>2. CASE conn'[c] = conn[c]
    BY <2>1, <2>2
  <2>3. CASE StreamFrame(c)
    BY <2>3, NextVersion
  <2>4. CASE StreamWriteError(c) \/ StreamGone(c) \/ StreamClosed(c)
    <3>1. conn'[c].seen = 0
      BY <2>4 DEF StreamWriteError, StreamGone, StreamClosed, SInv, IInv, TypeOK, IdleConn
    <3>2. QED
      BY <2>1, <3>1
  <2>5. CASE ClientDrop(c)
    <3>1. conn'[c].seen = conn[c].seen
      BY <2>5 DEF ClientDrop, SInv, IInv, TypeOK
    <3>2. QED
      BY <2>1, <3>1
  <2>6. \/ conn'[c] = conn[c] \/ StreamFrame(c) \/ StreamWriteError(c)
        \/ StreamGone(c) \/ StreamClosed(c) \/ ClientDrop(c)
    <3>1. \/ conn'[c] = conn[c] \/ EventsLookup(c) \/ ConnStep(c) \/ ClientDrop(c)
      BY OthersConns
    <3>2. QED
      BY <2>1, <3>1 DEF EventsLookup, ConnStep, EventsReject, EventsJoin, EventsGreet,
                        StreamRemove
  <2>7. QED
    BY <2>2, <2>3, <2>4, <2>5, <2>6
<1>2. QED
  BY <1>1, SInvInductive, PTL DEF Spec, StreamSkipsNoVersion

(* A buffer that loses its listener was too full for what was sent. *)
LEMMA FullOverflows ==
  ASSUME NEW c, Len(room.chan[c].q) \in Nat, Cap \in Nat, room.version \in Nat,
         \/ Len(room.chan[c].q) >= Cap
         \/ Len(room.chan[c].q) + 1 >= Cap /\ room'.version = room.version + 1
  PROVE  Overflows(c)
<1> DEFINE n == Len(room.chan[c].q)
           v == room.version
           w == room'.version
           k == IF w > v THEN 2 ELSE 1
<1>1. k \in {1, 2} /\ (w = v + 1 => k = 2)
  OBVIOUS
<1> HIDE DEF k, n
<1>2. n + k > Cap
  BY <1>1 DEF n, v, w
<1>3. QED
  BY <1>2 DEF Overflows, k, n

(* Each step that takes a listener's place has one of the causes. *)
LEMMA CutHasCause ==
  ASSUME SInv, Next, NEW c \in Conns, Listening(c), ~Attached(c)'
  PROVE  CutForCause(c)
<1>1. /\ In(room, c) /\ ~In(room', c) /\ conn[c].pc \in {"greet", "loop"}
      /\ room.version \in Nat /\ Len(room.chan[c].q) \in Nat /\ Cap \in Nat
      /\ IInv /\ ReqOK /\ KickOK
      /\ conn \in [Conns -> [pc     : {"idle", "auth", "greet", "loop", "remove"},
                             alive  : BOOLEAN,
                             seen   : Nat,
                             over   : BOOLEAN,
                             roster : SUBSET Users]]
  <2>1. In(room, c) /\ ~In(room', c) /\ conn[c].pc \in {"greet", "loop"}
    BY DEF Listening, Attached, In
  <2>2. WellFormed(room) /\ room.version \in Nat
    BY DEF SInv, IInv, WellFormed, Room
  <2>3. QED
    BY <2>1, <2>2, ChannelOf DEF SInv, IInv, TypeOK
<1>2. ASSUME NEW u \in Users, Rostered(room, room', c, u), room'.version = room.version
      PROVE  Overflows(c) \/ u = UserOf[c]
  <2>1. Len(room.chan[c].q) >= Cap \/ room.members[u] = c
    BY <1>1, <1>2 DEF Rostered, Got
  <2>2. CASE Len(room.chan[c].q) >= Cap
    BY <1>1, <2>2, FullOverflows
  <2>3. CASE room.members[u] = c
    BY <1>1, <2>3 DEF IInv, Owned
  <2>4. QED
    BY <2>1, <2>2, <2>3
<1>3. ASSUME NEW d \in Conns \ {c}, EventsJoin(d) \/ StreamRemove(d)
      PROVE  CutForCause(c)
  <2>1. /\ Rostered(room, room', c, UserOf[d]) /\ room'.version = room.version
        /\ UserOf[d] \in Users
    BY <1>1, <1>3, JoinMoves, TeardownMoves, ListenAssumption
  <2>2. conn'[d] # conn[d] /\ conn[d].pc \in {"auth", "remove"}
    BY <1>1, <1>3 DEF EventsJoin, StreamRemove, IdleConn
  <2>3. QED
    BY <1>2, <2>1, <2>2 DEF CutForCause
<1>4. ASSUME NEW d \in Conns, EventsLookup(d) \/ ConnStep(d) \/ ClientDrop(d)
      PROVE  CutForCause(c)
  <2>1. CASE StreamFrame(d) \/ StreamWriteError(d)
    BY <1>1, <2>1, FrameMoves DEF In
  <2>2. CASE \/ EventsLookup(d) \/ EventsReject(d) \/ EventsGreet(d)
             \/ StreamGone(d) \/ StreamClosed(d) \/ ClientDrop(d)
    BY <1>1, <2>2 DEF EventsLookup, EventsReject, EventsGreet, StreamGone, StreamClosed,
                      ClientDrop
  <2>3. CASE d = c /\ (EventsJoin(d) \/ StreamRemove(d))
    BY <1>1, <2>3 DEF EventsJoin, StreamRemove
  <2>4. QED
    BY <1>3, <1>4, <2>1, <2>2, <2>3 DEF ConnStep
<1>5. ASSUME NEW q \in Reqs, (\E u \in Users : RequestArrives(q, u)) \/ ReqStep(q)
      PROVE  CutForCause(c)
  <2>1. CASE UNCHANGED room
    BY <1>1, <2>1
  <2>2. ASSUME NEW u \in Users, Rostered(room, room', c, u), room'.version = room.version,
               ActsOn(req[q], u), req'[q] # req[q]
        PROVE  CutForCause(c)
    <3>1. CASE u = UserOf[c]
      <4>1. \/ req[q].user = u /\ req[q].pc \in {"join", "leave", "readd"}
            \/ req[q].user = Host /\ req[q].target = u /\ req[q].pc = "kick"
        BY <1>1, <2>2 DEF ActsOn, KickOK
      <4>2. QED
        BY <2>2, <3>1, <4>1 DEF CutForCause
    <3>2. QED
      BY <1>2, <2>2, <3>1 DEF CutForCause
  <2>3. CASE room'.version = room.version + 1 /\ Published(room, room', c)
    <3>1. Len(room.chan[c].q) + 1 >= Cap
      BY <1>1, <2>3 DEF Published
    <3>2. Overflows(c)
      BY <1>1, <2>3, <3>1, FullOverflows
    <3>3. QED
      BY <3>2 DEF CutForCause
  <2>4. QED
    BY <1>1, <1>5, <2>1, <2>2, <2>3, ReqMoves
<1>6. QED
  BY <1>4, <1>5 DEF Next

(***************************************************************************)
(* A listener loses its place to a full buffer, a kick by the host, or a   *)
(* step its own user has a part in.                                        *)
(***************************************************************************)
THEOREM PlaceLostForCause == Spec => CutOnlyForCause
<1>1. SInv /\ [Next]_vars =>
        [\A c \in Conns : Listening(c) /\ ~Attached(c)' => CutForCause(c)]_vars
  BY CutHasCause
<1>2. QED
  BY <1>1, SInvInductive, PTL DEF Spec, CutOnlyForCause

-----------------------------------------------------------------------------
(***************************************************************************)
(* The room implements RoomFeed.  What the promise sees of connection c,   *)
(* whose handler is k.                                                     *)
(***************************************************************************)
Running(k) == k.pc \in {"greet", "loop"}

Feed(st, a, g, o, n) ==
  [st |-> st, alive |-> a, greeted |-> g, owed |-> o, seen |-> n]

FeedOf(r, k, c) ==
  IF Running(k)
    THEN Feed(IF In(r, c) THEN "in" ELSE "cut", k.alive, k.pc = "loop",
              Vers(r.chan[c].q), k.seen)
    ELSE Promise!Off

LEMMA FeedsAre ==
  /\ Feeds = [c \in Conns |-> FeedOf(room, conn[c], c)]
  /\ Feeds' = [c \in Conns |-> FeedOf(room', conn'[c], c)]
<1>1. \A c : Owed(c) = Vers(room.chan[c].q) /\ Owed(c)' = Vers(room'.chan[c].q)
  BY DEF Owed, Vers, States
<1>2. \A c : (Attached(c) <=> In(room, c)) /\ (Attached(c)' <=> In(room', c))
  BY DEF Attached, In
<1>3. \A c \in Conns :
        (IF conn[c].pc \in {"greet", "loop"}
           THEN [st      |-> IF Attached(c) THEN "in" ELSE "cut",
                 alive   |-> conn[c].alive,
                 greeted |-> conn[c].pc = "loop",
                 owed    |-> Owed(c),
                 seen    |-> conn[c].seen]
           ELSE [st |-> "off", alive |-> FALSE, greeted |-> FALSE, owed |-> {}, seen |-> 0])
        = FeedOf(room, conn[c], c)
  BY <1>1, <1>2 DEF FeedOf, Feed, Running, Promise!Off
<1>4. \A c \in Conns :
        (IF conn'[c].pc \in {"greet", "loop"}
           THEN [st      |-> IF Attached(c)' THEN "in" ELSE "cut",
                 alive   |-> conn'[c].alive,
                 greeted |-> conn'[c].pc = "loop",
                 owed    |-> Owed(c)',
                 seen    |-> conn'[c].seen]
           ELSE [st |-> "off", alive |-> FALSE, greeted |-> FALSE, owed |-> {}, seen |-> 0])
        = FeedOf(room', conn'[c], c)
  BY <1>1, <1>2 DEF FeedOf, Feed, Running, Promise!Off
<1>5. QED
  BY <1>3, <1>4 DEF Feeds

ConnType == [pc     : {"idle", "auth", "greet", "loop", "remove"},
             alive  : BOOLEAN,
             seen   : Nat,
             over   : BOOLEAN,
             roster : SUBSET Users]

LEMMA FeedType ==
  ASSUME NEW r, WellFormed(r), NEW c \in Conns, NEW k \in ConnType
  PROVE  FeedOf(r, k, c) \in Promise!Feed
<1>1. Vers(r.chan[c].q) \in SUBSET Nat
  BY ChannelOf, VersType
<1>2. (k.pc = "loop") \in BOOLEAN /\ k.alive \in BOOLEAN /\ k.seen \in Nat
  BY DEF ConnType
<1>3. QED
  BY <1>1, <1>2 DEF FeedOf, Feed, Promise!Feed, Promise!Off

(* What the promise allows the feed of a member to become. *)
LEMMA FeedMoves ==
  ASSUME NEW a, NEW g, NEW o, NEW n, NEW v
  PROVE  LET f == Feed("in", a, g, o, n)
         IN /\ Feed("cut", a, g, o, n) \in Promise!Kept(f)
            /\ v \in o /\ (\A w \in o : v <= w) =>
                 Feed("cut", a, g, o \ {v}, n) \in Promise!Kept(f)
            /\ Feed("in", a, g, o \cup {v}, n) \in Promise!Told(f, v)
            /\ Feed("cut", a, g, o, n) \in Promise!Told(f, v)
            /\ Feed("cut", a, g, o \cup {v}, n) \in Promise!Told(f, v)
<1> DEFINE f == Feed("in", a, g, o, n)
<1>1. f.st = "in" /\ f.owed = o
  BY DEF Feed
<1>2. \A x : /\ [f EXCEPT !.st = "cut", !.owed = x] = Feed("cut", a, g, x, n)
             /\ [f EXCEPT !.owed = x] = Feed("in", a, g, x, n)
  <2> TAKE x
  <2>1. [f EXCEPT !.owed = x] = Feed("in", a, g, x, n)
    BY DEF Feed
  <2>2. [f EXCEPT !.st = "cut"] = Feed("cut", a, g, o, n)
    BY DEF Feed
  <2>3. [Feed("cut", a, g, o, n) EXCEPT !.owed = x] = Feed("cut", a, g, x, n)
    BY DEF Feed
  <2>4. QED
    BY <2>1, <2>2, <2>3
<1> HIDE DEF f
<1>3. \A x \in {{}} \cup {{w} : w \in {w \in o : Promise!Due(f, w)}} :
        [f EXCEPT !.st = "cut", !.owed = f.owed \ x] \in Promise!Kept(f)
  BY <1>1 DEF Promise!Kept
<1>4. \A x \in {{}} \cup {{w} : w \in {w \in o : Promise!Due(f, w)}} :
        Feed("cut", a, g, o \ x, n) \in Promise!Kept(f)
  BY <1>1, <1>2, <1>3
<1>5. Feed("cut", a, g, o, n) \in Promise!Kept(f)
  <2>1. o \ {} = o
    OBVIOUS
  <2>2. QED
    BY <1>4, <2>1
<1>6. ASSUME v \in o, \A w \in o : v <= w
      PROVE  Feed("cut", a, g, o \ {v}, n) \in Promise!Kept(f)
  <2>1. Promise!Due(f, v)
    BY <1>1, <1>6 DEF Promise!Due
  <2>2. QED
    BY <1>4, <1>6, <2>1
<1>7. /\ [f EXCEPT !.owed = f.owed \cup {v}] \in Promise!Told(f, v)
      /\ \A x \in {f.owed, f.owed \cup {v}} :
           [f EXCEPT !.st = "cut", !.owed = x] \in Promise!Told(f, v)
  BY <1>1 DEF Promise!Told
<1>8. QED
  BY <1>1, <1>2, <1>5, <1>6, <1>7 DEF f

(* A connection whose own handler does nothing. *)
LEMMA SameFeed ==
  ASSUME NEW r, NEW s, NEW c, NEW k, In(s, c) <=> In(r, c),
         Vers(s.chan[c].q) = Vers(r.chan[c].q)
  PROVE  /\ FeedOf(s, k, c) = FeedOf(r, k, c)
         /\ FeedOf(s, k, c) \in Promise!Kept(FeedOf(r, k, c))
BY DEF FeedOf, Promise!Kept

LEMMA RosteredFeed ==
  ASSUME NEW r, WellFormed(r), NEW s, NEW c \in Conns, NEW u \in Users,
         Rostered(r, s, c, u), ChanOK(r, c), NEW k
  PROVE  FeedOf(s, k, c) \in Promise!Kept(FeedOf(r, k, c))
<1> DEFINE q == r.chan[c].q
           p == s.chan[c].q
           f == FeedOf(r, k, c)
<1>1. q \in Seq(Frame) /\ Ascending(q)
  BY ChannelOf DEF ChanOK
<1>2. PICK m \in Frame :
        /\ m.ev = "members"
        /\ \/ Got(r, s, c, m)
           \/ /\ r.members[u] = c /\ ~In(s, c)
              /\ p \in {q, Drain(r.chan[c]).q, Append(q, KickedFrame)}
  BY DEF Rostered
<1>3. KickedFrame \in Frame /\ KickedFrame.ev # "state"
  BY FrameTypes DEF WellFormed, KickedFrame
<1>4. CASE ~Running(k)
  BY <1>4 DEF FeedOf, Promise!Kept, Promise!Off
<1>5. ASSUME Vers(p) = Vers(q), In(s, c) => In(r, c) PROVE FeedOf(s, k, c) \in Promise!Kept(f)
  <2>1. CASE In(s, c) <=> In(r, c)
    BY <1>5, <2>1, SameFeed
  <2>2. CASE Running(k) /\ In(r, c) /\ ~In(s, c)
    BY <1>5, <2>2, FeedMoves DEF FeedOf
  <2>3. QED
    BY <1>4, <1>5, <2>1, <2>2
<1>6. CASE /\ Running(k) /\ In(r, c) /\ ~In(s, c)
           /\ q # <<>> /\ Head(q).ev = "state" /\ p = Tail(q)
  <2> DEFINE v == Head(q).ver
  <2>1. Vers(p) = Vers(q) \ {v} /\ v \in Vers(q) /\ \A w \in Vers(q) : v <= w
    BY <1>1, <1>6, TailVers
  <2>2. QED
    BY <1>6, <2>1, FeedMoves DEF FeedOf
<1>7. CASE p = q \/ p = Append(q, m) \/ p = Append(q, KickedFrame)
  <2>1. Vers(p) = Vers(q)
    BY <1>1, <1>2, <1>3, <1>7, AppendVers
  <2>2. QED
    BY <1>2, <1>5, <2>1 DEF Got
<1>8. CASE In(r, c) /\ ~In(s, c) /\ p = Drain(r.chan[c]).q /\ p # q
  <2>1. q # <<>> /\ p = Tail(q)
    BY <1>8, ChannelOf DEF Drain, Chan
  <2>2. CASE Head(q).ev # "state"
    BY <1>1, <1>5, <1>8, <2>1, <2>2, TailVers
  <2>3. QED
    BY <1>4, <1>6, <1>8, <2>1, <2>2
<1>9. QED
  BY <1>2, <1>7, <1>8 DEF Got, In

LEMMA PublishedFeed ==
  ASSUME NEW r, WellFormed(r), NEW s, WellFormed(s), s.version = r.version + 1,
         NEW c \in Conns, Published(r, s, c), NEW k
  PROVE  FeedOf(s, k, c) \in Promise!Told(FeedOf(r, k, c), s.version)
<1> DEFINE q == r.chan[c].q
           p == s.chan[c].q
           st == StateFrame(s)
           f == FeedOf(r, k, c)
           v == s.version
<1>1. q \in Seq(Frame) /\ st \in Frame /\ st.ev = "state" /\ st.ver = v
  <2>1. st \in Frame
    BY FrameTypes DEF WellFormed
  <2>2. QED
    BY <2>1, ChannelOf DEF StateFrame
<1>2. Append(q, st) \in Seq(Frame) /\ Vers(Append(q, st)) = Vers(q) \cup {v}
  BY <1>1, AppendVers
<1>3. PICK g \in Frame :
        /\ g.ev \in {"members", "closed"}
        /\ \/ ~In(r, c) /\ ~In(s, c) /\ p = q
           \/ In(r, c) /\ In(s, c) /\ p = Append(Append(q, st), g)
           \/ In(r, c) /\ ~In(s, c) /\ (p = q \/ p = Append(q, st))
  BY DEF Published
<1> HIDE DEF v, st
<1>4. CASE ~Running(k)
  BY <1>4 DEF FeedOf, Promise!Told, Promise!Off
<1>5. CASE Running(k) /\ ~In(r, c) /\ ~In(s, c) /\ p = q
  <2>1. f.st = "cut" /\ FeedOf(s, k, c) = f
    BY <1>5 DEF FeedOf, Feed
  <2>2. QED
    BY <2>1 DEF Promise!Told
<1>6. CASE Running(k) /\ In(r, c) /\ In(s, c) /\ p = Append(Append(q, st), g)
  <2>1. Vers(p) = Vers(q) \cup {v}
    BY <1>2, <1>3, <1>6, AppendVers
  <2>2. QED
    BY <1>6, <2>1, FeedMoves DEF FeedOf, v
<1>7. CASE Running(k) /\ In(r, c) /\ ~In(s, c) /\ (p = q \/ p = Append(q, st))
  <2>1. Vers(p) \in {Vers(q), Vers(q) \cup {v}}
    BY <1>2, <1>7
  <2>2. QED
    BY <1>7, <2>1, FeedMoves DEF FeedOf, v
<1>8. QED
  BY <1>3, <1>4, <1>5, <1>6, <1>7

LEMMA FeedsTyped ==
  ASSUME IInv, IInv'
  PROVE  /\ Feeds \in [Conns -> Promise!Feed] /\ Feeds' \in [Conns -> Promise!Feed]
         /\ \A c \in Conns : /\ Feeds[c] = FeedOf(room, conn[c], c)
                             /\ Feeds'[c] = FeedOf(room', conn'[c], c)
                             /\ conn[c] \in ConnType /\ conn'[c] \in ConnType
<1>1. /\ WellFormed(room) /\ WellFormed(room')
      /\ conn \in [Conns -> ConnType] /\ conn' \in [Conns -> ConnType]
  BY DEF IInv, TypeOK, ConnType
<1>2. \A c \in Conns : /\ FeedOf(room, conn[c], c) \in Promise!Feed
                       /\ FeedOf(room', conn'[c], c) \in Promise!Feed
  BY <1>1, FeedType
<1>3. QED
  BY <1>1, <1>2, FeedsAre

(* A step of one connection that leaves what the others have coming. *)
LEMMA OneFeed ==
  ASSUME IInv, IInv', NEW c \in Conns,
         \A d \in Conns \ {c} : /\ conn'[d] = conn[d]
                                /\ In(room', d) <=> In(room, d)
                                /\ Vers(room'.chan[d].q) = Vers(room.chan[d].q)
  PROVE  Feeds' = [Feeds EXCEPT ![c] = FeedOf(room', conn'[c], c)]
<1>1. \A d \in Conns \ {c} : Feeds'[d] = Feeds[d]
  BY FeedsTyped, SameFeed
<1>2. QED
  BY <1>1, FeedsTyped

LEMMA GreetFeed ==
  ASSUME IInv, IInv', NEW c \in Conns, EventsGreet(c)
  PROVE  Promise!Greet(c)
<1>1. /\ conn[c].pc = "greet" /\ room' = room
      /\ conn'[c].pc = "loop" /\ conn'[c].seen = room.version
      /\ conn'[c].alive = conn[c].alive
      /\ \A d \in Conns \ {c} : conn'[d] = conn[d]
  BY FeedsTyped DEF EventsGreet, IInv, TypeOK
<1>2. Feeds' = [Feeds EXCEPT ![c] = FeedOf(room', conn'[c], c)]
  BY <1>1, OneFeed
<1> DEFINE yes == TRUE
           st == IF In(room, c) THEN "in" ELSE "cut"
           a == conn[c].alive
           o == Vers(room.chan[c].q)
           n == conn[c].seen
<1>3. /\ Feeds[c] = Feed(st, a, FALSE, o, n)
      /\ FeedOf(room', conn'[c], c) = Feed(st, a, yes, o, room.version)
  <2>1. /\ Running(conn[c]) /\ Running(conn'[c])
        /\ (conn[c].pc = "loop") = FALSE /\ (conn'[c].pc = "loop") = TRUE
    BY <1>1 DEF Running
  <2>2. Feeds[c] = FeedOf(room, conn[c], c)
    BY FeedsTyped
  <2>3. QED
    BY <1>1, <2>1, <2>2 DEF FeedOf
<1>4. Feeds[c].st # "off" /\ ~Feeds[c].greeted
  BY <1>3 DEF Feed
<1> HIDE DEF yes, st, a, o, n
<1>5. [Feeds[c] EXCEPT !.greeted = yes, !.seen = room.version] = Feed(st, a, yes, o, room.version)
  <2>1. [Feeds[c] EXCEPT !.greeted = yes] = Feed(st, a, yes, o, n)
    BY <1>3 DEF Feed
  <2>2. [Feed(st, a, yes, o, n) EXCEPT !.seen = room.version] = Feed(st, a, yes, o, room.version)
    BY DEF Feed
  <2>3. QED
    BY <2>1, <2>2
<1>6. Feeds' = [Feeds EXCEPT ![c].greeted = yes, ![c].seen = room.version]
  BY <1>2, <1>3, <1>5, FeedsTyped
<1>7. QED
  BY <1>1, <1>4, <1>6 DEF Promise!Greet, yes

LEMMA DeliverFeed ==
  ASSUME SInv, IInv', NEW c \in Conns, StreamFrame(c)
  PROVE  Promise!Deliver(c) \/ UNCHANGED Feeds
<1> DEFINE q == room.chan[c].q
           f == Head(q)
<1>1. /\ conn[c].pc = "loop" /\ q # <<>> /\ q \in Seq(Frame) /\ Ascending(q)
      /\ conn'[c] = Written(conn[c], f) /\ conn[c] \in ConnType
      /\ room'.chan[c].q = Tail(q)
      /\ room'.version = room.version
      /\ \A d \in Conns : In(room', d) <=> In(room, d)
      /\ \A d \in Conns \ {c} : /\ conn'[d] = conn[d]
                                /\ room'.chan[d].q = room.chan[d].q
  <2>1. IInv /\ ChanOK(room, c) /\ WellFormed(room)
    BY DEF SInv, IInv, StreamsOK
  <2>2. /\ conn[c].pc = "loop" /\ q # <<>> /\ q \in Seq(Frame) /\ Ascending(q)
    BY <2>1, ChannelOf DEF ChanOK, StreamFrame
  <2>3. /\ conn'[c] = Written(conn[c], f) /\ conn[c] \in ConnType
        /\ \A d \in Conns \ {c} : conn'[d] = conn[d]
    BY <2>1 DEF StreamFrame, IInv, TypeOK, ConnType
  <2>4. /\ room'.chan[c].q = Tail(q) /\ room'.version = room.version
        /\ \A d \in Conns : In(room', d) <=> In(room, d)
        /\ \A d \in Conns \ {c} : room'.chan[d].q = room.chan[d].q
    BY <2>1, FrameMoves DEF In
  <2>5. QED
    BY <2>2, <2>3, <2>4
<1>2. Feeds' = [Feeds EXCEPT ![c] = FeedOf(room', conn'[c], c)]
  BY <1>1, OneFeed DEF SInv
<1> DEFINE yes == TRUE
           st == IF In(room, c) THEN "in" ELSE "cut"
           a == conn[c].alive
           o == Vers(q)
           n == conn[c].seen
<1>3. Feeds[c] = Feed(st, a, yes, o, n)
  <2>1. Running(conn[c]) /\ (conn[c].pc = "loop") = TRUE /\ Feeds[c] = FeedOf(room, conn[c], c)
    BY <1>1, FeedsTyped DEF Running, SInv
  <2>2. QED
    BY <2>1 DEF FeedOf
<1>4. /\ conn'[c].pc = "loop" /\ conn'[c].alive = a
      /\ conn'[c].seen = IF f.ev = "state" THEN f.ver ELSE n
  BY <1>1 DEF Written, ConnType
<1>5. FeedOf(room', conn'[c], c) = Feed(st, a, yes, Vers(Tail(q)), conn'[c].seen)
  <2>1. Running(conn'[c]) /\ (conn'[c].pc = "loop") = TRUE
    BY <1>4 DEF Running
  <2>2. QED
    BY <1>1, <1>4, <2>1 DEF FeedOf
<1>6. CASE f.ev = "state"
  <2> DEFINE v == f.ver
  <2>1. /\ conn'[c].seen = v /\ Vers(Tail(q)) = o \ {v}
        /\ v \in o /\ \A w \in o : v <= w
    BY <1>1, <1>4, <1>6, TailVers
  <2>2. Feeds[c].greeted /\ Feeds[c].owed = o
    BY <1>3 DEF Feed
  <2> HIDE DEF yes, st, a, o, n, v
  <2>3. v \in Feeds[c].owed /\ Promise!Due(Feeds[c], v)
    BY <2>1, <2>2 DEF Promise!Due
  <2>4. [Feeds[c] EXCEPT !.owed = Feeds[c].owed \ {v}, !.seen = v] = Feed(st, a, yes, o \ {v}, v)
    <3> DEFINE rest == Feeds[c].owed \ {v}
    <3>1. rest = o \ {v}
      BY <2>2
    <3> HIDE DEF rest
    <3>2. [Feeds[c] EXCEPT !.owed = rest] = Feed(st, a, yes, rest, n)
      BY <1>3 DEF Feed
    <3>3. [Feed(st, a, yes, rest, n) EXCEPT !.seen = v] = Feed(st, a, yes, rest, v)
      BY DEF Feed
    <3>4. [Feeds[c] EXCEPT !.owed = rest, !.seen = v] = Feed(st, a, yes, o \ {v}, v)
      BY <3>1, <3>2, <3>3
    <3>5. QED
      BY <3>4 DEF rest
  <2>5. Feeds' = [Feeds EXCEPT ![c].owed = @ \ {v}, ![c].seen = v]
    BY <1>2, <1>5, <2>1, <2>4, FeedsTyped DEF SInv
  <2>6. QED
    BY <1>1, <2>2, <2>3, <2>5 DEF Promise!Deliver
<1>7. CASE f.ev # "state"
  <2>1. Vers(Tail(q)) = o /\ conn'[c].seen = n
    BY <1>1, <1>4, <1>7, TailVers
  <2>2. FeedOf(room', conn'[c], c) = Feeds[c]
    BY <1>3, <1>5, <2>1
  <2>3. Feeds' = Feeds
    BY <1>2, <2>2, FeedsTyped DEF SInv
  <2>4. QED
    BY <2>3
<1>8. QED
  BY <1>6, <1>7

LEMMA DropFeed ==
  ASSUME IInv, IInv', NEW c \in Conns, ClientDrop(c)
  PROVE  Promise!Drop(c) \/ UNCHANGED Feeds
<1>1. /\ conn[c].alive /\ room' = room
      /\ conn'[c].pc = conn[c].pc /\ conn'[c].seen = conn[c].seen
      /\ conn'[c].alive = FALSE
      /\ \A d \in Conns \ {c} : conn'[d] = conn[d]
  BY DEF ClientDrop, IInv, TypeOK
<1>2. Feeds' = [Feeds EXCEPT ![c] = FeedOf(room', conn'[c], c)]
  BY <1>1, OneFeed
<1>3. Feeds[c] = FeedOf(room, conn[c], c)
  BY FeedsTyped
<1>4. CASE Running(conn[c])
  <2> DEFINE no == FALSE
             st == IF In(room, c) THEN "in" ELSE "cut"
             a == conn[c].alive
             g == conn[c].pc = "loop"
             o == Vers(room.chan[c].q)
             n == conn[c].seen
  <2>1. /\ Feeds[c] = Feed(st, a, g, o, n)
        /\ FeedOf(room', conn'[c], c) = Feed(st, no, g, o, n)
    BY <1>1, <1>3, <1>4 DEF FeedOf, Running
  <2>2. Feeds[c].alive
    BY <1>1, <2>1 DEF Feed
  <2> HIDE DEF no, st, a, g, o, n
  <2>3. [Feeds[c] EXCEPT !.alive = no] = Feed(st, no, g, o, n)
    BY <2>1 DEF Feed
  <2>4. Feeds' = [Feeds EXCEPT ![c].alive = no]
    BY <1>2, <2>1, <2>3, FeedsTyped
  <2>5. QED
    BY <1>1, <2>2, <2>4 DEF Promise!Drop, no
<1>5. CASE ~Running(conn[c])
  <2>1. FeedOf(room', conn'[c], c) = Feeds[c]
    BY <1>1, <1>3, <1>5 DEF FeedOf, Running
  <2>2. QED
    BY <1>2, <2>1, FeedsTyped
<1>6. QED
  BY <1>4, <1>5

LEMMA EndFeed ==
  ASSUME IInv, IInv', NEW c \in Conns,
         StreamWriteError(c) \/ StreamGone(c) \/ StreamClosed(c)
  PROVE  Promise!End(c)
<1>1. /\ conn[c].pc = "loop" /\ conn'[c].pc \in {"idle", "remove"}
      /\ \A d \in Conns \ {c} : conn'[d] = conn[d]
  BY DEF StreamWriteError, StreamGone, StreamClosed, IInv, TypeOK, IdleConn
<1>2. /\ room'.version = room.version
      /\ \A d \in Conns \ {c} : /\ In(room', d) <=> In(room, d)
                                /\ room'.chan[d].q = room.chan[d].q
  <2>1. CASE StreamWriteError(c)
    BY <2>1, FrameMoves DEF In
  <2>2. CASE StreamGone(c) \/ StreamClosed(c)
    BY <2>2 DEF StreamGone, StreamClosed
  <2>3. QED
    BY <2>1, <2>2
<1>3. Feeds' = [Feeds EXCEPT ![c] = Promise!Off]
  <2>1. FeedOf(room', conn'[c], c) = Promise!Off
    BY <1>1 DEF FeedOf, Running
  <2>2. Feeds' = [Feeds EXCEPT ![c] = FeedOf(room', conn'[c], c)]
    BY <1>1, <1>2, OneFeed
  <2>3. QED
    BY <2>1, <2>2
<1>4. /\ Feeds[c].st = IF In(room, c) THEN "in" ELSE "cut"
      /\ Feeds[c].alive = conn[c].alive
      /\ Feeds[c].owed = Vers(room.chan[c].q)
  BY <1>1, FeedsTyped DEF FeedOf, Running, Feed
<1>5. ~conn[c].alive \/ (~In(room, c) /\ Vers(room.chan[c].q) = {})
  <2>1. CASE StreamClosed(c)
    <3>1. ~room.chan[c].open /\ room.chan[c].q = <<>>
      BY <2>1, FreshType DEF StreamClosed, Dead
    <3>2. ~In(room, c)
      BY <3>1, FanoutAssumption DEF In, IInv, WellFormed
    <3>3. Vers(room.chan[c].q) = {}
      <4>1. Len(room.chan[c].q) = 0
        BY <3>1
      <4>2. QED
        BY <4>1 DEF Vers, States
    <3>4. QED
      BY <3>2, <3>3
  <2>2. CASE StreamWriteError(c) \/ StreamGone(c)
    BY <2>2 DEF StreamWriteError, StreamGone
  <2>3. QED
    BY <2>1, <2>2
<1>6. Feeds[c].st # "off"
  BY <1>4
<1>7. ~Feeds[c].alive \/ (Feeds[c].st = "cut" /\ Feeds[c].owed = {})
  BY <1>4, <1>5
<1>8. QED
  BY <1>2, <1>3, <1>6, <1>7 DEF Promise!End

LEMMA JoinFeed ==
  ASSUME SInv, IInv', NEW c \in Conns, EventsJoin(c)
  PROVE  Promise!Join(c)
<1>1. /\ IInv /\ WellFormed(room) /\ UserOf[c] \in Users
      /\ conn[c].pc = "auth" /\ conn[c].seen = 0 /\ conn[c].alive \in BOOLEAN
      /\ conn'[c].pc = "greet" /\ conn'[c].seen = 0 /\ conn'[c].alive = conn[c].alive
      /\ \A d \in Conns \ {c} : conn'[d] = conn[d] /\ ChanOK(room, d)
  BY ListenAssumption DEF SInv, IInv, TypeOK, StreamsOK, Unsent, EventsJoin
<1>2. /\ room'.version = room.version /\ In(room', c)
      /\ \A d \in Conns \ {c} : Rostered(room, room', d, UserOf[c])
  BY <1>1, JoinMoves
<1>3. Vers(room'.chan[c].q) = {}
  <2>1. PICK m \in Frame : m.ev = "members" /\ room'.chan[c].q = <<m>>
    BY <1>1, JoinMoves
  <2>2. Len(<<m>>) = 1 /\ <<m>>[1] = m
    OBVIOUS
  <2>3. States(<<m>>) = {}
    BY <2>1, <2>2 DEF States
  <2>4. QED
    BY <2>1, <2>3 DEF Vers
<1>4. /\ Feeds[c] = Promise!Off
      /\ Feeds' \in [Conns -> Promise!Feed]
      /\ Feeds'[c] = FeedOf(room', conn'[c], c)
      /\ \A d \in Conns \ {c} : Feeds'[d] \in Promise!Kept(Feeds[d])
  <2>1. Feeds[c] = Promise!Off
    BY <1>1, FeedsTyped DEF FeedOf, Running
  <2>2. ASSUME NEW d \in Conns \ {c} PROVE Feeds'[d] \in Promise!Kept(Feeds[d])
    BY <1>1, <1>2, FeedsTyped, RosteredFeed
  <2>3. QED
    BY <1>1, <2>1, <2>2, FeedsTyped
<1> DEFINE no == FALSE
           a == conn[c].alive
<1>5. Promise!Off = Feed("off", no, no, {}, 0)
  BY DEF Promise!Off, Feed
<1>6. FeedOf(room', conn'[c], c) = Feed("in", a, no, {}, 0)
  <2>1. Running(conn'[c]) /\ (conn'[c].pc = "loop") = FALSE
    BY <1>1 DEF Running
  <2>2. QED
    BY <1>1, <1>2, <1>3, <2>1 DEF FeedOf
<1>7. Promise!Off.st = "off"
  BY DEF Promise!Off
<1> HIDE DEF no
<1>8. [Promise!Off EXCEPT !.st = "in", !.alive = a] = Feed("in", a, no, {}, 0)
  <2> HIDE DEF a
  <2>1. [Promise!Off EXCEPT !.st = "in"] = Feed("in", no, no, {}, 0)
    BY <1>5 DEF Feed
  <2>2. [Feed("in", no, no, {}, 0) EXCEPT !.alive = a] = Feed("in", a, no, {}, 0)
    BY DEF Feed
  <2>3. QED
    BY <2>1, <2>2
<1>9. Feeds'[c] \in {[Promise!Off EXCEPT !.st = "in", !.alive = b] : b \in BOOLEAN}
  <2> SUFFICES \E b \in BOOLEAN :
                 Feeds'[c] = [Promise!Off EXCEPT !.st = "in", !.alive = b]
    OBVIOUS
  <2>1. a \in BOOLEAN
    BY <1>1
  <2> WITNESS a \in BOOLEAN
  <2>2. QED
    BY <1>4, <1>6, <1>8
<1>10. QED
  BY <1>2, <1>4, <1>7, <1>9 DEF Promise!Join

(* Steps of the room that no connection takes part in, and teardowns. *)
LEMMA ShuffleFeed ==
  ASSUME IInv, IInv', room'.version = room.version,
         \A c \in Conns : Feeds'[c] \in Promise!Kept(Feeds[c])
  PROVE  Promise!Shuffle
BY FeedsTyped DEF Promise!Shuffle

LEMMA TeardownFeed ==
  ASSUME SInv, IInv', NEW c \in Conns, StreamRemove(c)
  PROVE  Promise!Shuffle
<1>1. /\ IInv /\ WellFormed(room) /\ UserOf[c] \in Users
      /\ conn[c].pc = "remove" /\ conn'[c].pc = "idle"
      /\ \A d \in Conns \ {c} : conn'[d] = conn[d] /\ ChanOK(room, d)
  BY ListenAssumption DEF SInv, IInv, TypeOK, StreamsOK, StreamRemove, IdleConn
<1>2. /\ room'.version = room.version
      /\ \A d \in Conns \ {c} : Rostered(room, room', d, UserOf[c])
  BY <1>1, TeardownMoves
<1>3. Feeds'[c] = Promise!Off /\ Feeds[c] = Promise!Off
  BY <1>1, FeedsTyped DEF FeedOf, Running
<1>4. ASSUME NEW d \in Conns \ {c} PROVE Feeds'[d] \in Promise!Kept(Feeds[d])
  BY <1>1, <1>2, FeedsTyped, RosteredFeed
<1>5. Feeds'[c] \in Promise!Kept(Feeds[c])
  BY <1>3 DEF Promise!Kept
<1>6. QED
  BY <1>1, <1>2, <1>4, <1>5, ShuffleFeed

LEMMA ReqFeed ==
  ASSUME SInv, IInv', NEW q \in Reqs,
         (\E u \in Users : RequestArrives(q, u)) \/ ReqStep(q)
  PROVE  Promise!Publish \/ Promise!Shuffle
<1>1. /\ IInv /\ WellFormed(room) /\ WellFormed(room')
      /\ \A c \in Conns : conn'[c] = conn[c] /\ ChanOK(room, c)
  BY DEF SInv, IInv, StreamsOK, RequestArrives, ReqStep, JoinAdd, LeaveRemove, CmdCheck,
         CmdReAdd, CmdApply, CmdKick
<1>2. CASE UNCHANGED room
  <2>1. ASSUME NEW c \in Conns PROVE Feeds'[c] \in Promise!Kept(Feeds[c])
    BY <1>1, <1>2, FeedsTyped, SameFeed
  <2>2. QED
    BY <1>1, <1>2, <2>1, ShuffleFeed
<1>3. ASSUME NEW u \in Users, room'.version = room.version,
             \A c \in Conns : Rostered(room, room', c, u)
      PROVE  Promise!Shuffle
  <2>1. ASSUME NEW c \in Conns PROVE Feeds'[c] \in Promise!Kept(Feeds[c])
    BY <1>1, <1>3, FeedsTyped, RosteredFeed
  <2>2. QED
    BY <1>1, <1>3, <2>1, ShuffleFeed
<1>4. CASE /\ room'.version = room.version + 1
           /\ \A c \in Conns : Published(room, room', c)
  <2>1. ASSUME NEW c \in Conns PROVE Feeds'[c] \in Promise!Told(Feeds[c], room'.version)
    BY <1>1, <1>4, FeedsTyped, PublishedFeed
  <2>2. QED
    BY <1>1, <1>4, <2>1, FeedsTyped DEF Promise!Publish
<1>5. QED
  BY <1>1, <1>2, <1>3, <1>4, ReqMoves DEF SInv

LEMMA FeedStep ==
  ASSUME SInv, IInv', [Next]_vars
  PROVE  [Promise!Next]_(Promise!feedVars)
<1>1. IInv
  BY DEF SInv
<1>2. ASSUME NEW c \in Conns, EventsLookup(c) \/ EventsReject(c)
      PROVE  UNCHANGED Promise!feedVars
  <2>1. /\ ~Running(conn[c]) /\ ~Running(conn'[c]) /\ room' = room
        /\ \A d \in Conns \ {c} : conn'[d] = conn[d]
    <3>1. conn[c].pc \in {"idle", "auth"} /\ conn'[c].pc \in {"idle", "auth"}
      <4>1. CASE EventsLookup(c)
        BY <1>1, <4>1 DEF EventsLookup, IInv, TypeOK, IdleConn
      <4>2. CASE EventsReject(c)
        BY <1>1, <4>2 DEF EventsReject, IInv, TypeOK, IdleConn
      <4>3. QED
        BY <1>2, <4>1, <4>2
    <3>2. room' = room /\ \A d \in Conns \ {c} : conn'[d] = conn[d]
      BY <1>1, <1>2 DEF EventsLookup, EventsReject, IInv, TypeOK
    <3>3. QED
      BY <3>1, <3>2 DEF Running
  <2>2. FeedOf(room', conn'[c], c) = Feeds[c]
    BY <1>1, <2>1, FeedsTyped DEF FeedOf
  <2>3. Feeds' = [Feeds EXCEPT ![c] = FeedOf(room', conn'[c], c)]
    BY <1>1, <2>1, OneFeed
  <2>4. Feeds' = Feeds
    BY <1>1, <2>2, <2>3, FeedsTyped
  <2>5. QED
    BY <2>1, <2>4 DEF Promise!feedVars
<1>3. ASSUME NEW c \in Conns, ConnStep(c) \/ ClientDrop(c)
      PROVE  Promise!Next \/ UNCHANGED Promise!feedVars
  <2>1. CASE EventsReject(c)
    BY <1>2, <2>1
  <2>2. CASE EventsJoin(c)
    BY <2>2, JoinFeed DEF Promise!Next
  <2>3. CASE EventsGreet(c)
    BY <1>1, <2>3, GreetFeed DEF Promise!Next
  <2>4. CASE StreamFrame(c)
    <3>1. room'.version = room.version
      BY <1>1, <2>4, FrameMoves
    <3>2. QED
      BY <2>4, <3>1, DeliverFeed DEF Promise!Next, Promise!feedVars
  <2>5. CASE StreamWriteError(c) \/ StreamGone(c) \/ StreamClosed(c)
    BY <1>1, <2>5, EndFeed DEF Promise!Next
  <2>6. CASE StreamRemove(c)
    BY <2>6, TeardownFeed DEF Promise!Next
  <2>7. CASE ClientDrop(c)
    <3>1. room'.version = room.version
      BY <2>7 DEF ClientDrop
    <3>2. QED
      BY <1>1, <2>7, <3>1, DropFeed DEF Promise!Next, Promise!feedVars
  <2>8. QED
    BY <1>3, <2>1, <2>2, <2>3, <2>4, <2>5, <2>6, <2>7 DEF ConnStep
<1>4. ASSUME NEW q \in Reqs, (\E u \in Users : RequestArrives(q, u)) \/ ReqStep(q)
      PROVE  Promise!Next
  BY <1>4, ReqFeed DEF Promise!Next
<1>5. CASE UNCHANGED vars
  <2>1. room' = room /\ conn' = conn
    BY <1>5 DEF vars
  <2>2. Feeds' = Feeds
    BY <2>1, FeedsAre
  <2>3. QED
    BY <2>1, <2>2 DEF Promise!feedVars
<1>6. QED
  BY <1>2, <1>3, <1>4, <1>5 DEF Next

(***************************************************************************)
(* listen_room.go keeps the promise of RoomFeed to every connection: each  *)
(* step of a handler is a step of the promise, or none.                    *)
(***************************************************************************)
THEOREM FeedImplemented == Spec => FeedRefined
<1>1. Init => Promise!Init
  <2> SUFFICES ASSUME Init PROVE Promise!Init
    OBVIOUS
  <2>1. WellFormed(EmptyRoom) /\ Host \in Users /\ Host \notin Conns
    BY EmptyWellFormed, ListenAssumption, FanoutAssumption
  <2>2. room.version = 0
    <3>1. room = AddMember(EmptyRoom, Host, Host) /\ EmptyRoom.version = 0
      BY DEF Init, EmptyRoom
    <3>2. QED
      BY <2>1, <3>1, AddMemberKeeps
  <2>3. \A c \in Conns : FeedOf(room, conn[c], c) = Promise!Off
    BY DEF Init, IdleConn, FeedOf, Running
  <2>4. QED
    BY <2>2, <2>3, FeedsAre DEF Promise!Init
<1>2. SInv /\ SInv' /\ [Next]_vars => [Promise!Next]_(Promise!feedVars)
  BY FeedStep DEF SInv
<1>3. QED
  BY <1>1, <1>2, SInvInductive, PTL DEF Spec, FeedRefined, Promise!Spec

-----------------------------------------------------------------------------
(***************************************************************************)
(* What the end of a stream rests on.  Fairness is not spoken of here, but *)
(* what it needs: that nobody undoes, meanwhile, what the handler's next   *)
(* step waits for, and that there is a next step.                          *)
(***************************************************************************)
Parting(c) == conn[c].pc = "loop" /\ ~Attached(c)

PartingRunsDry ==
  [][\A c \in Conns : Parting(c) =>
       LET q == room.chan[c].q
           p == room'.chan[c].q
       IN /\ ~Attached(c)'
          /\ \/ conn'[c].pc # "loop"
             \/ p = q /\ conn'[c] \in {conn[c], [conn[c] EXCEPT !.alive = FALSE]}
             \/ q # <<>> /\ p = Tail(q) /\ conn'[c] = Written(conn[c], Head(q))]_vars

PartingMayEnd ==
  \A c \in Conns : Parting(c) => room.chan[c].q # <<>> \/ room.chan[c] = Dead

LEMMA PartingStep ==
  ASSUME SInv, Next, NEW c \in Conns, Parting(c)
  PROVE  LET q == room.chan[c].q
             p == room'.chan[c].q
         IN /\ ~Attached(c)'
            /\ \/ conn'[c].pc # "loop"
               \/ p = q /\ conn'[c] \in {conn[c], [conn[c] EXCEPT !.alive = FALSE]}
               \/ q # <<>> /\ p = Tail(q) /\ conn'[c] = Written(conn[c], Head(q))
<1> DEFINE q == room.chan[c].q
           p == room'.chan[c].q
<1>1. /\ ~In(room, c) /\ conn[c].pc = "loop" /\ IInv /\ ReqOK
      /\ conn \in [Conns -> [pc     : {"idle", "auth", "greet", "loop", "remove"},
                             alive  : BOOLEAN,
                             seen   : Nat,
                             over   : BOOLEAN,
                             roster : SUBSET Users]]
  BY DEF SInv, IInv, TypeOK, Parting, Attached, In
<1>2. ASSUME NEW u \in Users, Rostered(room, room', c, u)
      PROVE  ~In(room', c) /\ p = q
  BY <1>1, <1>2 DEF Rostered, Got, In
<1>3. ASSUME NEW d \in Conns \ {c}, EventsLookup(d) \/ ConnStep(d) \/ ClientDrop(d)
      PROVE  ~In(room', c) /\ p = q
  <2>1. CASE EventsJoin(d)
    BY <1>2, <1>1, <2>1, JoinMoves, ListenAssumption
  <2>2. CASE StreamRemove(d)
    BY <1>2, <1>1, <2>2, TeardownMoves, ListenAssumption
  <2>3. CASE StreamFrame(d) \/ StreamWriteError(d)
    BY <1>1, <2>3, FrameMoves DEF In
  <2>4. CASE \/ EventsLookup(d) \/ EventsReject(d) \/ EventsGreet(d)
             \/ StreamGone(d) \/ StreamClosed(d) \/ ClientDrop(d)
    BY <1>1, <2>4 DEF EventsLookup, EventsReject, EventsGreet, StreamGone, StreamClosed,
                      ClientDrop
  <2>5. QED
    BY <1>3, <2>1, <2>2, <2>3, <2>4 DEF ConnStep
<1>4. ASSUME NEW r \in Reqs, (\E u \in Users : RequestArrives(r, u)) \/ ReqStep(r)
      PROVE  ~In(room', c) /\ p = q
  <2>1. CASE UNCHANGED room
    BY <1>1, <2>1
  <2>2. CASE Published(room, room', c)
    BY <1>1, <2>2 DEF Published
  <2>3. CASE \E u \in Users : Rostered(room, room', c, u)
    BY <1>2, <2>3
  <2>4. QED
    BY <1>1, <1>4, <2>1, <2>2, <2>3, ReqMoves
<1>5. CASE conn'[c] = conn[c] /\ ~In(room', c) /\ p = q
  BY <1>5 DEF Attached, In
<1>6. CASE StreamFrame(c)
  <2>1. q # <<>> /\ p = Tail(q) /\ room'.members = room.members
    BY <1>1, <1>6, FrameMoves
  <2>2. conn'[c] = Written(conn[c], Head(q))
    BY <1>1, <1>6 DEF StreamFrame
  <2>3. QED
    BY <1>1, <2>1, <2>2 DEF Attached, In
<1>7. CASE StreamWriteError(c)
  <2>1. room'.members = room.members
    BY <1>1, <1>7, FrameMoves
  <2>2. conn'[c].pc = "remove"
    BY <1>1, <1>7 DEF StreamWriteError, IdleConn
  <2>3. QED
    BY <1>1, <2>1, <2>2 DEF Attached, In
<1>8. CASE StreamGone(c) \/ StreamClosed(c)
  <2>1. room' = room /\ conn'[c].pc # "loop"
    BY <1>1, <1>8 DEF StreamGone, StreamClosed, IdleConn
  <2>2. QED
    BY <1>1, <2>1 DEF Attached, In
<1>9. CASE ClientDrop(c)
  <2>1. room' = room /\ conn'[c] = [conn[c] EXCEPT !.alive = FALSE]
    BY <1>1, <1>9 DEF ClientDrop
  <2>2. QED
    BY <1>1, <2>1 DEF Attached, In
<1>10. CASE conn'[c] # conn[c]
  <2>1. EventsLookup(c) \/ ConnStep(c) \/ ClientDrop(c)
    BY <1>10, OthersConns
  <2>2. \/ StreamFrame(c) \/ StreamWriteError(c) \/ StreamGone(c) \/ StreamClosed(c)
        \/ ClientDrop(c)
    BY <1>1, <2>1 DEF EventsLookup, ConnStep, EventsReject, EventsJoin, EventsGreet,
                      StreamRemove
  <2>3. QED
    BY <1>6, <1>7, <1>8, <1>9, <2>2
<1>11. CASE conn'[c] = conn[c]
  <2>1. CASE EventsLookup(c) \/ ConnStep(c) \/ ClientDrop(c)
    <3>1. \/ StreamFrame(c) \/ StreamWriteError(c) \/ StreamGone(c) \/ StreamClosed(c)
          \/ ClientDrop(c)
      BY <1>1, <2>1 DEF EventsLookup, ConnStep, EventsReject, EventsJoin, EventsGreet,
                        StreamRemove
    <3>2. QED
      BY <1>6, <1>7, <1>8, <1>9, <3>1
  <2>2. QED
    BY <1>3, <1>4, <1>5, <1>11, <2>1 DEF Next
<1>12. QED
  BY <1>10, <1>11

(***************************************************************************)
(* A stream whose place is gone never gets it back, and is sent nothing    *)
(* but what its channel held, from the front, until its handler leaves.    *)
(***************************************************************************)
THEOREM PartedGetsNoMore == Spec => PartingRunsDry
<1>1. SInv /\ [Next]_vars =>
        [\A c \in Conns : Parting(c) =>
           LET q == room.chan[c].q
               p == room'.chan[c].q
           IN /\ ~Attached(c)'
              /\ \/ conn'[c].pc # "loop"
                 \/ p = q /\ conn'[c] \in {conn[c], [conn[c] EXCEPT !.alive = FALSE]}
                 \/ q # <<>> /\ p = Tail(q) /\ conn'[c] = Written(conn[c], Head(q))]_vars
  BY PartingStep
<1>2. QED
  BY <1>1, SInvInductive, PTL DEF Spec, PartingRunsDry

(* And when that is sent, the handler finds its channel closed: it never *)
(* waits on a channel that nobody will close.                            *)
THEOREM PartedMayEnd == Spec => []PartingMayEnd
<1>1. SInv => PartingMayEnd
  <2> SUFFICES ASSUME SInv, NEW c \in Conns, Parting(c), room.chan[c].q = <<>>
               PROVE  room.chan[c] = Dead
    BY DEF PartingMayEnd
  <2>1. c \in Recs /\ room.chan[c] \in Chan /\ ~In(room, c) /\ WellFormed(room)
    BY ChannelOf DEF SInv, IInv, Parting, Attached, In
  <2>2. room.chan[c].open = FALSE
    BY <2>1 DEF WellFormed, Chan, In
  <2>3. QED
    BY <2>1, <2>2 DEF Chan, Dead
<1>2. QED
  BY <1>1, SInvInductive, PTL
=============================================================================
