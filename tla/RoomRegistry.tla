---------------------------- MODULE RoomRegistry ----------------------------
(***************************************************************************)
(* The table of rooms of apps/fnmusic/listen_room.go (rooms, a sync.Map    *)
(* from codes to rooms): handleRoomCreate, which draws a code, stores the  *)
(* room and only then lets its host in; getRoom; closeRoom; and the        *)
(* janitor, which looks at a room under Room.mu and deletes its code after *)
(* it let go of it.  Of a room only its members, its activity and Closed   *)
(* matter here; ListenRoom has the rest.                                   *)
(***************************************************************************)
EXTENDS FiniteSets

CONSTANTS Codes,    \* room codes, whatever genRoomCode may draw
          Rooms,    \* the Room structs that can be made
          Users,
          Reqs,     \* calls of the room handlers that may be in flight
          None      \* the absence of a room or of a code

ASSUME RegistryAssumption == None \notin Codes \cup Rooms

VARIABLES
  table,    \* rooms: code -> *Room
  room,     \* the structs; code is None before a room is made
  req,      \* the handlers, and the room or code each holds
  janitor   \* the codes it has still to visit, the code it is about to delete

vars == <<table, room, req, janitor>>

(* idle: no touch for roomTTL, UpdatedAtMs < deadline *)
Unmade == [code |-> None, members |-> {}, idle |-> FALSE, closed |-> FALSE]
IdleReq == [pc |-> "idle", code |-> None, room |-> None]
Resting == [todo |-> {}, doomed |-> None]

Made == {r \in Rooms : room[r].code # None}
Listed(r) == \E c \in Codes : table[c] = r
Unused(r) == room[r].members = {} \/ room[r].idle

Init ==
  /\ table = [c \in Codes |-> None]
  /\ room = [r \in Rooms |-> Unmade]
  /\ req = [q \in Reqs |-> IdleReq]
  /\ janitor = Resting

-----------------------------------------------------------------------------
(* handleRoomCreate *)

DrawCodeUnchecked(q) ==             \* mutant: stores under the code "" of a failure
  /\ req[q].pc = "idle"
  /\ \E c \in Codes \cup {None} :
       /\ c = None \/ table[c] = None
       /\ req' = [req EXCEPT ![q] = [IdleReq EXCEPT !.pc = "store", !.code = c]]
  /\ UNCHANGED <<table, room, janitor>>

(* genRoomCode: any code that is not in the table now. *)
DrawCode(q) ==
  /\ req[q].pc = "idle"
  /\ \E c \in Codes :
       /\ table[c] = None
       /\ req' = [req EXCEPT ![q] = [IdleReq EXCEPT !.pc = "store", !.code = c]]
  /\ UNCHANGED <<table, room, janitor>>

StoreRoom(q) ==
  /\ req[q].pc = "store"
  /\ \E r \in Rooms \ Made :
       /\ room' = [room EXCEPT ![r].code = req[q].code]
       /\ table' = [table EXCEPT ![req[q].code] = r]
       /\ req' = [req EXCEPT ![q] = [IdleReq EXCEPT !.pc = "host", !.room = r]]
  /\ UNCHANGED janitor

Done(q) == req' = [req EXCEPT ![q] = IdleReq]

(* addMember and removeMember touch the room. *)
Enters(r, u) == [r EXCEPT !.members = @ \cup {u}, !.idle = FALSE]
Leaves(r, u) == [r EXCEPT !.members = @ \ {u}, !.idle = FALSE]

HostEnters(q) ==
  /\ req[q].pc = "host"
  /\ \E u \in Users : room' = [room EXCEPT ![req[q].room] = Enters(@, u)]
  /\ Done(q)
  /\ UNCHANGED <<table, janitor>>

-----------------------------------------------------------------------------
(* The other handlers: getRoom, then one change to the room. *)

GetRoom(q) ==
  /\ req[q].pc = "idle"
  /\ \E c \in Codes :
       /\ table[c] # None
       /\ ~room[table[c]].closed
       /\ req' = [req EXCEPT ![q] = [IdleReq EXCEPT !.pc = "act", !.room = table[c]]]
  /\ UNCHANGED <<table, room, janitor>>

(* join and events; a command that is neither close nor kick, whose sender *)
(* is added if missing, does the same here.                                *)
Enter(q) ==
  /\ req[q].pc = "act"
  /\ \E u \in Users : room' = [room EXCEPT ![req[q].room] = Enters(@, u)]
  /\ Done(q)
  /\ UNCHANGED <<table, janitor>>

Leave(q) ==
  /\ req[q].pc = "act"
  /\ \E u \in Users : room' = [room EXCEPT ![req[q].room] = Leaves(@, u)]
  /\ Done(q)
  /\ UNCHANGED <<table, janitor>>

(* close by the host: marked first, closeRoom after the lock was released *)
CloseForgetsTable(q) ==             \* mutant: closed but never taken out
  /\ req[q].pc = "act"
  /\ \E u \in Users :
       room' = [room EXCEPT ![req[q].room] = [Enters(@, u) EXCEPT !.closed = TRUE]]
  /\ Done(q)
  /\ UNCHANGED <<table, janitor>>

Close(q) ==
  /\ req[q].pc = "act"
  /\ \E u \in Users :
       room' = [room EXCEPT ![req[q].room] = [Enters(@, u) EXCEPT !.closed = TRUE]]
  /\ req' = [req EXCEPT ![q].pc = "unlist"]
  /\ UNCHANGED <<table, janitor>>

(* closeRoom deletes the room's code, whichever room is under it by now. *)
Unlist(q) ==
  /\ req[q].pc = "unlist"
  /\ table' = [table EXCEPT ![room[req[q].room].code] = None]
  /\ Done(q)
  /\ UNCHANGED <<room, janitor>>

-----------------------------------------------------------------------------
(* What happens to rooms that were made, listed or not. *)

(* An events handler whose client is gone removes its user. *)
StreamEnds(r) ==
  /\ r \in Made
  /\ \E u \in Users : room' = [room EXCEPT ![r] = Leaves(@, u)]
  /\ UNCHANGED <<table, req, janitor>>

(* A slow client evicted by a broadcast, a member kicked: no touch. *)
Evict(r) ==
  /\ \E u \in room[r].members : room' = [room EXCEPT ![r].members = @ \ {u}]
  /\ UNCHANGED <<table, req, janitor>>

(* roomTTL passes. *)
TurnIdle(r) ==
  /\ r \in Made
  /\ room' = [room EXCEPT ![r].idle = TRUE]
  /\ UNCHANGED <<table, req, janitor>>

-----------------------------------------------------------------------------
(* roomJanitor *)

(***************************************************************************)
(* A tick.  Range visits every code once, the ones that are not in the     *)
(* table to no effect: a code that enters or leaves the table during the   *)
(* pass may be seen or missed, which is all Range promises.                *)
(***************************************************************************)
JanitorTick ==
  /\ janitor = Resting
  /\ janitor' = [Resting EXCEPT !.todo = Codes]
  /\ UNCHANGED <<table, room, req>>

JanitorLooksForBoth ==              \* mutant: empty && idle
  /\ janitor.doomed = None
  /\ \E c \in janitor.todo :
       janitor' = [todo   |-> janitor.todo \ {c},
                   doomed |-> IF /\ table[c] # None
                                 /\ room[table[c]].members = {}
                                 /\ room[table[c]].idle
                              THEN c ELSE None]
  /\ UNCHANGED <<table, room, req>>

(* One room, under its mutex: is it empty, or idle? *)
JanitorLooks ==
  /\ janitor.doomed = None
  /\ \E c \in janitor.todo :
       janitor' = [todo   |-> janitor.todo \ {c},
                   doomed |-> IF table[c] # None /\ Unused(table[c])
                              THEN c ELSE None]
  /\ UNCHANGED <<table, room, req>>

(* rooms.Delete(k), whatever happened since *)
JanitorDeletes ==
  /\ janitor.doomed # None
  /\ table' = [table EXCEPT ![janitor.doomed] = None]
  /\ janitor' = [janitor EXCEPT !.doomed = None]
  /\ UNCHANGED <<room, req>>

Janitor == JanitorTick \/ JanitorLooks \/ JanitorDeletes

-----------------------------------------------------------------------------
ReqStep(q) ==
  StoreRoom(q) \/ HostEnters(q) \/ Enter(q) \/ Leave(q) \/ Close(q) \/ Unlist(q)

Next ==
  \/ \E q \in Reqs : DrawCode(q) \/ GetRoom(q) \/ ReqStep(q)
  \/ \E r \in Rooms : StreamEnds(r) \/ Evict(r) \/ TurnIdle(r)
  \/ Janitor

Spec == Init /\ [][Next]_vars

(* Handlers that can run do run, and the janitor's ticker ticks. *)
FairSpec == Spec /\ WF_vars(Janitor) /\ \A q \in Reqs : WF_vars(ReqStep(q))

-----------------------------------------------------------------------------
Types ==
  /\ table \in [Codes -> Rooms \cup {None}]
  /\ room \in [Rooms -> [code    : Codes \cup {None},
                         members : SUBSET Users,
                         idle    : BOOLEAN,
                         closed  : BOOLEAN]]
  /\ req \in [Reqs -> [pc   : {"idle", "store", "host", "act", "unlist"},
                       code : Codes \cup {None},
                       room : Rooms \cup {None}]]
  /\ janitor \in [todo : SUBSET Codes, doomed : Codes \cup {None}]

(* A handler has the code or the room that its next step works on. *)
HandlersHold ==
  \A q \in Reqs :
    /\ req[q].pc = "store" => req[q].code \in Codes
    /\ req[q].pc \in {"host", "act", "unlist"} => req[q].room \in Made

(* The shape of the state. *)
TypeOK == Types /\ HandlersHold

(***************************************************************************)
(* A room is in the table under its own code only, whatever was drawn,     *)
(* collected and drawn again: so deleting its code takes it out.  And a    *)
(* closed room is still in the table only while the handler that closed it *)
(* has yet to take it out.                                                 *)
(***************************************************************************)
ClosedIsUnlisted ==
  \A c \in Codes : table[c] # None =>
    /\ room[table[c]].code = c
    /\ room[table[c]].closed =>
         \E q \in Reqs : req[q].pc = "unlist" /\ req[q].room = table[c]

(* A room nobody is in, or nobody touches, does not stay in the table. *)
UnusedIsCollected ==
  \A r \in Rooms : (Listed(r) /\ Unused(r)) ~> (~Listed(r) \/ ~Unused(r))

(***************************************************************************)
(* MOBILE-API.md:212: rooms are collected when they are empty or had no    *)
(* activity for 30 minutes.                                                *)
(***************************************************************************)
OnlyUnusedCollected ==
  [][\A r \in Rooms : Listed(r) /\ ~Listed(r)' /\ janitor' # janitor => Unused(r)]_vars
=============================================================================
