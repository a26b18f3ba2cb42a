------------------------- MODULE RoomRegistryProofs -------------------------
(***************************************************************************)
(* For all codes, rooms, users and handlers: the table is well typed, a    *)
(* room is listed under its own code only, and a closed room is listed     *)
(* only while its handler is about to take it out.                         *)
(***************************************************************************)
EXTENDS RoomRegistry, TLAPS

(* A handler holds what its next step needs, and an unmade room is open. *)
Holds ==
  /\ HandlersHold
  /\ \A r \in Rooms \ Made : ~room[r].closed

RInv == Types /\ Holds /\ ClosedIsUnlisted

LEMMA InitRInv == Init => RInv
BY RegistryAssumption
DEF Init, RInv, Types, Holds, HandlersHold, ClosedIsUnlisted, Made, Unmade, IdleReq, Resting

-----------------------------------------------------------------------------
RoomStruct == [code : Codes \cup {None}, members : SUBSET Users,
               idle : BOOLEAN, closed : BOOLEAN]

(***************************************************************************)
(* One room gets another struct n with the same code and Closed; at most   *)
(* one handler ends, and not one that is closing.                          *)
(***************************************************************************)
LEMMA RoomStep ==
  ASSUME RInv, UNCHANGED <<table, janitor>>,
         NEW r \in Rooms, NEW n \in RoomStruct, room' = [room EXCEPT ![r] = n],
         n.code = room[r].code, n.closed = room[r].closed,
         \/ UNCHANGED req
         \/ \E q \in Reqs : req[q].pc # "unlist" /\ Done(q)
  PROVE  RInv'
<1>1. /\ room \in [Rooms -> RoomStruct] /\ room' \in [Rooms -> RoomStruct]
      /\ \A x \in Rooms : room'[x].code = room[x].code /\ room'[x].closed = room[x].closed
  BY DEF RInv, Types, RoomStruct, Made
<1>2. Made' = Made
  BY <1>1 DEF Made
<1>3. Types'
  BY <1>1 DEF RInv, Types, Done, IdleReq, RoomStruct
<1>4. \A q \in Reqs : req'[q] = req[q] \/ (req'[q] = IdleReq /\ req[q].pc # "unlist")
  BY DEF RInv, Types, Done
<1>5. Holds'
  BY <1>1, <1>2, <1>4 DEF RInv, Holds, HandlersHold, IdleReq
<1>6. ClosedIsUnlisted'
  BY <1>1, <1>4 DEF RInv, Types, ClosedIsUnlisted
<1>7. QED
  BY <1>3, <1>5, <1>6 DEF RInv

(* A code is deleted, by the janitor or by the handler that closed its room. *)
LEMMA DeleteStep ==
  ASSUME RInv, UNCHANGED room, NEW c \in Codes,
         table' = [table EXCEPT ![c] = None],
         janitor' \in [todo : SUBSET Codes, doomed : Codes \cup {None}],
         \/ UNCHANGED req
         \/ \E q \in Reqs : room[req[q].room].code = c /\ Done(q)
  PROVE  RInv'
<1>1. Types'
  BY DEF RInv, Types, Done, IdleReq
<1>2. Made' = Made
  BY DEF Made
<1>3. \A q \in Reqs : req'[q] = req[q] \/ (req'[q] = IdleReq /\ room[req[q].room].code = c)
  BY DEF RInv, Types, Done
<1>4. Holds'
  BY <1>2, <1>3 DEF RInv, Holds, HandlersHold, IdleReq
<1>5. ASSUME NEW d \in Codes, table'[d] # None
      PROVE  /\ room'[table'[d]].code = d
             /\ room'[table'[d]].closed =>
                  \E q \in Reqs : req'[q].pc = "unlist" /\ req'[q].room = table'[d]
  <2>1. d # c /\ table'[d] = table[d]
    BY <1>5 DEF RInv, Types
  <2>2. QED
    BY <1>3, <1>5, <2>1 DEF RInv, ClosedIsUnlisted
<1>6. QED
  BY <1>1, <1>4, <1>5 DEF RInv, ClosedIsUnlisted

-----------------------------------------------------------------------------
LEMMA ReqRInv ==
  ASSUME RInv, NEW q \in Reqs, DrawCode(q) \/ GetRoom(q) \/ ReqStep(q)
  PROVE  RInv'
<1> DEFINE r == req[q].room
<1>1. /\ room \in [Rooms -> RoomStruct] /\ table \in [Codes -> Rooms \cup {None}]
      /\ req[q].pc \in {"host", "act", "unlist"} => r \in Made /\ r \in Rooms
  BY DEF RInv, Types, RoomStruct, Holds, HandlersHold, Made
<1>2. CASE DrawCode(q)
  <2>1. PICK c \in Codes :
          req' = [req EXCEPT ![q] = [IdleReq EXCEPT !.pc = "store", !.code = c]]
    BY <1>2 DEF DrawCode
  <2>2. Types' /\ Made' = Made
    BY <1>2, <2>1 DEF DrawCode, RInv, Types, IdleReq, Made
  <2>3. /\ req'[q].pc = "store" /\ req'[q].code = c /\ req[q].pc = "idle"
        /\ \A p \in Reqs \ {q} : req'[p] = req[p]
        /\ UNCHANGED <<table, room>>
    BY <1>2, <2>1 DEF DrawCode, RInv, Types, IdleReq
  <2>4. Holds' /\ ClosedIsUnlisted'
    BY <2>2, <2>3 DEF RInv, Holds, HandlersHold, ClosedIsUnlisted
  <2>5. QED
    BY <2>2, <2>4 DEF RInv
<1>3. CASE GetRoom(q)
  <2>1. PICK c \in Codes :
          /\ table[c] # None
          /\ req' = [req EXCEPT ![q] = [IdleReq EXCEPT !.pc = "act", !.room = table[c]]]
    BY <1>3 DEF GetRoom
  <2>2. table[c] \in Made
    BY <1>1, <2>1, RegistryAssumption DEF RInv, ClosedIsUnlisted, Made
  <2>3. Types' /\ Made' = Made
    BY <1>1, <1>3, <2>1 DEF GetRoom, RInv, Types, IdleReq, Made
  <2>4. /\ req'[q].pc = "act" /\ req'[q].room = table[c] /\ req[q].pc = "idle"
        /\ \A p \in Reqs \ {q} : req'[p] = req[p]
        /\ UNCHANGED <<table, room>>
    BY <1>3, <2>1 DEF GetRoom, RInv, Types, IdleReq
  <2>5. Holds' /\ ClosedIsUnlisted'
    BY <2>2, <2>3, <2>4 DEF RInv, Holds, HandlersHold, ClosedIsUnlisted
  <2>6. QED
    BY <2>3, <2>5 DEF RInv
<1>4. CASE StoreRoom(q)
  <2>1. PICK x \in Rooms \ Made :
          /\ room' = [room EXCEPT ![x].code = req[q].code]
          /\ table' = [table EXCEPT ![req[q].code] = x]
          /\ req' = [req EXCEPT ![q] = [IdleReq EXCEPT !.pc = "host", !.room = x]]
    BY <1>4 DEF StoreRoom
  <2>2. /\ req[q].pc = "store" /\ req[q].code \in Codes
        /\ room[x].code = None /\ ~room[x].closed /\ UNCHANGED janitor
    BY <1>4, <2>1 DEF StoreRoom, RInv, Holds, HandlersHold, Made
  <2>3. /\ room'[x].code = req[q].code /\ ~room'[x].closed
        /\ \A y \in Rooms \ {x} : room'[y] = room[y]
    BY <1>1, <2>1, <2>2 DEF RoomStruct
  <2>4. Made' = Made \cup {x}
    BY <2>2, <2>3, RegistryAssumption DEF Made
  <2>5. room' \in [Rooms -> RoomStruct]
    BY <1>1, <2>1, <2>2 DEF RoomStruct
  <2>6. Types'
    BY <1>1, <2>1, <2>2, <2>5 DEF RInv, Types, IdleReq, RoomStruct
  <2>7. /\ req'[q].pc = "host" /\ req'[q].room = x
        /\ \A p \in Reqs \ {q} : req'[p] = req[p]
    BY <2>1 DEF RInv, Types, IdleReq
  <2>8. Holds'
    BY <2>2, <2>3, <2>4, <2>7 DEF RInv, Holds, HandlersHold
  <2>9. ASSUME NEW d \in Codes, table'[d] # None
        PROVE  /\ room'[table'[d]].code = d
               /\ room'[table'[d]].closed =>
                    \E p \in Reqs : req'[p].pc = "unlist" /\ req'[p].room = table'[d]
    <3>1. CASE d = req[q].code
      BY <1>1, <2>1, <2>2, <2>3, <3>1
    <3>2. CASE d # req[q].code
      <4>1. table'[d] = table[d] /\ table[d] \in Rooms /\ room[table[d]].code = d
        BY <1>1, <2>1, <2>9, <3>2 DEF RInv, ClosedIsUnlisted
      <4>2. room'[table[d]] = room[table[d]]
        BY <2>2, <2>3, <4>1, RegistryAssumption
      <4>3. QED
        BY <2>2, <2>7, <2>9, <4>1, <4>2 DEF RInv, ClosedIsUnlisted
    <3>3. QED
      BY <3>1, <3>2
  <2>10. QED
    BY <2>6, <2>8, <2>9 DEF RInv, ClosedIsUnlisted
<1>5. CASE HostEnters(q) \/ Enter(q)
  <2>1. PICK u \in Users : room' = [room EXCEPT ![r] = Enters(room[r], u)]
    BY <1>5 DEF HostEnters, Enter
  <2>2. r \in Made /\ r \in Rooms /\ req[q].pc # "unlist" /\ Done(q) /\ UNCHANGED <<table, janitor>>
    BY <1>1, <1>5 DEF HostEnters, Enter
  <2>3. /\ Enters(room[r], u) \in RoomStruct
        /\ Enters(room[r], u).code = room[r].code
        /\ Enters(room[r], u).closed = room[r].closed
    BY <1>1, <2>2 DEF Enters, RoomStruct, Made
  <2>4. QED
    BY <2>1, <2>2, <2>3, RoomStep
<1>6. CASE Leave(q)
  <2>1. PICK u \in Users : room' = [room EXCEPT ![r] = Leaves(room[r], u)]
    BY <1>6 DEF Leave
  <2>2. r \in Made /\ r \in Rooms /\ req[q].pc # "unlist" /\ Done(q) /\ UNCHANGED <<table, janitor>>
    BY <1>1, <1>6 DEF Leave
  <2>3. /\ Leaves(room[r], u) \in RoomStruct
        /\ Leaves(room[r], u).code = room[r].code
        /\ Leaves(room[r], u).closed = room[r].closed
    BY <1>1, <2>2 DEF Leaves, RoomStruct, Made
  <2>4. QED
    BY <2>1, <2>2, <2>3, RoomStep
<1>7. CASE Close(q)
  <2>1. PICK u \in Users :
          room' = [room EXCEPT ![r] = [Enters(room[r], u) EXCEPT !.closed = TRUE]]
    BY <1>7 DEF Close
  <2>2. /\ req[q].pc = "act" /\ r \in Made /\ UNCHANGED <<table, janitor>>
        /\ req' = [req EXCEPT ![q].pc = "unlist"]
    BY <1>1, <1>7 DEF Close
  <2>3. /\ room' \in [Rooms -> RoomStruct]
        /\ \A x \in Rooms : /\ room'[x].code = room[x].code
                            /\ x # r => room'[x].closed = room[x].closed
    BY <1>1, <2>1, <2>2 DEF Enters, RoomStruct, Made
  <2>4. Made' = Made
    BY <2>3 DEF Made
  <2>5. Types'
    BY <2>2, <2>3 DEF RInv, Types, RoomStruct
  <2>6. /\ req'[q].pc = "unlist" /\ req'[q].room = r
        /\ \A p \in Reqs \ {q} : req'[p] = req[p]
    BY <2>2 DEF RInv, Types
  <2>7. Holds'
    BY <2>2, <2>3, <2>4, <2>6 DEF RInv, Holds, HandlersHold
  <2>8. ClosedIsUnlisted'
    BY <1>1, <2>2, <2>3, <2>6 DEF RInv, ClosedIsUnlisted
  <2>9. QED
    BY <2>5, <2>7, <2>8 DEF RInv
<1>8. CASE Unlist(q)
  <2>1. r \in Made /\ room[r].code \in Codes
    BY <1>1, <1>8 DEF Unlist, Made, RoomStruct
  <2>2. QED
    BY <1>8, <2>1, DeleteStep DEF Unlist, RInv, Types
<1>9. QED
  BY <1>2, <1>3, <1>4, <1>5, <1>6, <1>7, <1>8 DEF ReqStep

LEMMA RoomRInv ==
  ASSUME RInv, NEW r \in Rooms, StreamEnds(r) \/ Evict(r) \/ TurnIdle(r)
  PROVE  RInv'
<1>1. room[r] \in RoomStruct /\ UNCHANGED <<table, req, janitor>>
  BY DEF RInv, Types, RoomStruct, StreamEnds, Evict, TurnIdle
<1>2. PICK n \in RoomStruct :
        /\ room' = [room EXCEPT ![r] = n]
        /\ n.code = room[r].code /\ n.closed = room[r].closed
  <2>1. CASE StreamEnds(r)
    <3>1. \A u \in Users : /\ Leaves(room[r], u) \in RoomStruct
                           /\ Leaves(room[r], u).code = room[r].code
                           /\ Leaves(room[r], u).closed = room[r].closed
      BY <1>1 DEF Leaves, RoomStruct
    <3>2. QED
      BY <2>1, <3>1 DEF StreamEnds
  <2>2. CASE Evict(r)
    <3>1. \A u : LET n == [room[r] EXCEPT !.members = @ \ {u}]
                 IN n \in RoomStruct /\ n.code = room[r].code /\ n.closed = room[r].closed
      BY <1>1 DEF RoomStruct
    <3>2. PICK u \in room[r].members :
            room' = [room EXCEPT ![r] = [room[r] EXCEPT !.members = @ \ {u}]]
      BY <2>2 DEF Evict, RInv, Types
    <3>3. QED
      BY <3>1, <3>2
  <2>3. CASE TurnIdle(r)
    <3>1. LET n == [room[r] EXCEPT !.idle = TRUE]
          IN n \in RoomStruct /\ n.code = room[r].code /\ n.closed = room[r].closed
      BY <1>1 DEF RoomStruct
    <3>2. room' = [room EXCEPT ![r] = [room[r] EXCEPT !.idle = TRUE]]
      BY <2>3 DEF TurnIdle, RInv, Types
    <3>3. QED
      BY <3>1, <3>2
  <2>4. QED
    BY <2>1, <2>2, <2>3
<1>3. QED
  BY <1>1, <1>2, RoomStep

LEMMA JanitorRInv ==
  ASSUME RInv, Janitor
  PROVE  RInv'
<1>1. CASE JanitorTick \/ JanitorLooks
  <2>1. UNCHANGED <<table, room, req>>
    BY <1>1 DEF JanitorTick, JanitorLooks
  <2>2. janitor' \in [todo : SUBSET Codes, doomed : Codes \cup {None}]
    BY <1>1 DEF JanitorTick, JanitorLooks, RInv, Types, Resting
  <2>3. QED
    BY <2>1, <2>2 DEF RInv, Types, Holds, HandlersHold, Made, ClosedIsUnlisted
<1>2. CASE JanitorDeletes
  <2>1. janitor.doomed \in Codes
    BY <1>2 DEF JanitorDeletes, RInv, Types
  <2>2. janitor' \in [todo : SUBSET Codes, doomed : Codes \cup {None}]
    BY <1>2 DEF JanitorDeletes, RInv, Types
  <2>3. QED
    BY <1>2, <2>1, <2>2, DeleteStep DEF JanitorDeletes
<1>3. QED
  BY <1>1, <1>2 DEF Janitor

-----------------------------------------------------------------------------
LEMMA RInvHolds == Spec => []RInv
<1>1. RInv /\ [Next]_vars => RInv'
  <2> SUFFICES ASSUME RInv, [Next]_vars PROVE RInv'
    OBVIOUS
  <2>1. CASE Next
    BY <2>1, ReqRInv, RoomRInv, JanitorRInv DEF Next
  <2>2. CASE UNCHANGED vars
    BY <2>2 DEF vars, RInv, Types, Holds, HandlersHold, Made, ClosedIsUnlisted
  <2>3. QED
    BY <2>1, <2>2
<1>2. QED
  BY <1>1, InitRInv, PTL DEF Spec

(* The table, the rooms, the handlers and the janitor keep their types. *)
THEOREM RegistryTypeCorrect == Spec => []TypeOK
<1>1. RInv => TypeOK
  BY DEF RInv, Holds, HandlersHold, TypeOK
<1>2. QED
  BY <1>1, RInvHolds, PTL

(* A listed room is under its own code, and closed only in mid-closing. *)
THEOREM ClosedLeavesTable == Spec => []ClosedIsUnlisted
<1>1. RInv => ClosedIsUnlisted
  BY DEF RInv
<1>2. QED
  BY <1>1, RInvHolds, PTL
=============================================================================
