-------------------------- MODULE RoomFanoutProofs --------------------------
(***************************************************************************)
(* What each method of a Room preserves, whatever the numbers of users and *)
(* connections and the size of the buffers, and what it does to the        *)
(* channel of each connection: two lemmas per operator of RoomFanout,      *)
(* cited by the proofs about the handlers that call it.                    *)
(***************************************************************************)
EXTENDS RoomFanout, SequenceTheorems, TLAPS

(* Members are made by their own user or by a connection, each serves one *)
(* user, and a channel is open exactly as long as its member is present.  *)
WellFormed(r) ==
  /\ r \in Room
  /\ \A u \in Users : r.members[u] # None =>
       /\ r.members[u] \in Conns \cup {u}
       /\ r.chan[r.members[u]].open
  /\ \A x \in Recs : r.chan[x].open => \E u \in Users : r.members[u] = x
  /\ \A u, v \in Users :
       r.members[u] = r.members[v] /\ r.members[u] # None => u = v

(* In s the users of r are still there, or gone. *)
Shrinks(r, s) == \A u \in Users : s.members[u] \in {None, r.members[u]}

(* The member that the events handler c made is in the room. *)
In(r, c) == \E u \in Users : r.members[u] = c

(* What a broadcast of f, between r and s, does to the channel of c. *)
Got(r, s, c, f) ==
  \/ ~In(r, c) /\ ~In(s, c) /\ s.chan[c].q = r.chan[c].q
  \/ In(r, c) /\ In(s, c) /\ s.chan[c].q = Append(r.chan[c].q, f)
  \/ In(r, c) /\ ~In(s, c) /\ s.chan[c].q = r.chan[c].q /\ Len(r.chan[c].q) >= Cap

(* What a method that tells the roster, and acts on the place of u, does to *)
(* it: it gets a roster that misses nobody, or has lost its place.          *)
Rostered(r, s, c, u) ==
  \E m \in Frame :
    /\ m.ev = "members" /\ Present(s) \subseteq m.mem
    /\ \/ Got(r, s, c, m)
       \/ /\ r.members[u] = c /\ ~In(s, c)
          /\ s.chan[c].q \in {r.chan[c].q, Drain(r.chan[c]).q, Append(r.chan[c].q, KickedFrame)}

(* What a command does to it: the state, then the roster or "closed". *)
Published(r, s, c) ==
  \E f \in Frame :
    /\ f.ev \in {"members", "closed"}
    /\ f.ev = "members" => Present(s) \subseteq f.mem
    /\ \/ ~In(r, c) /\ ~In(s, c) /\ s.chan[c].q = r.chan[c].q
       \/ /\ In(r, c) /\ In(s, c)
          /\ s.chan[c].q = Append(Append(r.chan[c].q, StateFrame(s)), f)
       \/ /\ In(r, c) /\ ~In(s, c)
          /\ \/ s.chan[c].q = r.chan[c].q /\ Len(r.chan[c].q) >= Cap
             \/ /\ s.chan[c].q = Append(r.chan[c].q, StateFrame(s))
                /\ Len(r.chan[c].q) + 1 >= Cap

LEMMA ChanType ==
  ASSUME NEW ch \in Chan
  PROVE  /\ ch.open \in BOOLEAN /\ ch.q \in Seq(Frame) /\ Len(ch.q) \in Nat
         /\ Len(ch.q) <= Cap
BY DEF Chan, Buffer

(* Pushing into a channel that is not full, draining and closing keep the *)
(* type; closing closes and pushing and draining leave a channel open.    *)
LEMMA PushType ==
  ASSUME NEW x \in Recs, NEW ch \in Chan, NEW f \in Frame, ~(Len(ch.q) >= Cap)
  PROVE  Push(x, ch, f) \in Chan /\ Push(x, ch, f).open = ch.open
<1>1. Unread \in Frame
  BY DEF Unread, Frame
<1>2. PICK g \in Frame : Push(x, ch, f) = [ch EXCEPT !.q = Append(@, g)]
  BY <1>1 DEF Push
<1>3. Append(ch.q, g) \in Seq(Frame) /\ Len(Append(ch.q, g)) = Len(ch.q) + 1
  BY ChanType
<1>4. Len(ch.q) + 1 <= Cap
  BY ChanType, FanoutAssumption
<1>5. QED
  BY <1>2, <1>3, <1>4 DEF Chan, Buffer

LEMMA DrainType ==
  ASSUME NEW ch \in Chan
  PROVE  Drain(ch) \in Chan /\ Drain(ch).open = ch.open
<1>1. CASE ch.q = <<>>
  BY <1>1 DEF Drain
<1>2. CASE ch.q # <<>>
  <2>1. Tail(ch.q) \in Seq(Frame) /\ Len(Tail(ch.q)) = Len(ch.q) - 1
    BY <1>2, ChanType
  <2>2. Len(Tail(ch.q)) <= Cap
    BY <2>1, ChanType, FanoutAssumption
  <2>3. QED
    BY <1>2, <2>1, <2>2 DEF Drain, Chan, Buffer
<1>3. QED
  BY <1>1, <1>2

LEMMA CloseType ==
  ASSUME NEW x, NEW ch \in Chan
  PROVE  Close(x, ch) \in Chan /\ ~Close(x, ch).open
<1>1. <<>> \in Seq(Frame) /\ Len(<<>>) = 0
  OBVIOUS
<1>2. <<>> \in Buffer
  BY <1>1, FanoutAssumption DEF Buffer
<1>3. QED
  BY <1>2 DEF Close, Chan

LEMMA FreshType == Fresh \in Chan /\ Dead \in Chan /\ Fresh.open /\ ~Dead.open
<1>1. <<>> \in Seq(Frame) /\ Len(<<>>) = 0
  OBVIOUS
<1>2. <<>> \in Buffer
  BY <1>1, FanoutAssumption DEF Buffer
<1>3. QED
  BY <1>2 DEF Fresh, Dead, Chan

LEMMA FrameTypes ==
  ASSUME NEW r \in Room
  PROVE  /\ StateFrame(r) \in Frame /\ MembersFrame(r) \in Frame
         /\ ClosedFrame \in Frame /\ KickedFrame \in Frame
BY DEF Room, StateFrame, MembersFrame, ClosedFrame, KickedFrame, Frame, Present

(* broadcastLocked *)
LEMMA BroadcastKeeps ==
  ASSUME NEW r, WellFormed(r), NEW f \in Frame
  PROVE  LET s == Broadcast(r, f)
         IN /\ WellFormed(s) /\ Shrinks(r, s)
            /\ s.version = r.version /\ s.closed = r.closed
<1> DEFINE slow == Slow(r)
           cut  == {r.members[u] : u \in slow}
           sent == {r.members[u] : u \in Present(r) \ slow}
           M == [u \in Users |-> IF u \in slow THEN None ELSE r.members[u]]
           C == [x \in Recs |-> IF x \in cut THEN Close(x, r.chan[x])
                                ELSE IF x \in sent THEN Push(x, r.chan[x], f)
                                ELSE r.chan[x]]
           s == Broadcast(r, f)
<1>1. /\ r \in Room
      /\ r.members \in [Users -> Recs \cup {None}] /\ r.chan \in [Recs -> Chan]
  BY DEF WellFormed, Room
<1>2. s = [r EXCEPT !.members = M, !.chan = C]
  BY DEF Broadcast
<1>3. M \in [Users -> Recs \cup {None}]
  BY <1>1
<1>4. \A x \in Recs :
        /\ C[x] \in Chan
        /\ x \in cut => ~C[x].open
        /\ x \notin cut => C[x].open = r.chan[x].open
  <2> TAKE x \in Recs
  <2>1. r.chan[x] \in Chan
    BY <1>1
  <2>2. CASE x \in cut
    BY <2>1, <2>2, CloseType
  <2>3. CASE x \notin cut /\ x \in sent
    <3>1. PICK u \in Present(r) \ slow : r.members[u] = x
      BY <2>3
    <3>2. ~(Len(r.chan[x].q) >= Cap)
      BY <3>1 DEF Slow
    <3>3. QED
      BY <2>1, <2>3, <3>2, PushType
  <2>4. CASE x \notin cut /\ x \notin sent
    BY <2>1, <2>4
  <2>5. QED
    BY <2>2, <2>3, <2>4
<1>5. C \in [Recs -> Chan]
  BY <1>4
<1>6. /\ s \in Room /\ s.members = M /\ s.chan = C
      /\ s.version = r.version /\ s.closed = r.closed
  BY <1>1, <1>2, <1>3, <1>5 DEF Room
<1>7. \A u \in Users : M[u] # None => /\ M[u] = r.members[u] /\ r.members[u] # None
                                      /\ r.members[u] \notin cut
  <2> SUFFICES ASSUME NEW u \in Users, M[u] # None
               PROVE  M[u] = r.members[u] /\ r.members[u] \notin cut
    OBVIOUS
  <2>1. u \notin slow /\ M[u] = r.members[u]
    OBVIOUS
  <2>2. \A v \in slow : v \in Users /\ r.members[v] # None
    BY DEF Slow, Present
  <2>3. \A v \in slow : r.members[v] # r.members[u]
    BY <2>1, <2>2 DEF WellFormed
  <2>4. QED
    BY <2>1, <2>3
<1>8. \A u \in Users : M[u] # None => M[u] \in Conns \cup {u} /\ C[M[u]].open
  <2> SUFFICES ASSUME NEW u \in Users, M[u] # None
               PROVE  M[u] \in Conns \cup {u} /\ C[M[u]].open
    OBVIOUS
  <2>1. M[u] = r.members[u] /\ r.members[u] # None /\ r.members[u] \notin cut
    BY <1>7
  <2>2. r.members[u] \in Conns \cup {u} /\ r.chan[r.members[u]].open
    BY <2>1 DEF WellFormed
  <2>3. r.members[u] \in Recs
    BY <2>2 DEF Recs
  <2>4. QED
    BY <2>1, <2>2, <2>3, <1>4
<1>9. \A x \in Recs : C[x].open => \E u \in Users : M[u] = x
  <2> SUFFICES ASSUME NEW x \in Recs, C[x].open PROVE \E u \in Users : M[u] = x
    OBVIOUS
  <2>1. x \notin cut /\ r.chan[x].open
    BY <1>4
  <2>2. PICK u \in Users : r.members[u] = x
    BY <2>1 DEF WellFormed
  <2>3. u \notin slow
    BY <2>1, <2>2
  <2>4. QED
    BY <2>2, <2>3
<1>10. \A u, v \in Users : M[u] = M[v] /\ M[u] # None => u = v
  BY <1>7 DEF WellFormed
<1>11. Shrinks(r, s)
  BY <1>6 DEF Shrinks
<1> HIDE DEF M, C, s
<1>12. WellFormed(s)
  BY <1>6, <1>8, <1>9, <1>10 DEF WellFormed
<1>13. QED
  BY <1>6, <1>11, <1>12 DEF s

LEMMA BroadcastMembersKeeps ==
  ASSUME NEW r, WellFormed(r)
  PROVE  LET s == BroadcastMembers(r)
         IN /\ WellFormed(s) /\ Shrinks(r, s)
            /\ s.version = r.version /\ s.closed = r.closed
<1>1. MembersFrame(r) \in Frame
  BY FrameTypes DEF WellFormed
<1>2. QED
  BY <1>1, BroadcastKeeps DEF BroadcastMembers

LEMMA BroadcastStateKeeps ==
  ASSUME NEW r, WellFormed(r)
  PROVE  LET s == BroadcastState(r)
         IN /\ WellFormed(s) /\ Shrinks(r, s)
            /\ s.version = r.version + 1 /\ s.closed = r.closed
<1> DEFINE n == [r EXCEPT !.version = @ + 1]
<1>1. r \in Room
  BY DEF WellFormed
<1>2. /\ n \in Room /\ n.members = r.members /\ n.chan = r.chan
      /\ n.version = r.version + 1 /\ n.closed = r.closed
  BY <1>1 DEF Room
<1>3. BroadcastState(r) = Broadcast(n, StateFrame(n))
  BY DEF BroadcastState
<1> HIDE DEF n
<1>4. WellFormed(n)
  BY <1>2 DEF WellFormed
<1>5. StateFrame(n) \in Frame
  BY <1>2, FrameTypes
<1>6. QED
  BY <1>2, <1>3, <1>4, <1>5, BroadcastKeeps DEF Shrinks

(* addMember up to its broadcast *)
Added(r, u, x) ==
  [r EXCEPT
     !.members[u] = x,
     !.chan = [y \in Recs |-> IF y = x THEN Fresh
                              ELSE IF y = r.members[u] THEN Close(y, Drain(r.chan[y]))
                              ELSE r.chan[y]]]

(* Of a member that is new to the room or has no reader. *)
LEMMA AddedKeeps ==
  ASSUME NEW r, WellFormed(r), NEW u \in Users, NEW x \in Conns \cup {u},
         \A v \in Users : x \in Conns => r.members[v] # x
  PROVE  LET n == Added(r, u, x)
         IN /\ WellFormed(n)
            /\ \A v \in Users : n.members[v] = IF v = u THEN x ELSE r.members[v]
            /\ n.version = r.version /\ n.closed = r.closed
            /\ n.chan[x] = Fresh
            /\ \A y \in Recs \ {x} :
                 n.chan[y] = IF y = r.members[u] THEN Close(y, Drain(r.chan[y])) ELSE r.chan[y]
<1> DEFINE old == r.members[u]
           C == [y \in Recs |-> IF y = x THEN Fresh
                                ELSE IF y = old THEN Close(y, Drain(r.chan[y]))
                                ELSE r.chan[y]]
           M == [r.members EXCEPT ![u] = x]
           n == [r EXCEPT !.members[u] = x, !.chan = C]
<1>1. /\ r \in Room /\ x \in Recs /\ x # None
      /\ r.members \in [Users -> Recs \cup {None}] /\ r.chan \in [Recs -> Chan]
  BY FanoutAssumption DEF WellFormed, Room, Recs
<1>2. \A y \in Recs :
        /\ C[y] \in Chan
        /\ C[y].open <=> (y = x \/ (y # old /\ r.chan[y].open))
  <2> TAKE y \in Recs
  <2>1. r.chan[y] \in Chan
    BY <1>1
  <2>2. Drain(r.chan[y]) \in Chan
    BY <2>1, DrainType
  <2>3. Close(y, Drain(r.chan[y])) \in Chan /\ ~Close(y, Drain(r.chan[y])).open
    BY <2>2, CloseType
  <2>4. QED
    BY <2>1, <2>3, FreshType
<1>3. /\ n \in Room /\ n.members = M /\ n.chan = C
      /\ n.version = r.version /\ n.closed = r.closed
  <2>1. M \in [Users -> Recs \cup {None}] /\ C \in [Recs -> Chan]
    BY <1>1, <1>2
  <2>2. n = [r EXCEPT !.members = M, !.chan = C]
    BY <1>1 DEF Room
  <2> HIDE DEF M, C, n
  <2>3. QED
    BY <1>1, <2>1, <2>2 DEF Room
<1>4. \A v \in Users : M[v] = IF v = u THEN x ELSE r.members[v]
  BY <1>1
<1>5. \A v \in Users : v # u => r.members[v] # x
  BY FanoutAssumption DEF WellFormed
<1>6. Added(r, u, x) = n
  BY DEF Added
<1> HIDE DEF M, C, n
<1>7. WellFormed(n)
  <2>1. \A v \in Users : M[v] # None => M[v] \in Conns \cup {v} /\ C[M[v]].open
    <3> SUFFICES ASSUME NEW v \in Users, M[v] # None
                 PROVE  M[v] \in Conns \cup {v} /\ C[M[v]].open
      OBVIOUS
    <3>1. CASE v = u
      BY <1>1, <1>2, <1>4, <3>1
    <3>2. CASE v # u
      BY <1>1, <1>2, <1>4, <1>5, <3>2 DEF WellFormed
    <3>3. QED
      BY <3>1, <3>2
  <2>2. ASSUME NEW y \in Recs, C[y].open PROVE \E v \in Users : M[v] = y
    <3>1. CASE y = x
      BY <1>4, <3>1
    <3>2. CASE y # x
      <4>1. y # old /\ r.chan[y].open
        BY <1>2, <2>2, <3>2
      <4>2. PICK v \in Users : r.members[v] = y
        BY <4>1 DEF WellFormed
      <4>3. QED
        BY <1>4, <4>1, <4>2
    <3>3. QED
      BY <3>1, <3>2
  <2>3. \A v, w \in Users : M[v] = M[w] /\ M[v] # None => v = w
    BY <1>4, <1>5 DEF WellFormed
  <2>4. QED
    BY <1>3, <2>1, <2>2, <2>3 DEF WellFormed
<1>8. C[x] = Fresh /\ \A y \in Recs \ {x} :
        C[y] = IF y = old THEN Close(y, Drain(r.chan[y])) ELSE r.chan[y]
  BY <1>1 DEF C
<1>9. QED
  BY <1>3, <1>4, <1>6, <1>7, <1>8

(* addMember *)
LEMMA AddMemberKeeps ==
  ASSUME NEW r, WellFormed(r), NEW u \in Users, NEW x \in Conns \cup {u},
         \A v \in Users : x \in Conns => r.members[v] # x
  PROVE  LET s == AddMember(r, u, x)
         IN /\ WellFormed(s)
            /\ \A v \in Users : s.members[v] \in
                                   {None, IF v = u THEN x ELSE r.members[v]}
            /\ s.version = r.version /\ s.closed = r.closed
<1> DEFINE n == Added(r, u, x)
<1>1. /\ WellFormed(n) /\ n.version = r.version /\ n.closed = r.closed
      /\ \A v \in Users : n.members[v] = IF v = u THEN x ELSE r.members[v]
  BY AddedKeeps
<1>2. AddMember(r, u, x) = BroadcastMembers(n)
  BY DEF AddMember, Added
<1> HIDE DEF n
<1>3. QED
  BY <1>1, <1>2, BroadcastMembersKeeps DEF Shrinks

(* close and delete, and the same after a kicked frame *)
LEMMA DropKeeps ==
  ASSUME NEW r, WellFormed(r), NEW u \in Users
  PROVE  LET s == Drop(r, u)
         IN /\ WellFormed(s) /\ Shrinks(r, s)
            /\ s.members[u] = None
            /\ s.version = r.version /\ s.closed = r.closed
<1> DEFINE x == r.members[u]
           M == [r.members EXCEPT ![u] = None]
           C == [r.chan EXCEPT ![x] = Close(x, r.chan[x])]
           s == [r EXCEPT !.members[u] = None, !.chan[x] = Close(x, @)]
<1>1. /\ r \in Room
      /\ r.members \in [Users -> Recs \cup {None}] /\ r.chan \in [Recs -> Chan]
  BY DEF WellFormed, Room
<1>2. CASE x = None
  BY <1>1, <1>2 DEF Drop, Shrinks
<1>3. CASE x # None
  <2>1. x \in Recs
    BY <1>1, <1>3
  <2>2. \A y \in Recs : C[y] \in Chan /\ (C[y].open <=> y # x /\ r.chan[y].open)
    BY <1>1, <2>1, CloseType
  <2>3. /\ s \in Room /\ s.members = M /\ s.chan = C
        /\ s.version = r.version /\ s.closed = r.closed
    BY <1>1, <2>1, <2>2 DEF Room
  <2>4. \A v \in Users : M[v] = IF v = u THEN None ELSE r.members[v]
    BY <1>1
  <2>5. Drop(r, u) = s
    BY <1>3 DEF Drop
  <2> HIDE DEF M, C, s
  <2>6. \A v \in Users : M[v] # None => M[v] \in Conns \cup {v} /\ C[M[v]].open
    BY <1>1, <2>2, <2>4 DEF WellFormed
  <2>7. \A y \in Recs : C[y].open => \E v \in Users : M[v] = y
    BY <2>2, <2>4 DEF WellFormed
  <2>8. \A v, w \in Users : M[v] = M[w] /\ M[v] # None => v = w
    BY <2>4 DEF WellFormed
  <2>9. WellFormed(s)
    BY <2>3, <2>6, <2>7, <2>8 DEF WellFormed
  <2>10. QED
    BY <2>3, <2>4, <2>5, <2>9 DEF Shrinks
<1>4. QED
  BY <1>2, <1>3

LEMMA RemoveMemberKeeps ==
  ASSUME NEW r, WellFormed(r), NEW u \in Users
  PROVE  LET s == RemoveMember(r, u)
         IN /\ WellFormed(s) /\ Shrinks(r, s)
            /\ s.members[u] = None
            /\ s.version = r.version /\ s.closed = r.closed
BY DropKeeps, BroadcastMembersKeeps DEF RemoveMember, Shrinks

(* kickMember up to the removal: a frame more, if it fits *)
Warned(r, u) ==
  IF u \in Present(r) \ Slow(r)
    THEN [r EXCEPT !.chan[r.members[u]] = Push(r.members[u], @, KickedFrame)] ELSE r

LEMMA WarnedKeeps ==
  ASSUME NEW r, WellFormed(r), NEW u \in Users
  PROVE  LET n == Warned(r, u)
         IN /\ WellFormed(n) /\ n.members = r.members
            /\ n.version = r.version /\ n.closed = r.closed
            /\ \A y \in Recs : y # r.members[u] => n.chan[y] = r.chan[y]
            /\ r.members[u] # None =>
                 n.chan[r.members[u]] \in {r.chan[r.members[u]],
                                           Push(r.members[u], r.chan[r.members[u]], KickedFrame)}
<1> DEFINE x == r.members[u]
           n == Warned(r, u)
<1>1. CASE u \in Present(r) \ Slow(r)
  <2>1. r \in Room /\ r.chan \in [Recs -> Chan] /\ x \in Recs
    BY <1>1 DEF WellFormed, Room, Present
  <2>2. ~(Len(r.chan[x].q) >= Cap)
    BY <1>1 DEF Slow
  <2>3. /\ Push(x, r.chan[x], KickedFrame) \in Chan
        /\ Push(x, r.chan[x], KickedFrame).open = r.chan[x].open
    BY <2>1, <2>2, FrameTypes, PushType
  <2> DEFINE C == [r.chan EXCEPT ![x] = Push(x, r.chan[x], KickedFrame)]
  <2>4. /\ C \in [Recs -> Chan] /\ \A y \in Recs : C[y].open = r.chan[y].open
        /\ C[x] = Push(x, r.chan[x], KickedFrame)
        /\ \A y \in Recs : y # x => C[y] = r.chan[y]
    BY <2>1, <2>3
  <2>5. /\ n \in Room /\ n.members = r.members /\ n.chan = C
        /\ n.version = r.version /\ n.closed = r.closed
    BY <1>1, <2>1, <2>4 DEF Room, Warned
  <2> HIDE DEF C, n
  <2>6. WellFormed(n)
    BY <2>4, <2>5 DEF WellFormed, Room
  <2>7. QED
    BY <2>4, <2>5, <2>6 DEF n
<1>2. CASE u \notin Present(r) \ Slow(r)
  BY <1>2 DEF Warned
<1>3. QED
  BY <1>1, <1>2

LEMMA KickMemberKeeps ==
  ASSUME NEW r, WellFormed(r), NEW u \in Users
  PROVE  LET s == KickMember(r, u)
         IN /\ WellFormed(s) /\ Shrinks(r, s)
            /\ s.members[u] = None
            /\ s.version = r.version /\ s.closed = r.closed
<1> DEFINE n == Warned(r, u)
           d == Drop(n, u)
<1>1. KickMember(r, u) = BroadcastMembers(d)
  BY DEF KickMember, Warned
<1>2. /\ WellFormed(n) /\ n.members = r.members
      /\ n.version = r.version /\ n.closed = r.closed
  BY WarnedKeeps
<1> HIDE DEF n
<1>3. /\ WellFormed(d) /\ Shrinks(n, d) /\ d.members[u] = None
      /\ d.version = n.version /\ d.closed = n.closed
  BY <1>2, DropKeeps
<1> HIDE DEF d
<1>4. LET s == BroadcastMembers(d)
      IN /\ WellFormed(s) /\ Shrinks(d, s)
         /\ s.version = d.version /\ s.closed = d.closed
  BY <1>3, BroadcastMembersKeeps
<1>5. QED
  BY <1>1, <1>2, <1>3, <1>4 DEF Shrinks

LEMMA ApplyKeeps ==
  ASSUME NEW r, WellFormed(r)
  PROVE  /\ WellFormed(ApplyBroadcast(r)) /\ Shrinks(r, ApplyBroadcast(r))
         /\ ApplyBroadcast(r).version = r.version + 1
         /\ WellFormed(ApplyClose(r)) /\ Shrinks(r, ApplyClose(r))
         /\ ApplyClose(r).version = r.version + 1
<1>1. /\ WellFormed(ApplyBroadcast(r)) /\ Shrinks(r, ApplyBroadcast(r))
      /\ ApplyBroadcast(r).version = r.version + 1
  BY BroadcastStateKeeps, BroadcastMembersKeeps DEF ApplyBroadcast, Shrinks
<1> DEFINE n == [r EXCEPT !.closed = TRUE]
<1>2. /\ n \in Room /\ n.members = r.members /\ n.chan = r.chan
      /\ n.version = r.version
  BY DEF WellFormed, Room
<1>3. ApplyClose(r) = Broadcast(BroadcastState(n), ClosedFrame)
  BY DEF ApplyClose
<1> HIDE DEF n
<1>4. WellFormed(n) /\ Shrinks(r, n)
  BY <1>2 DEF WellFormed, Shrinks
<1>5. ClosedFrame \in Frame
  BY <1>2, FrameTypes
<1>6. /\ WellFormed(ApplyClose(r)) /\ Shrinks(n, ApplyClose(r))
      /\ ApplyClose(r).version = n.version + 1
  BY <1>3, <1>4, <1>5, BroadcastStateKeeps, BroadcastKeeps DEF Shrinks
<1>7. QED
  BY <1>1, <1>2, <1>6 DEF Shrinks

-----------------------------------------------------------------------------
(***************************************************************************)
(* What each method does to the channel of one connection c.               *)
(***************************************************************************)
LEMMA ChannelOf ==
  ASSUME NEW r, WellFormed(r), NEW c \in Conns
  PROVE  /\ c \in Recs /\ c # None /\ r.chan[c] \in Chan
         /\ r.chan[c].q \in Seq(Frame) /\ Len(r.chan[c].q) \in Nat
         /\ Cap \in Nat
         /\ \A u, v \in Users : r.members[u] = c /\ r.members[v] = c => u = v
<1>1. c \in Recs /\ c # None /\ Cap \in Nat
  BY FanoutAssumption DEF Recs
<1>2. r.chan[c] \in Chan
  BY <1>1 DEF WellFormed, Room
<1>3. QED
  BY <1>1, <1>2, ChanType DEF WellFormed

(* broadcastLocked *)
LEMMA BroadcastGot ==
  ASSUME NEW r, WellFormed(r), NEW f \in Frame, NEW c \in Conns
  PROVE  LET s == Broadcast(r, f)
         IN /\ Got(r, s, c, f)
            /\ In(r, c) => (In(s, c) <=> Len(r.chan[c].q) < Cap)
<1> DEFINE slow == Slow(r)
           cut  == {r.members[u] : u \in slow}
           sent == {r.members[u] : u \in Present(r) \ slow}
           s == Broadcast(r, f)
<1>1. /\ r \in Room /\ c \in Recs /\ c # None /\ r.chan[c] \in Chan
      /\ Len(r.chan[c].q) \in Nat /\ Cap \in Nat
  BY ChannelOf DEF WellFormed
<1>2. /\ \A u \in Users : s.members[u] = IF u \in slow THEN None ELSE r.members[u]
      /\ s.chan[c] = IF c \in cut THEN Close(c, r.chan[c])
                     ELSE IF c \in sent THEN Push(c, r.chan[c], f)
                     ELSE r.chan[c]
  BY <1>1 DEF Broadcast, Room
<1>3. \A u \in Users : u \in Present(r) <=> r.members[u] # None
  BY DEF Present
<1>4. \A u \in Users : r.members[u] = c =>
        (u \in slow <=> Len(r.chan[c].q) >= Cap)
  BY <1>1, <1>3 DEF Slow
<1>5. slow \subseteq Users /\ Present(r) \subseteq Users
  BY DEF Slow, Present
<1>6. Close(c, r.chan[c]).q = r.chan[c].q /\ Push(c, r.chan[c], f).q = Append(r.chan[c].q, f)
  BY <1>1 DEF Close, Push, Chan
<1> HIDE DEF slow, s
<1>7. CASE ~In(r, c)
  <2>1. c \notin cut /\ c \notin sent
    BY <1>5, <1>7 DEF In
  <2>2. ~In(s, c)
    BY <1>1, <1>2, <1>7 DEF In
  <2>3. QED
    BY <1>2, <1>7, <2>1, <2>2 DEF Got, s
<1>8. ASSUME NEW u \in Users, r.members[u] = c
      PROVE  Got(r, s, c, f) /\ (In(s, c) <=> Len(r.chan[c].q) < Cap)
  <2>1. \A v \in Users : r.members[v] = c => v = u
    BY <1>8, ChannelOf
  <2>2. In(r, c) /\ u \in Present(r)
    BY <1>1, <1>3, <1>8 DEF In
  <2>3. In(s, c) <=> u \notin slow
    BY <1>1, <1>2, <1>8, <2>1 DEF In
  <2>4. (c \in cut <=> u \in slow) /\ (c \in sent <=> u \notin slow)
    BY <1>5, <1>8, <2>1, <2>2
  <2>5. QED
    BY <1>1, <1>2, <1>4, <1>6, <1>8, <2>2, <2>3, <2>4 DEF Got
<1>9. QED
  BY <1>7, <1>8 DEF s, In

LEMMA ShrinksPresent ==
  ASSUME NEW r, NEW s, Shrinks(r, s)
  PROVE  Present(s) \subseteq Present(r)
BY DEF Shrinks, Present

LEMMA MembersGot ==
  ASSUME NEW r, WellFormed(r), NEW c \in Conns
  PROVE  LET s == BroadcastMembers(r)
         IN \E m \in Frame : /\ m.ev = "members" /\ Present(s) \subseteq m.mem
                             /\ Got(r, s, c, m)
                             /\ In(r, c) => (In(s, c) <=> Len(r.chan[c].q) < Cap)
<1> DEFINE s == BroadcastMembers(r)
           m == MembersFrame(r)
<1>1. m \in Frame /\ m.ev = "members" /\ m.mem = Present(r)
  BY FrameTypes DEF WellFormed, MembersFrame
<1>2. s = Broadcast(r, m)
  BY DEF BroadcastMembers
<1> HIDE DEF s, m
<1>3. Shrinks(r, s) /\ Got(r, s, c, m) /\ (In(r, c) => (In(s, c) <=> Len(r.chan[c].q) < Cap))
  BY <1>1, <1>2, BroadcastKeeps, BroadcastGot
<1>4. QED
  BY <1>1, <1>3, ShrinksPresent DEF s

(* addMember: the connection it adds, and the others. *)
LEMMA AddMemberMoves ==
  ASSUME NEW r, WellFormed(r), NEW u \in Users, NEW x \in Conns \cup {u},
         \A v \in Users : x \in Conns => r.members[v] # x,
         NEW c \in Conns
  PROVE  LET s == AddMember(r, u, x)
         IN /\ c # x => Rostered(r, s, c, u)
            /\ c = x => /\ In(s, c)
                        /\ \E m \in Frame : /\ m.ev = "members" /\ Present(s) \subseteq m.mem
                                             /\ s.chan[c].q = <<m>>
<1> DEFINE n == Added(r, u, x)
           s == AddMember(r, u, x)
<1>1. /\ WellFormed(n)
      /\ \A v \in Users : n.members[v] = IF v = u THEN x ELSE r.members[v]
      /\ n.chan[x] = Fresh
      /\ \A y \in Recs \ {x} :
           n.chan[y] = IF y = r.members[u] THEN Close(y, Drain(r.chan[y])) ELSE r.chan[y]
  BY AddedKeeps
<1>2. s = BroadcastMembers(n)
  BY DEF AddMember, Added
<1>3. c \in Recs /\ c # None
  BY ChannelOf
<1> HIDE DEF n, s
<1>4. PICK m \in Frame : /\ m.ev = "members" /\ Present(s) \subseteq m.mem
                         /\ Got(n, s, c, m)
                         /\ In(n, c) => (In(s, c) <=> Len(n.chan[c].q) < Cap)
  BY <1>1, <1>2, MembersGot
<1>5. CASE c = x
  <2>1. In(n, c) /\ n.chan[c].q = <<>>
    BY <1>1, <1>5 DEF In, Fresh
  <2>2. In(s, c)
    BY <1>4, <2>1, FanoutAssumption
  <2>3. s.chan[c].q = <<m>>
    BY <1>4, <2>1, <2>2 DEF Got
  <2>4. QED
    BY <1>4, <1>5, <2>2, <2>3 DEF s
<1>6. CASE c # x /\ r.members[u] = c
  <2>1. ~In(n, c)
    BY <1>1, <1>6, ChannelOf DEF In
  <2>2. n.chan[c].q = Drain(r.chan[c]).q
    <3>1. c \in Recs \ {x} /\ c = r.members[u]
      BY <1>3, <1>6
    <3>2. n.chan[c] = Close(c, Drain(r.chan[c]))
      BY <1>1, <3>1
    <3>3. QED
      BY <3>2 DEF Close
  <2>3. ~In(s, c) /\ s.chan[c].q = Drain(r.chan[c]).q
    BY <1>4, <2>1, <2>2 DEF Got
  <2>4. QED
    BY <1>4, <1>6, <2>3 DEF Rostered, s
<1>7. CASE c # x /\ r.members[u] # c
  <2>1. In(n, c) <=> In(r, c)
    BY <1>1, <1>7 DEF In
  <2>2. n.chan[c] = r.chan[c]
    BY <1>1, <1>3, <1>7
  <2>3. Got(r, s, c, m)
    BY <1>4, <2>1, <2>2 DEF Got
  <2>4. QED
    BY <1>4, <1>7, <2>3 DEF Rostered, s
<1>8. QED
  BY <1>5, <1>6, <1>7

(* Closed and deleted, but for what is told next. *)
LEMMA DropMoves ==
  ASSUME NEW r, WellFormed(r), NEW u \in Users, NEW c \in Conns
  PROVE  LET d == Drop(r, u)
         IN /\ d.chan[c].q = r.chan[c].q
            /\ In(d, c) <=> In(r, c) /\ r.members[u] # c
<1> DEFINE x == r.members[u]
           d == Drop(r, u)
<1>1. /\ r \in Room /\ c \in Recs /\ c # None
      /\ r.members \in [Users -> Recs \cup {None}] /\ r.chan \in [Recs -> Chan]
  BY ChannelOf DEF WellFormed, Room
<1>2. CASE x = None
  BY <1>1, <1>2 DEF Drop
<1>3. CASE x # None
  <2>1. x \in Recs /\ d = [r EXCEPT !.members[u] = None, !.chan[x] = Close(x, @)]
    BY <1>1, <1>3 DEF Drop
  <2>2. /\ \A v \in Users : d.members[v] = IF v = u THEN None ELSE r.members[v]
        /\ d.chan[c] = IF c = x THEN Close(c, r.chan[c]) ELSE r.chan[c]
    BY <1>1, <2>1 DEF Room
  <2>3. Close(c, r.chan[c]).q = r.chan[c].q
    BY DEF Close
  <2> HIDE DEF d
  <2>4. In(d, c) <=> In(r, c) /\ r.members[u] # c
    BY <1>1, <2>2, ChannelOf DEF In
  <2>5. QED
    BY <2>2, <2>3, <2>4 DEF d
<1>4. QED
  BY <1>2, <1>3

LEMMA RemoveMemberMoves ==
  ASSUME NEW r, WellFormed(r), NEW u \in Users, NEW c \in Conns
  PROVE  Rostered(r, RemoveMember(r, u), c, u)
<1> DEFINE d == Drop(r, u)
           s == RemoveMember(r, u)
<1>1. /\ WellFormed(d) /\ d.chan[c].q = r.chan[c].q
      /\ In(d, c) <=> In(r, c) /\ r.members[u] # c
  BY DropKeeps, DropMoves
<1>2. s = BroadcastMembers(d)
  BY DEF RemoveMember
<1> HIDE DEF d, s
<1>3. PICK m \in Frame : /\ m.ev = "members" /\ Present(s) \subseteq m.mem
                         /\ Got(d, s, c, m)
  BY <1>1, <1>2, MembersGot
<1>4. CASE r.members[u] = c
  BY <1>1, <1>3, <1>4 DEF Got, Rostered, s
<1>5. CASE r.members[u] # c
  BY <1>1, <1>3, <1>5 DEF Got, Rostered, s
<1>6. QED
  BY <1>4, <1>5

LEMMA KickMemberMoves ==
  ASSUME NEW r, WellFormed(r), NEW u \in Users, NEW c \in Conns
  PROVE  Rostered(r, KickMember(r, u), c, u)
<1> DEFINE n == Warned(r, u)
           d == Drop(n, u)
           s == KickMember(r, u)
<1>1. s = BroadcastMembers(d)
  BY DEF KickMember, Warned
<1>2. /\ WellFormed(n) /\ n.members = r.members
      /\ \A y \in Recs : y # r.members[u] => n.chan[y] = r.chan[y]
      /\ r.members[u] # None =>
           n.chan[r.members[u]] \in {r.chan[r.members[u]],
                                     Push(r.members[u], r.chan[r.members[u]], KickedFrame)}
  BY WarnedKeeps
<1>3. c \in Recs /\ c # None /\ r.chan[c] \in Chan
  BY ChannelOf
<1> HIDE DEF n
<1>4. /\ WellFormed(d) /\ d.chan[c].q = n.chan[c].q
      /\ In(d, c) <=> In(n, c) /\ n.members[u] # c
  BY <1>2, DropKeeps, DropMoves
<1> HIDE DEF d, s
<1>5. PICK m \in Frame : /\ m.ev = "members" /\ Present(s) \subseteq m.mem
                         /\ Got(d, s, c, m)
  BY <1>1, <1>4, MembersGot
<1>6. In(n, c) <=> In(r, c)
  BY <1>2 DEF In
<1>7. CASE r.members[u] = c
  <2>1. n.chan[c].q \in {r.chan[c].q, Append(r.chan[c].q, KickedFrame)}
    BY <1>2, <1>3, <1>7 DEF Push, Chan
  <2>2. ~In(s, c) /\ s.chan[c].q = n.chan[c].q
    BY <1>2, <1>4, <1>5, <1>7 DEF Got
  <2>3. QED
    BY <1>5, <1>7, <2>1, <2>2 DEF Rostered, s
<1>8. CASE r.members[u] # c
  <2>1. n.chan[c].q = r.chan[c].q
    BY <1>2, <1>3, <1>8
  <2>2. Got(r, s, c, m)
    BY <1>2, <1>4, <1>5, <1>6, <1>8, <2>1 DEF Got
  <2>3. QED
    BY <1>5, <2>2 DEF Rostered, s
<1>9. QED
  BY <1>7, <1>8

(* applyCommand: two broadcasts, the second to those the first left there. *)
LEMMA StateGot ==
  ASSUME NEW r, WellFormed(r), NEW c \in Conns
  PROVE  LET t == BroadcastState(r)
         IN \E f \in Frame : /\ f = StateFrame(t) /\ Got(r, t, c, f)
                             /\ In(r, c) => (In(t, c) <=> Len(r.chan[c].q) < Cap)
<1> DEFINE n == [r EXCEPT !.version = @ + 1]
           t == BroadcastState(r)
<1>1. /\ n \in Room /\ n.members = r.members /\ n.chan = r.chan
      /\ n.version = r.version + 1 /\ n.closed = r.closed
  BY DEF WellFormed, Room
<1>2. t = Broadcast(n, StateFrame(n))
  BY DEF BroadcastState
<1> HIDE DEF n, t
<1>3. WellFormed(n) /\ StateFrame(n) \in Frame
  BY <1>1, FrameTypes DEF WellFormed
<1>4. /\ t.version = n.version /\ t.closed = n.closed
      /\ Got(n, t, c, StateFrame(n))
      /\ In(n, c) => (In(t, c) <=> Len(n.chan[c].q) < Cap)
  BY <1>2, <1>3, BroadcastKeeps, BroadcastGot
<1>5. StateFrame(t) = StateFrame(n)
  BY <1>4 DEF StateFrame
<1>6. In(n, c) <=> In(r, c)
  BY <1>1 DEF In
<1>7. QED
  BY <1>1, <1>3, <1>4, <1>5, <1>6 DEF Got, t

LEMMA PublishedBy ==
  ASSUME NEW r, WellFormed(r), NEW c \in Conns, NEW s, NEW f \in Frame,
         WellFormed(BroadcastState(r)), Got(BroadcastState(r), s, c, f),
         s.version = BroadcastState(r).version, s.closed = BroadcastState(r).closed,
         f.ev \in {"members", "closed"}, f.ev = "members" => Present(s) \subseteq f.mem
  PROVE  Published(r, s, c)
<1> DEFINE t == BroadcastState(r)
<1>1. /\ StateFrame(t) \in Frame /\ Got(r, t, c, StateFrame(t))
      /\ r.chan[c].q \in Seq(Frame) /\ Len(r.chan[c].q) \in Nat
  BY StateGot, ChannelOf
<1>2. StateFrame(s) = StateFrame(t)
  BY DEF StateFrame
<1> HIDE DEF t
<1>3. Len(Append(r.chan[c].q, StateFrame(t))) = Len(r.chan[c].q) + 1
  BY <1>1
<1>4. Got(t, s, c, f)
  BY DEF t
<1>5. QED
  BY <1>1, <1>2, <1>3, <1>4 DEF Got, Published

LEMMA ApplyMoves ==
  ASSUME NEW r, WellFormed(r), NEW c \in Conns
  PROVE  LET s == ApplyBroadcast(r)
             z == ApplyClose(r)
         IN /\ Published(r, s, c) /\ s.version = r.version + 1 /\ s.closed = r.closed
            /\ Published(r, z, c) /\ z.version = r.version + 1 /\ z.closed = TRUE
<1>1. LET s == ApplyBroadcast(r)
      IN Published(r, s, c) /\ s.version = r.version + 1 /\ s.closed = r.closed
  <2> DEFINE t == BroadcastState(r)
             s == ApplyBroadcast(r)
  <2>1. WellFormed(t) /\ t.version = r.version + 1 /\ t.closed = r.closed
    BY BroadcastStateKeeps
  <2>2. s = BroadcastMembers(t)
    BY DEF ApplyBroadcast
  <2> HIDE DEF t, s
  <2>3. s.version = t.version /\ s.closed = t.closed
    BY <2>1, <2>2, BroadcastMembersKeeps
  <2>4. \E m \in Frame : /\ m.ev = "members" /\ Present(s) \subseteq m.mem
                         /\ Got(t, s, c, m)
    BY <2>1, <2>2, MembersGot
  <2>5. Published(r, s, c)
    BY <2>1, <2>3, <2>4, PublishedBy DEF t
  <2>6. QED
    BY <2>1, <2>3, <2>5 DEF s
<1>2. LET z == ApplyClose(r)
      IN Published(r, z, c) /\ z.version = r.version + 1 /\ z.closed = TRUE
  <2> DEFINE n == [r EXCEPT !.closed = TRUE]
             t == BroadcastState(n)
             z == ApplyClose(r)
  <2>1. /\ n \in Room /\ n.members = r.members /\ n.chan = r.chan
        /\ n.version = r.version /\ n.closed = TRUE
    BY DEF WellFormed, Room
  <2>2. WellFormed(n)
    BY <2>1 DEF WellFormed
  <2>3. z = Broadcast(t, ClosedFrame)
    BY DEF ApplyClose
  <2>4. ClosedFrame \in Frame /\ ClosedFrame.ev = "closed"
    BY <2>1, FrameTypes DEF ClosedFrame
  <2> HIDE DEF n
  <2>5. WellFormed(t) /\ t.version = n.version + 1 /\ t.closed = n.closed
    BY <2>2, BroadcastStateKeeps
  <2> HIDE DEF t, z
  <2>6. /\ z.version = t.version /\ z.closed = t.closed
        /\ Got(t, z, c, ClosedFrame)
    BY <2>3, <2>4, <2>5, BroadcastKeeps, BroadcastGot
  <2>7. Published(n, z, c)
    BY <2>2, <2>4, <2>5, <2>6, PublishedBy DEF t
  <2>8. Published(r, z, c)
    BY <2>1, <2>7 DEF Published, In
  <2>9. QED
    BY <2>1, <2>5, <2>6, <2>8 DEF z
<1>3. QED
  BY <1>1, <1>2
=============================================================================
