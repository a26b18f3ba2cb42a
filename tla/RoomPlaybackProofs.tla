------------------------- MODULE RoomPlaybackProofs -------------------------
(***************************************************************************)
(* For all tracks, positions, queue lengths and orders of late commands:   *)
(* the current index stays in the queue, the anchor is never in the        *)
(* future, everything but the progress is as it was announced, the room    *)
(* never falls behind what its listeners were told, and editing the queue  *)
(* around the current track does not disturb it.                           *)
(***************************************************************************)
EXTENDS RoomPlayback, SequenceTheorems, TLAPS

InRange(r) ==
  r.index \in 0 .. (IF r.queue = <<>> THEN 0 ELSE Len(r.queue) - 1)

(* A room that is well formed and was anchored no later than t. *)
Good(r, t) == r \in RoomType /\ InRange(r) /\ r.updatedAtMs <= t

(* What the room's clock reads at time 0 is no less than the listeners' . *)
Lead ==
  IF room.playing
    THEN room.positionMs - room.updatedAtMs >= told.positionMs - told.serverTimeMs
    ELSE room.positionMs >= told.positionMs

PInv == TypeOK /\ Good(room, now) /\ AnchorNotFuture /\ ChangesAreAnnounced /\ Lead

-----------------------------------------------------------------------------
(* The operators *)

LEMMA RemType ==
  ASSUME NEW a \in Int, NEW n \in Nat \ {0}
  PROVE  /\ GoRem(a, n) \in Int /\ GoRem(a, n) < n /\ -n < GoRem(a, n)
         /\ a >= 0 => GoRem(a, n) >= 0
<1>1. \A x \in Nat : x % n \in 0 .. n - 1
  OBVIOUS
<1>2. CASE a >= 0
  BY <1>1, <1>2 DEF GoRem
<1>3. CASE a < 0
  <2>1. -a \in Nat /\ ~(a >= 0)
    BY <1>3
  <2>2. (-a) % n \in 0 .. n - 1
    BY <1>1, <2>1
  <2>3. GoRem(a, n) = -((-a) % n)
    BY <2>1 DEF GoRem
  <2>4. QED
    BY <2>1, <2>2, <2>3
<1>4. QED
  BY <1>2, <1>3

(* Stepping from any index by one, in either direction, wraps around. *)
LEMMA StepInRange ==
  ASSUME NEW i \in Int, NEW n \in Nat \ {0}
  PROVE  GoRem(GoRem(i, n) + n, n) \in 0 .. n - 1
<1> DEFINE k == GoRem(i, n)
<1>1. k \in Int /\ k + n >= 0 /\ k + n \in Int
  BY RemType
<1> HIDE DEF k
<1>2. GoRem(k + n, n) \in Int /\ GoRem(k + n, n) < n /\ GoRem(k + n, n) >= 0
  BY <1>1, RemType
<1>3. QED
  BY <1>2 DEF k

LEMMA ClampInRange ==
  ASSUME NEW i \in Int, NEW n \in Nat
  PROVE  ClampIdx(i, n) \in 0 .. (IF n = 0 THEN 0 ELSE n - 1)
BY DEF ClampIdx

(* The length of a queue is zero exactly when it is empty. *)
LEMMA QueueLen ==
  ASSUME NEW s \in Seq(Tracks)
  PROVE  Len(s) \in Nat /\ (Len(s) = 0 <=> s = <<>>)
BY EmptySeq

LEMMA QueuesType == Queues \subseteq Seq(Tracks)
BY DEF Queues

(* Touching keeps the queue, the index and the playing state; the progress *)
(* it freezes is no less than it was.                                      *)
LEMMA TouchKeeps ==
  ASSUME NEW r \in RoomType, NEW t \in Nat
  PROVE  LET s == Touch(r, t)
         IN /\ s \in RoomType
            /\ s.queue = r.queue /\ s.index = r.index /\ s.playing = r.playing
            /\ s.updatedAtMs = t
            /\ IF r.playing THEN s.positionMs - t >= r.positionMs - r.updatedAtMs
                            ELSE s.positionMs = r.positionMs
<1> DEFINE p == CurrentPos(r, t)
<1>1. /\ p \in Nat
      /\ IF r.playing THEN p - t >= r.positionMs - r.updatedAtMs
                      ELSE p = r.positionMs
  BY DEF CurrentPos, RoomType
<1>2. Touch(r, t) = [r EXCEPT !.positionMs = p, !.updatedAtMs = t]
  BY DEF Touch, Freeze, Anchor
<1> HIDE DEF p
<1>3. QED
  BY <1>1, <1>2 DEF RoomType

LEMMA TouchGood ==
  ASSUME NEW r, NEW t \in Nat, NEW u \in Nat, u <= t, Good(r, t)
  PROVE  LET s == Touch(r, u)
         IN Good(s, t) /\ s.queue = r.queue /\ s.index = r.index /\ s.updatedAtMs = u
<1>1. r \in RoomType
  BY DEF Good
<1> DEFINE s == Touch(r, u)
<1>2. s \in RoomType /\ s.queue = r.queue /\ s.index = r.index /\ s.updatedAtMs = u
  BY <1>1, TouchKeeps
<1> HIDE DEF s
<1>3. Good(s, t)
  BY <1>2 DEF Good, InRange
<1>4. QED
  BY <1>2, <1>3 DEF s

LEMMA AnchorGood ==
  ASSUME NEW t \in Nat, NEW r, Good(r, t), NEW p \in Nat, NEW u \in Nat, u <= t
  PROVE  Good(Anchor(r, p, u), t)
BY DEF Good, Anchor, InRange, RoomType

LEMMA NextTrackGood ==
  ASSUME NEW t \in Nat, NEW r, Good(r, t), NEW d \in Int, NEW u \in Nat, u <= t
  PROVE  Good(NextTrack(r, d, u), t)
<1> DEFINE n == Len(r.queue)
           i == GoRem(GoRem(r.index + d, n) + n, n)
           s == [r EXCEPT !.index = i]
<1>1. r \in RoomType /\ n \in Nat /\ (n = 0 <=> r.queue = <<>>)
  BY QueueLen DEF Good, RoomType
<1>2. CASE n = 0
  BY <1>2 DEF NextTrack
<1>3. CASE n # 0
  <2>1. i \in 0 .. n - 1
    <3>1. r.index + d \in Int /\ n \in Nat \ {0}
      BY <1>1, <1>3 DEF RoomType
    <3> HIDE DEF n
    <3>2. QED
      BY <3>1, StepInRange
  <2>2. NextTrack(r, d, u) = Anchor(s, 0, u)
    BY <1>3 DEF NextTrack
  <2>3. Good(s, t)
    <3> HIDE DEF i
    <3>1. QED
      BY <1>1, <1>3, <2>1 DEF Good, InRange, RoomType
  <2> HIDE DEF s
  <2>4. QED
    BY <2>2, <2>3, AnchorGood
<1>4. QED
  BY <1>2, <1>3

(* Putting a queue in place, with an index clamped to it. *)
LEMMA ClampedGood ==
  ASSUME NEW t \in Nat, NEW r, Good(r, t), NEW q \in Seq(Tracks), NEW i \in Int
  PROVE  Good([r EXCEPT !.queue = q, !.index = ClampIdx(i, Len(q))], t)
<1> DEFINE k == ClampIdx(i, Len(q))
<1>1. Len(q) \in Nat /\ (Len(q) = 0 <=> q = <<>>)
  BY QueueLen
<1>2. k \in 0 .. (IF q = <<>> THEN 0 ELSE Len(q) - 1)
  BY <1>1, ClampInRange
<1> HIDE DEF k
<1> DEFINE s == [r EXCEPT !.queue = q, !.index = k]
<1>3. r \in RoomType /\ k \in Int
  BY <1>1, <1>2 DEF Good
<1>4. s \in RoomType /\ s.queue = q /\ s.index = k /\ s.updatedAtMs = r.updatedAtMs
  BY <1>3 DEF RoomType
<1> HIDE DEF s
<1>5. Good(s, t)
  BY <1>2, <1>4 DEF Good, InRange
<1>6. QED
  BY <1>5 DEF s, k

LEMMA SetQueueGood ==
  ASSUME NEW t \in Nat, NEW r, Good(r, t), NEW q \in Seq(Tracks), NEW i \in Int,
         NEW p \in Int, NEW u \in Nat, u <= t
  PROVE  Good(SetQueue(r, q, i, p, u), t)
<1> DEFINE s == [r EXCEPT !.queue = q, !.index = ClampIdx(i, Len(q))]
<1>1. Good(s, t)
  BY ClampedGood
<1>2. SetQueue(r, q, i, p, u) = Anchor(s, IF p > 0 THEN p ELSE 0, u)
  BY DEF SetQueue
<1>3. (IF p > 0 THEN p ELSE 0) \in Nat
  OBVIOUS
<1> HIDE DEF s
<1>4. QED
  BY <1>1, <1>2, <1>3, AnchorGood

(* Removing an entry moves the ones behind it forward by one. *)
LEMMA RemoveAtElements ==
  ASSUME NEW q \in Seq(Tracks), NEW i \in 0 .. Len(q) - 1
  PROVE  LET p == RemoveAt(q, i + 1)
         IN /\ p \in Seq(Tracks) /\ Len(p) = Len(q) - 1
            /\ \A j \in 1 .. i : p[j] = q[j]
            /\ \A j \in i + 1 .. Len(q) - 1 : p[j] = q[j + 1]
<1> DEFINE n == Len(q)
           a == SubSeq(q, 1, i)
           b == SubSeq(q, i + 2, n)
           p == RemoveAt(q, i + 1)
<1>1. n \in Nat /\ i \in Nat /\ i < n
  OBVIOUS
<1>2. p = a \o b
  <2>1. (i + 1) - 1 = i /\ (i + 1) + 1 = i + 2
    BY <1>1
  <2>2. QED
    BY <2>1 DEF RemoveAt
<1>3. a \in Seq(Tracks) /\ Len(a) = i /\ \A j \in 1 .. i : a[j] = q[j]
  BY <1>1, SubSeqProperties
<1>4. /\ b \in Seq(Tracks) /\ Len(b) = n - i - 1
      /\ \A j \in 1 .. n - i - 1 : b[j] = q[j + i + 1]
  BY <1>1, SubSeqProperties
<1> HIDE DEF a, b, p
<1>5. /\ p \in Seq(Tracks) /\ Len(p) = n - 1
      /\ \A j \in 1 .. i : p[j] = a[j]
      /\ \A j \in i + 1 .. n - 1 : p[j] = b[j - i]
  <2>1. /\ p \in Seq(Tracks) /\ Len(p) = Len(a) + Len(b)
        /\ \A j \in 1 .. Len(a) + Len(b) : p[j] = IF j <= Len(a) THEN a[j] ELSE b[j - Len(a)]
    <3>1. /\ a \o b \in Seq(Tracks) /\ Len(a \o b) = Len(a) + Len(b)
          /\ \A j \in 1 .. Len(a) + Len(b) :
               (a \o b)[j] = IF j <= Len(a) THEN a[j] ELSE b[j - Len(a)]
      <4>1. a \in Seq(Tracks) /\ b \in Seq(Tracks)
        BY <1>3, <1>4
      <4>2. QED
        BY <4>1, ConcatProperties
    <3>2. QED
      BY <1>2, <3>1
  <2>2. Len(a) = i /\ Len(b) = n - i - 1 /\ Len(a) + Len(b) = n - 1
    BY <1>1, <1>3, <1>4
  <2> HIDE DEF n
  <2>3. QED
    BY <1>1, <2>1, <2>2
<1>6. ASSUME NEW j \in i + 1 .. n - 1 PROVE p[j] = q[j + 1]
  <2>1. j - i \in 1 .. n - i - 1 /\ (j - i) + i + 1 = j + 1
    BY <1>1
  <2>2. QED
    BY <1>4, <1>5, <2>1
<1>7. QED
  BY <1>3, <1>5, <1>6 DEF p

LEMMA QueueRemoveGood ==
  ASSUME NEW t \in Nat, NEW r, Good(r, t), NEW i \in Int, NEW u \in Nat, u <= t
  PROVE  Good(QueueRemove(r, i, u), t)
<1> DEFINE q == RemoveAt(r.queue, i + 1)
           k == IF i < r.index THEN r.index - 1 ELSE r.index
           p == IF i = r.index THEN 0 ELSE r.positionMs
           s == [r EXCEPT !.queue = q, !.index = ClampIdx(k, Len(q))]
<1>1. r \in RoomType
  BY DEF Good
<1>2. CASE i \notin 0 .. Len(r.queue) - 1
  BY <1>2 DEF QueueRemove
<1>3. CASE i \in 0 .. Len(r.queue) - 1
  <2>1. q \in Seq(Tracks)
    <3>1. r.queue \in Seq(Tracks)
      BY <1>1 DEF RoomType
    <3>2. QED
      BY <1>3, <3>1, RemoveAtElements
  <2>2. QueueRemove(r, i, u) = Anchor(s, p, u)
    BY <1>3 DEF QueueRemove
  <2> HIDE DEF q
  <2>3. k \in Int /\ p \in Nat
    BY <1>1 DEF RoomType
  <2>4. Good(s, t)
    BY <2>1, <2>3, ClampedGood
  <2> HIDE DEF s, p
  <2>5. QED
    BY <2>2, <2>3, <2>4, AnchorGood
<1>4. QED
  BY <1>2, <1>3

LEMMA SetIndexGood ==
  ASSUME NEW t \in Nat, NEW r, Good(r, t), NEW i \in Int, NEW u \in Nat, u <= t
  PROVE  Good(SetIndex(r, i, u), t)
<1> DEFINE s == [r EXCEPT !.index = i]
<1>1. CASE i \in 0 .. Len(r.queue) - 1
  <2>1. SetIndex(r, i, u) = Anchor(s, 0, u)
    BY <1>1 DEF SetIndex
  <2>2. r \in RoomType /\ r.queue # <<>> /\ Len(r.queue) \in Nat
    BY <1>1, QueueLen DEF Good, RoomType
  <2>3. Good(s, t)
    BY <1>1, <2>2 DEF Good, InRange, RoomType
  <2> HIDE DEF s
  <2>4. QED
    BY <2>1, <2>3, AnchorGood
<1>2. CASE i \notin 0 .. Len(r.queue) - 1
  BY <1>2 DEF SetIndex
<1>3. QED
  BY <1>1, <1>2

LEMMA QueueAddGood ==
  ASSUME NEW t \in Nat, NEW r, Good(r, t), NEW items \in Seq(Tracks)
  PROVE  Good([r EXCEPT !.queue = @ \o items], t)
<1> DEFINE q == r.queue \o items
<1>1. /\ r \in RoomType /\ q \in Seq(Tracks)
      /\ Len(q) = Len(r.queue) + Len(items)
      /\ Len(r.queue) \in Nat /\ Len(items) \in Nat
  BY DEF Good, RoomType
<1>2. r.queue # <<>> => q # <<>> /\ Len(q) >= Len(r.queue)
  BY <1>1, QueueLen DEF RoomType
<1>3. r.queue = <<>> => r.index = 0
  BY DEF Good, InRange
<1>4. q # <<>> => Len(q) > 0
  BY <1>1, QueueLen
<1> HIDE DEF q
<1>5. r.index \in 0 .. (IF q = <<>> THEN 0 ELSE Len(q) - 1)
  BY <1>1, <1>2, <1>3, <1>4 DEF Good, InRange
<1>6. QED
  BY <1>1, <1>5 DEF q, Good, InRange, RoomType

LEMMA PlayingGood ==
  ASSUME NEW t \in Nat, NEW r, Good(r, t), NEW b \in BOOLEAN, NEW u \in Nat, u <= t
  PROVE  Good([Freeze(r, u) EXCEPT !.playing = b], t)
<1> DEFINE s == Touch(r, u)
<1>1. Good(s, t)
  BY TouchGood
<1>2. Freeze(r, u) = s
  BY DEF Touch
<1> HIDE DEF s
<1>3. Good([s EXCEPT !.playing = b], t)
  BY <1>1 DEF Good, InRange, RoomType
<1>4. QED
  BY <1>2, <1>3

-----------------------------------------------------------------------------
(* The steps *)

(* A broadcast brings the listeners level with any good room. *)
LEMMA ApplyPInv ==
  ASSUME PInv, NEW q \in Reqs, NEW r, Good(r, now), Apply(q, r)
  PROVE  PInv'
<1>1. /\ r \in RoomType /\ now \in Nat /\ r.updatedAtMs <= now
      /\ room' = r /\ now' = now /\ told' = Snapshot(r, now)
      /\ arrived' = [arrived EXCEPT ![q] = Never]
      /\ arrived \in [Reqs -> Nat \cup {Never}]
  BY DEF Good, Apply, Finish, PInv, TypeOK
<1>2. /\ CurrentPos(r, now) \in Nat
      /\ r.playing => CurrentPos(r, now) = r.positionMs + (now - r.updatedAtMs)
      /\ ~r.playing => CurrentPos(r, now) = r.positionMs
  BY <1>1 DEF CurrentPos, RoomType
<1>3. /\ told'.queue = r.queue /\ told'.index = r.index /\ told'.playing = r.playing
      /\ told'.positionMs = CurrentPos(r, now) /\ told'.serverTimeMs = now
      /\ told' \in [queue : Seq(Tracks), index : Int, playing : BOOLEAN,
                    positionMs : Nat, serverTimeMs : Nat]
  <2> DEFINE p == CurrentPos(r, now)
  <2>1. told' = [queue |-> r.queue, index |-> r.index, playing |-> r.playing,
                 positionMs |-> p, serverTimeMs |-> now]
    BY <1>1 DEF Snapshot
  <2>2. p \in Nat
    BY <1>2
  <2> HIDE DEF p
  <2>3. /\ told'.queue = r.queue /\ told'.index = r.index
        /\ told'.playing = r.playing
        /\ told'.positionMs = p /\ told'.serverTimeMs = now
        /\ told' \in [queue : Seq(Tracks), index : Int, playing : BOOLEAN,
                      positionMs : Nat, serverTimeMs : Nat]
    BY <1>1, <2>1, <2>2 DEF RoomType
  <2>4. QED
    BY <2>3 DEF p
<1>4. /\ arrived' \in [Reqs -> Nat \cup {Never}]
      /\ \A k \in Reqs : arrived'[k] <= now
  BY <1>1 DEF PInv, AnchorNotFuture, Never
<1>5. TypeOK'
  BY <1>1, <1>3, <1>4 DEF TypeOK
<1>6. AnchorNotFuture' /\ ChangesAreAnnounced'
  BY <1>1, <1>3, <1>4 DEF AnchorNotFuture, ChangesAreAnnounced
<1>7. Lead'
  BY <1>1, <1>2, <1>3 DEF Lead, RoomType
<1>8. QED
  BY <1>1, <1>5, <1>6, <1>7 DEF PInv

(* Touching the room without a broadcast does not lose the lead. *)
LEMMA SilentTouch ==
  ASSUME PInv, NEW t \in Nat, t <= now, room' = Touch(room, t), UNCHANGED <<now, told>>,
         arrived' \in [Reqs -> Nat \cup {Never}],
         \A k \in Reqs : arrived'[k] <= now
  PROVE  PInv'
<1>1. /\ room \in RoomType /\ now \in Nat /\ Good(room, now)
  BY DEF PInv, TypeOK
<1>2. /\ room' \in RoomType
      /\ room'.queue = room.queue /\ room'.index = room.index
      /\ room'.playing = room.playing /\ room'.updatedAtMs = t
      /\ IF room.playing
           THEN room'.positionMs - t >= room.positionMs - room.updatedAtMs
           ELSE room'.positionMs = room.positionMs
  BY <1>1, TouchKeeps
<1>3. Good(room', now')
  BY <1>1, <1>2 DEF Good, InRange
<1>4. TypeOK' /\ AnchorNotFuture' /\ ChangesAreAnnounced'
  BY <1>2 DEF PInv, TypeOK, AnchorNotFuture, ChangesAreAnnounced
<1>5. Lead'
  <2>1. /\ room.positionMs \in Nat /\ room.updatedAtMs \in Nat
        /\ room'.positionMs \in Nat
        /\ told.positionMs \in Nat /\ told.serverTimeMs \in Nat
    BY <1>1, <1>2 DEF PInv, TypeOK, RoomType
  <2>2. CASE room.playing
    BY <1>2, <2>1, <2>2 DEF PInv, Lead
  <2>3. CASE ~room.playing
    BY <1>2, <2>1, <2>3 DEF PInv, Lead
  <2>4. QED
    BY <2>2, <2>3
<1>6. QED
  BY <1>3, <1>4, <1>5 DEF PInv

LEMMA CommandPInv ==
  ASSUME PInv, NEW q \in Reqs, Command(q)
  PROVE  PInv'
<1> DEFINE t == arrived[q]
           s == Touched(q)
<1>1. t \in Nat /\ t <= now /\ now \in Nat
  <2>1. arrived[q] # Never
    BY DEF Command, Refuse, KickOrClose, Play, Pause, Toggle, Seek, GoNext, GoPrev,
           ReplaceQueue, QueueAdd, RemoveFromQueue, RemoveAtIndex, ChooseIndex,
           Apply, Finish
  <2>2. QED
    BY <2>1 DEF PInv, TypeOK, AnchorNotFuture
<1>2. Good(s, now)
  BY <1>1, TouchGood DEF PInv, Touched
<1>3. s.playing \in BOOLEAN
  BY <1>2 DEF Good, RoomType
<1> HIDE DEF s
<1>4. CASE Refuse(q)
  <2>1. arrived' \in [Reqs -> Nat \cup {Never}] /\ \A k \in Reqs : arrived'[k] <= now
    BY <1>1, <1>4 DEF Refuse, Finish, PInv, TypeOK, AnchorNotFuture, Never
  <2>2. QED
    BY <1>1, <1>4, <2>1, SilentTouch DEF Refuse, Finish, Touched
<1>5. CASE KickOrClose(q)
  BY <1>2, <1>5, ApplyPInv DEF KickOrClose, s
<1>6. CASE Play(q) \/ Pause(q) \/ Toggle(q)
  <2>1. PICK b \in BOOLEAN : Apply(q, [Freeze(s, t) EXCEPT !.playing = b])
    <3>1. Freeze(s, t).playing \in BOOLEAN
      BY <1>3 DEF Freeze, Anchor
    <3>2. QED
      BY <1>6, <3>1 DEF Play, Pause, Toggle, s
  <2>2. Good([Freeze(s, t) EXCEPT !.playing = b], now)
    BY <1>1, <1>2, PlayingGood
  <2>3. QED
    BY <2>1, <2>2, ApplyPInv
<1>7. CASE Seek(q)
  <2>1. PICK p \in Positions : Apply(q, IF p >= 0 THEN Anchor(s, p, t) ELSE s)
    BY <1>7 DEF Seek, s
  <2>2. p \in Int /\ (p >= 0 => p \in Nat)
    BY PlaybackAssumption
  <2>3. Good(IF p >= 0 THEN Anchor(s, p, t) ELSE s, now)
    BY <1>1, <1>2, <2>2, AnchorGood
  <2>4. QED
    BY <2>1, <2>3, ApplyPInv
<1>8. CASE GoNext(q) \/ GoPrev(q)
  <2>1. PICK d \in {1, -1} : Apply(q, NextTrack(s, d, t))
    BY <1>8 DEF GoNext, GoPrev, s
  <2>2. Good(NextTrack(s, d, t), now)
    BY <1>1, <1>2, NextTrackGood
  <2>3. QED
    BY <2>1, <2>2, ApplyPInv
<1>9. CASE ReplaceQueue(q)
  <2>1. PICK queue \in Queues, i \in Indexes, p \in Positions :
          Apply(q, SetQueue(s, queue, i, p, t))
    BY <1>9 DEF ReplaceQueue, s
  <2>2. queue \in Seq(Tracks) /\ i \in Int /\ p \in Int
    BY QueuesType, PlaybackAssumption DEF Indexes
  <2>3. Good(SetQueue(s, queue, i, p, t), now)
    BY <1>1, <1>2, <2>2, SetQueueGood
  <2>4. QED
    BY <2>1, <2>3, ApplyPInv
<1>10. CASE QueueAdd(q)
  <2>1. PICK items \in Queues : Apply(q, [s EXCEPT !.queue = @ \o items])
    BY <1>10 DEF QueueAdd, s
  <2>2. Good([s EXCEPT !.queue = @ \o items], now)
    BY <1>1, <1>2, QueuesType, QueueAddGood
  <2>3. QED
    BY <2>1, <2>2, ApplyPInv
<1>11. CASE RemoveFromQueue(q)
  <2>1. PICK i \in Indexes : Apply(q, QueueRemove(s, i, t))
    BY <1>11 DEF RemoveFromQueue, RemoveAtIndex, s
  <2>2. i \in Int
    BY PlaybackAssumption DEF Indexes
  <2>3. Good(QueueRemove(s, i, t), now)
    BY <1>1, <1>2, <2>2, QueueRemoveGood
  <2>4. QED
    BY <2>1, <2>3, ApplyPInv
<1>12. CASE ChooseIndex(q)
  <2>1. PICK i \in Indexes : Apply(q, SetIndex(s, i, t))
    BY <1>12 DEF ChooseIndex, s
  <2>2. i \in Int
    BY PlaybackAssumption DEF Indexes
  <2>3. Good(SetIndex(s, i, t), now)
    BY <1>1, <1>2, <2>2, SetIndexGood
  <2>4. QED
    BY <2>1, <2>3, ApplyPInv
<1>13. QED
  BY <1>4, <1>5, <1>6, <1>7, <1>8, <1>9, <1>10, <1>11, <1>12 DEF Command

LEMMA PInvInductive == Spec => []PInv
<1>1. Init => PInv
  BY DEF Init, EmptyRoom, Snapshot, CurrentPos, Never, PInv, TypeOK, RoomType, Good,
         InRange, AnchorNotFuture, ChangesAreAnnounced, Lead
<1>2. PInv /\ [Next]_vars => PInv'
  <2> SUFFICES ASSUME PInv, [Next]_vars PROVE PInv'
    OBVIOUS
  <2>1. CASE Tick
    BY <2>1 DEF Tick, PInv, TypeOK, RoomType, Good, InRange, AnchorNotFuture,
                ChangesAreAnnounced, Lead, Never
  <2>2. CASE MemberChange
    <3>1. now \in Nat
      BY DEF PInv, TypeOK
    <3>2. QED
      BY <2>2, <3>1, SilentTouch DEF MemberChange, PInv, TypeOK, AnchorNotFuture
  <2>3. ASSUME NEW q \in Reqs, Arrive(q) PROVE PInv'
    BY <2>3 DEF Arrive, PInv, TypeOK, Good, InRange, AnchorNotFuture,
                ChangesAreAnnounced, Lead
  <2>4. ASSUME NEW q \in Reqs, Command(q) PROVE PInv'
    BY <2>4, CommandPInv
  <2>5. CASE UNCHANGED vars
    BY <2>5 DEF vars, PInv, TypeOK, Good, InRange, AnchorNotFuture,
                ChangesAreAnnounced, Lead
  <2>6. QED
    BY <2>1, <2>2, <2>3, <2>4, <2>5 DEF Next
<1>3. QED
  BY <1>1, <1>2, PTL DEF Spec

(* The shape of the state; no position is ever negative. *)
THEOREM PlaybackTypeCorrect == Spec => []TypeOK
<1>1. PInv => TypeOK
  BY DEF PInv
<1>2. QED
  BY <1>1, PInvInductive, PTL

(* No sequence of queue edits leaves the current index outside the queue. *)
THEOREM IndexStaysInRange == Spec => []IndexInRange
<1>1. PInv => IndexInRange
  BY DEF PInv, Good, InRange, IndexInRange
<1>2. QED
  BY <1>1, PInvInductive, PTL

(* No late command moves the anchor into the future. *)
THEOREM AnchorStaysPast == Spec => []AnchorNotFuture
<1>1. PInv => AnchorNotFuture
  BY DEF PInv
<1>2. QED
  BY <1>1, PInvInductive, PTL

(* Queue, current index and playing state are always those last broadcast. *)
THEOREM ChangesAlwaysAnnounced == Spec => []ChangesAreAnnounced
<1>1. PInv => ChangesAreAnnounced
  BY DEF PInv
<1>2. QED
  BY <1>1, PInvInductive, PTL

(***************************************************************************)
(* However late commands are and in whatever order they are applied, the   *)
(* room is never behind what its listeners compute from the last broadcast.*)
(***************************************************************************)
THEOREM RoomNeverBehind == Spec => []NeverBehindListeners
<1>1. PInv => NeverBehindListeners
  <2> SUFFICES ASSUME PInv PROVE NeverBehindListeners
    OBVIOUS
  <2>1. /\ room.positionMs \in Nat /\ room.updatedAtMs \in Nat /\ now \in Nat
        /\ room.playing \in BOOLEAN
        /\ told.positionMs \in Nat /\ told.serverTimeMs \in Nat
        /\ told.playing = room.playing
    BY DEF PInv, TypeOK, RoomType, ChangesAreAnnounced
  <2>2. CASE room.playing
    BY <2>1, <2>2 DEF PInv, Lead, NeverBehindListeners, CurrentPos, Derived
  <2>3. CASE ~room.playing
    BY <2>1, <2>3 DEF PInv, Lead, NeverBehindListeners, CurrentPos, Derived
  <2>4. QED
    BY <2>1, <2>2, <2>3
<1>2. QED
  BY <1>1, PInvInductive, PTL

-----------------------------------------------------------------------------
(* Touching the room, however late, does not move its clock back. *)
LEMMA TouchPos ==
  ASSUME NEW r \in RoomType, NEW u \in Nat, NEW t \in Nat, u <= t
  PROVE  CurrentPos(Touch(r, u), t) >= CurrentPos(r, t)
<1> DEFINE s == Touch(r, u)
<1>1. /\ s \in RoomType /\ s.playing = r.playing /\ s.updatedAtMs = u
      /\ IF r.playing THEN s.positionMs - u >= r.positionMs - r.updatedAtMs
                      ELSE s.positionMs = r.positionMs
  BY TouchKeeps
<1> HIDE DEF s
<1>2. /\ s.positionMs \in Nat /\ r.positionMs \in Nat /\ r.updatedAtMs \in Nat
  BY <1>1 DEF RoomType
<1>3. CASE r.playing
  <2>1. s.positionMs + (t - u) >= r.positionMs + (t - r.updatedAtMs)
    BY <1>1, <1>2, <1>3
  <2>2. s.positionMs + (t - u) >= 0
    BY <1>2
  <2>3. QED
    BY <1>1, <1>2, <1>3, <2>1, <2>2 DEF CurrentPos, s
<1>4. CASE ~r.playing
  BY <1>1, <1>2, <1>4 DEF CurrentPos, s
<1>5. QED
  BY <1>3, <1>4

(* What the current track and the clock are made of. *)
LEMMA SameClock ==
  ASSUME NEW r, NEW s, r.playing = s.playing, r.positionMs = s.positionMs,
         r.updatedAtMs = s.updatedAtMs, NEW t
  PROVE  CurrentPos(r, t) = CurrentPos(s, t)
BY DEF CurrentPos

LEMMA RemovedKeepsTrack ==
  ASSUME NEW s \in RoomType, InRange(s), NEW u, s.updatedAtMs = u,
         NEW i \in 0 .. Len(s.queue) - 1, i # s.index, NEW t
  PROVE  LET r == QueueRemove(s, i, u)
         IN CurrentTrack(r) = CurrentTrack(s) /\ CurrentPos(r, t) = CurrentPos(s, t)
<1> DEFINE q == RemoveAt(s.queue, i + 1)
           n == Len(s.queue)
           x == s.index
           k == IF i < x THEN x - 1 ELSE x
           r == QueueRemove(s, i, u)
<1>1. /\ s.queue \in Seq(Tracks) /\ n \in Nat /\ i \in Nat /\ i < n /\ i # x
      /\ x \in Nat /\ x < n
  <2>1. s.queue \in Seq(Tracks) /\ n \in Nat /\ (n = 0 <=> s.queue = <<>>)
    BY QueueLen DEF RoomType
  <2>2. i \in Nat /\ i < n /\ s.queue # <<>>
    BY <2>1
  <2>3. x \in 0 .. n - 1
    BY <2>2 DEF InRange
  <2>4. QED
    BY <2>1, <2>2, <2>3
<1>2. /\ Len(q) = n - 1
      /\ \A j \in 1 .. i : q[j] = s.queue[j]
      /\ \A j \in i + 1 .. n - 1 : q[j] = s.queue[j + 1]
  BY <1>1, RemoveAtElements
<1>3. k \in 0 .. n - 2 /\ q[k + 1] = s.queue[x + 1]
  <2> HIDE DEF q, n, x
  <2>1. CASE i < x
    <3>1. k = x - 1 /\ x \in i + 1 .. n - 1 /\ k + 1 = x
      BY <1>1, <2>1
    <3>2. QED
      BY <1>1, <1>2, <3>1 DEF n
  <2>2. CASE i > x
    <3>1. k = x /\ x + 1 \in 1 .. i
      BY <1>1, <2>2
    <3>2. QED
      BY <1>1, <1>2, <2>2, <3>1
  <2>3. QED
    BY <1>1, <2>1, <2>2
<1>4. ClampIdx(k, Len(q)) = k
  BY <1>1, <1>2, <1>3 DEF ClampIdx
<1>5. r = Anchor([s EXCEPT !.queue = q, !.index = k], s.positionMs, u)
  BY <1>4 DEF QueueRemove
<1> HIDE DEF q, k, r
<1>6. /\ r.queue = q /\ r.index = k /\ r.playing = s.playing
      /\ r.positionMs = s.positionMs /\ r.updatedAtMs = u
  BY <1>5 DEF Anchor, RoomType
<1>7. CurrentTrack(r) = CurrentTrack(s)
  BY <1>3, <1>6 DEF CurrentTrack
<1>8. CurrentPos(r, t) = CurrentPos(s, t)
  BY <1>6, SameClock
<1>9. QED
  BY <1>7, <1>8 DEF r

LEMMA AddedKeepsTrack ==
  ASSUME NEW s \in RoomType, InRange(s), s.queue # <<>>, NEW items \in Seq(Tracks), NEW t
  PROVE  LET r == [s EXCEPT !.queue = @ \o items]
         IN CurrentTrack(r) = CurrentTrack(s) /\ CurrentPos(r, t) = CurrentPos(s, t)
<1> DEFINE r == [s EXCEPT !.queue = @ \o items]
<1>1. /\ r.queue = s.queue \o items /\ r.index = s.index /\ r.playing = s.playing
      /\ r.positionMs = s.positionMs /\ r.updatedAtMs = s.updatedAtMs
      /\ s.queue \in Seq(Tracks) /\ s.index + 1 \in 1 .. Len(s.queue)
  BY DEF RoomType, InRange
<1> HIDE DEF r
<1>2. r.queue[s.index + 1] = s.queue[s.index + 1]
  BY <1>1
<1>3. CurrentTrack(r) = CurrentTrack(s)
  BY <1>1, <1>2 DEF CurrentTrack
<1>4. CurrentPos(r, t) = CurrentPos(s, t)
  BY <1>1, SameClock
<1>5. QED
  BY <1>3, <1>4 DEF r

LEMMA EditKeepsTrack ==
  ASSUME PInv, NEW q \in Reqs, room.queue # <<>>, Len(room'.queue) # Len(room.queue),
         QueueAdd(q) \/ \E i \in Indexes \ {room.index} : RemoveAtIndex(q, i)
  PROVE  /\ CurrentTrack(room') = CurrentTrack(room)
         /\ CurrentPos(room', now) >= CurrentPos(room, now)
<1> DEFINE t == arrived[q]
           s == Touched(q)
<1>1. t \in Nat /\ t <= now /\ now \in Nat /\ room \in RoomType /\ Good(room, now)
  <2>1. arrived[q] # Never
    BY DEF QueueAdd, RemoveAtIndex, Apply, Finish
  <2>2. QED
    BY <2>1 DEF PInv, TypeOK, AnchorNotFuture
<1>2. /\ s \in RoomType /\ InRange(s)
      /\ s.queue = room.queue /\ s.index = room.index /\ s.updatedAtMs = t
  BY <1>1, TouchGood DEF Touched, Good
<1>3. CurrentTrack(s) = CurrentTrack(room)
  BY <1>2 DEF CurrentTrack
<1>4. CurrentPos(s, now) >= CurrentPos(room, now)
  BY <1>1, TouchPos DEF Touched
<1> HIDE DEF s
<1>5. CASE QueueAdd(q)
  <2>1. PICK items \in Queues : room' = [s EXCEPT !.queue = @ \o items]
    BY <1>5 DEF QueueAdd, Apply, s
  <2>2. CurrentTrack(room') = CurrentTrack(s) /\ CurrentPos(room', now) = CurrentPos(s, now)
    BY <1>2, <2>1, QueuesType, AddedKeepsTrack
  <2>3. QED
    BY <1>3, <1>4, <2>2
<1>6. ASSUME NEW i \in Indexes \ {room.index}, RemoveAtIndex(q, i)
      PROVE  CurrentTrack(room') = CurrentTrack(s) /\ CurrentPos(room', now) = CurrentPos(s, now)
  <2>1. room' = QueueRemove(s, i, t)
    BY <1>6 DEF RemoveAtIndex, Apply, s
  <2>2. i \in 0 .. Len(s.queue) - 1
    BY <1>2, <2>1 DEF QueueRemove
  <2>3. QED
    BY <1>2, <2>1, <2>2, RemovedKeepsTrack
<1>7. QED
  BY <1>3, <1>4, <1>5, <1>6

(***************************************************************************)
(* Editing the queue around the current track lets it go on from where it  *)
(* was or later, however old the request is.                               *)
(***************************************************************************)
THEOREM EditsKeepTrack == Spec => CurrentTrackGoesOn
<1>1. PInv /\ [Next]_vars =>
        [\A q \in Reqs :
           /\ room.queue # <<>> /\ Len(room'.queue) # Len(room.queue)
           /\ QueueAdd(q) \/ \E i \in Indexes \ {room.index} : RemoveAtIndex(q, i)
           => /\ CurrentTrack(room') = CurrentTrack(room)
              /\ CurrentPos(room', now) >= CurrentPos(room, now)]_vars
  BY EditKeepsTrack
<1>2. QED
  BY <1>1, PInvInductive, PTL DEF Spec, CurrentTrackGoesOn
=============================================================================
