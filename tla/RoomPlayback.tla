---------------------------- MODULE RoomPlayback ----------------------------
(***************************************************************************)
(* The shared playback state of a Room and the commands that change it:    *)
(* applyCommand of apps/fnmusic/listen_room.go with the anchor it keeps    *)
(* (currentPosMs, freezeLocked, touchLocked).  A command is anchored at    *)
(* the moment its request arrived, membership changes at the moment they   *)
(* happen, and requests are applied in any order: each first waits for the *)
(* upstream to answer identity().                                          *)
(***************************************************************************)
EXTENDS Integers, Sequences, SequencesExt

CONSTANTS Tracks,     \* what a queue is made of
          Reqs,       \* commands that may be in flight at once
          Positions,  \* positionMs of seek and setQueue requests
          MaxQueue,   \* bound on the length of the queue
          MaxTime     \* bound on the clock

ASSUME PlaybackAssumption ==
  /\ Positions \subseteq Int
  /\ MaxQueue \in Nat
  /\ MaxTime \in Nat

VARIABLES
  room,     \* Queue, Index, Playing, PositionMs, UpdatedAtMs
  now,      \* nowMs()
  arrived,  \* arrivedMs of the commands in flight, Never for no command
  told      \* the last state that was broadcast

vars == <<room, now, arrived, told>>

Never == -1
Indexes == -1 .. MaxQueue       \* p.Index of a request, in and out of range
Queues == UNION {[1 .. n -> Tracks] : n \in 0 .. MaxQueue}

-----------------------------------------------------------------------------
CurrentPosUnclamped(r, t) ==        \* mutant: a late command goes below zero
  IF r.playing THEN r.positionMs + (t - r.updatedAtMs) ELSE r.positionMs

(* currentPosMs *)
CurrentPos(r, t) ==
  IF ~r.playing THEN r.positionMs
  ELSE LET p == r.positionMs + (t - r.updatedAtMs)
       IN IF p < 0 THEN 0 ELSE p

Anchor(r, p, t) == [r EXCEPT !.positionMs = p, !.updatedAtMs = t]

(* freezeLocked, and touchLocked, which is the same *)
FreezeMovesAnchor(r, t) == [r EXCEPT !.updatedAtMs = t]  \* mutant: position kept

Freeze(r, t) == Anchor(r, CurrentPos(r, t), t)
Touch(r, t) == Freeze(r, t)

(* Go's % has the sign of the dividend. *)
GoRem(a, n) == IF a >= 0 THEN a % n ELSE -((-a) % n)

ClampIdx(i, n) ==
  IF n <= 0 \/ i < 0 THEN 0
  ELSE IF i >= n THEN n - 1 ELSE i

(* nextTrack *)
NextTrackOneRem(r, delta, t) ==     \* mutant: trusts % not to be negative
  IF r.queue = <<>> THEN r
  ELSE Anchor([r EXCEPT !.index = GoRem(@ + delta, Len(r.queue))], 0, t)

NextTrack(r, delta, t) ==
  LET n == Len(r.queue)
  IN IF n = 0 THEN r
     ELSE Anchor([r EXCEPT !.index = GoRem(GoRem(@ + delta, n) + n, n)], 0, t)

SetQueue(r, queue, i, p, t) ==
  Anchor([r EXCEPT !.queue = queue, !.index = ClampIdx(i, Len(queue))],
         IF p > 0 THEN p ELSE 0, t)

QueueRemoveKeepsIndex(r, i, t) ==   \* mutant: the index does not follow
  IF i \notin 0 .. Len(r.queue) - 1 THEN r
  ELSE LET queue == RemoveAt(r.queue, i + 1)
       IN Anchor([r EXCEPT !.queue = queue, !.index = ClampIdx(@, Len(queue))],
                 IF i = r.index THEN 0 ELSE r.positionMs, t)

QueueRemove(r, i, t) ==
  IF i \notin 0 .. Len(r.queue) - 1 THEN r
  ELSE LET queue == RemoveAt(r.queue, i + 1)
           index == IF i < r.index THEN r.index - 1 ELSE r.index
       IN Anchor([r EXCEPT !.queue = queue, !.index = ClampIdx(index, Len(queue))],
                 IF i = r.index THEN 0 ELSE r.positionMs, t)

SetIndex(r, i, t) ==
  IF i \in 0 .. Len(r.queue) - 1 THEN Anchor([r EXCEPT !.index = i], 0, t) ELSE r

(* snapshotLocked *)
Snapshot(r, t) ==
  [queue |-> r.queue, index |-> r.index, playing |-> r.playing,
   positionMs |-> CurrentPos(r, t), serverTimeMs |-> t]

-----------------------------------------------------------------------------
EmptyRoom == [queue |-> <<>>, index |-> 0, playing |-> FALSE,
              positionMs |-> 0, updatedAtMs |-> 0]

Init ==
  /\ room = EmptyRoom
  /\ now = 0
  /\ arrived = [q \in Reqs |-> Never]
  /\ told = Snapshot(EmptyRoom, 0)

Tick ==
  /\ now < MaxTime
  /\ now' = now + 1
  /\ UNCHANGED <<room, arrived, told>>

ArriveByClientClock(q) ==           \* mutant: the client's clock is trusted
  /\ arrived[q] = Never
  /\ arrived' = [arrived EXCEPT ![q] = now + 1]
  /\ UNCHANGED <<room, now, told>>

(* arrivedMs := nowMs(), before the upstream is asked *)
Arrive(q) ==
  /\ arrived[q] = Never
  /\ arrived' = [arrived EXCEPT ![q] = now]
  /\ UNCHANGED <<room, now, told>>

(* addMember and removeMember touch the room at the present moment. *)
MemberChange ==
  /\ room' = Touch(room, now)
  /\ UNCHANGED <<now, arrived, told>>

(***************************************************************************)
(* applyCommand: the room is touched at the request's arrival, the command *)
(* applied to it, and the state broadcast at the present moment.           *)
(***************************************************************************)
Touched(q) == Touch(room, arrived[q])

Finish(q) ==
  /\ arrived[q] # Never
  /\ arrived' = [arrived EXCEPT ![q] = Never]
  /\ UNCHANGED now

ApplySilently(q, r) ==              \* mutant: returns before the broadcast
  /\ Finish(q)
  /\ room' = r
  /\ UNCHANGED told

Apply(q, r) ==
  /\ Finish(q)
  /\ room' = r
  /\ told' = Snapshot(r, now)

(* kick and close are refused to members, unknown commands to everybody. *)
Refuse(q) ==
  /\ Finish(q)
  /\ room' = Touched(q)
  /\ UNCHANGED told

(* kick and close by the host *)
KickOrClose(q) == Apply(q, Touched(q))

Play(q)   == Apply(q, [Freeze(Touched(q), arrived[q]) EXCEPT !.playing = TRUE])
Pause(q)  == Apply(q, [Freeze(Touched(q), arrived[q]) EXCEPT !.playing = FALSE])
Toggle(q) == Apply(q, [Freeze(Touched(q), arrived[q]) EXCEPT !.playing = ~@])

Seek(q) ==
  \E p \in Positions :
    Apply(q, IF p >= 0 THEN Anchor(Touched(q), p, arrived[q]) ELSE Touched(q))

GoNext(q) == Apply(q, NextTrack(Touched(q), 1, arrived[q]))
GoPrev(q) == Apply(q, NextTrack(Touched(q), -1, arrived[q]))

ReplaceQueue(q) ==
  \E queue \in Queues, i \in Indexes, p \in Positions :
    Apply(q, SetQueue(Touched(q), queue, i, p, arrived[q]))

(* With no items the queue stays as it is. *)
QueueAdd(q) ==
  \E items \in Queues :
    /\ Len(room.queue) + Len(items) <= MaxQueue
    /\ Apply(q, [Touched(q) EXCEPT !.queue = @ \o items])

RemoveAtIndex(q, i) == Apply(q, QueueRemove(Touched(q), i, arrived[q]))

RemoveFromQueue(q) == \E i \in Indexes : RemoveAtIndex(q, i)

ChooseIndex(q) ==
  \E i \in Indexes : Apply(q, SetIndex(Touched(q), i, arrived[q]))

Command(q) ==
  \/ Refuse(q) \/ KickOrClose(q)
  \/ Play(q) \/ Pause(q) \/ Toggle(q) \/ Seek(q) \/ GoNext(q) \/ GoPrev(q)
  \/ ReplaceQueue(q) \/ QueueAdd(q) \/ RemoveFromQueue(q) \/ ChooseIndex(q)

Next ==
  \/ Tick \/ MemberChange
  \/ \E q \in Reqs : Arrive(q) \/ Command(q)

Spec == Init /\ [][Next]_vars

-----------------------------------------------------------------------------
RoomType == [queue       : Seq(Tracks),
             index       : Int,
             playing     : BOOLEAN,
             positionMs  : Nat,
             updatedAtMs : Nat]

(* The shape of the state: a position is never negative. *)
TypeOK ==
  /\ room \in RoomType
  /\ now \in Nat
  /\ arrived \in [Reqs -> Nat \cup {Never}]
  /\ told \in [queue : Seq(Tracks), index : Int, playing : BOOLEAN,
               positionMs : Nat, serverTimeMs : Nat]

(* No sequence of queue edits, wrap-arounds and clamps leaves the index of *)
(* the current track outside the queue, so a client can always play it.    *)
IndexInRange ==
  room.index \in 0 .. (IF room.queue = <<>> THEN 0 ELSE Len(room.queue) - 1)

(* The anchor is never in the future: neither a late command nor a member  *)
(* who comes or goes can make the room wait for the clock to catch up.     *)
AnchorNotFuture ==
  /\ room.updatedAtMs <= now
  /\ \A q \in Reqs : arrived[q] <= now

(* What a client that was sent the last broadcast computes for the moment. *)
Derived(t) ==
  IF told.playing THEN told.positionMs + (t - told.serverTimeMs)
  ELSE told.positionMs

(* The room never falls behind what its listeners were told: touching the  *)
(* anchor, by members coming and going or by refused commands, whatever    *)
(* their age, does not rewind it.                                          *)
NeverBehindListeners == CurrentPos(room, now) >= Derived(now)

(* Everything but the progress of the current track is as announced. *)
ChangesAreAnnounced ==
  /\ told.queue = room.queue
  /\ told.index = room.index
  /\ told.playing = room.playing

(***************************************************************************)
(* Editing the queue around the current track does not disturb it: when    *)
(* entries are added, or another one is removed, the same track goes on    *)
(* from where it was, or (if the request is older than the anchor) later.  *)
(***************************************************************************)
CurrentTrack(r) == r.queue[r.index + 1]

CurrentTrackGoesOn ==
  [][ \A q \in Reqs :
        /\ room.queue # <<>> /\ Len(room'.queue) # Len(room.queue)
        /\ QueueAdd(q) \/ \E i \in Indexes \ {room.index} : RemoveAtIndex(q, i)
        => /\ CurrentTrack(room') = CurrentTrack(room)
           /\ CurrentPos(room', now) >= CurrentPos(room, now)
    ]_vars

(***************************************************************************)
(* listen_room.go:466-467 has commands anchored at their arrival so that   *)
(* the time the gateway takes to handle them does not enter the room's     *)
(* time axis, and MOBILE-API.md:210 has the clients derive the room's      *)
(* position from the last broadcast: the two agree.                        *)
(***************************************************************************)
ListenersInStep == CurrentPos(room, now) = Derived(now)
=============================================================================
