---------------------------- MODULE RoomSnapshots ----------------------------
(***************************************************************************)
(* The queue of RoomPlayback as the Go slice it is: Room.Queue refers to a *)
(* backing array, which the commands share with every snapshot taken       *)
(* before.  snapshotLocked returns the slice under Room.mu, and the answer *)
(* of create, join, state or command, or the greeting of a stream, is      *)
(* encoded after the mutex was released.  (A broadcast is encoded under    *)
(* it.)                                                                    *)
(***************************************************************************)
EXTENDS RoomPlayback

CONSTANTS Arrays,     \* where backing arrays are allocated
          Readers,    \* handlers that may hold a snapshot
          Zero,       \* TrackRef{}, beyond the length of a new array
          None        \* the array of a slice without capacity

ASSUME SnapshotAssumption == None \notin Arrays

VARIABLES
  heap,     \* backing arrays: the length of one is the capacity
  live,     \* Room.Queue: its array and length
  held      \* the slice in the snapshot of each reader

memVars == <<heap, live, held>>
snapVars == <<vars, memVars>>

Empty == [arr |-> None, len |-> 0]
Idle == [reading |-> FALSE, s |-> Empty]

View(h, s) == IF s.arr = None THEN <<>> ELSE SubSeq(h[s.arr], 1, s.len)

SnapInit ==
  /\ Init
  /\ heap = [a \in Arrays |-> <<>>]
  /\ live = Empty
  /\ held = [x \in Readers |-> Idle]

-----------------------------------------------------------------------------
Used == {live.arr} \cup {held[x].s.arr : x \in Readers}

(* The heap becomes h, but for the arrays nothing refers to any more. *)
Write(h) == heap' = [a \in Arrays |-> IF a \in Used' THEN h[a] ELSE <<>>]

(* A new array, with what capacity append likes to give it. *)
Padded(queue, cap) ==
  [i \in 1 .. cap |-> IF i <= Len(queue) THEN queue[i] ELSE Zero]

Allocated(queue) ==
  /\ UNCHANGED held
  /\ IF queue = <<>>
       THEN live' = Empty /\ Write(heap)
       ELSE \E a \in Arrays \ Used, cap \in Len(queue) .. MaxQueue :
              /\ live' = [arr |-> a, len |-> Len(queue)]
              /\ Write([heap EXCEPT ![a] = Padded(queue, cap)])

(* items written behind the first n entries of mem, which has room for them *)
Overwritten(mem, n, items) ==
  [i \in DOMAIN mem |-> IF i \in n + 1 .. n + Len(items) THEN items[i - n] ELSE mem[i]]

InPlace(n, items) ==
  /\ UNCHANGED held
  /\ live' = [live EXCEPT !.len = n + Len(items)]
  /\ Write([heap EXCEPT ![live.arr] = Overwritten(@, n, items)])

Fits(n, items) == live.arr # None /\ n + Len(items) <= Len(heap[live.arr])

(* append([]TrackRef{}, queue...) *)
ReplacedInPlace(queue) ==           \* mutant: append(r.Queue[:0], queue...)
  IF Fits(0, queue) THEN InPlace(0, queue) ELSE Allocated(queue)

Replaced(queue) == Allocated(queue)

(* append(r.Queue, items...) *)
Appended(items) ==
  IF Fits(live.len, items) THEN InPlace(live.len, items)
  ELSE Allocated(View(heap, live) \o items)

(* append(r.Queue[:i], r.Queue[i+1:]...) *)
Shifted(mem, i, n) == [j \in DOMAIN mem |-> IF j \in i + 1 .. n - 1 THEN mem[j + 1] ELSE mem[j]]

Removed(i) ==
  /\ UNCHANGED held
  /\ live' = [live EXCEPT !.len = @ - 1]
  /\ Write([heap EXCEPT ![live.arr] = Shifted(@, i, live.len)])

-----------------------------------------------------------------------------
(* What each command of RoomPlayback does to the arrays. *)

InQueue(i) == i \in 0 .. Len(room.queue) - 1

SetQueueCommand(q) == ReplaceQueue(q) /\ Replaced(room'.queue)

QueueAddCommand(q) ==
  /\ QueueAdd(q)
  /\ Appended(SubSeq(room'.queue, Len(room.queue) + 1, Len(room'.queue)))

QueueRemoveCommand(q) ==
  \E i \in Indexes :
    /\ RemoveAtIndex(q, i)
    /\ IF InQueue(i) THEN Removed(i) ELSE UNCHANGED memVars

OtherCommand(q) ==
  /\ \/ Refuse(q) \/ KickOrClose(q)
     \/ Play(q) \/ Pause(q) \/ Toggle(q) \/ Seek(q) \/ GoNext(q) \/ GoPrev(q)
     \/ ChooseIndex(q)
  /\ UNCHANGED memVars

(* snapshotLocked *)
Take(x) ==
  /\ ~held[x].reading
  /\ held' = [held EXCEPT ![x] = [reading |-> TRUE, s |-> live]]
  /\ UNCHANGED <<vars, heap, live>>

(* The end of json.Encode, which reads the entries until then. *)
Encoded(x) ==
  /\ held[x].reading
  /\ held' = [held EXCEPT ![x] = Idle]
  /\ UNCHANGED <<vars, live>>
  /\ Write(heap)

SnapNext ==
  \/ Tick /\ UNCHANGED memVars
  \/ MemberChange /\ UNCHANGED memVars
  \/ \E q \in Reqs : Arrive(q) /\ UNCHANGED memVars
  \/ \E q \in Reqs : SetQueueCommand(q) \/ QueueAddCommand(q) \/ QueueRemoveCommand(q)
                       \/ OtherCommand(q)
  \/ \E x \in Readers : Take(x) \/ Encoded(x)

SnapSpec == SnapInit /\ [][SnapNext]_snapVars

-----------------------------------------------------------------------------
(* The shape of the memory. *)
MemTypeOK ==
  /\ heap \in [Arrays -> Seq(Tracks \cup {Zero})]
  /\ live \in [arr : Arrays \cup {None}, len : Nat]
  /\ held \in [Readers -> [reading : BOOLEAN, s : [arr : Arrays \cup {None}, len : Nat]]]

(* The slice is the queue that RoomPlayback says the room has. *)
QueueIsStored == View(heap, live) = room.queue

(***************************************************************************)
(* A snapshot that was taken is what its client is sent, unless an entry   *)
(* is removed from the array it shares while it is being encoded: neither  *)
(* another queue nor entries added behind it reach it, however the arrays  *)
(* have grown.  Once the queue is shorter than the snapshot, added entries *)
(* do, too: they land where the snapshot has its last ones.                *)
(***************************************************************************)
SnapshotsAreKept ==
  [][\A x \in Readers :
       held[x].reading /\ held'[x].reading /\ View(heap', held[x].s) # View(heap, held[x].s)
         => /\ held[x].s.arr = live.arr
            /\ live.len < held[x].s.len \/ live'.len < live.len]_snapVars
=============================================================================
