------------------------- MODULE RoomSnapshotsProofs -------------------------
(***************************************************************************)
(* For all tracks, arrays, readers and lengths: the Go slice is the queue  *)
(* of RoomPlayback, and a snapshot is changed under its reader only by a   *)
(* removal, or by additions to a queue that has become the shorter.        *)
(***************************************************************************)
EXTENDS RoomSnapshots, RoomPlaybackProofs

Entry == Tracks \cup {Zero}
Memory == [Arrays -> Seq(Entry)]
Slice == [arr : Arrays \cup {None}, len : Nat]

(* A slice lies within its array. *)
Within(h, s) ==
  /\ s \in Slice
  /\ s.arr = None => s.len = 0
  /\ s.arr # None => s.len <= Len(h[s.arr])

(* Every slice that anything refers to does. *)
MInv ==
  /\ MemTypeOK
  /\ room.queue \in Seq(Tracks)
  /\ Within(heap, live)
  /\ \A x \in Readers : Within(heap, held[x].s)
  /\ QueueIsStored

-----------------------------------------------------------------------------
(* What one sees through a slice *)

LEMMA ViewIs ==
  ASSUME NEW h \in Memory, NEW s, Within(h, s)
  PROVE  /\ View(h, s) \in Seq(Entry) /\ Len(View(h, s)) = s.len
         /\ \A i \in 1 .. s.len : View(h, s)[i] = h[s.arr][i]
<1>1. CASE s.arr = None
  <2>1. View(h, s) = <<>> /\ s.len = 0
    BY <1>1 DEF View, Within
  <2>2. <<>> \in Seq(Entry) /\ Len(<<>>) = 0
    BY EmptySeq
  <2>3. QED
    BY <2>1, <2>2
<1>2. CASE s.arr # None
  <2>1. s.arr \in Arrays /\ s.len \in Nat /\ s.len <= Len(h[s.arr])
    BY <1>2 DEF Within, Slice
  <2> DEFINE mem == h[s.arr]
             n == s.len
  <2>2. mem \in Seq(Entry) /\ n \in Nat /\ n <= Len(mem) /\ Len(mem) \in Nat
    BY <2>1, LenProperties DEF Memory
  <2>3. View(h, s) = SubSeq(mem, 1, n)
    BY <1>2 DEF View
  <2> HIDE DEF mem, n
  <2>4. \A i \in 1 .. n : mem[i] \in Entry
    <3>1. SUFFICES ASSUME NEW i \in 1 .. n PROVE mem[i] \in Entry
      OBVIOUS
    <3>2. i \in 1 .. Len(mem)
      BY <2>2
    <3>3. QED
      BY <2>2, <3>2, ElementOfSeq
  <2>5. /\ SubSeq(mem, 1, n) \in Seq(Entry)
        /\ Len(SubSeq(mem, 1, n)) = n
        /\ \A i \in 1 .. n : SubSeq(mem, 1, n)[i] = mem[i]
    <3>1. /\ SubSeq(mem, 1, n) \in Seq(Entry)
          /\ Len(SubSeq(mem, 1, n)) = IF 1 <= n THEN n - 1 + 1 ELSE 0
          /\ \A i \in 1 .. n - 1 + 1 : SubSeq(mem, 1, n)[i] = mem[1 + i - 1]
      BY <2>2, <2>4, SubSeqProperties
    <3>2. n - 1 + 1 = n /\ \A i \in 1 .. n : 1 + i - 1 = i
      BY <2>2
    <3>3. QED
      BY <2>2, <3>1, <3>2
  <2>6. QED
    BY <2>3, <2>5 DEF mem, n
<1>3. QED
  BY <1>1, <1>2

(* It is a given sequence if it has its length and its entries. *)
LEMMA ViewEquals ==
  ASSUME NEW h \in Memory, NEW s, Within(h, s), NEW queue \in Seq(Entry),
         Len(queue) = s.len, \A i \in 1 .. s.len : h[s.arr][i] = queue[i]
  PROVE  View(h, s) = queue
<1>1. /\ View(h, s) \in Seq(Entry) /\ Len(View(h, s)) = s.len
      /\ \A i \in 1 .. s.len : View(h, s)[i] = h[s.arr][i]
  BY ViewIs
<1>2. QED
  BY <1>1, SeqEqual

(* It does not change with the rest of the memory. *)
LEMMA ViewKept ==
  ASSUME NEW h \in Memory, NEW g \in Memory, NEW s, Within(h, s),
         s.arr # None => g[s.arr] = h[s.arr]
  PROVE  Within(g, s) /\ View(g, s) = View(h, s)
BY DEF Within, View

LEMMA QueueEntries == Seq(Tracks) \subseteq Seq(Entry)
BY SeqMonotonic DEF Entry

-----------------------------------------------------------------------------
(* The memory written by a step *)

LEMMA WriteKeeps ==
  ASSUME NEW h \in Memory, Write(h)
  PROVE  heap' \in Memory /\ \A a \in Arrays : a \in Used' => heap'[a] = h[a]
<1>1. <<>> \in Seq(Entry)
  BY EmptySeq
<1>2. QED
  BY <1>1 DEF Write, Memory

LEMMA PaddedIs ==
  ASSUME NEW queue \in Seq(Tracks), NEW cap \in Nat, Len(queue) <= cap
  PROVE  /\ Padded(queue, cap) \in Seq(Entry) /\ Len(Padded(queue, cap)) = cap
         /\ \A i \in 1 .. Len(queue) : Padded(queue, cap)[i] = queue[i]
<1>1. Len(queue) \in Nat /\ \A i \in 1 .. Len(queue) : queue[i] \in Tracks
  BY LenProperties, ElementOfSeq
<1>2. Padded(queue, cap) \in [1 .. cap -> Entry]
  BY <1>1 DEF Padded, Entry
<1>3. Padded(queue, cap) \in Seq(Entry) /\ Len(Padded(queue, cap)) = cap
  BY <1>2
<1>4. QED
  BY <1>1, <1>3 DEF Padded

LEMMA OverwrittenIs ==
  ASSUME NEW mem \in Seq(Entry), NEW items \in Seq(Tracks), NEW n \in Nat
  PROVE  LET new == Overwritten(mem, n, items)
         IN /\ new \in Seq(Entry) /\ Len(new) = Len(mem)
            /\ \A i \in 1 .. Len(mem) :
                 new[i] = IF i \in n + 1 .. n + Len(items) THEN items[i - n] ELSE mem[i]
<1>1. /\ Len(mem) \in Nat /\ DOMAIN mem = 1 .. Len(mem)
      /\ \A i \in 1 .. Len(mem) : mem[i] \in Entry
  BY LenProperties, ElementOfSeq
<1>2. Len(items) \in Nat /\ \A i \in 1 .. Len(items) : items[i] \in Entry
  BY LenProperties, ElementOfSeq DEF Entry
<1> DEFINE new == Overwritten(mem, n, items)
<1>3. \A i \in n + 1 .. n + Len(items) : i - n \in 1 .. Len(items)
  BY <1>2
<1>4. new \in [1 .. Len(mem) -> Entry]
  BY <1>1, <1>2, <1>3 DEF Overwritten
<1>5. new \in Seq(Entry) /\ Len(new) = Len(mem)
  BY <1>1, <1>4
<1>6. QED
  BY <1>1, <1>5 DEF Overwritten

LEMMA ShiftedIs ==
  ASSUME NEW mem \in Seq(Entry), NEW i \in Nat, NEW n \in Nat, n <= Len(mem)
  PROVE  LET new == Shifted(mem, i, n)
         IN /\ new \in Seq(Entry) /\ Len(new) = Len(mem)
            /\ \A j \in 1 .. Len(mem) :
                 new[j] = IF j \in i + 1 .. n - 1 THEN mem[j + 1] ELSE mem[j]
<1>1. /\ Len(mem) \in Nat /\ DOMAIN mem = 1 .. Len(mem)
      /\ \A j \in 1 .. Len(mem) : mem[j] \in Entry
  BY LenProperties, ElementOfSeq
<1> DEFINE new == Shifted(mem, i, n)
<1>2. \A j \in i + 1 .. n - 1 : j + 1 \in 1 .. Len(mem)
  BY <1>1
<1>3. new \in [1 .. Len(mem) -> Entry]
  BY <1>1, <1>2 DEF Shifted
<1>4. new \in Seq(Entry) /\ Len(new) = Len(mem)
  BY <1>1, <1>3
<1>5. QED
  BY <1>1, <1>4 DEF Shifted

(* Two sequences, one after the other. *)
LEMMA ConcatIs ==
  ASSUME NEW s \in Seq(Tracks), NEW t \in Seq(Tracks)
  PROVE  SubSeq(s \o t, Len(s) + 1, Len(s \o t)) = t
<1> DEFINE st == s \o t
           m == Len(s)
           n == Len(t)
           rest == SubSeq(st, m + 1, m + n)
<1>1. /\ st \in Seq(Tracks) /\ Len(st) = m + n /\ m \in Nat /\ n \in Nat
      /\ \A i \in 1 .. m + n : st[i] = IF i <= m THEN s[i] ELSE t[i - m]
  BY ConcatProperties, LenProperties
<1> HIDE DEF st, m, n
<1>2. \A i \in m + 1 .. m + n : st[i] \in Tracks
  <2>1. SUFFICES ASSUME NEW i \in m + 1 .. m + n PROVE st[i] \in Tracks
    OBVIOUS
  <2>2. i \in 1 .. Len(st)
    BY <1>1
  <2>3. QED
    BY <1>1, <2>2, ElementOfSeq
<1>3. /\ rest \in Seq(Tracks)
      /\ Len(rest) = IF m + 1 <= m + n THEN (m + n) - (m + 1) + 1 ELSE 0
      /\ \A i \in 1 .. (m + n) - (m + 1) + 1 : rest[i] = st[(m + 1) + i - 1]
  BY <1>1, <1>2, SubSeqProperties
<1>4. (m + n) - (m + 1) + 1 = n /\ \A i \in 1 .. n : (m + 1) + i - 1 = m + i
  BY <1>1
<1>5. Len(rest) = n
  BY <1>1, <1>3, <1>4
<1> HIDE DEF rest
<1>6. \A i \in 1 .. n : rest[i] = t[i]
  BY <1>1, <1>3, <1>4
<1>7. rest = t
  BY <1>3, <1>5, <1>6, SeqEqual DEF n
<1>8. QED
  BY <1>1, <1>7 DEF rest, st, m

LEMMA RemoveAtIs ==
  ASSUME NEW s \in Seq(Tracks), NEW i \in 0 .. Len(s) - 1
  PROVE  LET t == RemoveAt(s, i + 1)
         IN /\ t \in Seq(Tracks) /\ Len(t) = Len(s) - 1
            /\ \A j \in 1 .. Len(s) - 1 : t[j] = IF j \in i + 1 .. Len(s) - 1 THEN s[j + 1] ELSE s[j]
<1> DEFINE n == Len(s)
           u == SubSeq(s, 1, i)
           v == SubSeq(s, i + 2, n)
           t == u \o v
<1>1. n \in Nat /\ i \in Nat /\ i < n /\ \A j \in 1 .. n : s[j] \in Tracks
  BY LenProperties, ElementOfSeq
<1>2. (i + 1) - 1 = i /\ (i + 1) + 1 = i + 2
  BY <1>1
<1>3. RemoveAt(s, i + 1) = t
  BY <1>2 DEF RemoveAt
<1> HIDE DEF n
<1>4. u \in Seq(Tracks) /\ Len(u) = i /\ \A j \in 1 .. i : u[j] = s[j]
  <2>1. \A j \in 1 .. i : s[j] \in Tracks
    BY <1>1
  <2>2. /\ u \in Seq(Tracks)
        /\ Len(u) = IF 1 <= i THEN i - 1 + 1 ELSE 0
        /\ \A j \in 1 .. i - 1 + 1 : u[j] = s[1 + j - 1]
    BY <1>1, <2>1, SubSeqProperties
  <2>3. i - 1 + 1 = i /\ \A j \in 1 .. i : 1 + j - 1 = j
    BY <1>1
  <2>4. QED
    BY <1>1, <2>2, <2>3
<1>5. /\ v \in Seq(Tracks) /\ Len(v) = n - 1 - i
      /\ \A j \in 1 .. n - 1 - i : v[j] = s[j + i + 1]
  <2>1. \A j \in i + 2 .. n : s[j] \in Tracks
    BY <1>1
  <2>2. /\ v \in Seq(Tracks)
        /\ Len(v) = IF i + 2 <= n THEN n - (i + 2) + 1 ELSE 0
        /\ \A j \in 1 .. n - (i + 2) + 1 : v[j] = s[(i + 2) + j - 1]
    <3> DEFINE k == i + 2
    <3>1. k \in Int /\ n \in Int /\ \A j \in k .. n : s[j] \in Tracks
      BY <1>1, <2>1
    <3> HIDE DEF k
    <3>2. /\ SubSeq(s, k, n) \in Seq(Tracks)
          /\ Len(SubSeq(s, k, n)) = IF k <= n THEN n - k + 1 ELSE 0
          /\ \A j \in 1 .. n - k + 1 : SubSeq(s, k, n)[j] = s[k + j - 1]
      BY <3>1, SubSeqProperties
    <3>3. QED
      BY <3>2 DEF k
  <2>3. n - (i + 2) + 1 = n - 1 - i /\ \A j \in 1 .. n : (i + 2) + j - 1 = j + i + 1
    BY <1>1
  <2>4. QED
    BY <1>1, <2>2, <2>3
<1> HIDE DEF u, v
<1>6. /\ t \in Seq(Tracks) /\ Len(t) = n - 1
      /\ \A j \in 1 .. n - 1 : t[j] = IF j <= i THEN u[j] ELSE v[j - i]
  <2>1. /\ t \in Seq(Tracks) /\ Len(t) = i + (n - 1 - i)
        /\ \A j \in 1 .. i + (n - 1 - i) : t[j] = IF j <= i THEN u[j] ELSE v[j - i]
    <3>1. u \in Seq(Tracks) /\ v \in Seq(Tracks)
      BY <1>4, <1>5
    <3>2. /\ u \o v \in Seq(Tracks) /\ Len(u \o v) = Len(u) + Len(v)
          /\ \A j \in 1 .. Len(u) + Len(v) :
               (u \o v)[j] = IF j <= Len(u) THEN u[j] ELSE v[j - Len(u)]
      BY <3>1, ConcatProperties, Zenon
    <3>3. QED
      BY <1>4, <1>5, <3>2
  <2>2. i + (n - 1 - i) = n - 1
    BY <1>1
  <2>3. QED
    BY <2>1, <2>2
<1> HIDE DEF t
<1>7. \A j \in 1 .. n - 1 : t[j] = IF j \in i + 1 .. n - 1 THEN s[j + 1] ELSE s[j]
  <2>1. SUFFICES ASSUME NEW j \in 1 .. n - 1
                 PROVE t[j] = IF j \in i + 1 .. n - 1 THEN s[j + 1] ELSE s[j]
    OBVIOUS
  <2>2. CASE j <= i
    BY <1>1, <1>4, <1>6, <2>2
  <2>3. CASE ~(j <= i)
    <3>1. j - i \in 1 .. n - 1 - i /\ (j - i) + i + 1 = j + 1 /\ j \in i + 1 .. n - 1
      BY <1>1, <2>3
    <3>2. QED
      BY <1>5, <1>6, <2>3, <3>1
  <2>4. QED
    BY <2>2, <2>3
<1>8. QED
  BY <1>3, <1>6, <1>7 DEF n

-----------------------------------------------------------------------------
(* The steps: what they keep, and what they leave of the snapshots.  *)

(* A step that refers to no new array and writes none that is referred to. *)
LEMMA OthersKept ==
  ASSUME MInv, NEW h \in Memory, Write(h), UNCHANGED held,
         NEW x \in Readers, held[x].s.arr # None => h[held[x].s.arr] = heap[held[x].s.arr]
  PROVE  Within(heap', held[x].s) /\ View(heap', held[x].s) = View(heap, held[x].s)
<1> DEFINE s == held[x].s
<1>1. Within(heap, s) /\ heap \in Memory
  BY DEF MInv, MemTypeOK, Memory, Entry
<1>2. heap' \in Memory /\ \A a \in Arrays : a \in Used' => heap'[a] = h[a]
  BY WriteKeeps
<1>3. s.arr # None => s.arr \in Arrays /\ s.arr \in Used'
  BY <1>1 DEF Within, Slice, Used
<1>4. s.arr # None => heap'[s.arr] = heap[s.arr]
  BY <1>2, <1>3
<1> HIDE DEF s
<1>5. Within(heap', s) /\ View(heap', s) = View(heap, s)
  BY <1>1, <1>2, <1>4, ViewKept
<1>6. QED
  BY <1>5 DEF s

LEMMA AllocatedKeeps ==
  ASSUME MInv, NEW queue \in Seq(Tracks), Allocated(queue), room'.queue = queue
  PROVE  MInv' /\ \A x \in Readers : View(heap', held[x].s) = View(heap, held[x].s)
<1>1. /\ heap \in Memory /\ held' = held
      /\ held \in [Readers -> [reading : BOOLEAN, s : Slice]]
  BY DEF Allocated, MInv, MemTypeOK, Memory, Entry, Slice
<1>2. CASE queue = <<>>
  <2>1. live' = Empty /\ Write(heap)
    BY <1>2 DEF Allocated
  <2>2. heap' \in Memory
    BY <1>1, <2>1, WriteKeeps
  <2>3. Within(heap', live') /\ View(heap', live') = <<>>
    BY <2>1 DEF Empty, Within, Slice, View
  <2>4. \A x \in Readers : Within(heap', held[x].s) /\ View(heap', held[x].s) = View(heap, held[x].s)
    BY <1>1, <2>1, OthersKept
  <2>5. QED
    BY <1>1, <1>2, <2>2, <2>3, <2>4 DEF MInv, MemTypeOK, Memory, Entry, Slice, Within, QueueIsStored
<1>3. CASE queue # <<>>
  <2>1. PICK a \in Arrays \ Used, cap \in Len(queue) .. MaxQueue :
          /\ live' = [arr |-> a, len |-> Len(queue)]
          /\ Write([heap EXCEPT ![a] = Padded(queue, cap)])
    BY <1>3 DEF Allocated
  <2> DEFINE h == [heap EXCEPT ![a] = Padded(queue, cap)]
  <2>2. Len(queue) \in Nat /\ cap \in Nat /\ Len(queue) <= cap
    BY LenProperties
  <2>3. /\ Padded(queue, cap) \in Seq(Entry) /\ Len(Padded(queue, cap)) = cap
        /\ \A i \in 1 .. Len(queue) : Padded(queue, cap)[i] = queue[i]
    BY <2>2, PaddedIs
  <2>4. h \in Memory /\ h[a] = Padded(queue, cap) /\ \A m \in Arrays \ {a} : h[m] = heap[m]
    BY <1>1, <2>3 DEF Memory
  <2> HIDE DEF h
  <2>5. Write(h)
    BY <2>1 DEF h
  <2>6. heap' \in Memory /\ heap'[a] = Padded(queue, cap)
    <3>1. a \in Used'
      BY <2>1 DEF Used
    <3>2. QED
      BY <2>4, <2>5, <3>1, WriteKeeps
  <2>7. Within(heap', live') /\ live'.arr = a /\ live'.len = Len(queue)
    BY <2>1, <2>2, <2>3, <2>6, SnapshotAssumption DEF Within, Slice
  <2>8. View(heap', live') = queue
    <3>1. queue \in Seq(Entry)
      BY QueueEntries
    <3>2. QED
      BY <2>2, <2>3, <2>6, <2>7, <3>1, ViewEquals
  <2>9. \A x \in Readers : Within(heap', held[x].s) /\ View(heap', held[x].s) = View(heap, held[x].s)
    <3>1. SUFFICES ASSUME NEW x \in Readers
                   PROVE Within(heap', held[x].s) /\ View(heap', held[x].s) = View(heap, held[x].s)
      OBVIOUS
    <3>2. held[x].s.arr # a /\ (held[x].s.arr # None => held[x].s.arr \in Arrays)
      BY <1>1, <2>1 DEF Used, Slice
    <3>3. QED
      BY <1>1, <2>4, <2>5, <3>2, OthersKept
  <2>10. QED
    BY <1>1, <2>6, <2>7, <2>8, <2>9 DEF MInv, MemTypeOK, Memory, Entry, Slice, Within, QueueIsStored
<1>4. QED
  BY <1>2, <1>3

(* Writing the live array: a slice of another array is left alone; one of *)
(* this array stays within it.                                            *)
LEMMA LiveWritten ==
  ASSUME MInv, live.arr # None, NEW mem \in Seq(Entry), Len(mem) = Len(heap[live.arr]),
         NEW n \in Nat, n <= Len(mem), live' = [live EXCEPT !.len = n], UNCHANGED held,
         Write([heap EXCEPT ![live.arr] = mem]),
         room'.queue \in Seq(Tracks), Len(room'.queue) = n,
         \A i \in 1 .. n : mem[i] = room'.queue[i]
  PROVE  /\ MInv' /\ heap'[live.arr] = mem
         /\ \A x \in Readers : held[x].s.arr # live.arr
              => View(heap', held[x].s) = View(heap, held[x].s)
<1> DEFINE h == [heap EXCEPT ![live.arr] = mem]
<1>1. /\ heap \in Memory /\ live \in Slice /\ live.arr \in Arrays /\ live.len <= Len(heap[live.arr])
      /\ held \in [Readers -> [reading : BOOLEAN, s : Slice]]
  BY DEF MInv, MemTypeOK, Memory, Entry, Slice, Within
<1>2. h \in Memory /\ h[live.arr] = mem /\ \A a \in Arrays \ {live.arr} : h[a] = heap[a]
  BY <1>1 DEF Memory
<1> HIDE DEF h
<1>3. Write(h)
  BY DEF h
<1>4. live'.arr = live.arr /\ live'.len = n /\ live' \in Slice
  BY <1>1 DEF Slice
<1>5. heap' \in Memory /\ heap'[live.arr] = mem
  <2>1. live.arr \in Used'
    BY <1>4 DEF Used
  <2>2. QED
    BY <1>1, <1>2, <1>3, <2>1, WriteKeeps
<1>6. Within(heap', live')
  BY <1>4, <1>5 DEF Within
<1>7. View(heap', live') = room'.queue
  <2>1. room'.queue \in Seq(Entry) /\ Len(room'.queue) = live'.len
    BY <1>4, QueueEntries
  <2>2. \A i \in 1 .. live'.len : heap'[live'.arr][i] = room'.queue[i]
    BY <1>4, <1>5
  <2>3. QED
    BY <1>5, <1>6, <2>1, <2>2, ViewEquals
<1>8. \A x \in Readers :
        /\ Within(heap', held[x].s)
        /\ held[x].s.arr # live.arr => View(heap', held[x].s) = View(heap, held[x].s)
  <2>1. SUFFICES ASSUME NEW x \in Readers
                 PROVE /\ Within(heap', held[x].s)
                       /\ held[x].s.arr # live.arr => View(heap', held[x].s) = View(heap, held[x].s)
    OBVIOUS
  <2>2. Within(heap, held[x].s) /\ held[x].s \in Slice
    BY <1>1 DEF MInv
  <2>3. CASE held[x].s.arr = live.arr
    BY <1>5, <2>2, <2>3 DEF Within
  <2>4. CASE held[x].s.arr # live.arr
    <3>1. held[x].s.arr # None => h[held[x].s.arr] = heap[held[x].s.arr]
      BY <1>2, <2>2, <2>4 DEF Slice
    <3>2. QED
      BY <1>2, <1>3, <3>1, OthersKept
  <2>5. QED
    BY <2>3, <2>4
<1>9. QED
  BY <1>1, <1>4, <1>5, <1>6, <1>7, <1>8
  DEF MInv, MemTypeOK, Memory, Entry, Slice, QueueIsStored

(* What a reader may find changed. *)
KeptFor(x) ==
  View(heap', held[x].s) # View(heap, held[x].s)
    => /\ held[x].s.arr = live.arr
       /\ live.len < held[x].s.len \/ live'.len < live.len

LEMMA AppendedKeeps ==
  ASSUME MInv, NEW items \in Seq(Tracks), Appended(items), room'.queue = room.queue \o items
  PROVE  MInv' /\ \A x \in Readers : KeptFor(x)
<1>1. /\ heap \in Memory /\ live \in Slice /\ Within(heap, live)
      /\ \A x \in Readers : Within(heap, held[x].s)
      /\ room.queue \in Seq(Tracks) /\ View(heap, live) = room.queue
  BY DEF MInv, MemTypeOK, Memory, Entry, Slice, QueueIsStored
<1>2. /\ Len(room.queue) = live.len /\ live.len \in Nat /\ Len(items) \in Nat
      /\ \A i \in 1 .. live.len : room.queue[i] = heap[live.arr][i]
  BY <1>1, ViewIs, LenProperties DEF Slice
<1>3. /\ room'.queue \in Seq(Tracks) /\ Len(room'.queue) = live.len + Len(items)
      /\ \A i \in 1 .. live.len + Len(items) :
           room'.queue[i] = IF i <= live.len THEN room.queue[i] ELSE items[i - live.len]
  <2>1. /\ room.queue \o items \in Seq(Tracks)
        /\ Len(room.queue \o items) = Len(room.queue) + Len(items)
        /\ \A i \in 1 .. Len(room.queue) + Len(items) :
             (room.queue \o items)[i] =
               IF i <= Len(room.queue) THEN room.queue[i] ELSE items[i - Len(room.queue)]
    BY <1>1, ConcatProperties, Zenon
  <2>2. QED
    BY <1>2, <2>1
<1>4. CASE Fits(live.len, items)
  <2> DEFINE old == heap[live.arr]
             mem == Overwritten(old, live.len, items)
             n == live.len + Len(items)
  <2>1. /\ live.arr \in Arrays /\ live.arr # None
        /\ old \in Seq(Entry) /\ Len(old) \in Nat /\ n \in Nat /\ n <= Len(old)
    BY <1>1, <1>2, <1>4, LenProperties DEF Fits, Slice, Memory
  <2>2. /\ mem \in Seq(Entry) /\ Len(mem) = Len(old)
        /\ \A i \in 1 .. Len(old) :
             mem[i] = IF i \in live.len + 1 .. live.len + Len(items)
                        THEN items[i - live.len] ELSE old[i]
    BY <1>2, <2>1, OverwrittenIs
  <2>3. /\ UNCHANGED held /\ live' = [live EXCEPT !.len = n]
        /\ Write([heap EXCEPT ![live.arr] = mem])
    BY <1>1, <1>4, <2>1 DEF Appended, InPlace, Memory
  <2> HIDE DEF mem
  <2>4. \A i \in 1 .. n : mem[i] = room'.queue[i]
    BY <1>2, <1>3, <2>1, <2>2
  <2>5. /\ MInv' /\ heap'[live.arr] = mem
        /\ \A x \in Readers : held[x].s.arr # live.arr
             => View(heap', held[x].s) = View(heap, held[x].s)
    <3>1. Len(mem) = Len(heap[live.arr]) /\ n <= Len(mem) /\ Len(room'.queue) = n
      BY <1>3, <2>1, <2>2
    <3> HIDE DEF n, old
    <3>2. QED
      BY <1>3, <2>1, <2>2, <2>3, <2>4, <3>1, LiveWritten
  <2>6. ASSUME NEW x \in Readers, held[x].s.arr = live.arr, ~(live.len < held[x].s.len)
        PROVE  View(heap', held[x].s) = View(heap, held[x].s)
    <3> DEFINE s == held[x].s
    <3>1. /\ Within(heap, s) /\ s.len \in Nat /\ s.len <= live.len /\ s.arr = live.arr
      BY <1>1, <1>2, <2>6 DEF Within, Slice
    <3>2. heap' \in Memory /\ Within(heap', s)
      BY <2>3, <2>5 DEF MInv, MemTypeOK, Memory, Entry
    <3> HIDE DEF s
    <3>3. /\ View(heap, s) \in Seq(Entry) /\ Len(View(heap, s)) = s.len
          /\ \A i \in 1 .. s.len : View(heap, s)[i] = heap[s.arr][i]
      BY <1>1, <3>1, ViewIs
    <3>4. \A i \in 1 .. s.len : heap'[s.arr][i] = View(heap, s)[i]
      <4>1. SUFFICES ASSUME NEW i \in 1 .. s.len PROVE heap'[s.arr][i] = View(heap, s)[i]
        OBVIOUS
      <4>2. i \in 1 .. Len(old) /\ i \notin live.len + 1 .. live.len + Len(items)
        BY <1>2, <2>1, <3>1
      <4>3. mem[i] = old[i]
        BY <2>2, <4>2
      <4>4. QED
        BY <2>5, <3>1, <3>3, <4>3
    <3>5. View(heap', s) = View(heap, s)
      BY <3>2, <3>3, <3>4, ViewEquals
    <3>6. QED
      BY <3>5 DEF s
  <2>7. QED
    BY <2>5, <2>6 DEF KeptFor
<1>5. CASE ~Fits(live.len, items)
  <2>1. Allocated(room'.queue)
    BY <1>1, <1>5 DEF Appended
  <2>2. QED
    BY <1>3, <2>1, AllocatedKeeps DEF KeptFor
<1>6. QED
  BY <1>4, <1>5

LEMMA RemovedKeeps ==
  ASSUME MInv, NEW i \in Int, InQueue(i), Removed(i), room'.queue = RemoveAt(room.queue, i + 1)
  PROVE  MInv' /\ \A x \in Readers : KeptFor(x)
<1>1. /\ heap \in Memory /\ live \in Slice /\ Within(heap, live)
      /\ room.queue \in Seq(Tracks) /\ View(heap, live) = room.queue
  BY DEF MInv, MemTypeOK, Memory, Entry, Slice, QueueIsStored
<1>2. /\ Len(room.queue) = live.len /\ live.len \in Nat
      /\ \A j \in 1 .. live.len : room.queue[j] = heap[live.arr][j]
  BY <1>1, ViewIs DEF Slice
<1>3. i \in 0 .. live.len - 1 /\ i \in Nat /\ live.len - 1 \in Nat
  BY <1>2 DEF InQueue
<1>4. live.arr # None /\ live.arr \in Arrays /\ live.len <= Len(heap[live.arr])
  BY <1>1, <1>3 DEF Within, Slice
<1> DEFINE old == heap[live.arr]
           mem == Shifted(old, i, live.len)
           n == live.len - 1
<1>5. old \in Seq(Entry) /\ Len(old) \in Nat
  BY <1>1, <1>4, LenProperties DEF Memory
<1>6. /\ mem \in Seq(Entry) /\ Len(mem) = Len(old)
      /\ \A j \in 1 .. Len(old) :
           mem[j] = IF j \in i + 1 .. live.len - 1 THEN old[j + 1] ELSE old[j]
  BY <1>2, <1>3, <1>4, <1>5, ShiftedIs
<1>7. /\ UNCHANGED held /\ live' = [live EXCEPT !.len = n]
      /\ Write([heap EXCEPT ![live.arr] = mem])
  BY <1>1, <1>4 DEF Removed, Memory, Slice
<1>8. /\ room'.queue \in Seq(Tracks) /\ Len(room'.queue) = n
      /\ \A j \in 1 .. n : room'.queue[j] =
           IF j \in i + 1 .. n THEN room.queue[j + 1] ELSE room.queue[j]
  <2> DEFINE q == room.queue
             p == RemoveAt(q, i + 1)
  <2>1. q \in Seq(Tracks) /\ i \in 0 .. Len(q) - 1
    BY <1>1, <1>2, <1>3
  <2> HIDE DEF q
  <2>2. /\ p \in Seq(Tracks) /\ Len(p) = Len(q) - 1
        /\ \A j \in 1 .. Len(q) - 1 : p[j] = IF j \in i + 1 .. Len(q) - 1 THEN q[j + 1] ELSE q[j]
    BY <2>1, RemoveAtIs
  <2>3. room'.queue = p
    BY DEF q
  <2> HIDE DEF p
  <2>4. Len(q) - 1 = n
    BY <1>2 DEF q
  <2>5. QED
    BY <2>2, <2>3, <2>4 DEF q
<1> HIDE DEF mem
<1>9. \A j \in 1 .. n : mem[j] = room'.queue[j]
  <2>1. SUFFICES ASSUME NEW j \in 1 .. n PROVE mem[j] = room'.queue[j]
    OBVIOUS
  <2>2. j \in 1 .. live.len /\ j + 1 \in 1 .. live.len /\ j \in 1 .. Len(old)
    BY <1>2, <1>3, <1>4, <1>5
  <2>3. QED
    BY <1>2, <1>6, <1>8, <2>2
<1>10. MInv' /\ \A x \in Readers : held[x].s.arr # live.arr
         => View(heap', held[x].s) = View(heap, held[x].s)
  <2>1. Len(mem) = Len(heap[live.arr]) /\ n \in Nat /\ n <= Len(mem)
    BY <1>2, <1>3, <1>4, <1>5, <1>6
  <2> HIDE DEF n, old
  <2>2. QED
    BY <1>4, <1>6, <1>7, <1>8, <1>9, <2>1, LiveWritten
<1>11. live'.len < live.len
  BY <1>1, <1>2, <1>7 DEF Slice
<1>12. QED
  BY <1>10, <1>11 DEF KeptFor

LEMMA StillKeeps ==
  ASSUME MInv, UNCHANGED memVars, room'.queue = room.queue
  PROVE  MInv' /\ \A x \in Readers : KeptFor(x)
BY DEF memVars, MInv, MemTypeOK, QueueIsStored, Within, View, KeptFor

-----------------------------------------------------------------------------
(* What the commands of RoomPlayback do to the queue *)

LEMMA TouchedQueue ==
  ASSUME PInv, NEW q \in Reqs, arrived[q] # Never
  PROVE  Touched(q) \in RoomType /\ Touched(q).queue = room.queue
<1>1. arrived[q] \in Nat /\ arrived[q] <= now /\ now \in Nat /\ Good(room, now)
  BY DEF PInv, TypeOK, AnchorNotFuture
<1>2. room \in RoomType
  BY <1>1 DEF Good
<1>3. QED
  BY <1>1, <1>2, TouchKeeps DEF Touched

LEMMA OthersKeepQueue ==
  ASSUME PInv, NEW q \in Reqs, OtherCommand(q)
  PROVE  room'.queue = room.queue
<1> DEFINE r == Touched(q)
<1>1. arrived[q] # Never
  BY DEF OtherCommand, Refuse, KickOrClose, Play, Pause, Toggle, Seek, GoNext, GoPrev,
         ChooseIndex, Apply, Finish
<1>2. r \in RoomType /\ r.queue = room.queue
  BY <1>1, TouchedQueue
<1> HIDE DEF r
<1>3. CASE Refuse(q) \/ KickOrClose(q)
  BY <1>2, <1>3 DEF Refuse, KickOrClose, Apply, r
<1>4. CASE Play(q) \/ Pause(q) \/ Toggle(q)
  <2>1. PICK p, b : room' = [Anchor(r, p, arrived[q]) EXCEPT !.playing = b]
    BY <1>4 DEF Play, Pause, Toggle, Apply, Freeze, r
  <2>2. QED
    BY <1>2, <2>1 DEF Anchor, RoomType
<1>5. CASE Seek(q)
  <2>1. PICK p : room' \in {Anchor(r, p, arrived[q]), r}
    BY <1>5 DEF Seek, Apply, r
  <2>2. QED
    BY <1>2, <2>1 DEF Anchor, RoomType
<1>6. CASE GoNext(q) \/ GoPrev(q)
  <2>1. PICK i : room' \in {Anchor([r EXCEPT !.index = i], 0, arrived[q]), r}
    BY <1>6 DEF GoNext, GoPrev, NextTrack, Apply, r
  <2>2. QED
    BY <1>2, <2>1 DEF Anchor, RoomType
<1>7. CASE ChooseIndex(q)
  <2>1. PICK i : room' \in {Anchor([r EXCEPT !.index = i], 0, arrived[q]), r}
    BY <1>7 DEF ChooseIndex, SetIndex, Apply, r
  <2>2. QED
    BY <1>2, <2>1 DEF Anchor, RoomType
<1>8. QED
  BY <1>3, <1>4, <1>5, <1>6, <1>7 DEF OtherCommand

LEMMA AddedQueue ==
  ASSUME PInv, NEW q \in Reqs, QueueAdd(q)
  PROVE  \E items \in Seq(Tracks) :
           /\ room'.queue = room.queue \o items
           /\ SubSeq(room'.queue, Len(room.queue) + 1, Len(room'.queue)) = items
<1>1. PICK items \in Queues : Apply(q, [Touched(q) EXCEPT !.queue = @ \o items])
  BY DEF QueueAdd
<1>2. Touched(q) \in RoomType /\ Touched(q).queue = room.queue
  BY <1>1, TouchedQueue DEF Apply, Finish
<1>3. room'.queue = room.queue \o items
  BY <1>1, <1>2 DEF Apply, RoomType
<1>4. items \in Seq(Tracks) /\ room.queue \in Seq(Tracks)
  BY <1>2, QueuesType DEF RoomType
<1>5. QED
  BY <1>3, <1>4, ConcatIs

LEMMA ShortenedQueue ==
  ASSUME PInv, NEW q \in Reqs, NEW i \in Indexes, RemoveAtIndex(q, i)
  PROVE  room'.queue = IF InQueue(i) THEN RemoveAt(room.queue, i + 1) ELSE room.queue
<1> DEFINE r == Touched(q)
<1>1. arrived[q] # Never /\ room' = QueueRemove(r, i, arrived[q])
  BY DEF RemoveAtIndex, Apply, Finish
<1>2. r \in RoomType /\ r.queue = room.queue
  BY <1>1, TouchedQueue
<1> HIDE DEF r
<1>3. CASE ~InQueue(i)
  BY <1>1, <1>2, <1>3 DEF QueueRemove, InQueue
<1>4. CASE InQueue(i)
  <2>1. PICK k, p : room' = Anchor([r EXCEPT !.queue = RemoveAt(room.queue, i + 1), !.index = k],
                                   p, arrived[q])
    BY <1>1, <1>2, <1>4 DEF QueueRemove, InQueue
  <2> DEFINE u == RemoveAt(room.queue, i + 1)
  <2> HIDE DEF u
  <2>2. room' = Anchor([r EXCEPT !.queue = u, !.index = k], p, arrived[q])
    BY <2>1 DEF u
  <2>3. room'.queue = u
    BY <1>2, <2>2 DEF Anchor, RoomType
  <2>4. QED
    BY <1>4, <2>3 DEF u
<1>5. QED
  BY <1>3, <1>4

(* Every step of the room is one of RoomPlayback. *)
LEMMA StepIsPlayback == SnapNext => [Next]_vars
BY DEF SnapNext, Next, Command, SetQueueCommand, QueueAddCommand, QueueRemoveCommand,
       OtherCommand, RemoveFromQueue, Take, Encoded

LEMMA ReadersKeep ==
  ASSUME PInv, MInv, NEW y \in Readers, Take(y) \/ Encoded(y)
  PROVE  /\ MInv'
         /\ \A x \in Readers : held[x].reading /\ held'[x].reading => KeptFor(x)
<1>1. /\ heap \in Memory /\ Within(heap, live) /\ live \in Slice
      /\ held \in [Readers -> [reading : BOOLEAN, s : Slice]]
      /\ \A x \in Readers : Within(heap, held[x].s)
  BY DEF MInv, MemTypeOK, Memory, Entry, Slice
<1>2. CASE Take(y)
  <2>1. /\ heap' = heap /\ live' = live /\ room' = room
        /\ held' = [held EXCEPT ![y] = [reading |-> TRUE, s |-> live]]
    BY <1>2 DEF Take, vars
  <2>2. /\ held' \in [Readers -> [reading : BOOLEAN, s : Slice]]
        /\ \A x \in Readers : held'[x].s \in {held[x].s, live}
    BY <1>1, <2>1
  <2>3. \A x \in Readers : Within(heap', held'[x].s)
    BY <1>1, <2>1, <2>2
  <2>4. QED
    BY <2>1, <2>2, <2>3
    DEF MInv, MemTypeOK, Memory, Entry, Slice, Within, View, QueueIsStored, KeptFor
<1>3. CASE Encoded(y)
  <2>1. /\ live' = live /\ room' = room /\ Write(heap)
        /\ held' = [held EXCEPT ![y] = Idle]
    BY <1>3 DEF Encoded, vars
  <2>2. heap' \in Memory /\ \A a \in Arrays : a \in Used' => heap'[a] = heap[a]
    BY <1>1, <2>1, WriteKeeps
  <2>3. /\ held' \in [Readers -> [reading : BOOLEAN, s : Slice]]
        /\ \A x \in Readers : IF x = y THEN held'[x] = Idle ELSE held'[x] = held[x]
    BY <1>1, <2>1 DEF Idle, Empty, Slice
  <2>4. Within(heap', live) /\ View(heap', live) = View(heap, live)
    <3>1. live.arr # None => heap'[live.arr] = heap[live.arr]
      BY <1>1, <2>1, <2>2 DEF Used, Slice
    <3>2. QED
      BY <1>1, <2>2, <3>1, ViewKept
  <2>5. ASSUME NEW x \in Readers, x # y
        PROVE  Within(heap', held[x].s) /\ View(heap', held[x].s) = View(heap, held[x].s)
    <3> DEFINE s == held[x].s
    <3>1. Within(heap, s) /\ s \in Slice
      BY <1>1
    <3>2. s.arr \in Used'
      BY <2>3, <2>5 DEF Used
    <3>3. s.arr # None => heap'[s.arr] = heap[s.arr]
      BY <2>2, <3>1, <3>2 DEF Slice
    <3> HIDE DEF s
    <3>4. Within(heap', s) /\ View(heap', s) = View(heap, s)
      BY <1>1, <2>2, <3>1, <3>3, ViewKept
    <3>5. QED
      BY <3>4 DEF s
  <2>6. Within(heap', Idle.s)
    BY DEF Within, Idle, Empty, Slice
  <2>7. \A x \in Readers : Within(heap', held'[x].s)
    BY <2>3, <2>5, <2>6
  <2>8. MInv'
    <3>1. View(heap', live') = room'.queue /\ Within(heap', live') /\ room'.queue \in Seq(Tracks)
      BY <2>1, <2>4 DEF MInv, QueueIsStored
    <3>2. MemTypeOK'
      BY <1>1, <2>1, <2>2, <2>3 DEF MemTypeOK, Memory, Entry, Slice
    <3>3. QED
      BY <2>7, <3>1, <3>2 DEF MInv, QueueIsStored
  <2>9. ~held'[y].reading
    BY <2>3 DEF Idle
  <2>10. QED
    BY <2>5, <2>8, <2>9 DEF KeptFor
<1>4. QED
  BY <1>2, <1>3

LEMMA SnapStep ==
  ASSUME PInv, PInv', MInv, SnapNext
  PROVE  /\ MInv'
         /\ \A x \in Readers : held[x].reading /\ held'[x].reading => KeptFor(x)
<1>1. CASE (Tick \/ MemberChange) /\ UNCHANGED memVars
  <2>1. room'.queue = room.queue
    <3>1. room \in RoomType /\ now \in Nat
      BY DEF PInv, TypeOK
    <3>2. room' = room \/ room' = Touch(room, now)
      BY <1>1 DEF Tick, MemberChange
    <3>3. QED
      BY <3>1, <3>2, TouchKeeps
  <2>2. QED
    BY <1>1, <2>1, StillKeeps
<1>2. ASSUME NEW q \in Reqs, Arrive(q) /\ UNCHANGED memVars
      PROVE  MInv' /\ \A x \in Readers : KeptFor(x)
  BY <1>2, StillKeeps DEF Arrive
<1>3. ASSUME NEW q \in Reqs, OtherCommand(q)
      PROVE  MInv' /\ \A x \in Readers : KeptFor(x)
  <2>1. room'.queue = room.queue /\ UNCHANGED memVars
    BY <1>3, OthersKeepQueue DEF OtherCommand
  <2>2. QED
    BY <2>1, StillKeeps
<1>4. ASSUME NEW q \in Reqs, SetQueueCommand(q)
      PROVE  MInv' /\ \A x \in Readers : KeptFor(x)
  <2>1. room'.queue \in Seq(Tracks) /\ Allocated(room'.queue)
    BY <1>4 DEF SetQueueCommand, Replaced, PInv, TypeOK, RoomType
  <2>2. QED
    BY <2>1, AllocatedKeeps DEF KeptFor
<1>5. ASSUME NEW q \in Reqs, QueueAddCommand(q)
      PROVE  MInv' /\ \A x \in Readers : KeptFor(x)
  <2>1. QueueAdd(q) /\ Appended(SubSeq(room'.queue, Len(room.queue) + 1, Len(room'.queue)))
    BY <1>5 DEF QueueAddCommand
  <2>2. PICK items \in Seq(Tracks) : room'.queue = room.queue \o items /\ Appended(items)
    BY <2>1, AddedQueue
  <2>3. QED
    BY <2>2, AppendedKeeps
<1>6. ASSUME NEW q \in Reqs, QueueRemoveCommand(q)
      PROVE  MInv' /\ \A x \in Readers : KeptFor(x)
  <2>1. PICK i \in Indexes : RemoveAtIndex(q, i) /\ IF InQueue(i) THEN Removed(i) ELSE UNCHANGED memVars
    BY <1>6 DEF QueueRemoveCommand
  <2>2. i \in Int /\ room'.queue = IF InQueue(i) THEN RemoveAt(room.queue, i + 1) ELSE room.queue
    BY <2>1, ShortenedQueue, PlaybackAssumption DEF Indexes
  <2>3. CASE InQueue(i)
    BY <2>1, <2>2, <2>3, RemovedKeeps
  <2>4. CASE ~InQueue(i)
    BY <2>1, <2>2, <2>4, StillKeeps
  <2>5. QED
    BY <2>3, <2>4
<1>7. ASSUME NEW y \in Readers, Take(y) \/ Encoded(y)
      PROVE  /\ MInv'
             /\ \A x \in Readers : held[x].reading /\ held'[x].reading => KeptFor(x)
  BY <1>7, ReadersKeep
<1>8. QED
  BY <1>1, <1>2, <1>3, <1>4, <1>5, <1>6, <1>7 DEF SnapNext

-----------------------------------------------------------------------------
(* What is played does not depend on the memory: RoomPlayback is implemented. *)
THEOREM PlaybackImplemented == SnapSpec => Spec
<1>1. SnapInit => Init
  BY DEF SnapInit
<1>2. [SnapNext]_snapVars => [Next]_vars
  BY StepIsPlayback DEF snapVars
<1>3. QED
  BY <1>1, <1>2, PTL DEF SnapSpec, Spec

LEMMA SnapInvariant == SnapSpec => [](PInv /\ MInv)
<1>1. SnapInit => MInv
  <2>1. <<>> \in Seq(Tracks) /\ <<>> \in Seq(Entry)
    BY EmptySeq
  <2>2. QED
    BY <2>1 DEF SnapInit, Init, EmptyRoom, MInv, MemTypeOK, Idle, Empty, Within, Slice, Entry,
                QueueIsStored, View
<1>2. PInv /\ PInv' /\ MInv /\ [SnapNext]_snapVars => MInv'
  <2>1. CASE UNCHANGED snapVars
    BY <2>1 DEF snapVars, vars, memVars, MInv, MemTypeOK, QueueIsStored, Within, View
  <2>2. QED
    BY <2>1, SnapStep
<1>3. QED
  BY <1>1, <1>2, PlaybackImplemented, PInvInductive, PTL DEF SnapSpec

(* The slice is the queue the room has, whatever arrays it went through. *)
THEOREM QueueAlwaysStored == SnapSpec => []QueueIsStored
<1>1. MInv => QueueIsStored
  BY DEF MInv
<1>2. QED
  BY <1>1, SnapInvariant, PTL

(* A snapshot changes under its reader only by a removal, or by additions *)
(* to a queue that has become shorter than the snapshot.                  *)
THEOREM SnapshotsKept == SnapSpec => SnapshotsAreKept
<1> DEFINE A == \A x \in Readers :
                  held[x].reading /\ held'[x].reading /\ View(heap', held[x].s) # View(heap, held[x].s)
                    => /\ held[x].s.arr = live.arr
                       /\ live.len < held[x].s.len \/ live'.len < live.len
<1>1. PInv /\ PInv' /\ MInv /\ [SnapNext]_snapVars => [A]_snapVars
  <2>1. PInv /\ PInv' /\ MInv /\ SnapNext => A
    BY SnapStep DEF KeptFor
  <2>2. QED
    BY <2>1
<1>2. QED
  BY <1>1, SnapInvariant, PTL DEF SnapSpec, SnapshotsAreKept
=============================================================================
