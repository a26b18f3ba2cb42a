--------------------------- MODULE RoomFeedProofs ---------------------------
(***************************************************************************)
(* What the promise of a room is worth to a listener: for any number of    *)
(* listeners, one that is in the room either has the last version or is    *)
(* still owed it.                                                          *)
(***************************************************************************)
EXTENDS RoomFeed, TLAPS

(* Nothing is owed that was not published, and, greeted or not, a listener *)
(* that is owed anything is owed the last version.                         *)
OwedUpToLast(f, n) ==
  /\ \A v \in f.owed : v <= n
  /\ f.st = "in" /\ f.owed # {} => n \in f.owed
  /\ f.st = "in" /\ f.owed = {} /\ f.greeted => f.seen = n
  /\ f.st = "off" => ~f.greeted /\ f.owed = {}

FInv ==
  /\ version \in Nat
  /\ feed \in [Listeners -> Feed]
  /\ \A l \in Listeners : OwedUpToLast(feed[l], version)

(* One that is cut off is owed part of what it was. *)
LEMMA CutKeeps ==
  ASSUME NEW f \in Feed, NEW n \in Nat, NEW owed \in SUBSET Nat, \A v \in owed : v <= n
  PROVE  LET g == [f EXCEPT !.st = "cut", !.owed = owed] IN g \in Feed /\ OwedUpToLast(g, n)
BY DEF Feed, OwedUpToLast

(* A step that publishes nothing to one listener, and one that does. *)
LEMMA KeptKeeps ==
  ASSUME NEW f \in Feed, NEW n \in Nat, OwedUpToLast(f, n), NEW g \in Kept(f)
  PROVE  g \in Feed /\ OwedUpToLast(g, n)
<1>1. CASE g = f
  BY <1>1
<1>2. CASE g # f
  <2>1. PICK lost : g = [f EXCEPT !.st = "cut", !.owed = @ \ lost]
    BY <1>2 DEF Kept
  <2>2. f.owed \ lost \in SUBSET Nat /\ \A v \in f.owed \ lost : v <= n
    BY DEF Feed, OwedUpToLast
  <2>3. g = [f EXCEPT !.st = "cut", !.owed = f.owed \ lost]
    BY <2>1 DEF Feed
  <2>4. QED
    BY <2>2, <2>3, CutKeeps
<1>3. QED
  BY <1>1, <1>2

LEMMA ToldKeeps ==
  ASSUME NEW f \in Feed, NEW n \in Nat, OwedUpToLast(f, n), NEW g \in Told(f, n + 1)
  PROVE  g \in Feed /\ OwedUpToLast(g, n + 1)
<1>1. f.owed \cup {n + 1} \in SUBSET Nat /\ \A v \in f.owed \cup {n + 1} : v <= n + 1
  BY DEF Feed, OwedUpToLast
<1>2. CASE f.st # "in"
  BY <1>1, <1>2 DEF Told, OwedUpToLast
<1>3. CASE f.st = "in" /\ g = [f EXCEPT !.owed = @ \cup {n + 1}]
  BY <1>1, <1>3 DEF Feed, OwedUpToLast
<1>4. CASE f.st = "in" /\ \E owed \in {f.owed, f.owed \cup {n + 1}} :
                              g = [f EXCEPT !.st = "cut", !.owed = owed]
  <2>1. PICK owed \in {f.owed, f.owed \cup {n + 1}} : g = [f EXCEPT !.st = "cut", !.owed = owed]
    BY <1>4
  <2>2. owed \in SUBSET Nat /\ \A v \in owed : v <= n + 1
    BY <1>1, <2>1
  <2>3. n + 1 \in Nat
    OBVIOUS
  <2>4. g \in Feed /\ OwedUpToLast(g, n + 1)
    BY <2>1, <2>2, <2>3, CutKeeps
  <2>5. QED
    BY <2>4
<1>5. QED
  BY <1>2, <1>3, <1>4 DEF Told

(* One listener l gets the feed g, and others at most lose theirs. *)
LEMMA OneKeeps ==
  ASSUME FInv, UNCHANGED version, NEW l \in Listeners, NEW g \in Feed,
         feed' = [feed EXCEPT ![l] = g], OwedUpToLast(g, version)
  PROVE  FInv'
BY DEF FInv

LEMMA InitFInv == Init => FInv
BY DEF Init, FInv, Feed, Off, OwedUpToLast

LEMMA NextFInv == FInv /\ [Next]_feedVars => FInv'
<1> SUFFICES ASSUME FInv, [Next]_feedVars PROVE FInv'
  OBVIOUS
<1>1. CASE Publish
  BY <1>1, ToldKeeps DEF Publish, FInv
<1>2. CASE Shuffle
  BY <1>2, KeptKeeps DEF Shuffle, FInv
<1>3. ASSUME NEW l \in Listeners, Join(l) PROVE FInv'
  <2>1. feed'[l] \in Feed /\ OwedUpToLast(feed'[l], version)
    BY <1>3 DEF Join, Off, Feed, OwedUpToLast
  <2>2. \A k \in Listeners \ {l} : feed'[k] \in Feed /\ OwedUpToLast(feed'[k], version)
    BY <1>3, KeptKeeps DEF Join, FInv
  <2>3. QED
    BY <1>3, <2>1, <2>2 DEF Join, FInv
<1>4. ASSUME NEW l \in Listeners, Greet(l) PROVE FInv'
  <2> DEFINE g == [feed[l] EXCEPT !.greeted = TRUE, !.seen = version]
  <2>1. feed' = [feed EXCEPT ![l] = g]
    BY <1>4 DEF Greet, FInv
  <2>2. g \in Feed
    BY DEF FInv, Feed, Off
  <2>3. OwedUpToLast(g, version)
    BY <1>4 DEF Greet, FInv, Feed, Off, OwedUpToLast
  <2>4. UNCHANGED version
    BY <1>4 DEF Greet
  <2> HIDE DEF g
  <2>5. QED
    BY <2>1, <2>2, <2>3, <2>4, OneKeeps
<1>5. ASSUME NEW l \in Listeners, Deliver(l) PROVE FInv'
  <2>1. PICK v \in feed[l].owed :
          /\ Due(feed[l], v)
          /\ feed' = [feed EXCEPT ![l].owed = @ \ {v}, ![l].seen = v]
    BY <1>5 DEF Deliver
  <2>2. DEFINE g == [feed[l] EXCEPT !.owed = feed[l].owed \ {v}, !.seen = v]
  <2>3. feed[l] \in Feed /\ OwedUpToLast(feed[l], version) /\ version \in Nat
    BY DEF FInv
  <2>4. g \in Feed
    BY <2>3 DEF Feed
  <2>5. OwedUpToLast(g, version)
    <3>1. \A w \in feed[l].owed : v <= w /\ w \in Nat
      BY <2>1, <2>3 DEF Due, Feed
    <3>2. v = version => feed[l].owed = {v}
      BY <2>3, <3>1 DEF OwedUpToLast
    <3>3. QED
      BY <1>5, <2>3, <3>1, <3>2 DEF OwedUpToLast, Deliver, Feed
  <2>6. feed' = [feed EXCEPT ![l] = g]
    BY <2>1 DEF FInv
  <2>7. QED
    BY <1>5, <2>4, <2>5, <2>6, OneKeeps DEF Deliver
<1>6. ASSUME NEW l \in Listeners, Drop(l) PROVE FInv'
  <2> DEFINE g == [feed[l] EXCEPT !.alive = FALSE]
  <2>1. feed' = [feed EXCEPT ![l] = g]
    BY <1>6 DEF Drop, FInv
  <2>2. g \in Feed
    BY DEF FInv, Feed, Off
  <2>3. OwedUpToLast(g, version)
    BY <1>6 DEF Drop, FInv, Feed, Off, OwedUpToLast
  <2>4. UNCHANGED version
    BY <1>6 DEF Drop
  <2> HIDE DEF g
  <2>5. QED
    BY <2>1, <2>2, <2>3, <2>4, OneKeeps
<1>7. ASSUME NEW l \in Listeners, End(l) PROVE FInv'
  <2> DEFINE g == Off
  <2>1. feed' = [feed EXCEPT ![l] = g]
    BY <1>7 DEF End, FInv
  <2>2. g \in Feed
    BY DEF FInv, Feed, Off
  <2>3. OwedUpToLast(g, version)
    BY <1>7 DEF End, FInv, Feed, Off, OwedUpToLast
  <2>4. UNCHANGED version
    BY <1>7 DEF End
  <2> HIDE DEF g
  <2>5. QED
    BY <2>1, <2>2, <2>3, <2>4, OneKeeps
<1>8. CASE UNCHANGED feedVars
  BY <1>8 DEF feedVars, FInv
<1>9. QED
  BY <1>1, <1>2, <1>3, <1>4, <1>5, <1>6, <1>7, <1>8 DEF Next

(* A greeted listener in the room has the last version, or is owed it: *)
(* what FeedIsCurrent says of the channels of listen_room.go.          *)
THEOREM FeedUpToDate == Spec => []UpToDate
<1>1. FInv => UpToDate
  BY DEF FInv, OwedUpToLast, UpToDate
<1>2. QED
  BY <1>1, InitFInv, NextFInv, PTL DEF Spec
=============================================================================
