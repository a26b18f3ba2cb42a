------------------------------ MODULE RoomFeed ------------------------------
(***************************************************************************)
(* What the room promises each of its listeners, with no channel, handler  *)
(* or lock: while it is in the room it is owed every version published,    *)
(* oldest first, and its stream does not end while it is owed anything,    *)
(* unless its client has gone.  The room may cut off any listener at any   *)
(* moment; one whose place its own user takes loses at most the version    *)
(* due next.  ListenRoom is shown to implement this.                       *)
(***************************************************************************)
EXTENDS Naturals

CONSTANT Listeners

VARIABLES
  version,  \* of the last state published
  feed      \* what each listener is owed and has been sent

feedVars == <<version, feed>>

Feed == [st : {"off", "in", "cut"}, alive : BOOLEAN, greeted : BOOLEAN,
         owed : SUBSET Nat, seen : Nat]

Off == [st |-> "off", alive |-> FALSE, greeted |-> FALSE, owed |-> {}, seen |-> 0]

Init ==
  /\ version = 0
  /\ feed = [l \in Listeners |-> Off]

Due(f, v) == v \in f.owed /\ \A w \in f.owed : v <= w

(* f after a step that publishes nothing: the listener may be cut off. *)
Kept(f) ==
  {f} \cup IF f.st = "in"
             THEN {[f EXCEPT !.st = "cut", !.owed = @ \ lost] :
                     lost \in {{}} \cup {{v} : v \in {w \in f.owed : Due(f, w)}}}
             ELSE {}

(* f after v was published: owed to the listener, or it is cut off. *)
Told(f, v) ==
  IF f.st = "in"
    THEN {[f EXCEPT !.owed = @ \cup {v}]}
         \cup {[f EXCEPT !.st = "cut", !.owed = owed] : owed \in {f.owed, f.owed \cup {v}}}
    ELSE {f}

Publish ==
  /\ version' = version + 1
  /\ feed' \in [Listeners -> Feed]
  /\ \A l \in Listeners : feed'[l] \in Told(feed[l], version')

Shuffle ==
  /\ UNCHANGED version
  /\ feed' \in [Listeners -> Feed]
  /\ \A l \in Listeners : feed'[l] \in Kept(feed[l])

Join(l) ==
  /\ feed[l].st = "off"
  /\ UNCHANGED version
  /\ feed' \in [Listeners -> Feed]
  /\ feed'[l] \in {[Off EXCEPT !.st = "in", !.alive = b] : b \in BOOLEAN}
  /\ \A k \in Listeners \ {l} : feed'[k] \in Kept(feed[k])

(* The state as it is, ahead of what was queued since the listener came. *)
Greet(l) ==
  /\ feed[l].st # "off" /\ ~feed[l].greeted
  /\ feed' = [feed EXCEPT ![l].greeted = TRUE, ![l].seen = version]
  /\ UNCHANGED version

Deliver(l) ==
  /\ feed[l].greeted
  /\ \E v \in feed[l].owed :
       /\ Due(feed[l], v)
       /\ feed' = [feed EXCEPT ![l].owed = @ \ {v}, ![l].seen = v]
  /\ UNCHANGED version

Drop(l) ==
  /\ feed[l].alive
  /\ feed' = [feed EXCEPT ![l].alive = FALSE]
  /\ UNCHANGED version

End(l) ==
  /\ feed[l].st # "off"
  /\ ~feed[l].alive \/ (feed[l].st = "cut" /\ feed[l].owed = {})
  /\ feed' = [feed EXCEPT ![l] = Off]
  /\ UNCHANGED version

Next ==
  \/ Publish \/ Shuffle
  \/ \E l \in Listeners : Join(l) \/ Greet(l) \/ Deliver(l) \/ Drop(l) \/ End(l)

Spec == Init /\ [][Next]_feedVars

(* A listener that is in the room and owed nothing has the last version; *)
(* otherwise the last version is among what it is owed.                  *)
UpToDate ==
  \A l \in Listeners : feed[l].st = "in" /\ feed[l].greeted =>
    IF feed[l].owed = {} THEN feed[l].seen = version ELSE version \in feed[l].owed
=============================================================================
