--------------------------- MODULE DirBrokerProofs ---------------------------
(***************************************************************************)
(* For any directories, connections and slots, and any number of changes,  *)
(* kills and restarts: the two tables agree, an answer is not written into *)
(* while it waits to be sent, what is listed is under a /vol1/1000 that    *)
(* leads to MEDIA_DIR, and nothing a killed broker left makes a start fail.*)
(***************************************************************************)
EXTENDS DirBroker, FiniteSetTheorems, TLAPS

(* The watcher runs from here on, and the tables are filled. *)
Running == main \in {"center", "broker", "serving"}

(* Connections are those of a server that serves, and an answer has a slice. *)
ConnsServed ==
  \A c \in Conns :
    /\ conn[c].pc # "closed" => main = "serving"
    /\ conn[c].listing => conn[c].pc = "answer" /\ conn[c].slice \in Slots

(* What VolLeadsToMedia says holds as soon as the link was made, or needs none. *)
Prepared ==
  main \in {"scan", "init"} \/ Running =>
    \/ vol = "link"
    \/ place = "default" /\ (media.there => vol = "dir")

(* Where main is about to link, nothing is in the way. *)
LinkFree ==
  /\ main = "reset" => place # "default"
  /\ main = "mkdir" => place \in {"default", "within", "pinned"} \/ vol = "none"
  /\ main = "link"  => place \in {"within", "pinned"} \/ (place # "default" /\ vol = "none")

BInv ==
  /\ TypeOK
  /\ TablesAgree
  /\ ConnsServed
  /\ Prepared
  /\ LinkFree

-----------------------------------------------------------------------------
LEMMA SplitPaths ==
  ASSUME NEW dirs \in SUBSET (Dirs \cup {Vol})
  PROVE  Split(dirs) \subseteq Paths
BY BrokerAssumption DEF Split, Paths

LEMMA ScannedDirs ==
  ASSUME TypeOK
  PROVE  Scanned \subseteq SUBSET (Dirs \cup {Vol})
BY DEF TypeOK, Scanned, LoadDirs

(***************************************************************************)
(* New tables are in a slot that neither the server nor an answer holds.   *)
(***************************************************************************)
LEMMA NewTables ==
  ASSUME TypeOK, NEW dirs \in SUBSET (Dirs \cup {Vol}), InitData(dirs)
  PROVE  /\ srv' \in [folders   : SUBSET (Dirs \cup {Vol}),
                      authPaths : SUBSET Paths,
                      slice     : Slots \cup {None}]
         /\ heap' \in [Slots -> SUBSET Paths]
         /\ srv'.slice # None
         /\ heap'[srv'.slice] = Split(srv'.folders)
         /\ srv'.authPaths = Split(srv'.folders)
         /\ \A s \in Held \cap Slots : heap'[s] = heap[s]
<1>1. PICK s \in Slots \ Held :
        /\ heap' = [heap EXCEPT ![s] = Split(dirs)]
        /\ srv' = [folders |-> dirs, authPaths |-> Split(dirs), slice |-> s]
  BY DEF InitData
<1>2. Split(dirs) \subseteq Paths
  BY SplitPaths
<1>3. heap \in [Slots -> SUBSET Paths]
  BY DEF TypeOK
<1>4. QED
  BY <1>1, <1>2, <1>3, BrokerAssumption

-----------------------------------------------------------------------------
LEMMA InitBInv == Init => BInv
BY BrokerAssumption
DEF Init, BInv, TypeOK, TablesAgree, ConnsServed, Prepared, LinkFree, Running,
    Places, NoData, NoScan, Closed

(* A step of main that leaves the tables and the connections alone. *)
LEMMA MainStepBInv ==
  ASSUME BInv, Boot \/ Reset \/ Mkdir \/ Link \/ FirstScan \/ ListenCenter \/ ListenBroker
  PROVE  BInv'
<1>1. UNCHANGED <<place, srv, heap, conn, faults>>
  BY DEF Boot, Reset, Mkdir, Link, FirstScan, ListenCenter, ListenBroker, Listen
<1>2. TypeOK'
  <2>1. CASE Boot
    BY <2>1 DEF BInv, TypeOK, Boot
  <2>2. CASE Reset
    BY <2>2 DEF BInv, TypeOK, Reset
  <2>3. CASE Mkdir
    BY <2>3, BrokerAssumption DEF BInv, TypeOK, Mkdir
  <2>4. CASE Link
    BY <2>4 DEF BInv, TypeOK, Link
  <2>5. CASE FirstScan
    BY <2>5 DEF BInv, TypeOK, FirstScan, BeginScan
  <2>6. CASE ListenCenter
    BY <2>6 DEF BInv, TypeOK, ListenCenter, Listen, Removed
  <2>7. CASE ListenBroker
    BY <2>7 DEF BInv, TypeOK, ListenBroker, Listen, Removed
  <2>8. QED
    BY <2>1, <2>2, <2>3, <2>4, <2>5, <2>6, <2>7
<1>3. TablesAgree'
  BY <1>1
  DEF BInv, TablesAgree, Boot, Reset, Mkdir, Link, FirstScan, ListenCenter, ListenBroker,
      Listen, Removed, Split
<1>4. ConnsServed'
  BY <1>1
  DEF BInv, ConnsServed, Boot, Reset, Mkdir, Link, FirstScan, ListenCenter, ListenBroker, Listen
<1>5. Prepared'
  BY DEF BInv, TypeOK, Places, Prepared, LinkFree, Running, Boot, Reset, Mkdir, Link, FirstScan,
         ListenCenter, ListenBroker, Listen, Removed
<1>6. LinkFree'
  BY DEF BInv, TypeOK, Places, LinkFree, Boot, Reset, Mkdir, Link, FirstScan,
         ListenCenter, ListenBroker, Listen, Removed
<1>7. QED
  BY <1>2, <1>3, <1>4, <1>5, <1>6 DEF BInv

(* Where the tables are made anew, or are left as they are. *)
LEMMA DataStepBInv ==
  ASSUME BInv, FirstData \/ Refresh
  PROVE  BInv'
<1>1. /\ UNCHANGED <<place, media, vol, socks, conn, faults>>
      /\ scan' = NoScan
      /\ main' \in {"center", "broker", "serving"}
      /\ main' = main \/ main = "init"
  BY DEF FirstData, Refresh
<1>2. \/ UNCHANGED <<srv, heap>> /\ main' = main
      \/ \E dirs \in SUBSET (Dirs \cup {Vol}) : InitData(dirs)
  BY ScannedDirs DEF BInv, FirstData, Refresh
<1>3. CASE UNCHANGED <<srv, heap>> /\ main' = main
  <2>1. TypeOK'
    BY <1>1, <1>3 DEF BInv, TypeOK, NoScan
  <2>2. TablesAgree'
    BY <1>3 DEF BInv, TablesAgree, Split
  <2>3. QED
    BY <1>1, <1>3, <2>1, <2>2
    DEF BInv, ConnsServed, Prepared, LinkFree, Running
<1>4. CASE \E dirs \in SUBSET (Dirs \cup {Vol}) : InitData(dirs)
  <2>1. /\ srv' \in [folders   : SUBSET (Dirs \cup {Vol}),
                     authPaths : SUBSET Paths,
                     slice     : Slots \cup {None}]
        /\ heap' \in [Slots -> SUBSET Paths]
        /\ srv'.slice # None
        /\ heap'[srv'.slice] = Split(srv'.folders)
        /\ srv'.authPaths = Split(srv'.folders)
    BY <1>4, NewTables DEF BInv
  <2>2. TypeOK'
    BY <1>1, <2>1 DEF BInv, TypeOK, NoScan
  <2>3. TablesAgree'
    BY <2>1 DEF TablesAgree, Split
  <2>4. ConnsServed'
    BY <1>1 DEF BInv, ConnsServed
  <2>5. Prepared' /\ LinkFree'
    BY <1>1 DEF BInv, Prepared, LinkFree, Running
  <2>6. QED
    BY <2>2, <2>3, <2>4, <2>5 DEF BInv
<1>5. QED
  BY <1>2, <1>3, <1>4

-----------------------------------------------------------------------------
(* The struct of connection c is replaced by n. *)
ConnRecord == [pc : {"closed", "header", "answer"}, listing : BOOLEAN,
               slice : Slots \cup {None}]

LEMMA ConnStepBInv ==
  ASSUME BInv, UNCHANGED <<place, media, vol, socks, main, srv, heap, scan, faults>>,
         NEW c \in Conns, NEW n \in ConnRecord, conn' = [conn EXCEPT ![c] = n],
         n.pc # "closed" => main = "serving",
         n.listing => n.pc = "answer" /\ n.slice \in Slots
  PROVE  BInv'
<1>1. conn \in [Conns -> ConnRecord]
  BY DEF BInv, TypeOK, ConnRecord
<1>2. /\ conn' \in [Conns -> ConnRecord]
      /\ \A d \in Conns : conn'[d] = IF d = c THEN n ELSE conn[d]
  BY <1>1
<1>3. TypeOK'
  BY <1>2 DEF BInv, TypeOK, ConnRecord
<1>4. TablesAgree' /\ Prepared' /\ LinkFree'
  BY DEF BInv, TablesAgree, Split, Prepared, LinkFree, Running
<1>5. ConnsServed'
  BY <1>2 DEF BInv, ConnsServed
<1>6. QED
  BY <1>3, <1>4, <1>5 DEF BInv

LEMMA ConnectionsBInv ==
  ASSUME BInv, NEW c \in Conns, Accept(c) \/ Request(c) \/ Answer(c) \/ Hangup(c)
  PROVE  BInv'
<1>1. CASE Accept(c)
  BY <1>1, ConnStepBInv DEF Accept, Closed, ConnRecord
<1>2. CASE Request(c)
  <2>1. main = "serving" /\ srv.slice \in Slots
    BY <1>2 DEF Request, BInv, TypeOK, TablesAgree, ConnsServed
  <2>2. QED
    BY <1>2, <2>1, ConnStepBInv, BrokerAssumption DEF Request, Closed, ConnRecord
<1>3. CASE Answer(c)
  <2>1. main = "serving"
    BY <1>3 DEF Answer, BInv, ConnsServed
  <2>2. QED
    BY <1>3, <2>1, ConnStepBInv DEF Answer, Closed, ConnRecord
<1>4. CASE Hangup(c)
  BY <1>4, ConnStepBInv DEF Hangup, Closed, ConnRecord
<1>5. QED
  BY <1>1, <1>2, <1>3, <1>4

-----------------------------------------------------------------------------
LEMMA ExternalBInv ==
  ASSUME BInv, Tick \/ Change \/ Kill
  PROVE  BInv'
<1>1. CASE Tick
  <2>1. TypeOK'
    BY <1>1 DEF BInv, TypeOK, Tick, BeginScan
  <2>2. QED
    BY <1>1, <2>1
    DEF BInv, Tick, TablesAgree, Split, ConnsServed, Prepared, LinkFree, Running
<1>2. CASE Change
  <2>1. PICK there \in BOOLEAN, entries \in SUBSET (Dirs \cup Others) :
          /\ media' = [there |-> there, entries |-> entries]
          /\ scan' = IF ~scan.on THEN scan
                     ELSE [scan EXCEPT !.sure = @ \cap entries, !.seen = @ \cup entries]
          /\ vol' = IF place # "default" THEN vol ELSE IF there THEN "dir" ELSE "none"
    BY <1>2 DEF Change
  <2>2. /\ UNCHANGED <<place, socks, main, srv, heap, conn>>
        /\ faults' = faults + 1 /\ faults < MaxFaults
    BY <1>2 DEF Change
  <2>3. /\ media'.there = there
        /\ media' \in [there : BOOLEAN, entries : SUBSET (Dirs \cup Others)]
    BY <2>1
  <2>4. scan' \in [on : BOOLEAN, failed : BOOLEAN,
                   sure : SUBSET (Dirs \cup Others), seen : SUBSET (Dirs \cup Others)]
    BY <2>1 DEF BInv, TypeOK
  <2>5. TypeOK'
    BY <2>1, <2>2, <2>3, <2>4, BrokerAssumption DEF BInv, TypeOK
  <2>6. TablesAgree' /\ ConnsServed'
    BY <2>2 DEF BInv, TablesAgree, Split, ConnsServed
  <2>7. CASE place # "default"
    BY <2>1, <2>2, <2>5, <2>6, <2>7 DEF BInv, Prepared, LinkFree, Running
  <2>8. CASE place = "default"
    <3>1. Prepared'
      BY <2>1, <2>2, <2>3, <2>8 DEF Prepared
    <3>2. LinkFree'
      BY <2>2, <2>8 DEF BInv, LinkFree
    <3>3. QED
      BY <2>5, <2>6, <3>1, <3>2 DEF BInv
  <2>9. QED
    BY <2>7, <2>8
<1>3. CASE Kill
  <2>1. TypeOK'
    BY <1>3, BrokerAssumption DEF BInv, TypeOK, Kill, NoData, NoScan, Closed
  <2>2. QED
    BY <1>3, <2>1
    DEF BInv, Kill, TablesAgree, ConnsServed, Prepared, LinkFree, Running, Closed
<1>4. QED
  BY <1>1, <1>2, <1>3

LEMMA NextBInv == BInv /\ [Next]_vars => BInv'
<1> SUFFICES ASSUME BInv, [Next]_vars PROVE BInv'
  OBVIOUS
<1>1. CASE Boot \/ Reset \/ Mkdir \/ Link \/ FirstScan \/ ListenCenter \/ ListenBroker
  BY <1>1, MainStepBInv
<1>2. CASE FirstData \/ Refresh
  BY <1>2, DataStepBInv
<1>3. CASE \E c \in Conns : Accept(c) \/ Request(c) \/ Answer(c) \/ Hangup(c)
  BY <1>3, ConnectionsBInv
<1>4. CASE Tick \/ Change \/ Kill
  BY <1>4, ExternalBInv
<1>5. CASE UNCHANGED vars
  BY <1>5
  DEF vars, BInv, TypeOK, TablesAgree, Split, ConnsServed, Prepared, LinkFree,
      Running
<1>6. QED
  BY <1>1, <1>2, <1>3, <1>4, <1>5 DEF Next, MainStep

(* All of it at once: the tables, the answers, the link, the way to a start. *)
THEOREM BrokerInvariant == Spec => []BInv
BY InitBInv, NextBInv, PTL DEF Spec

(* Every state has its shape. *)
THEOREM BrokerTypes == Spec => []TypeOK
BY BrokerInvariant, PTL DEF BInv

(* trim-media gets the same directories from both interfaces: initData is *)
(* the only writer, and makes both tables in one critical section.        *)
THEOREM TablesAlwaysAgree == Spec => []TablesAgree
BY BrokerInvariant, PTL DEF BInv

(* Once started, the broker lists what is below a /vol1/1000 that leads to *)
(* MEDIA_DIR, whatever an earlier start left there.                        *)
THEOREM VolAlwaysLeads == Spec => []VolLeadsToMedia
<1>1. BInv => VolLeadsToMedia
  BY DEF BInv, Prepared, Running, VolLeadsToMedia
<1>2. QED
  BY <1>1, BrokerInvariant, PTL

-----------------------------------------------------------------------------
(* No refresh writes into a slice that a connection is about to marshal:   *)
(* initData makes new ones, and the slice is not reused while it is held.  *)
THEOREM AnswersAreNotTorn == Spec => AnswerNotTorn
<1>1. ASSUME BInv, [Next]_vars, NEW c \in Conns, conn[c].pc = "answer", conn[c].listing
      PROVE  heap'[conn[c].slice] = heap[conn[c].slice]
  <2>1. conn[c].slice \in Held \cap Slots
    BY <1>1 DEF BInv, ConnsServed, Held
  <2>2. CASE FirstData \/ Refresh
    <3>1. \/ heap' = heap
          \/ \E dirs \in SUBSET (Dirs \cup {Vol}) : InitData(dirs)
      BY <1>1, <2>2, ScannedDirs DEF BInv, FirstData, Refresh
    <3>2. QED
      BY <1>1, <2>1, <3>1, NewTables DEF BInv
  <2>3. CASE ~(FirstData \/ Refresh)
    BY <1>1, <2>3
    DEF Next, MainStep, Boot, Reset, Mkdir, Link, FirstScan, ListenCenter, ListenBroker, Listen,
        Tick, Accept, Request, Answer, Hangup, Change, Kill, vars
  <2>4. QED
    BY <2>2, <2>3
<1>2. BInv /\ [Next]_vars
        => [\A c \in Conns : conn[c].pc = "answer" /\ conn[c].listing
              => heap'[conn[c].slice] = heap[conn[c].slice]]_vars
  BY <1>1
<1>3. QED
  BY <1>2, BrokerInvariant, PTL DEF Spec, AnswerNotTorn

(* What a killed broker left, a link or socket files, does not make the *)
(* next start fail.                                                     *)
THEOREM RestartsSucceed == Spec => RestartSucceeds
<1>1. ASSUME BInv, [Next]_vars, main # "off", main' = "off"
      PROVE  place \in {"within", "pinned"} \/ faults' > faults
  <2>1. CASE Kill
    BY <1>1, <2>1 DEF BInv, TypeOK, Kill
  <2>2. CASE Link
    BY <1>1, <2>2 DEF BInv, LinkFree, Link
  <2>3. CASE ~Kill /\ ~Link
    BY <1>1, <2>3
    DEF Next, MainStep, Boot, Reset, Mkdir, FirstScan, FirstData, ListenCenter, ListenBroker,
        Listen, Removed, Tick, Refresh, Accept, Request, Answer, Hangup, Change, vars
  <2>4. QED
    BY <2>1, <2>2, <2>3
<1>2. BInv /\ [Next]_vars
        => [main # "off" /\ main' = "off" => place \in {"within", "pinned"} \/ faults' > faults]_vars
  BY <1>1
<1>3. QED
  BY <1>2, BrokerInvariant, PTL DEF Spec, RestartSucceeds
=============================================================================
