------------------------------ MODULE DirBroker ------------------------------
(***************************************************************************)
(* rpcbroker: the start of main, which prepares /vol1/1000 and may be      *)
(* killed and started again at any point; the watcher that scans MEDIA_DIR *)
(* and rebuilds the two tables of authorized directories; the connections  *)
(* on which the other programs ask for them.  A critical section of        *)
(* RpcbrokerServer.mu is one step.  The auth-path request reads authPaths  *)
(* in one such step and changes nothing; it has no action.                 *)
(***************************************************************************)
EXTENDS Naturals, FiniteSets

CONSTANTS Dirs,        \* subdirectories of MEDIA_DIR, as the paths given to clients
          Others,      \* its other entries: files, and mediasrv.transcode
          Default,     \* the subdirectory "default"
          Vol,         \* volPath, /vol1/1000
          Pieces,      \* what a path becomes when it is split at ':'
          Conns,       \* RPC connections
          Slots,       \* where appAuthorizedDirs is allocated
          None,        \* no slot
          MaxFaults    \* bound on external changes of MEDIA_DIR and on kills

Paths == Dirs \cup {Vol} \cup UNION {Pieces[p] : p \in Dirs}

ASSUME BrokerAssumption ==
  /\ Default \in Dirs /\ Vol \notin Dirs /\ Dirs \cap Others = {}
  /\ Pieces[Vol] = {Vol}
  /\ None \notin Slots
  /\ IsFiniteSet(Paths)
  /\ MaxFaults \in Nat

VARIABLES
  place,    \* where MEDIA_DIR is
  media,    \* MEDIA_DIR: whether it is there, and its entries
  vol,      \* what is at /vol1/1000
  socks,    \* socket files
  main,     \* how far main got
  srv,      \* folders, authPathResp, and where appAuthorizedDirs is
  heap,     \* the arrays appAuthorizedDirs was and is in
  scan,     \* the ReadDir under way
  conn,     \* the handleConnection goroutines
  faults

vars == <<place, media, vol, socks, main, srv, heap, scan, conn, faults>>

(***************************************************************************)
(* default: MEDIA_DIR is /vol1/1000; within: it is below that, or another  *)
(* spelling of it; beside: elsewhere below /vol1; outside: not below it;   *)
(* pinned: outside, and /vol1/1000 cannot be removed (a mount point, say). *)
(***************************************************************************)
Places == {"default", "within", "beside", "outside", "pinned"}

NoData == [folders |-> {}, authPaths |-> {}, slice |-> None]
NoScan == [on |-> FALSE, failed |-> FALSE, sure |-> {}, seen |-> {}]
Closed == [pc |-> "closed", listing |-> FALSE, slice |-> None]

Init ==
  /\ place \in Places
  /\ \E entries \in {{}, Dirs \cup Others} :
       media = [there |-> TRUE, entries |-> entries]
  /\ vol \in IF place \in {"beside", "outside"} THEN {"none", "dir"} ELSE {"dir"}
  /\ socks = {}
  /\ main = "off"
  /\ srv = NoData
  /\ heap = [s \in Slots |-> {}]
  /\ scan = NoScan
  /\ conn = [c \in Conns |-> Closed]
  /\ faults = 0

-----------------------------------------------------------------------------
(* loadDirs, of the entries ReadDir returned *)
LoadDirsAll(S) == S                 \* mutant: no filter on the entries

LoadDirs(S) == IF S \cap Dirs = {} THEN {Vol} ELSE S \cap Dirs

(***************************************************************************)
(* A ReadDir is not atomic: what comes or goes while it runs may be in its *)
(* result or not.                                                          *)
(***************************************************************************)
BeginScan ==
  scan' = [on     |-> TRUE,
           failed |-> ~media.there,
           sure   |-> media.entries,
           seen   |-> media.entries]

Scanned == IF scan.failed THEN {{Vol}}
           ELSE {LoadDirs(S) : S \in {S \in SUBSET scan.seen : scan.sure \subseteq S}}

(* strings.Split(strings.Join(dirs, ":"), ":") *)
Split(dirs) == UNION {Pieces[d] : d \in dirs}

Held == {srv.slice} \cup {conn[c].slice : c \in Conns}

InitDataInPlace(dirs) ==            \* mutant: appAuthorizedDirs[:0] is reused
  \E s \in Slots :
    /\ srv.slice = None \/ s = srv.slice
    /\ heap' = [heap EXCEPT ![s] = Split(dirs)]
    /\ srv' = [folders |-> dirs, authPaths |-> Split(dirs), slice |-> s]

InitDataKeepsOld(dirs) ==           \* mutant: authPaths is not made anew
  \E s \in Slots \ Held :
    /\ heap' = [heap EXCEPT ![s] = Split(dirs)]
    /\ srv' = [folders |-> dirs, authPaths |-> srv.authPaths \cup Split(dirs), slice |-> s]

InitData(dirs) ==
  \E s \in Slots \ Held :
    /\ heap' = [heap EXCEPT ![s] = Split(dirs)]
    /\ srv' = [folders |-> dirs, authPaths |-> Split(dirs), slice |-> s]

(* refreshDirs: the watcher is the only writer, its Join != cur is stable. *)
Tick ==
  /\ main \in {"center", "broker", "serving"}
  /\ ~scan.on
  /\ BeginScan
  /\ UNCHANGED <<place, media, vol, socks, main, srv, heap, conn, faults>>

RefreshByCount ==                   \* mutant: compares how many there are
  /\ main \in {"center", "broker", "serving"}
  /\ scan.on
  /\ scan' = NoScan
  /\ \E dirs \in Scanned :
       IF Cardinality(dirs) = Cardinality(srv.folders)
         THEN UNCHANGED <<srv, heap>> ELSE InitData(dirs)
  /\ UNCHANGED <<place, media, vol, socks, main, conn, faults>>

Refresh ==
  /\ main \in {"center", "broker", "serving"}
  /\ scan.on
  /\ scan' = NoScan
  /\ \E dirs \in Scanned :
       IF dirs = srv.folders THEN UNCHANGED <<srv, heap>> ELSE InitData(dirs)
  /\ UNCHANGED <<place, media, vol, socks, main, conn, faults>>

-----------------------------------------------------------------------------
(* main: the programs are started by hand or by a supervisor. *)

Boot ==
  /\ main = "off"
  /\ main' = IF place = "default" THEN "mkdir" ELSE "reset"
  /\ UNCHANGED <<place, media, vol, socks, srv, heap, scan, conn, faults>>

(* RemoveAll("/vol1"), which takes with it what is below but follows no *)
(* link, and whose error is ignored; MkdirAll("/vol1").                 *)
ResetKeeps ==                       \* mutant: /vol1 is only made, not emptied
  /\ main = "reset"
  /\ main' = "mkdir"
  /\ UNCHANGED <<place, media, vol, socks, srv, heap, scan, conn, faults>>

Reset ==
  /\ main = "reset"
  /\ vol' = IF place = "pinned" THEN vol ELSE "none"
  /\ media' = IF place \in {"outside", "pinned"} THEN media
                                                 ELSE [there |-> FALSE, entries |-> {}]
  /\ main' = "mkdir"
  /\ UNCHANGED <<place, socks, srv, heap, scan, conn, faults>>

(* MkdirAll(MEDIA_DIR/default); the panic when it fails is a Kill here. *)
Mkdir ==
  /\ main = "mkdir"
  /\ media' = [there |-> TRUE, entries |-> media.entries \cup {Default}]
  /\ vol' = IF place \in {"default", "within"} THEN "dir" ELSE vol
  /\ main' = IF place = "default" THEN "scan" ELSE "link"
  /\ UNCHANGED <<place, socks, srv, heap, scan, conn, faults>>

(* Symlink(MEDIA_DIR, /vol1/1000), which does not replace what is there. *)
LinkIgnored ==                      \* mutant: a failure is not looked at
  /\ main = "link"
  /\ main' = "scan"
  /\ UNCHANGED <<place, media, vol, socks, srv, heap, scan, conn, faults>>

Link ==
  /\ main = "link"
  /\ IF vol = "none" THEN vol' = "link" /\ main' = "scan"
                     ELSE vol' = vol /\ main' = "off"
  /\ UNCHANGED <<place, media, socks, srv, heap, scan, conn, faults>>

FirstScan ==
  /\ main = "scan"
  /\ BeginScan
  /\ main' = "init"
  /\ UNCHANGED <<place, media, vol, socks, srv, heap, conn, faults>>

FirstData ==
  /\ main = "init"
  /\ \E dirs \in Scanned : InitData(dirs)
  /\ scan' = NoScan
  /\ main' = "center"
  /\ UNCHANGED <<place, media, vol, socks, conn, faults>>

(* Start: the watcher runs; each socket's old file is removed before Listen. *)
NotRemoved(s) == socks              \* mutant: the file of the last run is left

Removed(s) == socks \ {s}

Listen(s, next) ==
  /\ IF s \in Removed(s) THEN main' = "off" ELSE main' = next
  /\ socks' = Removed(s) \cup {s}
  /\ UNCHANGED <<place, media, vol, srv, heap, scan, conn, faults>>

ListenCenter == main = "center" /\ Listen("center", "broker")
ListenBroker == main = "broker" /\ Listen("broker", "serving")

-----------------------------------------------------------------------------
(* handleConnection *)

Accept(c) ==
  /\ main = "serving"
  /\ conn[c].pc = "closed"
  /\ conn' = [conn EXCEPT ![c] = [Closed EXCEPT !.pc = "header"]]
  /\ UNCHANGED <<place, media, vol, socks, main, srv, heap, scan, faults>>

(* A well-formed request; getAppAuthorizedDir takes the slice under RLock. *)
Request(c) ==
  /\ conn[c].pc = "header"
  /\ \/ conn' = [conn EXCEPT ![c] = [Closed EXCEPT !.pc = "answer"]]
     \/ conn' = [conn EXCEPT ![c] = [Closed EXCEPT !.pc = "answer", !.listing = TRUE,
                                                   !.slice = srv.slice]]
  /\ UNCHANGED <<place, media, vol, socks, main, srv, heap, scan, faults>>

(* End of file, bad magic, zero length, no JSON, or a failed write. *)
Hangup(c) ==
  /\ conn[c].pc # "closed"
  /\ conn' = [conn EXCEPT ![c] = Closed]
  /\ UNCHANGED <<place, media, vol, socks, main, srv, heap, scan, faults>>

(* The answer is marshalled now, after RUnlock, and sent. *)
Answer(c) ==
  /\ conn[c].pc = "answer"
  /\ conn' = [conn EXCEPT ![c] = [Closed EXCEPT !.pc = "header"]]
  /\ UNCHANGED <<place, media, vol, socks, main, srv, heap, scan, faults>>

-----------------------------------------------------------------------------
(* Users and other programs change MEDIA_DIR; the broker is killed. *)

Change ==
  /\ faults < MaxFaults
  /\ faults' = faults + 1
  /\ \E there \in BOOLEAN, entries \in SUBSET (Dirs \cup Others) :
       /\ there \/ entries = {}
       /\ media' = [there |-> there, entries |-> entries]
       /\ scan' = IF ~scan.on THEN scan
                  ELSE [scan EXCEPT !.sure = @ \cap entries, !.seen = @ \cup entries]
       /\ vol' = IF place # "default" THEN vol ELSE IF there THEN "dir" ELSE "none"
  /\ UNCHANGED <<place, socks, main, srv, heap, conn>>

Kill ==
  /\ faults < MaxFaults
  /\ main # "off"
  /\ faults' = faults + 1
  /\ main' = "off"
  /\ srv' = NoData
  /\ scan' = NoScan
  /\ conn' = [c \in Conns |-> Closed]
  /\ UNCHANGED <<place, media, vol, socks, heap>>

-----------------------------------------------------------------------------
MainStep ==
  \/ Reset \/ Mkdir \/ Link \/ FirstScan \/ FirstData
  \/ ListenCenter \/ ListenBroker

Next ==
  \/ Boot \/ MainStep
  \/ Tick \/ Refresh
  \/ \E c \in Conns : Accept(c) \/ Request(c) \/ Answer(c) \/ Hangup(c)
  \/ Change \/ Kill

Spec == Init /\ [][Next]_vars

(* main and the watcher run; whoever started the broker starts it again. *)
Fairness == WF_vars(Boot) /\ WF_vars(MainStep) /\ WF_vars(Tick) /\ WF_vars(Refresh)

FairSpec == Spec /\ Fairness

-----------------------------------------------------------------------------
(* The shape of the state. *)
TypeOK ==
  /\ place \in Places
  /\ media \in [there : BOOLEAN, entries : SUBSET (Dirs \cup Others)]
  /\ vol \in {"none", "dir", "link"}
  /\ socks \subseteq {"center", "broker"}
  /\ main \in {"off", "reset", "mkdir", "link", "scan", "init",
               "center", "broker", "serving"}
  /\ srv \in [folders   : SUBSET (Dirs \cup {Vol}),
              authPaths : SUBSET Paths,
              slice     : Slots \cup {None}]
  /\ heap \in [Slots -> SUBSET Paths]
  /\ scan \in [on : BOOLEAN, failed : BOOLEAN,
               sure : SUBSET (Dirs \cup Others), seen : SUBSET (Dirs \cup Others)]
  /\ conn \in [Conns -> [pc : {"closed", "header", "answer"}, listing : BOOLEAN,
                         slice : Slots \cup {None}]]
  /\ faults \in 0 .. MaxFaults

(***************************************************************************)
(* The two interfaces authorize the same directories, those of one scan:   *)
(* trim-media asks for auth-path, and for getAppAuthorizedDir, and is not  *)
(* to find a directory in one answer that the other one refuses.           *)
(***************************************************************************)
TablesAgree ==
  main \in {"center", "broker", "serving"} =>
    /\ srv.slice # None
    /\ heap[srv.slice] = Split(srv.folders)
    /\ srv.authPaths = Split(srv.folders)

(***************************************************************************)
(* getAppAuthorizedDir hands out the slice, and it is marshalled after the *)
(* lock was released: no refresh may write into it in the meantime.        *)
(***************************************************************************)
AnswerNotTorn ==
  [][\A c \in Conns :
       conn[c].pc = "answer" /\ conn[c].listing
         => heap'[conn[c].slice] = heap[conn[c].slice]]_vars

(* Whatever is listed is listed below /vol1/1000, and that is MEDIA_DIR. *)
VolLeadsToMedia ==
  main \in {"center", "broker", "serving"} =>
    \/ vol = "link"
    \/ place = "default" /\ (media.there => vol = "dir")

(***************************************************************************)
(* The broker can be started after it was killed at any point: neither the *)
(* link nor the socket files it left make it fail.  But it cannot at all   *)
(* where /vol1/1000 remains a directory: when it cannot be removed, or     *)
(* MEDIA_DIR is below it, and is made before the link.                     *)
(***************************************************************************)
RestartSucceeds ==
  [][main # "off" /\ main' = "off"
       => place \in {"within", "pinned"} \/ faults' > faults]_vars

(***************************************************************************)
(* Once MEDIA_DIR is left alone, both tables come to list every directory  *)
(* of it, or /vol1/1000 if there is none, and nothing else; but for those  *)
(* that have a ':' in their name, of which they list the pieces.           *)
(***************************************************************************)
ToList == IF media.entries \cap Dirs = {} THEN {Vol} ELSE media.entries \cap Dirs

ListingCatchesUp ==
  <>[](main = "serving" =>
         /\ {d \in ToList : Pieces[d] = {d}} \subseteq heap[srv.slice]
         /\ heap[srv.slice] \subseteq UNION {Pieces[d] : d \in ToList})
=============================================================================
