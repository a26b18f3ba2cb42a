----------------------------- MODULE Supervisor -----------------------------
(***************************************************************************)
(* What the mains of fntv, fnmusic and mediasrv have in common: they start *)
(* one server in a process group of its own, wait for it, and are to end   *)
(* it when they end.  Of the group, the server itself (the leader, which   *)
(* alone gets SIGTERM from the kernel when its parent dies) and the        *)
(* helpers it may have forked.  What a launcher prepares before the start  *)
(* is in VideoLauncher and MusicLauncher; mediasrv only makes a directory. *)
(***************************************************************************)
EXTENDS Naturals

CONSTANT MaxFaults      \* bound on kills of a launcher and on failed tools

ASSUME SupervisorAssumption == MaxFaults \in Nat

VARIABLES
  app,      \* which of the three
  main,     \* how far its main got
  ctx,      \* whether SIGINT or SIGTERM came: ctx.Done()
  group,    \* the process group of its server
  stray,    \* what is left of the groups of earlier runs
  faults

supVars == <<app, main, ctx, group, stray, faults>>

(***************************************************************************)
(* A leader is "up", told to end ("term"), "ended" after that, or "lost":  *)
(* it ended by itself or was killed.                                       *)
(***************************************************************************)
NoGroup == [leader |-> "none", helpers |-> "none"]

Preparing == {"stat", "sedMeta", "sedRoot", "load", "lstat", "unlink", "symlink"}

SupInit ==
  /\ app \in {"fntv", "fnmusic", "mediasrv"}
  /\ main = "off"
  /\ ctx = FALSE
  /\ group = NoGroup
  /\ stray = NoGroup
  /\ faults = 0

Prepare == CASE app = "fntv"     -> "stat"
             [] app = "fnmusic"  -> "lstat"
             [] app = "mediasrv" -> "start"

Boot ==
  /\ main = "off"
  /\ main' = Prepare
  /\ ctx' = FALSE
  /\ UNCHANGED <<app, group, stray, faults>>

-----------------------------------------------------------------------------
(* SIGTERM to the group, as -pgid addresses it. *)
Told(s) == IF s = "up" THEN "term" ELSE s

TermLeader(g) == [g EXCEPT !.leader = Told(@)]      \* mutant: pgid for -pgid

TermGroup(g) == [leader |-> Told(g.leader), helpers |-> Told(g.helpers)]

(* The launcher's process ends, g being its group at that moment. *)
Worse(s, t) == IF "up" \in {s, t} THEN "up"
               ELSE IF "term" \in {s, t} THEN "term" ELSE "none"

Gone(g) ==
  /\ main' = "off"
  /\ ctx' = FALSE
  /\ group' = NoGroup
  /\ stray' = [leader  |-> IF g.leader \in {"up", "term"} THEN "term" ELSE stray.leader,
               helpers |-> Worse(g.helpers, stray.helpers)]

-----------------------------------------------------------------------------
(* Start fails when the context is done already; a nil Process panics. *)
Start ==
  /\ main = "start"
  /\ ~ctx
  /\ main' = "started"
  /\ group' = [group EXCEPT !.leader = "up"]
  /\ UNCHANGED <<app, ctx, stray, faults>>

StartFails ==
  /\ main = "start"
  /\ ctx \/ faults < MaxFaults
  /\ faults' = IF ctx THEN faults ELSE faults + 1
  /\ Gone(group)
  /\ UNCHANGED app

(* Cmd.Cancel, if the program sets one, and on to Wait. *)
SetCancel ==
  /\ main = "started"
  /\ main' = "wait"
  /\ UNCHANGED <<app, ctx, group, stray, faults>>

Signal ==
  /\ main # "off"
  /\ ctx' = TRUE
  /\ UNCHANGED <<app, main, group, stray, faults>>

(* The goroutine of package exec that watches the context of a running *)
(* server calls Cancel, which is Process.Kill unless it was set.        *)
CtxDone ==
  /\ ctx
  /\ main \in {"started", "wait"}
  /\ group.leader = "up"
  /\ group' = IF main = "wait" /\ app # "mediasrv" THEN TermGroup(group)
                                                   ELSE [group EXCEPT !.leader = "lost"]
  /\ UNCHANGED <<app, main, ctx, stray, faults>>

(***************************************************************************)
(* Wait: the leader has ended.  Where Stdout was set before Start it is a  *)
(* pipe, which Wait reads to its end: the helpers must have ended, too.    *)
(* Then the deferred call signals the group.                               *)
(***************************************************************************)
Piped == app \in {"fnmusic", "mediasrv"}

Waited ==
  /\ main = "wait"
  /\ group.leader \in {"ended", "lost"}
  /\ Piped => group.helpers = "none"

Finish ==
  /\ Waited
  /\ Gone(TermGroup(group))
  /\ UNCHANGED <<app, faults>>

(* A server that was told to end may still be writing. *)
Serving == group.leader \in {"up", "term"} \/ stray.leader = "term"

-----------------------------------------------------------------------------
(* External: the launcher is killed; its server forks, ends; so do others. *)

Kill ==
  /\ main # "off"
  /\ faults < MaxFaults
  /\ faults' = faults + 1
  /\ Gone(group)
  /\ UNCHANGED app

Fork ==
  /\ group.leader = "up"
  /\ group' = [group EXCEPT !.helpers = "up"]
  /\ UNCHANGED <<app, main, ctx, stray, faults>>

LeaderEnds ==
  /\ group.leader \in {"up", "term"}
  /\ group' = [group EXCEPT !.leader = IF @ = "term" THEN "ended" ELSE "lost"]
  /\ UNCHANGED <<app, main, ctx, stray, faults>>

HelpersEnd ==
  /\ group.helpers # "none"
  /\ group' = [group EXCEPT !.helpers = "none"]
  /\ UNCHANGED <<app, main, ctx, stray, faults>>

StrayEnds ==
  /\ stray # NoGroup
  /\ stray' \in {[stray EXCEPT !.leader = "none"], [stray EXCEPT !.helpers = "none"]}
  /\ UNCHANGED <<app, main, ctx, group, faults>>

-----------------------------------------------------------------------------
SupStep == Start \/ StartFails \/ SetCancel \/ CtxDone \/ Finish

SupExternal == Signal \/ Kill \/ Fork \/ LeaderEnds \/ HelpersEnd \/ StrayEnds

(* Whoever was told to end does. *)
LeaderObeys == group.leader = "term" /\ LeaderEnds
HelpersObey == group.helpers = "term" /\ HelpersEnd

(***************************************************************************)
(* Whatever ends the launcher, only a kill, or the fatal exit of a failed  *)
(* seeding, leaves helpers of its server that were not told to end.        *)
(***************************************************************************)
NothingLeftUntold ==
  [][stray.helpers # "up" /\ stray'.helpers = "up" => faults' > faults]_supVars

(***************************************************************************)
(* Told to end, or left by its server, the launcher ends.  Helpers can     *)
(* hold it, and then no signal ends it: they have its pipe, and their      *)
(* leader was not told, because it ended by itself or, as mediasrv does,   *)
(* the launcher killed it alone.                                           *)
(***************************************************************************)
HeldByHelpers == Piped /\ group.leader = "lost" /\ group.helpers = "up"

EndsWithItsServer ==
  (ctx \/ group.leader \in {"ended", "lost"}) ~> (main = "off" \/ HeldByHelpers)

(* The shape of the state. *)
SupTypeOK ==
  /\ app \in {"fntv", "fnmusic", "mediasrv"}
  /\ main \in {"off", "start", "started", "wait"} \cup Preparing
  /\ ctx \in BOOLEAN
  /\ group \in [leader  : {"none", "up", "term", "ended", "lost"},
                helpers : {"none", "up", "term"}]
  /\ stray \in [leader : {"none", "term"}, helpers : {"none", "up", "term"}]
  /\ faults \in 0 .. MaxFaults
=============================================================================
