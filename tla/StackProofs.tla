----------------------------- MODULE StackProofs -----------------------------
(***************************************************************************)
(* The launchers, for any number of kills, failures and restarts: what     *)
(* fntv's start makes of the database, what fnmusic's start makes of the   *)
(* link, what seeding does to the rows, and whom an ending launcher leaves;*)
(* and the gateway, for any page sizes: what it passes on, what it answers,*)
(* and which of its answers a client may take for whole.                   *)
(***************************************************************************)
EXTENDS Stack, TLAPS

LauncherTypes == SupTypeOK /\ MusicTypeOK /\ clients \in BOOLEAN

(* A launcher has a server between its start and its end, and only then. *)
Grouped == main \notin {"started", "wait"} => group = NoGroup

(* Each launcher goes through its own preparations. *)
OwnSteps ==
  /\ main \in {"stat"} \cup Tools => app = "fntv"
  /\ main \in {"lstat", "unlink", "symlink"} => app = "fnmusic"
  /\ seed # "off" \/ orphan => app = "fnmusic"

(* Main waits for one tool, or for none. *)
Current ==
  IF main \in Tools THEN tool.does = main /\ tool.stage \in {"begun", "read"}
                    ELSE tool = Idle

(* Those left behind are from the kills there have been. *)
LeftSteps ==
  \A f \in 1 .. MaxFaults : f > faults \/ left[f].does = "none" => left[f] = Idle

(***************************************************************************)
(* What a tool has read has the line of the meta directory edited, each    *)
(* line once where no path contains /vol1; the line of the cache also, but *)
(* where the first sed of a killed launcher may put the template's back.   *)
(***************************************************************************)
CopyOK(t) ==
  /\ t.stage = "read" => t.copy.meta # "template"
  /\ "meta" \notin inVol => t.copy.meta # "mangled"
  /\ "media" \notin inVol => t.copy.root # "mangled"
  /\ t.stage = "read" /\ (t.does = "sedRoot" \/ (t.does = "load" /\ ~Outlived({"sedMeta"})))
       => t.copy.root # "template"

Copies == CopyOK(tool) /\ \A f \in 1 .. MaxFaults : CopyOK(left[f])

(* So has the script, from the first sed or the second on. *)
ScriptSteps ==
  /\ "meta" \notin inVol => script.meta # "mangled"
  /\ "media" \notin inVol => script.root # "mangled"
  /\ tool.does \in {"sedRoot", "load"} \/ Outlived({"sedRoot", "load"})
       => script.meta # "template"
  /\ (tool.does = "load" \/ Outlived({"load"})) /\ ~Outlived({"sedMeta"})
       => /\ script.root # "template"
          /\ tool.does = "sedMeta" /\ tool.stage = "read" => tool.copy.root # "template"

(* And so has a complete database. *)
Loaded ==
  Complete =>
    /\ loaded.meta # "template"
    /\ "meta" \notin inVol => loaded.meta # "mangled"
    /\ "media" \notin inVol => loaded.root # "mangled"
    /\ ~Outlived({"sedMeta"}) => loaded.root # "template"

(* Where no tool outlived its launcher, there is none until it is read in. *)
DatabaseSteps ==
  /\ app = "fntv" /\ main \in {"start", "started", "wait"} => db # "none"
  /\ ~Outlived(Tools) /\ main \in {"sedMeta", "sedRoot"} => db = "none"
  /\ ~Outlived(Tools) /\ main = "load" => db \in {"none", "empty"}

(* Where nothing was disturbed, a start finds all of it done or none. *)
FirstSteps ==
  app = "fntv" /\ faults = 0 =>
    /\ main \in {"off", "stat"} => \/ db = "none" /\ script.root = "template"
                                   \/ Complete /\ loaded.root = "actual"
    /\ main = "sedMeta" => /\ script.root = "template"
                           /\ tool.stage = "read" => tool.copy.root = "template"
    /\ main = "sedRoot" => /\ script.root = "template"
                           /\ tool.stage = "read" => tool.copy.root = "actual"
    /\ main = "load" => /\ script.root = "actual"
                        /\ tool.stage = "read" => tool.copy.root = "actual"
    /\ main \in {"start", "started", "wait"} => Complete /\ loaded.root = "actual"

VInv ==
  /\ VideoTypeOK
  /\ Current
  /\ LeftSteps
  /\ Copies
  /\ ScriptSteps
  /\ Loaded
  /\ DatabaseSteps
  /\ FirstSteps

(* Only a link that could not be removed is in the way of the new one. *)
LinkSteps ==
  /\ main = "unlink" => link = "wrong"
  /\ main = "symlink" => link = "none" \/ (link = "wrong" /\ faults > 0)

LInv ==
  /\ LauncherTypes
  /\ Grouped
  /\ OwnSteps
  /\ VInv
  /\ LinkSteps

-----------------------------------------------------------------------------
LEMMA GroupTypes ==
  ASSUME SupTypeOK, NEW g, g = group \/ g = TermGroup(group), Gone(g)
  PROVE  /\ main' = "off" /\ ctx' = FALSE /\ group' = NoGroup
         /\ stray' \in [leader : {"none", "term"}, helpers : {"none", "up", "term"}]
BY DEF SupTypeOK, Gone, TermGroup, Told, Worse

-----------------------------------------------------------------------------
LEMMA ToolsAre ==
  /\ Idle \in ToolStates /\ Idle.does = "none" /\ Idle.stage = "ended" /\ Idle.copy = Template
  /\ Template \in Scripts /\ Template.meta = "template" /\ Template.root = "template"
  /\ \A k \in Tools : /\ Begun(k) \in ToolStates /\ Begun(k).does = k
                       /\ Begun(k).stage = "begun" /\ Begun(k).copy = Template
BY DEF Idle, Begun, Template, Scripts, Lines, ToolStates, Tools

LEMMA EditsAre ==
  ASSUME script \in Scripts, NEW k \in Tools
  PROVE  /\ Edits(k) \in Scripts
         /\ k = "sedMeta" =>
              /\ Edits(k).meta = IF script.meta = "template" THEN "actual" ELSE script.meta
              /\ Edits(k).root = script.root
         /\ k = "sedRoot" =>
              /\ Edits(k).meta = IF script.meta = "template" \/ "meta" \in inVol
                                   THEN "mangled" ELSE script.meta
              /\ Edits(k).root = IF script.root = "template" THEN "actual"
                                 ELSE IF "media" \in inVol THEN "mangled" ELSE script.root
         /\ k = "load" => Edits(k) = script
<1>1. CASE k = "sedMeta"
  <2>1. Edits(k) = EditMeta(script)
    BY <1>1 DEF Edits
  <2>2. QED
    BY <1>1, <2>1 DEF EditMeta, Scripts, Lines
<1>2. CASE k = "sedRoot"
  <2>1. Edits(k) = EditRoot(script)
    BY <1>2 DEF Edits
  <2>2. QED
    BY <1>2, <2>1 DEF EditRoot, Scripts, Lines
<1>3. CASE k = "load"
  <2>1. Edits(k) = script
    BY <1>3 DEF Edits
  <2>2. QED
    BY <1>3, <2>1
<1>4. QED
  BY <1>1, <1>2, <1>3 DEF Tools

LEMMA HasReadIs ==
  ASSUME NEW t \in ToolStates, script \in Scripts, t.does \in Tools
  PROVE  /\ HasRead(t) \in ToolStates
         /\ HasRead(t).does = t.does /\ HasRead(t).stage = "read"
         /\ HasRead(t).copy = Edits(t.does)
BY EditsAre DEF HasRead, ToolStates

LEMMA HasEndedIs ==
  ASSUME NEW t \in ToolStates
  PROVE  /\ HasEnded(t) \in ToolStates
         /\ HasEnded(t).does = t.does /\ HasEnded(t).stage = "ended"
         /\ HasEnded(t).copy = Template
BY ToolsAre DEF HasEnded, ToolStates

(* What a tool reads: the script is ready for it. *)
LEMMA ReadsOK ==
  ASSUME VInv, NEW t \in ToolStates, t.does \in Tools,
         t = tool \/ Outlived({t.does})
  PROVE  CopyOK(HasRead(t))
<1>1. script \in Scripts /\ script.meta \in Lines /\ script.root \in Lines
  BY DEF VInv, VideoTypeOK, Scripts
<1>2. /\ HasRead(t).does = t.does /\ HasRead(t).stage = "read"
      /\ HasRead(t).copy = Edits(t.does)
  BY <1>1, HasReadIs
<1>3. /\ t.does \in {"sedRoot", "load"} => script.meta # "template"
      /\ t.does = "load" /\ ~Outlived({"sedMeta"}) => script.root # "template"
      /\ "meta" \notin inVol => script.meta # "mangled"
      /\ "media" \notin inVol => script.root # "mangled"
  BY DEF VInv, ScriptSteps, Outlived, Tools
<1>4. QED
  BY <1>1, <1>2, <1>3, EditsAre DEF CopyOK, Tools, Lines

-----------------------------------------------------------------------------
LEMMA InitVInv == Init => VInv
<1> SUFFICES ASSUME Init PROVE VInv
  OBVIOUS
<1>1. /\ main = "off" /\ faults = 0 /\ MaxFaults \in Nat
      /\ script = Template /\ db = "none" /\ loaded = Template /\ tool = Idle
      /\ left = [f \in 1 .. MaxFaults |-> Idle] /\ inVol \in SUBSET {"meta", "media"}
  BY SupervisorAssumption DEF Init, SupInit, VideoInit
<1>2. VideoTypeOK
  BY <1>1, ToolsAre DEF VideoTypeOK
<1>3. ~Complete /\ \A K \in SUBSET Tools : ~Outlived(K)
  BY <1>1, ToolsAre DEF Complete, Outlived, Tools
<1>4. ~Outlived({"sedMeta"}) /\ ~Outlived({"load"}) /\ ~Outlived({"sedRoot", "load"})
  BY <1>3 DEF Tools
<1>5. Current /\ LeftSteps /\ Copies
  BY <1>1, ToolsAre DEF Current, Tools, LeftSteps, Copies, CopyOK
<1>6. ScriptSteps /\ Loaded /\ DatabaseSteps /\ FirstSteps
  BY <1>1, <1>3, <1>4, ToolsAre DEF Tools, ScriptSteps, Loaded, DatabaseSteps, FirstSteps
<1>7. QED
  BY <1>2, <1>5, <1>6 DEF VInv

LEMMA InitLInv == Init => LInv
<1> SUFFICES ASSUME Init PROVE LInv
  OBVIOUS
<1>1. SupTypeOK /\ main = "off" /\ group = NoGroup /\ faults = 0
  <2>1. main = "off" /\ group = NoGroup /\ stray = NoGroup /\ ctx = FALSE /\ faults = 0
        /\ app \in {"fntv", "fnmusic", "mediasrv"}
    BY DEF Init, SupInit
  <2>2. 0 \in 0 .. MaxFaults
    BY SupervisorAssumption
  <2>3. /\ NoGroup \in [leader  : {"none", "up", "term", "ended", "lost"},
                        helpers : {"none", "up", "term"}]
        /\ NoGroup \in [leader : {"none", "term"}, helpers : {"none", "up", "term"}]
    BY DEF NoGroup
  <2>4. QED
    BY <2>1, <2>2, <2>3 DEF SupTypeOK
<1>2. MusicTypeOK /\ clients \in BOOLEAN /\ seed = "off" /\ orphan = FALSE
  BY DEF Init, MusicInit, MusicTypeOK, Rows
<1>3. QED
  BY <1>1, <1>2, InitVInv
  DEF LInv, LauncherTypes, Grouped, OwnSteps, Tools, LinkSteps

-----------------------------------------------------------------------------
(* What a step of another part may do to main. *)
LEMMA OthersKeepV ==
  ASSUME VInv, SupTypeOK, UNCHANGED <<videoVars, app>>, faults' \in Nat, faults' >= faults,
         main \notin Tools, main' \notin Tools,
         app = "fntv" /\ main' \in {"start", "started", "wait"}
           => main \in {"start", "started", "wait"},
         app = "fntv" /\ faults' = 0 /\ main' \in {"off", "stat"}
           => main \in {"off", "stat", "start", "started", "wait"}
  PROVE  VInv'
<1>1. faults \in Nat
  BY DEF SupTypeOK
<1>2. VideoTypeOK' /\ Current' /\ Copies' /\ ScriptSteps' /\ Loaded'
  BY DEF videoVars, VInv, VideoTypeOK, Current, Copies, CopyOK, ScriptSteps, Loaded, Complete,
         Outlived
<1>3. LeftSteps'
  <2> SUFFICES ASSUME NEW f \in 1 .. MaxFaults, f > faults' \/ left'[f].does = "none"
               PROVE  left'[f] = Idle
    BY DEF LeftSteps
  <2>1. f > faults \/ left[f].does = "none"
    BY <1>1, SupervisorAssumption DEF videoVars
  <2>2. QED
    BY <2>1 DEF videoVars, VInv, LeftSteps
<1>4. DatabaseSteps' /\ FirstSteps'
  BY <1>1 DEF videoVars, VInv, DatabaseSteps, FirstSteps, Tools, Complete
<1>5. QED
  BY <1>2, <1>3, <1>4 DEF VInv

LEMMA StutterKeepsV ==
  ASSUME VInv, UNCHANGED <<videoVars, app, main, faults>>
  PROVE  VInv'
BY DEF videoVars, VInv, VideoTypeOK, Current, LeftSteps, Copies, CopyOK, ScriptSteps, Loaded,
       Complete, Outlived, DatabaseSteps, FirstSteps

(* A launcher is killed while it waits for a tool. *)
LEMMA KillKeepsV ==
  ASSUME VInv, SupTypeOK, main \in Tools, main' = "off", faults' = faults + 1,
         faults' \in 0 .. MaxFaults, tool' = Idle, left' = [left EXCEPT ![faults'] = tool],
         UNCHANGED <<app, inVol, script, db, loaded>>
  PROVE  VInv'
<1>1. /\ faults \in Nat /\ faults' \in 1 .. MaxFaults
      /\ left \in [1 .. MaxFaults -> ToolStates] /\ tool \in ToolStates
      /\ tool.does = main /\ left[faults'].does = "none"
  BY SupervisorAssumption, ToolsAre DEF SupTypeOK, VInv, VideoTypeOK, Current, LeftSteps
<1>2. /\ left' \in [1 .. MaxFaults -> ToolStates]
      /\ \A f \in 1 .. MaxFaults : left'[f] = IF f = faults' THEN tool ELSE left[f]
  BY <1>1
<1>3. ASSUME NEW K \in SUBSET Tools
      PROVE  (\E f \in 1 .. MaxFaults : left'[f].does \in K)
               <=> (\E f \in 1 .. MaxFaults : left[f].does \in K) \/ main \in K
  BY <1>1, <1>2, <1>3 DEF Tools
<1>4. \A K \in SUBSET Tools : (\E f \in DOMAIN left' : left'[f].does \in K)
                                <=> Outlived(K) \/ main \in K
  <2>1. DOMAIN left = 1 .. MaxFaults /\ DOMAIN left' = 1 .. MaxFaults
    BY <1>1, <1>2
  <2>2. QED
    BY <1>3, <2>1 DEF Outlived
<1>5. /\ Outlived({"sedMeta"})' <=> Outlived({"sedMeta"}) \/ main = "sedMeta"
      /\ Outlived({"load"})' <=> Outlived({"load"}) \/ main = "load"
      /\ Outlived({"sedRoot", "load"})'
           <=> Outlived({"sedRoot", "load"}) \/ main \in {"sedRoot", "load"}
  BY <1>4 DEF Outlived, Tools
<1>6. VideoTypeOK'
  BY <1>2, ToolsAre DEF VInv, VideoTypeOK
<1>7. Current'
  BY DEF Current, Tools
<1>8. LeftSteps'
  <2> SUFFICES ASSUME NEW f \in 1 .. MaxFaults, f > faults' \/ left'[f].does = "none"
               PROVE  left'[f] = Idle
    BY DEF LeftSteps
  <2>1. f # faults'
    BY <1>1, <1>2 DEF Tools
  <2>2. left'[f] = left[f] /\ (f > faults \/ left[f].does = "none")
    BY <1>1, <1>2, <2>1
  <2>3. QED
    BY <2>2 DEF VInv, LeftSteps
<1>9. Copies'
  <2>1. CopyOK(tool)'
    BY ToolsAre DEF CopyOK
  <2>2. ASSUME NEW f \in 1 .. MaxFaults PROVE CopyOK(left[f])'
    <3>1. CopyOK(tool) /\ CopyOK(left[f])
      BY DEF VInv, Copies
    <3>2. QED
      BY <1>2, <1>5, <3>1 DEF CopyOK
  <2>3. QED
    BY <2>1, <2>2 DEF Copies
<1>10. ScriptSteps' /\ Loaded'
  BY <1>1, <1>5, ToolsAre DEF VInv, ScriptSteps, Loaded, Complete
<1>11. DatabaseSteps' /\ FirstSteps'
  BY <1>1 DEF DatabaseSteps, FirstSteps
<1>12. QED
  BY <1>6, <1>7, <1>8, <1>9, <1>10, <1>11 DEF VInv

LEMMA SupKeeps ==
  ASSUME LInv, Boot \/ SupStep \/ SupExternal, ToolOutlivesMain, EndsWithMain, UNCHANGED clients
  PROVE  LInv'
<1>1. /\ music' = music /\ link' = link
      /\ orphan' \in BOOLEAN /\ seed' \in {"off", "poll", "import", "done"}
      /\ seed' # "off" \/ orphan' => seed # "off" \/ orphan
  BY DEF EndsWithMain, LInv, LauncherTypes, MusicTypeOK, Importing
<1>2. MusicTypeOK' /\ clients' \in BOOLEAN
  BY <1>1 DEF LInv, LauncherTypes, MusicTypeOK
<1>3. faults \in Nat /\ MaxFaults \in Nat
  BY SupervisorAssumption DEF LInv, LauncherTypes, SupTypeOK
<1>4. CASE Boot
  <2>1. SupTypeOK'
    BY <1>4 DEF Boot, Prepare, LInv, LauncherTypes, SupTypeOK, Preparing
  <2>2. /\ main = "off" /\ main' = Prepare /\ main' # "off" /\ app' = app /\ faults' = faults
        /\ main' \notin Tools /\ (app = "fntv" => main' = "stat")
    BY <1>4 DEF Boot, Prepare, Tools, LInv, LauncherTypes, SupTypeOK
  <2>3. UNCHANGED videoVars
    BY <2>2 DEF ToolOutlivesMain, videoVars
  <2>4. VInv'
    BY <1>3, <2>2, <2>3, OthersKeepV DEF Tools, LInv, LauncherTypes
  <2>5. QED
    BY <1>1, <1>2, <1>4, <2>1, <2>4
    DEF Boot, Prepare, Tools, LInv, LauncherTypes, SupTypeOK, Grouped, OwnSteps, LinkSteps
<1>5. CASE Start \/ SetCancel \/ Signal \/ CtxDone \/ Fork \/ LeaderEnds \/ HelpersEnd \/ StrayEnds
  <2>1. SupTypeOK'
    <3>1. CASE Start \/ SetCancel \/ Signal
      BY <3>1 DEF Start, SetCancel, Signal, LInv, LauncherTypes, SupTypeOK
    <3>2. CASE CtxDone
      <4>1. group' = [group EXCEPT !.leader = "lost"] \/ group' = TermGroup(group)
        BY <3>2 DEF CtxDone
      <4>2. QED
        BY <3>2, <4>1 DEF CtxDone, TermGroup, Told, LInv, LauncherTypes, SupTypeOK
    <3>3. CASE Fork \/ LeaderEnds \/ HelpersEnd \/ StrayEnds
      BY <3>3
      DEF Fork, LeaderEnds, HelpersEnd, StrayEnds, LInv, LauncherTypes, SupTypeOK
    <3>4. QED
      BY <1>5, <3>1, <3>2, <3>3
  <2>2. Grouped'
    BY <1>5
    DEF Start, SetCancel, Signal, CtxDone, Fork, LeaderEnds, HelpersEnd, StrayEnds, LInv, Grouped,
        NoGroup
  <2>3. /\ UNCHANGED <<app, faults>> /\ (main' = "off" => main = "off")
        /\ \/ UNCHANGED main
           \/ main \in {"start", "started"} /\ main' \in {"started", "wait"}
    BY <1>5
    DEF Start, SetCancel, Signal, CtxDone, Fork, LeaderEnds, HelpersEnd, StrayEnds
  <2>4. UNCHANGED videoVars
    BY <2>3 DEF ToolOutlivesMain, videoVars, Tools
  <2>5. VInv'
    <3>1. CASE UNCHANGED main
      BY <2>3, <2>4, <3>1, StutterKeepsV DEF LInv
    <3>2. CASE main \in {"start", "started"} /\ main' \in {"started", "wait"}
      BY <1>3, <2>3, <2>4, <3>2, OthersKeepV DEF LInv, LauncherTypes, Tools
    <3>3. QED
      BY <2>3, <3>1, <3>2
  <2>6. OwnSteps' /\ LinkSteps'
    BY <1>1, <2>3 DEF LInv, OwnSteps, LinkSteps, Tools
  <2>7. QED
    BY <1>2, <2>1, <2>2, <2>5, <2>6 DEF LInv, LauncherTypes
<1>6. CASE StartFails \/ Finish \/ Kill
  <2>1. /\ main' = "off" /\ ctx' = FALSE /\ group' = NoGroup
        /\ stray' \in [leader : {"none", "term"}, helpers : {"none", "up", "term"}]
    BY <1>6, GroupTypes DEF StartFails, Finish, Kill, LInv, LauncherTypes
  <2>2. /\ app' = app /\ faults' \in 0 .. MaxFaults /\ faults' >= faults
        /\ \/ main \in {"start", "wait"}
           \/ faults' = faults + 1 /\ main # "off"
    BY <1>3, <1>6
    DEF StartFails, Finish, Waited, Kill, LInv, LauncherTypes, SupTypeOK
  <2>3. SupTypeOK'
    BY <2>1, <2>2 DEF LInv, LauncherTypes, SupTypeOK, NoGroup
  <2>4. VInv'
    <3>1. CASE main \in Tools
      <4>1. /\ left' = [left EXCEPT ![faults'] = tool] /\ tool' = Idle
            /\ UNCHANGED <<inVol, script, db, loaded>>
        BY <2>1, <3>1 DEF ToolOutlivesMain
      <4>2. faults' = faults + 1
        BY <2>2, <3>1 DEF Tools
      <4>3. QED
        BY <2>1, <2>2, <3>1, <4>1, <4>2, KillKeepsV DEF LInv, LauncherTypes
    <3>2. CASE main \notin Tools
      <4>1. UNCHANGED videoVars
        BY <3>2 DEF ToolOutlivesMain, videoVars
      <4>2. faults' = 0 => main \in {"start", "wait"}
        BY <1>3, <2>2
      <4>3. main' \notin Tools /\ faults' \in Nat
        BY <2>1, <2>2 DEF Tools
      <4>4. QED
        BY <2>1, <2>2, <3>2, <4>1, <4>2, <4>3, OthersKeepV DEF LInv, LauncherTypes
    <3>3. QED
      BY <3>1, <3>2
  <2>5. Grouped' /\ OwnSteps' /\ LinkSteps'
    BY <1>1, <2>1, <2>2 DEF LInv, Grouped, OwnSteps, LinkSteps, Tools
  <2>6. QED
    BY <1>2, <2>3, <2>4, <2>5 DEF LInv, LauncherTypes
<1>7. QED
  BY <1>4, <1>5, <1>6 DEF SupStep, SupExternal

-----------------------------------------------------------------------------
(* Steps that leave those alone that were left behind. *)

LEMMA StatKeepsV ==
  ASSUME VInv, SupTypeOK, Stat
  PROVE  VInv'
<1>1. CASE db = "none"
  <2>1. /\ main = "stat" /\ main' = "sedMeta" /\ tool' = Begun("sedMeta")
        /\ UNCHANGED <<app, faults, inVol, script, db, loaded, left>>
    BY <1>1 DEF Stat
  <2>2. /\ tool'.does = "sedMeta" /\ tool'.stage = "begun" /\ tool'.copy = Template
        /\ tool' \in ToolStates
    BY <2>1, ToolsAre DEF Tools
  <2>3. VideoTypeOK' /\ Current' /\ LeftSteps'
    BY <2>1, <2>2 DEF VInv, VideoTypeOK, Current, LeftSteps, Tools
  <2>4. Copies'
    BY <2>1, <2>2, ToolsAre DEF VInv, Copies, CopyOK, Outlived
  <2>5. ScriptSteps' /\ Loaded' /\ DatabaseSteps'
    BY <1>1, <2>1, <2>2
    DEF VInv, ScriptSteps, Loaded, Complete, Outlived, DatabaseSteps
  <2>6. FirstSteps'
    BY <1>1, <2>1, <2>2 DEF VInv, FirstSteps, Complete
  <2>7. QED
    BY <2>3, <2>4, <2>5, <2>6 DEF VInv
<1>2. CASE db # "none"
  <2>1. main = "stat" /\ main' = "start" /\ UNCHANGED <<app, faults, videoVars>>
    BY <1>2 DEF Stat, videoVars
  <2>2. VideoTypeOK' /\ Current' /\ LeftSteps' /\ Copies' /\ ScriptSteps' /\ Loaded'
    BY <2>1
    DEF videoVars, Tools, VInv, VideoTypeOK, Current, LeftSteps, Copies, CopyOK, ScriptSteps,
        Loaded, Complete, Outlived
  <2>3. DatabaseSteps' /\ FirstSteps'
    BY <1>2, <2>1 DEF videoVars, VInv, DatabaseSteps, FirstSteps, Complete
  <2>4. QED
    BY <2>2, <2>3 DEF VInv
<1>3. QED
  BY <1>1, <1>2

LEMMA ToolReadsKeepsV ==
  ASSUME VInv, SupTypeOK, ToolReads
  PROVE  VInv'
<1>1. /\ main \in Tools /\ tool.does = main /\ tool.stage = "begun" /\ tool' = HasRead(tool)
      /\ UNCHANGED <<main, app, faults, inVol, script, db, loaded, left>>
  BY DEF ToolReads, supVars, VInv, Current
<1>2. script \in Scripts /\ tool \in ToolStates
  BY DEF VInv, VideoTypeOK
<1>3. /\ tool'.does = main /\ tool'.stage = "read" /\ tool'.copy = Edits(main)
      /\ tool' \in ToolStates /\ CopyOK(HasRead(tool))
  BY <1>1, <1>2, HasReadIs, ReadsOK
<1>4. VideoTypeOK' /\ Current' /\ LeftSteps'
  BY <1>1, <1>3 DEF VInv, VideoTypeOK, Current, LeftSteps
<1>5. Copies'
  BY <1>1, <1>3 DEF VInv, Copies, CopyOK, Outlived
<1>6. /\ main = "sedMeta" => tool'.copy.root = script.root
      /\ main = "sedRoot" /\ script.root = "template" => tool'.copy.root = "actual"
      /\ main = "load" => tool'.copy.root = script.root
  BY <1>1, <1>2, <1>3, EditsAre
<1>7. ScriptSteps' /\ Loaded' /\ DatabaseSteps'
  BY <1>1, <1>3, <1>6
  DEF VInv, ScriptSteps, Loaded, Complete, Outlived, DatabaseSteps
<1>8. FirstSteps'
  BY <1>1, <1>3, <1>6 DEF VInv, FirstSteps, Tools
<1>9. QED
  BY <1>4, <1>5, <1>7, <1>8 DEF VInv

LEMMA SedEndsKeepsV ==
  ASSUME VInv, SupTypeOK, SedEnds
  PROVE  VInv'
<1>1. /\ main \in {"sedMeta", "sedRoot"} /\ main' \in Tools
      /\ main = "sedMeta" => main' = "sedRoot"
      /\ main = "sedRoot" => main' = "load"
      /\ tool.does = main /\ tool.stage = "read" /\ script' = tool.copy /\ tool' = Begun(main')
      /\ UNCHANGED <<app, faults, inVol, db, loaded, left>>
  BY DEF SedEnds, VInv, Current, Tools
<1>2. tool \in ToolStates /\ tool.copy \in Scripts
  BY DEF VInv, VideoTypeOK, ToolStates
<1>3. /\ tool'.does = main' /\ tool'.stage = "begun" /\ tool'.copy = Template
      /\ tool' \in ToolStates
  BY <1>1, ToolsAre
<1>4. CopyOK(tool)
  BY DEF VInv, Copies
<1>5. VideoTypeOK' /\ Current' /\ LeftSteps'
  BY <1>1, <1>2, <1>3 DEF VInv, VideoTypeOK, Current, LeftSteps
<1>6. Copies'
  BY <1>1, <1>3, ToolsAre DEF VInv, Copies, CopyOK, Outlived
<1>7. ScriptSteps'
  BY <1>1, <1>3, <1>4 DEF VInv, ScriptSteps, CopyOK, Outlived
<1>8. Loaded' /\ DatabaseSteps'
  BY <1>1 DEF VInv, Loaded, Complete, Outlived, DatabaseSteps, Tools
<1>9. FirstSteps'
  BY <1>1, <1>3 DEF VInv, FirstSteps
<1>10. QED
  BY <1>5, <1>6, <1>7, <1>8, <1>9 DEF VInv

(* Where nothing was disturbed, it is main's sqlite3 that reads. *)
LEMMA WhoLoads ==
  ASSUME VInv, SupTypeOK, NEW f \in 1 .. MaxFaults, Loading(left[f])
  PROVE  Outlived(Tools) /\ Outlived({"load"}) /\ faults # 0
<1>1. left[f].does = "load" /\ DOMAIN left = 1 .. MaxFaults
  BY DEF Loading, VInv, VideoTypeOK
<1>2. left[f] # Idle
  BY <1>1, ToolsAre
<1>3. QED
  BY <1>1, <1>2 DEF Outlived, Tools, VInv, LeftSteps

LEMMA OpenKeepsV ==
  ASSUME VInv, SupTypeOK, Open
  PROVE  VInv'
<1>1. /\ db = "none" /\ db' = "empty"
      /\ UNCHANGED <<main, app, faults, inVol, script, loaded, tool, left>>
  BY DEF Open, supVars
<1>2. main = "load" \/ (Outlived(Tools) /\ faults # 0)
  <2>1. CASE Loading(tool)
    BY <2>1, ToolsAre DEF Loading, VInv, Current
  <2>2. ASSUME NEW f \in DOMAIN left, Loading(left[f]) PROVE Outlived(Tools) /\ faults # 0
    BY <2>2, WhoLoads DEF VInv, VideoTypeOK
  <2>3. QED
    BY <2>1, <2>2 DEF Open
<1>3. VideoTypeOK' /\ Current' /\ LeftSteps' /\ Copies' /\ ScriptSteps' /\ Loaded'
  BY <1>1
  DEF VInv, VideoTypeOK, Current, LeftSteps, Copies, CopyOK, ScriptSteps, Loaded, Complete,
      Outlived
<1>4. DatabaseSteps'
  BY <1>1, <1>2 DEF VInv, DatabaseSteps, Outlived
<1>5. FirstSteps'
  BY <1>1, <1>2 DEF VInv, FirstSteps, Complete
<1>6. QED
  BY <1>3, <1>4, <1>5 DEF VInv

LEMMA LoadEndsKeepsV ==
  ASSUME VInv, SupTypeOK, LoadEnds
  PROVE  VInv'
<1>1. /\ main = "load" /\ tool.does = "load" /\ tool.stage = "read"
      /\ db' = "full" /\ loaded' = tool.copy /\ main' = "start" /\ tool' = Idle
      /\ UNCHANGED <<app, faults, inVol, script, left>>
  BY DEF LoadEnds, Loading
<1>2. tool \in ToolStates /\ tool.copy \in Scripts
  BY DEF VInv, VideoTypeOK, ToolStates
<1>3. CopyOK(tool)
  BY DEF VInv, Copies
<1>4. VideoTypeOK' /\ Current' /\ LeftSteps'
  BY <1>1, <1>2, ToolsAre DEF VInv, VideoTypeOK, Current, LeftSteps, Tools
<1>5. Copies' /\ ScriptSteps'
  BY <1>1, ToolsAre DEF VInv, Copies, CopyOK, ScriptSteps, Outlived
<1>6. Loaded'
  BY <1>1, <1>3 DEF Loaded, CopyOK, Outlived
<1>7. DatabaseSteps' /\ FirstSteps'
  BY <1>1 DEF VInv, DatabaseSteps, FirstSteps, Complete
<1>8. QED
  BY <1>4, <1>5, <1>6, <1>7 DEF VInv

(* The tool that main waits for fails, and the launcher ends. *)
LEMMA ToolGoneKeepsV ==
  ASSUME VInv, SupTypeOK, main \in Tools, main' = "off", tool' = Idle,
         UNCHANGED <<app, inVol, script, loaded, left>>,
         faults' \in Nat, faults' >= faults, faults' # 0,
         db' \in {"none", "empty", "full", "twice", "part"}, Complete' => Complete
  PROVE  VInv'
<1>1. faults \in Nat /\ MaxFaults \in Nat
  BY SupervisorAssumption DEF SupTypeOK
<1>2. VideoTypeOK' /\ Current'
  BY ToolsAre DEF VInv, VideoTypeOK, Current, Tools
<1>3. LeftSteps'
  BY <1>1 DEF VInv, LeftSteps
<1>4. Copies' /\ ScriptSteps' /\ Loaded'
  BY ToolsAre DEF VInv, Copies, CopyOK, ScriptSteps, Loaded, Outlived, Current
<1>5. DatabaseSteps' /\ FirstSteps'
  BY DEF DatabaseSteps, FirstSteps
<1>6. QED
  BY <1>2, <1>3, <1>4, <1>5 DEF VInv

LEMMA FailsKeepsV ==
  ASSUME VInv, SupTypeOK, LoadFails \/ ToolFails
  PROVE  VInv'
<1>1. main' = "off" /\ faults \in Nat
  BY DEF LoadFails, ToolFails, Gone, SupTypeOK
<1>2. CASE ToolFails
  BY <1>1, <1>2, ToolGoneKeepsV DEF ToolFails, Complete, VInv, VideoTypeOK
<1>3. CASE LoadFails
  <2>1. Loading(tool) /\ db # "none" /\ main = "load" /\ main \in Tools
    BY <1>3 DEF LoadFails, Tools
  <2>2. faults # 0
    <3>1. CASE db = "empty"
      BY <1>3, <3>1, WhoLoads DEF LoadFails, VInv, VideoTypeOK
    <3>2. CASE db # "empty"
      <4>1. Outlived(Tools)
        BY <2>1, <3>2 DEF VInv, DatabaseSteps
      <4>2. PICK f \in 1 .. MaxFaults : left[f].does \in Tools
        BY <4>1 DEF Outlived, VInv, VideoTypeOK
      <4>3. left[f] # Idle
        BY <4>2, ToolsAre DEF Tools
      <4>4. QED
        BY <4>3 DEF VInv, LeftSteps
    <3>3. QED
      BY <3>1, <3>2
  <2>3. /\ db' \in {"none", "empty", "full", "twice", "part"} /\ (Complete' => Complete)
        /\ UNCHANGED <<app, faults, inVol, script, loaded, left>> /\ tool' = Idle
    BY <1>3 DEF LoadFails, Complete
  <2>4. QED
    BY <1>1, <2>1, <2>2, <2>3, ToolGoneKeepsV
<1>4. QED
  BY <1>2, <1>3

-----------------------------------------------------------------------------
(* A tool that was left behind goes on from left[f] to t, and may write the *)
(* script, or complete the database.                                        *)
LEMMA LeftToolKeepsV ==
  ASSUME VInv, SupTypeOK, NEW f \in 1 .. MaxFaults, NEW t \in ToolStates,
         left[f].does \in Tools, t.does = left[f].does, CopyOK(t),
         left' = [left EXCEPT ![f] = t], UNCHANGED <<main, app, faults, inVol, tool>>,
         \/ script' = script
         \/ left[f].does # "load" /\ left[f].stage = "read" /\ script' = left[f].copy,
         \/ UNCHANGED <<db, loaded>>
         \/ /\ Loading(left[f])
            /\ db = "empty" /\ db' = "full" /\ loaded' = left[f].copy
  PROVE  VInv'
<1>1. /\ left \in [1 .. MaxFaults -> ToolStates] /\ left[f].copy \in Scripts
      /\ CopyOK(left[f]) /\ CopyOK(tool)
  BY DEF VInv, VideoTypeOK, ToolStates, Copies
<1>2. /\ left' \in [1 .. MaxFaults -> ToolStates]
      /\ \A g \in 1 .. MaxFaults : left'[g] = IF g = f THEN t ELSE left[g]
      /\ DOMAIN left = 1 .. MaxFaults /\ DOMAIN left' = 1 .. MaxFaults
  BY <1>1
<1>3. \A K \in SUBSET Tools : (\E g \in DOMAIN left' : left'[g].does \in K) <=> Outlived(K)
  BY <1>2 DEF Outlived
<1>4. /\ Outlived({"sedMeta"})' <=> Outlived({"sedMeta"})
      /\ Outlived({"load"})' <=> Outlived({"load"})
      /\ Outlived({"sedRoot", "load"})' <=> Outlived({"sedRoot", "load"})
      /\ Outlived(Tools)' <=> Outlived(Tools)
  BY <1>3 DEF Outlived, Tools
<1>5. Outlived(Tools) /\ faults # 0 /\ Outlived({left[f].does})
  BY <1>2, ToolsAre DEF Outlived, VInv, LeftSteps, Tools
<1>6. VideoTypeOK' /\ Current'
  BY <1>1, <1>2 DEF VInv, VideoTypeOK, Current
<1>7. LeftSteps'
  <2> SUFFICES ASSUME NEW g \in 1 .. MaxFaults, g > faults' \/ left'[g].does = "none"
               PROVE  left'[g] = Idle
    BY DEF LeftSteps
  <2>1. CASE g = f
    <3>1. left[f].does = "none" \/ f > faults
      BY <1>2, <2>1
    <3>2. left[f] = Idle
      BY <3>1 DEF VInv, LeftSteps
    <3>3. QED
      BY <3>2, ToolsAre DEF Tools
  <2>2. CASE g # f
    BY <1>2, <2>2 DEF VInv, LeftSteps
  <2>3. QED
    BY <2>1, <2>2
<1>8. Copies'
  <2>1. CopyOK(tool)'
    BY <1>1, <1>4 DEF CopyOK
  <2>2. ASSUME NEW g \in 1 .. MaxFaults PROVE CopyOK(left[g])'
    <3>1. CopyOK(left[g])
      BY DEF VInv, Copies
    <3>2. QED
      BY <1>2, <1>4, <3>1 DEF CopyOK
  <2>3. QED
    BY <2>1, <2>2 DEF Copies
<1>9. ScriptSteps'
  <2>1. CASE script' = script
    BY <1>4, <2>1 DEF VInv, ScriptSteps
  <2>2. CASE left[f].does # "load" /\ left[f].stage = "read" /\ script' = left[f].copy
    <3>1. left[f].does = "sedRoot" \/ (left[f].does = "sedMeta" /\ Outlived({"sedMeta"}))
      BY <1>5, <2>2 DEF Tools
    <3>2. QED
      BY <1>1, <1>4, <2>2, <3>1 DEF VInv, ScriptSteps, CopyOK
  <2>3. QED
    BY <2>1, <2>2
<1>10. Loaded'
  BY <1>1, <1>4 DEF VInv, Loaded, Loading, Complete, CopyOK
<1>11. DatabaseSteps' /\ FirstSteps'
  BY <1>4, <1>5 DEF VInv, DatabaseSteps, FirstSteps
<1>12. QED
  BY <1>6, <1>7, <1>8, <1>9, <1>10, <1>11 DEF VInv

LEMMA LeftKeepsV ==
  ASSUME VInv, SupTypeOK, NEW f \in DOMAIN left, LeftReads(f) \/ LeftEdits(f) \/ LeftLoads(f)
  PROVE  VInv'
<1>1. /\ f \in 1 .. MaxFaults /\ left[f] \in ToolStates /\ script \in Scripts
      /\ UNCHANGED <<main, app, faults, inVol, tool>>
  BY DEF VInv, VideoTypeOK, LeftReads, LeftEdits, LeftLoads, supVars
<1>2. left[f] # Idle
  BY ToolsAre DEF LeftReads, LeftEdits, LeftLoads, Loading
<1>3. left[f].does \in Tools
  BY <1>1, <1>2 DEF VInv, LeftSteps, ToolStates
<1>4. CASE LeftReads(f)
  <2>1. left' = [left EXCEPT ![f] = HasRead(left[f])] /\ UNCHANGED <<script, db, loaded>>
    BY <1>4 DEF LeftReads
  <2>2. CopyOK(HasRead(left[f]))
    BY <1>1, <1>3, ReadsOK DEF Outlived
  <2>3. QED
    BY <1>1, <1>3, <2>1, <2>2, HasReadIs, LeftToolKeepsV
<1>5. CopyOK(HasEnded(left[f]))
  BY <1>1, HasEndedIs, ToolsAre DEF CopyOK
<1>6. CASE LeftEdits(f)
  <2>1. /\ left' = [left EXCEPT ![f] = HasEnded(left[f])] /\ UNCHANGED <<db, loaded>>
        /\ left[f].does # "load" /\ left[f].stage = "read" /\ script' = left[f].copy
    BY <1>6 DEF LeftEdits
  <2>2. QED
    BY <1>1, <1>3, <1>5, <2>1, HasEndedIs, LeftToolKeepsV
<1>7. CASE LeftLoads(f)
  <2>1. /\ left' = [left EXCEPT ![f] = HasEnded(left[f])] /\ UNCHANGED script
        /\ Loading(left[f])
        /\ \/ UNCHANGED <<db, loaded>>
           \/ db = "empty" /\ db' = "full" /\ loaded' = left[f].copy
    BY <1>7 DEF LeftLoads
  <2>2. QED
    BY <1>1, <1>3, <1>5, <2>1, HasEndedIs, LeftToolKeepsV
<1>8. QED
  BY <1>4, <1>6, <1>7

LEMMA VideoKeeps ==
  ASSUME LInv, VideoStep \/ ToolFails \/ LeftStep, UNCHANGED <<musicVars, clients>>
  PROVE  LInv'
<1>1. MusicTypeOK' /\ clients' \in BOOLEAN /\ UNCHANGED <<link, seed, orphan>>
  BY DEF LInv, LauncherTypes, MusicTypeOK, musicVars
<1>2. VInv'
  BY StatKeepsV, ToolReadsKeepsV, SedEndsKeepsV, OpenKeepsV, LoadEndsKeepsV, FailsKeepsV,
     LeftKeepsV
  DEF LInv, LauncherTypes, VideoStep, LeftStep
<1>3. CASE ToolFails \/ LoadFails
  <2>1. /\ main' = "off" /\ ctx' = FALSE /\ group' = NoGroup
        /\ stray' \in [leader : {"none", "term"}, helpers : {"none", "up", "term"}]
    BY <1>3, GroupTypes DEF ToolFails, LoadFails, LInv, LauncherTypes
  <2>2. /\ app' = app /\ faults' \in 0 .. MaxFaults
    BY <1>3, SupervisorAssumption
    DEF ToolFails, LoadFails, LInv, LauncherTypes, SupTypeOK
  <2>3. SupTypeOK'
    BY <2>1, <2>2 DEF LInv, LauncherTypes, SupTypeOK, NoGroup
  <2>4. Grouped' /\ OwnSteps' /\ LinkSteps'
    BY <1>1, <2>1, <2>2 DEF LInv, Grouped, OwnSteps, LinkSteps, Tools
  <2>5. QED
    BY <1>1, <1>2, <2>3, <2>4 DEF LInv, LauncherTypes
<1>4. CASE Stat \/ ToolReads \/ SedEnds \/ Open \/ LoadEnds \/ LeftStep
  <2>1. /\ UNCHANGED <<app, ctx, group, stray, faults>>
        /\ \/ main' = main
           \/ main \in {"stat"} \cup Tools /\ main' \in Tools \cup {"start"}
    BY <1>4
    DEF Stat, ToolReads, SedEnds, Open, LoadEnds, LeftStep, LeftReads, LeftEdits, LeftLoads,
        supVars, Tools
  <2>2. SupTypeOK' /\ Grouped' /\ OwnSteps' /\ LinkSteps'
    BY <1>1, <2>1
    DEF LInv, LauncherTypes, SupTypeOK, Grouped, OwnSteps, LinkSteps, Tools, Preparing
  <2>3. QED
    BY <1>1, <1>2, <2>2 DEF LInv, LauncherTypes
<1>5. QED
  BY <1>3, <1>4 DEF VideoStep

-----------------------------------------------------------------------------
(* Steps of fnmusic are of no concern to fntv's files. *)
LEMMA MusicKeepsV ==
  ASSUME LInv, app = "fnmusic", UNCHANGED <<videoVars, app>>, main' \notin Tools,
         faults' \in Nat, faults' >= faults
  PROVE  VInv'
<1>1. main \notin Tools
  BY DEF LInv, OwnSteps, Tools
<1>2. QED
  BY <1>1, OthersKeepV DEF LInv, LauncherTypes

(* The launcher ends while it prepares, or when the import has failed. *)
LEMMA MusicEndKeeps ==
  ASSUME LInv, app = "fnmusic", Gone(group), seed' = "off", orphan' \in {orphan, FALSE},
         faults' \in 0 .. MaxFaults, faults' >= faults, MusicTypeOK',
         UNCHANGED <<app, videoVars, clients>>
  PROVE  LInv'
<1>1. /\ main' = "off" /\ ctx' = FALSE /\ group' = NoGroup
      /\ stray' \in [leader : {"none", "term"}, helpers : {"none", "up", "term"}]
  BY GroupTypes DEF LInv, LauncherTypes
<1>2. SupTypeOK'
  BY <1>1 DEF LInv, LauncherTypes, SupTypeOK, NoGroup
<1>3. VInv'
  BY <1>1, SupervisorAssumption, MusicKeepsV DEF Tools
<1>4. Grouped' /\ OwnSteps' /\ LinkSteps'
  BY <1>1 DEF LInv, Grouped, OwnSteps, LinkSteps, Tools
<1>5. QED
  BY <1>2, <1>3, <1>4 DEF LInv, LauncherTypes

LEMMA MusicKeeps ==
  ASSUME LInv, LinkStep \/ SeedStep \/ MusicFails \/ MusicServer,
         UNCHANGED <<videoVars, clients>>
  PROVE  LInv'
<1>1. clients' \in BOOLEAN
  BY DEF LInv, LauncherTypes
<1>2. faults \in Nat /\ faults \in 0 .. MaxFaults /\ MaxFaults \in Nat
  BY SupervisorAssumption DEF LInv, LauncherTypes, SupTypeOK
<1>3. CASE SeedStep \/ MusicServer
  <2>1. /\ UNCHANGED <<supVars, link>>
        /\ seed' # "off" \/ orphan' => seed # "off" \/ orphan \/ app = "fnmusic"
    BY <1>3 DEF SeedStep, SeedStarts, SeedStops, Count, Import, Importing, MusicServer
  <2>2. MusicTypeOK'
    <3>1. CASE SeedStarts \/ SeedStops \/ MusicServer
      BY <3>1 DEF SeedStarts, SeedStops, MusicServer, LInv, LauncherTypes, MusicTypeOK, Rows
    <3>2. CASE Count
      BY <3>2 DEF Count, LInv, LauncherTypes, MusicTypeOK, Rows
    <3>3. CASE Import
      BY <3>3 DEF Import, Imported, LInv, LauncherTypes, MusicTypeOK, Rows
    <3>4. QED
      BY <1>3, <3>1, <3>2, <3>3 DEF SeedStep
  <2>3. VInv'
    BY <2>1, StutterKeepsV DEF supVars, LInv
  <2>4. SupTypeOK' /\ Grouped' /\ OwnSteps' /\ LinkSteps'
    BY <2>1 DEF supVars, LInv, LauncherTypes, SupTypeOK, Grouped, OwnSteps, LinkSteps
  <2>5. QED
    BY <1>1, <2>2, <2>3, <2>4 DEF LInv, LauncherTypes
<1>4. CASE CountFails
  <2>1. /\ UNCHANGED <<app, main, ctx, group, stray, musicVars>> /\ seed = "poll"
        /\ faults' = faults + 1 /\ faults' \in 0 .. MaxFaults
    BY <1>2, <1>4 DEF CountFails
  <2>2. app = "fnmusic" /\ main \notin Tools
    BY <2>1 DEF LInv, OwnSteps, Tools
  <2>3. VInv'
    BY <1>2, <2>1, <2>2, MusicKeepsV
  <2>4. SupTypeOK' /\ MusicTypeOK' /\ Grouped' /\ OwnSteps' /\ LinkSteps'
    BY <1>2, <2>1
    DEF musicVars, LInv, LauncherTypes, SupTypeOK, MusicTypeOK, Grouped, OwnSteps, LinkSteps
  <2>5. QED
    BY <1>1, <2>3, <2>4 DEF LInv, LauncherTypes
<1>5. CASE ImportFails
  <2>1. MusicTypeOK' /\ link' = link /\ orphan' \in {orphan, FALSE} /\ seed' \in {seed, "off"}
    <3>1. /\ music' \in {music, "partial", Imported} /\ link' = link
          /\ orphan' \in {orphan, FALSE} /\ seed' \in {seed, "off"}
      BY <1>5 DEF ImportFails
    <3>2. QED
      BY <3>1 DEF Imported, LInv, LauncherTypes, MusicTypeOK, Rows
  <2>2. /\ faults' = faults + 1 /\ faults' \in 0 .. MaxFaults /\ app' = app
        /\ app = "fnmusic"
    BY <1>2, <1>5 DEF ImportFails, Importing, LInv, OwnSteps
  <2>3. CASE Gone(group) /\ seed' = "off"
    <3>1. faults' >= faults
      BY <1>2, <2>2
    <3>2. QED
      BY <2>1, <2>2, <2>3, <3>1, MusicEndKeeps
  <2>4. CASE UNCHANGED <<main, ctx, group, stray, seed>>
    <3>1. main' \notin Tools
      BY <2>2, <2>4 DEF LInv, OwnSteps, Tools
    <3>2. VInv'
      BY <1>2, <2>2, <3>1, MusicKeepsV
    <3>3. SupTypeOK' /\ Grouped' /\ OwnSteps' /\ LinkSteps'
      BY <1>2, <2>1, <2>2, <2>4
      DEF LInv, LauncherTypes, SupTypeOK, Grouped, OwnSteps, LinkSteps
    <3>4. QED
      BY <1>1, <2>1, <3>2, <3>3 DEF LInv, LauncherTypes
  <2>5. QED
    BY <1>5, <2>3, <2>4 DEF ImportFails
<1>6. CASE LinkStep /\ ~Fail
  <2>1. /\ UNCHANGED <<app, ctx, group, stray, music, seed, orphan>>
        /\ main \in {"lstat", "unlink", "symlink"}
        /\ main' \in {"unlink", "symlink", "start"}
        /\ faults' \in 0 .. MaxFaults /\ faults' >= faults
        /\ link' \in {link, "none", "right"}
    BY <1>6, SupervisorAssumption
    DEF LinkStep, Lstat, Unlink, Symlink, To, musicVars, LInv, LauncherTypes, SupTypeOK
  <2>2. SupTypeOK' /\ MusicTypeOK'
    BY <2>1 DEF LInv, LauncherTypes, SupTypeOK, MusicTypeOK, Preparing
  <2>3. app = "fnmusic" /\ main' \notin Tools
    BY <2>1 DEF LInv, OwnSteps, Tools
  <2>4. LinkSteps'
    BY <1>6, <2>1
    DEF LinkStep, Lstat, Unlink, Symlink, To, musicVars, LInv, LauncherTypes, SupTypeOK, LinkSteps
  <2>5. Grouped' /\ OwnSteps'
    BY <2>1, <2>3 DEF LInv, Grouped, OwnSteps
  <2>6. VInv'
    BY <1>2, <2>1, <2>3, MusicKeepsV
  <2>7. QED
    BY <1>1, <2>2, <2>4, <2>5, <2>6 DEF LInv, LauncherTypes
<1>7. CASE (Fail /\ LinkStep) \/ SymlinkFails
  <2>1. /\ Gone(group) /\ seed' = "off" /\ UNCHANGED <<app, link, music, orphan>>
        /\ faults' \in 0 .. MaxFaults /\ faults' >= faults
        /\ main \in {"lstat", "unlink", "symlink"}
    BY <1>2, <1>7 DEF Fail, SymlinkFails, LinkStep, Lstat, Unlink, Symlink
  <2>2. app = "fnmusic" /\ MusicTypeOK'
    BY <2>1 DEF LInv, LauncherTypes, OwnSteps, MusicTypeOK
  <2>3. QED
    BY <2>1, <2>2, MusicEndKeeps
<1>8. QED
  BY <1>3, <1>4, <1>5, <1>6, <1>7 DEF MusicFails

LEMMA NextLInv == LInv /\ [Next]_stackVars => LInv'
<1> SUFFICES ASSUME LInv, [Next]_stackVars PROVE LInv'
  OBVIOUS
<1>1. CASE OfLauncher(Boot \/ SupStep \/ SupExternal)
  BY <1>1, SupKeeps DEF OfLauncher
<1>2. CASE OfVideo(VideoStep \/ ToolFails \/ LeftStep)
  BY <1>2, VideoKeeps DEF OfVideo
<1>3. CASE OfMusic(LinkStep \/ SeedStep \/ MusicFails \/ MusicServer)
  BY <1>3, MusicKeeps DEF OfMusic
<1>4. CASE ServeProxy \/ Handlers \/ UNCHANGED stackVars
  <2>1. UNCHANGED <<supVars, videoVars, musicVars, clients>>
    BY <1>4 DEF ServeProxy, Handlers, stackVars
  <2>2. VInv'
    BY <2>1, StutterKeepsV DEF supVars, LInv
  <2>3. QED
    BY <2>1, <2>2
    DEF supVars, musicVars, LInv, LauncherTypes, SupTypeOK, MusicTypeOK, Grouped, OwnSteps,
        LinkSteps
<1>5. QED
  BY <1>1, <1>2, <1>3, <1>4 DEF Next

(* The types, and how far each preparation got at each step. *)
THEOREM StackInvariant == Spec => []LInv
BY InitLInv, NextLInv, PTL DEF Spec

-----------------------------------------------------------------------------
(* trim-media finds a database, complete and with the actual paths if no   *)
(* start was disturbed, and, however many were, never a mangled path where *)
(* the actual ones do not contain /vol1: not even the tools of launchers   *)
(* that were killed, which go on beside the next ones, do more than put    *)
(* the template's cache path back.                                         *)
THEOREM DatabaseIsInitialised == Spec => []DatabaseInitialised
<1>1. LInv => DatabaseInitialised
  <2> SUFFICES ASSUME LInv PROVE DatabaseInitialised
    OBVIOUS
  <2>1. loaded.meta \in Lines /\ loaded.root \in Lines
    BY DEF LInv, VInv, VideoTypeOK, Scripts
  <2>2. DatabaseSteps /\ FirstSteps /\ Loaded
    BY DEF LInv, VInv
  <2>3. QED
    BY <2>1, <2>2 DEF DatabaseSteps, FirstSteps, Loaded, Lines, DatabaseInitialised
<1>2. QED
  BY <1>1, StackInvariant, PTL

(* A complete database stays so and keeps its paths; where no tool outlived *)
(* its launcher it is not initialised again, nor its script edited.         *)
THEOREM CompleteStays == Spec => CompleteIsKept
<1>1. ASSUME LInv, [Next]_stackVars, Complete
      PROVE  /\ Complete' /\ UNCHANGED loaded
             /\ Outlived(Tools) \/ UNCHANGED <<db, script>>
  <2>1. CASE OfVideo(VideoStep \/ ToolFails \/ LeftStep)
    <3>1. Outlived(Tools) \/ main \notin Tools
      BY <1>1 DEF LInv, VInv, DatabaseSteps, Complete, Tools
    <3>2. CASE Stat \/ ToolReads \/ ToolFails
      BY <1>1, <3>2 DEF Stat, ToolReads, ToolFails, Complete
    <3>3. CASE Open \/ LoadEnds
      BY <1>1, <3>3 DEF Open, LoadEnds, Complete
    <3>4. CASE SedEnds
      BY <1>1, <3>1, <3>4 DEF SedEnds, Complete, Tools
    <3>5. CASE LoadFails
      BY <1>1, <3>1, <3>5 DEF LoadFails, Complete, Tools
    <3>6. CASE LeftStep
      <4>1. PICK f \in 1 .. MaxFaults : LeftReads(f) \/ LeftEdits(f) \/ LeftLoads(f)
        BY <1>1, <3>6 DEF LeftStep, LInv, VInv, VideoTypeOK
      <4>2. left[f] # Idle /\ left[f].does \in Tools \cup {"none"} /\ DOMAIN left = 1 .. MaxFaults
        BY <1>1, <4>1, ToolsAre
        DEF LeftReads, LeftEdits, LeftLoads, Loading, LInv, VInv, VideoTypeOK, ToolStates
      <4>3. Outlived(Tools)
        BY <1>1, <4>2 DEF Outlived, LInv, VInv, LeftSteps
      <4>4. QED
        BY <1>1, <4>1, <4>3 DEF LeftReads, LeftEdits, LeftLoads, Complete
    <3>7. QED
      BY <2>1, <3>2, <3>3, <3>4, <3>5, <3>6 DEF OfVideo, VideoStep
  <2>2. CASE ~OfVideo(VideoStep \/ ToolFails \/ LeftStep)
    <3>1. UNCHANGED <<db, loaded, script>>
      BY <1>1, <2>2
      DEF Next, OfLauncher, ToolOutlivesMain, OfMusic, ServeProxy, Handlers, videoVars, stackVars
    <3>2. QED
      BY <1>1, <3>1 DEF Complete
  <2>3. QED
    BY <2>1, <2>2
<1>2. LInv /\ [Next]_stackVars
        => [Complete => /\ Complete' /\ UNCHANGED loaded
                        /\ Outlived(Tools) \/ UNCHANGED <<db, script>>]_videoVars
  BY <1>1
<1>3. QED
  BY <1>2, StackInvariant, PTL DEF Spec, CompleteIsKept

(* A start of fnmusic comes to the right link, whatever it finds. *)
THEOREM LinkAlwaysRepaired == Spec => LinkIsRepaired
<1>1. ASSUME LInv, [Next]_stackVars, main' = "off", main \in {"lstat", "unlink", "symlink"}
      PROVE  link = "file" \/ faults' > faults \/ (link = "wrong" /\ faults > 0)
  <2>1. faults \in Nat
    BY <1>1 DEF LInv, LauncherTypes, SupTypeOK
  <2>2. CASE LinkStep
    BY <1>1, <2>2
    DEF LinkStep, Lstat, Unlink, Symlink, To, LInv, LauncherTypes, MusicTypeOK, LinkSteps
  <2>3. CASE MusicFails \/ ToolFails \/ Kill
    BY <2>1, <2>3 DEF MusicFails, SymlinkFails, CountFails, ImportFails, ToolFails, Kill
  <2>4. CASE ~LinkStep /\ ~(MusicFails \/ ToolFails \/ Kill)
    BY <1>1, <2>4
    DEF Next, OfLauncher, OfVideo, OfMusic, Boot, SupStep, SupExternal, Start, StartFails,
        SetCancel, CtxDone, Waited, Finish, Signal, Fork, LeaderEnds, HelpersEnd, StrayEnds,
        VideoStep, Stat, ToolReads, SedEnds, Open, LoadEnds, LoadFails, LeftStep, LeftReads,
        LeftEdits, LeftLoads, Tools, SeedStep, SeedStarts, SeedStops, Count, Import, MusicServer,
        ServeProxy, Handlers, supVars, stackVars
  <2>5. QED
    BY <2>2, <2>3, <2>4
<1>2. LInv /\ [Next]_stackVars
        => [main' = "off" /\ main \in {"lstat", "unlink", "symlink"}
              => link = "file" \/ faults' > faults \/ (link = "wrong" /\ faults > 0)]_supVars
  BY <1>1
<1>3. QED
  BY <1>2, StackInvariant, PTL DEF Spec, LinkIsRepaired

(* Seeding leaves rows alone, but for an import that was begun before the *)
(* user finished the setup.                                               *)
THEOREM RowsStay == Spec => RowsAreKept
<1>1. ASSUME LInv, [Next]_stackVars, music \in Rows
      PROVE  /\ Importing' => Importing
             /\ music' # music => music = "official" /\ Importing
  <2>1. CASE SeedStep
    BY <1>1, <2>1
    DEF SeedStep, SeedStarts, SeedStops, Count, Import, Imported, Importing, Rows
  <2>2. CASE MusicFails
    BY <1>1, <2>2
    DEF MusicFails, SymlinkFails, CountFails, ImportFails, Imported, Importing, musicVars, Rows
  <2>3. CASE LinkStep \/ MusicServer
    BY <1>1, <2>3
    DEF LinkStep, Lstat, Unlink, Symlink, Fail, MusicServer, musicVars, Importing, Rows
  <2>4. CASE EndsWithMain
    <3>1. music' = music
      BY <2>4 DEF EndsWithMain
    <3>2. (seed' = "off" /\ orphan' = Importing) \/ UNCHANGED <<seed, orphan>>
      BY <2>4 DEF EndsWithMain
    <3>3. Importing' => Importing
      BY <3>2, Zenon DEF Importing
    <3>4. QED
      BY <3>1, <3>3
  <2>5. CASE UNCHANGED musicVars
    BY <2>5 DEF musicVars, Importing
  <2>6. QED
    BY <1>1, <2>1, <2>2, <2>3, <2>4, <2>5
    DEF Next, OfLauncher, OfVideo, OfMusic, ServeProxy, Handlers, stackVars
<1>2. LInv /\ [Next]_stackVars
        => [(music \in Rows) => /\ (Importing' => Importing)
                                /\ (music' # music => music = "official" /\ Importing)]_musicVars
  BY <1>1
<1>3. QED
  BY <1>2, StackInvariant, PTL DEF Spec, RowsAreKept

(* Only a kill, or the fatal exit of a failed seeding, leaves helpers of a *)
(* server that were not told to end.                                       *)
THEOREM NothingIsLeft == Spec => NothingLeftUntold
<1>1. ASSUME LInv, [Next]_stackVars, stray.helpers # "up", stray'.helpers = "up"
      PROVE  faults' > faults
  <2>1. faults \in Nat
    BY <1>1 DEF LInv, LauncherTypes, SupTypeOK
  <2>2. CASE MusicFails \/ ToolFails \/ Kill
    BY <2>1, <2>2 DEF MusicFails, SymlinkFails, CountFails, ImportFails, ToolFails, Kill
  <2>3. CASE Finish
    BY <1>1, <2>3 DEF Finish, Gone, TermGroup, Told, Worse, LInv, LauncherTypes, SupTypeOK
  <2>4. CASE StartFails \/ LoadFails \/ Lstat \/ Symlink
    BY <1>1, <2>4
    DEF StartFails, LoadFails, Lstat, Symlink, Fail, To, Gone, Worse, NoGroup, LInv, Grouped
  <2>5. CASE StrayEnds
    BY <1>1, <2>5 DEF StrayEnds, LInv, LauncherTypes, SupTypeOK
  <2>6. CASE ~(MusicFails \/ ToolFails \/ Kill \/ Finish \/ StartFails \/ LoadFails \/ Lstat
               \/ Symlink \/ StrayEnds)
    BY <1>1, <2>6
    DEF Next, OfLauncher, OfVideo, OfMusic, Boot, SupStep, SupExternal, Start, SetCancel, CtxDone,
        Signal, Fork, LeaderEnds, HelpersEnd, VideoStep, Stat, ToolReads, SedEnds, Open, LoadEnds,
        LeftStep, LeftReads, LeftEdits, LeftLoads, LinkStep, Unlink, To, SeedStep, SeedStarts,
        SeedStops, Count, Import, MusicServer, ServeProxy, Handlers, supVars, stackVars
  <2>7. QED
    BY <2>2, <2>3, <2>4, <2>5, <2>6
<1>2. LInv /\ [Next]_stackVars
        => [stray.helpers # "up" /\ stray'.helpers = "up" => faults' > faults]_supVars
  BY <1>1
<1>3. QED
  BY <1>2, StackInvariant, PTL DEF Spec, NothingLeftUntold

-----------------------------------------------------------------------------
(***************************************************************************)
(* The gateway.  A request keeps the refusal it met; one that met none     *)
(* makes its calls while the outcomes let it, and is done when they do     *)
(* not; only the answer to a raw request is copied, and it is whole until  *)
(* then.                                                                   *)
(***************************************************************************)
AnyOutcome == {"down", "empty", "sized", "chunked", "garbled", "refused", "lacking", "ok"}

AnyRequest ==
  [pc      : {"idle", "call", "copy", "done"},
   r       : Requests \cup {Plain},
   refusal : Refusals \cup {None},
   got     : Seq(AnyOutcome),
   whole   : BOOLEAN,
   trusted : BOOLEAN]

GateTypes ==
  /\ gate \in {"off", "open", "failed", "closing"}
  /\ req \in AnyRequest

(* The calls made are those of the request, and a request that was refused *)
(* made none.                                                              *)
CallsMade ==
  /\ Len(req.got) <= Len(Calls(req.r))
  /\ req.got # <<>> => req.got[1] \in Outcomes(req.r)
  /\ req.pc # "idle" => req.refusal = Refusal(req.r)
  /\ req.refusal # None => req.got = <<>>
  /\ req.pc \in {"call", "copy"} => req.refusal = None /\ req.whole
  /\ req.pc = "call" => req.got = <<>> \/ GoesOn(req.r, req.got)

(* How far the calls of an answered request got. *)
CallsEnded ==
  /\ req.pc = "copy" => req.r.kind \in Raw /\ req.got # <<>> /\ req.got[1] # "down"
  /\ req.pc = "done" /\ req.refusal = None => req.got # <<>> /\ ~GoesOn(req.r, req.got)

GInv ==
  /\ GateTypes
  /\ CallsMade
  /\ CallsEnded
  /\ CutIsNoticed

(* Every request is of a kind of its own, and a kind makes known calls. *)
LEMMA KindIs ==
  ASSUME NEW r \in Requests \cup {Plain}
  PROVE  r.kind \in {"list", "plainList", "item", "action", "settings", "upload", "join", "leave",
                     "media", "preset", "legacy", "login", "boot"}
<1>1. Kinds = {"list", "plainList", "item", "action", "settings", "upload", "join", "leave",
               "media", "preset", "legacy", "login", "boot"}
  BY DEF Kinds, Methods, Raw
<1>2. Checked \subseteq Kinds /\ Listed \subseteq Kinds /\ "boot" \in Kinds
  BY <1>1 DEF Checked, Listed
<1>3. CASE r \in {Request(k, m, Missing, Missing) :
                     k \in Kinds, m \in Anything \cup {"OPTIONS"}}
  <2>1. \E k \in Kinds : \E m \in Anything \cup {"OPTIONS"} :
          r = Request(k, m, Missing, Missing)
    BY <1>3
  <2>2. QED
    BY <1>1, <2>1 DEF Request
<1>4. CASE r \in {[Request(k, m, Missing, Missing) EXCEPT !.valid = FALSE] :
                     k \in Checked \cup {"action", "settings"}, m \in Anything}
  <2>1. \E k \in Checked \cup {"action", "settings"} : \E m \in Anything :
          r = [Request(k, m, Missing, Missing) EXCEPT !.valid = FALSE]
    BY <1>4
  <2>2. QED
    BY <1>1, <1>2, <2>1 DEF Request
<1>5. CASE r \in {Request(k, "GET", s, l) : k \in Listed, s \in Param, l \in Param}
  <2>1. \E k \in Listed : \E s \in Param : \E l \in Param : r = Request(k, "GET", s, l)
    BY <1>5
  <2>2. QED
    BY <1>1, <1>2, <2>1 DEF Request
<1>6. CASE r = Plain
  BY <1>6 DEF Plain, Request
<1>7. QED
  BY <1>3, <1>4, <1>5, <1>6 DEF Requests

LEMMA CallsOf ==
  ASSUME NEW r \in Requests \cup {Plain}
  PROVE  /\ Len(Calls(r)) \in Nat \ {0}
         /\ r.kind \in Raw => Len(Calls(r)) = 1
         /\ r.kind = "boot" => Len(Calls(r)) = 3
         /\ r.kind = "login" => Len(Calls(r)) = 2
<1>1. CASE r.kind = "login"
  <2>1. Calls(r) = <<"password", "tempToken">>
    BY <1>1 DEF Calls
  <2>2. QED
    BY <1>1, <2>1 DEF Raw
<1>2. CASE r.kind = "boot"
  <2>1. Calls(r) = <<"user", "initState", "sysConfig">>
    BY <1>2 DEF Calls
  <2>2. QED
    BY <1>2, <2>1 DEF Raw
<1>3. CASE r.kind \in {"join", "leave"}
  <2>1. Calls(r) = <<"user">>
    BY <1>3 DEF Calls
  <2>2. QED
    BY <1>3, <2>1 DEF Raw
<1>4. CASE r.kind \notin {"login", "boot", "join", "leave"}
  <2>1. Calls(r) = <<r.kind>>
    BY <1>4 DEF Calls
  <2>2. QED
    BY <1>4, <2>1
<1>5. QED
  BY <1>1, <1>2, <1>3, <1>4

LEMMA RefusalIs ==
  ASSUME NEW r
  PROVE  Refusal(r) \in Refusals \cup {None}
BY DEF Refusal, Refusals

(* Nothing is known of a request that is not there. *)
LEMMA NoReqIs ==
  /\ NoReq \in AnyRequest
  /\ NoReq.pc = "idle" /\ NoReq.refusal = None /\ NoReq.got = <<>> /\ NoReq.r = Plain
  /\ Len(Calls(Plain)) \in Nat \ {0}
<1> DEFINE yes == TRUE
<1>1. <<>> \in Seq(AnyOutcome) /\ yes \in BOOLEAN /\ Plain \in Requests \cup {Plain}
  OBVIOUS
<1>2. NoReq = [pc |-> "idle", r |-> Plain, refusal |-> None, got |-> <<>>,
               whole |-> yes, trusted |-> yes]
  BY DEF NoReq
<1> HIDE DEF yes
<1>3. NoReq \in AnyRequest
  BY <1>1, <1>2 DEF AnyRequest
<1>4. QED
  BY <1>2, <1>3, CallsOf

LEMMA ArriveGood ==
  ASSUME GInv, NEW r \in Requests, Arrive(r)
  PROVE  GInv'
<1> DEFINE pc == IF Refusal(r) = None THEN "call" ELSE "done"
<1>1. /\ req' = [NoReq EXCEPT !.r = r, !.refusal = Refusal(r), !.pc = pc]
      /\ gate' = gate
  BY DEF Arrive
<1>2. /\ req' = [pc |-> pc, r |-> r, refusal |-> Refusal(r), got |-> <<>>,
                 whole |-> TRUE, trusted |-> TRUE]
  BY <1>1 DEF NoReq
<1>3. pc \in {"call", "done"} /\ Refusal(r) \in Refusals \cup {None}
  BY RefusalIs
<1>4. pc = "call" <=> Refusal(r) = None
  OBVIOUS
<1> HIDE DEF pc
<1>5. GateTypes'
  <2> DEFINE yes == TRUE
  <2>1. <<>> \in Seq(AnyOutcome) /\ yes \in BOOLEAN
    OBVIOUS
  <2>2. req' = [pc |-> pc, r |-> r, refusal |-> Refusal(r), got |-> <<>>,
                whole |-> yes, trusted |-> yes]
    BY <1>2
  <2> HIDE DEF yes
  <2>3. req' \in AnyRequest
    BY <1>3, <2>1, <2>2 DEF AnyRequest
  <2>4. QED
    BY <1>1, <2>3 DEF GInv, GateTypes, AnyRequest
<1>6. Len(Calls(r)) \in Nat \ {0}
  BY CallsOf
<1>7. /\ req'.pc = pc /\ req'.r = r /\ req'.refusal = Refusal(r) /\ req'.got = <<>> /\ req'.whole
  BY <1>2
<1>8. CallsMade' /\ CallsEnded' /\ CutIsNoticed'
  BY <1>3, <1>4, <1>6, <1>7 DEF CallsMade, CallsEnded, CutIsNoticed
<1>9. QED
  BY <1>5, <1>8 DEF GInv

LEMMA UpstreamGood ==
  ASSUME GInv, NEW up, Upstream(up)
  PROVE  GInv'
<1>1. PICK o \in Outcomes(req.r) :
        req' = [req EXCEPT !.got = Append(req.got, o),
                           !.pc = IF req.r.kind \in Raw /\ o # "down" THEN "copy"
                                  ELSE IF GoesOn(req.r, Append(req.got, o)) THEN "call" ELSE "done"]
  BY DEF Upstream
<1> DEFINE r == req.r
           got == Append(req.got, o)
           pc == IF r.kind \in Raw /\ o # "down" THEN "copy"
                 ELSE IF GoesOn(r, got) THEN "call" ELSE "done"
<1>2. /\ r \in Requests \cup {Plain} /\ req.got \in Seq(AnyOutcome)
      /\ req.refusal = None /\ req.whole /\ req.trusted \in BOOLEAN
      /\ req.got = <<>> \/ GoesOn(r, req.got)
      /\ req.refusal = Refusal(r)
      /\ gate' = gate
  BY DEF Upstream, GInv, GateTypes, AnyRequest, CallsMade
<1>3. o \in AnyOutcome
  BY <1>1 DEF Outcomes, AnyOutcome
<1>4. got \in Seq(AnyOutcome) /\ Len(got) = Len(req.got) + 1 /\ Len(req.got) \in Nat
      /\ got # <<>>
  <2>1. req.got \in Seq(AnyOutcome) /\ Len(req.got) \in Nat
    BY <1>2
  <2>2. got \in Seq(AnyOutcome) /\ Len(got) = Len(req.got) + 1
    BY <1>3, <2>1
  <2>3. got # <<>>
    BY <2>1, <2>2
  <2>4. QED
    BY <2>1, <2>2, <2>3
<1>5. got[1] = IF req.got = <<>> THEN o ELSE req.got[1]
  BY <1>2, <1>3
<1>6. pc \in {"call", "copy", "done"}
  OBVIOUS
<1>7. /\ r.kind \in Raw /\ o # "down" => pc = "copy"
      /\ ~(r.kind \in Raw /\ o # "down") => pc # "copy" /\ (pc = "call" <=> GoesOn(r, got))
  OBVIOUS
<1>8. Len(Calls(r)) \in Nat \ {0} /\ (r.kind \in Raw => Len(Calls(r)) = 1)
  BY <1>2, CallsOf
<1>9. Len(req.got) < Len(Calls(r)) /\ (r.kind \in Raw => req.got = <<>>)
  <2>1. CASE req.got = <<>>
    <3>1. Len(req.got) = 0
      BY <2>1
    <3>2. QED
      BY <1>8, <2>1, <3>1
  <2>2. CASE req.got # <<>> /\ GoesOn(r, req.got)
    <3>1. Len(req.got) \in Nat /\ Len(req.got) # 0
      BY <1>2, <2>2
    <3>2. Len(req.got) < Len(Calls(r))
      BY <2>2 DEF GoesOn
    <3>3. ASSUME r.kind \in Raw PROVE FALSE
      <4>1. Len(Calls(r)) = 1
        BY <1>8, <3>3
      <4>2. Len(req.got) < 1
        BY <3>2, <4>1
      <4>3. QED
        BY <3>1, <4>2
    <3>4. QED
      BY <3>2, <3>3
  <2>3. QED
    BY <1>2, <2>1, <2>2
<1>10. got[1] \in Outcomes(r)
  BY <1>1, <1>5 DEF GInv, CallsMade
<1>11. req' = [req EXCEPT !.got = got, !.pc = pc]
  BY <1>1
<1> HIDE DEF r, got, pc
<1>12. /\ req'.pc = pc /\ req'.r = r /\ req'.refusal = None /\ req'.got = got
       /\ req'.whole = req.whole /\ req'.trusted = req.trusted
  BY <1>2, <1>11 DEF r, GInv, GateTypes, AnyRequest
<1>13. GateTypes'
  BY <1>2, <1>4, <1>6, <1>11 DEF GInv, GateTypes, AnyRequest
<1>14. CallsMade'
  <2>1. pc = "call" => GoesOn(r, got)
    BY <1>6, <1>7
  <2>2. Len(got) <= Len(Calls(r))
    BY <1>4, <1>8, <1>9
  <2>3. Refusal(r) = None
    BY <1>2
  <2>4. QED
    BY <1>2, <1>10, <1>12, <2>1, <2>2, <2>3 DEF CallsMade
<1>15. CallsEnded'
  <2>1. pc = "copy" => r.kind \in Raw /\ o # "down"
    BY <1>7
  <2>2. pc = "copy" => got[1] = o
    BY <1>5, <1>9, <2>1
  <2>3. pc = "done" => ~GoesOn(r, got)
    BY <1>7
  <2>4. QED
    BY <1>4, <1>12, <2>1, <2>2, <2>3 DEF CallsEnded
<1>16. CutIsNoticed'
  BY <1>2, <1>12 DEF CutIsNoticed
<1>17. QED
  BY <1>13, <1>14, <1>15, <1>16 DEF GInv

LEMMA CopyGood ==
  ASSUME GInv, Copy
  PROVE  GInv'
<1>1. PICK whole \in BOOLEAN :
        /\ req.got[1] = "empty" => whole
        /\ req' = [req EXCEPT
                     !.pc = "done",
                     !.whole = whole,
                     !.trusted = whole \/ (req.r.kind # "legacy" /\ ~LengthKept(req.got[1]))]
  BY DEF Copy
<1> DEFINE trusted == whole \/ (req.r.kind # "legacy" /\ ~LengthKept(req.got[1]))
<1>2. trusted \in BOOLEAN /\ (trusted /\ ~whole => ~LengthKept(req.got[1]))
  OBVIOUS
<1>3. req' = [req EXCEPT !.pc = "done", !.whole = whole, !.trusted = trusted]
  BY <1>1
<1> HIDE DEF trusted
<1>4. /\ req.pc = "copy" /\ req.r.kind \in Raw /\ req.got # <<>> /\ req.got[1] # "down"
      /\ req.got[1] \in Outcomes(req.r) /\ gate' = gate
  BY DEF Copy, GInv, CallsMade, CallsEnded
<1>5. /\ req'.pc = "done" /\ req'.r = req.r /\ req'.refusal = req.refusal
      /\ req'.got = req.got /\ req'.whole = whole /\ req'.trusted = trusted
  BY <1>3 DEF GInv, GateTypes, AnyRequest
<1>6. GateTypes'
  BY <1>2, <1>3, <1>4 DEF GInv, GateTypes, AnyRequest
<1>7. CallsMade'
  BY <1>4, <1>5 DEF GInv, CallsMade
<1>8. CallsEnded'
  <2>1. req.got \in Seq(AnyOutcome) /\ req.r \in Requests \cup {Plain}
    BY DEF GInv, GateTypes, AnyRequest
  <2>2. Len(Calls(req.r)) = 1 /\ Len(req.got) \in Nat /\ Len(req.got) >= 1
    BY <1>4, <2>1, CallsOf
  <2>3. ~GoesOn(req.r, req.got)
    BY <2>2 DEF GoesOn
  <2>4. QED
    BY <1>4, <1>5, <2>3 DEF CallsEnded
<1>9. CutIsNoticed'
  BY <1>1, <1>2, <1>4, <1>5 DEF CutIsNoticed, Outcomes, LengthKept
<1>10. QED
  BY <1>6, <1>7, <1>8, <1>9 DEF GInv

LEMMA InitGInv == Init => GInv
BY NoReqIs DEF Init, GateInit, GInv, GateTypes, CallsMade, CallsEnded, CutIsNoticed

LEMMA NextGInv == GInv /\ [Next]_stackVars => GInv'
<1> SUFFICES ASSUME GInv, [Next]_stackVars PROVE GInv'
  OBVIOUS
<1>1. CASE UNCHANGED gateVars
  BY <1>1 DEF gateVars, GInv, GateTypes, CallsMade, CallsEnded, CutIsNoticed
<1>2. CASE req' = NoReq /\ gate' \in {"off", "open", "failed", "closing"}
  BY <1>2, NoReqIs DEF GInv, GateTypes, CallsMade, CallsEnded, CutIsNoticed
<1>3. CASE Listen \/ Shutdown
  BY <1>3
  DEF Listen, Shutdown, GInv, GateTypes, CallsMade, CallsEnded, CutIsNoticed
<1>4. ASSUME NEW r \in Requests, Arrive(r) PROVE GInv'
  BY <1>4, ArriveGood
<1>5. CASE Upstream(Serving)
  BY <1>5, UpstreamGood
<1>6. CASE Copy
  BY <1>6, CopyGood
<1>7. CASE Answered \/ ClientGone
  BY <1>2, <1>7 DEF Answered, ClientGone, GInv, GateTypes
<1>8. CASE OfLauncher(Boot \/ SupStep \/ SupExternal)
  BY <1>1, <1>2, <1>8 DEF OfLauncher, GateEndsWithMain
<1>9. CASE OfVideo(VideoStep \/ ToolFails \/ LeftStep)
  BY <1>1, <1>9 DEF OfVideo, gateVars
<1>10. CASE OfMusic(LinkStep \/ SeedStep \/ MusicFails \/ MusicServer)
  BY <1>1, <1>2, <1>10 DEF OfMusic, GateEndsWithMain
<1>11. CASE ServeProxy
  BY <1>3, <1>11 DEF ServeProxy
<1>12. CASE Handlers
  BY <1>4, <1>5, <1>6, <1>7, <1>12 DEF Handlers
<1>13. CASE UNCHANGED stackVars
  BY <1>1, <1>13 DEF stackVars, gateVars
<1>14. QED
  BY <1>8, <1>9, <1>10, <1>11, <1>12, <1>13 DEF Next

(* A request's calls are those its kind makes, in their order, for as long *)
(* as the outcomes let them go on.                                         *)
THEOREM GateInvariant == Spec => []GInv
BY InitGInv, NextGInv, PTL DEF Spec

(* The launchers, their files and the gateway keep the shape of the state. *)
THEOREM StackTypeCorrect == Spec => []TypeOK
<1>1. LInv /\ GInv => TypeOK
  <2> SUFFICES ASSUME LInv, GInv PROVE TypeOK
    OBVIOUS
  <2>1. GateTypeOK
    BY DEF GInv, GateTypes, AnyRequest, CallsMade, GateTypeOK
  <2>2. QED
    BY <2>1 DEF LInv, LauncherTypes, VInv, TypeOK
<1>2. QED
  BY <1>1, StackInvariant, GateInvariant, PTL

(* The pages a client asks for are those the upstream is asked for, and 50 *)
(* are the default, whatever sizes there are.                              *)
THEOREM PagesAreHonoured == Spec => []PageHonoured
<1>1. PageHonoured
  <2> SUFFICES ASSUME req.r.kind \in Listed
               PROVE  PageHonoured!2!1
    BY DEF PageHonoured
  <2> QED
    BY GatewayAssumption DEF SizeAsked
<1>2. QED
  BY <1>1, PTL

(* A failed second call does not undo a login, and boot makes its three *)
(* calls whatever becomes of each.                                      *)
THEOREM FailuresAreContained == Spec => []FailureIsContained
<1>1. ASSUME GInv, req.pc = "done", req.refusal = None
      PROVE  /\ req.r.kind = "login" /\ req.got[1] = "ok"
                  => Len(req.got) = 2 /\ Status(req.r, req.got) = 200
             /\ req.r.kind = "boot" => Len(req.got) = 3 /\ Status(req.r, req.got) = 200
  <2> DEFINE r == req.r
             got == req.got
  <2>1. /\ r \in Requests \cup {Plain} /\ got \in Seq(AnyOutcome)
        /\ Len(got) <= Len(Calls(r)) /\ ~GoesOn(r, got)
    BY <1>1 DEF GInv, GateTypes, AnyRequest, CallsMade, CallsEnded
  <2>2. Len(got) \in Nat
    BY <2>1
  <2> HIDE DEF r, got
  <2>3. /\ r.kind = "boot" => Len(got) = 3
        /\ r.kind = "login" /\ got[1] = "ok" => Len(got) = 2
    BY <2>1, <2>2, CallsOf DEF GoesOn
  <2>4. r.kind = "login" => Status(r, got) = LoginStatus(got)
    BY DEF Status, Passed, Listed, Raw
  <2>5. r.kind = "boot" => Status(r, got) = 200
    BY DEF Status, Passed, Listed, Raw
  <2>6. got[1] = "ok" => LoginStatus(got) = 200
    BY DEF LoginStatus, Broken
  <2>7. QED
    BY <2>3, <2>4, <2>5, <2>6 DEF r, got
<1>2. GInv => FailureIsContained
  BY <1>1 DEF FailureIsContained
<1>3. QED
  BY <1>2, GateInvariant, PTL

(* A body cut short looks complete only if its length was never known. *)
THEOREM CutsAreNoticed == Spec => []CutIsNoticed
<1>1. GInv => CutIsNoticed
  BY DEF GInv
<1>2. QED
  BY <1>1, GateInvariant, PTL
=============================================================================
