---------------------------- MODULE VideoLauncher ----------------------------
(***************************************************************************)
(* fntv before it starts trim-media: if there is no database file, the two *)
(* paths in init.sql are edited in place and sqlite3 reads it.  The        *)
(* launcher may be killed at any moment; the tool it runs then goes on,    *)
(* beside the next start and the tools of that.  (A panic of MkdirAll, or  *)
(* a Stat that fails otherwise than for want of the file, in the directory *)
(* main has just made, comes before anything is done: a kill at Stat.)     *)
(***************************************************************************)
EXTENDS Supervisor

VARIABLES
  inVol,    \* which of the two actual paths contain /vol1
  script,   \* init.sql: its line of the meta directory, and of the cache
  db,       \* trimmedia.db: none, a file without contents, complete, complete
            \* with its keyless rows doubled, or with part of its contents
  loaded,   \* the two lines as a complete database has them
  tool,     \* the sed or sqlite3 that main waits for
  left      \* the one that was running at the kill that was fault f

videoVars == <<inVol, script, db, loaded, tool, left>>

-----------------------------------------------------------------------------
(* s|/vol1/@appmeta/trim.media|metaDir|g *)
EditMeta(s) == IF s.meta = "template" THEN [s EXCEPT !.meta = "actual"] ELSE s

(***************************************************************************)
(* s|/vol1|MEDIA_DIR/|g, which finds every /vol1 there is: the template's, *)
(* and the one in a path that was put there before.                        *)
(***************************************************************************)
EditRoot(s) ==
  [meta |-> IF s.meta = "template" \/ "meta" \in inVol THEN "mangled" ELSE s.meta,
   root |-> CASE s.root = "template" -> "actual"
              [] s.root # "template" -> IF "media" \in inVol THEN "mangled" ELSE s.root]

(***************************************************************************)
(* A tool has begun, has read the script, or has ended.  sed -i keeps what *)
(* it makes of it in a file of its own until it renames that; sqlite3      *)
(* reads the file it has opened, whatever is renamed over it.              *)
(***************************************************************************)
Tools == {"sedMeta", "sedRoot", "load"}

Template == [meta |-> "template", root |-> "template"]
Idle == [does |-> "none", stage |-> "ended", copy |-> Template]
Begun(k) == [does |-> k, stage |-> "begun", copy |-> Template]

EditsSwapped(k) ==                  \* mutant: the longer path is edited second
  CASE k = "sedMeta" -> EditRoot(script)
    [] k = "sedRoot" -> EditMeta(script)
    [] k = "load"    -> script

Edits(k) ==
  CASE k = "sedMeta" -> EditMeta(script)
    [] k = "sedRoot" -> EditRoot(script)
    [] k = "load"    -> script

HasRead(t) == [t EXCEPT !.stage = "read", !.copy = Edits(t.does)]
HasEnded(t) == [t EXCEPT !.stage = "ended", !.copy = Template]

Loading(t) == t.does = "load" /\ t.stage = "read"

VideoInit ==
  /\ inVol \in SUBSET {"meta", "media"}
  /\ script = Template
  /\ db = "none"
  /\ loaded = Template
  /\ tool = Idle
  /\ left = [f \in 1 .. MaxFaults |-> Idle]

-----------------------------------------------------------------------------
StatIgnored ==                      \* mutant: initialises on every start
  /\ main = "stat"
  /\ main' = "sedMeta"
  /\ tool' = Begun("sedMeta")
  /\ UNCHANGED <<app, ctx, group, stray, faults, inVol, script, db, loaded, left>>

Stat ==
  /\ main = "stat"
  /\ IF db = "none" THEN main' = "sedMeta" /\ tool' = Begun("sedMeta")
                    ELSE main' = "start" /\ UNCHANGED tool
  /\ UNCHANGED <<app, ctx, group, stray, faults, inVol, script, db, loaded, left>>

ToolReads ==
  /\ main \in Tools
  /\ tool.stage = "begun"
  /\ tool' = HasRead(tool)
  /\ UNCHANGED <<supVars, inVol, script, db, loaded, left>>

SedEnds ==
  /\ main \in {"sedMeta", "sedRoot"}
  /\ tool.stage = "read"
  /\ script' = tool.copy
  /\ main' = IF main = "sedMeta" THEN "sedRoot" ELSE "load"
  /\ tool' = Begun(main')
  /\ UNCHANGED <<app, ctx, group, stray, faults, inVol, db, loaded, left>>

(* Any sqlite3 makes the file before its transaction is committed. *)
Open ==
  /\ Loading(tool) \/ \E f \in DOMAIN left : Loading(left[f])
  /\ db = "none"
  /\ db' = "empty"
  /\ UNCHANGED <<supVars, inVol, script, loaded, tool, left>>

LoadEnds ==
  /\ main = "load"
  /\ Loading(tool)
  /\ db = "empty"
  /\ db' = "full"
  /\ loaded' = tool.copy
  /\ main' = "start"
  /\ tool' = Idle
  /\ UNCHANGED <<app, ctx, group, stray, faults, inVol, script, left>>

(***************************************************************************)
(* Another sqlite3 was there before, or is at it: statements fail, for the *)
(* tables and keys that are there, or the lock; the others are committed   *)
(* (of the rows of init.sql those of permission alone have no key).  The   *)
(* exit code is the launcher's end.                                        *)
(***************************************************************************)
LoadFails ==
  /\ main = "load"
  /\ Loading(tool)
  /\ \/ db \in {"full", "twice"} /\ db' \in {db, "twice"}
     \/ db = "part" /\ UNCHANGED db
     \/ /\ db = "empty" /\ \E f \in DOMAIN left : Loading(left[f])
        /\ db' \in {"empty", "part"}
  /\ Gone(group)
  /\ tool' = Idle
  /\ UNCHANGED <<app, faults, inVol, script, loaded, left>>

(* sed or sqlite3 is missing, fails, or gets the terminal's SIGINT. *)
ToolFails ==
  /\ main \in Tools
  /\ faults < MaxFaults
  /\ faults' = faults + 1
  /\ Gone(group)
  /\ tool' = Idle
  /\ UNCHANGED <<app, inVol, script, db, loaded, left>>

(* The launcher ends, but not the tool it runs (exec.Command, no context). *)
ToolOutlivesMain ==
  /\ IF main \in Tools /\ main' = "off"
       THEN left' = [left EXCEPT ![faults'] = tool] /\ tool' = Idle
       ELSE UNCHANGED <<tool, left>>
  /\ UNCHANGED <<inVol, script, db, loaded>>

-----------------------------------------------------------------------------
(* External: the tools that were left behind. *)

LeftReads(f) ==
  /\ left[f].stage = "begun"
  /\ left' = [left EXCEPT ![f] = HasRead(@)]
  /\ UNCHANGED <<supVars, inVol, script, db, loaded, tool>>

LeftEdits(f) ==
  /\ left[f].does # "load" /\ left[f].stage = "read"
  /\ script' = left[f].copy
  /\ left' = [left EXCEPT ![f] = HasEnded(@)]
  /\ UNCHANGED <<supVars, inVol, db, loaded, tool>>

(* Whom an error would be told to is gone: the first one (SIGPIPE) ends it. *)
LeftLoads(f) ==
  /\ Loading(left[f])
  /\ \/ db = "empty" /\ db' = "full" /\ loaded' = left[f].copy
     \/ /\ \/ db \notin {"none", "empty"}
           \/ Loading(tool) \/ \E g \in DOMAIN left \ {f} : Loading(left[g])
           \/ Serving
        /\ UNCHANGED <<db, loaded>>
  /\ left' = [left EXCEPT ![f] = HasEnded(@)]
  /\ UNCHANGED <<supVars, inVol, script, tool>>

-----------------------------------------------------------------------------
VideoStep == Stat \/ ToolReads \/ SedEnds \/ Open \/ LoadEnds \/ LoadFails

LeftStep == \E f \in DOMAIN left : LeftReads(f) \/ LeftEdits(f) \/ LeftLoads(f)

Lines == {"template", "actual", "mangled"}
Scripts == [meta : Lines, root : Lines]
ToolStates == [does  : Tools \cup {"none"},
               stage : {"begun", "read", "ended"},
               copy  : Scripts]

VideoTypeOK ==
  /\ inVol \subseteq {"meta", "media"}
  /\ script \in Scripts /\ loaded \in Scripts
  /\ db \in {"none", "empty", "full", "twice", "part"}
  /\ tool \in ToolStates
  /\ left \in [1 .. MaxFaults -> ToolStates]

-----------------------------------------------------------------------------
Complete == db \in {"full", "twice"}

(* A tool of these kinds outlived its launcher, at some time. *)
Outlived(K) == \E f \in DOMAIN left : left[f].does \in K

(***************************************************************************)
(* trim-media finds a database; a first start that nothing disturbs, and   *)
(* any number of disturbed ones where neither path contains /vol1, give it *)
(* the actual paths, but that the first sed of a killed launcher may put   *)
(* the cache path of the template back after the next start edited it.     *)
(* What else this leaves open is not idle: a start cut off inside sqlite3  *)
(* leaves an empty file that later starts take for the database, one cut   *)
(* off before it edits the default MEDIA_DIR twice, and a launcher that is *)
(* installed under /vol1 has its meta directory mangled at once.           *)
(***************************************************************************)
DatabaseInitialised ==
  app = "fntv" /\ main \in {"start", "started", "wait"} =>
    /\ db # "none"
    /\ faults = 0 => Complete /\ loaded.root = "actual"
    /\ Complete =>
         /\ "meta" \notin inVol => loaded.meta = "actual"
         /\ "media" \notin inVol =>
              \/ loaded.root = "actual"
              \/ loaded.root = "template" /\ Outlived({"sedMeta"})

(***************************************************************************)
(* A complete database keeps its paths, whoever comes with another script. *)
(* It is left alone, and so is the script, unless a tool outlived its      *)
(* launcher: one may complete the database after the next start's Stat did *)
(* not find it, and that start then edits again and doubles rows.          *)
(***************************************************************************)
CompleteIsKept ==
  [][Complete => /\ Complete' /\ UNCHANGED loaded
                 /\ Outlived(Tools) \/ UNCHANGED <<db, script>>]_videoVars
=============================================================================
