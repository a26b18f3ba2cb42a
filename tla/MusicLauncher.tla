---------------------------- MODULE MusicLauncher ----------------------------
(***************************************************************************)
(* fnmusic: the link under which trim-music finds itself, made anew on     *)
(* every start, and the goroutine that polls trim-music's database and     *)
(* fills it when its schema is there and no row.  trim-music makes the     *)
(* schema, and a user may initialise it through the server's own pages, at *)
(* any moment.                                                             *)
(***************************************************************************)
EXTENDS Supervisor

VARIABLES
  link,     \* /var/apps/trim.music/target
  music,    \* music.db, and the rows it has
  seed,     \* the goroutine seedDB
  orphan    \* whether an import that a stopped launcher began goes on

musicVars == <<link, music, seed, orphan>>

(***************************************************************************)
(* music: no directory yet, the directory, a file without contents, the    *)
(* schema, rows the user made, the seeded rows, some of the seeded rows,   *)
(* or both kinds.                                                          *)
(***************************************************************************)
Rows == {"official", "seeded", "partial", "mixed"}

MusicInit ==
  /\ link \in {"none", "right", "wrong", "file"}
  /\ music \in {"none", "schema", "official"}
  /\ seed = "off"
  /\ orphan = FALSE

-----------------------------------------------------------------------------
(* symlinkForce, which main panics of when it fails. *)

Fail ==
  /\ Gone(group)
  /\ seed' = "off"
  /\ UNCHANGED <<app, faults, link, music, orphan>>

To(pc) == main' = pc /\ UNCHANGED <<app, ctx, group, stray, faults>>

Lstat ==
  /\ main = "lstat"
  /\ \/ link = "none"  /\ To("symlink") /\ UNCHANGED musicVars
     \/ link = "right" /\ To("start")   /\ UNCHANGED musicVars
     \/ link = "wrong" /\ To("unlink")  /\ UNCHANGED musicVars
     \/ link = "file"  /\ Fail

UnlinkSkipped ==                    \* mutant: Symlink is to replace the old one
  /\ main = "unlink"
  /\ To("symlink")
  /\ UNCHANGED musicVars

(* The error of Remove is ignored: Symlink will find the link. *)
Unlink ==
  /\ main = "unlink"
  /\ main' = "symlink"
  /\ \/ link' = "none" /\ UNCHANGED faults
     \/ faults < MaxFaults /\ faults' = faults + 1 /\ UNCHANGED link
  /\ UNCHANGED <<app, ctx, group, stray, music, seed, orphan>>

Symlink ==
  /\ main = "symlink"
  /\ \/ link = "none" /\ link' = "right" /\ To("start") /\ UNCHANGED <<music, seed, orphan>>
     \/ link # "none" /\ Fail

(* No space, say. *)
SymlinkFails ==
  /\ main = "symlink"
  /\ faults < MaxFaults
  /\ faults' = faults + 1
  /\ Gone(group)
  /\ seed' = "off"
  /\ UNCHANGED <<app, link, music, orphan>>

-----------------------------------------------------------------------------
(***************************************************************************)
(* seedDB; its ticker, and so its poll, may come before anything is there. *)
(***************************************************************************)

SeedStarts ==
  /\ app = "fnmusic"
  /\ main \in {"started", "wait"}
  /\ seed = "off"
  /\ seed' = "poll"
  /\ UNCHANGED <<supVars, link, music, orphan>>

SeedStops ==
  /\ seed = "poll"
  /\ ctx
  /\ seed' = "done"
  /\ UNCHANGED <<supVars, link, music, orphan>>

(* SELECT COUNT, for which sqlite3 makes the file if it can. *)
CountUnchecked ==                   \* mutant: any answer but an error is taken
  /\ seed = "poll"
  /\ music' = IF music = "dir" THEN "file" ELSE music
  /\ seed' = IF music \in {"schema"} \cup Rows THEN "import" ELSE seed
  /\ UNCHANGED <<supVars, link, orphan>>

CountOnce ==                        \* mutant: an error of the first poll is final
  /\ seed = "poll"
  /\ music' = IF music = "dir" THEN "file" ELSE music
  /\ seed' = IF music = "schema" THEN "import" ELSE "done"
  /\ UNCHANGED <<supVars, link, orphan>>

Count ==
  /\ seed = "poll"
  /\ music' = IF music = "dir" THEN "file" ELSE music
  /\ seed' = CASE music \in {"none", "dir", "file"} -> seed
               [] music \in Rows   -> "done"
               [] music = "schema" -> "import"
  /\ UNCHANGED <<supVars, link, orphan>>

(* The database is locked, say: the next poll counts again. *)
CountFails ==
  /\ seed = "poll"
  /\ music \in {"schema"} \cup Rows
  /\ faults < MaxFaults
  /\ faults' = faults + 1
  /\ UNCHANGED <<app, main, ctx, group, stray, musicVars>>

(* .read init_data.sql: what is there already is kept. *)
Imported == CASE music = "schema"   -> "seeded"
              [] music = "official" -> "mixed"
              [] OTHER              -> music

Importing == seed = "import" \/ orphan

Import ==
  /\ Importing
  /\ music' = Imported
  /\ \/ seed = "import" /\ seed' = "done" /\ UNCHANGED orphan
     \/ orphan /\ orphan' = FALSE /\ UNCHANGED seed
  /\ UNCHANGED <<supVars, link>>

(* It fails, perhaps after the lock of trim-music let some rows through: *)
(* log.Fatalf ends the launcher without its deferred calls.              *)
ImportFails ==
  /\ Importing
  /\ faults < MaxFaults
  /\ faults' = faults + 1
  /\ music' \in {music, IF music = "schema" THEN "partial" ELSE Imported}
  /\ \/ seed = "import" /\ Gone(group) /\ seed' = "off" /\ UNCHANGED orphan
     \/ orphan /\ orphan' = FALSE /\ UNCHANGED <<main, ctx, group, stray, seed>>
  /\ UNCHANGED <<app, link>>

(* The goroutine ends with the launcher, but not the sqlite3 it runs. *)
EndsWithMain ==
  /\ IF main' = "off"
       THEN seed' = "off" /\ orphan' = Importing
       ELSE UNCHANGED <<seed, orphan>>
  /\ UNCHANGED <<link, music>>

-----------------------------------------------------------------------------
(* External: trim-music, and its user. *)

MusicServer ==
  /\ app = "fnmusic"
  /\ Serving
  /\ \/ music = "none" /\ music' = "dir"
     \/ music \in {"dir", "file"} /\ music' = "schema"
     \/ music = "schema" /\ music' = "official"
  /\ UNCHANGED <<supVars, link, seed, orphan>>

LinkStep == Lstat \/ Unlink \/ Symlink
SeedStep == SeedStarts \/ SeedStops \/ Count \/ Import
MusicFails == SymlinkFails \/ CountFails \/ ImportFails

MusicTypeOK ==
  /\ link \in {"none", "right", "wrong", "file"}
  /\ music \in {"none", "dir", "file", "schema"} \cup Rows
  /\ seed \in {"off", "poll", "import", "done"}
  /\ orphan \in BOOLEAN

(***************************************************************************)
(* Whatever link was found, and wherever an earlier start was killed, also *)
(* between the removal and the making of the link, a start comes to the    *)
(* right link; only a file in its place, a kill, or a link that could not  *)
(* be removed or made stops it.                                            *)
(***************************************************************************)
LinkIsRepaired ==
  [][main' = "off" /\ main \in {"lstat", "unlink", "symlink"}
       => \/ link = "file"
          \/ faults' > faults
          \/ link = "wrong" /\ faults > 0]_supVars

(***************************************************************************)
(* fnmusic.go:113: seeding does not collide with the official setup.  Rows *)
(* are never written over a user's, or a second time, but where the user   *)
(* finished the setup between the count and the import.                    *)
(***************************************************************************)
RowsAreKept ==
  [][(music \in Rows) => /\ (Importing' => Importing)
                        /\ (music' # music => music = "official" /\ Importing)]_musicVars

(* A schema without rows is filled, unless the launcher ends or is told to. *)
SchemaIsSeeded ==
  (app = "fnmusic" /\ main = "wait" /\ music = "schema")
    ~> (music \in Rows \/ main = "off" \/ ctx)
=============================================================================
