# Formal model of trimmedia-linux-arm

The repository ports four applications of fnOS to plain ARM64 Linux. Its Go code runs prebuilt
servers and adds what they miss: the *listen-together room* of the music gateway
(`src/apps/fnmusic/listen_room.go`), shared playback state in memory, changed by POST commands
and fanned out over SSE; a mobile API in front of the music server; a broker that
tells the servers which directories they may use; launchers that initialise databases, start
the servers and end them. This directory holds TLA+ models of them, TLC runs, and TLAPS proofs. It
says first what the system is, then what is modelled, checked and proved, then what is left.

## 1. The system

| Component | Source | State it keeps | Operations | Talks to |
|---|---|---|---|---|
| Room members and fan-out | `listen_room.go` 33-237, 569-582 | `Room.Members`, one channel of `sseBuffer` frames per member, `Version`, `Closed`; all under `Room.mu` | `addMember`, `removeMember`, `kickMember`, `broadcastLocked` | called by the handlers |
| Room handlers | `listen_room.go` 323-381, 410-463, 589-659 | per request: how far it got; per SSE connection: its member's channel | `events`, `join`, `leave`, `command` | upstream `/user/me` (`identity`), the room, the client |
| Room playback | `listen_room.go` 118-164, 465-567 | `Queue`, `Index`, `Playing`, `PositionMs`, `UpdatedAtMs` | `applyCommand` | clients derive the position from each broadcast |
| Room table | `listen_room.go` 72-116, 291-321, 585-587, 661-679 | `rooms` (code to room) | `create`, `getRoom`, `closeRoom`, `roomJanitor` | all room handlers |
| Mobile gateway | `mobile_api.go`, `proxy.go` | none between requests | login, boot, search, media, `passThrough` | `trim-music` over a unix socket |
| Music launcher | `fnmusic.go` | child process, database file, symlinks | start and stop, `seedDB`, `symlinkForce` | `trim-music`, `sqlite3` |
| Directory broker | `rpcbroker.go` | the list of authorized directories, twice (`authPathResp`, `appAuthorizedDirs`), and `folders` | RPC requests, `refreshDirs`, `InitData` | `trim-media`, `trim-music` |
| Video launcher | `fntv.go` | database file, edited `init.sql` | initialise, start and stop | `sed`, `sqlite3`, `trim-media` |
| Media server launcher | `mediasrv.go` | child process | start and stop | `mediasrv` |
| Preload shims | `nodri.c`, `nodmaheap.c`, `fakecompat.c` | a lazily made path | interpose `open`, `ioctl`, ... | the prebuilt servers |
| Packaging | `Makefile`, `*.sh`, `*.sql` | none | straight-line shell | - |

What is hard in it:

- **Interleaving.** Every room method is one critical section, but no handler is:
  `command` checks membership, re-registers its sender, applies and kicks in four;
  `events` asks the upstream between `getRoom` and `addMember`, and greets its
  client after it became a member.
- **Ownership of channels.** Four methods close a member's channel, every broadcast
  sends on it; a second close or a late send panics, in two places with the mutex held.
- **Identity.** A user has one place in the room and may have several connections;
  `removeMember` names the user, not the connection.
- **Backpressure.** A client that does not read fills its buffer and is evicted in
  the middle of a broadcast.
- **Time.** A command is anchored at the arrival of its request and applied after
  the upstream answered, possibly after newer ones.
- **Failure.** A client goes away at any moment and may reconnect before the server notices.
- **Restart.** Rooms are lost (by design); the launchers and the broker do persist, in
  several steps: a database initialised by editing a script and reading it, a link removed and made anew,
  a `/vol1` that is emptied first, socket files.
- **Processes.** A server may fork, its helpers inherit its pipe, a signal may come before, between
  or after the steps that arrange for it; a goroutine may end the launcher with `log.Fatalf`; the
  `sed` or `sqlite3` of a killed launcher goes on beside the next start.

What would make each component correct:

- fan-out: a channel is open exactly while its member is in the map; buffers bounded;
- handlers: a stream delivers every version and ends in the state the room is in; a
  listener loses its place only for a reason; handlers of dead clients return;
- playback: the index stays inside the queue; the position is never rewound behind
  what listeners were told; queue edits leave the current track alone;
- table: a room in use is not collected, codes lead to the room they were made for;
- broker: both tables list the same directories, those of the last scan; an answer is that of one
  scan, too; a killed broker can be started again;
- gateway: a call that fails spoils nothing but its own part of an answer, a client's paging is the
  one the server is asked for, and a body that was cut short does not look complete;
- launchers: a crash at any point and a restart end in an initialised database, a right link and
  seeded rows, and what a launcher started ends with it.

## 2. The modules

| Module | Models | Contents |
|---|---|---|
| `RoomFanout` | the `*Room` methods on members and frames | pure operators from rooms to rooms |
| `ListenRoom` | the handlers around one room | state machine, `Spec`, `FairSpec` |
| `ListenRoomProps` | - | its type invariant, safety and liveness properties |
| `MCListenRoom` | - | model values, who owns which connection, symmetry |
| `RoomFeed` | what a room promises a listener, without channels, handlers and locks | abstract specification |
| `RoomPlayback` | `applyCommand` and the anchor | state machine and properties |
| `MCRoomPlayback` | - | model values, symmetry |
| `RoomSnapshots` | `Room.Queue` as a slice of a backing array, and the snapshots that share it | state machine over that of `RoomPlayback` |
| `MCRoomSnapshots` | - | model values, symmetry, a bound |
| `RoomRegistry` | the table of rooms, `create`, `getRoom`, `closeRoom`, `roomJanitor` | state machine, `Spec`, `FairSpec`, properties |
| `MCRoomRegistry` | - | model values |
| `DirBroker` | `rpcbroker`: its start, its scans, its two tables, its connections | state machine, `Spec`, `FairSpec`, properties |
| `MCDirBroker` | - | model values |
| `Supervisor` | what `fntv`, `fnmusic` and `mediasrv` share: a server in a process group | actions, properties |
| `VideoLauncher` | the initialisation of `fntv` | actions on top of `Supervisor` |
| `MusicLauncher` | the link and `seedDB` of `fnmusic` | actions on top of `Supervisor` |
| `Gateway` | `serveProxy`, the mobile API, its calls of `trim-music` | actions, properties |
| `Stack` | a launcher with all it runs: the four modules above composed | state machine, `Spec` |
| `MCStack` | - | page sizes |
| `RoomFanoutProofs` | - | lemmas: what each method keeps of a well-formed room, and what it sends to a member |
| `ListenRoomProofs` | - | channel discipline, what streams deliver, causes of a lost place, the implementation of `RoomFeed` |
| `RoomFeedProofs` | - | the promise of the feed |
| `RoomPlaybackProofs` | - | five invariants of the playback state, and what edits leave alone |
| `RoomSnapshotsProofs` | - | the array holds the queue; what a snapshot is safe from |
| `RoomRegistryProofs` | - | type correctness and what is listed |
| `DirBrokerProofs` | - | types, tables, answers, link, restarts |
| `StackProofs` | - | database, link, rows and processes of the launchers; requests of the gateway |

`ListenRoom` extends `RoomFanout`: its actions apply that module's operators to the room
inside one step, as the handlers call the methods. `RoomPlayback` and `RoomRegistry` look at
the same rooms from two other sides and are separate, because no field of a `Room` that one of
the three is about influences what the others are about, with two exceptions: `Closed`, which is in
`ListenRoom` and in `RoomRegistry` alike, and `UpdatedAtMs`, of which the janitor only asks whether
it is older than `roomTTL`.

### RoomFanout and ListenRoom

A `Room` is a record: `members` maps each user to a member or `None`; `chan` holds
each member's channel, open or closed, with its buffer; `version` and `closed`.
A member struct is named by who made it. The member an events handler `c` makes is
`c`, and the handler alone reads its channel. The member `join`, `command` or
`create` makes for `u` is named `u`: nobody ever receives from its channel, except
that `addMember` drains one frame from it. Frames carry what the properties look at:
the version and `closed` of a state frame, the roster of a members frame. In a
channel without a reader a frame is just `Unread`.

`Broadcast` keeps the order of the code: the frame is encoded first, then a member
whose buffer is full is closed and deleted, the others get the frame. The iteration
order of Go's map is invisible, as members do not share channels. `BroadcastState`
increments the version first. `AddMember` closes the old channel, installs the new
member and broadcasts. `KickMember` sends the kicked frame only when there is room for it.

In `ListenRoom` a step is what one goroutine does between two points where others
run: a critical section of `Room.mu` or a turn of the select loop.

| Action | Code |
|---|---|
| `EventsLookup`, `EventsReject`, `EventsJoin`, `EventsGreet` | `handleRoomEvents` up to the loop: `getRoom`, failure of `identity` or of the Flusher, `addMember`, the first frames |
| `StreamFrame`, `StreamWriteError` | `case frame`: written, or the write failed |
| `StreamGone` | `ctx.Done()`, or a ping that cannot be written |
| `StreamClosed` | `!alive` |
| `StreamRemove` | the `removeMember(id)` that follows the last two failures |
| `ClientDrop` | the client or its network goes away (external) |
| `RequestArrives` | a POST handler up to `getRoom` |
| `JoinAdd`, `LeaveRemove` | `addMember` of join, `removeMember` of leave |
| `CmdCheck`, `CmdReAdd`, `CmdApply`, `CmdKick` | the critical sections of `handleRoomCommand` |

`conn[c]` also records what handler `c` wrote last to its client: the version and
`closed` of the last state frame (`seen`, `over`), the last roster. These are
observations and guard nothing. The playback commands are one command, `playback`:
they do the same to members and frames, and so does a kick of nobody.

Abstractions to know about:

- One room. That a room may have left the table only means that no request
  arrives any more, which is a behaviour of the model already. `getRoom` is the test of `Closed`.
- `handleRoomState`, and the snapshots in the answers of `join`, `create` and
  `command`, read and change nothing; they are left out.
- A write to a client that is alive succeeds; one to a client that is gone may
  still succeed (`StreamFrame`), as it does in a kernel's send buffer.
- A command that is refused changes no member and no frame (it does touch the
  anchor, which is `RoomPlayback`'s).
- A handler that returned leaves its buffer to the garbage collector; the model empties it.

### RoomFeed, and how ListenRoom implements it

`RoomFeed` says what a listener is promised and nothing of how: it is owed every version
published while it is in the room, oldest first; `Greet` shows it the state as it is, ahead of
what is owed; the room may cut it off at any moment, and its stream does not end before it has been sent
what it is owed, unless its client has gone. A place taken over by the listener's own user costs it at most
the version due next, the frame `addMember` drains from the old channel. The refinement mapping is in `ListenRoomProps`: a connection is a
listener from `addMember` to the return of its handler, `Owed` are the versions of the state frames
in its channel, `st` is whether its member is in the map. `FeedRefined` checks that each step of
the room maps to a step of the feed or to none. `Shuffle` is there because a critical section that publishes nothing
may still cut off several listeners.

### RoomPlayback

The playback fields of one room, a clock, the commands in flight with the moment
each arrived, and the last broadcast state. `Arrive` is `arrivedMs := nowMs()`; each
command applies to the room touched at that arrival, in any order; `MemberChange`
is the touch of `addMember` and `removeMember`. `Refuse` is the command that is
refused after `touchLocked`: it moves the anchor and tells nobody. `GoRem` is Go's `%`.
The clock does not go back: the model assumes that of the machine's clock, which `nowMs` reads.
Integers have 64 bits in Go and are milliseconds here; positions that overflow are not modelled.

### RoomSnapshots

`snapshotLocked` returns `Room.Queue` itself. Whoever asked for the snapshot encodes it after the mutex was
released; only broadcasts are encoded under it. `RoomSnapshots` extends `RoomPlayback` by a
heap of backing arrays, the slice that `Room.Queue` is (`live`) and the slices readers hold. Each command
of `RoomPlayback` is conjoined with what it does to the arrays: `setQueue` allocates, `queueAdd`
writes behind the length if the capacity suffices and allocates otherwise, `queueRemove` shifts in place and
leaves the old last entry behind the new length; the capacity of a new array is any that fits. `Write` also
drops the arrays nothing refers to, as the garbage collector does. What `append` does is Go's, and marked external.
`QueueIsStored` says that the slice is the queue of `RoomPlayback`.

### RoomRegistry

`table` maps codes to rooms, a room is its code, members, `idle` (untouched for `roomTTL`) and
`closed`; a handler holds a code between `genRoomCode` and `rooms.Store`, or a room it got from
`getRoom`, which it acts on in a later step. `DrawCode` picks any code that is not in the table now, as the
random draw does: with the two codes of the run, codes are drawn again, and
drawn twice at once. `Enter`, `Leave`, `Close`, `StreamEnds`, `Evict` are the effects of the
handlers of `ListenRoom` on who is in the room; which of them come in which order is left open.
Every touch ends `idle`; a kick and an eviction touch nothing. `JanitorLooks` is one call of the Range
function up to the unlock, `JanitorDeletes` the `Delete` after it.

### DirBroker

MEDIA_DIR and `/vol1/1000` as a start finds and leaves them, the steps of `main` (each file system call
is one, as the broker may be killed between any two), the watcher, and connections that take
`appAuthorizedDirs` under the lock and marshal it after it. `place` distinguishes where MEDIA_DIR
may be, because `RemoveAll("/vol1")` takes MEDIA_DIR with it when that lies beside `/vol1/1000`, and
`MkdirAll` makes a directory of what should be a link when it lies below; and whether `RemoveAll` can remove
`/vol1/1000` at all (`pinned`), because its error is ignored. A panic of `MkdirAll` is the `Kill` of that moment. A `ReadDir` that runs while directories come and go may
return any mixture (`sure`, `seen`). The list is joined with `:` and split again, so `Pieces` says
what becomes of a path. The bytes of a message and their number are not modelled: an answer of more than 65535
bytes is written with the low 16 bits of its length (`rpcbroker.go:228`), and its client loses its place in the stream.
`appAuthorizedDirs` is an array at some slot of a heap, so that a property can say that nobody
writes into one that was handed out.

The comment at `rpcbroker.go:359` says that a MEDIA_DIR that is `/vol1/1000` would be deleted with
`/vol1`; the code calls `RemoveAll` only when it is another directory, and `Reset` follows the code.

### Supervisor, VideoLauncher, MusicLauncher

`Supervisor` holds one launcher and the process group of its server: the leader, and helpers it
may have forked. A signal to the launcher sets `ctx`; `CtxDone` is package exec calling `Cancel`, which
signals the group once the launcher has set it (`SetCancel` is the step after `Start`) and kills the leader alone
before that, and in `mediasrv` always, which sets none. `Finish` is `Wait` and the deferred signal to the group; `fnmusic` and `mediasrv`
give the server a pipe, which `Wait` reads to the end, so helpers must have ended. `Gone` is the end of the
launcher's process by any way; what it leaves is `stray`.

`VideoLauncher` keeps `init.sql` by its two edited lines: `EditRoot` finds every `/vol1`, the template's and one
that a path brought there, which is why a repeated edit mangles the script. What the launcher runs is a process of its own, `tool`: it begins,
reads the script (`ToolReads`) and ends (`SedEnds`, `LoadEnds`, `LoadFails`). `sed -i` holds its edit in another file until it renames that over the
script, and `sqlite3` makes the database file before its transaction commits (`Open`).

The code runs these tools by a plain `exec.Command` (`fntv.go` 74, 81, 88), so the end of the launcher does not end them: `ToolOutlivesMain` moves the
tool to `left`, under the number of the fault that ended the launcher, and `LeftStep` is what it does from then on, beside the next start and its
tools. Two `sqlite3` on one file get in each other's way: statements fail, for a lock or for a table or key that is there already, the others are
committed (`LoadFails`), and `db` is then complete, complete with its rows without a key doubled, or a part. The first statement that fails ends a `sqlite3`
that was left behind, since whoever would read its complaint is gone. What `trim-media` makes of the file it is given is not modelled, except that it may hold
its lock. A `Stat` that fails for another reason than a missing file starts the server at once, and the panics of the two `MkdirAll` before it end the launcher:
all three come before anything is done, in a directory the launcher has just made or could not make, and are a kill at `stat` here.

`MusicLauncher` has `symlinkForce` step by step, with a `Remove` whose error is ignored, and the goroutine
`seedDB`, whose poll makes an empty file when trim-music has not made the database yet, and whose
count and import are two processes with trim-music and its user in between. A sqlite3 outlives a killed launcher (`orphan`). That the link
cannot be made (`SymlinkFails`), that a count fails although the schema is there (`CountFails`) and that an import does (`ImportFails`) are faults.

### Gateway

One request at a time, since handlers share nothing: its route's kind, its method, its paging, whether its body can be read and its
input is well formed. `Refusal` is what it meets before any call: `withCORS`, the method test, which lets OPTIONS through on the routes of
one method (`mobile_api.go:226`) as `Methods` does, the validation, a body that `passThrough` cannot read. Then
`Upstream` is a call of `trim-music` with any of the outcomes `doUpstream` tells apart, `GoesOn` and `Status` what the
handler makes of them, `Copy` the copying of a body that may break off.
`SizeAsked` is `passThrough` on the paging parameters. Wording, envelopes, covers' names, lyrics formats and the cookie
are left out.

### Stack

`Stack` conjoins an action of one part with what it does to the others (`OfLauncher`, `OfVideo`, `OfMusic`): the
end of the launcher's process ends its goroutines and its listener, a server that is down answers nothing. `app`
says which of the three programs it is. `clients` bounds the product: where requests are followed, the program is
`fnmusic`, installed and set up, and nothing is killed or fails but its server, because all that a request
meets of the launcher is whether the server is up and how long the launcher itself is.

## 3. The runs

| Run | Question | Result |
|---|---|---|
| `ListenRoomReconnect` | one user with two connections, another user's request in flight: are channels, rosters and places kept? | holds |
| `ListenRoomCommands` | two requests, kicks and closings among them, against a listener: does its stream tell the truth, and does the room implement `RoomFeed`? | holds |
| `ListenRoomLiveness` | do streams end and catch up? | holds under `FairSpec` |
| `RoomPlaybackSafety` | two commands in any order, at any time; what may happen to a snapshot while it is encoded? | holds |
| `ListenRoomStaleTeardown` | does a reconnection survive the end of the old connection? | **violated** |
| `ListenRoomGhost` | does a client know who is in the room? | **violated** |
| `ListenRoomNotClosed` | do the streams of a closed room end? | **violated** |
| `RoomRegistry` | are closed and unused rooms taken out of the table? | holds under `FairSpec` |
| `RoomRegistryJanitor` | does the janitor collect unused rooms only? | **violated** |
| `RoomPlaybackDrift` | do listeners derive the room's position? | **violated** |
| `DirBroker` | scans, requests, kills and restarts: what is authorized, answered, listed? (139,603 states) | holds under `FairSpec` |
| `Stack` | the launchers, killed and restarted at any point, with the tools that outlive them, and the gateway over a server that may go (211,806 states) | holds under `Spec` |

What holds:

- `ChannelDiscipline`: a channel is open exactly while its member is in the map, and
  a handler that has returned owns none. So no close and no send panics.
- `RosterCoversMembers`: the last roster a member gets misses nobody who is in.
- `CutOnlyForCause`: a live listener loses its place only because its buffer was
  full, the host kicked it, or its own user did something.
- `FeedIsCurrent`: the last state in a member's stream is the room's, a closing included.
- `KickedIsLast`, `StreamSkipsNoVersion`: nothing follows a kicked frame; no version
  is jumped over. Versions may go *back*: the greeting shows a newer state than the frames
  queued before it. `StreamCatchesUp` says that this ends.
- `RemovedStreamEnds`, `DeadClientReleased`: no handler is stuck.
- `IndexInRange`, `AnchorNotFuture`, `NeverBehindListeners`, `ChangesAreAnnounced`,
  `CurrentTrackGoesOn`: of the playback state. `NeverBehindListeners` is the rewinding
  that `TestRoomTouchPreservesPosition` tests for one sequence, for all of them.
- `FeedRefined`: the room implements `RoomFeed`, to every connection.
- `SnapshotsAreKept`: neither a new queue nor entries added reach a snapshot that is being encoded. Removals do, and,
  once the queue is shorter than the snapshot, so do additions: the answer then shows an entry twice, or one that came later.
- `ClosedIsUnlisted`: a room is listed under its own code only, so deleting that takes it
  out, and a closed one is listed only until its handler takes it out. This holds even when codes
  are drawn twice. `UnusedIsCollected`: an empty or idle room leaves the table or is used again.
- `TablesAgree`, `AnswerNotTorn`, `ListingCatchesUp`: the two interfaces of the broker
  authorize the directories of one scan; no refresh writes into an answer; once MEDIA_DIR is left alone it is listed (a name with a `:` as its pieces).
- `VolLeadsToMedia`, `RestartSucceeds`: after any kill the broker starts again and `/vol1/1000` leads to MEDIA_DIR. When
  MEDIA_DIR lies below `/vol1/1000`, or that cannot be removed, it does not start; when it lies elsewhere below `/vol1` it starts, and everything that was in MEDIA_DIR is gone.
- `DatabaseInitialised`: `trim-media` finds a database. If no start was disturbed it is complete and has the actual cache path; whatever disturbed them, a
  complete one has the actual paths where these do not contain `/vol1`. Around it: a start cut off inside sqlite3 leaves a file that every
  later start takes for the database; one cut off after an edit mangles a path that contains `/vol1`, as the default MEDIA_DIR does; a launcher installed under
  `/vol1` has its meta directory mangled at once; and the first `sed` of a killed launcher, late, puts the template's cache path back over the edit of the next
  start. All four are reachable.
- `CompleteIsKept`: a complete database stays complete and keeps its paths. No start touches it or the script again, unless a tool outlived its
  launcher: that may complete the database after the next start's `Stat` found none, and this start then edits the script again and reads it into the
  database, which doubles rows without a key.
- `LinkIsRepaired`, `RowsAreKept`, `SchemaIsSeeded`: a start comes to the right link from whatever a killed or failed one left;
  seeding does not touch rows, but for a setup that is finished between the count and the import; an empty schema is seeded.
- `NothingLeftUntold`, `EndsWithItsServer`: only a kill or a fatal exit leaves helpers behind; a launcher that is told to end, or whose
  server ended, ends, unless helpers hold its pipe whose leader was not told. `mediasrv` gets there by a single Ctrl+C when
  its server has forked.
- `PageHonoured`, `FailureIsContained`, `CutIsNoticed`: of the gateway. The page size is the client's; a login survives a temp-token that fails, as the
  comment at `mobile_api.go:326` has it, and `boot` the part of it that does, as `MOBILE-API.md:48` has it; only a body sent in chunks looks complete when it
  breaks off.

What does not (PROJECT.json quotes the lines of the repository it contradicts):

- *Stale teardown.* A client loses its network and reconnects at once. The old
  handler notices and calls `removeMember(id)` with the user's id: the new
  connection's channel is closed and its member deleted.
- *Ghosts.* A broadcast that evicts a slow member tells nobody; the evicted
  handler returns without broadcasting either.
- *Closed rooms stay connected.* `close` broadcasts and deletes the room from the
  table, but closes no channel.
- *Drift.* A command older than the anchor can move the room ahead of what its
  listeners derive; when the command is refused nobody is told.
- *The janitor's two steps.* It decides under the mutex and deletes after it: a room
  entered in between is taken out with its members in it. `create` opens the same window for every new
  room, which is in the table before its host is a member.

What the repository says and the code does not bear out, without a run of its own. Where a property above comes near such a case it
names it as an exception; none of them says that the claim is right.

| Claim | What the code does |
|---|---|
| `listen_room.go:54`: every field of a room is protected by `mu` | responses read the array of `Room.Queue` after the unlock (`SnapshotsAreKept` excepts the two commands that may write it meanwhile) |
| `MOBILE-API.md:264`, `listen_room.go:569`: a kicked member is sent `closed{kicked:true}` before it is removed | the frame is dropped when the buffer is full (575); `KickedIsLast` is about a frame that was sent |
| `fnmusic.go:113`: the official setup writes its own rows and does not collide with seeding | it may finish between the count and the import, which are two processes (`RowsAreKept` excepts it) |
| `src/README.md:98`: Ctrl+C and SIGTERM end the children | helpers that hold the pipe of a leader that was killed alone hold the launcher, too (`HeldByHelpers`; in `mediasrv` one Ctrl+C is enough) |
| `src/README.md:139`: the server's group is cleaned up when its parent exits | a killed launcher sends the group no signal: the kernel tells the leader alone (Pdeathsig), helpers stay (`NothingLeftUntold` excepts a kill, and in `fnmusic` the exit of a failed seeding) |
| `src/README.md:137`: the first run puts in the actual paths and initialises the database | not once it was cut off, see `DatabaseInitialised`; and the second `sed` edits a path that contains `/vol1` again |
| `MOBILE-API.md:23`: 502 only when the upstream cannot be reached | 502 also for an answer that is not JSON or lacks its token (`mobile_api.go` 323, 447, 539), and 401 in the room handlers when the upstream cannot be reached (`listen_room.go` 304, 339, 427, 599); `Status` follows the code, and no property is stated about it |

Bounds. `Cap` is 2 where the code has 16: two is the smallest buffer in which one of the
two frames of a command can fit and the other not, and in which a kicked frame can find
a full buffer or a free place. Two users suffice to tell host from member, oneself
from others; two connections of one user, to have one replaced by the other. `MaxVersion`
bounds the commands accepted (2 with one connection, 1 with two); arrivals of joins,
leaves and connections are not bounded, handlers are reused. In `RoomPlayback` the queue
holds at most 3 entries of two tracks (the removal before, at and after the index,
and of the last), the clock runs to 2, which lets two commands have different ages with a
membership change between them; seeks go to -1 and 1.
`RoomRegistry` has two codes, two rooms and two handlers, so that a room can be made under the
code of one that was collected, or both under the same; one user, as only whether the room is empty matters.
`MCRoomSnapshots` lets a behaviour follow either the playback alone or the arrays of a room that is paused, with one command at a time:
the arrays do not depend on what is played. Its queue of 3, three arrays and one reader are enough for a live array, one
only the reader holds and a new one, and for a removal followed by an addition in place.
`DirBroker` has two directories, one with a `:` that makes two pieces; one
connection and three slots (held, live, new); two changes or kills, so that a restart can be killed, too. `Stack` has two faults for
the same reason (both edits of `init.sql` repeated, a link lost twice, two tools left behind beside a third start and its own), and two page sizes of which neither is the default alone.
Symmetry is used in safety runs only. `ListenRoom` runs without a deadlock check
because a closed room whose handlers have returned does stop; `RoomPlayback` never stops.

Fairness (`FairSpec` of `ListenRoom`). Goroutines that can run do run, the upstream answers
`identity`, a client that is alive reads: `WF(ConnStep(c))`, `WF(ReqStep(q))`.
`WF(StreamGone(c))`: Go's select picks at random among the ready cases, so that a cancelled
context that stays cancelled is not passed over for ever. No fairness is assumed of arrivals or of
clients going away.
In `DirBroker`, `main` and the watcher run, and whoever started a broker that ended starts it again (`WF(Boot)`, `WF(MainStep)`,
`WF(Tick)`, `WF(Refresh)`); kills and changes are bounded and owe nothing. In `Stack`, each goroutine of a launcher runs on, sed and sqlite3 come to
an end, and a process that was sent SIGTERM ends; no signal, boot, end of a server or step of a tool that was left behind is owed. That a server obeys SIGTERM is assumed, its code is not here.
So is that `sqlite3` is installed: a count that fails with the schema there is a fault, of which there are finitely many.
In `RoomRegistry`, handlers past their lookup run on and the janitor's ticker ticks.

Each property has a mutant in its module, marked `mutant`: an operator that is the
code with a plausible bug, under which TLC finds the property violated.

## 4. The proofs

All are for every value of the constants under the named assumptions (`FanoutAssumption`,
`ListenAssumption`, `PlaybackAssumption`, `SnapshotAssumption`, `RegistryAssumption`, `BrokerAssumption`, `SupervisorAssumption`,
`GatewayAssumption`): users and connections are different things,
each connection has a user, the buffer holds at least one frame, a path that is no directory is the volume, there are finitely many paths.

- `RoomFanoutProofs`: a room is well formed when a channel is open iff its member is in the
  map. Each method gives a well-formed room of the same type, and the lemmas say
  whose place it may change. The argument is about `Broadcast`; the others reduce to it. A second set of lemmas says how a method
  moves one member, from its old place and channel to the new: it keeps both, or it gets frames at the end of its channel, or
  it loses its place; a member that stays gets every frame that is sent.
- `ListenRoomProofs`: `TypeCorrect` and `ChannelsDisciplined`. `ChannelDiscipline` is not
  inductive over arbitrary states: that `AddMember` may install handler `c` needs that `c` was nobody's member,
  and the user a POST handler acts for must be a user. `IInv` is the type, well-formedness
  of the room, ownership (a member `c` belongs to the user of `c`, whose handler has
  joined and not returned) and the sanity of requests. One step per action.
- Also there: `FeedStaysCurrent`, `RosterIsCovered`, `KickedEndsStream`, `NoVersionSkipped`, `PlaceLostForCause`. The first two are not
  inductive, as they look at the last frame of a kind only: an update may be followed by others, and `StreamFrame` takes frames off the other end. `SInv` adds
  to `IInv` what is in a channel (`ChanOK`: the versions of its state frames ascend, none above the room's, a kicked frame is last and
  in a closed channel), that a reading client and its channel together cover every version up to the room's and every member (`ReadOK`), and that only the
  host's kick gets as far as `kickMember` (`KickOK`). TLC found `SInv` to hold on the instances of both safety runs before it was proved.
- `PartedGetsNoMore` and `PartedMayEnd`: the safety part of `RemovedStreamEnds`, which itself needs fairness. A stream whose place is
  gone never gets it back, takes frames only off the front of a channel to which none is added, and, when that is empty, finds it closed.
- `FeedImplemented`: the room implements `RoomFeed`, for every number of connections and any buffer. The place of one connection is
  followed through each method by the lemmas on moves: a member that stays is `Told` of a publication or `Kept`, one that loses its place is
  cut off and owed part of what it was. What becomes of several listeners at once is `Shuffle`. One lemma per action of `ListenRoom` names the step of the
  feed it is.
- `RoomPlaybackProofs`: `PlaybackTypeCorrect`, `IndexStaysInRange`, `AnchorStaysPast`,
  `ChangesAlwaysAnnounced`, `RoomNeverBehind`. The last is not inductive at one moment of
  the clock: the strengthening `Lead` compares the two lines on which the room's position and the one
  listeners derive move (where each would be at time 0), and needs the playing flag to be the announced one.
  `EditsKeepTrack`: the entry at the index is the same before and after an edit, because a removal before the index shifts
  the queue and the index together, and the touch of an older command does not rewind.
- `RoomRegistryProofs`: `RegistryTypeCorrect` and `ClosedLeavesTable`, for codes that may be drawn
  twice. `Holds` is the strengthening: a handler past `getRoom` has a room that was made, and a
  struct that was not made yet is not closed. Two lemmas cover most steps: one room
  changes but for its code and `Closed`, and one code is deleted.
- `RoomFeedProofs`: `FeedUpToDate`, which is `FeedIsCurrent` of the abstract feed: a greeted listener in the room was sent the last
  version or is owed it. `FInv` adds that nothing above the version is owed. With `FeedImplemented` it holds of the code's rooms.
- `RoomSnapshotsProofs`: `PlaybackImplemented` (each step is one of `RoomPlayback`, so its theorems carry over), `QueueAlwaysStored`
  and `SnapshotsKept`. `MInv` is that every slice lies within its array and that the view through the live one is the queue; the lemmas say what
  `append` in place, a new array and a shift make of a view, entry by entry.
- `DirBrokerProofs`: `BrokerTypes`, `TablesAlwaysAgree`, `VolAlwaysLeads`, `AnswersAreNotTorn`, `RestartsSucceed`, all from one
  invariant `BInv`. Its parts: a connection past a request holds the slice of a table that was made (`ConnsServed`); where `main` is tells what is at `/vol1/1000`
  (`Prepared`); at the Symlink there is nothing, unless MEDIA_DIR is below or `/vol1/1000` cannot be removed (`LinkFree`).
- `StackProofs`: `DatabaseIsInitialised`, `CompleteStays`, `LinkAlwaysRepaired`, `RowsStay`, `NothingIsLeft`, for any number of faults. `LInv` says that a
  launcher has a group only while its server runs (`Grouped`), that only a link that could not be removed is in the way (`LinkSteps`), and, as `VInv`, what the
  two lines can be wherever they are: in what a tool has read (`Copies`), in the script (`ScriptSteps`), in a complete database (`Loaded`). The three depend on each other,
  since a copy becomes the script and the script the next copy, and on which kinds of tools have outlived a launcher: that of a first `sed` is the only one
  that can put the template's cache path back. Further parts are which tool main waits for (`Current`), that there are no more tools left behind than kills (`LeftSteps`),
  that a start finds no database up to its load if no tool outlived a launcher (`DatabaseSteps`), and what undisturbed starts find (`FirstSteps`). `MaxFaults` is any
  number, so the proof covers any number of tools at once; TLC found the parts of `LInv` to hold with three before they were proved.
- Also there, of the gateway: `FailuresAreContained`, `CutsAreNoticed`, from `GInv`: a request keeps the refusal it met and, if it met
  one, makes no call; otherwise it has made the calls of its kind as far as their outcomes let it go on (`CallsMade`), and is answered or
  copied only when they did not (`CallsEnded`). It holds whatever the launcher does meanwhile, whose end takes the
  request with it. `PagesAreHonoured` is a fact about `SizeAsked`, for any page sizes that are numbers above 0. `StackTypeCorrect` combines `LInv` and `GInv`.

Every safety property the runs find to hold is a theorem. Only model-checked are the liveness properties `RemovedStreamEnds`,
`StreamCatchesUp`, `DeadClientReleased`, `UnusedIsCollected`, `ListingCatchesUp`, `EndsWithItsServer`, `SchemaIsSeeded` (out of the
prover's reach: fairness needs `ENABLED`).

## 5. Not modelled, and the plan

Left, in this order:

1. What the other liveness properties rest on, and the prover can reach, as `PartedGetsNoMore` does for `RemovedStreamEnds`: for
   `StreamCatchesUp` that a version a client was sent goes back only to one that was queued before its greeting, for `UnusedIsCollected` that an unused room stays collectable,
   for `ListingCatchesUp` that a finished scan of an untouched MEDIA_DIR stays the last.
2. `closeRoom` and `handleRoomEvents` over the table and one room at once: today each of `ListenRoom` and `RoomRegistry` leaves the other's part open.

Not modelled:

- The preload shims (`nodri.c`, `nodmaheap.c`, `fakecompat.c`): interposers of libc calls. Two keep no state; the third initialises
  a path without synchronisation on the first call, which is listed as a hazard.
- Packaging and install scripts: straight-line, nothing to interleave. Of the SQL files nothing but the two lines of `fntv/init.sql` that the launcher
  edits, and what it does to the rows to read `init.sql` or `init_data.sql`.
- The prebuilt servers have no source here; what the Go code expects of them is modelled as external.
- In the gateway: the renaming of parameters other than the paging, envelopes and field mappings of answers, lyrics and covers, the
  token a request carries, and whose session the temp-token of a login belongs to (it is asked for with the cookie of the login request, not with the token just issued).
- In the broker: the bytes of requests and answers, their lengths included (a malformed request ends the connection, as `Hangup`), and the `auth-path` request, which reads
  one table under the lock and changes nothing.
- `handleRoomState` changes nothing; as a reader it is in `RoomSnapshots`.
