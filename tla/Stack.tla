-------------------------------- MODULE Stack --------------------------------
(***************************************************************************)
(* One of the launchers with what it starts and runs: the preparations of  *)
(* fntv, those of fnmusic and its goroutines seedDB and serveProxy, the    *)
(* server in its process group, and the files that outlive them all.  The  *)
(* launcher may be killed and booted again.                                *)
(***************************************************************************)
EXTENDS VideoLauncher, MusicLauncher, Gateway

VARIABLES
  clients   \* whether requests are followed in this behaviour

stackVars == <<supVars, videoVars, musicVars, gateVars, clients>>

-----------------------------------------------------------------------------
(***************************************************************************)
(* A bound: where requests are followed, fnmusic is installed and set up,  *)
(* nothing fails but its server, and that forks no helpers.  All that a    *)
(* request meets of the launcher is whether the server is up and how long  *)
(* the launcher itself is.                                                 *)
(***************************************************************************)
ServedInit == app = "fnmusic" /\ link = "right" /\ music = "official"
Undisturbed == faults' = 0 /\ group'.helpers = "none"

Init ==
  /\ SupInit /\ VideoInit /\ MusicInit /\ GateInit
  /\ app # "fntv" => inVol = {}
  /\ app # "fnmusic" => link = "none" /\ music = "none"
  /\ clients \in BOOLEAN
  /\ clients => ServedInit

(* Goroutines end with their process. *)
GateEndsWithMain ==
  IF main' = "off" THEN gate' = "off" /\ req' = NoReq ELSE UNCHANGED gateVars

(* A step of one part, with what it does to the others. *)
OfLauncher(A) ==
  /\ A
  /\ ToolOutlivesMain
  /\ EndsWithMain
  /\ GateEndsWithMain
  /\ clients => Undisturbed
  /\ UNCHANGED clients

OfVideo(A) ==
  /\ A
  /\ UNCHANGED <<musicVars, gateVars, clients>>

OfMusic(A) ==
  /\ A
  /\ GateEndsWithMain
  /\ clients => Undisturbed
  /\ UNCHANGED <<videoVars, clients>>

(* go serveProxy, once the server was started; then its listener, for as *)
(* long as main waits.                                                   *)
ServeProxy ==
  /\ app = "fnmusic"
  /\ main \in {"started", "wait"}
  /\ \/ Listen
     \/ ctx /\ Shutdown
  /\ UNCHANGED <<supVars, videoVars, musicVars, clients>>

Handlers ==
  /\ \/ clients /\ \E r \in Requests : Arrive(r)
     \/ Upstream(Serving)
     \/ Copy
     \/ Answered
     \/ ClientGone
  /\ UNCHANGED <<supVars, videoVars, musicVars, clients>>

Next ==
  \/ OfLauncher(Boot \/ SupStep \/ SupExternal)
  \/ OfVideo(VideoStep \/ ToolFails \/ LeftStep)
  \/ OfMusic(LinkStep \/ SeedStep \/ MusicFails \/ MusicServer)
  \/ ServeProxy
  \/ Handlers

(***************************************************************************)
(* Each goroutine runs on, the sqlite3 or sed it waits for comes to an     *)
(* end, and a process that was told to end does; nothing else is owed, no  *)
(* signal, no boot, no end of a server that was not told or of a tool that *)
(* was left behind.                                                        *)
(***************************************************************************)
MainStep == Start \/ StartFails \/ SetCancel \/ Finish

Fairness ==
  /\ WF_stackVars(OfLauncher(MainStep))
  /\ WF_stackVars(OfLauncher(CtxDone))
  /\ WF_stackVars(OfVideo(VideoStep))
  /\ WF_stackVars(OfMusic(LinkStep))
  /\ WF_stackVars(OfMusic(SeedStep))
  /\ WF_stackVars(OfLauncher(LeaderObeys))
  /\ WF_stackVars(OfLauncher(HelpersObey))

Spec == Init /\ [][Next]_stackVars /\ Fairness

-----------------------------------------------------------------------------
(* The shape of the state. *)
TypeOK ==
  /\ SupTypeOK
  /\ VideoTypeOK
  /\ MusicTypeOK
  /\ GateTypeOK
  /\ clients \in BOOLEAN
=============================================================================
