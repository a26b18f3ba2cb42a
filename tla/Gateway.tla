------------------------------- MODULE Gateway -------------------------------
(***************************************************************************)
(* The HTTP side of fnmusic: serveProxy, the mobile API in front of        *)
(* trim-music, and the requests it makes of it.  Handlers share nothing,   *)
(* so one is followed at a time.  A path is the kind of its route; of a    *)
(* query only the paging, of the headers of an answer only its length.     *)
(***************************************************************************)
EXTENDS Naturals, Sequences

CONSTANTS None,         \* no refusal
          Missing,      \* a parameter that is not in the query
          Blank,        \* one without a value
          PageSize,     \* page sizes a client may ask for
          DefaultSize   \* 50

ASSUME GatewayAssumption ==
  /\ None \notin {"preflight", "method", "input"}
  /\ Missing # Blank
  /\ {Missing, Blank} \cap (PageSize \cup {DefaultSize}) = {}
  /\ PageSize \cup {DefaultSize} \subseteq Nat \ {0}

VARIABLES
  gate,     \* the listener of serveProxy
  req       \* the request in progress

gateVars == <<gate, req>>

-----------------------------------------------------------------------------
(* A parameter: not in the query, there without a value, or a number. *)
Param == {Missing, Blank} \cup PageSize

(***************************************************************************)
(* The routes: the lists whose limit is a name for size, and those whose   *)
(* limit is not; what is read, or posted; settings, which are got and put; *)
(* login and boot, which make several requests of the upstream; media, the *)
(* preset covers and the upload of one, passed on as they are; the POST    *)
(* handlers of rooms; what is not of the mobile API.  The routes of one    *)
(* method let OPTIONS through, too.                                        *)
(***************************************************************************)
Methods == [list |-> {"GET", "OPTIONS"}, plainList |-> {"GET", "OPTIONS"},
            item |-> {"GET", "OPTIONS"}, action |-> {"POST", "OPTIONS"},
            settings |-> {"GET", "PUT"}, upload |-> {"POST"},
            join |-> {"POST"}, leave |-> {"POST"}]

Anything == {"GET", "POST", "PUT", "DELETE"}        \* not looked at
Declared(kind) == IF kind \in DOMAIN Methods THEN Methods[kind] ELSE Anything

Listed == {"list", "plainList"}
Passed == Listed \cup {"item", "action", "settings"}
Raw == {"media", "preset", "upload", "legacy"}
Checked == {"login", "join", "preset"}
Bodied == {"POST", "PUT"}
Kinds == DOMAIN Methods \cup Raw \cup {"login", "boot"}

Request(k, m, s, l) == [kind |-> k, method |-> m, size |-> s, limit |-> l, valid |-> TRUE]

Plain == Request("boot", "GET", Missing, Missing)

(***************************************************************************)
(* Every method on every route, input that is refused where it is, every   *)
(* paging; valid: the body can be read, and where it is looked at, or the  *)
(* name of a preset cover is, that is well formed.                         *)
(***************************************************************************)
Requests ==
  {Request(k, m, Missing, Missing) : k \in Kinds, m \in Anything \cup {"OPTIONS"}}
  \cup {[Request(k, m, Missing, Missing) EXCEPT !.valid = FALSE] :
            k \in Checked \cup {"action", "settings"}, m \in Anything}
  \cup {Request(k, "GET", s, l) : k \in Listed, s \in Param, l \in Param}

-----------------------------------------------------------------------------
(***************************************************************************)
(* passThrough: a mapped parameter under its upstream name; over it, every *)
(* parameter that is not a key of the map, as it came; then the defaults.  *)
(***************************************************************************)
SizeAskedMapsAway(r) ==             \* mutant: upstream names count as mapped
  IF r.kind = "list" /\ r.limit \in PageSize THEN r.limit
  ELSE IF r.kind = "plainList" /\ r.size \in PageSize THEN r.size
  ELSE DefaultSize

SizeAsked(r) ==
  LET mapped == IF r.kind = "list" /\ r.limit # Blank THEN r.limit ELSE Missing
      given  == IF r.size # Missing THEN r.size ELSE mapped
  IN IF given \in PageSize THEN given ELSE DefaultSize

Calls(r) ==
  CASE r.kind = "login"             -> <<"password", "tempToken">>
    [] r.kind = "boot"              -> <<"user", "initState", "sysConfig">>
    [] r.kind \in {"join", "leave"} -> <<"user">>
    [] OTHER                        -> <<r.kind>>

-----------------------------------------------------------------------------
(***************************************************************************)
(* What a request meets before any call: withCORS answers OPTIONS, a route *)
(* refuses other methods than its own, some handlers refuse bad input.     *)
(***************************************************************************)
Malformed(r) ==
  ~r.valid /\ (r.kind \in Checked \/ (r.kind \in Passed /\ r.method \in Bodied))

Refusals == {"preflight", "method", "input"}

Refusal(r) ==
  IF r.kind = "legacy" THEN None
  ELSE IF r.method = "OPTIONS" THEN "preflight"
  ELSE IF r.method \notin Declared(r.kind) THEN "method"
  ELSE IF Malformed(r) THEN "input"
  ELSE None

(***************************************************************************)
(* doUpstream: no answer, one that is not JSON, code # 0, or code = 0 with *)
(* data that lacks what the handler needs (userToken, the user's id) or is *)
(* fine.  proxyRaw and the reverse proxy: no answer, or one without a      *)
(* body, of a known length, or in chunks.                                  *)
(***************************************************************************)
Outcomes(r) == {"down"} \cup IF r.kind \in Raw THEN {"empty", "sized", "chunked"}
                                               ELSE {"garbled", "refused", "lacking", "ok"}

(* The handler goes on to its next call. *)
GoesOnAgain(r, got) ==              \* mutant: the calls are not counted
  r.kind = "login" => got[1] = "ok"

GoesOn(r, got) ==
  /\ Len(got) < Len(Calls(r))
  /\ r.kind = "login" => got[1] = "ok"

(* The answer, for the outcomes the handler got. *)
Broken == {"down", "garbled"}

LoginStatusAll(got) ==              \* mutant: temp-token must succeed, too
  IF \E i \in 1 .. Len(got) : got[i] \in Broken \cup {"lacking"} THEN 502 ELSE 200

LoginStatus(got) == IF got[1] \in Broken \cup {"lacking"} THEN 502 ELSE 200

(* identity: a user with some id *)
Identified(got) == got[1] = "ok"

Status(r, got) ==
  CASE r.kind = "login"            -> LoginStatus(got)
    [] r.kind \in {"boot", "leave"} -> 200
    [] r.kind = "join"             -> IF Identified(got) THEN 200 ELSE 401
    [] r.kind \in Passed           -> IF got[1] \in Broken THEN 502 ELSE 200
    [] r.kind \in Raw              -> IF got[1] = "down" THEN 502 ELSE 200

(* proxyRaw keeps the length unless the answer has no body. *)
LengthDropped(o) == FALSE           \* mutant: content-length is skipped

LengthKept(o) == o = "sized"

-----------------------------------------------------------------------------
(***************************************************************************)
(* asked, got: the calls made of the upstream and their outcomes; refusal: *)
(* why there was none; whole: the body was copied to its end; trusted: to  *)
(* the client it looks so.                                                 *)
(***************************************************************************)
NoReq == [pc |-> "idle", r |-> Plain, refusal |-> None, got |-> <<>>,
          whole |-> TRUE, trusted |-> TRUE]

GateInit == gate = "off" /\ req = NoReq

(* ListenAndServe; its failure is logged. *)
Listen ==
  /\ gate = "off"
  /\ gate' \in {"open", "failed"}
  /\ UNCHANGED req

(* Shutdown closes the listener; requests in progress go on. *)
Shutdown ==
  /\ gate = "open"
  /\ gate' = "closing"
  /\ UNCHANGED req

Arrive(r) ==
  /\ gate = "open"
  /\ req.pc = "idle"
  /\ req' = [NoReq EXCEPT !.r = r, !.refusal = Refusal(r),
                          !.pc = IF Refusal(r) = None THEN "call" ELSE "done"]
  /\ UNCHANGED gate

(* A call; the upstream answers only if it is up. *)
Upstream(up) ==
  /\ req.pc = "call"
  /\ \E o \in Outcomes(req.r) :
       LET got == Append(req.got, o)
       IN /\ up \/ o = "down"
          /\ req' = [req EXCEPT !.got = got,
                                !.pc = IF req.r.kind \in Raw /\ o # "down" THEN "copy"
                                       ELSE IF GoesOn(req.r, got) THEN "call" ELSE "done"]
  /\ UNCHANGED gate

(***************************************************************************)
(* io.Copy, whose error is ignored: a body cut short looks complete unless *)
(* its length was announced.  The reverse proxy aborts the connection.     *)
(***************************************************************************)
Copy ==
  /\ req.pc = "copy"
  /\ \E whole \in BOOLEAN :
       /\ req.got[1] = "empty" => whole
       /\ req' = [req EXCEPT
                    !.pc = "done",
                    !.whole = whole,
                    !.trusted = whole \/ (req.r.kind # "legacy" /\ ~LengthKept(req.got[1]))]
  /\ UNCHANGED gate

Answered ==
  /\ req.pc = "done"
  /\ req' = NoReq
  /\ UNCHANGED gate

(* The client goes away, and its context with it. *)
ClientGone ==
  /\ req.pc \in {"call", "copy"}
  /\ req' = NoReq
  /\ UNCHANGED gate

GateTypeOK ==
  /\ gate \in {"off", "open", "failed", "closing"}
  /\ req.pc \in {"idle", "call", "copy", "done"}
  /\ req.r \in Requests \cup {Plain}
  /\ req.refusal \in Refusals \cup {None}
  /\ Len(req.got) <= Len(Calls(req.r))
  /\ req.whole \in BOOLEAN /\ req.trusted \in BOOLEAN

-----------------------------------------------------------------------------
(***************************************************************************)
(* MOBILE-API.md: the pages a client asks for by size, or by limit where   *)
(* that is a name for it, are those the upstream is asked for, and 50 are  *)
(* the default.  (An empty size beside a limit makes it the default, too.) *)
(***************************************************************************)
PageHonoured ==
  req.pc # "idle" /\ req.r.kind \in Listed =>
    LET r == req.r
    IN /\ r.size \in PageSize => SizeAsked(r) = r.size
       /\ r.size = Missing /\ r.limit \in PageSize /\ r.kind = "list"
            => SizeAsked(r) = r.limit
       /\ {r.size, r.limit} \subseteq {Missing, Blank} => SizeAsked(r) = DefaultSize

(***************************************************************************)
(* A failure stays where it is, in the two handlers of several calls: a    *)
(* login that succeeded is not lost to a temp-token that fails             *)
(* (mobile_api.go:326), nor the rest of boot to a part of it that does     *)
(* (MOBILE-API.md:48).                                                     *)
(***************************************************************************)
FailureIsContained ==
  req.pc = "done" /\ req.refusal = None =>
    LET got == req.got
        status == Status(req.r, got)
    IN /\ req.r.kind = "login" /\ got[1] = "ok" => Len(got) = 2 /\ status = 200
       /\ req.r.kind = "boot" => Len(got) = 3 /\ status = 200

(* A body cut short does not look complete, unless its length was unknown. *)
CutIsNoticed ==
  req.pc = "done" /\ req.trusted /\ ~req.whole => req.got[1] = "chunked"
=============================================================================
