----------------------------- MODULE MCDirBroker -----------------------------
(* Model values for the checks of DirBroker. *)
EXTENDS DirBroker, TLC

CONSTANTS default, colon, left, right, transcode, vol1, c1, s1, s2, s3

(* The name of one directory has a ':', and splits in two. *)
MCPieces == (vol1 :> {vol1} @@ default :> {default} @@ colon :> {left, right}
             @@ transcode :> {transcode})
=============================================================================
