-------------------------- MODULE DownloadContract --------------------------
(***************************************************************************)
(* What every way of downloading a torrent promises its caller: pieces are *)
(* accepted one at a time, after their SHA-1 hash was checked, and success *)
(* is reported only when each piece of the torrent was accepted.  Giving   *)
(* up with an error is always allowed.                                     *)
(***************************************************************************)
CONSTANT AllPieces

VARIABLES verified,  \* pieces accepted so far
          outcome    \* "waiting", "ok" or "error": what the caller has been told

vars == <<verified, outcome>>

Init == verified = {} /\ outcome = "waiting"

Accept ==
    /\ outcome = "waiting"
    /\ \E p \in AllPieces \ verified : verified' = verified \cup {p}
    /\ UNCHANGED outcome

Succeed ==
    /\ outcome = "waiting"
    /\ verified = AllPieces
    /\ outcome' = "ok"
    /\ UNCHANGED verified

Fail ==
    /\ outcome = "waiting"
    /\ outcome' = "error"
    /\ UNCHANGED verified

Next == Accept \/ Succeed \/ Fail

Spec == Init /\ [][Next]_vars
=============================================================================
