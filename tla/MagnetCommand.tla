--------------------------- MODULE MagnetCommand ---------------------------
(***************************************************************************)
(* app/main.go, magnet_download_piece, once peers are known: the search    *)
(* for a peer that works (PeerSearch) and then, on the connection that won,*)
(* the metadata and one piece (SyncClient).  The connection of one peer,   *)
(* Watched, is modelled in detail, inside its dialer and after it; of the  *)
(* others only the outcome of the dial and of the setup is kept, and the   *)
(* command is followed no further when one of them wins.                   *)
(***************************************************************************)
EXTENDS PeerSearch, SyncClient

CONSTANT Watched

ASSUME WatchedAssumption == Watched \in Peers

commandVars == <<searchVars, syncVars>>

CommandInit == SearchInit /\ SyncInit

----------------------------------------------------------------------------
(* The dialer of Watched *)

InDialer(step) == dialer[Watched] = step

NewClientInside ==
    \/ /\ InDialer("dial") /\ (Connects \/ NewClientReads)
       /\ UNCHANGED searchVars
    \/ DialSucceeds(Watched) /\ NewClientReturns
    \/ DialFails(Watched) /\ Fails({"none", "init"})

SetupInside ==
    \/ /\ \E m \in Readable : SetupReads(m)
       /\ IF phase' = "failed" THEN SetupFails(Watched)
          ELSE IF phase' = "ready" THEN SetupSucceeds(Watched) ELSE UNCHANGED searchVars
    \/ SetupSucceeds(Watched) /\ SetupKnows
    \/ SetupFails(Watched) /\ Fails({"setup"})
    \/ SetupFails(Watched) /\ ~metadataExtId /\ TimesOut({"setup"})

----------------------------------------------------------------------------

CommandNext ==
    \/ \E p \in Peers : Dialer(p) /\ UNCHANGED syncVars
    \/ \E p \in Peers \ {Watched} : Connection(p) /\ UNCHANGED syncVars
    \/ (ClosesResults \/ SearchReturns) /\ UNCHANGED syncVars
    \/ NewClientInside \/ SetupInside
    \/ winner = Watched /\ Command /\ UNCHANGED searchVars
    \/ winner = Watched /\ Fails({"metadata", "unchoke", "request", "piece"}) /\ UNCHANGED searchVars
    \/ Peer /\ UNCHANGED searchVars

CommandSpec == CommandInit /\ [][CommandNext]_commandVars

\* Goroutines run, and every wait has a deadline.  In NewClient it is one per
\* message: that it returns assumes a peer that is silent for 1.5s at some time,
\* here one whose greetings are finite.
CommandFairness ==
    /\ WF_commandVars(\E p \in Peers : Dialer(p) /\ UNCHANGED syncVars)
    /\ WF_commandVars(\E p \in Peers \ {Watched} : Connection(p) /\ UNCHANGED syncVars)
    /\ WF_commandVars((ClosesResults \/ SearchReturns) /\ UNCHANGED syncVars)
    /\ WF_commandVars(NewClientInside) /\ WF_commandVars(SetupInside)
    /\ WF_commandVars(winner = Watched /\ Command /\ UNCHANGED searchVars)

CommandFairSpec == CommandSpec /\ CommandFairness

----------------------------------------------------------------------------
(* Properties *)

\* The type of the state.  No more than MaxDials goroutines hold a place in sem,
\* and no attempt counts all blocks without ending.
CommandTypeOK ==
    /\ dialer \in [Peers -> {"wait", "check", "dial", "setup", "lock", "ended"}]
    /\ Cardinality(InSem) <= MaxDials
    /\ resultChan \in Peers \cup {NoPeer} /\ winner \in Peers \cup {NoPeer}
    /\ open \subseteq Peers /\ outcome \in {"none", "client", "error"}
    /\ {done, completed, closed, metadataExtId, torn, offers} \subseteq BOOLEAN
    /\ phase \in {"none", "init", "setup", "ready", "metadata", "unchoke", "request",
                  "piece", "done", "failed", "panicked"}
    /\ Len(metadata) <= MetaPieces
    /\ attempt \in 0 .. MaxAttempts /\ received \in 0 .. Blocks - 1
    /\ got \subseteq 1 .. Blocks /\ unchoked \in {"no", "early", "yes", "choked"}
    /\ mismatch \subseteq {"metadata", "piece"} /\ spoilt \subseteq {"torn", "dropped", "write"}
    /\ torn => stream # <<>> /\ "torn" \in spoilt

\* The command's state has its type, and no connection is leaked in the search.
CommandInv == CommandTypeOK /\ NoConnectionLeaked

\* The command comes to an end, though dials fail, peers stall and connections
\* break: the search returns, and if Watched is the one it returns, the download
\* succeeds or fails, or noise that is read for a message makes the program panic.
CommandEnds ==
    <>(/\ outcome # "none"
       /\ winner = Watched => phase \in {"done", "failed", "panicked"})
=============================================================================
