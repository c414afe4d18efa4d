----------------------------- MODULE PeerSearch -----------------------------
(***************************************************************************)
(* app/main.go: connectToWorkingPeer.  One goroutine per peer, at most     *)
(* MaxDials of them dialing, races for the first connection that works;    *)
(* another goroutine closes resultChan when all have ended.                *)
(***************************************************************************)
EXTENDS Naturals, FiniteSets

CONSTANTS Peers,
          NoPeer,
          MaxDials      \* capacity of sem: 30 in the code

ASSUME SearchAssumption ==
    /\ IsFiniteSet(Peers) /\ Peers # {} /\ NoPeer \notin Peers
    /\ MaxDials \in Nat \ {0}

VARIABLES
    dialer,       \* peer -> "wait", "check", "dial", "setup", "lock" or "ended"
    done,         \* is done closed?
    completed,
    resultChan,   \* the peer whose client it holds, or NoPeer
    closed,       \* is resultChan closed?
    open,         \* peers with an open connection
    outcome,      \* of the call: "none", "client" or "error"
    winner        \* the peer whose client is returned

searchVars == <<dialer, done, completed, resultChan, closed, open, outcome, winner>>

SearchInit ==
    /\ dialer = [p \in Peers |-> "wait"] /\ done = FALSE /\ completed = FALSE
    /\ resultChan = NoPeer /\ closed = FALSE /\ open = {}
    /\ outcome = "none" /\ winner = NoPeer

----------------------------------------------------------------------------
(* The goroutine of peer p *)

InSem == {p \in Peers : dialer[p] \in {"check", "dial", "setup", "lock"}}

Goes(p, from, to) == dialer[p] = from /\ dialer' = [dialer EXCEPT ![p] = to]

GetsPlace(p) ==
    /\ Goes(p, "wait", "check")
    /\ Cardinality(InSem) < MaxDials
    /\ UNCHANGED <<done, completed, resultChan, closed, open, outcome, winner>>

\* In either of the two selects.
SeesDone(p) ==
    /\ done
    /\ Goes(p, "wait", "ended") \/ Goes(p, "check", "ended")
    /\ UNCHANGED <<done, completed, resultChan, closed, open, outcome, winner>>

Dials(p) ==
    /\ ~done
    /\ Goes(p, "check", "dial")
    /\ UNCHANGED <<done, completed, resultChan, closed, open, outcome, winner>>

DialFails(p) ==
    /\ Goes(p, "dial", "ended")
    /\ UNCHANGED <<done, completed, resultChan, closed, open, outcome, winner>>

DialSucceeds(p) ==
    /\ Goes(p, "dial", "setup")
    /\ open' = open \cup {p}
    /\ UNCHANGED <<done, completed, resultChan, closed, outcome, winner>>

SetupFails(p) ==
    /\ Goes(p, "setup", "ended")
    /\ open' = open \ {p}
    /\ UNCHANGED <<done, completed, resultChan, closed, outcome, winner>>

SetupSucceeds(p) ==
    /\ Goes(p, "setup", "lock")
    /\ UNCHANGED <<done, completed, resultChan, closed, open, outcome, winner>>

\* Mutant of Delivers: a client that comes second is not closed.
DeliversOrForgets(p) ==
    /\ Goes(p, "lock", "ended")
    /\ IF completed
       THEN UNCHANGED <<done, completed, resultChan, open>>
       ELSE completed' = TRUE /\ done' = TRUE /\ resultChan' = p /\ UNCHANGED open
    /\ UNCHANGED <<closed, outcome, winner>>

\* Under mu: the first client is sent, and any other one closed.
Delivers(p) ==
    /\ Goes(p, "lock", "ended")
    /\ IF completed
       THEN open' = open \ {p} /\ UNCHANGED <<done, completed, resultChan>>
       ELSE completed' = TRUE /\ done' = TRUE /\ resultChan' = p /\ UNCHANGED open
    /\ UNCHANGED <<closed, outcome, winner>>

----------------------------------------------------------------------------

\* Mutant of AllEnded: one dialer is enough.
AnyEnded == \E p \in Peers : dialer[p] = "ended"

\* wg.Wait returns.
AllEnded == \A p \in Peers : dialer[p] = "ended"

ClosesResults ==
    /\ ~closed /\ AllEnded
    /\ closed' = TRUE
    /\ UNCHANGED <<dialer, done, completed, resultChan, open, outcome, winner>>

\* The caller receives a client, or finds the channel closed and empty.
SearchReturns ==
    /\ outcome = "none"
    /\ \/ /\ resultChan # NoPeer
          /\ outcome' = "client" /\ winner' = resultChan /\ resultChan' = NoPeer
       \/ /\ resultChan = NoPeer /\ closed
          /\ outcome' = "error" /\ UNCHANGED <<winner, resultChan>>
    /\ UNCHANGED <<dialer, done, completed, closed, open>>

\* A step of p's goroutine that does not depend on its connection.
Dialer(p) == GetsPlace(p) \/ SeesDone(p) \/ Dials(p) \/ Delivers(p)

\* NewClient and SetupExtensions as seen from here.
Connection(p) == DialFails(p) \/ DialSucceeds(p) \/ SetupFails(p) \/ SetupSucceeds(p)

----------------------------------------------------------------------------
(* Properties *)

\* No connection is leaked, however the dialers race: one that is open is in
\* the hands of its dialer, in resultChan, or with the caller.
NoConnectionLeaked ==
    open = {p \in Peers : dialer[p] \in {"setup", "lock"}}
           \cup ({resultChan, winner} \ {NoPeer})

\* The search fails only when every dialer has ended and none of them has
\* delivered a client; a client that was delivered is never passed over.
ErrorMeansAllFailed ==
    outcome = "error" => ~completed /\ \A p \in Peers : dialer[p] = "ended"
=============================================================================
