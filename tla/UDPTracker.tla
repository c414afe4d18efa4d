---------------------------- MODULE UDPTracker ----------------------------
(***************************************************************************)
(* tracker/udp.go: GetPeersUDP, a connect exchange and then an announce    *)
(* exchange with a tracker over UDP.  Datagrams may be lost, delayed,      *)
(* reordered and duplicated: each network is the set of all datagrams ever *)
(* sent on it, and receiving one does not remove it.  The tracker is       *)
(* external; it answers an announce only if it knows the connection id.    *)
(*                                                                         *)
(* The two transaction ids of a call are taken to differ, and to differ    *)
(* from that of a stale datagram meant for an earlier user of the port.    *)
(***************************************************************************)
EXTENDS Naturals, FiniteSets

CONSTANTS MaxRetries,   \* udpMaxRetries; 2 in the code
          ConnIds,      \* connection ids the tracker hands out
          NoConn

ASSUME TrackerAssumption == MaxRetries \in Nat /\ NoConn \notin ConnIds

VARIABLES
    step,          \* "connect" (udpConnect), "announce" (udpAnnounce), "done"
    waiting,       \* inside conn.Read
    retry,
    connectionID,
    result,        \* "none", "peers" or "error"
    requests, responses,   \* the two directions of the network
    issued,        \* tracker: connection ids handed out
    registered     \* tracker: has it accepted an announce of this call?

callVars == <<step, waiting, retry, connectionID, result>>
trackerVars == <<issued, registered>>
vars == <<callVars, requests, responses, trackerVars>>

Reply(action, txn, id) == [action |-> action, txn |-> txn, id |-> id]
Short == Reply("short", "stale", NoConn)   \* too few bytes for its kind
Stale == {Reply("connect", "stale", NoConn), Reply("announce", "stale", NoConn)}

Init ==
    /\ step = "connect" /\ waiting = FALSE /\ retry = 0
    /\ connectionID = NoConn /\ result = "none"
    /\ requests = {}
    /\ responses \in SUBSET Stale
    /\ issued = {} /\ registered = FALSE

----------------------------------------------------------------------------
(* The call.  Both exchanges use the step's name as the transaction id. *)

Finish(r) ==
    /\ step' = "done" /\ waiting' = FALSE /\ result' = r
    /\ UNCHANGED <<retry, connectionID>>

Send ==
    /\ step # "done" /\ ~waiting /\ retry < MaxRetries
    /\ requests' = requests \cup {[action |-> step, txn |-> step, id |-> connectionID]}
    /\ waiting' = TRUE
    /\ UNCHANGED <<step, retry, connectionID, result, responses, trackerVars>>

TimesOut ==
    /\ waiting
    /\ waiting' = FALSE
    /\ retry' = retry + 1
    /\ UNCHANGED <<step, connectionID, result, requests, responses, trackerVars>>

GivesUp ==
    /\ step # "done" /\ ~waiting /\ retry = MaxRetries
    /\ Finish("error")
    /\ UNCHANGED <<requests, responses, trackerVars>>

\* The socket reports an error other than a timeout.
SocketFails ==
    /\ step # "done" /\ retry < MaxRetries
    /\ Finish("error")
    /\ UNCHANGED <<requests, responses, trackerVars>>

\* Mutant of Fits: the transaction id is not looked at.
FitsActionOnly(m) == m.action = step

Fits(m) == m.action = step /\ m.txn = step

ConnectReceives(m) ==
    /\ step = "connect" /\ waiting /\ m \in responses
    /\ Fits(m)
    /\ step' = "announce" /\ waiting' = FALSE /\ retry' = 0
    /\ connectionID' = m.id
    /\ UNCHANGED <<result, requests, responses, trackerVars>>

AnnounceReceives(m) ==
    /\ step = "announce" /\ waiting /\ m \in responses
    /\ Fits(m)
    /\ Finish("peers")
    /\ UNCHANGED <<requests, responses, trackerVars>>

\* Any other datagram ends the call, a late duplicate from the connect exchange
\* too.
ReceivesOther(m) ==
    /\ waiting /\ m \in responses
    /\ ~Fits(m)
    /\ Finish("error")
    /\ UNCHANGED <<requests, responses, trackerVars>>

----------------------------------------------------------------------------
(* The tracker *)

Answer(m) == responses' = responses \cup {m} /\ UNCHANGED <<callVars, requests>>

TrackerConnects(r, id) ==
    /\ r \in requests /\ r.action = "connect"
    /\ issued' = issued \cup {id}
    /\ Answer(Reply("connect", r.txn, id))
    /\ UNCHANGED registered

TrackerAnnounces(r) ==
    /\ r \in requests /\ r.action = "announce"
    /\ IF r.id \in issued
       THEN registered' = TRUE /\ Answer(Reply("announce", r.txn, NoConn))
       ELSE Answer(Reply("error", r.txn, NoConn)) /\ UNCHANGED registered
    /\ UNCHANGED issued

\* It refuses, or answers with too few bytes.
TrackerRefuses(r) ==
    /\ r \in requests
    /\ \/ Answer(Reply("error", r.txn, NoConn))
       \/ Answer(Short)
    /\ UNCHANGED trackerVars

----------------------------------------------------------------------------

Call == \/ Send \/ TimesOut \/ GivesUp \/ SocketFails
        \/ \E m \in responses :
              ConnectReceives(m) \/ AnnounceReceives(m) \/ ReceivesOther(m)

\* What it does once the call is over, and the socket closed, is not followed.
Tracker ==
    /\ step # "done"
    /\ \/ \E r \in requests, id \in ConnIds : TrackerConnects(r, id)
       \/ \E r \in requests : TrackerAnnounces(r) \/ TrackerRefuses(r)

Next == Call \/ Tracker

Spec == Init /\ [][Next]_vars

----------------------------------------------------------------------------
(* Properties *)

Actions == {"connect", "announce"}

\* The type of the call's state and of the datagrams.  No exchange is sent more
\* than MaxRetries times.
TypeOK ==
    /\ step \in Actions \cup {"done"} /\ waiting \in BOOLEAN
    /\ retry \in 0 .. MaxRetries
    /\ connectionID \in ConnIds \cup {NoConn}
    /\ result \in {"none", "peers", "error"}
    /\ requests \subseteq [action : Actions, txn : Actions, id : ConnIds \cup {NoConn}]
    /\ responses \subseteq [action : Actions \cup {"error", "short"},
                            txn : Actions \cup {"stale"}, id : ConnIds \cup {NoConn}]
    /\ issued \subseteq ConnIds /\ registered \in BOOLEAN

\* Peers are returned only if the tracker has accepted an announce of this very
\* call, whatever stale, late or duplicate datagrams came in between.
PeersAreAnnounced == result = "peers" => registered

\* Every announce sent carries a connection id that the tracker issued in
\* answer to this call, so that no announce is wasted on a stale one.
AnnouncesWithIssuedId ==
    \A r \in requests : r.action = "announce" => r.id \in issued

\* The call never takes a datagram for what it is not: it announces itself with
\* an id that was issued to it, and it returns peers only if it was announced.
CallInv == TypeOK /\ AnnouncesWithIssuedId /\ PeersAreAnnounced
=============================================================================
