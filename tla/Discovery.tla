----------------------------- MODULE Discovery -----------------------------
(***************************************************************************)
(* app/main.go: discoverPeersForMagnet asks every tracker of the magnet    *)
(* link and the DHT at the same time, one goroutine each, and merges what  *)
(* they find.  tracker/tracker.go: getPeersHTTP is a task here, as one     *)
(* step with every outcome; GetPeersUDP is module UDPTracker, step by step;*)
(* of the lookup of module DHT only its outcome is kept.                   *)
(***************************************************************************)
EXTENDS UDPTracker, Sequences, SequencesExt

CONSTANTS HttpTrackers,   \* trackers with an http or https URL
          Endpoints,      \* addresses of peers
          MaxFound,       \* bound: peers in a tracker's answer
          MaxLookedUp     \* bound: peers returned by the lookup

UDP == "udp"
Lookup == "dht"
Sources == HttpTrackers \cup {UDP, Lookup}

ASSUME DiscoveryAssumption ==
    /\ IsFiniteSet(HttpTrackers) /\ {UDP, Lookup} \cap HttpTrackers = {}
    /\ IsFiniteSet(Endpoints) /\ MaxFound \in Nat /\ MaxLookedUp \in Nat

VARIABLES
    task,        \* source -> "run", "add", "failed" or "ended"
    found,       \* source -> the peers it returned
    seenPeers,
    allPeers,
    outcome      \* of the call: "none", "peers" or "error"

mergeVars == <<seenPeers, allPeers, outcome>>
discoveryVars == <<vars, task, found, mergeVars>>

UpTo(n, S) == UNION {[1 .. k -> S] : k \in 0 .. n}

DiscoveryInit ==
    /\ Init
    /\ task = [s \in Sources |-> "run"] /\ found = [s \in Sources |-> <<>>]
    /\ seenPeers = {} /\ allPeers = <<>> /\ outcome = "none"

----------------------------------------------------------------------------
(* The tasks *)

Ends(s, how, peers) ==
    /\ task[s] = "run"
    /\ task' = [task EXCEPT ![s] = how]
    /\ found' = [found EXCEPT ![s] = peers]
    /\ UNCHANGED <<vars, mergeVars>>

\* An entry of a list of peers that is not a dictionary with an IPv4 address
\* and a port.
BadEntry == "bad"

\* The outcomes of the exchange, and of decoding the body, that carry no peers.
HttpFailures == {"transport", "status", "undecodable", "not a dictionary",
                 "failure reason", "no peers field", "unsupported format"}

HttpAnswers ==
    [kind : HttpFailures, entries : {<<>>}]
    \cup [kind : {"compact"}, entries : UpTo(MaxFound, Endpoints)]
    \cup [kind : {"list"}, entries : UpTo(MaxFound, Endpoints \cup {BadEntry})]

\* The loop over a list of peers passes over bad entries.
Parsed(entries) ==
    LET after[n \in 0 .. Len(entries)] ==
            IF n = 0 THEN <<>>
            ELSE IF entries[n] = BadEntry THEN after[n - 1]
            ELSE Append(after[n - 1], entries[n])
    IN  after[Len(entries)]

\* getPeersHTTP: an answer without peers is an error.
GetPeersHTTP(s, answer) ==
    LET peers == Parsed(answer.entries)
    IN  IF answer.kind \in HttpFailures \/ peers = <<>>
        THEN Ends(s, "failed", <<>>)
        ELSE Ends(s, "add", peers)

\* GetPeersUDP has returned; an empty list of peers is no error here.
UDPReturned ==
    \/ result = "error" /\ Ends(UDP, "failed", <<>>)
    \/ result = "peers" /\ \E peers \in UpTo(MaxFound, Endpoints) : Ends(UDP, "add", peers)

\* The socket, Bootstrap or GetPeers fails, or the lookup returns peers, some of
\* them perhaps several times.
DHTReturns ==
    \/ Ends(Lookup, "failed", <<>>)
    \/ \E peers \in UpTo(MaxLookedUp, Endpoints) \ {<<>>} : Ends(Lookup, "add", peers)

----------------------------------------------------------------------------
(* The merge *)

\* Mutant of AddPeers: what is seen is looked up for the whole answer at once.
AddPeersAtOnce(s) ==
    /\ task[s] = "add"
    /\ allPeers' = allPeers \o SelectSeq(found[s], LAMBDA p : p \notin seenPeers)
    /\ seenPeers' = seenPeers \cup ToSet(found[s])
    /\ task' = [task EXCEPT ![s] = "ended"]
    /\ UNCHANGED <<vars, found, outcome>>

\* What the loop of addPeers makes of all when it goes through peers.
Merged(all, peers) ==
    LET after[n \in 0 .. Len(peers)] ==
            IF n = 0 THEN all
            ELSE IF peers[n] \in seenPeers \cup ToSet(after[n - 1]) THEN after[n - 1]
            ELSE Append(after[n - 1], peers[n])
    IN  after[Len(peers)]

\* addPeers holds mu throughout.
AddPeers(s) ==
    /\ task[s] = "add"
    /\ allPeers' = Merged(allPeers, found[s])
    /\ seenPeers' = seenPeers \cup ToSet(found[s])
    /\ task' = [task EXCEPT ![s] = "ended"]
    /\ UNCHANGED <<vars, found, outcome>>

\* Mutant of AllDone: wg.Done is not called on the error paths.
AllDoneEnded == \A s \in Sources : task[s] = "ended"

\* wg.Wait returns.
AllDone == \A s \in Sources : task[s] \in {"failed", "ended"}

DiscoverReturns ==
    /\ outcome = "none" /\ AllDone
    /\ outcome' = IF allPeers = <<>> THEN "error" ELSE "peers"
    /\ UNCHANGED <<vars, task, found, seenPeers, allPeers>>

----------------------------------------------------------------------------

HttpTask(s) == \E answer \in HttpAnswers : GetPeersHTTP(s, answer)
Merge == DiscoverReturns \/ \E s \in Sources : AddPeers(s)

DiscoveryNext ==
    \/ Next /\ UNCHANGED <<task, found, mergeVars>>
    \/ \E s \in HttpTrackers : HttpTask(s)
    \/ UDPReturned \/ DHTReturns \/ Merge

DiscoverySpec == DiscoveryInit /\ [][DiscoveryNext]_discoveryVars

\* Every goroutine runs; each read of GetPeersUDP and of the DHT has a deadline.
\* http.Get has none: that an HTTP tracker answers is an assumption on it.
DiscoveryFairness ==
    /\ WF_discoveryVars(Call /\ UNCHANGED <<task, found, mergeVars>>)
    /\ WF_discoveryVars(UDPReturned) /\ WF_discoveryVars(DHTReturns)
    /\ WF_discoveryVars(Merge)

HttpTrackersAnswer == \A s \in HttpTrackers : WF_discoveryVars(HttpTask(s))

DiscoveryFairSpec == DiscoverySpec /\ DiscoveryFairness /\ HttpTrackersAnswer

----------------------------------------------------------------------------
(* Properties *)

\* What the call returns is exactly what the sources that succeeded found, each
\* peer once, whichever order they come back in and however they overlap; and
\* it fails only if no source found a peer.
DiscoveredExact ==
    outcome # "none" =>
        /\ ToSet(allPeers) = UNION {ToSet(found[s]) : s \in Sources}
        /\ \A i, j \in DOMAIN allPeers : allPeers[i] = allPeers[j] => i = j
        /\ (outcome = "error") = (allPeers = <<>>)

\* The call returns, even if every datagram is lost and every source fails, if
\* HTTP trackers answer: GetPeersUDP gives up after its retries, and each task
\* reports that it is done on each of its paths.
DiscoveryReturns == <>(outcome # "none")
=============================================================================
