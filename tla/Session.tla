------------------------------ MODULE Session ------------------------------
(***************************************************************************)
(* download/session.go: Session.Download.  A dialing goroutine wakes up    *)
(* once a second, and starts a goroutine for each endpoint it wants to     *)
(* dial, at most maxWorkers at a time; a discovery goroutine feeds the     *)
(* endpoint pool; the manager's event loop reports lost peers to the pool. *)
(*                                                                         *)
(* Of the TorrentManager (module TorrentManager) only what the session can *)
(* see is kept: which addresses are active, which connections are still    *)
(* to be reported lost, and whether all blocks are completed.              *)
(***************************************************************************)
EXTENDS PeerEndpointPool

CONSTANTS Slots,            \* places in dialSem: maxWorkers of them
          NoAddress,
          MaxConnections,
          MaxClients        \* bound: connections of one address at a time

ASSUME SessionAssumption ==
    /\ IsFiniteSet(Slots)
    /\ NoAddress \notin Addresses
    /\ MaxConnections \in Nat /\ MaxClients \in Nat

VARIABLES
    dialLoop,   \* dialing goroutine: "wait", "batch" or "ended"
    batch,      \* candidates of this tick not looked at yet
    toDial,     \* how many of them may still be looked at
    dialing,    \* the map dialing
    slot,       \* slot -> address its goroutine dials, or NoAddress
    phase,      \* slot -> "dial", "add" or "release"
    active,     \* addresses in activePeers
    clients,    \* address -> connections whose 0xFF is still to come
    lost,       \* peer removed by the event loop, not yet marked failed
    completed,  \* Picker.IsCompleted()
    discovery,  \* discovery goroutine: "run" or "ended"
    returned    \* has Download returned, and cancelled ctx?

dialVars == <<dialLoop, batch, toDial>>
slotVars == <<dialing, slot, phase>>
managerVars == <<active, clients, lost, completed>>
vars == <<endpoints, dialVars, slotVars, managerVars, discovery, returned>>

Busy == {s \in Slots : slot[s] # NoAddress}

----------------------------------------------------------------------------

Init ==
    /\ NewPool
    /\ dialLoop = "wait" /\ batch = {} /\ toDial = 0
    /\ dialing = {}
    /\ slot = [s \in Slots |-> NoAddress]
    /\ phase = [s \in Slots |-> "release"]
    /\ active = {} /\ clients = [a \in Addresses |-> 0] /\ lost = NoAddress
    /\ completed = FALSE /\ discovery = "run" /\ returned = FALSE

\* A peer found by the initial discovery or by a later one.  EvictDead, called
\* after each later one, does nothing.
Discover(a) ==
    /\ discovery = "run"
    /\ Add(a)
    /\ UNCHANGED <<dialVars, slotVars, managerVars, discovery, returned>>

DiscoveryEnds ==
    /\ discovery = "run"
    /\ completed \/ returned
    /\ discovery' = "ended"
    /\ UNCHANGED <<endpoints, dialVars, slotVars, managerVars, returned>>

----------------------------------------------------------------------------
(* The dialing goroutine *)

\* Mutant of DialTick: every candidate is dialed.
DialTickAll ==
    /\ dialLoop = "wait" /\ ~completed
    /\ Cardinality(active) < MaxConnections
    /\ GetCandidates(FALSE) # {}
    /\ dialLoop' = "batch"
    /\ batch' = GetCandidates(FALSE)
    /\ toDial' = Cardinality(GetCandidates(FALSE))
    /\ UNCHANGED <<endpoints, slotVars, managerVars, discovery, returned>>

\* The number of active peers and the candidates are read here and only here;
\* dials already under way are not counted, active peers not excluded.
DialTick ==
    /\ dialLoop = "wait" /\ ~completed
    /\ Cardinality(active) < MaxConnections
    /\ GetCandidates(FALSE) # {}
    /\ dialLoop' = "batch"
    /\ batch' = GetCandidates(FALSE)
    /\ toDial' = LET room == MaxConnections - Cardinality(active)
                     n == Cardinality(GetCandidates(FALSE))
                 IN  IF room > n THEN n ELSE room
    /\ UNCHANGED <<endpoints, slotVars, managerVars, discovery, returned>>

\* Mutant of DialNext: the entry of the map dialing is left behind when the
\* semaphore has no place.
DialNextLeaks(a) ==
    /\ dialLoop = "batch" /\ toDial > 0
    /\ a \in batch
    /\ batch' = batch \ {a}
    /\ toDial' = toDial - 1
    /\ dialing' = dialing \cup {a}
    /\ IF a \in dialing \/ Busy = Slots
       THEN UNCHANGED <<slot, phase>>
       ELSE \E s \in Slots \ Busy : /\ slot' = [slot EXCEPT ![s] = a]
                                    /\ phase' = [phase EXCEPT ![s] = "dial"]
    /\ UNCHANGED <<endpoints, dialLoop, managerVars, discovery, returned>>

\* The next candidate, in the random order of the pool's map.  It is skipped if
\* it is being dialed or if the semaphore has no place.
DialNext(a) ==
    /\ dialLoop = "batch" /\ toDial > 0
    /\ a \in batch
    /\ batch' = batch \ {a}
    /\ toDial' = toDial - 1
    /\ IF a \in dialing \/ Busy = Slots
       THEN UNCHANGED slotVars
       ELSE \E s \in Slots \ Busy : /\ dialing' = dialing \cup {a}
                                    /\ slot' = [slot EXCEPT ![s] = a]
                                    /\ phase' = [phase EXCEPT ![s] = "dial"]
    /\ UNCHANGED <<endpoints, dialLoop, managerVars, discovery, returned>>

DialBatchEnd ==
    /\ dialLoop = "batch" /\ toDial = 0
    /\ dialLoop' = "wait"
    /\ batch' = {}
    /\ UNCHANGED <<endpoints, toDial, slotVars, managerVars, discovery, returned>>

DialLoopEnds ==
    /\ dialLoop = "wait"
    /\ completed \/ returned
    /\ dialLoop' = "ended"
    /\ UNCHANGED <<endpoints, batch, toDial, slotVars, managerVars, discovery,
                   returned>>

----------------------------------------------------------------------------
(* A goroutine that dials; s is its place in the semaphore *)

InPhase(s, p) == s \in Busy /\ phase[s] = p

NewClientFails(s) ==
    /\ InPhase(s, "dial") /\ BelowFailBound
    /\ MarkFailed(slot[s])
    /\ phase' = [phase EXCEPT ![s] = "release"]
    /\ UNCHANGED <<dialVars, dialing, slot, managerVars, discovery, returned>>

NewClientSucceeds(s) ==
    /\ InPhase(s, "dial") /\ clients[slot[s]] < MaxClients
    /\ MarkSucceeded(slot[s])
    /\ phase' = [phase EXCEPT ![s] = "add"]
    /\ UNCHANGED <<dialVars, dialing, slot, managerVars, discovery, returned>>

AddPeer(s) ==
    /\ InPhase(s, "add")
    /\ active' = active \cup {slot[s]}
    /\ clients' = [clients EXCEPT ![slot[s]] = @ + 1]
    /\ phase' = [phase EXCEPT ![s] = "release"]
    /\ UNCHANGED <<endpoints, dialVars, dialing, slot, lost, completed, discovery,
                   returned>>

\* The deferred function.
Release(s) ==
    /\ InPhase(s, "release")
    /\ dialing' = dialing \ {slot[s]}
    /\ slot' = [slot EXCEPT ![s] = NoAddress]
    /\ UNCHANGED <<endpoints, dialVars, phase, managerVars, discovery, returned>>

----------------------------------------------------------------------------
(* The manager and the caller *)

\* The event loop gets a 0xFF, which carries an address, not a connection.
PeerDisconnects(a) ==
    /\ lost = NoAddress
    /\ clients[a] > 0
    /\ clients' = [clients EXCEPT ![a] = @ - 1]
    /\ active' = active \ {a}
    /\ lost' = a
    /\ UNCHANGED <<endpoints, dialVars, slotVars, completed, discovery, returned>>

OnPeerDisconnect ==
    /\ lost # NoAddress /\ BelowFailBound
    /\ MarkFailed(lost)
    /\ lost' = NoAddress
    /\ UNCHANGED <<dialVars, slotVars, active, clients, completed, discovery,
                   returned>>

\* The last block arrives at some active peer.
TorrentCompletes ==
    /\ ~completed /\ active # {}
    /\ completed' = TRUE
    /\ UNCHANGED <<endpoints, dialVars, slotVars, active, clients, lost, discovery,
                   returned>>

\* Download returns on doneCh; or on an error of the manager, at any time.
Return ==
    /\ ~returned
    /\ returned' = TRUE
    /\ UNCHANGED <<endpoints, dialVars, slotVars, managerVars, discovery>>

BackoffElapses(a) ==
    /\ Elapse(a)
    /\ UNCHANGED <<dialVars, slotVars, managerVars, discovery, returned>>

----------------------------------------------------------------------------

DialLoop == DialTick \/ (\E a \in Addresses : DialNext(a)) \/ DialBatchEnd
            \/ DialLoopEnds

Dialer(s) == NewClientFails(s) \/ NewClientSucceeds(s) \/ AddPeer(s) \/ Release(s)

Next ==
    \/ \E a \in Addresses : Discover(a) \/ PeerDisconnects(a) \/ BackoffElapses(a)
    \/ DiscoveryEnds
    \/ DialLoop
    \/ \E s \in Slots : Dialer(s)
    \/ OnPeerDisconnect \/ TorrentCompletes \/ Return

Spec == Init /\ [][Next]_vars

----------------------------------------------------------------------------
(* Properties *)

\* The type of the session's state.  A tick never looks for more candidates
\* than it has, which would index past the end of the slice.
TypeOK ==
    /\ Known \subseteq Addresses /\ endpoints \in [Known -> Endpoint]
    /\ dialLoop \in {"wait", "batch", "ended"}
    /\ batch \subseteq Addresses /\ toDial \in 0 .. Cardinality(batch)
    /\ dialing \subseteq Addresses
    /\ slot \in [Slots -> Addresses \cup {NoAddress}]
    /\ phase \in [Slots -> {"dial", "add", "release"}]
    /\ active \subseteq Addresses /\ clients \in [Addresses -> Nat]
    /\ lost \in Addresses \cup {NoAddress}
    /\ completed \in BOOLEAN /\ returned \in BOOLEAN
    /\ discovery \in {"run", "ended"}

\* The map dialing holds exactly the addresses that a goroutine is dialing, each
\* dialed by one: no address is dialed twice at a time, and none is left in the
\* map, which would keep it from ever being dialed again.
DialingExact ==
    /\ dialing = {slot[s] : s \in Busy}
    /\ \A s, t \in Busy : slot[s] = slot[t] => s = t

\* The session's state has its type, and the map dialing is exact.
SessionInv == TypeOK /\ DialingExact

\* The active peers may exceed maxConnections, since a tick does not count the
\* dials under way, but never by more than the places in the semaphore.
ConnectionsBounded ==
    Cardinality(active) <= MaxConnections + Cardinality(Slots)

\* Whatever trackers announce, a blacklisted endpoint leaves the blacklist only in
\* the step in which a dial of it succeeds.  Such a dial was under way, or in a
\* batch, before the last failures were counted.  (It rests on EvictDead being
\* the no-op that its comment, pool.go:106, says it is; pool_test.go:42-50 wants
\* it to forget the endpoint, which an announcement would then enter afresh.)
BlacklistKept ==
    [][\A a \in Addresses :
         Blacklisted(a) /\ ~Blacklisted(a)' =>
             \E s \in Slots : InPhase(s, "dial") /\ slot[s] = a /\ phase'[s] = "add"
      ]_vars
=============================================================================
