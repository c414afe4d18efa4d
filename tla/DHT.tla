-------------------------------- MODULE DHT --------------------------------
(***************************************************************************)
(* dht/dht.go: Bootstrap and then GetPeers, the iterative lookup, over UDP.*)
(* One goroutine asks one node at a time and waits for its answer until a  *)
(* deadline; answers may be lost, late or repeated.                        *)
(*                                                                         *)
(* The nodes of the network are honest: each answers with its own id and   *)
(* names others with their addresses, or answers with an error.  The       *)
(* address of a node is written as its id.  Transaction ids are drawn from *)
(* 2^16 values and taken to be distinct.  Which of the nodes is asked, and *)
(* what it answers, is chosen when the answer is read.                     *)
(***************************************************************************)
EXTENDS RoutingTable, Sequences, SequencesExt

CONSTANTS Nodes,            \* ids (and addresses) of the nodes of the network
          None,
          BootstrapNodes,   \* the addresses given to Bootstrap
          Target,           \* the info hash
          Alpha,            \* 3 in the code
          K,                \* candidates kept: 20 in the code
          MaxIterations,    \* 20 in the code
          MaxNamed          \* bound: nodes named by one answer

\* The id of an answer that has none: an error, or one's own query.
ZeroID == [i \in 1 .. IdBits |-> 0]

ASSUME DHTAssumption ==
    /\ IsFiniteSet(Nodes) /\ Nodes \subseteq NodeID \ {SelfID, ZeroID}
    /\ None \notin NodeID
    /\ BootstrapNodes \in Seq(Nodes) /\ Target \in NodeID
    /\ Alpha \in Nat \ {0} /\ K \in Nat \ {0}
    /\ MaxIterations \in Nat /\ MaxNamed \in Nat

VARIABLES
    table,          \* routingTable
    phase,          \* "bootstrap", "pick", "ask", "found" or "failed"
    todo,           \* addresses Bootstrap has yet to try
    dest,           \* the address whose answer is awaited, or None
    earlier,        \* addresses asked before it, which may answer late
    candidates,     \* id -> address
    toQuery,        \* ids of this round that are still to be asked
    batch,          \* len(toQuery) at the start of the round
    queried,
    newNodesFound,
    iter,
    peers,          \* the nodes that returned peers
    heard           \* history: ids that were a candidate at some time

roundVars == <<toQuery, batch, newNodesFound>>
lookupVars == <<candidates, queried, roundVars, iter, peers, heard>>
vars == <<table, phase, todo, dest, earlier, lookupVars>>

Init ==
    /\ table = [x \in {} |-> None] /\ phase = "bootstrap"
    /\ todo = BootstrapNodes /\ dest = None /\ earlier = {}
    /\ candidates = [x \in {} |-> None] /\ toQuery = {} /\ batch = 0
    /\ queried = {} /\ newNodesFound = FALSE /\ iter = 0
    /\ peers = {} /\ heard = {}

----------------------------------------------------------------------------
(* What is on the wire *)

Answer(id, nodes, values) == [id |-> id, nodes |-> nodes, values |-> values]

\* ParseKRPCResponse takes anything with a transaction id for an answer: an
\* error, and one's own query when another node named this one.
NoAnswer == Answer(ZeroID, <<>>, FALSE)

Named == {s \in UNION {[1 .. n -> Nodes \cup {SelfID}] : n \in 0 .. MaxNamed} :
             \A i, j \in DOMAIN s : s[i] = s[j] => i = j}

Answers(from) ==
    {NoAnswer} \cup (IF from = SelfID THEN {}
                     ELSE {Answer(from, s, v) : s \in Named, v \in BOOLEAN})

\* Mutant of Matches: the transaction id is not compared.
MatchesAny(late) == TRUE

\* readResponseForTransaction skips the answer to an earlier query.
Matches(late) == ~late

\* The loop over the nodes an answer names.
AddAll(t, nodes) ==
    LET after[n \in 0 .. Len(nodes)] ==
            IF n = 0 THEN t ELSE Add(after[n - 1], nodes[n], nodes[n])
    IN  after[Len(nodes)]

\* The answering node under the id it gave and the address that was asked, then
\* the nodes it named.
Learn(r) == table' = AddAll(Add(table, r.id, dest), r.nodes)

Answered == dest' = None /\ earlier' = earlier \cup {dest}

----------------------------------------------------------------------------
(* Bootstrap *)

BootstrapSends ==
    /\ phase = "bootstrap" /\ dest = None /\ todo # <<>>
    /\ dest' = Head(todo) /\ todo' = Tail(todo)
    /\ UNCHANGED <<table, phase, earlier, lookupVars>>

\* The name does not resolve, or the write fails.
BootstrapSkips ==
    /\ phase = "bootstrap" /\ dest = None /\ todo # <<>>
    /\ todo' = Tail(todo)
    /\ UNCHANGED <<table, phase, dest, earlier, lookupVars>>

BootstrapReceives(late, from, r) ==
    /\ phase = "bootstrap" /\ dest # None
    /\ IF Matches(late) THEN Learn(r) /\ Answered
                        ELSE UNCHANGED <<table, dest, earlier>>
    /\ UNCHANGED <<phase, todo, lookupVars>>

\* With an empty table Bootstrap fails; else GetPeers starts.
BootstrapEnds ==
    /\ phase = "bootstrap" /\ dest = None /\ todo = <<>>
    /\ phase' = IF DOMAIN table = {} THEN "failed" ELSE "pick"
    /\ candidates' = [x \in FindClosest(DOMAIN table, Target, K) |-> table[x]]
    /\ heard' = DOMAIN candidates'
    /\ UNCHANGED <<table, todo, dest, earlier, queried, roundVars, iter, peers>>

----------------------------------------------------------------------------
(* GetPeers *)

Return == phase' = IF peers = {} THEN "failed" ELSE "found"

\* The closest alpha candidates that have not been asked yet, if any.
PickRound ==
    /\ phase = "pick"
    /\ toQuery' = FindClosest(DOMAIN candidates \ queried, Target, Alpha)
    /\ batch' = Cardinality(toQuery')
    /\ newNodesFound' = FALSE
    /\ IF iter = MaxIterations \/ toQuery' = {} THEN Return ELSE phase' = "ask"
    /\ UNCHANGED <<table, todo, dest, earlier, candidates, queried, iter, peers, heard>>

\* The next one, in the order of distance; the write may fail.
Ask(n) ==
    /\ phase = "ask" /\ dest = None
    /\ n \in FindClosest(toQuery, Target, 1)
    /\ toQuery' = toQuery \ {n} /\ queried' = queried \cup {n}
    /\ dest' \in {candidates[n], None}
    /\ UNCHANGED <<table, phase, todo, earlier, candidates, batch, newNodesFound, iter,
                   peers, heard>>

\* The peers are kept, and the nodes named become candidates until the round
\* ends; a candidate keeps the address it has.
AskReceives(late, from, r) ==
    /\ phase = "ask" /\ dest # None
    /\ IF ~Matches(late)
       THEN UNCHANGED <<table, dest, earlier, candidates, newNodesFound, peers, heard>>
       ELSE LET new == ToSet(r.nodes) \ DOMAIN candidates IN
            /\ Learn(r) /\ Answered
            /\ peers' = peers \cup (IF r.values THEN {from} ELSE {})
            /\ candidates' = [x \in DOMAIN candidates \cup new |->
                                 IF x \in new THEN x ELSE candidates[x]]
            /\ newNodesFound' = (newNodesFound \/ new # {})
            /\ heard' = heard \cup new
    /\ UNCHANGED <<phase, todo, toQuery, batch, queried, iter>>

\* Mutant of TimesOut: the node is asked again.
TimesOutRetries ==
    /\ dest # None
    /\ dest' = None /\ earlier' = earlier \cup {dest}
    /\ toQuery' = toQuery \cup {n \in DOMAIN candidates : candidates[n] = dest}
    /\ UNCHANGED <<table, phase, todo, candidates, queried, batch, newNodesFound, iter,
                   peers, heard>>

\* The read deadline, which no late answer moves, passes.
TimesOut ==
    /\ dest # None
    /\ Answered
    /\ UNCHANGED <<table, phase, todo, lookupVars>>

\* Mutant of RoundEnds: a round without news ends the lookup.
RoundEndsEarly ==
    /\ phase = "ask" /\ dest = None /\ toQuery = {}
    /\ candidates' = [x \in FindClosest(DOMAIN candidates, Target, K) |-> candidates[x]]
    /\ IF ~newNodesFound THEN Return /\ UNCHANGED iter
                         ELSE phase' = "pick" /\ iter' = iter + 1
    /\ UNCHANGED <<table, todo, dest, earlier, roundVars, queried, peers, heard>>

\* Only the closest candidates are kept.
RoundEnds ==
    /\ phase = "ask" /\ dest = None /\ toQuery = {}
    /\ candidates' = [x \in FindClosest(DOMAIN candidates, Target, K) |-> candidates[x]]
    /\ IF ~newNodesFound /\ batch < Alpha THEN Return /\ UNCHANGED iter
                                          ELSE phase' = "pick" /\ iter' = iter + 1
    /\ UNCHANGED <<table, todo, dest, earlier, roundVars, queried, peers, heard>>

----------------------------------------------------------------------------

Receives(late, from) ==
    \E r \in Answers(from) : BootstrapReceives(late, from, r) \/ AskReceives(late, from, r)

Next ==
    \/ BootstrapSends \/ BootstrapSkips \/ BootstrapEnds
    \/ PickRound \/ TimesOut \/ RoundEnds
    \/ \E n \in toQuery : Ask(n)
    \/ dest # None /\ Receives(FALSE, dest)
    \/ \E from \in earlier : Receives(TRUE, from)

Spec == Init /\ [][Next]_vars

\* The goroutine never waits without a deadline.
FairSpec == Spec /\ WF_vars(Next)

----------------------------------------------------------------------------
(* Properties *)

\* The type of the state.  No bucket holds more than BucketSize ids, and this
\* node, which others may name, is never in its own table.
TypeOK ==
    /\ DOMAIN table \subseteq NodeID \ {SelfID}
    /\ \A id \in DOMAIN table : table[id] \in Nodes \cup {SelfID}
    /\ \A i \in 0 .. IdBits - 1 : Cardinality(Bucket(table, i)) <= BucketSize
    /\ phase \in {"bootstrap", "pick", "ask", "found", "failed"}
    /\ todo \in Seq(Nodes)
    /\ dest \in Nodes \cup {SelfID, None} /\ earlier \subseteq Nodes \cup {SelfID}
    /\ DOMAIN candidates \subseteq heard /\ heard \subseteq NodeID
    /\ \A id \in DOMAIN candidates : candidates[id] \in Nodes \cup {SelfID}
    /\ toQuery \subseteq DOMAIN candidates /\ batch \in 0 .. Alpha
    /\ queried \subseteq heard /\ newNodesFound \in BOOLEAN
    /\ iter \in 0 .. MaxIterations /\ peers \subseteq Nodes

\* Every id is entered with the address of the node that has it, although the
\* table pairs the id in an answer with the address that was asked and answers
\* to earlier queries keep arriving.  The exception is the id of all zeros,
\* under which the table holds a node that answered without an id.
TableTruthful ==
    \A id \in DOMAIN table :
        IF id = ZeroID THEN table[id] \in earlier ELSE table[id] = id

\* The lookup's state has its type, which includes the bounds of the buckets, and
\* the table is truthful.
TableInv == TypeOK /\ TableTruthful

\* A lookup that fails by itself, and not at the iteration limit, has asked each
\* of the K closest nodes it ever heard of, though candidates are dropped, come
\* back, and go unanswered on the way.
ClosestHeardAsked ==
    (phase = "failed" /\ iter < MaxIterations) =>
        FindClosest(heard, Target, K) \subseteq queried

\* Bootstrap and GetPeers come back, whatever is lost or comes late.
LookupReturns == <>(phase \in {"found", "failed"})
=============================================================================
