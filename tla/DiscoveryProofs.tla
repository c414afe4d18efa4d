-------------------------- MODULE DiscoveryProofs --------------------------
(***************************************************************************)
(* The safety of peer discovery for every set of trackers, addresses and   *)
(* connection ids, every number of retries and answers of every length.    *)
(*                                                                         *)
(* For a call to a UDP tracker the invariant says what the datagrams on    *)
(* the network prove (Genuine).  For the merge it says that the list and   *)
(* the set of peers seen hold the same peers, those of the sources that    *)
(* have ended.                                                             *)
(***************************************************************************)
EXTENDS Discovery, SequenceTheorems, RecursionTheorems

----------------------------------------------------------------------------
(* GetPeersUDP *)

Genuine ==
    /\ \A m \in responses : m.action = "connect" /\ m.txn = "connect" => m.id \in issued
    /\ \A m \in responses : m.action = "announce" /\ m.txn = "announce" => registered
    /\ step = "announce" => connectionID \in issued
    /\ waiting => step # "done" /\ retry < MaxRetries

CInv == CallInv /\ Genuine

\* A call that has not begun; datagrams for an earlier user of the port may be
\* on their way.
LEMMA InitCInv == Init => CInv
<1> SUFFICES ASSUME Init PROVE CInv
  OBVIOUS
<1>1. responses \subseteq [action : Actions, txn : {"stale"}, id : {NoConn}]
  BY DEF Init, Stale, Reply, Actions
<1>2. responses \subseteq [action : Actions \cup {"error", "short"},
                           txn : Actions \cup {"stale"}, id : ConnIds \cup {NoConn}]
  BY <1>1
<1>3. TypeOK
  <2>1. retry \in 0 .. MaxRetries
    BY TrackerAssumption DEF Init
  <2>2. /\ step = "connect" /\ waiting = FALSE /\ connectionID = NoConn /\ result = "none"
        /\ requests = {} /\ issued = {} /\ registered = FALSE
    BY DEF Init
  <2> QED BY <1>2, <2>1, <2>2 DEF TypeOK, Actions
<1>4. AnnouncesWithIssuedId /\ PeersAreAnnounced
  BY DEF Init, AnnouncesWithIssuedId, PeersAreAnnounced
<1>5. Genuine
  BY <1>1 DEF Init, Genuine
<1> QED BY <1>3, <1>4, <1>5 DEF CInv, CallInv

\* The steps of GetPeersUDP.
LEMMA CallKeepsCInv == ASSUME CInv, Call PROVE CInv'
<1> USE DEF callVars, trackerVars
<1> USE TrackerAssumption
<1>1. TypeOK /\ AnnouncesWithIssuedId /\ PeersAreAnnounced /\ Genuine
  BY DEF CInv, CallInv
<1>2. CASE Send
  <2>1. TypeOK'
    BY <1>1, <1>2 DEF Send, TypeOK, Actions
  <2>2. AnnouncesWithIssuedId'
    BY <1>1, <1>2 DEF Send, AnnouncesWithIssuedId, Genuine
  <2>3. PeersAreAnnounced' /\ Genuine'
    BY <1>1, <1>2 DEF Send, PeersAreAnnounced, Genuine
  <2> QED BY <2>1, <2>2, <2>3 DEF CInv, CallInv
<1>3. CASE TimesOut
  <2>1. retry' \in 0 .. MaxRetries
    BY <1>1, <1>3 DEF TimesOut, TypeOK, Genuine
  <2>2. /\ waiting' = FALSE
        /\ UNCHANGED <<step, connectionID, result, requests, responses, trackerVars>>
    BY <1>3 DEF TimesOut
  <2>3. TypeOK'
    BY <1>1, <2>1, <2>2 DEF TypeOK
  <2> QED BY <1>1, <2>2, <2>3
          DEF CInv, CallInv, AnnouncesWithIssuedId, PeersAreAnnounced, Genuine
<1>4. CASE GivesUp \/ SocketFails \/ \E m \in responses : ReceivesOther(m)
  <2>1. /\ step' = "done" /\ waiting' = FALSE /\ result' = "error"
        /\ UNCHANGED <<retry, connectionID, requests, responses, trackerVars>>
    BY <1>4 DEF GivesUp, SocketFails, ReceivesOther, Finish
  <2>2. TypeOK'
    BY <1>1, <2>1 DEF TypeOK
  <2> QED BY <1>1, <2>1, <2>2
          DEF CInv, CallInv, AnnouncesWithIssuedId, PeersAreAnnounced, Genuine
<1>5. ASSUME NEW m \in responses, ConnectReceives(m) PROVE CInv'
  <2>1. m.id \in issued
    BY <1>1, <1>5 DEF ConnectReceives, Fits, Genuine
  <2>2. /\ step' = "announce" /\ waiting' = FALSE /\ retry' = 0 /\ connectionID' = m.id
        /\ UNCHANGED <<result, requests, responses, trackerVars>>
    BY <1>5 DEF ConnectReceives
  <2>3. retry' \in 0 .. MaxRetries
    BY <2>2
  <2>4. connectionID' \in ConnIds
    BY <1>1, <2>1, <2>2 DEF TypeOK
  <2>5. TypeOK'
    BY <1>1, <2>2, <2>3, <2>4 DEF TypeOK, Actions
  <2> QED BY <1>1, <2>1, <2>2, <2>5
          DEF CInv, CallInv, AnnouncesWithIssuedId, PeersAreAnnounced,
              Genuine
<1>6. ASSUME NEW m \in responses, AnnounceReceives(m) PROVE CInv'
  <2>1. registered
    BY <1>1, <1>6 DEF AnnounceReceives, Fits, Genuine
  <2>2. TypeOK'
    BY <1>1, <1>6 DEF AnnounceReceives, Finish, TypeOK
  <2> QED BY <1>1, <1>6, <2>1, <2>2
          DEF AnnounceReceives, Finish, CInv, CallInv, AnnouncesWithIssuedId,
              PeersAreAnnounced, Genuine
<1> QED BY <1>2, <1>3, <1>4, <1>5, <1>6 DEF Call

\* An answer of the tracker that proves no more than is true.
LEMMA AnswerKeepsCInv ==
    ASSUME CInv, NEW m, Answer(m),
           m \in [action : Actions \cup {"error", "short"},
                  txn : Actions \cup {"stale"}, id : ConnIds \cup {NoConn}],
           issued' \subseteq ConnIds, issued \subseteq issued',
           registered' \in BOOLEAN, registered => registered',
           m.action = "connect" => m.id \in issued',
           m.action = "announce" => registered'
    PROVE  CInv'
<1>1. TypeOK /\ AnnouncesWithIssuedId /\ PeersAreAnnounced /\ Genuine
  BY DEF CInv, CallInv
<1>2. responses' = responses \cup {m} /\ UNCHANGED <<callVars, requests>>
  BY DEF Answer
<1>3. TypeOK'
  BY <1>1, <1>2 DEF TypeOK, callVars
<1>4. AnnouncesWithIssuedId' /\ PeersAreAnnounced'
  BY <1>1, <1>2 DEF AnnouncesWithIssuedId, PeersAreAnnounced, callVars
<1>5. Genuine'
  BY <1>1, <1>2 DEF Genuine, callVars
<1> QED BY <1>3, <1>4, <1>5 DEF CInv, CallInv

\* The steps of the tracker.
LEMMA TrackerKeepsCInv == ASSUME CInv, Tracker PROVE CInv'
<1>1. TypeOK /\ NoConn \notin ConnIds
  BY TrackerAssumption DEF CInv, CallInv
<1>2. \A r \in requests : r.txn \in Actions
  BY <1>1 DEF TypeOK
<1>3. issued \subseteq ConnIds /\ registered \in BOOLEAN
  BY <1>1 DEF TypeOK
<1>4. ASSUME NEW r \in requests, NEW id \in ConnIds, TrackerConnects(r, id) PROVE CInv'
  <2> DEFINE m == Reply("connect", r.txn, id)
  <2>1. /\ Answer(m) /\ issued' = issued \cup {id} /\ registered' = registered
        /\ m.action = "connect" /\ m.id = id
        /\ m \in [action : Actions \cup {"error", "short"},
                  txn : Actions \cup {"stale"}, id : ConnIds \cup {NoConn}]
    BY <1>2, <1>4 DEF TrackerConnects, Reply, Actions
  <2> HIDE DEF m
  <2> QED BY <1>3, <2>1, AnswerKeepsCInv
<1>5. ASSUME NEW r \in requests, NEW a \in {"announce", "error"},
             Answer(Reply(a, r.txn, NoConn)), UNCHANGED issued,
             registered' \in BOOLEAN, registered => registered',
             a = "announce" => registered'
      PROVE  CInv'
  <2> DEFINE m == Reply(a, r.txn, NoConn)
  <2>1. /\ Answer(m) /\ m.action = a
        /\ m \in [action : Actions \cup {"error", "short"},
                  txn : Actions \cup {"stale"}, id : ConnIds \cup {NoConn}]
    BY <1>2, <1>5 DEF Reply, Actions
  <2> HIDE DEF m
  <2> QED BY <1>3, <1>5, <2>1, AnswerKeepsCInv
<1>6. ASSUME NEW r \in requests, TrackerAnnounces(r) PROVE CInv'
  BY <1>3, <1>5, <1>6 DEF TrackerAnnounces
<1>7. CASE Answer(Short) /\ UNCHANGED trackerVars
  <2>1. /\ Short.action = "short"
        /\ Short \in [action : Actions \cup {"error", "short"},
                      txn : Actions \cup {"stale"}, id : ConnIds \cup {NoConn}]
    BY DEF Short, Reply
  <2> QED BY <1>3, <1>7, <2>1, AnswerKeepsCInv DEF trackerVars
<1>8. ASSUME NEW r \in requests, TrackerRefuses(r) PROVE CInv'
  BY <1>3, <1>5, <1>7, <1>8 DEF TrackerRefuses, trackerVars
<1> QED BY <1>4, <1>6, <1>8 DEF Tracker

\* Every step of the call and of the tracker, and every step of the rest of the
\* program.
LEMMA NextCInv == CInv /\ [Next]_vars => CInv'
<1>1. ASSUME CInv, UNCHANGED vars PROVE CInv'
  BY <1>1 DEF CInv, CallInv, TypeOK, AnnouncesWithIssuedId, PeersAreAnnounced, Genuine,
              vars, callVars, trackerVars
<1> QED BY <1>1, CallKeepsCInv, TrackerKeepsCInv DEF Next

----------------------------------------------------------------------------
(* Lists of peers *)

Distinct(s) == \A i, j \in DOMAIN s : s[i] = s[j] => i = j

\* A function on 1 .. k is a sequence.
LEMMA UpToSequences == \A n, S : UpTo(n, S) \subseteq Seq(S)
  BY SeqDef DEF UpTo

\* What Append does to a list without repetitions.
LEMMA AppendPeer ==
    ASSUME NEW S, NEW s \in Seq(S), NEW p \in S
    PROVE  /\ Append(s, p) \in Seq(S) /\ ToSet(Append(s, p)) = ToSet(s) \cup {p}
           /\ Distinct(s) /\ p \notin ToSet(s) => Distinct(Append(s, p))
<1> DEFINE t == Append(s, p)
<1>1. /\ t \in Seq(S) /\ Len(t) = Len(s) + 1 /\ t[Len(s) + 1] = p
      /\ \A i \in 1 .. Len(s) : t[i] = s[i]
  BY AppendProperties
<1>2. DOMAIN t = 1 .. Len(s) + 1 /\ DOMAIN s = 1 .. Len(s) /\ Len(s) \in Nat
  BY <1>1, LenProperties
<1> HIDE DEF t
<1>3. ToSet(t) = ToSet(s) \cup {p}
  BY <1>1, <1>2 DEF ToSet
<1>4. ASSUME Distinct(s), p \notin ToSet(s) PROVE Distinct(t)
  <2> SUFFICES ASSUME NEW i \in DOMAIN t, NEW j \in DOMAIN t, t[i] = t[j] PROVE i = j
    BY DEF Distinct
  <2>1. \A k \in 1 .. Len(s) : t[k] # p
    BY <1>1, <1>2, <1>4 DEF ToSet
  <2> QED BY <1>1, <1>2, <1>4, <2>1 DEF Distinct
<1> QED BY <1>1, <1>3, <1>4 DEF t

\* The loop of getPeersHTTP keeps addresses and nothing else.
LEMMA ParsedPeers ==
    ASSUME NEW entries \in Seq(Endpoints \cup {BadEntry})
    PROVE  Parsed(entries) \in Seq(Endpoints)
<1> DEFINE N == Len(entries)
           T == Seq(Endpoints)
           Step(t, n) == IF entries[n] = BadEntry THEN t ELSE Append(t, entries[n])
           f == CHOOSE f : f = [n \in 0 .. N |-> IF n = 0 THEN <<>> ELSE Step(f[n - 1], n)]
<1>1. N \in Nat /\ \A n \in 1 .. N : entries[n] \in Endpoints \cup {BadEntry}
  BY LenProperties, ElementOfSeq
<1>2. \A t \in T, n \in 1 .. N : Step(t, n) \in T
  BY <1>1, AppendPeer
<1>3. <<>> \in T
  BY EmptySeq
<1>4. Parsed(entries) = f[N]
  BY DEF Parsed
<1> HIDE DEF T, Step
<1> DEFINE F == [x \in T \X (1 .. N) |-> Step(x[1], x[2])]
<1>5. \A t \in T, n \in 1 .. N : F[<<t, n>>] = Step(t, n)
  OBVIOUS
<1>6. F \in [T \X (1 .. N) -> T]
  BY <1>2
<1> HIDE DEF F, N
<1>7. PICK g : LoopTo(g, N, T, <<>>, F)
  BY <1>1, <1>3, <1>6, LoopExists
<1>8. g = [n \in 0 .. N |-> IF n = 0 THEN <<>> ELSE Step(g[n - 1], n)]
  BY <1>1, <1>5, <1>7 DEF LoopTo
<1>9. f = [n \in 0 .. N |-> IF n = 0 THEN <<>> ELSE Step(f[n - 1], n)]
  BY <1>8
<1> HIDE DEF f
<1> DEFINE S == {n \in Nat : n <= N => f[n] \in T}
<1>10. 0 \in S
  BY <1>1, <1>3, <1>9
<1>11. ASSUME NEW n \in S PROVE n + 1 \in S
  BY <1>1, <1>2, <1>9
<1>12. S \in SUBSET Nat
  OBVIOUS
<1> HIDE DEF S
<1>13. N \in S
  BY <1>1, <1>10, <1>11, <1>12, SetInduction
<1> QED BY <1>4, <1>13 DEF S, T

\* The loop of addPeers keeps the list free of repetitions and misses no peer.
LEMMA MergedPeers ==
    ASSUME NEW all \in Seq(Endpoints), NEW peers \in Seq(Endpoints),
           Distinct(all), seenPeers = ToSet(all)
    PROVE  /\ Merged(all, peers) \in Seq(Endpoints) /\ Distinct(Merged(all, peers))
           /\ ToSet(Merged(all, peers)) = ToSet(all) \cup ToSet(peers)
<1> DEFINE N == Len(peers)
           T == Seq(Endpoints)
           Step(t, n) == IF peers[n] \in seenPeers \cup ToSet(t) THEN t
                         ELSE Append(t, peers[n])
           f == CHOOSE f : f = [n \in 0 .. N |-> IF n = 0 THEN all ELSE Step(f[n - 1], n)]
           Upto(n) == {peers[i] : i \in 1 .. n}
<1>1. /\ N \in Nat /\ DOMAIN peers = 1 .. N /\ \A n \in 1 .. N : peers[n] \in Endpoints
  BY LenProperties, ElementOfSeq
<1>2. ASSUME NEW t \in T, NEW n \in 1 .. N
      PROVE  /\ Step(t, n) \in T
             /\ ToSet(all) \subseteq ToSet(t) => ToSet(Step(t, n)) = ToSet(t) \cup {peers[n]}
             /\ Distinct(t) => Distinct(Step(t, n))
  <2>1. peers[n] \in Endpoints
    BY <1>1
  <2>2. CASE peers[n] \in seenPeers \cup ToSet(t)
    BY <2>2
  <2>3. CASE peers[n] \notin seenPeers \cup ToSet(t)
    BY <2>1, <2>3, AppendPeer
  <2> QED BY <2>2, <2>3
<1>3. Merged(all, peers) = f[N]
  BY DEF Merged
<1> HIDE DEF T, Step
<1>4. all \in T
  BY DEF T
<1> DEFINE F == [x \in T \X (1 .. N) |-> Step(x[1], x[2])]
<1>5. \A t \in T, n \in 1 .. N : F[<<t, n>>] = Step(t, n)
  OBVIOUS
<1>6. F \in [T \X (1 .. N) -> T]
  BY <1>2
<1> HIDE DEF F, N
<1>7. PICK g : LoopTo(g, N, T, all, F)
  BY <1>1, <1>4, <1>6, LoopExists
<1>8. g = [n \in 0 .. N |-> IF n = 0 THEN all ELSE Step(g[n - 1], n)]
  <2>1. g \in [0 .. N -> T] /\ g[0] = all
    BY <1>7 DEF LoopTo
  <2>2. ASSUME NEW n \in 1 .. N PROVE g[n] = Step(g[n - 1], n)
    BY <1>1, <1>5, <1>7 DEF LoopTo
  <2>3. \A n \in 0 .. N : g[n] = IF n = 0 THEN all ELSE Step(g[n - 1], n)
    BY <1>1, <2>1, <2>2
  <2> QED BY <2>1, <2>3
<1>9. f = [n \in 0 .. N |-> IF n = 0 THEN all ELSE Step(f[n - 1], n)]
  BY <1>8
<1> HIDE DEF f, Upto
<1> DEFINE S == {n \in Nat : n <= N => /\ f[n] \in T /\ Distinct(f[n])
                                       /\ ToSet(f[n]) = ToSet(all) \cup Upto(n)}
<1>10. 0 \in S
  <2>1. f[0] = all /\ Upto(0) = {}
    BY <1>1, <1>9 DEF Upto
  <2> QED BY <1>4, <2>1
<1>11. ASSUME NEW n \in S PROVE n + 1 \in S
  <2> SUFFICES ASSUME n + 1 <= N
               PROVE  /\ f[n + 1] \in T /\ Distinct(f[n + 1])
                      /\ ToSet(f[n + 1]) = ToSet(all) \cup Upto(n + 1)
    OBVIOUS
  <2>1. n \in Nat /\ n + 1 \in 1 .. N /\ n <= N
    BY <1>1
  <2>2. f[n] \in T /\ Distinct(f[n]) /\ ToSet(f[n]) = ToSet(all) \cup Upto(n)
    BY <2>1
  <2>3. f[n + 1] = Step(f[n], n + 1)
    BY <1>9, <2>1
  <2>4. Upto(n + 1) = Upto(n) \cup {peers[n + 1]}
    BY <2>1 DEF Upto
  <2> QED BY <1>2, <2>1, <2>2, <2>3, <2>4
<1>12. S \in SUBSET Nat
  OBVIOUS
<1>13. Upto(N) = ToSet(peers)
  BY <1>1 DEF Upto, ToSet
<1> HIDE DEF S
<1>14. N \in S
  BY <1>1, <1>10, <1>11, <1>12, SetInduction
<1> QED BY <1>1, <1>3, <1>13, <1>14 DEF S, T

----------------------------------------------------------------------------
(* discoverPeersForMagnet *)

DTypeOK ==
    /\ task \in [Sources -> {"run", "add", "failed", "ended"}]
    /\ found \in [Sources -> Seq(Endpoints)]
    /\ allPeers \in Seq(Endpoints)
    /\ outcome \in {"none", "peers", "error"}

\* The list is that of the sources that have ended, and of no other.
Gathered ==
    /\ Distinct(allPeers) /\ seenPeers = ToSet(allPeers)
    /\ ToSet(allPeers) = UNION {ToSet(found[s]) : s \in {x \in Sources : task[x] = "ended"}}
    /\ \A s \in Sources : task[s] \in {"run", "failed"} => found[s] = <<>>
    /\ outcome # "none" => AllDone /\ (outcome = "error") = (allPeers = <<>>)

DInv == DTypeOK /\ Gathered

\* All goroutines are about to run.
LEMMA InitDInv == DiscoveryInit => DInv
<1> SUFFICES ASSUME DiscoveryInit PROVE DInv
  OBVIOUS
<1>1. <<>> \in Seq(Endpoints) /\ DOMAIN <<>> = {}
  BY EmptySeq
<1>2. DTypeOK
  BY <1>1 DEF DiscoveryInit, DTypeOK
<1>3. ToSet(allPeers) = {} /\ Distinct(allPeers)
  BY DEF DiscoveryInit, ToSet, Distinct
<1>4. Gathered
  BY <1>3 DEF DiscoveryInit, Gathered
<1> QED BY <1>2, <1>4 DEF DInv

\* A task that comes back has found a list of addresses, and adds it later.
LEMMA EndsKeepsDInv ==
    ASSUME DInv, NEW s \in Sources, NEW how \in {"add", "failed"},
           NEW peers \in Seq(Endpoints), how = "failed" => peers = <<>>,
           Ends(s, how, peers)
    PROVE  DInv'
<1>1. DTypeOK /\ Gathered
  BY DEF DInv
<1>2. /\ task[s] = "run" /\ task' = [task EXCEPT ![s] = how]
      /\ found' = [found EXCEPT ![s] = peers]
      /\ UNCHANGED <<seenPeers, allPeers, outcome>>
  BY DEF Ends, mergeVars
<1>3. DTypeOK'
  BY <1>1, <1>2 DEF DTypeOK
<1>4. {x \in Sources : task'[x] = "ended"} = {x \in Sources : task[x] = "ended"}
      /\ \A x \in Sources : task[x] = "ended" => found'[x] = found[x]
  BY <1>1, <1>2 DEF DTypeOK
<1>5. UNION {ToSet(found'[x]) : x \in {y \in Sources : task'[y] = "ended"}}
        = UNION {ToSet(found[x]) : x \in {y \in Sources : task[y] = "ended"}}
  BY <1>4
<1>6. \A x \in Sources : task'[x] \in {"run", "failed"} => found'[x] = <<>>
  BY <1>1, <1>2 DEF DTypeOK, Gathered
<1>7. outcome = "none"
  BY <1>1, <1>2 DEF Gathered, AllDone
<1>8. Gathered'
  BY <1>1, <1>2, <1>5, <1>6, <1>7 DEF Gathered
<1> QED BY <1>3, <1>8 DEF DInv

\* The three kinds of task.
LEMMA TasksKeepDInv ==
    ASSUME DInv, (\E s \in HttpTrackers : HttpTask(s)) \/ UDPReturned \/ DHTReturns
    PROVE  DInv'
<1>1. <<>> \in Seq(Endpoints) /\ UDP \in Sources /\ Lookup \in Sources
      /\ HttpTrackers \subseteq Sources
  BY EmptySeq DEF Sources
<1>2. \A n, S : UpTo(n, S) \subseteq Seq(S)
  BY UpToSequences
<1>3. ASSUME NEW s \in HttpTrackers, NEW answer \in HttpAnswers, GetPeersHTTP(s, answer)
      PROVE  DInv'
  <2>1. answer.entries \in Seq(Endpoints \cup {BadEntry})
    <3>1. CASE answer \in [kind : HttpFailures, entries : {<<>>}]
      BY <3>1, EmptySeq
    <3>2. CASE answer \in [kind : {"compact"}, entries : UpTo(MaxFound, Endpoints)]
      <4>1. answer.entries \in Seq(Endpoints)
        BY <1>2, <3>2
      <4>2. Seq(Endpoints) \subseteq Seq(Endpoints \cup {BadEntry})
        BY SeqDef
      <4> QED BY <4>1, <4>2
    <3>3. CASE answer \in [kind : {"list"}, entries : UpTo(MaxFound, Endpoints \cup {BadEntry})]
      BY <1>2, <3>3
    <3> QED BY <3>1, <3>2, <3>3 DEF HttpAnswers
  <2>2. Parsed(answer.entries) \in Seq(Endpoints)
    BY <2>1, ParsedPeers
  <2>3. Ends(s, "failed", <<>>) \/ Ends(s, "add", Parsed(answer.entries))
    BY <1>3 DEF GetPeersHTTP
  <2> QED BY <1>1, <2>2, <2>3, EndsKeepsDInv
<1>4. ASSUME NEW s \in {UDP, Lookup}, NEW peers \in Seq(Endpoints), Ends(s, "add", peers)
      PROVE  DInv'
  BY <1>1, <1>4, EndsKeepsDInv
<1>5. ASSUME NEW s \in {UDP, Lookup}, Ends(s, "failed", <<>>) PROVE DInv'
  BY <1>1, <1>5, EndsKeepsDInv
<1>6. CASE UDPReturned
  BY <1>2, <1>4, <1>5, <1>6 DEF UDPReturned
<1>7. CASE DHTReturns
  BY <1>2, <1>4, <1>5, <1>7 DEF DHTReturns
<1> QED BY <1>3, <1>6, <1>7 DEF HttpTask

\* addPeers moves a source from those that have come back to those that have
\* ended, and its peers to the list.
LEMMA AddPeersKeepsDInv ==
    ASSUME DInv, NEW s \in Sources, AddPeers(s)
    PROVE  DInv'
<1>1. DTypeOK /\ Gathered
  BY DEF DInv
<1>2. /\ task[s] = "add" /\ task' = [task EXCEPT ![s] = "ended"]
      /\ allPeers' = Merged(allPeers, found[s])
      /\ seenPeers' = seenPeers \cup ToSet(found[s]) /\ UNCHANGED <<found, outcome>>
  BY DEF AddPeers
<1>3. /\ allPeers \in Seq(Endpoints) /\ found[s] \in Seq(Endpoints)
      /\ Distinct(allPeers) /\ seenPeers = ToSet(allPeers)
  BY <1>1 DEF DTypeOK, Gathered
<1>4. /\ allPeers' \in Seq(Endpoints) /\ Distinct(allPeers')
      /\ ToSet(allPeers') = ToSet(allPeers) \cup ToSet(found[s])
  BY <1>2, <1>3, MergedPeers
<1>5. DTypeOK'
  BY <1>1, <1>2, <1>4 DEF DTypeOK
<1> DEFINE E == {x \in Sources : task[x] = "ended"}
<1>6. {x \in Sources : task'[x] = "ended"} = E \cup {s}
  BY <1>1, <1>2 DEF DTypeOK
<1>7. UNION {ToSet(found'[x]) : x \in E \cup {s}} = ToSet(allPeers')
  <2>1. ToSet(allPeers) = UNION {ToSet(found[x]) : x \in E}
    BY <1>1 DEF Gathered
  <2> HIDE DEF E
  <2> QED BY <1>2, <1>4, <2>1
<1>8. \A x \in Sources : task'[x] \in {"run", "failed"} => found'[x] = <<>>
  BY <1>1, <1>2 DEF DTypeOK, Gathered
<1>9. outcome = "none"
  BY <1>1, <1>2 DEF Gathered, AllDone
<1>10. Gathered'
  BY <1>2, <1>3, <1>4, <1>6, <1>7, <1>8, <1>9 DEF Gathered
<1> QED BY <1>5, <1>10 DEF DInv

\* A step that changes nothing the merge looks at.
LEMMA FrameDInv == ASSUME DInv, UNCHANGED <<task, found, mergeVars>> PROVE DInv'
  BY DEF DInv, DTypeOK, Gathered, AllDone, mergeVars

\* Every step of discoverPeersForMagnet.
LEMMA NextDInv == ASSUME DInv, [DiscoveryNext]_discoveryVars PROVE DInv'
<1>1. CASE DiscoverReturns
  <2>1. /\ UNCHANGED <<task, found, seenPeers, allPeers>> /\ AllDone
        /\ outcome' = IF allPeers = <<>> THEN "error" ELSE "peers"
    BY <1>1 DEF DiscoverReturns
  <2>2. AllDone'
    BY <2>1 DEF AllDone
  <2>3. outcome' \in {"error", "peers"} /\ (outcome' = "error") = (allPeers' = <<>>)
    BY <2>1
  <2> QED BY <2>1, <2>2, <2>3 DEF DInv, DTypeOK, Gathered
<1>2. CASE UNCHANGED <<task, found, mergeVars>>
  BY <1>2, FrameDInv
<1> QED BY <1>1, <1>2, TasksKeepDInv, AddPeersKeepsDInv
        DEF DiscoveryNext, Merge, discoveryVars

\* Every step of discoverPeersForMagnet is a step of GetPeersUDP, or none of its.
LEMMA DiscoveryStepsCall == [DiscoveryNext]_discoveryVars => [Next]_vars
  BY DEF DiscoveryNext, discoveryVars, HttpTask, GetPeersHTTP, UDPReturned, DHTReturns,
         Ends, Merge, DiscoverReturns, AddPeers

\* Under loss, delay, reordering and duplication of datagrams GetPeersUDP
\* announces itself only with an id issued to it, and returns peers only if the
\* tracker accepted its announce (tracker/udp.go).
THEOREM CallSafe == Spec => []CallInv
<1>1. CInv => CallInv
  BY DEF CInv
<1> QED BY <1>1, InitCInv, NextCInv, PTL DEF Spec

\* The same within discoverPeersForMagnet, whatever the other tasks do.
THEOREM CallSafeInDiscovery == DiscoverySpec => []CallInv
<1>1. CInv => CallInv
  BY DEF CInv
<1>2. DiscoveryInit => CInv
  BY InitCInv DEF DiscoveryInit
<1>3. CInv /\ [DiscoveryNext]_discoveryVars => CInv'
  BY NextCInv, DiscoveryStepsCall
<1> QED BY <1>1, <1>2, <1>3, PTL DEF DiscoverySpec

\* discoverPeersForMagnet returns what its sources found, all of it and each peer
\* once, in whichever order they come back (app/main.go, addPeers).
THEOREM DiscoverySafe == DiscoverySpec => []DiscoveredExact
<1>1. ASSUME DInv PROVE DiscoveredExact
  <2> SUFFICES ASSUME outcome # "none"
               PROVE  /\ ToSet(allPeers) = UNION {ToSet(found[s]) : s \in Sources}
                      /\ Distinct(allPeers)
                      /\ (outcome = "error") = (allPeers = <<>>)
    BY DEF DiscoveredExact, Distinct
  <2>1. Gathered /\ AllDone
    BY <1>1 DEF DInv, Gathered
  <2>2. \A s \in Sources : task[s] # "ended" => ToSet(found[s]) = {}
    BY <2>1 DEF AllDone, Gathered, ToSet
  <2>3. UNION {ToSet(found[s]) : s \in {x \in Sources : task[x] = "ended"}}
          = UNION {ToSet(found[s]) : s \in Sources}
    BY <2>2
  <2> QED BY <2>1, <2>3 DEF Gathered
<1>2. DInv /\ [DiscoveryNext]_discoveryVars => DInv'
  BY NextDInv
<1> QED BY <1>1, <1>2, InitDInv, PTL DEF DiscoverySpec
=============================================================================
