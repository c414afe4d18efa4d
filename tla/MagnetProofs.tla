---------------------------- MODULE MagnetProofs ----------------------------
(***************************************************************************)
(* The safety of magnet_download_piece for every set of peers, limit of    *)
(* dials, number of metadata pieces, of blocks and of attempts.            *)
(*                                                                         *)
(* The search and the connection of Watched share no variable, so that     *)
(* each is shown to keep an invariant of its own.  That of the connection  *)
(* says of what is in flight that it is in order: an automaton that reads  *)
(* what the client will read, from bufferedMsgs, then from the stream,     *)
(* then in answer to what it has sent, finds the pieces of metadata, and   *)
(* the blocks of the attempts one after the other, where the client has    *)
(* got to in them.                                                         *)
(***************************************************************************)
EXTENDS MagnetCommand, FiniteSetTheorems, RecursionTheorems

----------------------------------------------------------------------------
(* The search *)

SearchTypeOK ==
    /\ dialer \in [Peers -> {"wait", "check", "dial", "setup", "lock", "ended"}]
    /\ Cardinality(InSem) <= MaxDials
    /\ resultChan \in Peers \cup {NoPeer} /\ winner \in Peers \cup {NoPeer}
    /\ open \subseteq Peers /\ outcome \in {"none", "client", "error"}
    /\ done \in BOOLEAN /\ completed \in BOOLEAN /\ closed \in BOOLEAN

\* The client that was delivered is in resultChan or with the caller.
Delivery ==
    /\ closed => AllEnded
    /\ resultChan # NoPeer => dialer[resultChan] = "ended" /\ outcome = "none" /\ completed
    /\ winner # NoPeer => dialer[winner] = "ended" /\ outcome = "client" /\ completed
    /\ completed /\ outcome = "none" => resultChan # NoPeer
    /\ outcome = "client" => completed
    /\ outcome = "error" => AllEnded /\ ~completed

SearchInv == SearchTypeOK /\ Delivery /\ NoConnectionLeaked

SearchStep ==
    \/ \E p \in Peers : Dialer(p) \/ Connection(p)
    \/ ClosesResults \/ SearchReturns

\* Nobody has begun to dial.
LEMMA InitSearchInv == SearchInit => SearchInv
<1> SUFFICES ASSUME SearchInit PROVE SearchInv
  OBVIOUS
<1>1. InSem = {}
  BY DEF SearchInit, InSem
<1>2. Cardinality(InSem) <= MaxDials
  BY <1>1, FS_EmptySet, SearchAssumption
<1>3. SearchTypeOK
  BY <1>2 DEF SearchInit, SearchTypeOK
<1>4. Delivery /\ NoConnectionLeaked
  BY DEF SearchInit, Delivery, NoConnectionLeaked
<1> QED BY <1>3, <1>4 DEF SearchInv

\* A step of one dialer from one place to another.
LEMMA GoesTypes ==
    ASSUME SearchTypeOK, NEW p \in Peers,
           NEW from \in {"wait", "check", "dial", "setup", "lock"},
           NEW to \in {"check", "dial", "setup", "lock", "ended"},
           Goes(p, from, to),
           from = "wait" => to = "ended" \/ Cardinality(InSem) < MaxDials
    PROVE  /\ dialer' \in [Peers -> {"wait", "check", "dial", "setup", "lock", "ended"}]
           /\ Cardinality(InSem') <= MaxDials
           /\ dialer[p] = from /\ dialer'[p] = to
           /\ \A q \in Peers : q # p => dialer'[q] = dialer[q]
<1>1. /\ dialer' \in [Peers -> {"wait", "check", "dial", "setup", "lock", "ended"}]
      /\ dialer[p] = from /\ dialer'[p] = to
      /\ \A q \in Peers : q # p => dialer'[q] = dialer[q]
  BY DEF SearchTypeOK, Goes
<1>2. InSem \subseteq Peers /\ IsFiniteSet(Peers) /\ MaxDials \in Nat
      /\ Cardinality(InSem) <= MaxDials
  BY SearchAssumption DEF InSem, SearchTypeOK
<1>3. IsFiniteSet(InSem) /\ Cardinality(InSem) \in Nat
  BY <1>2, FS_Subset, FS_CardinalityType
<1>4. InSem' \subseteq Peers
  BY DEF InSem
<1>5. IsFiniteSet(InSem') /\ Cardinality(InSem') \in Nat
  BY <1>2, <1>4, FS_Subset, FS_CardinalityType
<1>6. CASE from = "wait" /\ to # "ended"
  <2>1. InSem' \subseteq InSem \cup {p}
    BY <1>1 DEF InSem
  <2> DEFINE more == InSem \cup {p}
  <2>a. IsFiniteSet(more) /\ (Cardinality(more) = Cardinality(InSem)
                             \/ Cardinality(more) = Cardinality(InSem) + 1)
    BY <1>3, FS_AddElement
  <2>2. IsFiniteSet(InSem \cup {p}) /\ Cardinality(InSem \cup {p}) <= Cardinality(InSem) + 1
        /\ Cardinality(InSem \cup {p}) \in Nat
    BY <1>3, <2>a
  <2>3. Cardinality(InSem') <= Cardinality(InSem \cup {p})
    BY <2>1, <2>2, FS_Subset
  <2> QED BY <1>1, <1>2, <1>3, <1>5, <1>6, <2>2, <2>3
<1>7. CASE from # "wait" \/ to = "ended"
  <2>1. InSem' \subseteq InSem
    BY <1>1, <1>7 DEF InSem
  <2>2. Cardinality(InSem') <= Cardinality(InSem)
    BY <1>3, <2>1, FS_Subset
  <2> QED BY <1>1, <1>2, <1>3, <1>5, <2>2
<1> QED BY <1>6, <1>7

\* A dialer that keeps its connection, or has none to keep.
LEMMA GoesKeepsSearchInv ==
    ASSUME SearchInv, NEW p \in Peers,
           NEW from \in {"wait", "check", "dial", "setup", "lock"},
           NEW to \in {"check", "dial", "setup", "lock", "ended"},
           Goes(p, from, to),
           from = "wait" => to = "ended" \/ Cardinality(InSem) < MaxDials,
           open' = IF to \in {"setup", "lock"} THEN open \cup {p} ELSE open \ {p},
           UNCHANGED <<done, completed, resultChan, closed, outcome, winner>>
    PROVE  SearchInv'
<1>1. SearchTypeOK /\ Delivery /\ NoConnectionLeaked
  BY DEF SearchInv
<1>2. /\ dialer' \in [Peers -> {"wait", "check", "dial", "setup", "lock", "ended"}]
      /\ Cardinality(InSem') <= MaxDials
      /\ dialer[p] = from /\ dialer'[p] = to
      /\ \A q \in Peers : q # p => dialer'[q] = dialer[q]
  BY <1>1, GoesTypes
<1>3. ~AllEnded /\ resultChan # p /\ winner # p
  BY <1>1, <1>2, SearchAssumption DEF AllEnded, Delivery
<1>4. SearchTypeOK'
  BY <1>1, <1>2 DEF SearchTypeOK
<1>5. Delivery'
  BY <1>1, <1>2, <1>3 DEF Delivery, SearchTypeOK
<1>6. {resultChan, winner} \ {NoPeer} \subseteq Peers \ {p}
  BY <1>1, <1>3 DEF SearchTypeOK
<1>7. {q \in Peers : dialer'[q] \in {"setup", "lock"}}
        = IF to \in {"setup", "lock"}
          THEN {q \in Peers : dialer[q] \in {"setup", "lock"}} \cup {p}
          ELSE {q \in Peers : dialer[q] \in {"setup", "lock"}} \ {p}
  BY <1>2
<1>8. NoConnectionLeaked'
  BY <1>1, <1>6, <1>7 DEF NoConnectionLeaked
<1> QED BY <1>4, <1>5, <1>8 DEF SearchInv

\* The first client is sent, any other one closed.
LEMMA DeliversKeepsSearchInv ==
    ASSUME SearchInv, NEW p \in Peers, Delivers(p)
    PROVE  SearchInv'
<1>1. SearchTypeOK /\ Delivery /\ NoConnectionLeaked
  BY DEF SearchInv
<1>2. CASE completed
  BY <1>2, GoesKeepsSearchInv DEF Delivers
<1>3. CASE ~completed
  <2>1. /\ Goes(p, "lock", "ended")
        /\ completed' = TRUE /\ done' = TRUE /\ resultChan' = p
        /\ UNCHANGED <<open, closed, outcome, winner>>
    BY <1>3 DEF Delivers
  <2>2. /\ dialer' \in [Peers -> {"wait", "check", "dial", "setup", "lock", "ended"}]
        /\ Cardinality(InSem') <= MaxDials
        /\ dialer[p] = "lock" /\ dialer'[p] = "ended"
        /\ \A q \in Peers : q # p => dialer'[q] = dialer[q]
    BY <1>1, <2>1, GoesTypes
  <2>3. /\ ~AllEnded /\ ~closed /\ resultChan = NoPeer /\ winner = NoPeer
        /\ outcome # "error"
    BY <1>1, <1>3, <2>2 DEF AllEnded, Delivery
  <2>4. outcome = "none" \/ outcome = "client"
    BY <1>1, <2>3 DEF SearchTypeOK
  <2>5. outcome = "none"
    BY <1>1, <1>3, <2>4 DEF Delivery
  <2>6. SearchTypeOK'
    BY <1>1, <2>1, <2>2 DEF SearchTypeOK
  <2>8. p # NoPeer
    BY SearchAssumption
  <2>7. Delivery'
    BY <2>1, <2>2, <2>3, <2>5, <2>8 DEF Delivery
  <2>9. NoConnectionLeaked'
    BY <1>1, <2>1, <2>2, <2>3, <2>8 DEF NoConnectionLeaked
  <2> QED BY <2>6, <2>7, <2>9 DEF SearchInv
<1> QED BY <1>1, <1>2, <1>3 DEF SearchTypeOK

\* Every step of the search.
LEMMA NextSearchInv == ASSUME SearchInv, [SearchStep]_searchVars PROVE SearchInv'
<1>1. SearchTypeOK /\ Delivery /\ NoConnectionLeaked
  BY DEF SearchInv
<1>2. CASE UNCHANGED searchVars
  BY <1>1, <1>2 DEF SearchInv, SearchTypeOK, Delivery, NoConnectionLeaked, InSem, AllEnded,
                    searchVars
<1>3. \A p \in Peers : p \in open <=> dialer[p] \in {"setup", "lock"} \/ p \in {resultChan, winner}
  BY <1>1, SearchAssumption DEF NoConnectionLeaked
<1>4. \A p \in Peers : dialer[p] \in {"wait", "check", "dial"} => p \notin open
  BY <1>1, <1>3, SearchAssumption DEF Delivery
<1>8. ASSUME NEW p \in Peers, Connection(p) PROVE SearchInv'
  <2>1. CASE DialFails(p)
    <3>1. dialer[p] = "dial" /\ Goes(p, "dial", "ended")
      BY <2>1 DEF DialFails, Goes
    <3>2. open' = open \ {p}
      BY <1>4, <3>1, <2>1 DEF DialFails
    <3> QED BY <3>1, <3>2, <2>1, GoesKeepsSearchInv DEF DialFails
  <2>2. CASE DialSucceeds(p)
    BY <2>2, GoesKeepsSearchInv DEF DialSucceeds
  <2>3. CASE SetupFails(p)
    BY <2>3, GoesKeepsSearchInv DEF SetupFails
  <2>4. CASE SetupSucceeds(p)
    <3>1. dialer[p] = "setup" /\ Goes(p, "setup", "lock")
      BY <2>4 DEF SetupSucceeds, Goes
    <3>2. open' = open \cup {p}
      BY <1>3, <3>1, <2>4 DEF SetupSucceeds
    <3> QED BY <3>1, <3>2, <2>4, GoesKeepsSearchInv DEF SetupSucceeds
  <2> QED BY <1>8, <2>1, <2>2, <2>3, <2>4 DEF Connection
<1>5. ASSUME NEW p \in Peers, Dialer(p) PROVE SearchInv'
  <2>1. CASE GetsPlace(p)
    <3>1. dialer[p] = "wait" /\ Goes(p, "wait", "check")
      BY <2>1 DEF GetsPlace, Goes
    <3>2. open' = open \ {p}
      BY <1>4, <3>1, <2>1 DEF GetsPlace
    <3> QED BY <3>1, <3>2, <2>1, GoesKeepsSearchInv DEF GetsPlace
  <2>2. CASE SeesDone(p)
    <3>1. PICK from \in {"wait", "check"} : Goes(p, from, "ended")
      BY <2>2 DEF SeesDone
    <3>2. dialer[p] = from
      BY <3>1 DEF Goes
    <3>3. open' = open \ {p}
      BY <1>4, <2>2, <3>2 DEF SeesDone
    <3> QED BY <3>1, <3>3, <2>2, GoesKeepsSearchInv DEF SeesDone
  <2>3. CASE Dials(p)
    <3>1. dialer[p] = "check" /\ Goes(p, "check", "dial")
      BY <2>3 DEF Dials, Goes
    <3>2. open' = open \ {p}
      BY <1>4, <3>1, <2>3 DEF Dials
    <3> QED BY <3>1, <3>2, <2>3, GoesKeepsSearchInv DEF Dials
  <2> QED BY <1>5, <2>1, <2>2, <2>3, DeliversKeepsSearchInv DEF Dialer
<1>6. CASE ClosesResults
  BY <1>1, <1>6 DEF ClosesResults, SearchInv, SearchTypeOK, Delivery, NoConnectionLeaked,
                    InSem, AllEnded
<1>7. CASE SearchReturns
  <2>1. SearchTypeOK'
    BY <1>1, <1>7 DEF SearchReturns, SearchTypeOK, InSem
  <2>2. Delivery'
    BY <1>1, <1>7 DEF SearchReturns, SearchTypeOK, Delivery, AllEnded
  <2>3. winner = NoPeer
    BY <1>1, <1>7 DEF SearchReturns, Delivery
  <2>4. NoConnectionLeaked'
    BY <1>1, <1>7, <2>3 DEF SearchReturns, NoConnectionLeaked
  <2> QED BY <2>1, <2>2, <2>4 DEF SearchInv
<1> QED BY <1>2, <1>8, <1>5, <1>6, <1>7 DEF SearchStep

----------------------------------------------------------------------------
(* What is on its way to the client *)

FromPeer == [id : {"extension", "bitfield", "unchoke", "choke", "data", "reject", "piece"},
             n : Nat]
ToPeer == [id : {"metadata", "interested", "request"}, n : Nat]
Sent == ToPeer \cup {Msg("noise", 0)}
Msgs == [id : {"extension", "bitfield", "unchoke", "choke", "data", "reject", "piece",
               "metadata", "interested", "request"},
         n : Nat]

\* Where an automaton ends that starts in e and reads what the client kept, then
\* what the peer has sent, then what the peer has still to answer.
EndOf(D, kept, sent, asked, e) == Run(D, asked, Run(D, sent, Run(D, kept, e)))

IdleIds == {"extension", "bitfield", "unchoke", "choke", "interested"}

Answer(m, a) ==
    /\ a.n = m.n
    /\ \/ m.id = "metadata" /\ a.id \in {"data", "reject"}
       \/ m.id = "request" /\ a.id = "piece"

\* It reads the answer to a message as it reads the message, and nothing else.
Mirrors(D, T) ==
    \A z \in T, m \in Msgs :
        /\ m.id \in IdleIds => D[<<z, m>>] = z
        /\ \A a \in Msgs : Answer(m, a) => D[<<z, a>>] = D[<<z, m>>]

\* Both directions carry messages.
LEMMA Carried ==
    /\ \A s \in Seq(FromPeer) : s \in Seq(Msgs)
    /\ \A s \in Seq(ToPeer) : s \in Seq(Msgs)
<1>1. FromPeer \subseteq Msgs /\ ToPeer \subseteq Msgs
  BY DEF FromPeer, ToPeer, Msgs
<1>2. ASSUME NEW S, S \subseteq Msgs, NEW s \in Seq(S) PROVE s \in Seq(Msgs)
  <2>1. Len(s) \in Nat /\ s \in [1 .. Len(s) -> S]
    BY LenProperties
  <2>2. s \in [1 .. Len(s) -> Msgs]
    BY <1>2, <2>1
  <2> QED BY <2>1, <2>2, SeqDef
<1> QED BY <1>1, <1>2

\* A run stays among the states, and in a set of them that nothing leads out of.
LEMMA EndWithin ==
    ASSUME NEW T, NEW D, Automaton(D, T, Msgs), NEW b \in Seq(Msgs), NEW s \in Seq(Msgs),
           NEW t \in Seq(Msgs), NEW Z, NEW e \in Z \cap T,
           \A z \in Z \cap T, m \in Msgs : D[<<z, m>>] \in Z
    PROVE  EndOf(D, b, s, t, e) \in Z \cap T
<1>1. ASSUME NEW q \in Seq(Msgs), NEW x \in Z \cap T PROVE Run(D, q, x) \in Z \cap T
  <2>1. \A i \in 1 .. Len(q) : q[i] \in Msgs
    BY ElementOfSeq
  <2>2. \A z \in Z \cap T, i \in 1 .. Len(q) : D[<<z, q[i]>>] \in Z
    BY <2>1
  <2> QED BY <2>2, RunWithin
<1>2. Run(D, b, e) \in Z \cap T
  BY <1>1
<1>3. Run(D, s, Run(D, b, e)) \in Z \cap T
  BY <1>1, <1>2
<1> QED BY <1>1, <1>3 DEF EndOf

\* The run of an automaton ends among its states.
LEMMA RunType ==
    ASSUME NEW T, NEW D, Automaton(D, T, Msgs), NEW s \in Seq(Msgs), NEW e \in T
    PROVE  Run(D, s, e) \in T
BY RunStates, LenProperties

\* Reading from what was kept, and from the connection when nothing is kept.
LEMMA EndReads ==
    ASSUME NEW T, NEW D, Automaton(D, T, Msgs), NEW b \in Seq(Msgs), NEW s \in Seq(Msgs),
           NEW t \in Seq(Msgs), NEW e \in T
    PROVE  /\ b # <<>> => EndOf(D, b, s, t, e) = EndOf(D, Tail(b), s, t, D[<<e, Head(b)>>])
           /\ b = <<>> /\ s # <<>> =>
                EndOf(D, b, s, t, e) = EndOf(D, b, Tail(s), t, D[<<e, Head(s)>>])
<1>1. b # <<>> => Run(D, b, e) = Run(D, Tail(b), D[<<e, Head(b)>>])
  BY RunTail
<1>2. \A x \in T : b = <<>> => Run(D, b, x) = x
  BY RunEmpty
<1>3. s # <<>> => Run(D, s, e) = Run(D, Tail(s), D[<<e, Head(s)>>])
  BY RunTail
<1>4. s # <<>> => Head(s) \in Msgs
  BY HeadTailProperties
<1>5. s # <<>> => D[<<e, Head(s)>>] \in T
  BY <1>4 DEF Automaton
<1>6. b = <<>> /\ s # <<>> => Run(D, b, D[<<e, Head(s)>>]) = D[<<e, Head(s)>>]
  BY <1>2, <1>5
<1> QED BY <1>1, <1>2, <1>3, <1>6 DEF EndOf

\* NewClient keeps a message, or drops one that the automaton does not read.
LEMMA EndKeeps ==
    ASSUME NEW T, NEW D, Automaton(D, T, Msgs), NEW b \in Seq(Msgs), NEW s \in Seq(Msgs),
           NEW t \in Seq(Msgs), NEW e \in T, s # <<>>
    PROVE  /\ EndOf(D, Append(b, Head(s)), Tail(s), t, e) = EndOf(D, b, s, t, e)
           /\ (\A z \in T : D[<<z, Head(s)>>] = z) =>
                EndOf(D, b, Tail(s), t, e) = EndOf(D, b, s, t, e)
<1> DEFINE x == Run(D, b, e)
<1>1. Head(s) \in Msgs
  BY HeadTailProperties
<1>2. x \in T
  BY RunType
<1>3. Run(D, Append(b, Head(s)), e) = D[<<x, Head(s)>>]
  BY <1>1, RunAppend
<1> HIDE DEF x
<1>4. Run(D, s, x) = Run(D, Tail(s), D[<<x, Head(s)>>])
  BY <1>2, RunTail
<1> QED BY <1>2, <1>3, <1>4 DEF EndOf, x

\* The peer sends something the automaton does not read.
LEMMA EndGreets ==
    ASSUME NEW T, NEW D, Automaton(D, T, Msgs), NEW b \in Seq(Msgs), NEW s \in Seq(Msgs),
           NEW t \in Seq(Msgs), NEW e \in T, NEW m \in Msgs, \A z \in T : D[<<z, m>>] = z
    PROVE  EndOf(D, b, Append(s, m), t, e) = EndOf(D, b, s, t, e)
<1> DEFINE x == Run(D, b, e)
<1>1. x \in T
  BY RunType
<1> HIDE DEF x
<1>2. Run(D, Append(s, m), x) = D[<<Run(D, s, x), m>>]
  BY <1>1, RunAppend
<1>3. Run(D, s, x) \in T
  BY <1>1, RunType
<1> QED BY <1>2, <1>3 DEF EndOf, x

\* The peer answers the message it has received first, or just drops it.
LEMMA EndAnswers ==
    ASSUME NEW T, NEW D, Automaton(D, T, Msgs), NEW b \in Seq(Msgs), NEW s \in Seq(Msgs),
           NEW t \in Seq(Msgs), NEW e \in T, t # <<>>
    PROVE  /\ \A m \in Msgs : (\A z \in T : D[<<z, m>>] = D[<<z, Head(t)>>]) =>
                EndOf(D, b, Append(s, m), Tail(t), e) = EndOf(D, b, s, t, e)
           /\ (\A z \in T : D[<<z, Head(t)>>] = z) =>
                EndOf(D, b, s, Tail(t), e) = EndOf(D, b, s, t, e)
<1> DEFINE x == Run(D, b, e)
           y == Run(D, s, x)
<1>1. x \in T
  BY RunType
<1> HIDE DEF x
<1>2. y \in T
  BY <1>1, RunType
<1>3. \A m \in Msgs : Run(D, Append(s, m), x) = D[<<y, m>>]
  BY <1>1, RunAppend
<1> HIDE DEF y
<1>4. Run(D, t, y) = Run(D, Tail(t), D[<<y, Head(t)>>])
  BY <1>2, RunTail
<1> QED BY <1>2, <1>3, <1>4 DEF EndOf, x, y

\* The client asks for one thing more, or for several.
LEMMA EndAsks ==
    ASSUME NEW T, NEW D, Automaton(D, T, Msgs), NEW b \in Seq(Msgs), NEW s \in Seq(Msgs),
           NEW t \in Seq(Msgs), NEW e \in T
    PROVE  /\ \A m \in Msgs : EndOf(D, b, s, Append(t, m), e) = D[<<EndOf(D, b, s, t, e), m>>]
           /\ \A u \in Seq(Msgs) : EndOf(D, b, s, t \o u, e) = Run(D, u, EndOf(D, b, s, t, e))
           /\ EndOf(D, b, s, t, e) \in T
<1> DEFINE x == Run(D, b, e)
           y == Run(D, s, x)
<1>1. x \in T
  BY RunType
<1> HIDE DEF x
<1>2. y \in T
  BY <1>1, RunType
<1> HIDE DEF y
<1>3. \A m \in Msgs : Run(D, Append(t, m), y) = D[<<Run(D, t, y), m>>]
  BY <1>2, RunAppend
<1>4. \A u \in Seq(Msgs) : Run(D, t \o u, y) = Run(D, u, Run(D, t, y))
  BY <1>2, RunConcat
<1>5. Run(D, t, y) \in T
  BY <1>2, RunType
<1> QED BY <1>3, <1>4, <1>5 DEF EndOf, x, y

Silent(kept, sent, asked) == kept = <<>> /\ sent = <<>> /\ asked = <<>>

\* Nothing is read when nothing is on its way.
LEMMA EndEmpty ==
    ASSUME NEW T, NEW D, Automaton(D, T, Msgs), NEW b \in Seq(Msgs), NEW s \in Seq(Msgs),
           NEW t \in Seq(Msgs), NEW e \in T
    PROVE  Silent(b, s, t) => EndOf(D, b, s, t, e) = e
<1>1. b = <<>> => Run(D, b, e) = e
  BY RunEmpty
<1>2. s = <<>> => Run(D, s, e) = e
  BY RunEmpty
<1>3. t = <<>> => Run(D, t, e) = e
  BY RunEmpty
<1> QED BY <1>1, <1>2, <1>3 DEF EndOf, Silent

----------------------------------------------------------------------------
(* The connection *)

Early == {"none", "init", "setup", "ready"}
Unasked == Early \cup {"metadata", "unchoke"}
Over == {"done", "failed", "panicked"}

\* The types, whatever happens to the connection.
ConnTypeOK ==
    /\ phase \in Unasked \cup Over \cup {"request", "piece"}
    /\ metadataExtId \in BOOLEAN /\ torn \in BOOLEAN /\ offers \in BOOLEAN
    /\ mismatch \subseteq {"metadata", "piece"} /\ spoilt \subseteq {"torn", "dropped", "write"}
    /\ torn => stream # <<>> /\ "torn" \in spoilt
    /\ phase \in {"none", "init"} => ~torn
    /\ bufferedMsgs \in Seq(FromPeer) /\ stream \in Seq(FromPeer) /\ toPeer \in Seq(Sent)
    /\ "write" \notin spoilt => toPeer \in Seq(ToPeer)
    /\ metadata \in Seq(Nat) /\ Len(metadata) <= MetaPieces
    /\ phase \in Early \cup {"metadata"} => Len(metadata) < MetaPieces
    /\ attempt \in 0 .. MaxAttempts /\ received \in 0 .. Blocks - 1 /\ got \subseteq 1 .. Blocks
    /\ greetings \subseteq {"extension", "bitfield", "unchoke", "choke"}
    /\ unchoked \in {"no", "early", "yes", "choked"}

\* The types on a connection with which nothing has gone wrong.
SyncTypeOK ==
    /\ phase \in Unasked \cup Over \cup {"request", "piece"}
    /\ metadataExtId \in BOOLEAN /\ offers \in BOOLEAN
    /\ ~torn /\ spoilt = {} /\ mismatch \subseteq {"metadata", "piece"}
    /\ bufferedMsgs \in Seq(FromPeer) /\ stream \in Seq(FromPeer) /\ toPeer \in Seq(ToPeer)
    /\ metadata \in Seq(Nat)
    /\ attempt \in 0 .. MaxAttempts /\ received \in 0 .. Blocks - 1
    /\ greetings \subseteq {"extension", "bitfield", "unchoke", "choke"}
    /\ unchoked \in {"no", "early", "yes", "choked"}

LEMMA CleanTypes == ConnTypeOK /\ spoilt = {} => SyncTypeOK
BY DEF ConnTypeOK, SyncTypeOK

GivesUp == \E phases, how : how \in {"failed", "panicked"} /\ Ends(phases, how)

SyncStep ==
    \/ Peer
    \/ Connects \/ NewClientReads \/ NewClientReturns \/ SetupKnows
    \/ \E msg \in Readable : \/ SetupReads(msg) \/ MetadataReads(msg)
                             \/ WaitForUnchoke(msg) \/ DownloadPieceReads(msg)
    \/ FetchMetadata \/ RequestBlocks \/ DownloadPieceTimesOut
    \/ GivesUp

\* A step of the command is one of the search and one of the connection, or
\* leaves one of them alone.
LEMMA CommandSteps ==
    ASSUME [CommandNext]_commandVars
    PROVE  [SearchStep]_searchVars /\ [SyncStep]_syncVars
<1>1. Watched \in Peers
  BY WatchedAssumption
<1>2. ASSUME NEW phases, Fails(phases) PROVE GivesUp
  BY <1>2 DEF Fails, GivesUp
<1>3. ASSUME NEW phases, TimesOut(phases) PROVE GivesUp
  BY <1>2, <1>3 DEF TimesOut
<1>13. Panics => GivesUp
  BY DEF Panics, GivesUp
<1>4. CASE UNCHANGED commandVars
  BY <1>4 DEF commandVars
<1>5. CASE \E p \in Peers : Dialer(p) /\ UNCHANGED syncVars
  BY <1>5 DEF SearchStep
<1>6. CASE \E p \in Peers \ {Watched} : Connection(p) /\ UNCHANGED syncVars
  BY <1>6 DEF SearchStep
<1>7. CASE (ClosesResults \/ SearchReturns) /\ UNCHANGED syncVars
  BY <1>7 DEF SearchStep
<1>8. CASE NewClientInside
  BY <1>1, <1>2, <1>8 DEF NewClientInside, SearchStep, SyncStep, Connection
<1>9. CASE SetupInside
  BY <1>1, <1>2, <1>3, <1>9 DEF SetupInside, SearchStep, SyncStep, Connection
<1>10. CASE winner = Watched /\ Command /\ UNCHANGED searchVars
  BY <1>3, <1>10, <1>13 DEF Command, SyncStep
<1>11. CASE /\ winner = Watched /\ UNCHANGED searchVars
            /\ Fails({"metadata", "unchoke", "request", "piece"})
  BY <1>2, <1>11 DEF SyncStep
<1>12. CASE Peer /\ UNCHANGED searchVars
  BY <1>12 DEF SyncStep
<1> QED BY <1>4, <1>5, <1>6, <1>7, <1>8, <1>9, <1>10, <1>11, <1>12 DEF CommandNext

\* Both ends write whole messages.
LEMMA Written ==
    /\ \A id \in {"extension", "bitfield", "unchoke", "choke", "data", "reject", "piece"},
          n \in Nat : Msg(id, n) \in FromPeer
    /\ \A id \in {"metadata", "interested", "request"}, n \in Nat : Msg(id, n) \in ToPeer
    /\ Requests \in Seq(ToPeer) /\ Len(Requests) = Blocks
    /\ \A i \in 1 .. Blocks : Requests[i] = Msg("request", i)
<1>1. /\ \A id \in {"extension", "bitfield", "unchoke", "choke", "data", "reject", "piece"},
            n \in Nat : Msg(id, n) \in FromPeer
      /\ \A id \in {"metadata", "interested", "request"}, n \in Nat : Msg(id, n) \in ToPeer
  BY DEF Msg, FromPeer, ToPeer
<1>2. Blocks \in Nat
  BY SyncAssumption
<1>3. \A i \in 1 .. Blocks : Requests[i] = Msg("request", i)
  BY DEF Requests
<1>4. Requests \in [1 .. Blocks -> ToPeer]
  BY <1>1, <1>2 DEF Requests
<1>5. Requests \in Seq(ToPeer) /\ Len(Requests) = Blocks
  BY <1>2, <1>4, SeqDef, LenProperties
<1> QED BY <1>1, <1>3, <1>5

\* A part of a sequence of messages is one.
LEMMA PartOf ==
    ASSUME NEW S, NEW s \in Seq(S), NEW j \in Nat \ {0}, NEW k \in 0 .. Len(s)
    PROVE  SubSeq(s, j, k) \in Seq(S) /\ (j <= k => SubSeq(s, j, k) # <<>>)
<1>1. Len(s) \in Nat /\ \A i \in 1 .. Len(s) : s[i] \in S
  BY LenProperties, ElementOfSeq
<1>2. \A i \in j .. k : s[i] \in S
  BY <1>1
<1>3. SubSeq(s, j, k) \in Seq(S) /\ Len(SubSeq(s, j, k)) = IF j <= k THEN k - j + 1 ELSE 0
  BY <1>1, <1>2, SubSeqProperties
<1>4. j <= k => Len(SubSeq(s, j, k)) # 0
  BY <1>1, <1>3
<1>5. Len(<<>>) = 0
  BY EmptySeq
<1> QED BY <1>3, <1>4, <1>5

\* What a read leaves of a stream, in step or not.
LEMMA ReadsAny ==
    ASSUME ConnTypeOK
    PROVE  /\ Astray => stream' \in Seq(FromPeer) /\ torn' \in BOOLEAN /\ (torn' => stream' # <<>>)
           /\ \A msg : Reads(msg) =>
                /\ msg \in FromPeer /\ msg.n \in Nat
                /\ bufferedMsgs' \in Seq(FromPeer) /\ stream' \in Seq(FromPeer)
                /\ torn' \in BOOLEAN /\ (torn' => stream' # <<>> /\ "torn" \in spoilt)
<1>1. /\ bufferedMsgs \in Seq(FromPeer) /\ stream \in Seq(FromPeer) /\ torn \in BOOLEAN
      /\ torn => stream # <<>> /\ "torn" \in spoilt
  BY DEF ConnTypeOK
<1>2. \A s \in Seq(FromPeer) : s # <<>> => Head(s) \in FromPeer /\ Tail(s) \in Seq(FromPeer)
  BY HeadTailProperties
<1>3. Astray => stream' \in Seq(FromPeer) /\ torn' \in BOOLEAN /\ (torn' => stream' # <<>>)
  <2>1. Len(stream) \in Nat
    BY <1>1, LenProperties
  <2>2. SUFFICES ASSUME NEW k \in 1 .. Len(stream) + 1, stream' = SubSeq(stream, k, Len(stream)),
                        \/ torn' = TRUE /\ k <= Len(stream)
                        \/ torn' = FALSE
                 PROVE  stream' \in Seq(FromPeer) /\ torn' \in BOOLEAN /\ (torn' => stream' # <<>>)
    BY DEF Astray
  <2>3. k \in Nat \ {0} /\ Len(stream) \in 0 .. Len(stream)
    BY <2>1
  <2>4. stream' \in Seq(FromPeer) /\ (k <= Len(stream) => stream' # <<>>)
    BY <1>1, <2>2, <2>3, PartOf
  <2> QED BY <2>2, <2>4
<1>4. ASSUME NEW msg, Reads(msg)
      PROVE  /\ msg \in FromPeer /\ msg.n \in Nat
             /\ bufferedMsgs' \in Seq(FromPeer) /\ stream' \in Seq(FromPeer)
             /\ torn' \in BOOLEAN /\ (torn' => stream' # <<>> /\ "torn" \in spoilt)
  <2>1. Noise \subseteq FromPeer
    <3>1. Foreign \in Nat
      BY SyncAssumption DEF Foreign
    <3> QED BY <3>1 DEF Noise, FromPeer, Msg
  <2>2. msg \in FromPeer
    BY <1>1, <1>2, <1>4, <2>1 DEF Reads, Readable
  <2>3. msg.n \in Nat
    BY <2>2 DEF FromPeer
  <2>4. CASE bufferedMsgs # <<>>
    BY <1>1, <1>2, <1>4, <2>2, <2>3, <2>4 DEF Reads
  <2>5. CASE bufferedMsgs = <<>> /\ torn
    BY <1>1, <1>3, <1>4, <2>2, <2>3, <2>5 DEF Reads
  <2>6. CASE bufferedMsgs = <<>> /\ ~torn
    <3>1. stream # <<>> /\ stream' = Tail(stream) /\ torn' = torn /\ bufferedMsgs' = bufferedMsgs
      BY <1>4, <2>6 DEF Reads, Readable
    <3> QED BY <1>1, <1>2, <2>2, <2>3, <2>6, <3>1
  <2> QED BY <2>4, <2>5, <2>6
<1> QED BY <1>3, <1>4

\* So with a deadline.
LEMMA InterruptedAny ==
    ASSUME ConnTypeOK, Interrupted
    PROVE  /\ stream' \in Seq(FromPeer) /\ torn' \in BOOLEAN
           /\ torn' => stream' # <<>> /\ "torn" \in spoilt'
           /\ spoilt' \in {spoilt, spoilt \cup {"torn"}}
<1>1. /\ stream \in Seq(FromPeer) /\ torn \in BOOLEAN
      /\ torn => stream # <<>> /\ "torn" \in spoilt
  BY DEF ConnTypeOK
<1>2. Astray => stream' \in Seq(FromPeer) /\ torn' \in BOOLEAN /\ (torn' => stream' # <<>>)
  BY ReadsAny
<1>3. CASE UNCHANGED <<stream, torn, spoilt>>
  BY <1>1, <1>3
<1>4. CASE ~torn /\ stream # <<>> /\ torn' = TRUE /\ spoilt' = spoilt \cup {"torn"} /\ stream' = stream
  BY <1>1, <1>4
<1>5. CASE torn /\ Astray /\ spoilt' = spoilt
  BY <1>1, <1>2, <1>5
<1> QED BY <1>3, <1>4, <1>5 DEF Interrupted

\* ReadMessage takes one message off what is kept, or off the connection.
LEMMA ReadsOne ==
    ASSUME SyncTypeOK, NEW msg, Reads(msg)
    PROVE  /\ msg \in FromPeer
           /\ bufferedMsgs' \in Seq(FromPeer) /\ stream' \in Seq(FromPeer)
           /\ \/ /\ bufferedMsgs # <<>> /\ msg = Head(bufferedMsgs)
                 /\ bufferedMsgs' = Tail(bufferedMsgs) /\ stream' = stream
              \/ /\ bufferedMsgs = <<>> /\ stream # <<>> /\ msg = Head(stream)
                 /\ stream' = Tail(stream) /\ bufferedMsgs' = bufferedMsgs
<1>1. bufferedMsgs \in Seq(FromPeer) /\ stream \in Seq(FromPeer) /\ ~torn
  BY DEF SyncTypeOK
<1>2. \A s \in Seq(FromPeer) : s # <<>> => Head(s) \in FromPeer /\ Tail(s) \in Seq(FromPeer)
  BY HeadTailProperties
<1>3. \/ /\ bufferedMsgs # <<>> /\ msg = Head(bufferedMsgs)
         /\ bufferedMsgs' = Tail(bufferedMsgs) /\ stream' = stream
      \/ /\ bufferedMsgs = <<>> /\ stream # <<>> /\ msg = Head(stream)
         /\ stream' = Tail(stream) /\ bufferedMsgs' = bufferedMsgs
  BY <1>1 DEF Reads, Readable
<1> QED BY <1>1, <1>2, <1>3

\* What an automaton reads when a message is taken.
LEMMA ReadsEnd ==
    ASSUME SyncTypeOK, NEW msg, Reads(msg),
           NEW T, NEW D, Automaton(D, T, Msgs), NEW e \in T
    PROVE  /\ EndOf(D, bufferedMsgs, stream, toPeer, e)
                = EndOf(D, bufferedMsgs', stream', toPeer, D[<<e, msg>>])
           /\ D[<<e, msg>>] \in T
<1>1. /\ msg \in FromPeer /\ bufferedMsgs' \in Seq(FromPeer) /\ stream' \in Seq(FromPeer)
      /\ \/ /\ bufferedMsgs # <<>> /\ msg = Head(bufferedMsgs)
            /\ bufferedMsgs' = Tail(bufferedMsgs) /\ stream' = stream
         \/ /\ bufferedMsgs = <<>> /\ stream # <<>> /\ msg = Head(stream)
            /\ stream' = Tail(stream) /\ bufferedMsgs' = bufferedMsgs
  BY ReadsOne
<1>2. /\ bufferedMsgs \in Seq(Msgs) /\ stream \in Seq(Msgs) /\ toPeer \in Seq(Msgs)
      /\ msg \in Msgs
  BY <1>1, Carried DEF SyncTypeOK, FromPeer, Msgs
<1>3. /\ bufferedMsgs # <<>> =>
           EndOf(D, bufferedMsgs, stream, toPeer, e)
             = EndOf(D, Tail(bufferedMsgs), stream, toPeer, D[<<e, Head(bufferedMsgs)>>])
      /\ bufferedMsgs = <<>> /\ stream # <<>> =>
           EndOf(D, bufferedMsgs, stream, toPeer, e)
             = EndOf(D, bufferedMsgs, Tail(stream), toPeer, D[<<e, Head(stream)>>])
  BY <1>2, EndReads
<1> QED BY <1>1, <1>2, <1>3 DEF Automaton

\* Nothing changes for an automaton when the peer answers or sends a message of
\* its own, and when NewClient keeps or drops one.
LEMMA IdleEnd ==
    ASSUME SyncTypeOK, spoilt' = {},
           Peer \/ NewClientReads \/ UNCHANGED <<bufferedMsgs, stream, toPeer>>,
           NEW T, NEW D, Automaton(D, T, Msgs), Mirrors(D, T), NEW e \in T
    PROVE  EndOf(D, bufferedMsgs', stream', toPeer', e) = EndOf(D, bufferedMsgs, stream, toPeer, e)
<1>1. /\ bufferedMsgs \in Seq(Msgs) /\ stream \in Seq(Msgs) /\ toPeer \in Seq(Msgs)
      /\ bufferedMsgs \in Seq(FromPeer) /\ stream \in Seq(FromPeer) /\ toPeer \in Seq(ToPeer)
  BY Carried DEF SyncTypeOK
<1>2. \A n \in Nat : \A id \in {"extension", "bitfield", "unchoke", "choke", "data",
                                "reject", "piece"} :
        Msg(id, n) \in Msgs /\ Msg(id, n).id = id /\ Msg(id, n).n = n
  BY DEF Msg, Msgs
<1>3. \A m \in FromPeer \cup ToPeer : m \in Msgs /\ m.n \in Nat
  BY DEF Msgs, FromPeer, ToPeer
<1>4. CASE UNCHANGED <<bufferedMsgs, stream, toPeer>>
  BY <1>4
<1>5. CASE NewClientReads
  <2> DEFINE m == Head(stream)
  <2>1. stream # <<>> /\ m \in FromPeer
    BY <1>1, <1>5, HeadTailProperties DEF NewClientReads
  <2>2. /\ stream' = Tail(stream) /\ toPeer' = toPeer
        /\ \/ bufferedMsgs' = Append(bufferedMsgs, m)
           \/ m.id \in {"bitfield", "extension"} /\ bufferedMsgs' = bufferedMsgs
    BY <1>5 DEF NewClientReads
  <2>3. m.id \in {"bitfield", "extension"} => \A z \in T : D[<<z, m>>] = z
    BY <1>3, <2>1 DEF Mirrors, IdleIds
  <2>4. /\ EndOf(D, Append(bufferedMsgs, m), Tail(stream), toPeer, e)
             = EndOf(D, bufferedMsgs, stream, toPeer, e)
        /\ (\A z \in T : D[<<z, m>>] = z) =>
             EndOf(D, bufferedMsgs, Tail(stream), toPeer, e)
               = EndOf(D, bufferedMsgs, stream, toPeer, e)
    BY <1>1, <2>1, EndKeeps
  <2> QED BY <2>2, <2>3, <2>4
<1>6. ASSUME NEW g \in {"extension", "bitfield", "unchoke", "choke"},
             bufferedMsgs' = bufferedMsgs, toPeer' = toPeer,
             stream' = stream \/ stream' = Append(stream, Msg(g, 0))
      PROVE  EndOf(D, bufferedMsgs', stream', toPeer', e)
               = EndOf(D, bufferedMsgs, stream, toPeer, e)
  <2>4. Msg(g, 0) \in Msgs /\ Msg(g, 0).id \in IdleIds
    BY DEF Msg, Msgs, IdleIds
  <2>2. Msg(g, 0) \in Msgs /\ \A z \in T : D[<<z, Msg(g, 0)>>] = z
    BY <2>4 DEF Mirrors
  <2>3. EndOf(D, bufferedMsgs, Append(stream, Msg(g, 0)), toPeer, e)
          = EndOf(D, bufferedMsgs, stream, toPeer, e)
    BY <1>1, <2>2, EndGreets
  <2> QED BY <1>6, <2>3
<1>8. ASSUME NEW g \in greetings, PeerGreets(g)
      PROVE  EndOf(D, bufferedMsgs', stream', toPeer', e)
               = EndOf(D, bufferedMsgs, stream, toPeer, e)
  <2>1. /\ bufferedMsgs' = bufferedMsgs /\ toPeer' = toPeer
        /\ stream' = stream \/ stream' = Append(stream, Msg(g, 0))
    BY <1>8 DEF PeerGreets, clientVars
  <2>2. g \in {"extension", "bitfield", "unchoke", "choke"}
    BY DEF SyncTypeOK
  <2> QED BY <1>6, <2>1, <2>2
<1>9. CASE PeerChokes
  <2>1. /\ bufferedMsgs' = bufferedMsgs /\ toPeer' = toPeer
        /\ \E g \in {"unchoke", "choke"} : stream' = Append(stream, Msg(g, 0))
    BY <1>9 DEF PeerChokes, clientVars
  <2> QED BY <1>6, <2>1
<1>10. ~PeerAstray
  <2>1. toPeer # <<>> => Head(toPeer) \in ToPeer
    BY <1>1, HeadTailProperties
  <2>2. toPeer # <<>> => Head(toPeer).id # "noise"
    BY <2>1 DEF ToPeer
  <2> QED BY <2>2 DEF PeerAstray
<1>7. CASE PeerAnswers
  <2> DEFINE m == Head(toPeer)
  <2>1. toPeer # <<>> /\ m \in ToPeer
    BY <1>1, <1>7, HeadTailProperties DEF PeerAnswers
  <2>2. /\ bufferedMsgs' = bufferedMsgs /\ toPeer' = Tail(toPeer)
        /\ \/ /\ m.id = "metadata"
              /\ \E id \in {"data", "reject"} : stream' = Append(stream, Msg(id, m.n))
           \/ m.id = "interested" /\ (stream' = stream \/ stream' = Append(stream, Msg("unchoke", 0)))
           \/ m.id = "request" /\ stream' = Append(stream, Msg("piece", m.n))
    <3>1. spoilt = {} /\ spoilt' = {}
      BY DEF SyncTypeOK
    <3> QED BY <1>7, <3>1 DEF PeerAnswers, clientVars
  <2>3. m \in Msgs /\ m.n \in Nat
    BY <1>3, <2>1
  <2>4. /\ \A a \in Msgs : (\A z \in T : D[<<z, a>>] = D[<<z, m>>]) =>
             EndOf(D, bufferedMsgs, Append(stream, a), Tail(toPeer), e)
               = EndOf(D, bufferedMsgs, stream, toPeer, e)
        /\ (\A z \in T : D[<<z, m>>] = z) =>
             EndOf(D, bufferedMsgs, stream, Tail(toPeer), e)
               = EndOf(D, bufferedMsgs, stream, toPeer, e)
    BY <1>1, <2>1, EndAnswers
  <2>5. CASE m.id = "metadata"
    <3>1. PICK id \in {"data", "reject"} : stream' = Append(stream, Msg(id, m.n))
      BY <2>2, <2>5
    <3>3. Msg(id, m.n) \in Msgs /\ Answer(m, Msg(id, m.n))
      BY <1>2, <2>3, <2>5 DEF Answer
    <3>2. \A z \in T : D[<<z, Msg(id, m.n)>>] = D[<<z, m>>]
      BY <2>3, <3>3 DEF Mirrors
    <3> QED BY <2>2, <2>4, <3>1, <3>2, <3>3
  <2>6. CASE m.id = "interested"
    <3>2. Msg("unchoke", 0) \in Msgs /\ Msg("unchoke", 0).id \in IdleIds /\ m.id \in IdleIds
      BY <1>2, <2>6 DEF IdleIds
    <3>1. \A z \in T : D[<<z, m>>] = z /\ D[<<z, Msg("unchoke", 0)>>] = z
      BY <2>3, <3>2 DEF Mirrors
    <3> QED BY <2>2, <2>4, <2>6, <3>1, <3>2
  <2>7. CASE m.id = "request"
    <3>2. Msg("piece", m.n) \in Msgs /\ Answer(m, Msg("piece", m.n))
      BY <1>2, <2>3, <2>7 DEF Answer
    <3>1. \A z \in T : D[<<z, Msg("piece", m.n)>>] = D[<<z, m>>]
      BY <2>3, <3>2 DEF Mirrors
    <3> QED BY <2>2, <2>4, <2>7, <3>1, <3>2
  <2> QED BY <2>2, <2>5, <2>6, <2>7
<1> QED BY <1>4, <1>5, <1>7, <1>8, <1>9, <1>10 DEF Peer

\* The types of the connection are kept, whatever happens to it.
LEMMA ConnTypes == ASSUME ConnTypeOK, [SyncStep]_syncVars PROVE ConnTypeOK'
<1> USE SyncAssumption
<1>1. \A s \in Seq(FromPeer), m \in FromPeer : Append(s, m) \in Seq(FromPeer) /\ Append(s, m) # <<>>
  BY AppendProperties
<1>2. /\ \A s \in Seq(ToPeer), m \in ToPeer : Append(s, m) \in Seq(ToPeer)
      /\ \A s \in Seq(Sent), m \in Sent : Append(s, m) \in Seq(Sent)
      /\ ToPeer \subseteq Sent
  BY AppendProperties DEF Sent
<1>3. \A s \in Seq(Sent) : s # <<>> => Head(s) \in Sent /\ Tail(s) \in Seq(Sent)
  BY HeadTailProperties
<1>4. \A s \in Seq(ToPeer) : s # <<>> => Head(s) \in ToPeer /\ Tail(s) \in Seq(ToPeer)
  BY HeadTailProperties
<1>5. \A m \in Sent : m.n \in Nat
  BY DEF Sent, ToPeer, Msg
<1>6. CASE UNCHANGED syncVars
  BY <1>6 DEF ConnTypeOK, syncVars, clientVars, peerVars
\* A step of the peer adds at most one message to the stream and takes some off
\* what it has been sent.
<1>7. ASSUME UNCHANGED <<clientVars, offers>>,
             \/ stream' = stream
             \/ \E id \in {"extension", "bitfield", "unchoke", "choke", "data", "reject", "piece"},
                   n \in Nat : stream' = Append(stream, Msg(id, n)),
             toPeer' \in Seq(Sent), "write" \notin spoilt => toPeer' \in Seq(ToPeer),
             spoilt' \in {spoilt, spoilt \cup {"dropped"}},
             greetings' \subseteq greetings, unchoked' \in {unchoked, "early", "yes", "choked"}
      PROVE  ConnTypeOK'
  <2>1. stream' \in Seq(FromPeer) /\ (stream # <<>> => stream' # <<>>)
    BY <1>1, <1>7, Written DEF ConnTypeOK
  <2>2. /\ spoilt' \subseteq {"torn", "dropped", "write"} /\ ("torn" \in spoilt => "torn" \in spoilt')
        /\ "write" \notin spoilt' => "write" \notin spoilt
    BY <1>7 DEF ConnTypeOK
  <2> QED BY <1>7, <2>1, <2>2 DEF ConnTypeOK, clientVars
<1>8. CASE PeerAnswers
  <2>1. toPeer \in Seq(Sent) /\ ("write" \notin spoilt => toPeer \in Seq(ToPeer))
    BY DEF ConnTypeOK
  <2>2. toPeer # <<>> /\ toPeer' = Tail(toPeer) /\ UNCHANGED <<clientVars, greetings, offers>>
    BY <1>8 DEF PeerAnswers
  <2>3. Head(toPeer).n \in Nat
    BY <1>3, <1>5, <2>1, <2>2
  <2>4. /\ stream' = stream \/ \E id \in {"data", "reject", "piece", "unchoke"}, n \in Nat :
                                  stream' = Append(stream, Msg(id, n))
        /\ unchoked' \in {unchoked, "yes"} /\ spoilt' \in {spoilt, spoilt \cup {"dropped"}}
    BY <1>8, <2>3 DEF PeerAnswers
  <2>5. toPeer' \in Seq(Sent) /\ ("write" \notin spoilt => toPeer' \in Seq(ToPeer))
    BY <1>3, <1>4, <2>1, <2>2
  <2> QED BY <1>7, <2>2, <2>4, <2>5
<1>9. CASE PeerAstray
  <2>1. toPeer \in Seq(Sent) /\ ("write" \notin spoilt => toPeer \in Seq(ToPeer))
    BY DEF ConnTypeOK
  <2>2. PICK k \in 2 .. Len(toPeer) + 1 : toPeer' = SubSeq(toPeer, k, Len(toPeer))
    BY <1>9 DEF PeerAstray
  <2>3. Len(toPeer) \in Nat
    BY <2>1, LenProperties
  <2>4. k \in Nat \ {0} /\ Len(toPeer) \in 0 .. Len(toPeer)
    BY <2>3
  <2>5. toPeer' \in Seq(Sent) /\ ("write" \notin spoilt => toPeer' \in Seq(ToPeer))
    BY <2>1, <2>2, <2>4, PartOf
  <2>6. Foreign \in Nat
    BY DEF Foreign
  <2>7. /\ UNCHANGED <<clientVars, spoilt, greetings, offers, unchoked>>
        /\ stream' = stream \/ stream' = Append(stream, Msg("piece", Foreign))
    BY <1>9 DEF PeerAstray
  <2> QED BY <1>7, <2>5, <2>6, <2>7
<1>10. CASE PeerChokes
  <2>1. /\ UNCHANGED <<clientVars, spoilt, toPeer, offers>> /\ greetings' \subseteq greetings
        /\ \E id \in {"choke", "unchoke"} : stream' = Append(stream, Msg(id, 0))
        /\ unchoked' \in {"early", "choked"}
    BY <1>10 DEF PeerChokes
  <2>2. toPeer' \in Seq(Sent) /\ ("write" \notin spoilt => toPeer' \in Seq(ToPeer))
    BY <2>1 DEF ConnTypeOK
  <2> QED BY <1>7, <2>1, <2>2
<1>11. ASSUME NEW g \in greetings, PeerGreets(g) PROVE ConnTypeOK'
  <2>1. g \in {"extension", "bitfield", "unchoke", "choke"}
    BY DEF ConnTypeOK
  <2>2. /\ UNCHANGED <<clientVars, spoilt, toPeer, offers>> /\ greetings' \subseteq greetings
        /\ stream' = stream \/ stream' = Append(stream, Msg(g, 0))
        /\ unchoked' \in {unchoked, "early"}
    BY <1>11 DEF PeerGreets
  <2>3. toPeer' \in Seq(Sent) /\ ("write" \notin spoilt => toPeer' \in Seq(ToPeer))
    BY <2>2 DEF ConnTypeOK
  <2> QED BY <1>7, <2>1, <2>2, <2>3
<1>12. CASE NewClientReads
  <2>1. stream \in Seq(FromPeer) /\ stream # <<>> /\ phase = "init" /\ ~torn
    BY <1>12 DEF ConnTypeOK, NewClientReads
  <2>2. Head(stream) \in FromPeer /\ Tail(stream) \in Seq(FromPeer)
    BY <2>1, HeadTailProperties
  <2>3. bufferedMsgs' \in Seq(FromPeer) /\ stream' \in Seq(FromPeer)
    BY <1>1, <1>12, <2>2 DEF NewClientReads, ConnTypeOK
  <2>4. metadataExtId' \in BOOLEAN
    BY <1>12 DEF NewClientReads, ConnTypeOK
  <2>5. UNCHANGED <<phase, metadata, attempt, received, got, torn, mismatch, spoilt, toPeer,
                    greetings, offers, unchoked>>
    BY <1>12 DEF NewClientReads
  <2> QED BY <2>1, <2>3, <2>4, <2>5 DEF ConnTypeOK
<1>13. CASE Connects \/ SetupKnows
  <2>1. /\ \/ phase = "none" /\ phase' = "init"
           \/ phase = "setup" /\ phase' = "ready"
        /\ UNCHANGED <<metadataExtId, bufferedMsgs, metadata, attempt, received, got, torn,
                       mismatch, spoilt, toPeer, stream, greetings, offers, unchoked>>
    BY <1>13 DEF Connects, SetupKnows, peerVars
  <2>2. phase \in Early /\ phase' \in Unasked /\ (phase' \in {"none", "init"} => phase = "none")
    BY <2>1 DEF Unasked, Early
  <2>3. Len(metadata') <= MetaPieces /\ Len(metadata') < MetaPieces
    BY <2>1, <2>2 DEF ConnTypeOK
  <2>4. phase' \in {"none", "init"} => ~torn'
    BY <2>1, <2>2 DEF ConnTypeOK
  <2> QED BY <2>1, <2>2, <2>3, <2>4 DEF ConnTypeOK
<1>14. CASE NewClientReturns
  <2>1. /\ stream' \in Seq(FromPeer) /\ torn' \in BOOLEAN
        /\ torn' => stream' # <<>> /\ "torn" \in spoilt'
        /\ spoilt' \in {spoilt, spoilt \cup {"torn"}}
    BY <1>14, InterruptedAny DEF NewClientReturns
  <2>2. spoilt' \subseteq {"torn", "dropped", "write"} /\ ("write" \notin spoilt' => "write" \notin spoilt)
    BY <2>1 DEF ConnTypeOK
  <2>3. /\ phase = "init" /\ phase' = "setup"
        /\ UNCHANGED <<metadataExtId, bufferedMsgs, metadata, attempt, received, got,
                       mismatch, toPeer, greetings, offers, unchoked>>
    BY <1>14 DEF NewClientReturns
  <2> QED BY <2>1, <2>2, <2>3 DEF ConnTypeOK, Unasked, Early
<1>15. CASE GivesUp
  <2>1. PICK phases, how : how \in {"failed", "panicked"} /\ Ends(phases, how)
    BY <1>15 DEF GivesUp
  <2>2. <<>> \in Seq(FromPeer) /\ <<>> \in Seq(Sent) /\ <<>> \in Seq(ToPeer)
    BY EmptySeq
  <2>3. "failed" \notin Early /\ "panicked" \notin Early
    BY DEF Early
  <2> QED BY <2>1, <2>2, <2>3 DEF Ends, ConnTypeOK, Over
<1>16. CASE FetchMetadata
  <2>1. Msg("metadata", 0) \in ToPeer
    BY Written
  <2>2. toPeer' \in Seq(Sent) /\ ("write" \notin spoilt => toPeer' \in Seq(ToPeer))
    BY <1>2, <1>16, <2>1 DEF FetchMetadata, ConnTypeOK
  <2> QED BY <1>16, <2>2 DEF FetchMetadata, ConnTypeOK, Unasked, Early
\* A read, and what is done with the message.
<1>17. ASSUME NEW msg, Reads(msg), UNCHANGED <<spoilt, greetings, offers, unchoked>>,
              phase' \in Unasked \cup Over \cup {"request", "piece"},
              phase' \notin {"none", "init"},
              metadataExtId' \in BOOLEAN, mismatch' \subseteq {"metadata", "piece"},
              toPeer' \in Seq(Sent), "write" \notin spoilt => toPeer' \in Seq(ToPeer),
              metadata' \in Seq(Nat), Len(metadata') <= MetaPieces,
              phase' \in Early \cup {"metadata"} => Len(metadata') < MetaPieces,
              attempt' = attempt, received' \in 0 .. Blocks - 1, got' \subseteq 1 .. Blocks
       PROVE  ConnTypeOK'
  <2>1. /\ bufferedMsgs' \in Seq(FromPeer) /\ stream' \in Seq(FromPeer)
        /\ torn' \in BOOLEAN /\ (torn' => stream' # <<>> /\ "torn" \in spoilt)
    BY <1>17, ReadsAny
  <2> QED BY <1>17, <2>1 DEF ConnTypeOK
<1>18. ASSUME NEW msg, SetupReads(msg) PROVE ConnTypeOK'
  <2>1. /\ Reads(msg) /\ phase' \in {"setup", "ready", "failed"} /\ metadataExtId' \in BOOLEAN
        /\ phase = "setup"
        /\ UNCHANGED <<metadata, attempt, received, got, mismatch, spoilt, toPeer, greetings,
                       offers, unchoked>>
    BY <1>18 DEF SetupReads, ConnTypeOK
  <2>2. /\ mismatch' \subseteq {"metadata", "piece"} /\ toPeer' \in Seq(Sent)
        /\ "write" \notin spoilt => toPeer' \in Seq(ToPeer)
        /\ metadata' \in Seq(Nat) /\ Len(metadata') <= MetaPieces /\ Len(metadata') < MetaPieces
        /\ received' \in 0 .. Blocks - 1 /\ got' \subseteq 1 .. Blocks
    BY <2>1 DEF ConnTypeOK, Early
  <2>3. phase' \in Unasked \cup Over /\ phase' \notin {"none", "init"}
    BY <2>1 DEF Unasked, Early, Over
  <2> QED BY <1>17, <2>1, <2>2, <2>3
<1>19. ASSUME NEW msg, MetadataReads(msg) PROVE ConnTypeOK'
  <2>1. /\ Reads(msg) /\ phase = "metadata"
        /\ UNCHANGED <<metadataExtId, attempt, received, got, spoilt, greetings, offers, unchoked>>
    BY <1>19 DEF MetadataReads
  <2>2. msg.n \in Nat /\ metadata \in Seq(Nat) /\ Len(metadata) \in Nat /\ Len(metadata) < MetaPieces
    BY <2>1, ReadsAny, LenProperties DEF ConnTypeOK
  <2>3. /\ metadata' \in Seq(Nat) /\ Len(metadata') \in Nat /\ Len(metadata') <= MetaPieces
    <3>1. metadata' = metadata \/ metadata' = Append(metadata, msg.n)
      BY <1>19 DEF MetadataReads
    <3>2. /\ Append(metadata, msg.n) \in Seq(Nat)
          /\ Len(Append(metadata, msg.n)) = Len(metadata) + 1
      BY <2>2, AppendProperties
    <3> QED BY <2>2, <3>1, <3>2
  <2>4. /\ mismatch' \subseteq {"metadata", "piece"} /\ phase' \in {"failed", "unchoke", "metadata"}
        /\ phase' = "metadata" => Len(metadata') # MetaPieces
    BY <1>19 DEF MetadataReads, ConnTypeOK
  <2>5. /\ Msg("interested", 0) \in ToPeer /\ Msg("metadata", Len(metadata')) \in ToPeer
        /\ toPeer \in Seq(Sent) /\ ("write" \notin spoilt => toPeer \in Seq(ToPeer))
    BY <2>3, Written DEF ConnTypeOK
  <2>6. toPeer' \in {toPeer, Append(toPeer, Msg("interested", 0)),
                     Append(toPeer, Msg("metadata", Len(metadata')))}
    BY <1>19 DEF MetadataReads
  <2>7. toPeer' \in Seq(Sent) /\ ("write" \notin spoilt => toPeer' \in Seq(ToPeer))
    BY <1>2, <2>5, <2>6
  <2>8. /\ metadataExtId' \in BOOLEAN /\ received' \in 0 .. Blocks - 1 /\ got' \subseteq 1 .. Blocks
    BY <2>1 DEF ConnTypeOK
  <2>9. phase' \in Unasked \cup Over /\ phase' \notin {"none", "init"} \cup Early
    BY <2>4 DEF Unasked, Early, Over
  <2>10. phase' \in Early \cup {"metadata"} => Len(metadata') < MetaPieces
    BY <2>3, <2>4, <2>9
  <2> QED BY <1>17, <2>1, <2>3, <2>4, <2>7, <2>8, <2>9, <2>10
<1>20. ASSUME NEW msg, WaitForUnchoke(msg) \/ DownloadPieceReads(msg) PROVE ConnTypeOK'
  <2>1. /\ Reads(msg) /\ phase \in {"unchoke", "piece"}
        /\ UNCHANGED <<metadataExtId, metadata, attempt, spoilt, toPeer, greetings, offers, unchoked>>
    BY <1>20 DEF WaitForUnchoke, DownloadPieceReads
  <2>2. phase' \in {"unchoke", "request", "piece", "done"}
    BY <1>20 DEF WaitForUnchoke, DownloadPieceReads
  <2>3. phase' \in Unasked \cup Over \cup {"request", "piece"} /\ phase' \notin Early \cup {"metadata"}
    BY <2>2 DEF Unasked, Early, Over
  <2>4. phase' \notin {"none", "init"}
    BY <2>2
  <2>5. /\ toPeer' \in Seq(Sent) /\ ("write" \notin spoilt => toPeer' \in Seq(ToPeer))
        /\ metadataExtId' \in BOOLEAN /\ metadata' \in Seq(Nat) /\ Len(metadata') <= MetaPieces
        /\ received \in 0 .. Blocks - 1 /\ got \subseteq 1 .. Blocks
        /\ mismatch \subseteq {"metadata", "piece"}
    BY <2>1 DEF ConnTypeOK
  <2>6. \A blocks \in Copied(msg) : blocks \subseteq 1 .. Blocks
    BY <2>5 DEF Copied
  <2>7. \/ UNCHANGED <<received, got, mismatch>>
        \/ \E blocks \in Copied(msg) :
              \/ /\ received + 1 < Blocks /\ received' = received + 1 /\ got' = blocks
                 /\ mismatch' = mismatch
              \/ /\ received' = 0 /\ got' = {}
                 /\ mismatch' \in {mismatch, mismatch \cup {"piece"}}
    BY <1>20 DEF WaitForUnchoke, DownloadPieceReads
  <2>8. /\ received' \in 0 .. Blocks - 1 /\ got' \subseteq 1 .. Blocks
        /\ mismatch' \subseteq {"metadata", "piece"}
    <3>0. Blocks \in Nat \ {0}
      BY SyncAssumption
    <3>1. CASE UNCHANGED <<received, got, mismatch>>
      BY <2>5, <3>1
    <3>2. CASE \E blocks \in Copied(msg) :
                  /\ received + 1 < Blocks /\ received' = received + 1 /\ got' = blocks
                  /\ mismatch' = mismatch
      BY <2>5, <2>6, <3>0, <3>2
    <3>3. CASE /\ received' = 0 /\ got' = {}
               /\ mismatch' \in {mismatch, mismatch \cup {"piece"}}
      BY <2>5, <3>0, <3>3
    <3> QED BY <2>7, <3>1, <3>2, <3>3
  <2> QED BY <1>17, <2>1, <2>3, <2>4, <2>5, <2>8
<1>21. CASE RequestBlocks
  <2>1. /\ phase = "request" /\ phase' \in {"failed", "piece", "request"}
        /\ UNCHANGED <<metadataExtId, bufferedMsgs, metadata, received, got, torn, mismatch,
                       stream, greetings, offers, unchoked>>
    BY <1>21 DEF RequestBlocks
  <2>2. phase' \in Over \cup {"request", "piece"} /\ phase' \notin Early \cup {"metadata", "none", "init"}
    BY <2>1 DEF Over, Early
  <2>3. attempt' \in 0 .. MaxAttempts
    BY <1>21 DEF RequestBlocks, ConnTypeOK
  <2>4. toPeer \in Seq(Sent) /\ ("write" \notin spoilt => toPeer \in Seq(ToPeer))
    BY DEF ConnTypeOK
  <2>5. Requests \in Seq(Sent) /\ Requests \in Seq(ToPeer) /\ Len(Requests) = Blocks
    <3>1. Requests \in Seq(ToPeer) /\ Len(Requests) = Blocks
      BY Written
    <3>2. Requests \in [1 .. Blocks -> Sent]
      BY <1>2, <3>1, LenProperties
    <3> QED BY <3>1, <3>2, SeqDef
  <2>6. CASE spoilt' = spoilt /\ toPeer' \in {toPeer, toPeer \o Requests}
    <3>1. toPeer' \in Seq(Sent) /\ ("write" \notin spoilt => toPeer' \in Seq(ToPeer))
      <4>1. toPeer \o Requests \in Seq(Sent)
        BY <2>4, <2>5, ConcatProperties
      <4>2. "write" \notin spoilt => toPeer \o Requests \in Seq(ToPeer)
        BY <2>4, <2>5, ConcatProperties
      <4> QED BY <2>4, <2>6, <4>1, <4>2
    <3> QED BY <2>1, <2>2, <2>3, <2>6, <3>1 DEF ConnTypeOK
  <2>7. CASE /\ \E k \in 0 .. Blocks - 1, part \in {<<>>, <<Msg("noise", 0)>>} :
                    toPeer' = toPeer \o SubSeq(Requests, 1, k) \o part
             /\ spoilt' = spoilt \cup {"write"}
    <3>1. PICK k \in 0 .. Blocks - 1, part \in {<<>>, <<Msg("noise", 0)>>} :
                    toPeer' = toPeer \o SubSeq(Requests, 1, k) \o part
      BY <2>7
    <3>2. k \in 0 .. Len(Requests) /\ 1 \in Nat \ {0}
      BY <2>5
    <3>3. SubSeq(Requests, 1, k) \in Seq(Sent)
      BY <2>5, <3>2, PartOf
    <3>4. part \in Seq(Sent)
      <4>1. Msg("noise", 0) \in Sent /\ <<>> \in Seq(Sent)
        BY EmptySeq DEF Sent
      <4>2. <<Msg("noise", 0)>> = Append(<<>>, Msg("noise", 0))
        OBVIOUS
      <4>3. <<Msg("noise", 0)>> \in Seq(Sent)
        BY <4>1, <4>2, AppendProperties
      <4> QED BY <4>1, <4>3
    <3>5. toPeer \o SubSeq(Requests, 1, k) \in Seq(Sent)
      BY <2>4, <3>3, ConcatProperties
    <3>6. toPeer' \in Seq(Sent)
      BY <3>1, <3>4, <3>5, ConcatProperties
    <3>7. /\ spoilt' \subseteq {"torn", "dropped", "write"} /\ "write" \in spoilt'
          /\ "torn" \in spoilt => "torn" \in spoilt'
      BY <2>7 DEF ConnTypeOK
    <3> QED BY <2>1, <2>2, <2>3, <3>6, <3>7 DEF ConnTypeOK
  <2> QED BY <1>21, <2>6, <2>7 DEF RequestBlocks
<1>22. CASE DownloadPieceTimesOut
  <2>1. /\ stream' \in Seq(FromPeer) /\ torn' \in BOOLEAN
        /\ torn' => stream' # <<>> /\ "torn" \in spoilt'
        /\ spoilt' \in {spoilt, spoilt \cup {"torn"}}
    BY <1>22, InterruptedAny DEF DownloadPieceTimesOut
  <2>2. spoilt' \subseteq {"torn", "dropped", "write"} /\ ("write" \notin spoilt' => "write" \notin spoilt)
    BY <2>1 DEF ConnTypeOK
  <2>3. /\ phase' = "request" /\ received' = 0 /\ got' = {}
        /\ UNCHANGED <<metadataExtId, bufferedMsgs, metadata, attempt, mismatch, toPeer,
                       greetings, offers, unchoked>>
    BY <1>22 DEF DownloadPieceTimesOut
  <2>4. "request" \notin Early \cup {"metadata"} /\ 0 \in 0 .. Blocks - 1
    BY DEF Early
  <2> QED BY <2>1, <2>2, <2>3, <2>4 DEF ConnTypeOK
<1> QED BY <1>6, <1>8, <1>9, <1>10, <1>11, <1>12, <1>13, <1>14, <1>15, <1>16, <1>18, <1>19, <1>20,
           <1>21, <1>22 DEF SyncStep, Peer

\* What has gone wrong stays so.
LEMMA SpoiltStays == ASSUME [SyncStep]_syncVars PROVE spoilt \subseteq spoilt'
<1>1. CASE Peer \/ UNCHANGED syncVars
  BY <1>1 DEF Peer, PeerAnswers, PeerAstray, PeerChokes, PeerGreets, syncVars
<1>2. CASE NewClientReturns \/ DownloadPieceTimesOut
  BY <1>2 DEF NewClientReturns, DownloadPieceTimesOut, Interrupted
<1>3. CASE ~Peer /\ ~NewClientReturns /\ ~DownloadPieceTimesOut /\ SyncStep
  BY <1>3 DEF SyncStep, Connects, NewClientReads, SetupKnows, SetupReads, MetadataReads,
        WaitForUnchoke, DownloadPieceReads, FetchMetadata, RequestBlocks, GivesUp, Ends
<1> QED BY <1>1, <1>2, <1>3

----------------------------------------------------------------------------
(* The metadata comes piece by piece *)

\* The piece of metadata that comes next, or -1 once one has come out of turn.
MetaNext ==
    [x \in Int \X Msgs |->
        IF x[2].id \notin {"metadata", "data", "reject"} THEN x[1]
        ELSE IF x[1] = x[2].n THEN x[1] + 1 ELSE -1]

MetaEnd(e) == EndOf(MetaNext, bufferedMsgs, stream, toPeer, e)

MetaInv ==
    /\ Len(metadata) <= MetaPieces
    /\ \A i \in 1 .. Len(metadata) : metadata[i] = i - 1
    /\ phase \in Early => Len(metadata) = 0 /\ MetaEnd(0) = 0
    /\ phase = "metadata" => /\ Len(metadata) < MetaPieces
                             /\ MetaEnd(Len(metadata)) = Len(metadata) + 1

\* It reads requests and answers alike, in order only.
LEMMA MetaNextReads ==
    /\ Automaton(MetaNext, Int, Msgs) /\ Mirrors(MetaNext, Int)
    /\ \A z \in Int, m \in Msgs :
          MetaNext[<<z, m>>] = IF m.id \notin {"metadata", "data", "reject"} THEN z
                               ELSE IF z = m.n THEN z + 1 ELSE -1
<1>1. \A m \in Msgs : m.n \in Nat
  BY DEF Msgs
<1>2. \A z \in Int, m \in Msgs :
          MetaNext[<<z, m>>] = IF m.id \notin {"metadata", "data", "reject"} THEN z
                               ELSE IF z = m.n THEN z + 1 ELSE -1
  BY DEF MetaNext
<1>3. Automaton(MetaNext, Int, Msgs)
  BY DEF Automaton, MetaNext
<1>4. ASSUME NEW z \in Int, NEW m \in Msgs
      PROVE  /\ m.id \in IdleIds => MetaNext[<<z, m>>] = z
             /\ \A a \in Msgs : Answer(m, a) => MetaNext[<<z, a>>] = MetaNext[<<z, m>>]
  <2>1. m.id \in IdleIds => MetaNext[<<z, m>>] = z
    BY <1>2 DEF IdleIds
  <2>2. ASSUME NEW a \in Msgs, Answer(m, a)
        PROVE  MetaNext[<<z, a>>] = MetaNext[<<z, m>>]
    <3>1. a.n = m.n /\ (m.id \in {"metadata", "data", "reject"} <=> a.id \in {"metadata", "data", "reject"})
      BY <2>2 DEF Answer
    <3> QED BY <1>2, <3>1
  <2> QED BY <2>1, <2>2
<1>5. Mirrors(MetaNext, Int)
  BY <1>4 DEF Mirrors
<1> QED BY <1>2, <1>3, <1>5

\* A piece out of turn is never made good, and the next piece only grows.
LEMMA MetaOrder ==
    ASSUME NEW b \in Seq(Msgs), NEW s \in Seq(Msgs), NEW t \in Seq(Msgs), NEW k \in Nat
    PROVE  /\ EndOf(MetaNext, b, s, t, -1) = -1
           /\ EndOf(MetaNext, b, s, t, k) = -1 \/ EndOf(MetaNext, b, s, t, k) >= k
<1>1. Automaton(MetaNext, Int, Msgs)
  BY MetaNextReads
<1>2. \A m \in Msgs : m.n \in Nat
  BY DEF Msgs
<1>3. EndOf(MetaNext, b, s, t, -1) \in {-1}
  <2>1. -1 \in {-1} \cap Int
    OBVIOUS
  <2>2. \A z \in {-1} \cap Int, m \in Msgs : MetaNext[<<z, m>>] \in {-1}
    BY <1>2, MetaNextReads
  <2>3. EndOf(MetaNext, b, s, t, -1) \in {-1} \cap Int
    BY <1>1, <2>1, <2>2, EndWithin
  <2> QED BY <2>3
<1>4. EndOf(MetaNext, b, s, t, k) \in {z \in Int : z = -1 \/ z >= k}
  <2> DEFINE Z == {z \in Int : z = -1 \/ z >= k}
  <2>1. k \in Z \cap Int
    OBVIOUS
  <2>2. ASSUME NEW z \in Z \cap Int, NEW m \in Msgs PROVE MetaNext[<<z, m>>] \in Z
    <3>1. m.n \in Nat /\ z \in Int /\ (z = -1 \/ z >= k)
      BY <1>2
    <3>2. MetaNext[<<z, m>>] = z \/ (z = m.n /\ MetaNext[<<z, m>>] = z + 1)
          \/ MetaNext[<<z, m>>] = -1
      BY <3>1, MetaNextReads
    <3> QED BY <3>1, <3>2
  <2> HIDE DEF Z
  <2>3. EndOf(MetaNext, b, s, t, k) \in Z \cap Int
    BY <1>1, <2>1, <2>2, EndWithin
  <2> QED BY <2>3 DEF Z
<1> QED BY <1>3, <1>4

\* The message that is read is no piece of metadata when none is on its way, and
\* the one that was asked for when one is.
LEMMA MetaRead ==
    ASSUME SyncTypeOK, NEW msg, Reads(msg), NEW k \in Nat
    PROVE  /\ MetaEnd(k) = k =>
                /\ msg.id \notin {"data", "reject"}
                /\ EndOf(MetaNext, bufferedMsgs', stream', toPeer, k) = k
           /\ MetaEnd(k) = k + 1 =>
                IF msg.id \in {"data", "reject"}
                THEN msg.n = k
                     /\ EndOf(MetaNext, bufferedMsgs', stream', toPeer, k + 1) = k + 1
                ELSE EndOf(MetaNext, bufferedMsgs', stream', toPeer, k) = k + 1
<1>1. msg \in FromPeer /\ bufferedMsgs' \in Seq(FromPeer) /\ stream' \in Seq(FromPeer)
  BY ReadsOne
<1>2. msg \in Msgs /\ msg.n \in Nat /\ msg.id # "metadata"
  BY <1>1 DEF FromPeer, Msgs
<1>3. bufferedMsgs' \in Seq(Msgs) /\ stream' \in Seq(Msgs) /\ toPeer \in Seq(Msgs)
  BY <1>1, Carried DEF SyncTypeOK
<1> DEFINE next == MetaNext[<<k, msg>>]
           Rest(x) == EndOf(MetaNext, bufferedMsgs', stream', toPeer, x)
<1>4. MetaEnd(k) = Rest(next)
  <2>1. Automaton(MetaNext, Int, Msgs) /\ k \in Int
    BY MetaNextReads
  <2> QED BY <2>1, ReadsEnd DEF MetaEnd
<1>5. next = IF msg.id \notin {"data", "reject"} THEN k
             ELSE IF k = msg.n THEN k + 1 ELSE -1
  <2>1. k \in Int
    OBVIOUS
  <2> QED BY <1>2, <2>1, MetaNextReads
<1>6. Rest(-1) = -1 /\ (Rest(k + 1) = -1 \/ Rest(k + 1) >= k + 1)
  BY <1>3, MetaOrder
<1> HIDE DEF next, Rest
<1>7. CASE msg.id \notin {"data", "reject"}
  BY <1>4, <1>5, <1>7 DEF Rest
<1>8. CASE msg.id \in {"data", "reject"} /\ k = msg.n
  BY <1>4, <1>5, <1>6, <1>8 DEF Rest
<1>9. CASE msg.id \in {"data", "reject"} /\ k # msg.n
  BY <1>4, <1>5, <1>6, <1>9 DEF Rest
<1> QED BY <1>7, <1>8, <1>9

\* No step brings the pieces out of order, and the hash of the whole agrees.
LEMMA MetaStep ==
    ASSUME SyncTypeOK, SyncTypeOK', MetaInv, [SyncStep]_syncVars
    PROVE  MetaInv' /\ (phase = "metadata" => mismatch' = mismatch)
<1> DEFINE L == Len(metadata)
<1>0. metadata \in Seq(Nat) /\ L \in Nat /\ MetaPieces \in Nat \ {0}
  BY LenProperties, SyncAssumption DEF SyncTypeOK
<1>1. ASSUME Peer \/ NewClientReads \/ UNCHANGED <<bufferedMsgs, stream, toPeer>>,
             NEW e \in Int
      PROVE  MetaEnd(e)' = EndOf(MetaNext, bufferedMsgs, stream, toPeer, e)
  <2>1. spoilt' = {}
    BY DEF SyncTypeOK
  <2> QED BY <1>1, <2>1, IdleEnd, MetaNextReads DEF MetaEnd
<1>2. ASSUME UNCHANGED <<phase, metadata>>,
             Peer \/ NewClientReads \/ UNCHANGED <<bufferedMsgs, stream, toPeer>>
      PROVE  MetaInv'
  <2>1. MetaEnd(0)' = MetaEnd(0) /\ MetaEnd(L)' = MetaEnd(L)
    BY <1>0, <1>1, <1>2 DEF MetaEnd
  <2> QED BY <1>2, <2>1 DEF MetaInv
<1>3. ASSUME UNCHANGED metadata, phase' \notin Early \cup {"metadata"} PROVE MetaInv'
  BY <1>3 DEF MetaInv
<1>4. CASE UNCHANGED syncVars \/ Peer \/ NewClientReads
  <2>1. UNCHANGED <<phase, metadata, mismatch>>
    BY <1>4 DEF syncVars, clientVars, Peer, PeerAnswers, PeerAstray, PeerChokes, PeerGreets,
                NewClientReads
  <2>2. Peer \/ NewClientReads \/ UNCHANGED <<bufferedMsgs, stream, toPeer>>
    BY <1>4 DEF syncVars, clientVars, peerVars
  <2> QED BY <1>2, <2>1, <2>2
<1>5. CASE Connects \/ NewClientReturns \/ SetupKnows
  <2>1. /\ phase \in Early /\ phase' \in Early /\ phase # "metadata"
        /\ metadata' = metadata
        /\ UNCHANGED <<bufferedMsgs, stream, toPeer>>
    BY <1>5 DEF Connects, NewClientReturns, SetupKnows, Early, peerVars, Interrupted, SyncTypeOK
  <2>2. MetaEnd(0)' = MetaEnd(0)
    BY <1>1, <2>1 DEF MetaEnd
  <2>3. phase' # "metadata"
    BY <2>1 DEF Early
  <2> QED BY <2>1, <2>2, <2>3 DEF MetaInv
<1>6. ASSUME NEW msg,
             \/ GivesUp \/ WaitForUnchoke(msg) \/ DownloadPieceReads(msg)
             \/ RequestBlocks \/ DownloadPieceTimesOut
      PROVE  MetaInv' /\ (phase = "metadata" => mismatch' = mismatch)
  <2>1. metadata' = metadata /\ (phase = "metadata" => mismatch' = mismatch)
    BY <1>6 DEF GivesUp, Ends, WaitForUnchoke, DownloadPieceReads, RequestBlocks,
                DownloadPieceTimesOut
  <2>2. phase' \in {"failed", "panicked", "unchoke", "request", "piece", "done"}
    BY <1>6 DEF GivesUp, Ends, WaitForUnchoke, DownloadPieceReads, RequestBlocks,
                DownloadPieceTimesOut
  <2>3. phase' \notin Early \cup {"metadata"}
    BY <2>2 DEF Early
  <2> QED BY <1>3, <2>1, <2>3
<1>7. ASSUME NEW msg, SetupReads(msg)
      PROVE  MetaInv' /\ (phase = "metadata" => mismatch' = mismatch)
  <2>1. /\ phase = "setup" /\ Reads(msg) /\ metadata' = metadata /\ toPeer' = toPeer
        /\ phase' \in {"setup", "ready", "failed"}
    BY <1>7 DEF SetupReads
  <2>2. L = 0 /\ MetaEnd(0) = 0
    BY <2>1 DEF MetaInv, Early
  <2>3. MetaEnd(0)' = 0
    BY <2>1, <2>2, MetaRead DEF MetaEnd
  <2> QED BY <2>1, <2>2, <2>3 DEF MetaInv, Early
<1>8. CASE FetchMetadata
  <2>1. /\ phase = "ready" /\ phase' = "metadata"
        /\ toPeer' = Append(toPeer, Msg("metadata", 0))
        /\ UNCHANGED <<metadata, bufferedMsgs, stream>>
    BY <1>8 DEF FetchMetadata
  <2>2. L = 0 /\ MetaEnd(0) = 0
    BY <2>1 DEF MetaInv, Early
  <2>3. bufferedMsgs \in Seq(Msgs) /\ stream \in Seq(Msgs) /\ toPeer \in Seq(Msgs)
    BY Carried DEF SyncTypeOK
  <2>4. Msg("metadata", 0) \in Msgs /\ MetaNext[<<0, Msg("metadata", 0)>>] = 1
    BY MetaNextReads DEF Msg, Msgs
  <2>5. EndOf(MetaNext, bufferedMsgs, stream, Append(toPeer, Msg("metadata", 0)), 0)
          = MetaNext[<<MetaEnd(0), Msg("metadata", 0)>>]
    BY <2>3, <2>4, EndAsks, MetaNextReads DEF MetaEnd
  <2>6. MetaEnd(0)' = 1
    BY <2>1, <2>2, <2>4, <2>5 DEF MetaEnd
  <2>7. "metadata" \notin Early
    BY DEF Early
  <2> QED BY <1>0, <2>1, <2>2, <2>6, <2>7 DEF MetaInv
<1>9. ASSUME NEW msg, MetadataReads(msg)
      PROVE  MetaInv' /\ (phase = "metadata" => mismatch' = mismatch)
  <2>1. /\ phase = "metadata" /\ Reads(msg) /\ L < MetaPieces /\ MetaEnd(L) = L + 1
        /\ \A i \in 1 .. L : metadata[i] = i - 1
    BY <1>9 DEF MetadataReads, MetaInv
  <2>2. msg \in FromPeer /\ bufferedMsgs' \in Seq(FromPeer) /\ stream' \in Seq(FromPeer)
    BY <2>1, ReadsOne
  <2>3. bufferedMsgs' \in Seq(Msgs) /\ stream' \in Seq(Msgs) /\ toPeer \in Seq(Msgs)
    BY <2>2, Carried DEF SyncTypeOK
  <2>4. IF msg.id \in {"data", "reject"}
        THEN msg.n = L
             /\ EndOf(MetaNext, bufferedMsgs', stream', toPeer, L + 1) = L + 1
        ELSE EndOf(MetaNext, bufferedMsgs', stream', toPeer, L) = L + 1
    BY <1>0, <2>1, MetaRead
  <2>5. "metadata" \notin Early /\ "unchoke" \notin Early /\ "failed" \notin Early
    BY DEF Early
  <2>6. CASE msg.id # "data"
    <3>1. metadata' = metadata /\ L # MetaPieces /\ mismatch' = mismatch
      BY <1>0, <1>9, <2>1, <2>6 DEF MetadataReads, SyncTypeOK
    <3>2. phase' = "failed" \/ (phase' = "metadata" /\ toPeer' = toPeer /\ msg.id # "reject")
      BY <1>9, <2>6, <3>1 DEF MetadataReads
    <3> QED BY <2>1, <2>4, <2>5, <2>6, <3>1, <3>2 DEF MetaInv, MetaEnd
  <2>7. CASE msg.id = "data"
    <3>1. metadata' = Append(metadata, L) /\ L + 1 \in Nat
      BY <1>0, <1>9, <2>4, <2>7 DEF MetadataReads
    <3>2. /\ metadata' \in Seq(Nat) /\ Len(metadata') = L + 1 /\ metadata'[L + 1] = L
          /\ \A i \in 1 .. L : metadata'[i] = metadata[i]
      BY <1>0, <3>1, AppendProperties
    <3>3. ASSUME NEW i \in 1 .. L + 1 PROVE metadata'[i] = i - 1
      <4>1. CASE i = L + 1
        BY <1>0, <3>2, <4>1
      <4>2. CASE i # L + 1
        <5>1. i \in 1 .. L
          BY <1>0, <4>2
        <5> QED BY <2>1, <3>2, <5>1
      <4> QED BY <4>1, <4>2
    <3>4. Len(metadata') = MetaPieces => metadata' = Whole
      <4>1. metadata' \in [1 .. L + 1 -> Nat]
        BY <3>2, LenProperties
      <4>2. L + 1 = MetaPieces => metadata' = [i \in 1 .. MetaPieces |-> i - 1]
        BY <1>0, <3>3, <4>1
      <4> QED BY <3>2, <4>2 DEF Whole
    <3>5. mismatch' = mismatch
      BY <1>9, <3>4 DEF MetadataReads, SyncTypeOK
    <3>6. \/ phase' = "failed"
          \/ phase' = "unchoke"
          \/ /\ phase' = "metadata" /\ Len(metadata') # MetaPieces
             /\ toPeer' = Append(toPeer, Msg("metadata", Len(metadata')))
      BY <1>9, <2>7 DEF MetadataReads
    <3>7. CASE phase' = "metadata"
      <4>1. L + 1 < MetaPieces
        BY <1>0, <2>1, <3>2, <3>6, <3>7
      <4> DEFINE m == Msg("metadata", L + 1)
                 rest == EndOf(MetaNext, bufferedMsgs', stream', toPeer, L + 1)
      <4>2. m \in Msgs /\ m.id = "metadata" /\ m.n = L + 1
        BY <3>1 DEF Msg, Msgs
      <4>3. MetaNext[<<L + 1, m>>] = L + 2
        <5> HIDE DEF m
        <5> QED BY <3>1, <4>2, MetaNextReads
      <4>4. EndOf(MetaNext, bufferedMsgs', stream', Append(toPeer, m), L + 1)
              = MetaNext[<<rest, m>>]
        <5> HIDE DEF m
        <5>1. L + 1 \in Int
          BY <3>1
        <5> QED BY <2>3, <4>2, <5>1, EndAsks, MetaNextReads
      <4>5. rest = L + 1
        BY <2>4, <2>7
      <4>6. toPeer' = Append(toPeer, m)
        BY <3>2, <3>6, <3>7
      <4>7. EndOf(MetaNext, bufferedMsgs', stream', toPeer', L + 1) = L + 2
        BY <4>3, <4>4, <4>5, <4>6
      <4>8. EndOf(MetaNext, bufferedMsgs', stream', toPeer', Len(metadata')) = Len(metadata') + 1
        BY <1>0, <3>2, <4>7
      <4>9. Len(metadata') <= MetaPieces /\ Len(metadata') < MetaPieces
        BY <1>0, <3>2, <4>1
      <4> QED BY <2>5, <3>2, <3>3, <3>5, <3>7, <4>9, <4>8 DEF MetaInv, MetaEnd
    <3>8. CASE phase' # "metadata"
      <4>1. phase' \notin Early /\ L + 1 <= MetaPieces
        BY <1>0, <2>1, <2>5, <3>6, <3>8
      <4> QED BY <3>2, <3>3, <3>5, <3>8, <4>1 DEF MetaInv
    <3> QED BY <3>7, <3>8
  <2> QED BY <2>6, <2>7
<1> QED BY <1>4, <1>5, <1>6, <1>7, <1>8, <1>9 DEF SyncStep

----------------------------------------------------------------------------
(* The blocks of the attempts come one after the other *)

\* The block that comes next, or -1 once one has come out of turn.
BlockNext ==
    [x \in Int \X Msgs |->
        IF x[2].id \notin {"request", "piece"} THEN x[1]
        ELSE IF x[1] # x[2].n THEN -1 ELSE IF x[1] = Blocks THEN 1 ELSE x[1] + 1]

\* The number of blocks that come.
BlockCount ==
    [x \in Nat \X Msgs |-> IF x[2].id \notin {"request", "piece"} THEN x[1] ELSE x[1] + 1]

NextEnd(e) == EndOf(BlockNext, bufferedMsgs, stream, toPeer, e)
CountEnd(r) == EndOf(BlockCount, bufferedMsgs, stream, toPeer, r)

\* The k blocks that come before block e, going round.
Before(e, k) ==
    IF k < e THEN (e - k) .. (e - 1) ELSE (1 .. e - 1) \cup (Blocks - (k - e) .. Blocks)

\* What is on its way begins with block e, ends with a whole attempt, and is
\* enough for this one, which has got the blocks before e.
Owed ==
    \E e \in 1 .. Blocks, r \in Nat :
        /\ NextEnd(e) = 1 /\ CountEnd(r) >= r + Blocks - received
        /\ got = Before(e, received)

PieceInv ==
    /\ got \subseteq 1 .. Blocks
    /\ phase \in Unasked => received = 0 /\ got = {} /\ NextEnd(1) = 1 /\ CountEnd(0) = 0
    /\ phase = "request" => received = 0 /\ got = {} /\ \E e \in 1 .. Blocks : NextEnd(e) = 1
    /\ phase = "piece" => Owed

\* They read requests and answers alike.
LEMMA BlockReads ==
    /\ Automaton(BlockNext, Int, Msgs) /\ Mirrors(BlockNext, Int)
    /\ Automaton(BlockCount, Nat, Msgs) /\ Mirrors(BlockCount, Nat)
    /\ \A z \in Int, m \in Msgs :
          BlockNext[<<z, m>>] = IF m.id \notin {"request", "piece"} THEN z
                                ELSE IF z # m.n THEN -1 ELSE IF z = Blocks THEN 1 ELSE z + 1
    /\ \A z \in Nat, m \in Msgs :
          BlockCount[<<z, m>>] = IF m.id \notin {"request", "piece"} THEN z ELSE z + 1
<1>1. \A m \in Msgs : m.n \in Nat
  BY DEF Msgs
<1>2. \A z \in Int, m \in Msgs :
          BlockNext[<<z, m>>] = IF m.id \notin {"request", "piece"} THEN z
                                ELSE IF z # m.n THEN -1 ELSE IF z = Blocks THEN 1 ELSE z + 1
  BY DEF BlockNext
<1>3. \A z \in Nat, m \in Msgs :
          BlockCount[<<z, m>>] = IF m.id \notin {"request", "piece"} THEN z ELSE z + 1
  BY DEF BlockCount
<1>4. Automaton(BlockNext, Int, Msgs) /\ Automaton(BlockCount, Nat, Msgs)
  BY DEF Automaton, BlockNext, BlockCount
<1>5. Mirrors(BlockNext, Int)
  <2>1. ASSUME NEW z \in Int, NEW m \in Msgs, m.id \in IdleIds PROVE BlockNext[<<z, m>>] = z
    BY <1>2, <2>1 DEF IdleIds
  <2>2. ASSUME NEW z \in Int, NEW m \in Msgs, NEW a \in Msgs, Answer(m, a)
        PROVE  BlockNext[<<z, a>>] = BlockNext[<<z, m>>]
    <3>1. a.n = m.n
      BY <2>2 DEF Answer
    <3>2. m.id \in {"request", "piece"} <=> a.id \in {"request", "piece"}
      BY <2>2 DEF Answer
    <3> QED BY <1>2, <3>1, <3>2
  <2> QED BY <2>1, <2>2 DEF Mirrors
<1>6. Mirrors(BlockCount, Nat)
  BY <1>3 DEF Mirrors, Answer, IdleIds
<1> QED BY <1>2, <1>3, <1>4, <1>5, <1>6

\* A block out of turn is never made good, and what has come stays counted.
LEMMA BlockOrder ==
    ASSUME NEW b \in Seq(Msgs), NEW s \in Seq(Msgs), NEW t \in Seq(Msgs), NEW r \in Nat
    PROVE  /\ EndOf(BlockNext, b, s, t, -1) = -1
           /\ EndOf(BlockCount, b, s, t, r) \in Nat /\ EndOf(BlockCount, b, s, t, r) >= r
<1>1. Automaton(BlockNext, Int, Msgs) /\ Automaton(BlockCount, Nat, Msgs)
  BY BlockReads
<1>2. \A m \in Msgs : m.n \in Nat
  BY DEF Msgs
<1>3. EndOf(BlockNext, b, s, t, -1) \in {-1}
  <2>1. -1 \in {-1} \cap Int
    OBVIOUS
  <2>2. \A z \in {-1} \cap Int, m \in Msgs : BlockNext[<<z, m>>] \in {-1}
    BY <1>2, BlockReads
  <2>3. EndOf(BlockNext, b, s, t, -1) \in {-1} \cap Int
    BY <1>1, <2>1, <2>2, EndWithin
  <2> QED BY <2>3
<1>4. EndOf(BlockCount, b, s, t, r) \in {z \in Nat : z >= r}
  <2> DEFINE Z == {z \in Nat : z >= r}
  <2>1. r \in Z \cap Nat
    OBVIOUS
  <2>2. ASSUME NEW z \in Z \cap Nat, NEW m \in Msgs PROVE BlockCount[<<z, m>>] \in Z
    <3>1. z \in Nat /\ z >= r
      OBVIOUS
    <3>2. BlockCount[<<z, m>>] = z \/ BlockCount[<<z, m>>] = z + 1
      BY <3>1, BlockReads
    <3> QED BY <3>1, <3>2
  <2> HIDE DEF Z
  <2>3. EndOf(BlockCount, b, s, t, r) \in Z \cap Nat
    BY <1>1, <2>1, <2>2, EndWithin
  <2> QED BY <2>3 DEF Z
<1> QED BY <1>3, <1>4

\* The message that is read is the block whose turn it is, or no block.
LEMMA BlockRead ==
    ASSUME SyncTypeOK, NEW msg, Reads(msg), NEW e \in 1 .. Blocks, NEW r \in Nat, NextEnd(e) = 1
    PROVE  /\ msg.id = "piece" =>
                /\ msg.n = e
                /\ EndOf(BlockNext, bufferedMsgs', stream', toPeer,
                         IF e = Blocks THEN 1 ELSE e + 1) = 1
                /\ EndOf(BlockCount, bufferedMsgs', stream', toPeer, r + 1) = CountEnd(r)
           /\ msg.id # "piece" =>
                /\ EndOf(BlockNext, bufferedMsgs', stream', toPeer, e) = 1
                /\ EndOf(BlockCount, bufferedMsgs', stream', toPeer, r) = CountEnd(r)
           /\ CountEnd(r) = r => msg.id # "piece"
<1>0. Blocks \in Nat /\ e \in Int
  BY SyncAssumption
<1>1. msg \in FromPeer /\ bufferedMsgs' \in Seq(FromPeer) /\ stream' \in Seq(FromPeer)
  BY ReadsOne
<1>2. msg \in Msgs /\ msg.n \in Nat /\ msg.id # "request"
  BY <1>1 DEF FromPeer, Msgs
<1>3. bufferedMsgs' \in Seq(Msgs) /\ stream' \in Seq(Msgs) /\ toPeer \in Seq(Msgs)
  BY <1>1, Carried DEF SyncTypeOK
<1> DEFINE next == BlockNext[<<e, msg>>]
           count == BlockCount[<<r, msg>>]
           RestN(x) == EndOf(BlockNext, bufferedMsgs', stream', toPeer, x)
           RestC(x) == EndOf(BlockCount, bufferedMsgs', stream', toPeer, x)
<1>4. RestN(next) = 1
  BY <1>0, BlockReads, ReadsEnd DEF NextEnd
<1>5. RestC(count) = CountEnd(r)
  BY BlockReads, ReadsEnd DEF CountEnd
<1>6. /\ next = IF msg.id # "piece" THEN e
                ELSE IF e # msg.n THEN -1 ELSE IF e = Blocks THEN 1 ELSE e + 1
      /\ count = IF msg.id # "piece" THEN r ELSE r + 1
  BY <1>0, <1>2, BlockReads
<1>7. RestN(-1) = -1 /\ RestC(r + 1) >= r + 1 /\ RestC(r + 1) \in Nat
  <2>1. r + 1 \in Nat
    OBVIOUS
  <2> QED BY <1>3, <2>1, BlockOrder
<1> HIDE DEF next, count, RestN, RestC
<1>8. CASE msg.id # "piece"
  BY <1>4, <1>5, <1>6, <1>8 DEF RestN, RestC
<1>9. CASE msg.id = "piece"
  <2>1. e = msg.n
    BY <1>4, <1>6, <1>7, <1>9
  <2>2. next = (IF e = Blocks THEN 1 ELSE e + 1) /\ count = r + 1
    BY <1>6, <1>9, <2>1
  <2>3. CountEnd(r) # r
    BY <1>5, <1>7, <2>2
  <2> QED BY <1>4, <1>5, <1>9, <2>1, <2>2, <2>3 DEF RestN, RestC
<1> QED BY <1>8, <1>9

\* An attempt asks for every block once, in order.
LEMMA AskAll ==
    /\ Run(BlockNext, Requests, 1) = 1
    /\ \A c \in Nat : Run(BlockCount, Requests, c) = c + Blocks
<1>0. Blocks \in Nat \ {0}
  BY SyncAssumption
<1>1. /\ Requests \in Seq(Msgs) /\ Len(Requests) = Blocks
      /\ \A i \in 1 .. Blocks : Requests[i] = Msg("request", i)
  BY Written, Carried
<1>2. \A i \in 1 .. Blocks : /\ Requests[i] \in Msgs /\ Requests[i].id = "request"
                             /\ Requests[i].n = i
  BY <1>0, <1>1 DEF Msg, Msgs
<1>3. Run(BlockNext, Requests, 1) = 1
  <2> DEFINE h == [i \in 0 .. Blocks |-> IF i = Blocks THEN 1 ELSE i + 1]
  <2>1. h[0] = 1 /\ h[Blocks] = 1
    BY <1>0
  <2>2. ASSUME NEW i \in 1 .. Blocks PROVE h[i] = BlockNext[<<h[i - 1], Requests[i]>>]
    <3>1. h[i - 1] = i /\ i \in Int
      BY <1>0
    <3>2. BlockNext[<<i, Requests[i]>>] = IF i = Blocks THEN 1 ELSE i + 1
      BY <1>2, <3>1, BlockReads
    <3>3. h[i] = IF i = Blocks THEN 1 ELSE i + 1
      BY <1>0
    <3> QED BY <3>1, <3>2, <3>3
  <2> HIDE DEF h
  <2>3. StatesOf(h, BlockNext, Requests, 1)
    BY <1>1, <2>1, <2>2 DEF StatesOf
  <2>4. Run(BlockNext, Requests, 1) = h[Len(Requests)]
    BY <1>1, <2>3, RunIs, BlockReads
  <2> QED BY <1>1, <2>1, <2>4
<1>4. ASSUME NEW c \in Nat PROVE Run(BlockCount, Requests, c) = c + Blocks
  <2> DEFINE h == [i \in 0 .. Blocks |-> c + i]
  <2>1. h[0] = c /\ h[Blocks] = c + Blocks
    BY <1>0
  <2>2. ASSUME NEW i \in 1 .. Blocks PROVE h[i] = BlockCount[<<h[i - 1], Requests[i]>>]
    <3>1. h[i - 1] = c + (i - 1) /\ c + (i - 1) \in Nat /\ h[i] = c + i
      BY <1>0
    <3>2. BlockCount[<<c + (i - 1), Requests[i]>>] = (c + (i - 1)) + 1
      BY <1>2, <3>1, BlockReads
    <3>3. (c + (i - 1)) + 1 = c + i
      BY <1>0
    <3> QED BY <3>1, <3>2, <3>3
  <2> HIDE DEF h
  <2>3. StatesOf(h, BlockCount, Requests, c)
    BY <1>1, <2>1, <2>2 DEF StatesOf
  <2>4. Run(BlockCount, Requests, c) = h[Len(Requests)]
    BY <1>1, <2>3, RunIs, BlockReads
  <2> QED BY <1>1, <2>1, <2>4
<1> QED BY <1>3, <1>4

\* Going round: the blocks before the next one are those before this one and
\* this one, and all of them once all but one have come.
LEMMA GoingRound ==
    ASSUME NEW e \in 1 .. Blocks, NEW k \in 0 .. Blocks - 1
    PROVE  /\ Before(e, 0) = {}
           /\ Before(e, k) \subseteq 1 .. Blocks
           /\ k + 1 < Blocks =>
                Before(e, k) \cup {e} = Before(IF e = Blocks THEN 1 ELSE e + 1, k + 1)
           /\ k + 1 >= Blocks => Before(e, k) \cup {e} = 1 .. Blocks
<1>0. Blocks \in Nat \ {0}
  BY SyncAssumption
<1>1. Before(e, 0) = {}
  BY <1>0 DEF Before
<1>2. Before(e, k) \subseteq 1 .. Blocks
  BY <1>0 DEF Before
<1>3. CASE e = Blocks
  <2>1. Before(e, k) \cup {e} = (Blocks - k) .. Blocks
    BY <1>0, <1>3 DEF Before
  <2>2. Before(1, k + 1) = (Blocks - k) .. Blocks
    BY <1>0 DEF Before
  <2> QED BY <1>0, <1>1, <1>2, <1>3, <2>1, <2>2
<1>4. CASE e # Blocks
  <2>1. Before(e, k) \cup {e} = Before(e + 1, k + 1)
    BY <1>0, <1>4 DEF Before
  <2>2. k + 1 >= Blocks => Before(e, k) \cup {e} = 1 .. Blocks
    BY <1>0, <1>4 DEF Before
  <2> QED BY <1>0, <1>1, <1>2, <1>4, <2>1, <2>2
<1> QED BY <1>3, <1>4

\* A new attempt makes sure of all its blocks, whatever is left of the others.
LEMMA NewAttempt ==
    ASSUME SyncTypeOK, NEW e \in 1 .. Blocks, NEW c \in Nat, NEW r \in Nat,
           bufferedMsgs' \in Seq(FromPeer), stream' \in Seq(FromPeer),
           EndOf(BlockNext, bufferedMsgs', stream', toPeer, e) = 1,
           EndOf(BlockCount, bufferedMsgs', stream', toPeer, r) = c, c >= r,
           toPeer' = toPeer \o Requests, received' = 0, got' = {}
    PROVE  Owed'
<1>0. Blocks \in Nat \ {0} /\ e \in Int
  BY SyncAssumption
<1>1. /\ bufferedMsgs' \in Seq(Msgs) /\ stream' \in Seq(Msgs) /\ toPeer \in Seq(Msgs)
      /\ Requests \in Seq(Msgs)
  BY Written, Carried DEF SyncTypeOK
<1>2. EndOf(BlockNext, bufferedMsgs', stream', toPeer \o Requests, e)
        = Run(BlockNext, Requests, EndOf(BlockNext, bufferedMsgs', stream', toPeer, e))
  BY <1>0, <1>1, EndAsks, BlockReads
<1>3. EndOf(BlockCount, bufferedMsgs', stream', toPeer \o Requests, r)
        = Run(BlockCount, Requests, EndOf(BlockCount, bufferedMsgs', stream', toPeer, r))
  BY <1>1, EndAsks, BlockReads
<1>4. EndOf(BlockNext, bufferedMsgs', stream', toPeer', e) = 1
  BY <1>2, AskAll
<1>5. EndOf(BlockCount, bufferedMsgs', stream', toPeer', r) = c + Blocks
  BY <1>3, AskAll
<1>6. c + Blocks >= r + Blocks - received'
  BY <1>0
<1>7. 0 \in 0 .. Blocks - 1
  BY <1>0
<1>8. got' = Before(e, received')
  BY <1>7, GoingRound
<1>9. EndOf(BlockCount, bufferedMsgs', stream', toPeer', r) >= r + Blocks - received'
  BY <1>5, <1>6
<1> QED BY <1>4, <1>8, <1>9 DEF Owed, NextEnd, CountEnd

\* A step that changes nothing of what the blocks depend on.
LEMMA PieceIdle ==
    ASSUME SyncTypeOK, spoilt' = {}, PieceInv, UNCHANGED <<received, got>>,
           Peer \/ NewClientReads \/ UNCHANGED <<bufferedMsgs, stream, toPeer>>,
           phase' \in Unasked => phase \in Unasked,
           phase' = "request" => phase = "request",
           phase' = "piece" => phase = "piece"
    PROVE  PieceInv'
<1>1. ASSUME NEW e \in Int PROVE EndOf(BlockNext, bufferedMsgs', stream', toPeer', e) = NextEnd(e)
  BY IdleEnd, BlockReads DEF NextEnd
<1>2. ASSUME NEW r \in Nat PROVE EndOf(BlockCount, bufferedMsgs', stream', toPeer', r) = CountEnd(r)
  BY IdleEnd, BlockReads DEF CountEnd
<1>3. ASSUME phase' \in Unasked
      PROVE  /\ received' = 0 /\ got' = {}
             /\ EndOf(BlockNext, bufferedMsgs', stream', toPeer', 1) = 1
             /\ EndOf(BlockCount, bufferedMsgs', stream', toPeer', 0) = 0
  BY <1>1, <1>2, <1>3 DEF PieceInv
<1>4. ASSUME phase' = "piece" PROVE Owed'
  <2>1. PICK e \in 1 .. Blocks, r \in Nat :
            /\ NextEnd(e) = 1 /\ CountEnd(r) >= r + Blocks - received
            /\ got = Before(e, received)
    BY <1>4 DEF PieceInv, Owed
  <2>2. e \in Int
    BY SyncAssumption
  <2> QED BY <1>1, <1>2, <2>1, <2>2 DEF Owed, NextEnd, CountEnd
<1>5. ASSUME phase' = "request"
      PROVE  /\ received' = 0 /\ got' = {}
             /\ \E e \in 1 .. Blocks : EndOf(BlockNext, bufferedMsgs', stream', toPeer', e) = 1
  <2>1. PICK e \in 1 .. Blocks : NextEnd(e) = 1
    BY <1>5 DEF PieceInv
  <2>2. e \in Int
    BY SyncAssumption
  <2>3. EndOf(BlockNext, bufferedMsgs', stream', toPeer', e) = 1
    BY <1>1, <2>1, <2>2
  <2> QED BY <1>5, <2>3 DEF PieceInv
<1> QED BY <1>3, <1>4, <1>5 DEF PieceInv, NextEnd, CountEnd

\* Before a block is asked for, none is read.
LEMMA PieceNotYet ==
    ASSUME SyncTypeOK, PieceInv, phase \in Unasked, NEW msg, Reads(msg)
    PROVE  /\ msg.id # "piece" /\ received = 0 /\ got = {}
           /\ EndOf(BlockNext, bufferedMsgs', stream', toPeer, 1) = 1
           /\ EndOf(BlockCount, bufferedMsgs', stream', toPeer, 0) = 0
<1>1. received = 0 /\ got = {} /\ NextEnd(1) = 1 /\ CountEnd(0) = 0
  BY DEF PieceInv
<1>2. 1 \in 1 .. Blocks /\ 0 \in Nat
  BY SyncAssumption
<1> QED BY <1>1, <1>2, BlockRead

\* Asking for metadata and telling of interest are no requests for blocks.
LEMMA PieceAsks ==
    ASSUME SyncTypeOK, NEW b \in Seq(Msgs), NEW s \in Seq(Msgs), NEW e \in Int, NEW r \in Nat,
           NEW id \in {"metadata", "interested"}, NEW n \in Nat
    PROVE  /\ EndOf(BlockNext, b, s, Append(toPeer, Msg(id, n)), e)
                = EndOf(BlockNext, b, s, toPeer, e)
           /\ EndOf(BlockCount, b, s, Append(toPeer, Msg(id, n)), r)
                = EndOf(BlockCount, b, s, toPeer, r)
<1> DEFINE m == Msg(id, n)
<1>1. m \in Msgs /\ m.id \notin {"request", "piece"}
  BY DEF Msg, Msgs
<1> HIDE DEF m
<1>2. toPeer \in Seq(Msgs)
  BY Carried DEF SyncTypeOK
<1>3. /\ EndOf(BlockNext, b, s, Append(toPeer, m), e)
           = BlockNext[<<EndOf(BlockNext, b, s, toPeer, e), m>>]
      /\ EndOf(BlockNext, b, s, toPeer, e) \in Int
  BY <1>1, <1>2, EndAsks, BlockReads
<1>4. /\ EndOf(BlockCount, b, s, Append(toPeer, m), r)
           = BlockCount[<<EndOf(BlockCount, b, s, toPeer, r), m>>]
      /\ EndOf(BlockCount, b, s, toPeer, r) \in Nat
  BY <1>1, <1>2, EndAsks, BlockReads
<1>5. /\ BlockNext[<<EndOf(BlockNext, b, s, toPeer, e), m>>] = EndOf(BlockNext, b, s, toPeer, e)
      /\ BlockCount[<<EndOf(BlockCount, b, s, toPeer, r), m>>] = EndOf(BlockCount, b, s, toPeer, r)
  BY <1>1, <1>3, <1>4, BlockReads
<1> QED BY <1>3, <1>4, <1>5 DEF m

\* No step brings the blocks out of order, and the hash of the piece agrees.
LEMMA PieceStep ==
    ASSUME SyncTypeOK, SyncTypeOK', PieceInv, [SyncStep]_syncVars
    PROVE  PieceInv' /\ (phase = "piece" => mismatch' = mismatch)
<1>0. Blocks \in Nat \ {0} /\ received \in 0 .. Blocks - 1
  BY SyncAssumption DEF SyncTypeOK
<1>1. {"piece", "request", "failed", "panicked", "done"} \cap Unasked = {} /\ spoilt' = {}
  BY DEF Unasked, Early, SyncTypeOK
<1>2. CASE UNCHANGED syncVars \/ Peer \/ NewClientReads
  <2>1. UNCHANGED <<phase, received, got, mismatch>>
    BY <1>2 DEF syncVars, clientVars, Peer, PeerAnswers, PeerAstray, PeerChokes, PeerGreets,
                NewClientReads
  <2>2. Peer \/ NewClientReads \/ UNCHANGED <<bufferedMsgs, stream, toPeer>>
    BY <1>2 DEF syncVars, clientVars, peerVars
  <2> QED BY <1>1, <2>1, <2>2, PieceIdle
<1>3. CASE Connects \/ NewClientReturns \/ SetupKnows
  <2>1. /\ phase \in Unasked /\ phase' \notin {"piece", "request"} /\ phase # "piece"
        /\ UNCHANGED <<received, got, bufferedMsgs, stream, toPeer>>
    BY <1>3 DEF Connects, NewClientReturns, SetupKnows, Unasked, Early, peerVars, Interrupted,
                SyncTypeOK
  <2> QED BY <1>1, <2>1, PieceIdle
<1>4. CASE GivesUp
  <2>1. phase' \in {"failed", "panicked"} /\ got' = got /\ mismatch' = mismatch
    BY <1>4 DEF GivesUp, Ends
  <2> QED BY <1>1, <2>1 DEF PieceInv
<1>5. ASSUME NEW msg, SetupReads(msg)
      PROVE  PieceInv' /\ (phase = "piece" => mismatch' = mismatch)
  <2>1. /\ phase = "setup" /\ phase \in Unasked /\ phase' \notin {"piece", "request"} /\ Reads(msg)
        /\ UNCHANGED <<received, got, toPeer>>
    BY <1>5 DEF SetupReads, Unasked, Early
  <2>2. /\ msg.id # "piece" /\ received = 0 /\ got = {}
        /\ EndOf(BlockNext, bufferedMsgs', stream', toPeer, 1) = 1
        /\ EndOf(BlockCount, bufferedMsgs', stream', toPeer, 0) = 0
    BY <2>1, PieceNotYet
  <2> QED BY <2>1, <2>2 DEF PieceInv, NextEnd, CountEnd
<1>6. CASE FetchMetadata
  <2>1. /\ phase = "ready" /\ phase \in Unasked /\ phase' \notin {"piece", "request"}
        /\ toPeer' = Append(toPeer, Msg("metadata", 0))
        /\ UNCHANGED <<received, got, bufferedMsgs, stream>>
    BY <1>6 DEF FetchMetadata, Unasked, Early
  <2>2. received = 0 /\ got = {} /\ NextEnd(1) = 1 /\ CountEnd(0) = 0
    BY <2>1 DEF PieceInv
  <2>3. bufferedMsgs \in Seq(Msgs) /\ stream \in Seq(Msgs)
    BY Carried DEF SyncTypeOK
  <2>4. /\ EndOf(BlockNext, bufferedMsgs, stream, Append(toPeer, Msg("metadata", 0)), 1) = NextEnd(1)
        /\ EndOf(BlockCount, bufferedMsgs, stream, Append(toPeer, Msg("metadata", 0)), 0) = CountEnd(0)
    BY <2>3, PieceAsks DEF NextEnd, CountEnd
  <2> QED BY <2>1, <2>2, <2>4 DEF PieceInv, NextEnd, CountEnd
<1>7. ASSUME NEW msg, MetadataReads(msg)
      PROVE  PieceInv' /\ (phase = "piece" => mismatch' = mismatch)
  <2>1. /\ phase = "metadata" /\ phase \in Unasked /\ phase' \notin {"piece", "request"}
        /\ Reads(msg) /\ UNCHANGED <<received, got>>
    BY <1>7 DEF MetadataReads, Unasked, Early
  <2>2. /\ received = 0 /\ got = {}
        /\ EndOf(BlockNext, bufferedMsgs', stream', toPeer, 1) = 1
        /\ EndOf(BlockCount, bufferedMsgs', stream', toPeer, 0) = 0
    BY <2>1, PieceNotYet
  <2>3. bufferedMsgs' \in Seq(Msgs) /\ stream' \in Seq(Msgs)
    BY <2>1, ReadsOne, Carried
  <2>5. toPeer' = toPeer \/ \E id \in {"metadata", "interested"}, n \in Nat :
                               toPeer' = Append(toPeer, Msg(id, n))
    <3>1. Len(metadata') \in Nat
      BY LenProperties DEF SyncTypeOK
    <3> QED BY <1>7, <3>1 DEF MetadataReads
  <2>6. /\ EndOf(BlockNext, bufferedMsgs', stream', toPeer', 1) = 1
        /\ EndOf(BlockCount, bufferedMsgs', stream', toPeer', 0) = 0
    <3>1. CASE toPeer' = toPeer
      BY <2>2, <3>1
    <3>2. CASE toPeer' # toPeer
      <4>1. PICK id \in {"metadata", "interested"}, n \in Nat :
               toPeer' = Append(toPeer, Msg(id, n))
        BY <2>5, <3>2
      <4>2. /\ EndOf(BlockNext, bufferedMsgs', stream', Append(toPeer, Msg(id, n)), 1)
                 = EndOf(BlockNext, bufferedMsgs', stream', toPeer, 1)
            /\ EndOf(BlockCount, bufferedMsgs', stream', Append(toPeer, Msg(id, n)), 0)
                 = EndOf(BlockCount, bufferedMsgs', stream', toPeer, 0)
        BY <2>3, PieceAsks
      <4> QED BY <2>2, <4>1, <4>2
    <3> QED BY <3>1, <3>2
  <2> QED BY <2>1, <2>2, <2>6 DEF PieceInv, NextEnd, CountEnd
<1>8. ASSUME NEW msg, WaitForUnchoke(msg)
      PROVE  PieceInv' /\ (phase = "piece" => mismatch' = mismatch)
  <2>1. /\ phase = "unchoke" /\ phase \in Unasked /\ Reads(msg) /\ phase' \in {phase, "request"}
        /\ UNCHANGED <<received, got, toPeer>>
    BY <1>8 DEF WaitForUnchoke, Unasked
  <2>2. /\ received = 0 /\ got = {}
        /\ EndOf(BlockNext, bufferedMsgs', stream', toPeer, 1) = 1
        /\ EndOf(BlockCount, bufferedMsgs', stream', toPeer, 0) = 0
    BY <2>1, PieceNotYet
  <2>3. 1 \in 1 .. Blocks
    BY <1>0
  <2> QED BY <1>1, <2>1, <2>2, <2>3 DEF PieceInv, NextEnd, CountEnd
<1>9. CASE DownloadPieceTimesOut
  <2>1. /\ phase = "piece" /\ phase' = "request" /\ received' = 0 /\ got' = {}
        /\ UNCHANGED <<bufferedMsgs, stream, toPeer, mismatch>>
    BY <1>9 DEF DownloadPieceTimesOut, Interrupted, SyncTypeOK
  <2>2. PICK e \in 1 .. Blocks : NextEnd(e) = 1
    BY <2>1 DEF PieceInv, Owed
  <2>3. EndOf(BlockNext, bufferedMsgs', stream', toPeer', e) = 1
    BY <2>1, <2>2 DEF NextEnd
  <2> QED BY <1>1, <2>1, <2>3 DEF PieceInv, NextEnd
<1>11. CASE RequestBlocks
  <2>1. /\ phase = "request" /\ UNCHANGED <<bufferedMsgs, stream, received, got, mismatch>>
        /\ phase' = "failed" \/ (phase' = "piece" /\ toPeer' = toPeer \o Requests)
    BY <1>1, <1>11 DEF RequestBlocks
  <2>2. received = 0 /\ got = {}
    BY <2>1 DEF PieceInv
  <2>3. PICK e \in 1 .. Blocks : NextEnd(e) = 1
    BY <2>1 DEF PieceInv
  <2>4. bufferedMsgs \in Seq(Msgs) /\ stream \in Seq(Msgs) /\ toPeer \in Seq(Msgs)
    BY Carried DEF SyncTypeOK
  <2>5. CountEnd(0) \in Nat /\ CountEnd(0) >= 0
    BY <2>4, BlockOrder DEF CountEnd
  <2>6. bufferedMsgs' \in Seq(FromPeer) /\ stream' \in Seq(FromPeer)
    BY DEF SyncTypeOK
  <2>7. /\ EndOf(BlockNext, bufferedMsgs', stream', toPeer, e) = 1
        /\ EndOf(BlockCount, bufferedMsgs', stream', toPeer, 0) = CountEnd(0)
    BY <2>1, <2>3 DEF NextEnd, CountEnd
  <2>8. toPeer' = toPeer \o Requests => Owed'
    BY <2>1, <2>2, <2>5, <2>6, <2>7, NewAttempt
  <2> QED BY <1>1, <2>1, <2>2, <2>8 DEF PieceInv
<1>10. ASSUME NEW msg, DownloadPieceReads(msg)
       PROVE  PieceInv' /\ (phase = "piece" => mismatch' = mismatch)
  <2>1. phase = "piece" /\ Reads(msg) /\ toPeer' = toPeer
    BY <1>10 DEF DownloadPieceReads
  <2>2. PICK e \in 1 .. Blocks, r \in Nat :
            /\ NextEnd(e) = 1 /\ CountEnd(r) >= r + Blocks - received
            /\ got = Before(e, received)
    BY <2>1 DEF PieceInv, Owed
  <2> DEFINE f == IF e = Blocks THEN 1 ELSE e + 1
  <2>3. f \in 1 .. Blocks
    BY <1>0
  <2>4. /\ msg.id = "piece" =>
             /\ msg.n = e
             /\ EndOf(BlockNext, bufferedMsgs', stream', toPeer, f) = 1
             /\ EndOf(BlockCount, bufferedMsgs', stream', toPeer, r + 1) = CountEnd(r)
        /\ msg.id # "piece" =>
             /\ EndOf(BlockNext, bufferedMsgs', stream', toPeer, e) = 1
             /\ EndOf(BlockCount, bufferedMsgs', stream', toPeer, r) = CountEnd(r)
    BY <2>1, <2>2, BlockRead
  <2>5. /\ Before(e, received) \subseteq 1 .. Blocks
        /\ received + 1 < Blocks => Before(e, received) \cup {e} = Before(f, received + 1)
        /\ received + 1 >= Blocks => Before(e, received) \cup {e} = 1 .. Blocks
    BY <1>0, GoingRound
  <2> HIDE DEF f
  <2>6. CASE msg.id # "piece"
    <3>1. UNCHANGED <<phase, received, got, mismatch, toPeer>>
      BY <1>10, <2>1, <2>6 DEF DownloadPieceReads
    <3>2. Owed'
      BY <2>2, <2>4, <2>6, <3>1 DEF Owed, NextEnd, CountEnd
    <3> QED BY <1>1, <2>1, <3>1, <3>2 DEF PieceInv
  <2>7. CASE msg.id = "piece" /\ received + 1 < Blocks
    <3>1. /\ UNCHANGED <<phase, mismatch, toPeer>>
          /\ received' = received + 1 /\ got' = got \cup {e}
      BY <1>10, <2>1, <2>4, <2>7 DEF DownloadPieceReads, Copied
    <3>2. got' = Before(f, received') /\ got' \subseteq 1 .. Blocks
      BY <1>0, <2>2, <2>5, <2>7, <3>1
    <3>3. CountEnd(r) \in Nat
      <4>1. bufferedMsgs \in Seq(Msgs) /\ stream \in Seq(Msgs) /\ toPeer \in Seq(Msgs)
        BY Carried DEF SyncTypeOK
      <4> QED BY <4>1, BlockOrder DEF CountEnd
    <3>4. r + 1 \in Nat /\ CountEnd(r) >= (r + 1) + Blocks - received'
      BY <1>0, <2>2, <3>1, <3>3
    <3>5. Owed'
      BY <2>3, <2>4, <2>7, <3>1, <3>2, <3>4 DEF Owed, NextEnd, CountEnd
    <3> QED BY <1>1, <2>1, <3>1, <3>2, <3>5 DEF PieceInv
  <2>8. CASE msg.id = "piece" /\ ~(received + 1 < Blocks)
    <3>1. got \cup {msg.n} = 1 .. Blocks
      BY <1>0, <2>2, <2>4, <2>5, <2>8
    <3>3. Copied(msg) = {1 .. Blocks}
      BY <2>4, <2>8, <3>1 DEF Copied
    <3>2. phase' = "done" /\ got' = {} /\ mismatch' = mismatch
      BY <1>10, <2>8, <3>3 DEF DownloadPieceReads
    <3> QED BY <1>1, <3>2 DEF PieceInv
  <2> QED BY <2>6, <2>7, <2>8
<1> QED BY <1>2, <1>3, <1>4, <1>5, <1>6, <1>7, <1>8, <1>9, <1>10, <1>11 DEF SyncStep

----------------------------------------------------------------------------
(* The client does not wait in vain *)

Has(s, id) == \E i \in 1 .. Len(s) : s[i].id = id

\* The unchoke that the client will wait for is asked for, on its way or kept,
\* unless it came too early or was taken back.
UnchokeInv ==
    /\ phase \in Unasked \ {"unchoke"} => unchoked # "yes" /\ ~Has(toPeer, "interested")
    /\ phase = "unchoke" => \/ unchoked = "no" /\ Has(toPeer, "interested")
                            \/ unchoked \in {"early", "choked"}
                            \/ /\ unchoked = "yes"
                               /\ Has(stream, "unchoke") \/ Has(bufferedMsgs, "unchoke")

\* So is the extension handshake of a peer that offers metadata.
ExtensionInv ==
    phase \in {"none", "init", "setup"} /\ offers /\ ~metadataExtId =>
        "extension" \in greetings \/ Has(stream, "extension")

\* What a sequence has after a message is added, or taken off its head.
LEMMA HasAppend ==
    ASSUME NEW S, NEW s \in Seq(S), NEW m \in S, NEW id
    PROVE  Has(Append(s, m), id) <=> Has(s, id) \/ m.id = id
<1> DEFINE t == Append(s, m)
           N == Len(s)
<1>1. N \in Nat /\ Len(t) = N + 1 /\ t[N + 1] = m /\ \A i \in 1 .. N : t[i] = s[i]
  BY AppendProperties, LenProperties
<1> HIDE DEF t
<1>2. Has(t, id) => Has(s, id) \/ m.id = id
  <2> SUFFICES ASSUME NEW i \in 1 .. N + 1, t[i].id = id PROVE Has(s, id) \/ m.id = id
    BY <1>1 DEF Has
  <2>1. i \in 1 .. N \/ i = N + 1
    BY <1>1
  <2> QED BY <1>1, <2>1 DEF Has
<1>3. Has(s, id) => Has(t, id)
  <2> SUFFICES ASSUME NEW i \in 1 .. N, s[i].id = id PROVE Has(t, id)
    BY DEF Has
  <2>1. i \in 1 .. N + 1 /\ t[i].id = id
    BY <1>1
  <2> QED BY <1>1, <2>1 DEF Has
<1>4. m.id = id => Has(t, id)
  <2>1. N + 1 \in 1 .. Len(t)
    BY <1>1
  <2> QED BY <1>1, <2>1 DEF Has
<1> QED BY <1>2, <1>3, <1>4 DEF t

\* The same for the head of a sequence.
LEMMA HasTail ==
    ASSUME NEW S, NEW s \in Seq(S), s # <<>>, NEW id
    PROVE  Has(s, id) <=> Head(s).id = id \/ Has(Tail(s), id)
<1> DEFINE t == Tail(s)
           N == Len(s)
           m == Head(s)
<1>1. /\ N \in Nat /\ N > 0 /\ Len(t) = N - 1 /\ m = s[1]
      /\ \A i \in 1 .. N - 1 : t[i] = s[i + 1]
  BY HeadTailProperties, LenProperties, EmptySeq
<1> HIDE DEF t, m
<1>2. Has(s, id) => Has(t, id) \/ m.id = id
  <2> SUFFICES ASSUME NEW i \in 1 .. N, s[i].id = id PROVE Has(t, id) \/ m.id = id
    BY DEF Has
  <2>1. CASE i = 1
    BY <1>1, <2>1
  <2>2. CASE i # 1
    <3>1. i - 1 \in 1 .. N - 1 /\ (i - 1) + 1 = i
      BY <1>1, <2>2
    <3>2. t[i - 1] = s[i]
      BY <1>1, <3>1
    <3> QED BY <1>1, <3>1, <3>2 DEF Has
  <2> QED BY <2>1, <2>2
<1>3. Has(t, id) => Has(s, id)
  <2> SUFFICES ASSUME NEW i \in 1 .. N - 1, t[i].id = id PROVE Has(s, id)
    BY <1>1 DEF Has
  <2>1. i + 1 \in 1 .. N /\ s[i + 1].id = id
    BY <1>1
  <2> QED BY <2>1 DEF Has
<1>4. m.id = id => Has(s, id)
  <2>1. 1 \in 1 .. N
    BY <1>1
  <2> QED BY <1>1, <2>1 DEF Has
<1> QED BY <1>2, <1>3, <1>4 DEF t, m

\* An empty sequence has nothing.
LEMMA HasEmpty == ASSUME NEW s, NEW id PROVE s = <<>> => ~Has(s, id)
BY DEF Has

\* What is in the sequences after ReadMessage, other than the message that is read.
LEMMA HasReads ==
    ASSUME SyncTypeOK, NEW msg, Reads(msg), NEW id
    PROVE  /\ Has(stream, id) => Has(stream', id) \/ msg.id = id
           /\ Has(bufferedMsgs, id) => Has(bufferedMsgs', id) \/ msg.id = id
<1>1. \/ /\ bufferedMsgs # <<>> /\ msg = Head(bufferedMsgs)
         /\ bufferedMsgs' = Tail(bufferedMsgs) /\ stream' = stream
      \/ /\ bufferedMsgs = <<>> /\ stream # <<>> /\ msg = Head(stream)
         /\ stream' = Tail(stream) /\ bufferedMsgs' = bufferedMsgs
  BY ReadsOne
<1>2. bufferedMsgs \in Seq(FromPeer) /\ stream \in Seq(FromPeer)
  BY DEF SyncTypeOK
<1>3. CASE bufferedMsgs # <<>>
  <2>1. Has(bufferedMsgs, id) <=> Head(bufferedMsgs).id = id \/ Has(Tail(bufferedMsgs), id)
    BY <1>2, <1>3, HasTail
  <2> QED BY <1>1, <1>3, <2>1
<1>4. CASE bufferedMsgs = <<>>
  <2>1. stream # <<>> => (Has(stream, id) <=> Head(stream).id = id \/ Has(Tail(stream), id))
    BY <1>2, HasTail
  <2> QED BY <1>1, <1>4, <2>1
<1> QED BY <1>3, <1>4

\* What the peer's steps leave of the messages.
LEMMA HasPeer ==
    ASSUME SyncTypeOK, spoilt' = {}
    PROVE  /\ Peer \/ NewClientReads => UNCHANGED phase
           /\ Peer => /\ UNCHANGED <<metadataExtId, offers, bufferedMsgs>>
                      /\ \A id : Has(stream, id) => Has(stream', id)
                      /\ "extension" \in greetings =>
                            "extension" \in greetings' \/ Has(stream', "extension")
           /\ Peer /\ Has(toPeer', "interested") => Has(toPeer, "interested")
           /\ Peer =>
                \/ unchoked' = unchoked
                   /\ (unchoked = "no" /\ Has(toPeer, "interested") => Has(toPeer', "interested"))
                \/ unchoked' \in {"early", "choked"}
                \/ /\ unchoked' = "yes"
                   /\ Has(toPeer, "interested") /\ Has(stream', "unchoke")
<1>1. bufferedMsgs \in Seq(FromPeer) /\ stream \in Seq(FromPeer) /\ toPeer \in Seq(ToPeer)
  BY DEF SyncTypeOK
<1>2. \A m \in FromPeer : \A id : Has(Append(stream, m), id) <=> Has(stream, id) \/ m.id = id
  BY <1>1, HasAppend
<1>3. toPeer # <<>> => \A id : Has(toPeer, id) <=> Head(toPeer).id = id \/ Has(Tail(toPeer), id)
  BY <1>1, HasTail
<1>4. Peer \/ NewClientReads => UNCHANGED phase
  BY DEF Peer, PeerAnswers, PeerAstray, PeerChokes, PeerGreets, NewClientReads, clientVars
<1>5. CASE PeerAnswers
  <2> DEFINE m == Head(toPeer)
  <2>1. /\ toPeer # <<>> /\ toPeer' = Tail(toPeer)
        /\ UNCHANGED <<metadataExtId, offers, bufferedMsgs, greetings>>
    BY <1>5 DEF PeerAnswers, clientVars
  <2>2. m \in ToPeer /\ m.n \in Nat
    <3>1. m \in ToPeer
      BY <1>1, <2>1, HeadTailProperties
    <3> QED BY <3>1 DEF ToPeer
  <2>3. \/ /\ unchoked' = unchoked
           /\ \E id \in {"data", "reject", "piece"} : stream' = Append(stream, Msg(id, m.n))
           /\ m.id # "interested"
        \/ /\ unchoked' = "yes" /\ m.id = "interested"
           /\ stream' = Append(stream, Msg("unchoke", 0))
        \/ unchoked # "no" /\ unchoked' = unchoked /\ stream' = stream
    <3>1. spoilt = {} /\ spoilt' = {}
      BY DEF SyncTypeOK
    <3> QED BY <1>5, <3>1 DEF PeerAnswers
  <2>4. \A id \in {"data", "reject", "piece"} : Msg(id, m.n) \in FromPeer
    BY <2>2, Written
  <2>5. Msg("unchoke", 0) \in FromPeer /\ Msg("unchoke", 0).id = "unchoke"
    BY Written DEF Msg
  <2>6. \A id : Has(stream, id) => Has(stream', id)
    BY <1>2, <2>3, <2>4, <2>5
  <2>7. Has(toPeer, "interested") <=> m.id = "interested" \/ Has(toPeer', "interested")
    BY <1>3, <2>1
  <2> HIDE DEF m
  <2> QED BY <1>2, <1>4, <2>1, <2>3, <2>5, <2>6, <2>7
<1>6. ASSUME (\E g \in greetings : PeerGreets(g)) \/ PeerChokes
      PROVE  /\ UNCHANGED <<metadataExtId, offers, bufferedMsgs, toPeer>>
             /\ \A id : Has(stream, id) => Has(stream', id)
             /\ "extension" \in greetings =>
                   "extension" \in greetings' \/ Has(stream', "extension")
             /\ unchoked' \in {unchoked, "early", "choked"}
  <2>1. /\ UNCHANGED <<metadataExtId, offers, bufferedMsgs, toPeer>>
        /\ unchoked' \in {unchoked, "early", "choked"}
    BY <1>6 DEF PeerGreets, PeerChokes, clientVars
  <2>2. \A g \in {"extension", "bitfield", "unchoke", "choke"} :
            Msg(g, 0) \in FromPeer /\ Msg(g, 0).id = g
    BY DEF Msg, FromPeer
  <2>3. \/ UNCHANGED <<greetings, stream>>
        \/ \E g \in {"extension", "bitfield", "unchoke", "choke"} :
              /\ greetings' \in {greetings, greetings \ {g}}
              /\ stream' = Append(stream, Msg(g, 0)) \/ (stream' = stream /\ g = "unchoke")
    BY <1>6 DEF PeerGreets, PeerChokes, SyncTypeOK
  <2>4. \A id : Has(stream, id) => Has(stream', id)
    BY <1>2, <2>2, <2>3
  <2>5. "extension" \in greetings => "extension" \in greetings' \/ Has(stream', "extension")
    BY <1>2, <2>2, <2>3
  <2> QED BY <2>1, <2>4, <2>5
<1>7. ~PeerAstray
  <2>1. toPeer # <<>> => Head(toPeer) \in ToPeer
    BY <1>1, HeadTailProperties
  <2>2. toPeer # <<>> => Head(toPeer).id # "noise"
    BY <2>1 DEF ToPeer
  <2> QED BY <2>2 DEF PeerAstray
<1>8. CASE ~PeerAnswers
  <2>1. Peer => (\E g \in greetings : PeerGreets(g)) \/ PeerChokes
    BY <1>7, <1>8 DEF Peer
  <2> QED BY <1>4, <1>6, <2>1
<1> QED BY <1>5, <1>8

\* No step loses the unchoke.
LEMMA UnchokeStep ==
    ASSUME SyncTypeOK, SyncTypeOK', UnchokeInv, [SyncStep]_syncVars
    PROVE  UnchokeInv'
<1>1. toPeer \in Seq(ToPeer) /\ unchoked \in {"no", "early", "yes", "choked"} /\ spoilt' = {}
  BY DEF SyncTypeOK
<1>2. \A m \in ToPeer : \A id : Has(Append(toPeer, m), id) <=> Has(toPeer, id) \/ m.id = id
  BY <1>1, HasAppend
<1>3. CASE UNCHANGED syncVars
  BY <1>3 DEF UnchokeInv, syncVars, clientVars, peerVars
<1>4. CASE Peer
  <2>1. UNCHANGED phase /\ UNCHANGED bufferedMsgs
    BY <1>1, <1>4, HasPeer
  <2>2. /\ Has(stream, "unchoke") => Has(stream', "unchoke")
        /\ Has(toPeer', "interested") => Has(toPeer, "interested")
    BY <1>1, <1>4, HasPeer
  <2>3. \/ unchoked' = unchoked
           /\ (unchoked = "no" /\ Has(toPeer, "interested") => Has(toPeer', "interested"))
        \/ unchoked' \in {"early", "choked"}
        \/ /\ unchoked' = "yes"
           /\ Has(toPeer, "interested") /\ Has(stream', "unchoke")
    BY <1>1, <1>4, HasPeer
  <2>4. phase \in Unasked \ {"unchoke"} => unchoked' # "yes" /\ ~Has(toPeer', "interested")
    BY <2>2, <2>3 DEF UnchokeInv
  <2>5. phase = "unchoke" => \/ unchoked' = "no" /\ Has(toPeer', "interested")
                             \/ unchoked' \in {"early", "choked"}
                             \/ /\ unchoked' = "yes"
                                /\ Has(stream', "unchoke") \/ Has(bufferedMsgs, "unchoke")
    BY <2>2, <2>3 DEF UnchokeInv
  <2> QED BY <2>1, <2>4, <2>5 DEF UnchokeInv
<1>5. ASSUME NEW msg,
             Connects \/ NewClientReads \/ NewClientReturns \/ SetupKnows \/ SetupReads(msg)
      PROVE  UnchokeInv'
  <2>1. /\ phase \in Unasked \ {"unchoke"} /\ phase' # "unchoke"
        /\ UNCHANGED <<toPeer, unchoked>>
    BY <1>5 DEF Connects, NewClientReads, NewClientReturns, SetupKnows, SetupReads, Unasked,
                Early, peerVars
  <2> QED BY <2>1 DEF UnchokeInv
<1>6. CASE FetchMetadata
  <2>1. /\ phase = "ready" /\ phase' = "metadata" /\ unchoked' = unchoked
        /\ toPeer' = Append(toPeer, Msg("metadata", 0))
    BY <1>6 DEF FetchMetadata
  <2>2. unchoked # "yes" /\ ~Has(toPeer, "interested")
    BY <2>1 DEF UnchokeInv, Unasked, Early
  <2>3. Msg("metadata", 0) \in ToPeer /\ Msg("metadata", 0).id = "metadata"
    BY DEF Msg, ToPeer
  <2>4. ~Has(toPeer', "interested")
    BY <1>2, <2>1, <2>2, <2>3
  <2> QED BY <2>1, <2>2, <2>4 DEF UnchokeInv
<1>7. ASSUME NEW msg, MetadataReads(msg) PROVE UnchokeInv'
  <2>1. phase = "metadata" /\ unchoked' = unchoked
    BY <1>7 DEF MetadataReads
  <2>2. unchoked # "yes" /\ ~Has(toPeer, "interested")
    BY <2>1 DEF UnchokeInv, Unasked, Early
  <2>4. Len(metadata') \in Nat
    BY LenProperties DEF SyncTypeOK
  <2> DEFINE m == Msg("metadata", Len(metadata'))
  <2>5. m \in ToPeer /\ m.id = "metadata"
    BY <2>4 DEF Msg, ToPeer
  <2>6. Msg("interested", 0) \in ToPeer /\ Msg("interested", 0).id = "interested"
    BY DEF Msg, ToPeer
  <2>7. \/ phase' = "failed"
        \/ phase' = "unchoke" /\ toPeer' = Append(toPeer, Msg("interested", 0))
        \/ phase' = "metadata" /\ (toPeer' = toPeer \/ toPeer' = Append(toPeer, m))
    BY <1>7 DEF MetadataReads
  <2> HIDE DEF m
  <2>8. CASE phase' = "failed"
    BY <2>8 DEF UnchokeInv, Unasked, Early
  <2>9. CASE phase' = "unchoke"
    <3>1. Has(toPeer', "interested")
      BY <1>2, <2>6, <2>7, <2>9
    <3> QED BY <1>1, <2>1, <2>2, <2>9, <3>1 DEF UnchokeInv
  <2>10. CASE phase' = "metadata"
    <3>1. ~Has(toPeer', "interested")
      BY <1>2, <2>2, <2>5, <2>7, <2>10
    <3> QED BY <2>1, <2>2, <2>10, <3>1 DEF UnchokeInv
  <2> QED BY <2>7, <2>8, <2>9, <2>10
<1>8. ASSUME NEW msg, WaitForUnchoke(msg) PROVE UnchokeInv'
  <2>1. phase = "unchoke" /\ Reads(msg) /\ unchoked' = unchoked
    BY <1>8 DEF WaitForUnchoke
  <2>2. CASE msg.id = "unchoke"
    <3>1. phase' = "request"
      BY <1>8, <2>2 DEF WaitForUnchoke
    <3> QED BY <3>1 DEF UnchokeInv, Unasked, Early
  <2>3. CASE msg.id # "unchoke"
    <3>1. phase' = phase /\ toPeer' = toPeer
      BY <1>8, <2>3 DEF WaitForUnchoke
    <3>2. /\ Has(stream, "unchoke") => Has(stream', "unchoke")
          /\ Has(bufferedMsgs, "unchoke") => Has(bufferedMsgs', "unchoke")
      BY <2>1, <2>3, HasReads
    <3> QED BY <2>1, <3>1, <3>2 DEF UnchokeInv
  <2> QED BY <2>2, <2>3
<1>9. ASSUME NEW msg,
             DownloadPieceReads(msg) \/ DownloadPieceTimesOut \/ RequestBlocks \/ GivesUp
      PROVE  UnchokeInv'
  <2>1. phase' \in {"request", "piece", "failed", "panicked", "done"}
    BY <1>9 DEF DownloadPieceReads, DownloadPieceTimesOut, RequestBlocks, GivesUp, Ends
  <2> QED BY <2>1 DEF UnchokeInv, Unasked, Early
<1> QED BY <1>3, <1>4, <1>5, <1>6, <1>7, <1>8, <1>9 DEF SyncStep

\* No step loses the extension handshake.
LEMMA ExtensionStep ==
    ASSUME SyncTypeOK, SyncTypeOK', ExtensionInv, [SyncStep]_syncVars
    PROVE  ExtensionInv'
<1>0. ~torn /\ spoilt = {} /\ spoilt' = {}
  BY DEF SyncTypeOK
<1>1. CASE UNCHANGED syncVars
  BY <1>1 DEF ExtensionInv, syncVars, clientVars, peerVars
<1>2. CASE Peer
  <2>1. /\ UNCHANGED <<phase, metadataExtId, offers>>
        /\ Has(stream, "extension") => Has(stream', "extension")
        /\ "extension" \in greetings => "extension" \in greetings' \/ Has(stream', "extension")
    BY <1>0, <1>2, HasPeer
  <2> QED BY <2>1 DEF ExtensionInv
<1>3. CASE Connects \/ NewClientReturns
  <2>1. /\ phase \in {"none", "init"} /\ UNCHANGED <<metadataExtId, offers, greetings, stream>>
    BY <1>0, <1>3 DEF Connects, NewClientReturns, Interrupted, peerVars
  <2> QED BY <2>1 DEF ExtensionInv
<1>4. CASE NewClientReads
  <2>1. /\ phase = "init" /\ stream # <<>> /\ stream' = Tail(stream)
        /\ UNCHANGED <<phase, offers, greetings>>
        /\ metadataExtId' = (metadataExtId \/ (Head(stream).id = "extension" /\ offers))
    BY <1>4 DEF NewClientReads
  <2>2. Has(stream, "extension") <=> Head(stream).id = "extension" \/ Has(stream', "extension")
    BY <2>1, HasTail DEF SyncTypeOK
  <2> QED BY <2>1, <2>2 DEF ExtensionInv
<1>5. ASSUME NEW msg, SetupReads(msg) PROVE ExtensionInv'
  <2>1. /\ phase = "setup" /\ ~metadataExtId /\ Reads(msg) /\ UNCHANGED <<offers, greetings>>
        /\ phase' \in {"none", "init", "setup"} => msg.id # "extension"
    BY <1>5 DEF SetupReads
  <2>2. Has(stream, "extension") => Has(stream', "extension") \/ msg.id = "extension"
    BY <2>1, HasReads
  <2> QED BY <2>1, <2>2 DEF ExtensionInv
<1>6. ASSUME NEW msg,
             \/ SetupKnows \/ FetchMetadata \/ MetadataReads(msg) \/ WaitForUnchoke(msg)
             \/ DownloadPieceReads(msg) \/ DownloadPieceTimesOut \/ RequestBlocks \/ GivesUp
      PROVE  ExtensionInv'
  <2>1. phase' \notin {"none", "init", "setup"}
    BY <1>6 DEF SetupKnows, FetchMetadata, MetadataReads, WaitForUnchoke, DownloadPieceReads,
                DownloadPieceTimesOut, RequestBlocks, GivesUp, Ends
  <2> QED BY <2>1 DEF ExtensionInv
<1> QED BY <1>1, <1>2, <1>3, <1>4, <1>5, <1>6 DEF SyncStep

----------------------------------------------------------------------------
(* The command *)

\* Before blocks are asked for, only a deadline can have spoilt anything.
AskedInv == phase \in Unasked => ~Has(toPeer, "request") /\ spoilt \subseteq {"torn"}

LEMMA AskedStep ==
    ASSUME ConnTypeOK, AskedInv, [SyncStep]_syncVars
    PROVE  AskedInv'
<1> SUFFICES ASSUME phase' \in Unasked PROVE ~Has(toPeer', "request") /\ spoilt' \subseteq {"torn"}
  BY DEF AskedInv
<1>1. phase \in Unasked
  <2>1. {"request", "piece", "done", "failed", "panicked"} \cap Unasked = {}
    BY DEF Unasked, Early
  <2>2. CASE Peer \/ UNCHANGED syncVars \/ NewClientReads
    BY <2>2 DEF Peer, PeerAnswers, PeerAstray, PeerChokes, PeerGreets, NewClientReads, syncVars,
                clientVars
  <2>3. CASE Connects \/ NewClientReturns \/ SetupKnows \/ FetchMetadata
    BY <2>3 DEF Connects, NewClientReturns, SetupKnows, FetchMetadata, Unasked, Early
  <2>4. ASSUME NEW msg, SetupReads(msg) \/ MetadataReads(msg) \/ WaitForUnchoke(msg)
        PROVE  phase \in Unasked
    BY <2>4 DEF SetupReads, MetadataReads, WaitForUnchoke, Unasked, Early
  <2>5. ASSUME NEW msg, DownloadPieceReads(msg) \/ DownloadPieceTimesOut \/ RequestBlocks \/ GivesUp
        PROVE  phase' \in {"request", "piece", "done", "failed", "panicked"}
    BY <2>5 DEF DownloadPieceReads, DownloadPieceTimesOut, RequestBlocks, GivesUp, Ends
  <2> QED BY <2>1, <2>2, <2>3, <2>4, <2>5 DEF SyncStep
<1>2. /\ ~Has(toPeer, "request") /\ spoilt \subseteq {"torn"} /\ toPeer \in Seq(ToPeer)
      /\ {"request", "piece", "done", "failed", "panicked"} \cap Unasked = {}
  BY <1>1 DEF AskedInv, ConnTypeOK, Unasked, Early
<1>3. CASE UNCHANGED <<toPeer, spoilt>>
  BY <1>2, <1>3
<1>4. CASE PeerAnswers
  <2>1. toPeer # <<>> /\ toPeer' = Tail(toPeer)
    BY <1>4 DEF PeerAnswers
  <2>2. Has(toPeer, "request") <=> Head(toPeer).id = "request" \/ Has(Tail(toPeer), "request")
    BY <1>2, <2>1, HasTail
  <2>3. Head(toPeer).id # "request"
    BY <1>2, <2>2
  <2>4. spoilt' = spoilt
    BY <1>4, <2>3 DEF PeerAnswers
  <2> QED BY <1>2, <2>1, <2>2, <2>4
<1>5. CASE PeerAstray
  <2>1. toPeer # <<>> => Head(toPeer) \in ToPeer
    BY <1>2, HeadTailProperties
  <2>2. toPeer # <<>> => Head(toPeer).id # "noise"
    BY <2>1 DEF ToPeer
  <2> QED BY <1>5, <2>2 DEF PeerAstray
<1>6. CASE PeerChokes \/ (\E g \in greetings : PeerGreets(g)) \/ UNCHANGED syncVars
  BY <1>3, <1>6 DEF PeerChokes, PeerGreets, syncVars, peerVars
<1>7. CASE Connects \/ NewClientReads \/ SetupKnows
  BY <1>3, <1>7 DEF Connects, NewClientReads, SetupKnows, peerVars
<1>8. CASE NewClientReturns
  <2>1. toPeer' = toPeer /\ spoilt' \in {spoilt, spoilt \cup {"torn"}}
    BY <1>8 DEF NewClientReturns, Interrupted
  <2> QED BY <1>2, <2>1
<1>9. ASSUME NEW id \in {"metadata", "interested"}, NEW n \in Nat,
             toPeer' = Append(toPeer, Msg(id, n)), spoilt' = spoilt
      PROVE  ~Has(toPeer', "request") /\ spoilt' \subseteq {"torn"}
  <2>1. Msg(id, n) \in ToPeer /\ Msg(id, n).id # "request"
    BY DEF Msg, ToPeer
  <2>2. Has(Append(toPeer, Msg(id, n)), "request") <=>
           Has(toPeer, "request") \/ Msg(id, n).id = "request"
    BY <1>2, <2>1, HasAppend
  <2> QED BY <1>2, <1>9, <2>1, <2>2
<1>10. CASE FetchMetadata
  BY <1>9, <1>10 DEF FetchMetadata
<1>11. ASSUME NEW msg, MetadataReads(msg)
       PROVE  ~Has(toPeer', "request") /\ spoilt' \subseteq {"torn"}
  <2>1. ConnTypeOK'
    BY ConnTypes
  <2>2. Len(metadata') \in Nat
    BY <2>1, LenProperties DEF ConnTypeOK
  <2>3. /\ spoilt' = spoilt
        /\ \/ toPeer' = toPeer
           \/ \E id \in {"metadata", "interested"}, n \in Nat : toPeer' = Append(toPeer, Msg(id, n))
    BY <1>11, <2>2 DEF MetadataReads
  <2> QED BY <1>3, <1>9, <2>3
<1>12. ASSUME NEW msg, SetupReads(msg) \/ WaitForUnchoke(msg)
       PROVE  ~Has(toPeer', "request") /\ spoilt' \subseteq {"torn"}
  BY <1>3, <1>12 DEF SetupReads, WaitForUnchoke
<1>13. ASSUME NEW msg, DownloadPieceReads(msg) \/ DownloadPieceTimesOut \/ RequestBlocks \/ GivesUp
       PROVE  FALSE
  <2>1. phase' \in {"request", "piece", "done", "failed", "panicked"}
    BY <1>13 DEF DownloadPieceReads, DownloadPieceTimesOut, RequestBlocks, GivesUp, Ends
  <2> QED BY <1>2, <2>1
<1> QED BY <1>4, <1>5, <1>6, <1>7, <1>8, <1>10, <1>11, <1>12, <1>13 DEF SyncStep, Peer

\* As long as nothing has gone wrong, what is on its way is in order.
InOrder == MetaInv /\ PieceInv /\ UnchokeInv /\ ExtensionInv

SyncInv == ConnTypeOK /\ AskedInv /\ HonestPeerMatches /\ (spoilt = {} => InOrder)

\* Nothing is read when nothing is on its way.
LEMMA NothingToRead ==
    ASSUME SyncTypeOK, NEW k \in Nat
    PROVE  bufferedMsgs = <<>> /\ stream = <<>> /\ toPeer = <<>> =>
             MetaEnd(k) = k /\ NextEnd(k) = k /\ CountEnd(k) = k
<1>1. bufferedMsgs \in Seq(Msgs) /\ stream \in Seq(Msgs) /\ toPeer \in Seq(Msgs) /\ k \in Int
  BY Carried DEF SyncTypeOK
<1>2. bufferedMsgs = <<>> /\ stream = <<>> /\ toPeer = <<>> => MetaEnd(k) = k
  <2>1. Automaton(MetaNext, Int, Msgs) /\ k \in Int
    BY MetaNextReads
  <2>2. Silent(bufferedMsgs, stream, toPeer) =>
           EndOf(MetaNext, bufferedMsgs, stream, toPeer, k) = k
    BY <1>1, <2>1, EndEmpty
  <2> QED BY <2>2 DEF MetaEnd, Silent
<1>3. bufferedMsgs = <<>> /\ stream = <<>> /\ toPeer = <<>> => NextEnd(k) = k
  <2>1. Automaton(BlockNext, Int, Msgs) /\ k \in Int
    BY BlockReads
  <2>2. Silent(bufferedMsgs, stream, toPeer) =>
           EndOf(BlockNext, bufferedMsgs, stream, toPeer, k) = k
    BY <1>1, <2>1, EndEmpty
  <2> QED BY <2>2 DEF NextEnd, Silent
<1>4. bufferedMsgs = <<>> /\ stream = <<>> /\ toPeer = <<>> => CountEnd(k) = k
  <2>1. Automaton(BlockCount, Nat, Msgs) /\ k \in Nat
    BY BlockReads
  <2>2. Silent(bufferedMsgs, stream, toPeer) =>
           EndOf(BlockCount, bufferedMsgs, stream, toPeer, k) = k
    BY <1>1, <2>1, EndEmpty
  <2> QED BY <2>2 DEF CountEnd, Silent
<1> QED BY <1>2, <1>3, <1>4

\* Nothing is on its way when the command begins.
LEMMA InitSyncInv == SyncInit => SyncInv
<1> SUFFICES ASSUME SyncInit PROVE SyncInv
  OBVIOUS
<1>0. MetaPieces \in Nat \ {0} /\ Blocks \in Nat \ {0} /\ MaxAttempts \in Nat \ {0}
  BY SyncAssumption
<1>1. /\ bufferedMsgs = <<>> /\ stream = <<>> /\ toPeer = <<>> /\ metadata = <<>>
      /\ phase = "none" /\ received = 0 /\ got = {} /\ unchoked = "no" /\ mismatch = {}
      /\ "extension" \in greetings /\ attempt = 0 /\ torn = FALSE /\ spoilt = {}
      /\ metadataExtId \in BOOLEAN /\ offers \in BOOLEAN
  BY GreetingsAssumption DEF SyncInit
<1>2. greetings \subseteq {"extension", "bitfield", "unchoke", "choke"}
  BY GreetingsAssumption DEF SyncInit
<1>3. \A S : <<>> \in Seq(S)
  BY EmptySeq
<1>5. ConnTypeOK
  <2>1. 0 \in 0 .. MaxAttempts /\ 0 \in 0 .. Blocks - 1 /\ "none" \in Unasked
    BY <1>0 DEF Unasked, Early
  <2>2. Len(metadata) = 0
    BY <1>1
  <2>3. /\ Len(metadata) <= MetaPieces /\ Len(metadata) < MetaPieces
        /\ attempt \in 0 .. MaxAttempts /\ received \in 0 .. Blocks - 1
    BY <1>0, <1>1, <2>1, <2>2
  <2>4. /\ bufferedMsgs \in Seq(FromPeer) /\ stream \in Seq(FromPeer) /\ toPeer \in Seq(Sent)
        /\ toPeer \in Seq(ToPeer) /\ metadata \in Seq(Nat)
    BY <1>1, <1>3
  <2>5. torn \in BOOLEAN /\ ~torn
    BY <1>1
  <2>6. got \subseteq 1 .. Blocks /\ mismatch \subseteq {"metadata", "piece"}
        /\ spoilt \subseteq {"torn", "dropped", "write"}
    BY <1>1
  <2>7. phase \in Unasked /\ unchoked \in {"no", "early", "yes", "choked"}
        /\ metadataExtId \in BOOLEAN /\ offers \in BOOLEAN
    BY <1>1, <2>1
  <2> QED BY <1>2, <2>3, <2>4, <2>5, <2>6, <2>7 DEF ConnTypeOK
<1>4. SyncTypeOK
  BY <1>1, <1>5, CleanTypes
<1>12. AskedInv
  BY <1>1, HasEmpty DEF AskedInv
<1>6. MetaEnd(0) = 0 /\ NextEnd(1) = 1 /\ CountEnd(0) = 0
  BY <1>1, <1>4, NothingToRead
<1>7. Len(metadata) = 0
  BY <1>1
<1>8. MetaInv
  BY <1>0, <1>1, <1>6, <1>7 DEF MetaInv
<1>9. PieceInv
  BY <1>1, <1>6 DEF PieceInv
<1>10. UnchokeInv
  BY <1>1, HasEmpty DEF UnchokeInv
<1>11. ExtensionInv
  BY <1>1 DEF ExtensionInv
<1> QED BY <1>1, <1>5, <1>8, <1>9, <1>10, <1>11, <1>12 DEF SyncInv, InOrder, HonestPeerMatches

\* Every step of the connection.
LEMMA NextSyncInv == ASSUME SyncInv, [SyncStep]_syncVars PROVE SyncInv'
<1>1. ConnTypeOK /\ AskedInv /\ HonestPeerMatches /\ (spoilt = {} => InOrder)
  BY DEF SyncInv
<1>2. ConnTypeOK' /\ AskedInv' /\ spoilt \subseteq spoilt'
  BY <1>1, ConnTypes, AskedStep, SpoiltStays
<1>3. \/ mismatch' = mismatch
      \/ phase = "metadata" /\ mismatch' = mismatch \cup {"metadata"}
      \/ phase = "piece" /\ mismatch' = mismatch \cup {"piece"}
  <2>1. CASE Peer \/ UNCHANGED syncVars
    BY <2>1 DEF Peer, PeerAnswers, PeerAstray, PeerChokes, PeerGreets, syncVars, clientVars
  <2>2. CASE SyncStep /\ ~Peer
    BY <2>2 DEF SyncStep, Connects, NewClientReads, NewClientReturns, SetupKnows, SetupReads,
        FetchMetadata, MetadataReads, WaitForUnchoke, RequestBlocks, DownloadPieceReads,
        DownloadPieceTimesOut, GivesUp, Ends
  <2> QED BY <2>1, <2>2
<1>4. CASE spoilt' = {}
  <2>1. spoilt = {} /\ InOrder
    BY <1>1, <1>2, <1>4
  <2>2. SyncTypeOK /\ SyncTypeOK'
    <3>1. SyncTypeOK
      BY <1>1, <2>1, CleanTypes
    <3>2. SyncTypeOK'
      BY <1>2, <1>4 DEF ConnTypeOK, SyncTypeOK
    <3> QED BY <3>1, <3>2
  <2>3. MetaInv' /\ (phase = "metadata" => mismatch' = mismatch)
    BY <2>1, <2>2, MetaStep DEF InOrder
  <2>4. PieceInv' /\ (phase = "piece" => mismatch' = mismatch)
    BY <2>1, <2>2, PieceStep DEF InOrder
  <2>5. UnchokeInv' /\ ExtensionInv'
    BY <2>1, <2>2, UnchokeStep, ExtensionStep DEF InOrder
  <2>6. HonestPeerMatches'
    BY <1>1, <1>3, <1>4, <2>1, <2>3, <2>4 DEF HonestPeerMatches
  <2> QED BY <1>2, <2>3, <2>4, <2>5, <2>6 DEF SyncInv, InOrder
<1>5. CASE spoilt' # {}
  <2>1. "metadata" \in mismatch' => "torn" \in spoilt'
    <3>1. CASE "metadata" \in mismatch
      BY <1>1, <1>2, <3>1 DEF HonestPeerMatches
    <3>2. CASE "metadata" \notin mismatch /\ "metadata" \in mismatch'
      <4>1. phase = "metadata"
        BY <1>3, <3>2
      <4>2. spoilt \subseteq {"torn"}
        BY <1>1, <4>1 DEF AskedInv, Unasked
      <4>3. spoilt # {}
        <5> SUFFICES ASSUME spoilt = {} PROVE FALSE
          OBVIOUS
        <5>1. SyncTypeOK /\ MetaInv
          BY <1>1, CleanTypes DEF InOrder
        <5>2. PICK msg : MetadataReads(msg)
          <6>1. CASE Peer \/ UNCHANGED syncVars
            BY <3>2, <6>1 DEF Peer, PeerAnswers, PeerAstray, PeerChokes, PeerGreets, syncVars,
                  clientVars
          <6>2. CASE SyncStep /\ ~Peer
            BY <3>2, <4>1, <6>2 DEF SyncStep, Connects, NewClientReads, NewClientReturns,
                  SetupKnows, SetupReads, FetchMetadata, WaitForUnchoke, RequestBlocks,
                  DownloadPieceReads, DownloadPieceTimesOut, GivesUp, Ends
          <6> QED BY <6>1, <6>2
        <5>3. spoilt' = spoilt
          BY <5>2 DEF MetadataReads
        <5> QED BY <1>5, <5>3
      <4> QED BY <1>2, <4>2, <4>3
    <3> QED BY <3>1, <3>2
  <2>2. HonestPeerMatches'
    BY <1>5, <2>1 DEF HonestPeerMatches
  <2> QED BY <1>2, <1>5, <2>2 DEF SyncInv
<1> QED BY <1>4, <1>5

\* Nobody waits for a message that will not come.
LEMMA SyncInvNeverStarved == SyncInv => NeverStarved
<1> SUFFICES ASSUME SyncInv,
                    phase \in {"metadata", "unchoke", "piece"} \/ (phase = "setup" /\ ~metadataExtId),
                    bufferedMsgs = <<>>, torn \/ stream = <<>>, toPeer = <<>>,
                    "extension" \notin greetings
             PROVE  \/ "torn" \in spoilt
                    \/ phase = "setup" /\ ~offers
                    \/ phase = "unchoke" /\ unchoked \in {"early", "choked"}
                    \/ phase = "piece" /\ spoilt # {}
  BY DEF NeverStarved
<1>0. ConnTypeOK /\ AskedInv /\ (spoilt = {} => InOrder)
  BY DEF SyncInv
<1> SUFFICES ASSUME spoilt = {}
             PROVE  \/ phase = "setup" /\ ~offers
                    \/ phase = "unchoke" /\ unchoked \in {"early", "choked"}
  <2>1. phase # "piece" => phase \in Unasked
    BY DEF Unasked, Early
  <2>2. phase # "piece" /\ "torn" \notin spoilt => spoilt = {}
    BY <1>0, <2>1 DEF AskedInv
  <2> QED BY <2>2
<1>1. SyncTypeOK /\ MetaInv /\ PieceInv /\ UnchokeInv /\ ExtensionInv
  BY <1>0, CleanTypes DEF InOrder
<1>8. stream = <<>>
  BY <1>1 DEF SyncTypeOK
<1>2. \A id : ~Has(bufferedMsgs, id) /\ ~Has(stream, id) /\ ~Has(toPeer, id)
  BY <1>8, HasEmpty
<1>3. \A k \in Nat : MetaEnd(k) = k /\ CountEnd(k) = k
  BY <1>1, <1>8, NothingToRead
<1>4. phase # "metadata"
  <2>1. Len(metadata) \in Nat
    BY <1>1, LenProperties DEF SyncTypeOK
  <2>2. MetaEnd(Len(metadata)) = Len(metadata)
    BY <1>3, <2>1
  <2> QED BY <1>1, <2>1, <2>2 DEF MetaInv
<1>5. phase # "piece"
  <2> SUFFICES ASSUME phase = "piece" PROVE FALSE
    OBVIOUS
  <2>1. PICK e \in 1 .. Blocks, r \in Nat : CountEnd(r) >= r + Blocks - received
    BY <1>1 DEF PieceInv, Owed
  <2>2. CountEnd(r) = r
    BY <1>3
  <2> QED BY <1>1, <2>1, <2>2, SyncAssumption DEF SyncTypeOK
<1>6. phase = "unchoke" => unchoked \in {"early", "choked"}
  BY <1>1, <1>2 DEF UnchokeInv
<1>7. phase = "setup" /\ ~metadataExtId => ~offers
  BY <1>1, <1>2 DEF ExtensionInv
<1> QED BY <1>4, <1>5, <1>6, <1>7

CommandIInv == SearchInv /\ SyncInv

\* Both invariants are kept by the command.
LEMMA CommandInvariant == CommandSpec => []CommandIInv
<1>1. CommandInit => CommandIInv
  BY InitSearchInv, InitSyncInv DEF CommandInit, CommandIInv
<1>2. CommandIInv /\ [CommandNext]_commandVars => CommandIInv'
  BY CommandSteps, NextSearchInv, NextSyncInv DEF CommandIInv
<1> QED BY <1>1, <1>2, PTL DEF CommandSpec

\* The state of magnet_download_piece has its type and no connection that its
\* dialers open is leaked, for every number of peers and every order in which
\* dials succeed and fail.
THEOREM CommandSafe == CommandSpec => []CommandInv
<1>1. CommandIInv => CommandInv
  <2> SUFFICES ASSUME CommandIInv PROVE CommandInv
    OBVIOUS
  <2>1. SearchTypeOK /\ NoConnectionLeaked /\ ConnTypeOK
    BY DEF CommandIInv, SearchInv, SyncInv
  <2>2. {done, completed, closed, metadataExtId, torn, offers} \subseteq BOOLEAN
    BY <2>1 DEF SearchTypeOK, ConnTypeOK
  <2>3. phase \in {"none", "init", "setup", "ready", "metadata", "unchoke", "request",
                   "piece", "done", "failed", "panicked"}
    BY <2>1 DEF ConnTypeOK, Unasked, Early, Over
  <2> QED BY <2>1, <2>2, <2>3 DEF CommandInv, CommandTypeOK, SearchTypeOK, ConnTypeOK
<1> QED BY <1>1, CommandInvariant, PTL

\* connectToWorkingPeer reports an error only when every dialer has ended and none
\* has delivered a client.
THEOREM CommandError == CommandSpec => []ErrorMeansAllFailed
<1>1. CommandIInv => ErrorMeansAllFailed
  BY DEF CommandIInv, SearchInv, Delivery, AllEnded, ErrorMeansAllFailed
<1> QED BY <1>1, CommandInvariant, PTL

\* With an honest peer the hash of the metadata agrees unless a deadline has cut a
\* message in two, and that of the piece unless besides requests were cut off or
\* dropped by a peer that chokes: for every number of pieces, blocks and attempts,
\* though answers are taken as they come and those to a timed-out attempt are
\* counted in the next.
THEOREM CommandMatches == CommandSpec => []HonestPeerMatches
<1>1. CommandIInv => HonestPeerMatches
  BY DEF CommandIInv, SyncInv
<1> QED BY <1>1, CommandInvariant, PTL

\* The client never waits for a peer that has sent all it must send, apart from
\* the cases the property names.
THEOREM CommandNeverStarved == CommandSpec => []NeverStarved
<1>1. CommandIInv => NeverStarved
  BY SyncInvNeverStarved DEF CommandIInv
<1> QED BY <1>1, CommandInvariant, PTL
=============================================================================
