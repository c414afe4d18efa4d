-------------------------- MODULE PeerClientProofs --------------------------
(***************************************************************************)
(* The safety of one peer connection for every set of blocks, every limit  *)
(* and every capacity of its channels.                                     *)
(*                                                                         *)
(* The three invariants of the runs need, besides each other, what the     *)
(* local variables of the goroutines mean at each of their labels (Roles): *)
(* a message is held only while it is being sent, a stalled request only   *)
(* while it is being reported, and a score over the limit is seen before   *)
(* the next scan can add to it.                                            *)
(***************************************************************************)
EXTENDS PeerClient, FiniteSetTheorems, SequenceTheorems, TLAPS

Sendable == Incoming \cup {DroppedMsg} \cup {TimeoutMsg(b) : b \in Blocks}

Roles ==
    /\ IF reader = "send" THEN readMsg \in Incoming \cup {DroppedMsg}
                          ELSE readMsg = Plain("none")
    /\ IF ticker = "report" THEN reporting \in Blocks ELSE reporting = NoBlock
    /\ ticker = "exited" => closed
    /\ stallScore > MaxStalls => ticker \in {"cancel", "report", "exited"}
    /\ phase # "loop" => caller = "select" /\ awaiting = {}

IInv == TypeOK /\ Roles /\ NoRequestForgotten

----------------------------------------------------------------------------
(* Messages and channels *)

\* The block a message is about, if any.
LEMMA MessageBlocks ==
    /\ \A m \in Incoming : m.block \in Blocks \cup {NoBlock}
    /\ \A m \in Incoming : m.id = "keepalive" => m.block = NoBlock
    /\ \A id : Plain(id).block = NoBlock
    /\ DroppedMsg.block = NoBlock
    /\ \A b : TimeoutMsg(b).block = b
  BY DEF Incoming, Plain, PieceMsg, TimeoutMsg, DroppedMsg

BlocksIn(ch) == {ch[i].block : i \in DOMAIN ch}

\* A send.
LEMMA Send ==
    ASSUME NEW T, NEW ch \in Seq(T), NEW m \in T, NEW cap \in Nat, Len(ch) < cap
    PROVE  /\ Append(ch, m) \in Seq(T) /\ Len(Append(ch, m)) <= cap
           /\ BlocksIn(Append(ch, m)) = BlocksIn(ch) \cup {m.block}
<1> DEFINE ap == Append(ch, m)
<1>1. /\ ap \in Seq(T) /\ Len(ap) = Len(ch) + 1 /\ ap[Len(ch) + 1] = m
      /\ \A i \in 1 .. Len(ch) : ap[i] = ch[i]
  BY AppendProperties
<1>2. DOMAIN ap = 1 .. Len(ch) + 1 /\ DOMAIN ch = 1 .. Len(ch) /\ Len(ch) \in Nat
  BY <1>1, LenProperties
<1> HIDE DEF ap
<1>3. BlocksIn(ap) = BlocksIn(ch) \cup {m.block}
  BY <1>1, <1>2 DEF BlocksIn
<1> QED BY <1>1, <1>2, <1>3 DEF ap

\* A receive takes at most the block of the first message away.
LEMMA Receive ==
    ASSUME NEW T, NEW ch \in Seq(T), ch # <<>>, NEW cap \in Nat, Len(ch) <= cap
    PROVE  /\ Head(ch) \in T /\ Tail(ch) \in Seq(T) /\ Len(Tail(ch)) <= cap
           /\ BlocksIn(ch) \subseteq BlocksIn(Tail(ch)) \cup {Head(ch).block}
<1> DEFINE t == Tail(ch)
<1>1. /\ Head(ch) \in T /\ t \in Seq(T) /\ Len(t) = Len(ch) - 1
      /\ \A i \in 1 .. Len(t) : t[i] = ch[i + 1]
  BY HeadTailProperties
<1>2. Len(ch) \in Nat /\ Len(ch) > 0 /\ DOMAIN ch = 1 .. Len(ch) /\ Head(ch) = ch[1]
  BY EmptySeq, LenProperties
<1>3. DOMAIN t = 1 .. Len(ch) - 1
  BY <1>1, LenProperties
<1> HIDE DEF t
<1>4. ASSUME NEW i \in 1 .. Len(ch) PROVE ch[i].block \in BlocksIn(t) \cup {Head(ch).block}
  <2>1. CASE i = 1
    BY <1>2, <2>1
  <2>2. CASE i # 1
    <3>1. i - 1 \in 1 .. Len(ch) - 1 /\ (i - 1) + 1 = i
      BY <1>2, <2>2
    <3>2. t[i - 1] = ch[i]
      BY <1>1, <3>1
    <3> QED BY <1>3, <3>1, <3>2 DEF BlocksIn
  <2> QED BY <2>1, <2>2
<1>5. BlocksIn(ch) \subseteq BlocksIn(t) \cup {Head(ch).block}
  BY <1>2, <1>4 DEF BlocksIn
<1> QED BY <1>1, <1>2, <1>5 DEF t

\* The requests in flight and those that are late are finite in number.
LEMMA InFlightFinite ==
    ASSUME TypeOK
    PROVE  /\ IsFiniteSet(outstanding) /\ Cardinality(outstanding) \in Nat
           /\ \A S : S \subseteq outstanding =>
                 /\ IsFiniteSet(S) /\ Cardinality(S) \in Nat
                 /\ Cardinality(S) <= Cardinality(outstanding)
                 /\ Cardinality(S) <= MaxOutstanding
<1>1. outstanding \subseteq Blocks /\ IsFiniteSet(Blocks) /\ MaxOutstanding \in Nat
      /\ Cardinality(outstanding) <= MaxOutstanding
  BY ClientAssumption DEF TypeOK
<1>2. IsFiniteSet(outstanding) /\ Cardinality(outstanding) \in Nat
  BY <1>1, FS_Subset, FS_CardinalityType
<1>3. ASSUME NEW S, S \subseteq outstanding
      PROVE  /\ IsFiniteSet(S) /\ Cardinality(S) \in Nat
             /\ Cardinality(S) <= Cardinality(outstanding)
  BY <1>2, <1>3, FS_Subset, FS_CardinalityType
<1> QED BY <1>1, <1>2, <1>3

----------------------------------------------------------------------------
(* What is being waited for *)

\* Where an answer or a timeout may be on its way.
Tracked ==
    outstanding \cup {readMsg.block, reporting}
    \cup (IF ticker = "cancel" \/ ticker = "report" THEN stalled ELSE {})
    \cup BlocksIn(msgChan)

\* NoRequestForgotten in terms of Tracked.
LEMMA ForgottenTracked ==
    /\ NoRequestForgotten <=> (Open => awaiting \subseteq Tracked)
    /\ NoRequestForgotten' <=> (Open' => awaiting' \subseteq Tracked')
  BY DEF NoRequestForgotten, Tracked, BlocksIn

\* A step that neither opens the connection, nor makes a request, nor loses track
\* of a block keeps NoRequestForgotten.
LEMMA TrackedFrame ==
    ASSUME NoRequestForgotten, Open' => Open, awaiting' \subseteq awaiting,
           Open' => Tracked \cap awaiting' \subseteq Tracked'
    PROVE  NoRequestForgotten'
  BY ForgottenTracked

\* What Tracked depends on.
LEMMA TrackedUnchanged ==
    ASSUME UNCHANGED <<outstanding, readMsg, reporting, ticker, stalled, msgChan>>
    PROVE  Tracked' = Tracked
  BY DEF Tracked, BlocksIn

----------------------------------------------------------------------------
(* NewClient and StartLoop *)

\* A client that has not dialed yet.
LEMMA InitIInv == Init => IInv
<1> SUFFICES ASSUME Init PROVE IInv
  OBVIOUS
<1>1. Cardinality({}) = 0
  BY FS_EmptySet
<1>2. TypeOK
  <2>1. bufferedMsgs \in Seq(Incoming) /\ msgChan \in Seq(Sendable) /\ Len(msgChan) = 0
    BY EmptySeq DEF Init
  <2>2. /\ Cardinality(outstanding) <= MaxOutstanding /\ Len(msgChan) <= MsgCap
        /\ stallScore \in 0 .. MaxStalls + MaxOutstanding /\ writeCh \in 0 .. WriteCap
    BY <1>1, <2>1, ClientAssumption DEF Init
  <2>3. readMsg \in Incoming \cup {DroppedMsg, Plain("none")}
    BY DEF Init
  <2>4. /\ phase = "init" /\ choked = FALSE /\ silent = FALSE /\ quiet = FALSE
        /\ outstanding = {} /\ late = {} /\ closed = FALSE
        /\ reader = "read" /\ writer = "select" /\ ticker = "wait"
        /\ stalled = {} /\ reporting = NoBlock /\ caller = "select" /\ awaiting = {}
    BY DEF Init
  <2> QED BY <2>1, <2>2, <2>3, <2>4 DEF TypeOK, Sendable
<1>3. Roles
  BY ClientAssumption DEF Init, Roles
<1>4. NoRequestForgotten
  BY DEF Init, NoRequestForgotten, Open
<1> QED BY <1>2, <1>3, <1>4 DEF IInv

\* Before the loops start nothing is asked for.
LEMMA StartKeepsIInv ==
    ASSUME IInv,
           \/ NewClientFails
           \/ \E m \in Incoming : NewClientReads(m)
           \/ StartLoop \/ StartLoopDrains \/ StartLoopEnds
    PROVE  IInv'
<1> USE DEF stateVars, initVars, readerVars, tickerVars, callerVars
<1>1. TypeOK /\ Roles /\ NoRequestForgotten
  BY DEF IInv
<1>2. phase # "loop" /\ awaiting = {} /\ caller = "select"
  BY <1>1 DEF NewClientFails, NewClientReads, StartLoop, StartLoopDrains, StartLoopEnds, Roles
<1>3. awaiting' = {} /\ caller' = "select"
  BY <1>2 DEF NewClientFails, NewClientReads, StartLoop, StartLoopDrains, StartLoopEnds
<1>4. NoRequestForgotten'
  BY <1>3, ForgottenTracked
<1>5. CASE NewClientFails \/ StartLoop
  <2>1. phase' \in {"drain", "failed"} /\ choked' \in BOOLEAN /\ closed' \in BOOLEAN
        /\ (closed => closed')
    BY <1>1, <1>5 DEF NewClientFails, StartLoop, TypeOK
  <2>2. UNCHANGED <<bufferedMsgs, outstanding, late, silent, quiet, stallScore, writeCh,
                    msgChan, readerVars, writer, tickerVars, callerVars>>
    BY <1>5 DEF NewClientFails, StartLoop
  <2>3. TypeOK'
    BY <1>1, <2>1, <2>2 DEF TypeOK
  <2>4. Roles'
    BY <1>1, <2>1, <2>2, <1>3 DEF Roles
  <2> QED BY <1>4, <2>3, <2>4 DEF IInv
<1>6. ASSUME NEW m \in Incoming, NewClientReads(m) PROVE IInv'
  <2>1. bufferedMsgs' \in Seq(Incoming)
    BY <1>1, <1>6, AppendProperties DEF NewClientReads, TypeOK
  <2> QED BY <1>1, <1>3, <1>4, <1>6, <2>1 DEF NewClientReads, TypeOK, Roles, IInv
<1>7. CASE StartLoopDrains
  <2>1. Head(bufferedMsgs) \in Incoming /\ bufferedMsgs' \in Seq(Incoming)
    BY <1>1, <1>7, HeadTailProperties DEF StartLoopDrains, TypeOK
  <2>2. msgChan \in Seq(Sendable) /\ Head(bufferedMsgs) \in Sendable /\ MsgCap \in Nat
        /\ Len(msgChan) < MsgCap
    BY <1>1, <1>7, <2>1, ClientAssumption DEF TypeOK, Sendable, StartLoopDrains, MsgRoom
  <2>3. msgChan' \in Seq(Sendable) /\ Len(msgChan') <= MsgCap
    BY <1>7, <2>2, Send DEF StartLoopDrains
  <2>4. TypeOK'
    BY <1>1, <1>7, <2>1, <2>3 DEF StartLoopDrains, TypeOK, Sendable
  <2> QED BY <1>1, <1>3, <1>4, <1>7, <2>4 DEF StartLoopDrains, Roles, IInv
<1>8. CASE StartLoopEnds
  <2>1. writeCh' \in 0 .. WriteCap
    BY <1>8, ClientAssumption DEF StartLoopEnds
  <2> QED BY <1>1, <1>3, <1>4, <1>8, <2>1 DEF StartLoopEnds, TypeOK, Roles, IInv
<1> QED BY <1>5, <1>6, <1>7, <1>8

----------------------------------------------------------------------------
(* readLoop *)

\* An answer leaves the map for readLoop's hands.
LEMMA ReaderReadsKeepsIInv ==
    ASSUME IInv, NEW m \in Incoming, ReaderReads(m)
    PROVE  IInv'
<1> USE DEF initVars, tickerVars, callerVars
<1>1. TypeOK /\ Roles /\ NoRequestForgotten
  BY DEF IInv
<1>2. outstanding' \subseteq outstanding /\ late' \subseteq outstanding'
      /\ Cardinality(outstanding') <= MaxOutstanding
  BY <1>1, InFlightFinite DEF ReaderReads, TypeOK
<1>3. choked' \in BOOLEAN
  BY <1>1 DEF ReaderReads, TypeOK
<1>4. readMsg' \in {readMsg, m} /\ reader' \in {"read", "send"}
      /\ IF reader' = "send" THEN readMsg' = m ELSE readMsg' = readMsg
  BY DEF ReaderReads, readerVars
<1>5. TypeOK'
  <2>1. readMsg' \in Incoming \cup {DroppedMsg, Plain("none")}
    BY <1>1, <1>4 DEF TypeOK
  <2>2. /\ silent' = FALSE
        /\ UNCHANGED <<phase, bufferedMsgs, quiet, stallScore, closed, writeCh, msgChan,
                       writer, ticker, stalled, reporting, caller, awaiting>>
    BY DEF ReaderReads
  <2>3. outstanding' \subseteq Blocks
    BY <1>1, <1>2 DEF TypeOK
  <2> QED BY <1>1, <1>2, <1>3, <1>4, <2>1, <2>2, <2>3 DEF TypeOK
<1>6. readMsg = Plain("none")
  BY <1>1 DEF Roles, ReaderReads
<1>7. Roles'
  BY <1>1, <1>4, <1>6 DEF Roles, ReaderReads
<1>8. awaiting' = awaiting /\ (Open' => Open) /\ awaiting \subseteq Blocks
  BY <1>1 DEF ReaderReads, Open, TypeOK
<1>9. Tracked \cap awaiting \subseteq Tracked'
  <2>1. readMsg.block = NoBlock /\ NoBlock \notin awaiting
    BY <1>6, <1>8, MessageBlocks, ClientAssumption
  <2>2. outstanding' = outstanding \ {m.block}
        /\ UNCHANGED <<ticker, stalled, reporting, msgChan>>
    BY DEF ReaderReads
  <2>3. CASE m.id = "keepalive"
    <3>1. m.block \notin awaiting
      BY <2>1, <2>3, MessageBlocks
    <3> QED BY <2>1, <2>2, <3>1 DEF Tracked, BlocksIn
  <2>4. CASE m.id # "keepalive"
    <3>1. readMsg' = m
      BY <2>4 DEF ReaderReads
    <3> QED BY <2>1, <2>2, <3>1 DEF Tracked, BlocksIn
  <2> QED BY <2>3, <2>4
<1>10. NoRequestForgotten'
  BY <1>1, <1>8, <1>9, TrackedFrame
<1> QED BY <1>5, <1>7, <1>10 DEF IInv

\* readLoop fails, sends, or gives up sending.
LEMMA ReaderKeepsIInv ==
    ASSUME IInv, Reader
    PROVE  IInv'
<1> USE DEF stateVars, initVars, readerVars, tickerVars, callerVars
<1>1. TypeOK /\ Roles /\ NoRequestForgotten
  BY DEF IInv
<1>2. CASE ReaderFails
  <2>1. TypeOK' /\ Roles'
    BY <1>1, <1>2 DEF ReaderFails, TypeOK, Roles
  <2>2. readMsg.block = NoBlock /\ NoBlock \notin awaiting
    BY <1>1, <1>2, MessageBlocks, ClientAssumption DEF Roles, ReaderFails, TypeOK
  <2>3. Tracked \cap awaiting \subseteq Tracked'
    BY <1>2, <2>2 DEF ReaderFails, Tracked, BlocksIn
  <2>4. NoRequestForgotten'
    BY <1>1, <1>2, <2>3, TrackedFrame DEF ReaderFails, Open
  <2> QED BY <2>1, <2>4 DEF IInv
<1>3. CASE ReaderSends
  <2>1. readMsg \in Incoming \cup {DroppedMsg}
    BY <1>1, <1>3 DEF Roles, ReaderSends
  <2>2. msgChan \in Seq(Sendable) /\ readMsg \in Sendable /\ MsgCap \in Nat
        /\ Len(msgChan) < MsgCap
    BY <1>1, <1>3, <2>1, ClientAssumption DEF TypeOK, Sendable, ReaderSends, MsgRoom
  <2>3. msgChan' \in Seq(Sendable) /\ Len(msgChan') <= MsgCap
        /\ BlocksIn(msgChan') = BlocksIn(msgChan) \cup {readMsg.block}
    BY <1>3, <2>2, Send DEF ReaderSends
  <2>4. reader' \in {"read", "exited"} /\ closed' \in BOOLEAN /\ (closed => closed')
    BY <1>1, <1>3 DEF ReaderSends, TypeOK
  <2>5. TypeOK'
    BY <1>1, <1>3, <2>3, <2>4 DEF ReaderSends, TypeOK, Sendable
  <2>6. Roles'
    BY <1>1, <1>3, <2>4 DEF ReaderSends, Roles
  <2>7. Tracked \subseteq Tracked'
    BY <1>3, <2>3 DEF ReaderSends, Tracked
  <2>8. NoRequestForgotten'
    BY <1>1, <1>3, <2>4, <2>7, TrackedFrame DEF ReaderSends, Open
  <2> QED BY <2>5, <2>6, <2>8 DEF IInv
<1>4. CASE ReaderAborts
  <2>1. TypeOK' /\ Roles'
    BY <1>1, <1>4 DEF ReaderAborts, TypeOK, Roles
  <2>2. NoRequestForgotten'
    BY <1>4, ForgottenTracked DEF ReaderAborts, Open
  <2> QED BY <2>1, <2>2 DEF IInv
<1> QED BY <1>2, <1>3, <1>4, ReaderReadsKeepsIInv DEF Reader

----------------------------------------------------------------------------
(* writeLoop *)

\* writeLoop takes messages out of its channel; when a write fails it closes.
LEMMA WriterKeepsIInv ==
    ASSUME IInv, Writer
    PROVE  IInv'
<1> USE DEF stateVars, initVars, readerVars, tickerVars, callerVars
<1>1. TypeOK /\ Roles /\ NoRequestForgotten
  BY DEF IInv
<1>2. /\ writer' \in {"select", "write", "exited"} /\ quiet' \in BOOLEAN
      /\ closed' \in BOOLEAN /\ (closed => closed')
  BY <1>1 DEF Writer, WriterTakes, WriterWrote, WriterFails, WriterEnds, TypeOK
<1>3. writeCh' \in 0 .. WriteCap
  BY <1>1, ClientAssumption
     DEF Writer, WriterTakes, WriterWrote, WriterFails, WriterEnds, TypeOK
<1>4. UNCHANGED <<phase, bufferedMsgs, choked, outstanding, late, silent, stallScore,
                  msgChan, readerVars, tickerVars, callerVars>>
  BY DEF Writer, WriterTakes, WriterWrote, WriterFails, WriterEnds
<1>5. TypeOK'
  BY <1>1, <1>2, <1>3, <1>4 DEF TypeOK
<1>6. Roles'
  BY <1>1, <1>2, <1>4 DEF Roles
<1>7. Tracked' = Tracked
  BY <1>4, TrackedUnchanged
<1>8. NoRequestForgotten'
  BY <1>1, <1>2, <1>4, <1>7, TrackedFrame DEF Open
<1> QED BY <1>5, <1>6, <1>8 DEF IInv

----------------------------------------------------------------------------
(* tickerLoop *)

\* A step of tickerLoop that reports nothing and takes nothing off the map: the
\* end of the loop, a tick, the keepalive and the verdict.  Its list is cleared
\* only where it is empty already, or holds requests that are still tracked.
LEMMA TickerWaitsKeepsIInv ==
    ASSUME IInv,
           TickerEnds \/ TickerInactive \/ TickerTick \/ TickerKeepalive \/ TickerJudges
    PROVE  IInv'
<1> USE DEF stateVars, initVars, readerVars, callerVars
<1>1. TypeOK /\ Roles /\ NoRequestForgotten
  BY DEF IInv
<1>2. UNCHANGED <<phase, bufferedMsgs, choked, outstanding, late, silent, quiet,
                  stallScore, msgChan, readerVars, writer, reporting, callerVars>>
  BY DEF TickerEnds, TickerInactive, TickerTick, TickerKeepalive, TickerJudges
<1>3. writeCh' \in 0 .. WriteCap
  BY <1>1, ClientAssumption
     DEF TypeOK, TickerEnds, TickerInactive, TickerTick, TickerKeepalive, TickerJudges,
         WriteRoom
<1>4. /\ ticker' \in {"wait", "keepalive", "scan", "exited"}
      /\ closed' \in BOOLEAN /\ (closed => closed') /\ (ticker' = "exited" => closed')
      /\ stalled' \subseteq Blocks /\ ticker # "report"
      /\ ticker \in {"cancel", "report"} => stalled = {}
  BY <1>1 DEF TypeOK, TickerEnds, TickerInactive, TickerTick, TickerKeepalive, TickerJudges
<1>5. stallScore > MaxStalls => ticker' = "exited"
  BY <1>1
     DEF Roles, TickerEnds, TickerInactive, TickerTick, TickerKeepalive, TickerJudges
<1>6. TypeOK'
  BY <1>1, <1>2, <1>3, <1>4 DEF TypeOK
<1>7. Roles'
  BY <1>1, <1>2, <1>4, <1>5 DEF Roles
<1>8. Tracked \subseteq Tracked'
  BY <1>2, <1>4 DEF Tracked, BlocksIn
<1>9. NoRequestForgotten'
  BY <1>1, <1>2, <1>4, <1>8, TrackedFrame DEF Open
<1> QED BY <1>6, <1>7, <1>9 DEF IInv

\* The scan moves the requests that are still late from the map to the list.
LEMMA TickerScanKeepsIInv ==
    ASSUME IInv, TickerScan
    PROVE  IInv'
<1> USE DEF initVars, readerVars, callerVars
<1>1. TypeOK /\ Roles /\ NoRequestForgotten
  BY DEF IInv
<1>2. UNCHANGED <<phase, bufferedMsgs, choked, silent, quiet, closed, writeCh,
                  msgChan, readerVars, writer, reporting, callerVars>>
  BY DEF TickerScan
<1>3. /\ ticker = "scan" /\ stalled' \subseteq late /\ stalled' \subseteq outstanding
      /\ outstanding' = outstanding \ stalled' /\ late' = late \ stalled'
      /\ stallScore' = stallScore + Cardinality(stalled')
      /\ ticker' = IF stalled' = {} THEN "wait" ELSE "cancel"
  BY <1>1 DEF TickerScan, TypeOK
<1>4. /\ Cardinality(stalled') \in Nat /\ Cardinality(stalled') <= MaxOutstanding
      /\ Cardinality(outstanding') <= MaxOutstanding
  BY <1>1, <1>3, InFlightFinite
<1>5. stallScore \in Nat /\ stallScore <= MaxStalls
      /\ MaxStalls \in Nat /\ MaxOutstanding \in Nat
  BY <1>1, <1>3, ClientAssumption DEF TypeOK, Roles
<1>6. stallScore' \in 0 .. MaxStalls + MaxOutstanding
  BY <1>3, <1>4, <1>5
<1>7. TypeOK'
  <2>1. outstanding' \subseteq Blocks /\ late' \subseteq outstanding'
        /\ stalled' \subseteq Blocks /\ ticker' \in {"wait", "cancel"}
    BY <1>1, <1>3 DEF TypeOK
  <2> QED BY <1>1, <1>2, <1>4, <1>6, <2>1 DEF TypeOK
<1>8. stalled' = {} => stallScore' = stallScore
  BY <1>3, <1>5, FS_EmptySet
<1>9. Roles'
  BY <1>1, <1>2, <1>3, <1>5, <1>8 DEF Roles
<1>10. Tracked \subseteq Tracked'
  BY <1>2, <1>3 DEF Tracked, BlocksIn
<1>11. NoRequestForgotten'
  BY <1>1, <1>2, <1>10, TrackedFrame DEF Open
<1> QED BY <1>7, <1>9, <1>11 DEF IInv

\* A stalled request goes from the list to the report, and on to msgChan; with
\* the connection closed it is dropped.
LEMMA TickerReportsKeepsIInv ==
    ASSUME IInv,
           TickerReports \/ TickerAborts \/ \E b \in Blocks : TickerCancels(b)
    PROVE  IInv'
<1> USE DEF stateVars, initVars, readerVars, callerVars
<1>1. TypeOK /\ Roles /\ NoRequestForgotten
  BY DEF IInv
<1>2. ASSUME NEW b \in Blocks, TickerCancels(b) PROVE IInv'
  <2>1. UNCHANGED <<stateVars, phase, bufferedMsgs, closed, msgChan, readerVars, writer,
                    callerVars>>
    BY <1>2 DEF TickerCancels
  <2>2. /\ ticker = "cancel" /\ b \in stalled /\ ticker' = "report"
        /\ stalled' = stalled \ {b} /\ reporting' = b
    BY <1>2 DEF TickerCancels
  <2>3. writeCh' \in 0 .. WriteCap
    BY <1>1, <1>2, ClientAssumption DEF TypeOK, TickerCancels, WriteRoom
  <2>4. TypeOK'
    BY <1>1, <2>1, <2>2, <2>3 DEF TypeOK
  <2>5. Roles'
    BY <1>1, <2>1, <2>2 DEF Roles
  <2>6. reporting = NoBlock /\ NoBlock \notin awaiting
    BY <1>1, <2>2, ClientAssumption DEF Roles, TypeOK
  <2>7. Tracked \cap awaiting \subseteq Tracked'
    BY <2>1, <2>2, <2>6 DEF Tracked, BlocksIn
  <2>8. NoRequestForgotten'
    BY <1>1, <2>1, <2>7, TrackedFrame DEF Open
  <2> QED BY <2>4, <2>5, <2>8 DEF IInv
<1>3. CASE TickerReports
  <2>1. UNCHANGED <<stateVars, phase, bufferedMsgs, closed, writeCh, readerVars, writer,
                    stalled, callerVars>>
    BY <1>3 DEF TickerReports
  <2>2. /\ ticker = "report" /\ ticker' = "cancel" /\ reporting' = NoBlock
        /\ msgChan' = Append(msgChan, TimeoutMsg(reporting)) /\ Len(msgChan) < MsgCap
    BY <1>3 DEF TickerReports, MsgRoom
  <2>3. reporting \in Blocks
    BY <1>1, <2>2 DEF Roles
  <2>4. msgChan \in Seq(Sendable) /\ TimeoutMsg(reporting) \in Sendable /\ MsgCap \in Nat
    BY <1>1, <2>3, ClientAssumption DEF TypeOK, Sendable
  <2>5. msgChan' \in Seq(Sendable) /\ Len(msgChan') <= MsgCap
        /\ BlocksIn(msgChan') = BlocksIn(msgChan) \cup {TimeoutMsg(reporting).block}
    BY <2>2, <2>4, Send
  <2>6. TypeOK'
    BY <1>1, <2>1, <2>2, <2>5 DEF TypeOK, Sendable
  <2>7. Roles'
    BY <1>1, <2>1, <2>2 DEF Roles
  <2>8. Tracked \subseteq Tracked'
    BY <2>1, <2>2, <2>5, MessageBlocks DEF Tracked
  <2>9. NoRequestForgotten'
    BY <1>1, <2>1, <2>8, TrackedFrame DEF Open
  <2> QED BY <2>6, <2>7, <2>9 DEF IInv
<1>4. CASE TickerAborts
  <2>1. TypeOK' /\ Roles'
    BY <1>1, <1>4 DEF TickerAborts, TypeOK, Roles
  <2>2. NoRequestForgotten'
    BY <1>4, ForgottenTracked DEF TickerAborts, Open
  <2> QED BY <2>1, <2>2 DEF IInv
<1> QED BY <1>2, <1>3, <1>4

----------------------------------------------------------------------------
(* The event loop *)

\* A request enters the map and awaiting together; a message received settles
\* the block it is about.
LEMMA CallerKeepsIInv ==
    ASSUME IInv, Caller
    PROVE  IInv'
<1> USE DEF initVars, readerVars, tickerVars
<1>1. TypeOK /\ Roles /\ NoRequestForgotten
  BY DEF IInv
<1>2. CASE CallerVisits \/ QueueMessage \/ CallerLeaves
  <2>1. /\ caller' \in {"select", "visit"} /\ phase = "loop"
        /\ UNCHANGED <<stateVars, initVars, closed, msgChan, readerVars, writer,
                       tickerVars, awaiting>>
    BY <1>1, <1>2 DEF CallerVisits, QueueMessage, CallerLeaves, Roles
  <2>2. writeCh' \in 0 .. WriteCap
    BY <1>1, <1>2, ClientAssumption
       DEF TypeOK, CallerVisits, QueueMessage, CallerLeaves, WriteRoom
  <2>3. TypeOK'
    BY <1>1, <2>1, <2>2 DEF TypeOK, stateVars
  <2>4. Roles'
    BY <1>1, <2>1 DEF Roles, stateVars
  <2>5. Tracked' = Tracked
    BY <2>1, TrackedUnchanged DEF stateVars
  <2>6. NoRequestForgotten'
    BY <1>1, <2>1, <2>5, TrackedFrame DEF Open
  <2> QED BY <2>3, <2>4, <2>6 DEF IInv
<1>3. ASSUME NEW b \in Blocks, QueueRequest(b) PROVE IInv'
  <2>1. /\ caller = "visit" /\ caller' = "queue" /\ Cardinality(outstanding) < MaxOutstanding
        /\ outstanding' = outstanding \cup {b} /\ late' = late \ {b}
        /\ awaiting' = awaiting \cup {b}
        /\ UNCHANGED <<choked, silent, quiet, stallScore, initVars, closed, writeCh,
                       msgChan, readerVars, writer, tickerVars>>
    BY <1>3 DEF QueueRequest
  <2>2. Cardinality(outstanding') <= MaxOutstanding
    <3>1. IsFiniteSet(outstanding) /\ Cardinality(outstanding) \in Nat
          /\ MaxOutstanding \in Nat
      BY <1>1, InFlightFinite, ClientAssumption
    <3>2. Cardinality(outstanding \cup {b}) \in
             {Cardinality(outstanding), Cardinality(outstanding) + 1}
      BY <3>1, FS_AddElement
    <3> QED BY <2>1, <3>1, <3>2
  <2>3. phase = "loop"
    BY <1>1, <2>1 DEF Roles
  <2>4. outstanding' \subseteq Blocks /\ late' \subseteq outstanding' /\ awaiting' \subseteq Blocks
    BY <1>1, <2>1 DEF TypeOK
  <2>5. TypeOK'
    BY <1>1, <2>1, <2>2, <2>4 DEF TypeOK
  <2>6. Roles'
    BY <1>1, <2>1, <2>3 DEF Roles
  <2>7. Tracked' = Tracked \cup {b}
    BY <2>1 DEF Tracked, BlocksIn
  <2>8. NoRequestForgotten'
    BY <1>1, <2>1, <2>7, ForgottenTracked DEF Open
  <2> QED BY <2>5, <2>6, <2>8 DEF IInv
<1>4. CASE CallerReceives
  <2>1. /\ msgChan # <<>> /\ awaiting' = awaiting \ {Head(msgChan).block}
        /\ msgChan' = Tail(msgChan) /\ closed' = (closed \/ Head(msgChan) = DroppedMsg)
        /\ UNCHANGED <<stateVars, initVars, writeCh, readerVars, writer, tickerVars,
                       caller>>
    BY <1>4 DEF CallerReceives
  <2>2. msgChan \in Seq(Sendable) /\ MsgCap \in Nat /\ Len(msgChan) <= MsgCap
    BY <1>1, ClientAssumption DEF TypeOK, Sendable
  <2>3. /\ msgChan' \in Seq(Sendable) /\ Len(msgChan') <= MsgCap
        /\ BlocksIn(msgChan) \subseteq BlocksIn(msgChan') \cup {Head(msgChan).block}
    BY <2>1, <2>2, Receive
  <2>4. awaiting' \subseteq awaiting /\ closed' \in BOOLEAN /\ (closed => closed')
    BY <1>1, <2>1 DEF TypeOK
  <2>5. TypeOK'
    BY <1>1, <2>1, <2>3, <2>4 DEF TypeOK, Sendable, stateVars
  <2>6. Roles'
    BY <1>1, <2>1, <2>4 DEF Roles, stateVars
  <2>7. Tracked \cap awaiting' \subseteq Tracked'
    BY <2>1, <2>3 DEF Tracked, stateVars
  <2>8. NoRequestForgotten'
    BY <1>1, <2>1, <2>4, <2>7, TrackedFrame DEF Open
  <2> QED BY <2>5, <2>6, <2>8 DEF IInv
<1> QED BY <1>2, <1>3, <1>4 DEF Caller

----------------------------------------------------------------------------
(* Time, and the theorems *)

\* Time makes requests late, and nothing else.
LEMMA AgesKeepIInv ==
    ASSUME IInv, ReadAges \/ WriteAges \/ \E b \in Blocks : RequestAges(b)
    PROVE  IInv'
<1> USE DEF initVars, readerVars, tickerVars, callerVars
<1>1. TypeOK /\ Roles /\ NoRequestForgotten
  BY DEF IInv
<1>2. /\ silent' \in BOOLEAN /\ quiet' \in BOOLEAN /\ late' \subseteq outstanding
      /\ UNCHANGED <<choked, outstanding, stallScore, initVars, closed, writeCh, msgChan,
                     readerVars, writer, tickerVars, callerVars>>
  BY <1>1 DEF ReadAges, WriteAges, RequestAges, TypeOK
<1>3. TypeOK'
  BY <1>1, <1>2 DEF TypeOK
<1>4. Roles'
  BY <1>1, <1>2 DEF Roles
<1>5. Tracked' = Tracked
  BY <1>2, TrackedUnchanged
<1>6. NoRequestForgotten'
  BY <1>1, <1>2, <1>5, TrackedFrame DEF Open
<1> QED BY <1>3, <1>4, <1>6 DEF IInv

\* Every step of every goroutine keeps the invariant.
LEMMA NextIInv == IInv /\ [Next]_vars => IInv'
<1> SUFFICES ASSUME IInv, [Next]_vars PROVE IInv'
  OBVIOUS
<1>1. CASE UNCHANGED vars
  <2>1. TypeOK' /\ Roles'
    BY <1>1 DEF IInv, TypeOK, Roles, vars, stateVars, initVars, readerVars, tickerVars,
                callerVars
  <2>2. Tracked' = Tracked
    BY <1>1, TrackedUnchanged DEF vars, stateVars, readerVars, tickerVars
  <2>3. NoRequestForgotten'
    BY <1>1, <2>2, TrackedFrame DEF IInv, Open, vars, initVars, callerVars
  <2> QED BY <2>1, <2>3 DEF IInv
<1>2. CASE Next
  <2>1. CASE Ticker
    BY <2>1, TickerWaitsKeepsIInv, TickerScanKeepsIInv, TickerReportsKeepsIInv DEF Ticker
  <2> QED BY <1>2, <2>1, StartKeepsIInv, ReaderKeepsIInv, WriterKeepsIInv,
             CallerKeepsIInv, AgesKeepIInv DEF Next
<1> QED BY <1>1, <1>2

\* The channels of a connection keep their capacity, at most MaxOutstanding
\* requests are in flight and the score passes its limit by at most one round,
\* however the four goroutines interleave.
THEOREM ClientTypes == Spec => []TypeOK
<1>1. IInv => TypeOK
  BY DEF IInv
<1> QED BY <1>1, InitIInv, NextIInv, PTL DEF Spec

\* While the connection is open a block the manager waits for is in the map, or
\* its answer or its timeout report is on its way (pipeline.go, readLoop and
\* tickerLoop).
THEOREM ClientForgetsNoRequest == Spec => []NoRequestForgotten
<1>1. IInv => NoRequestForgotten
  BY DEF IInv
<1> QED BY <1>1, InitIInv, NextIInv, PTL DEF Spec

\* tickerLoop drops a peer in the round that takes its score over the limit.
THEOREM ClientDropsStalling == Spec => []StallingPeerDropped
<1>1. IInv => StallingPeerDropped
  BY DEF IInv, Roles, StallingPeerDropped
<1> QED BY <1>1, InitIInv, NextIInv, PTL DEF Spec
=============================================================================
