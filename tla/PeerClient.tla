----------------------------- MODULE PeerClient -----------------------------
(***************************************************************************)
(* peer/client.go (NewClient, Close) and peer/pipeline.go: one connection, *)
(* from the dial to its end, with the four goroutines that share it.       *)
(*                                                                         *)
(*   reader    readLoop                writer   writeLoop                  *)
(*   ticker    tickerLoop              caller   the TorrentManager's event *)
(*                                              loop, which calls          *)
(*                                              QueueRequest and receives  *)
(*                                              from msgChan               *)
(*                                                                         *)
(* Each section under c.mu is one step, each wait on a channel or on the   *)
(* connection lies between two steps.  Time is kept as three facts:        *)
(* "LastRead is older than 120s", "LastWrite is older than 120s", "Sent is *)
(* older than 15s".  Of the messages in writeCh only the number is kept.   *)
(* TorrentManager has the coarser view of a client that the event loop     *)
(* has.  What the remote end sends, and whether it reads, is up to it.     *)
(***************************************************************************)
EXTENDS Naturals, Sequences, FiniteSets

CONSTANTS Blocks,          \* blocks the manager may ask this peer for
          NoBlock,
          MaxOutstanding,  \* pipelineRequests: 5 in the code
          MaxStalls,       \* tickerLoop: 3 in the code
          WriteCap,        \* capacity of writeCh: 128 in the code
          MsgCap,          \* capacity of msgChan: 1024 in the code
          PlainIds,        \* kinds of message without a block the peer sends
          MaxBuffered,     \* bound: messages NewClient reads and keeps
          EndGame          \* may a request in flight be made again?

ASSUME ClientAssumption ==
    /\ IsFiniteSet(Blocks) /\ NoBlock \notin Blocks
    /\ MaxOutstanding \in Nat \ {0} /\ MaxStalls \in Nat
    /\ WriteCap \in Nat \ {0} /\ MsgCap \in Nat \ {0}
    /\ PlainIds \subseteq {"keepalive", "choke", "unchoke", "bitfield", "other"}
    /\ MaxBuffered \in Nat /\ EndGame \in BOOLEAN

VARIABLES
    phase,        \* "init" (NewClient), "drain", "loop" (StartLoop), "failed"
    bufferedMsgs,
    choked,       \* Choked
    outstanding,  \* OutstandingRequests
    late,         \* those of them with Sent older than 15s
    silent,       \* LastRead is older than 120s
    quiet,        \* LastWrite is older than 120s
    stallScore,
    closed,       \* done is closed, and Conn with it
    writeCh,      \* number of messages in writeCh
    msgChan,
    reader,       \* "read", "send" or "exited"
    readMsg,      \* the message readLoop is about to send
    writer,       \* "select", "write" or "exited"
    ticker,       \* "wait", "keepalive", "scan", "cancel", "report", "exited"
    stalled,      \* requests tickerLoop has yet to report
    reporting,    \* the one it is reporting
    caller,       \* "select", "visit" or "queue" (inside QueueMessage)
    awaiting      \* history: blocks asked for, with no answer received

stateVars == <<choked, outstanding, late, silent, quiet, stallScore>>
initVars == <<phase, bufferedMsgs>>
readerVars == <<reader, readMsg>>
tickerVars == <<ticker, stalled, reporting>>
callerVars == <<caller, awaiting>>
vars == <<stateVars, initVars, closed, writeCh, msgChan, readerVars, writer,
          tickerVars, callerVars>>

Plain(id) == [id |-> id, block |-> NoBlock]
PieceMsg(b) == [id |-> "piece", block |-> b]
TimeoutMsg(b) == [id |-> "timeout", block |-> b]    \* 0xFE
DroppedMsg == Plain("dropped")                      \* 0xFF

\* What the remote end may send; "other" has no effect on the client.
Incoming == {Plain(id) : id \in PlainIds} \cup {PieceMsg(b) : b \in Blocks}

MsgRoom == Len(msgChan) < MsgCap
WriteRoom == writeCh < WriteCap
Open == phase = "loop" /\ ~closed

Init ==
    /\ phase = "init" /\ bufferedMsgs = <<>>
    /\ choked = FALSE /\ outstanding = {} /\ late = {}
    /\ silent = FALSE /\ quiet = FALSE /\ stallScore = 0
    /\ closed = FALSE /\ writeCh = 0 /\ msgChan = <<>>
    /\ reader = "read" /\ readMsg = Plain("none")
    /\ writer = "select"
    /\ ticker = "wait" /\ stalled = {} /\ reporting = NoBlock
    /\ caller = "select" /\ awaiting = {}

----------------------------------------------------------------------------
(* NewClient *)

\* The dial, the handshake or a read of an initial message fails.
NewClientFails ==
    /\ phase = "init"
    /\ phase' = "failed" /\ closed' = TRUE
    /\ UNCHANGED <<stateVars, bufferedMsgs, writeCh, msgChan, readerVars, writer,
                   tickerVars, callerVars>>

\* Keepalives are skipped, a bitfield is consumed and not stored, the rest is
\* buffered.  (An extension handshake, which only sets PeerMetadataExtId, is
\* not looked at here.)
NewClientReads(m) ==
    /\ phase = "init"
    /\ Len(bufferedMsgs) < MaxBuffered
    /\ bufferedMsgs' = IF m.id \in {"keepalive", "bitfield"} THEN bufferedMsgs
                       ELSE Append(bufferedMsgs, m)
    /\ UNCHANGED <<stateVars, phase, closed, writeCh, msgChan, readerVars, writer,
                   tickerVars, callerVars>>

\* The read deadline passes, NewClient returns, and AddPeer calls StartLoop.
StartLoop ==
    /\ phase = "init"
    /\ phase' = "drain"
    /\ choked' = TRUE
    /\ UNCHANGED <<outstanding, late, silent, quiet, stallScore, bufferedMsgs,
                   closed, writeCh, msgChan, readerVars, writer, tickerVars,
                   callerVars>>

StartLoopDrains ==
    /\ phase = "drain" /\ bufferedMsgs # <<>>
    /\ MsgRoom
    /\ msgChan' = Append(msgChan, Head(bufferedMsgs))
    /\ bufferedMsgs' = Tail(bufferedMsgs)
    /\ UNCHANGED <<stateVars, phase, closed, writeCh, readerVars, writer,
                   tickerVars, callerVars>>

\* The loops are started, and AddPeer queues "interested".
StartLoopEnds ==
    /\ phase = "drain" /\ bufferedMsgs = <<>>
    /\ phase' = "loop"
    /\ writeCh' = 1
    /\ UNCHANGED <<stateVars, bufferedMsgs, closed, msgChan, readerVars, writer,
                   tickerVars, callerVars>>

----------------------------------------------------------------------------
(* readLoop *)

ReaderReads(m) ==
    /\ Open /\ reader = "read"
    /\ silent' = FALSE
    /\ choked' = IF m.id \in {"choke", "unchoke"} THEN m.id = "choke" ELSE choked
    /\ outstanding' = outstanding \ {m.block}
    /\ late' = late \ {m.block}
    /\ IF m.id = "keepalive" THEN UNCHANGED readerVars
                             ELSE reader' = "send" /\ readMsg' = m
    /\ UNCHANGED <<quiet, stallScore, initVars, closed, writeCh, msgChan, writer,
                   tickerVars, callerVars>>

\* The remote end is gone, or Close has been called here.
ReaderFails ==
    /\ phase = "loop" /\ reader = "read"
    /\ reader' = "send" /\ readMsg' = DroppedMsg
    /\ UNCHANGED <<stateVars, initVars, closed, writeCh, msgChan, writer, tickerVars,
                   callerVars>>

\* After the 0xFF the deferred Close is called.
ReaderSends ==
    /\ reader = "send"
    /\ MsgRoom
    /\ msgChan' = Append(msgChan, readMsg)
    /\ readMsg' = Plain("none")
    /\ IF readMsg = DroppedMsg THEN reader' = "exited" /\ closed' = TRUE
                               ELSE reader' = "read" /\ UNCHANGED closed
    /\ UNCHANGED <<stateVars, initVars, writeCh, writer, tickerVars, callerVars>>

ReaderAborts ==
    /\ reader = "send" /\ closed
    /\ reader' = "exited" /\ readMsg' = Plain("none")
    /\ UNCHANGED <<stateVars, initVars, closed, writeCh, msgChan, writer, tickerVars,
                   callerVars>>

----------------------------------------------------------------------------
(* writeLoop *)

WriterTakes ==
    /\ phase = "loop" /\ writer = "select" /\ writeCh > 0
    /\ writeCh' = writeCh - 1
    /\ writer' = "write"
    /\ UNCHANGED <<stateVars, initVars, closed, msgChan, readerVars, tickerVars,
                   callerVars>>

\* Conn.Write returns; it has no deadline, so it may wait for the remote end.
WriterWrote ==
    /\ writer = "write" /\ ~closed
    /\ writer' = "select"
    /\ quiet' = FALSE
    /\ UNCHANGED <<choked, outstanding, late, silent, stallScore, initVars, closed,
                   writeCh, msgChan, readerVars, tickerVars, callerVars>>

WriterFails ==
    /\ writer = "write"
    /\ writer' = "exited" /\ closed' = TRUE
    /\ UNCHANGED <<stateVars, initVars, writeCh, msgChan, readerVars, tickerVars,
                   callerVars>>

WriterEnds ==
    /\ phase = "loop" /\ writer = "select" /\ closed
    /\ writer' = "exited"
    /\ UNCHANGED <<stateVars, initVars, closed, writeCh, msgChan, readerVars, tickerVars,
                   callerVars>>

----------------------------------------------------------------------------
(* tickerLoop *)

TickerEnds ==
    /\ phase = "loop" /\ ticker = "wait" /\ closed
    /\ ticker' = "exited"
    /\ UNCHANGED <<stateVars, initVars, closed, writeCh, msgChan, readerVars, writer,
                   stalled, reporting, callerVars>>

\* Mutant of TickerInactive: the loop ends without closing the connection.
TickerInactiveKeepsOpen ==
    /\ phase = "loop" /\ ticker = "wait" /\ silent
    /\ ticker' = "exited"
    /\ UNCHANGED <<stateVars, initVars, closed, writeCh, msgChan, readerVars, writer,
                   stalled, reporting, callerVars>>

\* A tick finds the peer silent and closes the connection.
TickerInactive ==
    /\ phase = "loop" /\ ticker = "wait" /\ silent
    /\ ticker' = "exited" /\ closed' = TRUE
    /\ UNCHANGED <<stateVars, initVars, writeCh, msgChan, readerVars, writer,
                   stalled, reporting, callerVars>>

\* The time of the tick is read once: what is late is settled here, even if the
\* keepalive makes the loop wait.
TickerTick ==
    /\ phase = "loop" /\ ticker = "wait" /\ ~silent
    /\ ticker' = IF quiet THEN "keepalive" ELSE "scan"
    /\ stalled' = late
    /\ UNCHANGED <<stateVars, initVars, closed, writeCh, msgChan, readerVars, writer,
                   reporting, callerVars>>

\* QueueKeepalive; once the connection is closed it need not wait for room.
TickerKeepalive ==
    /\ ticker = "keepalive"
    /\ \/ WriteRoom /\ writeCh' = writeCh + 1
       \/ closed /\ UNCHANGED writeCh
    /\ ticker' = "scan"
    /\ UNCHANGED <<stateVars, initVars, closed, msgChan, readerVars, writer, stalled,
                   reporting, callerVars>>

TickerScan ==
    /\ ticker = "scan"
    /\ stalled' = stalled \cap late
    /\ outstanding' = outstanding \ stalled'
    /\ late' = late \ stalled'
    /\ stallScore' = stallScore + Cardinality(stalled')
    /\ ticker' = IF stalled' = {} THEN "wait" ELSE "cancel"
    /\ UNCHANGED <<choked, silent, quiet, initVars, closed, writeCh, msgChan,
                   readerVars, writer, reporting, callerVars>>

\* QueueCancel for the next stalled request.
TickerCancels(b) ==
    /\ ticker = "cancel" /\ b \in stalled
    /\ \/ WriteRoom /\ writeCh' = writeCh + 1
       \/ closed /\ UNCHANGED writeCh
    /\ ticker' = "report"
    /\ stalled' = stalled \ {b} /\ reporting' = b
    /\ UNCHANGED <<stateVars, initVars, closed, msgChan, readerVars, writer,
                   callerVars>>

\* Mutant of TickerReports: a report that finds no room is dropped.
TickerReportsOrDrops ==
    /\ ticker = "report"
    /\ msgChan' = IF MsgRoom THEN Append(msgChan, TimeoutMsg(reporting)) ELSE msgChan
    /\ ticker' = "cancel" /\ reporting' = NoBlock
    /\ UNCHANGED <<stateVars, initVars, closed, writeCh, readerVars, writer, stalled,
                   callerVars>>

TickerReports ==
    /\ ticker = "report"
    /\ MsgRoom
    /\ msgChan' = Append(msgChan, TimeoutMsg(reporting))
    /\ ticker' = "cancel" /\ reporting' = NoBlock
    /\ UNCHANGED <<stateVars, initVars, closed, writeCh, readerVars, writer, stalled,
                   callerVars>>

TickerAborts ==
    /\ ticker = "report" /\ closed
    /\ ticker' = "exited" /\ stalled' = {} /\ reporting' = NoBlock
    /\ UNCHANGED <<stateVars, initVars, closed, writeCh, msgChan, readerVars, writer,
                   callerVars>>

\* Mutant of TickerJudges: the limit is off by one.
TickerJudgesLate ==
    /\ ticker = "cancel" /\ stalled = {}
    /\ IF stallScore > MaxStalls + 1 THEN ticker' = "exited" /\ closed' = TRUE
                                     ELSE ticker' = "wait" /\ UNCHANGED closed
    /\ UNCHANGED <<stateVars, initVars, writeCh, msgChan, readerVars, writer,
                   stalled, reporting, callerVars>>

\* All are reported: too many of them and the peer is dropped.
TickerJudges ==
    /\ ticker = "cancel" /\ stalled = {}
    /\ IF stallScore > MaxStalls THEN ticker' = "exited" /\ closed' = TRUE
                                 ELSE ticker' = "wait" /\ UNCHANGED closed
    /\ UNCHANGED <<stateVars, initVars, writeCh, msgChan, readerVars, writer,
                   stalled, reporting, callerVars>>

----------------------------------------------------------------------------
(* The event loop's side: pipelineRequests visits the client, and in between *)
(* the loop receives what the client sent.                                   *)

CallerVisits ==
    /\ phase = "loop" /\ caller = "select"
    /\ ~choked
    /\ caller' = "visit"
    /\ UNCHANGED <<stateVars, initVars, closed, writeCh, msgChan, readerVars, writer,
                   tickerVars, awaiting>>

\* QueueRequest: the request is tracked before it is queued.
QueueRequest(b) ==
    /\ caller = "visit"
    /\ Cardinality(outstanding) < MaxOutstanding
    /\ EndGame \/ b \notin awaiting
    /\ outstanding' = outstanding \cup {b}
    /\ late' = late \ {b}
    /\ awaiting' = awaiting \cup {b}
    /\ caller' = "queue"
    /\ UNCHANGED <<choked, silent, quiet, stallScore, initVars, closed, writeCh,
                   msgChan, readerVars, writer, tickerVars>>

\* Mutant of QueueMessage: the wait for room ignores done.
QueueMessageStubborn ==
    /\ caller = "queue"
    /\ WriteRoom /\ writeCh' = writeCh + 1
    /\ caller' = "visit"
    /\ UNCHANGED <<stateVars, initVars, closed, msgChan, readerVars, writer, tickerVars,
                   awaiting>>

QueueMessage ==
    /\ caller = "queue"
    /\ \/ WriteRoom /\ writeCh' = writeCh + 1
       \/ closed /\ UNCHANGED writeCh
    /\ caller' = "visit"
    /\ UNCHANGED <<stateVars, initVars, closed, msgChan, readerVars, writer, tickerVars,
                   awaiting>>

CallerLeaves ==
    /\ caller = "visit"
    /\ caller' = "select"
    /\ UNCHANGED <<stateVars, initVars, closed, writeCh, msgChan, readerVars, writer,
                   tickerVars, awaiting>>

\* The loop receives a message; at a 0xFF RemovePeer calls Close.
CallerReceives ==
    /\ caller = "select" /\ msgChan # <<>>
    /\ LET m == Head(msgChan) IN
       /\ awaiting' = awaiting \ {m.block}
       /\ closed' = (closed \/ m = DroppedMsg)
    /\ msgChan' = Tail(msgChan)
    /\ UNCHANGED <<stateVars, initVars, writeCh, readerVars, writer, tickerVars,
                   caller>>

----------------------------------------------------------------------------
(* Time passes *)

ReadAges ==
    /\ Open /\ ~silent
    /\ silent' = TRUE
    /\ UNCHANGED <<choked, outstanding, late, quiet, stallScore, initVars, closed,
                   writeCh, msgChan, readerVars, writer, tickerVars, callerVars>>

WriteAges ==
    /\ Open /\ ~quiet
    /\ quiet' = TRUE
    /\ UNCHANGED <<choked, outstanding, late, silent, stallScore, initVars, closed,
                   writeCh, msgChan, readerVars, writer, tickerVars, callerVars>>

RequestAges(b) ==
    /\ Open /\ b \in outstanding \ late
    /\ late' = late \cup {b}
    /\ UNCHANGED <<choked, outstanding, silent, quiet, stallScore, initVars, closed,
                   writeCh, msgChan, readerVars, writer, tickerVars, callerVars>>

----------------------------------------------------------------------------

Reader == \/ \E m \in Incoming : ReaderReads(m)
          \/ ReaderFails \/ ReaderSends \/ ReaderAborts
Writer == WriterTakes \/ WriterWrote \/ WriterFails \/ WriterEnds
Ticker == \/ TickerEnds \/ TickerInactive \/ TickerTick \/ TickerKeepalive
          \/ TickerScan \/ TickerReports \/ TickerAborts \/ TickerJudges
          \/ \E b \in Blocks : TickerCancels(b)
Caller == \/ CallerVisits \/ QueueMessage \/ CallerLeaves \/ CallerReceives
          \/ \E b \in Blocks : QueueRequest(b)

Next ==
    \/ NewClientFails
    \/ \E m \in Incoming : NewClientReads(m)
    \/ StartLoop \/ StartLoopDrains \/ StartLoopEnds
    \/ Reader \/ Writer \/ Ticker \/ Caller
    \/ ReadAges \/ WriteAges
    \/ \E b \in Blocks : RequestAges(b)

Spec == Init /\ [][Next]_vars

\* Each goroutine proceeds when it can.  A read fails once the connection is
\* closed; a select that meets the closed done again and again takes it, as Go
\* chooses among ready cases at random; a goroutine that waits to send gets its
\* turn, as a channel serves its senders in order; the event loop keeps
\* receiving.  Whether a write to an open connection comes back is up to
\* the remote end: WritesReturn says that it does.
Fairness ==
    /\ WF_vars(closed /\ ReaderFails) /\ SF_vars(ReaderSends) /\ WF_vars(ReaderAborts)
    /\ WF_vars(WriterTakes) /\ WF_vars(closed /\ (WriterFails \/ WriterEnds))
    /\ WF_vars(Ticker) /\ SF_vars(TickerEnds) /\ SF_vars(TickerReports)
    /\ SF_vars(\E b \in Blocks : TickerCancels(b))
    /\ SF_vars(QueueMessage) /\ WF_vars(CallerLeaves) /\ SF_vars(CallerReceives)

WritesReturn == WF_vars(WriterWrote \/ WriterFails)

FairSpec == Spec /\ Fairness
FairWriteSpec == FairSpec /\ WritesReturn

----------------------------------------------------------------------------
(* Properties *)

\* The type of the state.  The bounds say that both channels keep their
\* capacity, that no more than MaxOutstanding requests are in flight although
\* four goroutines change the map, and that the score is at most one round of
\* stalls above its limit.
TypeOK ==
    /\ phase \in {"init", "drain", "loop", "failed"}
    /\ bufferedMsgs \in Seq(Incoming)
    /\ choked \in BOOLEAN /\ silent \in BOOLEAN /\ quiet \in BOOLEAN
    /\ outstanding \subseteq Blocks /\ Cardinality(outstanding) <= MaxOutstanding
    /\ late \subseteq outstanding
    /\ stallScore \in 0 .. MaxStalls + MaxOutstanding
    /\ closed \in BOOLEAN
    /\ writeCh \in 0 .. WriteCap
    /\ msgChan \in Seq(Incoming \cup {DroppedMsg} \cup {TimeoutMsg(b) : b \in Blocks})
    /\ Len(msgChan) <= MsgCap
    /\ reader \in {"read", "send", "exited"}
    /\ readMsg \in Incoming \cup {DroppedMsg, Plain("none")}
    /\ writer \in {"select", "write", "exited"}
    /\ ticker \in {"wait", "keepalive", "scan", "cancel", "report", "exited"}
    /\ stalled \subseteq Blocks /\ reporting \in Blocks \cup {NoBlock}
    /\ caller \in {"select", "visit", "queue"} /\ awaiting \subseteq Blocks

\* No request is forgotten while the connection is open: a block the manager
\* waits for is tracked, or its answer or its timeout is on the way, in
\* readLoop's hands, in msgChan, or in tickerLoop's list.  Otherwise it would
\* stay pending in the picker until the picker's own timeout.
NoRequestForgotten ==
    Open => awaiting \subseteq
        outstanding \cup {readMsg.block, reporting}
        \cup (IF ticker = "cancel" \/ ticker = "report" THEN stalled ELSE {})
        \cup {msgChan[i].block : i \in DOMAIN msgChan}

\* A peer that stalled too often is being dropped: nothing is read, asked for or
\* timed again after the round of reports that took it over the limit.
StallingPeerDropped == stallScore > MaxStalls => closed \/ ticker \in {"cancel", "report"}

\* A connection that is closed, by whichever goroutine, takes all four with
\* it: the three loops exit and the event loop is not left inside QueueMessage,
\* even if the channels are full and the remote end neither reads nor writes.
ClosedEndsLoops ==
    (closed /\ phase = "loop") ~>
        (/\ reader = "exited" /\ writer = "exited" /\ ticker = "exited"
         /\ caller # "queue")

\* A request that got no answer for 15s is reported to the manager, unless the
\* connection ends or the request is made again, as long as writes return.
LateIsReported ==
    \A b \in Blocks :
        (b \in late) ~> (b \notin awaiting \/ closed \/ b \in outstanding \ late)

\* pipeline.go:134, "Inactivity timeout: close if silent for > 120s", as long as
\* writes return: tickerLoop itself waits for writeCh and for msgChan.
SilentPeerDropped == silent ~> (~silent \/ closed)
=============================================================================
