--------------------------- MODULE TorrentManager ---------------------------
(***************************************************************************)
(* download/manager.go: the TorrentManager, with the parts it runs beside. *)
(*                                                                         *)
(*   event loop    Start, handleMessage, verifyAndWritePiece, RemovePeer,  *)
(*                 pipelineRequests; the variable pc says where it is      *)
(*   dialers       AddPeer, called from Session's dialing goroutines       *)
(*   clients       readLoop and tickerLoop of peer/pipeline.go, as far as  *)
(*                 the manager can observe them                            *)
(*   storage       storageLoop                                             *)
(*   session       the wait at the end of Session.Download                 *)
(*   process       the end of the program, after Session.Download          *)
(*                                                                         *)
(* The picker is the one of PiecePicker: its methods are conjuncts of the  *)
(* actions that call them.  A client is one connection; a peer that is     *)
(* dialed again, even while it is still active, is another client with the *)
(* same address.  peersMu is held for writing while adding # NoClient and  *)
(* for reading while pc = "visit".  Left out: logging, the recycling of    *)
(* buffers, and errCh, to which nothing is ever sent.                      *)
(***************************************************************************)
EXTENDS PiecePicker, Sequences, Functions

CONSTANTS Clients, NoClient,
          AddressOf,       \* client -> peer address
          Has,             \* client -> pieces its bitfield announces
          Haves,           \* piece indices that have messages carry
          BufferedMsgs,    \* client -> messages NewClient read and kept
          MaxOutstanding,  \* requests in flight per client; 5 in the code
          InMessagesCap,   \* capacity of InMessages; 1024 in the code
          StorageCap,      \* capacity of storageCh; 64 in the code
          Corrupt,         \* may an answer carry wrong bytes?
          DiskFaults       \* may opening or writing the file fail?

ASSUME ManagerAssumption ==
    /\ NoClient \notin Clients
    /\ AddressOf \in [Clients -> Peers]
    /\ Has \in [Clients -> SUBSET Pieces]
    /\ Haves \subseteq Nat
    /\ BufferedMsgs \in [Clients -> Nat]
    /\ MaxOutstanding \in Nat \ {0}
    /\ InMessagesCap \in Nat \ {0}
    /\ StorageCap \in Nat \ {0}
    /\ Corrupt \in BOOLEAN /\ DiskFaults \in BOOLEAN

VARIABLES
    activePeers,  \* address -> client
    link,         \* client -> "dialed", "open" or "closed" (its done channel)
    choked,       \* client -> Choked
    outstanding,  \* client -> OutstandingRequests
    readerOn,     \* clients whose readLoop runs
    adding,       \* client whose AddPeer holds peersMu, or NoClient
    toDrain,      \* buffered messages that AddPeer has yet to forward
    InMessages,
    pc,           \* where the event loop is
    victim,       \* the address RemovePeer is about to unregister
    verifying,    \* the piece handed to verifyAndWritePiece
    torrentDone,  \* the third result of the last MarkCompleted
    todo, cur,    \* pipelineRequests: clients to visit, client being visited
    pieceBufs,    \* block -> "none", "good" or "bad" data
    storageCh,
    storage,      \* "opening", "run" or "exited"
    disk,         \* pieces written to the file
    doneClosed,   \* how many times doneCh was closed
    session,      \* "waiting", "ok" or "error"
    process       \* "run" or, when main has returned, "exited"

clientVars == <<link, choked, outstanding, readerOn>>
lockVars == <<activePeers, adding, toDrain>>
loopVars == <<pc, victim, verifying, torrentDone, todo, cur>>
dataVars == <<pieceBufs, storageCh, storage, disk, doneClosed, session>>
managerVars == <<clientVars, lockVars, InMessages, loopVars, dataVars>>
vars == <<pickerVars, managerVars, process>>

----------------------------------------------------------------------------
(* Messages, as readLoop, tickerLoop and StartLoop pass them on *)

Bitfield(a, S) == [from |-> a, id |-> "bitfield", has |-> S]
Have(a, p) == [from |-> a, id |-> "have", piece |-> p]
Piece(a, b, q) == [from |-> a, id |-> "piece", block |-> b, data |-> q]
Timeout(a, b) == [from |-> a, id |-> "timeout", block |-> b]   \* 0xFE
Dropped(a) == [from |-> a, id |-> "dropped"]                   \* 0xFF
Other(a) == [from |-> a, id |-> "other"]  \* choke, unchoke, ...: no handler

Room == Len(InMessages) < InMessagesCap

----------------------------------------------------------------------------
(* NewTorrentManager *)

Init ==
    /\ PickerInit
    /\ activePeers = [a \in {} |-> NoClient]
    /\ link = [c \in Clients |-> "dialed"]
    /\ choked = [c \in Clients |-> TRUE]
    /\ outstanding = [c \in Clients |-> {}]
    /\ readerOn = {}
    /\ adding = NoClient /\ toDrain = 0
    /\ InMessages = <<>>
    /\ pc = "start"
    /\ victim = NoPeer /\ verifying = 0 /\ torrentDone = FALSE
    /\ todo = {} /\ cur = NoClient
    /\ pieceBufs = [b \in Blocks |-> "none"]
    /\ storageCh = <<>> /\ storage = "opening" /\ disk = {}
    /\ doneClosed = 0 /\ session = "waiting" /\ process = "run"

----------------------------------------------------------------------------
(* AddPeer: the lock is held from the first of these steps to the last. *)

AddPeerBegin(c) ==
    /\ link[c] = "dialed"
    /\ adding = NoClient
    /\ pc # "visit"
    /\ activePeers' = [a \in DOMAIN activePeers \cup {AddressOf[c]} |->
                          IF a = AddressOf[c] THEN c ELSE activePeers[a]]
    /\ RegisterPeer(AddressOf[c])
    /\ link' = [link EXCEPT ![c] = "open"]
    /\ adding' = c
    /\ toDrain' = BufferedMsgs[c]
    /\ UNCHANGED <<choked, outstanding, readerOn, InMessages, loopVars, dataVars>>

\* StartLoop forwards what was buffered; choke and unchoke among it have no
\* effect on Choked.
AddPeerDrain ==
    /\ adding # NoClient
    /\ toDrain > 0
    /\ Room
    /\ InMessages' = Append(InMessages, Other(AddressOf[adding]))
    /\ toDrain' = toDrain - 1
    /\ UNCHANGED <<pickerVars, clientVars, activePeers, adding, loopVars, dataVars>>

AddPeerEnd ==
    /\ adding # NoClient
    /\ toDrain = 0
    /\ readerOn' = readerOn \cup {adding}
    /\ adding' = NoClient
    /\ UNCHANGED <<pickerVars, link, choked, outstanding, activePeers, toDrain, InMessages, loopVars, dataVars>>

----------------------------------------------------------------------------
(* The clients.  readLoop updates the client and then sends the message; here *)
(* both are one step, so a readLoop facing a full queue waits before it.      *)

Forward(c, m) ==
    /\ c \in readerOn
    /\ Room
    /\ InMessages' = Append(InMessages, m)
    /\ UNCHANGED <<pickerVars, lockVars, loopVars, dataVars>>

ReadBitfield(c) ==
    /\ link[c] = "open"
    /\ Forward(c, Bitfield(AddressOf[c], Has[c]))
    /\ UNCHANGED clientVars

ReadHave(c, p) ==
    /\ link[c] = "open"
    /\ Forward(c, Have(AddressOf[c], p))
    /\ UNCHANGED clientVars

ReadChoke(c, isChoked) ==
    /\ link[c] = "open"
    /\ choked' = [choked EXCEPT ![c] = isChoked]
    /\ Forward(c, Other(AddressOf[c]))
    /\ UNCHANGED <<link, outstanding, readerOn>>

\* The remote end may send any block: asked for, asked for long ago and since
\* reported stalled, or never asked for.  Nothing in the code tells them apart.
ReadPiece(c, b, q) ==
    /\ link[c] = "open"
    /\ outstanding' = [outstanding EXCEPT ![c] = @ \ {b}]
    /\ Forward(c, Piece(AddressOf[c], b, q))
    /\ UNCHANGED <<link, choked, readerOn>>

\* The connection broke, or was closed on our side.  After its 0xFF readLoop
\* ends, which closes the client.
ReadError(c) ==
    /\ Forward(c, Dropped(AddressOf[c]))
    /\ readerOn' = readerOn \ {c}
    /\ link' = [link EXCEPT ![c] = "closed"]
    /\ UNCHANGED <<choked, outstanding>>

\* done is closed: the select may take that branch, even if there is room, and
\* the message is lost, a 0xFF too.
ReadAborted(c) ==
    /\ c \in readerOn
    /\ link[c] = "closed"
    /\ readerOn' = readerOn \ {c}
    /\ UNCHANGED <<pickerVars, link, choked, outstanding, lockVars, InMessages,
                   loopVars, dataVars>>

\* tickerLoop finds a request older than its limit, which any may be, forgets
\* it and reports it.
TickerStall(c, b) ==
    /\ link[c] = "open"
    /\ b \in outstanding[c]
    /\ outstanding' = [outstanding EXCEPT ![c] = @ \ {b}]
    /\ Forward(c, Timeout(AddressOf[c], b))
    /\ UNCHANGED <<link, choked, readerOn>>

\* tickerLoop gives the peer up, for silence or for too many stalls, or
\* writeLoop fails to write.
ClientCloses(c) ==
    /\ link[c] = "open" /\ c \in readerOn
    /\ link' = [link EXCEPT ![c] = "closed"]
    /\ UNCHANGED <<pickerVars, choked, outstanding, readerOn, lockVars, InMessages,
                   loopVars, dataVars>>

----------------------------------------------------------------------------
(* Start *)

StartOk ==
    /\ pc = "start"
    /\ pc' = "select"
    /\ UNCHANGED <<pickerVars, clientVars, lockVars, InMessages, victim, verifying,
                   torrentDone, todo, cur, dataVars>>

\* The file cannot be created: the error reaches Download through tmErrCh.
StartFails ==
    /\ DiskFaults
    /\ pc = "start"
    /\ pc' = "returned"
    /\ session' = "error"
    /\ storage' = "exited"
    /\ UNCHANGED <<pickerVars, clientVars, lockVars, InMessages, victim, verifying,
                   torrentDone, todo, cur, pieceBufs, storageCh, disk,
                   doneClosed>>

Goto(l) == pc' = l /\ UNCHANGED <<victim, verifying, torrentDone, todo, cur>>


SelectDone ==
    /\ pc = "select" /\ doneClosed > 0
    /\ Goto("returned")
    /\ UNCHANGED <<pickerVars, clientVars, lockVars, InMessages, dataVars>>

SelectTicker ==
    /\ pc = "select"
    /\ GetStalledRequests
    /\ Goto("pipeline")
    /\ UNCHANGED <<clientVars, lockVars, InMessages, dataVars>>

Receives(id) ==
    /\ pc = "select"
    /\ InMessages # <<>> /\ Head(InMessages).id = id
    /\ InMessages' = Tail(InMessages)

----------------------------------------------------------------------------
(* handleMessage *)

\* RemovePeer up to the call of UnregisterPeer, which is made without peersMu.
HandleDropped ==
    /\ Receives("dropped")
    /\ adding = NoClient
    /\ LET a == Head(InMessages).from IN
       IF a \in DOMAIN activePeers
       THEN /\ activePeers' = Restrict(activePeers, DOMAIN activePeers \ {a})
            /\ link' = [link EXCEPT ![activePeers[a]] = "closed"]
            /\ pc' = "unregister"
            /\ victim' = a
            /\ UNCHANGED <<verifying, torrentDone, todo, cur>>
       ELSE Goto("pipeline") /\ UNCHANGED <<activePeers, link>>
    /\ UNCHANGED <<pickerVars, choked, outstanding, readerOn, adding, toDrain,
                   dataVars>>

\* Mutant of RemovePeerEnd: the picker is not told.
RemovePeerEndSilent ==
    /\ pc = "unregister"
    /\ pc' = "pipeline"
    /\ victim' = NoPeer
    /\ UNCHANGED <<pickerVars, clientVars, lockVars, InMessages, verifying,
                   torrentDone, todo, cur, dataVars>>

RemovePeerEnd ==
    /\ pc = "unregister"
    /\ UnregisterPeer(victim)
    /\ pc' = "pipeline"
    /\ victim' = NoPeer
    /\ UNCHANGED <<clientVars, lockVars, InMessages, verifying, torrentDone, todo,
                   cur, dataVars>>

HandleTimeout ==
    /\ Receives("timeout")
    /\ MarkFailed({Head(InMessages).block})
    /\ Goto("pipeline")
    /\ UNCHANGED <<clientVars, lockVars, dataVars>>

HandleBitfield ==
    /\ Receives("bitfield")
    /\ UpdatePeerBitfield(Head(InMessages).from, Head(InMessages).has)
    /\ Goto("pipeline")
    /\ UNCHANGED <<clientVars, lockVars, dataVars>>

HandleHave ==
    /\ Receives("have")
    /\ UpdatePeerHave(Head(InMessages).from, Head(InMessages).piece)
    /\ Goto("pipeline")
    /\ UNCHANGED <<clientVars, lockVars, dataVars>>

HandleOther ==
    /\ Receives("other")
    /\ Goto("pipeline")
    /\ UNCHANGED <<pickerVars, clientVars, lockVars, dataVars>>

\* Mutant of HandlePiece: only the data of a pending block is stored, although
\* MarkCompleted also takes a block that was reverted in the meantime.
HandlePieceDropsLate ==
    /\ Receives("piece")
    /\ LET m == Head(InMessages) IN
       /\ pieceBufs' = IF blockState[m.block] = "pending"
                       THEN [pieceBufs EXCEPT ![m.block] = m.data] ELSE pieceBufs
       /\ MarkCompleted(m.block, m.from)
       /\ IF PieceDone(m.block)
          THEN /\ pc' = "verify"
               /\ verifying' = m.block[1]
               /\ torrentDone' = TorrentDone(m.block)
               /\ UNCHANGED <<victim, todo, cur, doneClosed>>
          ELSE /\ Goto("pipeline")
               /\ doneClosed' = IF TorrentDone(m.block) THEN doneClosed + 1
                                                        ELSE doneClosed
    /\ UNCHANGED <<clientVars, lockVars, storageCh, storage, disk, session>>

\* The data is stored before the picker is asked whether it wants the block.
HandlePiece ==
    /\ Receives("piece")
    /\ LET m == Head(InMessages) IN
       /\ pieceBufs' = [pieceBufs EXCEPT ![m.block] = m.data]
       /\ MarkCompleted(m.block, m.from)
       /\ IF PieceDone(m.block)
          THEN /\ pc' = "verify"
               /\ verifying' = m.block[1]
               /\ torrentDone' = TorrentDone(m.block)
               /\ UNCHANGED <<victim, todo, cur, doneClosed>>
          ELSE /\ Goto("pipeline")
               /\ doneClosed' = IF TorrentDone(m.block) THEN doneClosed + 1
                                                        ELSE doneClosed
    /\ UNCHANGED <<clientVars, lockVars, storageCh, storage, disk, session>>

----------------------------------------------------------------------------
(* verifyAndWritePiece, then the close of doneCh *)

DataOf(p) == {pieceBufs[b] : b \in BlocksOf(p)}

ForgetBufs(p) ==
    pieceBufs' = [b \in Blocks |-> IF b[1] = p THEN "none" ELSE pieceBufs[b]]

\* Mutant of CloseIfDone: doneCh is closed with the first verified piece.
CloseAtOnce ==
    /\ doneClosed' = doneClosed + 1
    /\ torrentDone' = FALSE
    /\ pc' = "pipeline"
    /\ UNCHANGED <<victim, verifying, todo, cur>>

CloseIfDone ==
    /\ doneClosed' = IF torrentDone THEN doneClosed + 1 ELSE doneClosed
    /\ torrentDone' = FALSE
    /\ pc' = "pipeline"
    /\ UNCHANGED <<victim, verifying, todo, cur>>

\* The hash matches: the piece is sent to storageLoop once there is room.
WritePiece ==
    /\ pc = "verify"
    /\ DataOf(verifying) = {"good"}
    /\ Len(storageCh) < StorageCap
    /\ storageCh' = Append(storageCh, verifying)
    /\ ForgetBufs(verifying)
    /\ CloseIfDone
    /\ UNCHANGED <<pickerVars, clientVars, lockVars, InMessages, storage, disk,
                   session>>

\* A block is missing or the hash differs: revertPiece.
RevertPiece ==
    /\ pc = "verify"
    /\ DataOf(verifying) # {"good"}
    /\ ForgetBufs(verifying)
    /\ MarkFailed(BlocksOf(verifying))
    /\ CloseIfDone
    /\ UNCHANGED <<clientVars, lockVars, InMessages, storageCh, storage, disk,
                   session>>

----------------------------------------------------------------------------
(* pipelineRequests *)

PipelineBegin ==
    /\ pc = "pipeline"
    /\ adding = NoClient
    /\ pc' = "visit"
    /\ todo' = Range(activePeers)
    /\ UNCHANGED <<pickerVars, clientVars, lockVars, InMessages, victim, verifying,
                   torrentDone, cur, dataVars>>

Visiting(c) == pc = "visit" /\ cur = c

\* A client is looked at once for Choked; the inner loop does not ask again.
PipelineVisit(c) ==
    /\ Visiting(NoClient)
    /\ c \in todo
    /\ IF choked[c] THEN todo' = todo \ {c} /\ UNCHANGED cur
                    ELSE cur' = c /\ UNCHANGED todo
    /\ UNCHANGED <<pickerVars, clientVars, lockVars, InMessages, pc, victim,
                   verifying, torrentDone, dataVars>>

Free(c) == Cardinality(outstanding[c]) < MaxOutstanding

\* NextBlock and QueueRequest.
PipelineRequest(c, b) ==
    /\ Visiting(c) /\ Free(c)
    /\ NextBlock(AddressOf[c], b)
    /\ outstanding' = [outstanding EXCEPT ![c] = @ \cup {b}]
    /\ UNCHANGED <<link, choked, readerOn, lockVars, InMessages, loopVars,
                   dataVars>>

PipelineLeave(c) ==
    /\ Visiting(c)
    /\ IF Free(c) THEN NextBlockNone(AddressOf[c]) ELSE UNCHANGED pickerVars
    /\ todo' = todo \ {c}
    /\ cur' = NoClient
    /\ UNCHANGED <<clientVars, lockVars, InMessages, pc, victim, verifying,
                   torrentDone, dataVars>>

PipelineEnd ==
    /\ Visiting(NoClient) /\ todo = {}
    /\ Goto("select")
    /\ UNCHANGED <<pickerVars, clientVars, lockVars, InMessages, dataVars>>

----------------------------------------------------------------------------
(* storageLoop and the end of Session.Download *)

\* Start launches storageLoop after its own checks; if the file cannot be
\* opened again the loop ends and nobody receives from storageCh.
StorageOpen(result) ==
    /\ storage = "opening" /\ pc # "start"
    /\ storage' = result
    /\ UNCHANGED <<pickerVars, clientVars, lockVars, InMessages, loopVars,
                   pieceBufs, storageCh, disk, doneClosed, session>>

StorageWrite ==
    /\ storage = "run" /\ storageCh # <<>>
    /\ storageCh' = Tail(storageCh)
    /\ disk' = disk \cup {Head(storageCh)}
    /\ UNCHANGED <<pickerVars, clientVars, lockVars, InMessages, loopVars,
                   pieceBufs, storage, doneClosed, session>>

\* WriteAt fails: the error is logged and the piece is gone.
StorageWriteFails ==
    /\ DiskFaults
    /\ storage = "run" /\ storageCh # <<>>
    /\ storageCh' = Tail(storageCh)
    /\ UNCHANGED <<pickerVars, clientVars, lockVars, InMessages, loopVars,
                   pieceBufs, storage, disk, doneClosed, session>>

\* storageCh is closed and empty.
StorageExit ==
    /\ storage = "run" /\ storageCh = <<>> /\ pc = "returned"
    /\ storage' = "exited"
    /\ UNCHANGED <<pickerVars, clientVars, lockVars, InMessages, loopVars,
                   pieceBufs, storageCh, disk, doneClosed, session>>

DownloadReturns ==
    /\ session = "waiting" /\ doneClosed > 0
    /\ session' = "ok"
    /\ UNCHANGED <<pickerVars, clientVars, lockVars, InMessages, loopVars,
                   pieceBufs, storageCh, storage, disk, doneClosed>>

RequestExpires(b) == RequestAges(b) /\ UNCHANGED managerVars

----------------------------------------------------------------------------

EventLoop ==
    \/ StartOk \/ SelectDone \/ SelectTicker
    \/ HandleDropped \/ RemovePeerEnd \/ HandleTimeout \/ HandleBitfield
    \/ HandleHave \/ HandleOther \/ HandlePiece
    \/ WritePiece \/ RevertPiece
    \/ PipelineBegin \/ PipelineEnd
    \/ \E c \in Clients : PipelineVisit(c) \/ PipelineLeave(c)
    \/ \E c \in Clients, b \in Blocks : PipelineRequest(c, b)

Qualities == IF Corrupt THEN {"good", "bad"} ELSE {"good"}

Client(c) ==
    \/ ReadBitfield(c)
    \/ \E p \in Haves : ReadHave(c, p)
    \/ ReadChoke(c, TRUE) \/ ReadChoke(c, FALSE)
    \/ \E b \in Blocks, q \in Qualities : ReadPiece(c, b, q)
    \/ ReadError(c) \/ ReadAborted(c)
    \/ \E b \in Blocks : TickerStall(c, b)
    \/ ClientCloses(c)

ManagerStep ==
    \/ EventLoop
    \/ StartFails
    \/ \E c \in Clients : AddPeerBegin(c)
    \/ AddPeerDrain \/ AddPeerEnd
    \/ \E c \in Clients : Client(c)
    \/ StorageOpen("run") \/ (DiskFaults /\ StorageOpen("exited"))
    \/ StorageWrite \/ StorageWriteFails \/ StorageExit
    \/ DownloadReturns
    \/ \E b \in Blocks : RequestExpires(b)

\* main returns some time after Download has, with what it reports, and takes
\* every goroutine with it; Download does not wait for storageLoop.
ProcessExits ==
    /\ process = "run" /\ session # "waiting"
    /\ process' = "exited"
    /\ UNCHANGED <<pickerVars, managerVars>>

Running(A) == process = "run" /\ A /\ UNCHANGED process

ManagerNext == Running(ManagerStep) \/ ProcessExits

ManagerSpec == Init /\ [][ManagerNext]_vars

\* The event loop, storageLoop and a dialer inside AddPeer run whenever they
\* can, until the program ends; a select that is offered the closed doneCh again
\* and again takes it, as Go chooses among ready cases at random.  Nothing is
\* assumed of peers, nor of how soon the program ends.
Fairness ==
    /\ WF_vars(Running(EventLoop))
    /\ SF_vars(Running(SelectDone))
    /\ WF_vars(Running(AddPeerDrain)) /\ WF_vars(Running(AddPeerEnd))
    /\ WF_vars(Running(StorageOpen("run"))) /\ WF_vars(Running(StorageWrite))
    /\ WF_vars(Running(StorageExit))

FairSpec == ManagerSpec /\ Fairness

----------------------------------------------------------------------------
(* Properties *)

Messages ==
    {Bitfield(a, S) : a \in Peers, S \in SUBSET Pieces}
    \cup {Have(a, p) : a \in Peers, p \in Haves}
    \cup {Piece(a, b, q) : a \in Peers, b \in Blocks, q \in {"good", "bad"}}
    \cup {Timeout(a, b) : a \in Peers, b \in Blocks}
    \cup {Dropped(a) : a \in Peers} \cup {Other(a) : a \in Peers}

\* The type of the manager's state; the picker's is TypeOK.  The two channels
\* stay within their capacity and no client has more than MaxOutstanding
\* requests in flight.
ManagerTypeOK ==
    /\ DOMAIN activePeers \subseteq Peers
    /\ \A a \in DOMAIN activePeers :
          activePeers[a] \in Clients /\ AddressOf[activePeers[a]] = a
    /\ link \in [Clients -> {"dialed", "open", "closed"}]
    /\ choked \in [Clients -> BOOLEAN]
    /\ outstanding \in [Clients -> {S \in SUBSET Blocks :
                                      Cardinality(S) <= MaxOutstanding}]
    /\ readerOn \subseteq Clients
    /\ adding \in Clients \cup {NoClient} /\ toDrain \in Nat
    /\ InMessages \in Seq(Messages)
    /\ Len(InMessages) <= InMessagesCap
    /\ pc \in {"start", "select", "unregister", "verify", "pipeline", "visit",
               "returned"}
    /\ victim \in Peers \cup {NoPeer} /\ verifying \in Pieces \cup {0}
    /\ torrentDone \in BOOLEAN
    /\ todo \subseteq Clients /\ cur \in Clients \cup {NoClient}
    /\ pieceBufs \in [Blocks -> {"none", "good", "bad"}]
    /\ storageCh \in Seq(Pieces)
    /\ Len(storageCh) <= StorageCap
    /\ storage \in {"opening", "run", "exited"} /\ disk \subseteq Pieces
    /\ doneClosed \in Nat /\ session \in {"waiting", "ok", "error"}
    /\ process \in {"run", "exited"}

\* The data of every completed block of a piece that is still to be verified
\* is in pieceBufs: verifyAndWritePiece never meets a missing block, in spite
\* of late and duplicate answers, timeouts, reverts and failed hashes.
CompletedIsBuffered ==
    \A b \in InState("completed") :
        (b[1] \notin pieceCompleted \/ (pc = "verify" /\ b[1] = verifying))
            => pieceBufs[b] # "none"

\* The manager's state has its type, which bounds channels and pipelines, and no
\* block that is needed for a hash is missing from pieceBufs.
ManagerInv == ManagerTypeOK /\ CompletedIsBuffered

\* doneCh is closed at most once, whatever arrives after the last block; a
\* second close would panic.
DoneClosedOnce == doneClosed <= 1

Queued == {storageCh[i] : i \in DOMAIN storageCh}

\* No piece is handed to storageLoop twice: the pieces queued and the pieces on
\* disk are disjoint, no piece is queued twice, and all of them are finished.
WrittenOnce ==
    /\ Queued \cap disk = {}
    /\ Cardinality(Queued) = Len(storageCh)
    /\ Queued \cup disk \subseteq pieceCompleted

\* The download as the caller of Session.Download sees it: a piece counts once
\* it is verified and handed to storageLoop.
Contract == INSTANCE DownloadContract
    WITH AllPieces <- Pieces, verified <- Queued \cup disk, outcome <- session

\* As long as peers send what was asked for and the disk works, the manager
\* keeps the contract: Download reports success only when every piece has been
\* verified and handed over, each once, and nothing changes afterwards.
KeepsContract == Contract!Spec

\* Every address known to the picker belongs to an active peer or to the one
\* RemovePeer is just unregistering, so that requests held by a peer that is
\* gone are reverted.
RegisteredIsActive == Registered \subseteq DOMAIN activePeers \cup {victim}

\* AddPeer holds peersMu and waits for room in InMessages, from which only the
\* event loop takes.
AddPeerWaits == adding # NoClient /\ toDrain > 0 /\ ~Room

\* The event loop comes back to its select from every message: the request loop
\* ends, peersMu is free again, storageCh gets room.  It does not in end-game mode
\* (finding_livelock), nor if it needs peersMu while AddPeer waits with it for
\* room in InMessages: then both wait for ever.  That QueueRequest returns is
\* assumed here: PeerClient is about the writeCh it waits for.
EventLoopReturns ==
    (pc \notin {"start", "select", "returned"}) ~>
        (pc = "select" \/ endGame \/ AddPeerWaits \/ process = "exited")


\* README.md:141, "Downloads the entire file from peers": pipelineRequests
\* comes to an end, so that the answers can be handled.
RequestLoopEnds == (pc = "visit") ~> (pc = "select" \/ process = "exited")

\* manager.go:236, "SHA1 hash mismatch ... Re-queueing blocks.": the download
\* is not declared done while a piece is missing.
DoneMeansComplete == doneClosed > 0 => Queued \cup disk = Pieces
=============================================================================
