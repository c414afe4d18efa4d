--------------------------- MODULE ConcurrentFile ---------------------------
(***************************************************************************)
(* download/concurrent.go: ConcurrentFile, one worker goroutine per peer   *)
(* around a shared channel of work, and the caller that collects results.  *)
(*                                                                         *)
(* Channels are sequences; a send waits for room unless done is closed,    *)
(* which the caller does when it returns.  What DownloadPiece brings back  *)
(* is "good" data, "bad" data or an "error", as the peer pleases.          *)
(***************************************************************************)
EXTENDS PieceGeometry, Sequences

CONSTANTS Workers,     \* numWorkers goroutines
          MaxRetries   \* how often a piece goes back to workCh; 3 in the code

ASSUME WorkersAssumption ==
    /\ IsFiniteSet(Workers) /\ Workers # {}
    /\ MaxRetries \in Nat

VARIABLES
    workCh,     \* pieceWork values: index and retries
    resultCh,   \* indices of verified pieces
    errCh,      \* indices of pieces that were given up
    worker,     \* worker -> where it is
    job,        \* worker -> the pieceWork it took last
    pieceMap,   \* indices collected
    result,     \* what ConcurrentFile returned; "waiting" before it does
    crashed     \* has a panic ended the process?

stateVars == <<workCh, resultCh, errCh, worker, job, pieceMap, result>>
vars == <<stateVars, crashed>>
channels == <<workCh, resultCh, errCh>>

Work == [index : Pieces, retries : 0 .. MaxRetries]

\* The channel done is closed by a deferred call when the caller returns.
done == result # "waiting"

Holding == {"downloading", "requeue", "giveup", "deliver"}

----------------------------------------------------------------------------

Init ==
    /\ workCh = [i \in 1 .. TotalPieces |-> [index |-> i - 1, retries |-> 0]]
    /\ resultCh = <<>>
    /\ errCh = <<>>
    /\ worker = [w \in Workers |-> "connecting"]
    /\ job = [w \in Workers |-> <<>>]
    /\ pieceMap = {}
    /\ result = "waiting"
    /\ crashed \in BOOLEAN   \* peers[w%len(peers)] panics if there is no peer

Goto(w, l) == worker' = [worker EXCEPT ![w] = l]

\* NewClient, SendInterested and WaitForUnchoke: any of them may fail.  NewClient
\* need not return: it reads on as long as each message follows the last one
\* within 1.5 seconds.
Connect(w) ==
    /\ worker[w] = "connecting"
    /\ \E l \in {"idle", "exited"} : Goto(w, l)
    /\ UNCHANGED <<channels, job, pieceMap, result>>

TakeWork(w) ==
    /\ worker[w] = "idle"
    /\ workCh # <<>>
    /\ job' = [job EXCEPT ![w] = Head(workCh)]
    /\ workCh' = Tail(workCh)
    /\ Goto(w, "downloading")
    /\ UNCHANGED <<resultCh, errCh, pieceMap, result>>

\* Mutant of Downloaded: one retry too many.
DownloadedOffByOne(w, data) ==
    /\ worker[w] = "downloading"
    /\ Goto(w, IF data = "good" THEN "deliver"
               ELSE IF job[w].retries <= MaxRetries THEN "requeue" ELSE "giveup")
    /\ UNCHANGED <<channels, job, pieceMap, result>>

\* DownloadPiece returned; the hash of what it brought is checked.
Downloaded(w, data) ==
    /\ worker[w] = "downloading"
    /\ Goto(w, IF data = "good" THEN "deliver"
               ELSE IF job[w].retries < MaxRetries THEN "requeue" ELSE "giveup")
    /\ UNCHANGED <<channels, job, pieceMap, result>>

\* DownloadPiece slices a piece message that is too short, or whose begin lies
\* behind the end of the piece.
DownloadPanics(w) ==
    /\ worker[w] = "downloading"
    /\ crashed' = TRUE
    /\ UNCHANGED stateVars

\* Mutant of Requeue: the piece is dropped.
RequeueForgets(w) ==
    /\ worker[w] = "requeue"
    /\ Goto(w, "idle")
    /\ UNCHANGED <<channels, job, pieceMap, result>>

\* Mutant of Requeue: the piece goes back with a copy, one for each further try.
RequeueTwice(w) ==
    /\ worker[w] = "requeue"
    /\ Len(workCh) < TotalPieces * 4
    /\ workCh' = workCh \o
          [i \in 1 .. 2 |-> [job[w] EXCEPT !.retries = @ + 1]]
    /\ Goto(w, "idle")
    /\ UNCHANGED <<resultCh, errCh, job, pieceMap, result>>

Requeue(w) ==
    /\ worker[w] = "requeue"
    /\ Len(workCh) < TotalPieces * 4
    /\ workCh' = Append(workCh, [job[w] EXCEPT !.retries = @ + 1])
    /\ Goto(w, "idle")
    /\ UNCHANGED <<resultCh, errCh, job, pieceMap, result>>

GiveUp(w) ==
    /\ worker[w] = "giveup"
    /\ Len(errCh) < Cardinality(Workers)
    /\ errCh' = Append(errCh, job[w].index)
    /\ Goto(w, "exited")
    /\ UNCHANGED <<workCh, resultCh, job, pieceMap, result>>

Deliver(w) ==
    /\ worker[w] = "deliver"
    /\ Len(resultCh) < TotalPieces
    /\ resultCh' = Append(resultCh, job[w].index)
    /\ Goto(w, "idle")
    /\ UNCHANGED <<workCh, errCh, job, pieceMap, result>>

\* Mutant of SeeDone: a worker between two pieces does not look at done.
SeeDoneOnlySending(w) ==
    /\ done
    /\ \/ worker[w] = "giveup" /\ Goto(w, "exited")
       \/ worker[w] \in {"requeue", "deliver"} /\ Goto(w, "idle")
    /\ UNCHANGED <<channels, job, pieceMap, result>>

\* The done branch of each select.
SeeDone(w) ==
    /\ done
    /\ \/ worker[w] \in {"idle", "giveup"} /\ Goto(w, "exited")
       \/ worker[w] \in {"requeue", "deliver"} /\ Goto(w, "idle")
    /\ UNCHANGED <<channels, job, pieceMap, result>>

----------------------------------------------------------------------------
(* The caller *)

Collecting == result = "waiting" /\ Cardinality(pieceMap) < TotalPieces

CollectResult ==
    /\ Collecting
    /\ resultCh # <<>>
    /\ pieceMap' = pieceMap \cup {Head(resultCh)}
    /\ resultCh' = Tail(resultCh)
    /\ UNCHANGED <<workCh, errCh, worker, job, result>>

CollectError ==
    /\ Collecting
    /\ errCh # <<>>
    /\ errCh' = Tail(errCh)
    /\ result' = "error"
    /\ UNCHANGED <<workCh, resultCh, worker, job, pieceMap>>

AllWorkersDone ==
    /\ Collecting
    /\ \A w \in Workers : worker[w] = "exited"
    /\ result' = "error"
    /\ UNCHANGED <<channels, worker, job, pieceMap>>

\* Mutant of Assemble: the loop ends one result early.
AssembleEarly ==
    /\ result = "waiting"
    /\ Cardinality(pieceMap) >= TotalPieces - 1
    /\ result' = "ok"
    /\ UNCHANGED <<channels, worker, job, pieceMap>>

Assemble ==
    /\ result = "waiting" /\ ~Collecting
    /\ result' = "ok"
    /\ UNCHANGED <<channels, worker, job, pieceMap>>

----------------------------------------------------------------------------

PieceStep(w) ==
    \/ TakeWork(w)
    \/ \E d \in {"good", "bad", "error"} : Downloaded(w, d)
    \/ Requeue(w) \/ GiveUp(w) \/ Deliver(w) \/ SeeDone(w)

Caller == CollectResult \/ CollectError \/ AllWorkersDone \/ Assemble

Step == Caller \/ \E w \in Workers : Connect(w) \/ PieceStep(w)

Running(A) == ~crashed /\ A /\ UNCHANGED crashed

Next == Running(Step) \/ (~crashed /\ \E w \in Workers : DownloadPanics(w))

Spec == Init /\ [][Next]_vars

\* Goroutines run when they can.  DownloadPiece returns, as it has one deadline for
\* all it does; of NewClient nothing is assumed.  A worker that keeps finding both
\* done and work in its select takes done in the end.
Fairness ==
    /\ WF_vars(Running(Caller))
    /\ \A w \in Workers :
          WF_vars(Running(PieceStep(w))) /\ SF_vars(Running(SeeDone(w)))

FairSpec == Spec /\ Fairness

----------------------------------------------------------------------------
(* Properties *)

\* The type of the channels and of the workers' state.  A job never carries
\* more than MaxRetries retries.
TypeOK ==
    /\ workCh \in Seq(Work)
    /\ resultCh \in Seq(Pieces)
    /\ errCh \in Seq(Pieces)
    /\ worker \in [Workers -> {"connecting", "idle", "exited"} \cup Holding]
    /\ DOMAIN job = Workers
    /\ \A w \in Workers : worker[w] \in Holding => job[w] \in Work
    /\ \A w \in Workers : worker[w] = "requeue" => job[w].retries < MaxRetries
    /\ pieceMap \subseteq Pieces
    /\ result \in {"waiting", "ok", "error"} /\ crashed \in BOOLEAN

Held(p) == {w \in Workers : worker[w] \in Holding /\ job[w].index = p}

\* Until the caller returns, no piece is ever lost between the channels: one
\* that is not yet collected is waiting in workCh, held by a worker, waiting in
\* resultCh, or its failure is on its way to the caller in errCh.
NoWorkLost ==
    result = "waiting" =>
        \A p \in Pieces \ pieceMap :
            \/ \E i \in DOMAIN workCh : workCh[i].index = p
            \/ Held(p) # {}
            \/ \E i \in DOMAIN resultCh : resultCh[i] = p
            \/ errCh # <<>>

\* No send ever waits: whatever the order of failures and retries, a piece is
\* in one place only, so the channels have room for it even though nobody may
\* be receiving.
SendsNeverWait ==
    \A w \in Workers :
        /\ worker[w] = "requeue" => Len(workCh) < TotalPieces * 4
        /\ worker[w] = "deliver" => Len(resultCh) < TotalPieces
        /\ worker[w] = "giveup" => Len(errCh) < Cardinality(Workers)

\* The download as its caller sees it: a piece counts once its verified data
\* has been collected.
Contract == INSTANCE DownloadContract
    WITH AllPieces <- Pieces, verified <- pieceMap, outcome <- result

\* ConcurrentFile keeps the contract: success only with every piece collected,
\* and nothing changes after it returned.
KeepsContract == Contract!Spec

\* Is worker w inside NewClient, or has it ended?
NotWorking(w) == worker[w] \in {"connecting", "exited"}

\* ConcurrentFile returns, whichever workers fail to connect, give up or keep
\* failing, unless the process panics or, in the end, the only workers left are
\* kept in NewClient by a peer that never falls silent (client.go:84-121).
Returns ==
    <>[](\/ result # "waiting" \/ crashed
         \/ /\ \A w \in Workers : NotWorking(w)
            /\ \E w \in Workers : worker[w] = "connecting")

\* No worker goroutine outlives the download for ever: each one sees done, also
\* when the download ended with work still in the channel, unless it never comes
\* out of NewClient.
WorkersEnd == <>[](crashed \/ \A w \in Workers : NotWorking(w))
=============================================================================
