---------------------------- MODULE PiecePicker ----------------------------
(***************************************************************************)
(* download/picker.go: the PiecePicker, shared by the manager's event loop *)
(* and the dialing goroutines.  Every method runs under p.mu from its      *)
(* first line to its last, so each is one action.                          *)
(*                                                                         *)
(* Time: a block's Sent stamp matters only to GetStalledRequests, which    *)
(* asks whether it is older than the timeout.  The set stale holds the     *)
(* pending blocks for which it is; the clock may age any pending block,    *)
(* and taking a new stamp takes the block out of the set.                  *)
(***************************************************************************)
EXTENDS PieceGeometry

CONSTANTS Peers,            \* peer addresses
          NoPeer,           \* the empty address ""
          MaxAvailability   \* bound: availability counters stay below it

ASSUME PeersAssumption ==
    /\ IsFiniteSet(Peers)
    /\ NoPeer \notin Peers
    /\ MaxAvailability \in Nat

VARIABLES
    blockState,      \* block -> "unrequested", "pending" or "completed"
    blockPeer,       \* block -> address holding the request, or NoPeer
    stale,           \* pending blocks whose Sent is older than the timeout
    pieceCompleted,  \* pieces whose Completed flag is set
    peerPieces,      \* registered address -> pieces its bitmap marks
    availability,    \* piece -> counter that orders the candidates
    pendingCount,
    completed,
    endGame

pickerVars == <<blockState, blockPeer, stale, pieceCompleted, peerPieces,
                availability, pendingCount, completed, endGame>>
blockVars == <<blockState, blockPeer, stale, pieceCompleted,
               pendingCount, completed>>
peerVars == <<peerPieces, availability>>

BlockStates == {"unrequested", "pending", "completed"}

InState(s) == {b \in Blocks : blockState[b] = s}

Registered == DOMAIN peerPieces

Holders(p) == {a \in Registered : p \in peerPieces[a]}

----------------------------------------------------------------------------
(* NewPiecePicker *)

PickerInit ==
    /\ blockState = [b \in Blocks |-> "unrequested"]
    /\ blockPeer = [b \in Blocks |-> NoPeer]
    /\ stale = {}
    /\ pieceCompleted = {}
    /\ peerPieces = [a \in {} |-> {}]
    /\ availability = [p \in Pieces |-> 0]
    /\ pendingCount = 0
    /\ completed = 0
    /\ endGame = FALSE

----------------------------------------------------------------------------
(* Peers and what they have *)

\* A fresh, empty bitmap, whether or not the address already had one.  The
\* availability counters are left alone.
RegisterPeer(a) ==
    /\ peerPieces' = [x \in Registered \cup {a} |->
                         IF x = a THEN {} ELSE peerPieces[x]]
    /\ UNCHANGED <<blockVars, availability, endGame>>

\* The blocks of S, all pending, go back to the unrequested state.
Revert(S) ==
    /\ blockState' = [b \in Blocks |->
                         IF b \in S THEN "unrequested" ELSE blockState[b]]
    /\ blockPeer' = [b \in Blocks |-> IF b \in S THEN NoPeer ELSE blockPeer[b]]
    /\ stale' = stale \ S
    /\ pendingCount' = pendingCount - Cardinality(S)
    /\ UNCHANGED <<pieceCompleted, completed>>

Incomplete == {b \in Blocks : b[1] \notin pieceCompleted}

\* Mutant of UnregisterPeer: the bitmap is not deleted.
UnregisterPeerKeepsBitmap(a) ==
    /\ availability' = [p \in Pieces |->
          IF a \in Registered /\ p \in peerPieces[a] THEN availability[p] - 1
                                                     ELSE availability[p]]
    /\ Revert({b \in Incomplete : blockState[b] = "pending" /\ blockPeer[b] = a})
    /\ UNCHANGED <<peerPieces, endGame>>

\* Mutant of UnregisterPeer: the pending blocks of the peer are not reverted.
UnregisterPeerKeepsRequests(a) ==
    /\ peerPieces' = [x \in Registered \ {a} |-> peerPieces[x]]
    /\ availability' = [p \in Pieces |->
          IF a \in Registered /\ p \in peerPieces[a] THEN availability[p] - 1
                                                     ELSE availability[p]]
    /\ UNCHANGED <<blockVars, endGame>>

UnregisterPeer(a) ==
    /\ IF a \in Registered
       THEN /\ availability' = [p \in Pieces |->
                  IF p \in peerPieces[a] THEN availability[p] - 1
                                         ELSE availability[p]]
            /\ peerPieces' = [x \in Registered \ {a} |-> peerPieces[x]]
       ELSE UNCHANGED peerVars
    /\ Revert({b \in Incomplete : blockState[b] = "pending" /\ blockPeer[b] = a})
    /\ UNCHANGED endGame

\* Pieces of S not yet in the bitmap are entered and counted.
Learn(a, S) ==
    /\ IF a \in Registered
       THEN /\ peerPieces' = [peerPieces EXCEPT ![a] = @ \cup S]
            /\ availability' = [p \in Pieces |->
                  IF p \in S \ peerPieces[a] THEN availability[p] + 1
                                             ELSE availability[p]]
       ELSE UNCHANGED peerVars
    /\ UNCHANGED <<blockVars, endGame>>

\* S: the pieces whose bit is set.  A short payload leaves the tail unset and
\* spare bits of a long one are never looked at, so S is a set of pieces.
UpdatePeerBitfield(a, S) == Learn(a, S)

\* An index outside the torrent is ignored.
UpdatePeerHave(a, p) == Learn(a, {p} \cap Pieces)

----------------------------------------------------------------------------
(* Choosing a block *)

Candidates(a) ==
    IF a \in Registered THEN peerPieces[a] \ pieceCompleted ELSE {}

HasUnrequested(a) ==
    \E b \in Blocks : b[1] \in Candidates(a) /\ blockState[b] = "unrequested"

\* Whether the picker is in end-game mode once it has looked at a's pieces.
EndGameFor(a) ==
    \/ endGame
    \/ /\ Candidates(a) # {}
       /\ ~HasUnrequested(a)
       /\ completed < TotalBlocks

Pickable(a) ==
    {b \in Blocks : /\ b[1] \in Candidates(a)
                    /\ blockState[b] = IF EndGameFor(a) THEN "pending"
                                                        ELSE "unrequested"}

\* The first wanted block of a rarest candidate.  sort.Slice is not stable, so
\* among equally rare pieces any may come first.
Picks(a) ==
    {b \in Pickable(a) :
        \A c \in Pickable(a) :
            /\ availability[b[1]] <= availability[c[1]]
            /\ c[1] = b[1] => b[2] <= c[2]}

\* Mutant of NextBlock: the loop works on a copy of the block, so what it
\* writes to it is lost.
NextBlockOnCopy(a, b) ==
    /\ b \in Picks(a)
    /\ endGame' = EndGameFor(a)
    /\ UNCHANGED <<blockVars, peerVars>>

\* NextBlock(a) returning block b.  In end-game mode the block keeps the peer
\* it was first requested from, and only its time stamp is taken anew.
NextBlock(a, b) ==
    /\ b \in Picks(a)
    /\ endGame' = EndGameFor(a)
    /\ IF EndGameFor(a)
       THEN /\ stale' = stale \ {b}
            /\ UNCHANGED <<blockState, blockPeer, pendingCount>>
       ELSE /\ blockState' = [blockState EXCEPT ![b] = "pending"]
            /\ blockPeer' = [blockPeer EXCEPT ![b] = a]
            /\ pendingCount' = pendingCount + 1
            /\ UNCHANGED stale
    /\ UNCHANGED <<pieceCompleted, completed, peerVars>>

\* NextBlock(a) returning false.
NextBlockNone(a) ==
    /\ Picks(a) = {}
    /\ endGame' = EndGameFor(a)
    /\ UNCHANGED <<blockVars, peerVars>>

----------------------------------------------------------------------------
(* What becomes of a request *)

\* MarkCompleted takes the block: none of its early returns applies.
Accepts(b) ==
    /\ b \in Blocks
    /\ b[1] \notin pieceCompleted
    /\ blockState[b] # "completed"

\* Mutant of PieceDone: a block nobody has asked for does not hold it back.
PieceDoneSkipsUnrequested(b) ==
    /\ Accepts(b)
    /\ \A c \in BlocksOf(b[1]) \ {b} : blockState[c] # "pending"

\* Mutant of PieceDone: true again for a duplicate of a block of the piece.
PieceDoneAgain(b) ==
    \A c \in BlocksOf(b[1]) \ {b} : blockState[c] = "completed"

\* The second and the third result of MarkCompleted.
PieceDone(b) ==
    /\ Accepts(b)
    /\ \A c \in BlocksOf(b[1]) \ {b} : blockState[c] = "completed"

\* Mutant of TorrentDone: true again for a duplicate after the last block.
TorrentDoneAgain(b) ==
    (IF Accepts(b) THEN completed + 1 ELSE completed) = TotalBlocks

TorrentDone(b) == Accepts(b) /\ completed + 1 = TotalBlocks

\* Mutant of MarkCompleted: pendingCount-- also for a block that had already
\* been reverted when its answer came.
MarkCompletedAlwaysCounts(b, a) ==
    IF Accepts(b)
    THEN /\ blockState' = [blockState EXCEPT ![b] = "completed"]
         /\ blockPeer' = [blockPeer EXCEPT ![b] = a]
         /\ stale' = stale \ {b}
         /\ pendingCount' = pendingCount - 1
         /\ completed' = completed + 1
         /\ pieceCompleted' = IF PieceDone(b) THEN pieceCompleted \cup {b[1]}
                                              ELSE pieceCompleted
         /\ UNCHANGED <<peerVars, endGame>>
    ELSE UNCHANGED pickerVars

MarkCompleted(b, a) ==
    IF Accepts(b)
    THEN /\ blockState' = [blockState EXCEPT ![b] = "completed"]
         /\ blockPeer' = [blockPeer EXCEPT ![b] = a]
         /\ stale' = stale \ {b}
         /\ pendingCount' = IF blockState[b] = "pending" THEN pendingCount - 1
                                                         ELSE pendingCount
         /\ completed' = completed + 1
         /\ pieceCompleted' = IF PieceDone(b) THEN pieceCompleted \cup {b[1]}
                                              ELSE pieceCompleted
         /\ UNCHANGED <<peerVars, endGame>>
    ELSE UNCHANGED pickerVars

\* Mutant of MarkFailed: the state of the block is not looked at.
MarkFailedAnyState(S) ==
    /\ Revert(Blocks \cap S)
    /\ UNCHANGED <<peerVars, endGame>>

\* MarkFailed on each block of S: only a pending block of the torrent reacts.
MarkFailed(S) ==
    /\ Revert({b \in Blocks \cap S : blockState[b] = "pending"})
    /\ UNCHANGED <<peerVars, endGame>>

GetStalledRequests ==
    /\ Revert({b \in Incomplete : blockState[b] = "pending" /\ b \in stale})
    /\ UNCHANGED <<peerVars, endGame>>

\* The clock passes the timeout of a pending block's request.
RequestAges(b) ==
    /\ blockState[b] = "pending"
    /\ b \notin stale
    /\ stale' = stale \cup {b}
    /\ UNCHANGED <<blockState, blockPeer, pieceCompleted, pendingCount,
                   completed, peerVars, endGame>>

IsCompleted == completed = TotalBlocks

----------------------------------------------------------------------------
(* The picker under arbitrary callers: any method, any argument, any order. *)

BelowBound(S) == \A p \in S : availability[p] < MaxAvailability

Next ==
    \/ \E a \in Peers :
        \/ RegisterPeer(a)
        \/ UnregisterPeer(a)
        \/ \E S \in SUBSET Pieces : BelowBound(S) /\ UpdatePeerBitfield(a, S)
        \/ \E p \in 0 .. TotalPieces :
              BelowBound({p} \cap Pieces) /\ UpdatePeerHave(a, p)
        \/ \E b \in Blocks : NextBlock(a, b)
        \/ NextBlockNone(a)
        \/ \E b \in WireBlocks : MarkCompleted(b, a)
    \/ \E b \in WireBlocks : MarkFailed({b})
    \/ GetStalledRequests
    \/ \E b \in Blocks : RequestAges(b)

Spec == PickerInit /\ [][Next]_pickerVars

----------------------------------------------------------------------------
(* Properties *)

\* The type of the picker's fields.  The counters are plain Go ints that the
\* methods increment and decrement: none may go below zero.
TypeOK ==
    /\ blockState \in [Blocks -> BlockStates]
    /\ blockPeer \in [Blocks -> Peers \cup {NoPeer}]
    /\ stale \subseteq Blocks
    /\ pieceCompleted \subseteq Pieces
    /\ Registered \subseteq Peers
    /\ peerPieces \in [Registered -> SUBSET Pieces]
    /\ availability \in [Pieces -> Nat]
    /\ pendingCount \in Nat
    /\ completed \in Nat
    /\ endGame \in BOOLEAN

\* pendingCount and completed, which five methods update by one at a time,
\* always equal the number of blocks in that state; doneCh is closed on the
\* strength of completed == totalBlocks.
CountersExact ==
    /\ pendingCount = Cardinality(InState("pending"))
    /\ completed = Cardinality(InState("completed"))

\* A piece carries the Completed flag exactly when all its blocks are
\* completed: the loops that skip flagged pieces never skip a pending block,
\* and no finished piece is left without the flag.
PieceFlagExact ==
    \A p \in Pieces :
        p \in pieceCompleted
            <=> \A b \in BlocksOf(p) : blockState[b] = "completed"

\* Every pending block is owned by a registered peer, so a request outstanding
\* at a peer that left is always reverted by UnregisterPeer; and only pending
\* blocks age.
PendingOwned ==
    /\ \A b \in InState("pending") : blockPeer[b] \in Registered
    /\ stale \subseteq InState("pending")

\* The availability counter of a piece never falls below the number of
\* registered peers that have it, whatever the order of registrations,
\* repeated bitfields and haves, and removals.
AvailabilityCovers ==
    \A p \in Pieces : Cardinality(Holders(p)) <= availability[p]

Safety ==
    /\ CountersExact
    /\ PieceFlagExact
    /\ PendingOwned
    /\ AvailabilityCovers

\* While a piece is incomplete, a block of it that has come stays completed: no
\* late answer, late timeout, end-game request or departing peer reopens it, its
\* data being in the manager's buffer.  Of a piece whose hash has been looked at
\* nothing is said here: one that fails ought to be reopened (run
\* finding_hash_mismatch).
ReceivedBlockKept ==
    [][InState("completed") \cap Incomplete
          \subseteq {b \in Blocks : blockState'[b] = "completed"}]_pickerVars
=============================================================================
