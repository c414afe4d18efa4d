------------------------ MODULE TorrentManagerProofs ------------------------
(***************************************************************************)
(* The safety of the PiecePicker and of the TorrentManager around it, for  *)
(* every torrent, every set of peers and connections and every capacity of *)
(* the channels.                                                           *)
(*                                                                         *)
(* Of the picker's properties none is inductive alone.  pendingCount \in   *)
(* Nat needs the exact count; the exact count of a step that skips flagged *)
(* pieces needs the flag to mean what it says; availability \in Nat needs  *)
(* the counter to cover the registered holders.  TypeOK /\ Safety is       *)
(* inductive.                                                              *)
(*                                                                         *)
(* The inductive invariant of the manager has the picker's, the type of    *)
(* the manager's state, and two more parts: who is registered with the     *)
(* picker (PeersInv), and what becomes of the data (DataInv).  Nearly      *)
(* every step leaves alone all that DataInv speaks of; the lemma DataFrame *)
(* deals with those at once.                                               *)
(***************************************************************************)
EXTENDS TorrentManager, FiniteSetTheorems, SequenceTheorems, TLAPS

IInv == TypeOK /\ Safety

----------------------------------------------------------------------------
(* Geometry *)

\* Rounding up a quotient of naturals: the facts about CeilDiv used below.
LEMMA CeilDivBounds ==
    ASSUME NEW n \in Nat, NEW d \in Nat \ {0}
    PROVE  /\ CeilDiv(n, d) \in Nat
           /\ n > 0 => CeilDiv(n, d) > 0
           /\ (CeilDiv(n, d) - 1) * d < n
  BY DEF CeilDiv

\* The number of pieces is a natural number and every piece is nonempty.
LEMMA PieceLenPositive ==
    /\ TotalPieces \in Nat
    /\ \A p \in Pieces : PieceLen(p) \in Nat /\ PieceLen(p) > 0
<1>1. TotalPieces \in Nat /\ (TotalPieces - 1) * PieceLength < TotalLength
  BY CeilDivBounds, GeometryAssumption DEF TotalPieces
<1>2. ASSUME NEW p \in Pieces PROVE PieceLen(p) \in Nat /\ PieceLen(p) > 0
  BY <1>1, GeometryAssumption DEF Pieces, PieceLen
<1> QED BY <1>1, <1>2

\* There are finitely many blocks.
LEMMA BlocksFinite == IsFiniteSet(Blocks)
<1>1. TotalPieces - 1 \in Int /\ MaxBlocks - 1 \in Int
  BY PieceLenPositive, CeilDivBounds, GeometryAssumption DEF MaxBlocks
<1>2. IsFiniteSet(Pieces) /\ IsFiniteSet(0 .. MaxBlocks - 1)
  BY <1>1, FS_Interval DEF Pieces
<1>3. IsFiniteSet(Pieces \X (0 .. MaxBlocks - 1))
  BY <1>2, FS_Product
<1> QED BY <1>3, FS_Subset DEF Blocks

\* Every piece has a block, so a piece with no completed block is unfinished.
LEMMA PieceHasBlock ==
    ASSUME NEW p \in Pieces
    PROVE  <<p, 0>> \in BlocksOf(p)
<1>1. NumBlocks(p) \in Nat /\ NumBlocks(p) > 0
  BY PieceLenPositive, CeilDivBounds, GeometryAssumption DEF NumBlocks
<1>2. MaxBlocks \in Nat /\ MaxBlocks > 0
  BY CeilDivBounds, GeometryAssumption DEF MaxBlocks
<1> QED BY <1>1, <1>2 DEF BlocksOf, Blocks

\* Multiples of d keep the order of their factors, and lie d apart.
LEMMA MultiplesApart ==
    ASSUME NEW a \in Int, NEW b \in Int, NEW d \in Nat \ {0}, a < b
    PROVE  a * d + d <= b * d
<1>1. PICK k \in Nat : b = a + 1 + k
  <2>1. b - a - 1 \in Nat /\ b = a + 1 + (b - a - 1)
    OBVIOUS
  <2> QED BY <2>1
<1>2. b * d = a * d + d + k * d
  BY <1>1
<1>3. k * d \in Nat
  OBVIOUS
<1> QED BY <1>2, <1>3

\* Cut into parts of d, the last of which may be shorter, n is cut into
\* CeilDiv(n, d) parts: each x below n lies in one of them and in no other.
LEMMA Cut ==
    ASSUME NEW n \in Nat, NEW d \in Nat \ {0}, NEW x \in Nat
    PROVE  /\ x < n => \E k \in 0 .. CeilDiv(n, d) - 1 : k * d <= x /\ x < k * d + d
           /\ \A k, l \in Nat : k * d <= x /\ x < k * d + d /\ l * d <= x /\ x < l * d + d
                                    => k = l
<1>1. ASSUME x < n
      PROVE  \E k \in 0 .. CeilDiv(n, d) - 1 : k * d <= x /\ x < k * d + d
  <2> DEFINE k == x \div d
  <2>1. k \in Nat /\ k * d <= x /\ x < k * d + d
    OBVIOUS
  <2>2. CeilDiv(n, d) \in Nat /\ n <= CeilDiv(n, d) * d
    BY DEF CeilDiv
  <2>3. k < CeilDiv(n, d)
    <3> SUFFICES ASSUME CeilDiv(n, d) <= k PROVE FALSE
      BY <2>1, <2>2
    <3> HIDE DEF k
    <3>1. CeilDiv(n, d) * d <= k * d
      BY <2>1, <2>2, MultiplesApart
    <3> QED BY <1>1, <2>1, <2>2, <3>1
  <2> QED BY <2>1, <2>2, <2>3
<1>2. ASSUME NEW k \in Nat, NEW l \in Nat,
             k * d <= x, x < k * d + d, l * d <= x, x < l * d + d
      PROVE  k = l
  <2>1. k * d \in Nat /\ l * d \in Nat
    OBVIOUS
  <2>2. ~(k < l) /\ ~(l < k)
    BY <1>2, <2>1, MultiplesApart
  <2> QED BY <2>2
<1> QED BY <1>1, <1>2

\* A part of a whole has no more blocks than the whole: no block of a piece is
\* left out by the bound that MaxBlocks puts on block numbers.
LEMMA BlocksOfPiece ==
    ASSUME NEW p \in Pieces, NEW n \in Nat
    PROVE  <<p, n>> \in Blocks <=> n < NumBlocks(p)
<1>1. PieceLen(p) \in Nat /\ PieceLen(p) <= PieceLength
  <2>1. TotalPieces \in Nat /\ TotalLength <= TotalPieces * PieceLength
    BY GeometryAssumption DEF TotalPieces, CeilDiv
  <2>2. CASE p = TotalPieces - 1
    BY <2>1, <2>2, PieceLenPositive, GeometryAssumption DEF PieceLen
  <2>3. CASE p # TotalPieces - 1
    BY <2>3, PieceLenPositive, GeometryAssumption DEF PieceLen
  <2> QED BY <2>2, <2>3
<1>2. NumBlocks(p) \in Nat /\ MaxBlocks \in Nat
  BY <1>1, CeilDivBounds, GeometryAssumption DEF NumBlocks, MaxBlocks
<1>3. NumBlocks(p) <= MaxBlocks
  <2> SUFFICES ASSUME MaxBlocks < NumBlocks(p) PROVE FALSE
    BY <1>2
  <2>1. MaxBlocks * BlockSize + BlockSize <= NumBlocks(p) * BlockSize
    BY <1>2, MultiplesApart, GeometryAssumption
  <2>2. PieceLength <= MaxBlocks * BlockSize
    BY GeometryAssumption DEF MaxBlocks, CeilDiv
  <2>3. NumBlocks(p) * BlockSize < PieceLen(p) + BlockSize
    BY <1>1, GeometryAssumption DEF NumBlocks, CeilDiv
  <2>4. MaxBlocks * BlockSize \in Nat /\ NumBlocks(p) * BlockSize \in Nat
    BY <1>2, GeometryAssumption
  <2> QED BY <1>1, <2>1, <2>2, <2>3, <2>4, GeometryAssumption
<1> QED BY <1>2, <1>3 DEF Blocks

\* The bytes of the torrent that a block stands for.
Begin(b) == b[1] * PieceLength + BlockBegin(b[2])
Holds(b, x) == Begin(b) <= x /\ x < Begin(b) + BlockLength(b[1], b[2])

\* Where a block lies in its piece, and its piece in the torrent.
LEMMA BlockPlace ==
    ASSUME NEW p \in Pieces, NEW n \in 0 .. NumBlocks(p) - 1
    PROVE  /\ BlockLength(p, n) \in 1 .. BlockSize
           /\ n * BlockSize \in Nat /\ p * PieceLength \in Nat
           /\ n * BlockSize + BlockLength(p, n) <= PieceLen(p)
           /\ \A y \in Nat : (n * BlockSize <= y /\ y < n * BlockSize + BlockLength(p, n))
                <=> (y < PieceLen(p) /\ n * BlockSize <= y /\ y < n * BlockSize + BlockSize)
           /\ PieceLen(p) \in 1 .. PieceLength
           /\ p * PieceLength + PieceLen(p) <= TotalLength
<1>1. PieceLen(p) \in Nat \ {0} /\ p \in Nat /\ TotalPieces \in Nat /\ p < TotalPieces
  BY PieceLenPositive DEF Pieces
<1>2. p * PieceLength \in Nat
  BY <1>1, GeometryAssumption
<1>3. (TotalPieces - 1) * PieceLength < TotalLength /\ TotalLength <= TotalPieces * PieceLength
  BY CeilDivBounds, GeometryAssumption DEF TotalPieces, CeilDiv
<1>4. PieceLen(p) <= PieceLength /\ p * PieceLength + PieceLen(p) <= TotalLength
  <2>1. CASE p = TotalPieces - 1
    <3>1. TotalPieces * PieceLength = p * PieceLength + PieceLength
      BY <1>1, <2>1, GeometryAssumption
    <3> QED BY <1>1, <1>2, <1>3, <2>1, <3>1, GeometryAssumption DEF PieceLen
  <2>2. CASE p # TotalPieces - 1
    <3>1. p * PieceLength + PieceLength <= (TotalPieces - 1) * PieceLength
      BY <1>1, <2>2, MultiplesApart, GeometryAssumption
    <3>2. (TotalPieces - 1) * PieceLength \in Int
      BY <1>1, GeometryAssumption
    <3> QED BY <1>1, <1>2, <1>3, <2>2, <3>1, <3>2, GeometryAssumption DEF PieceLen
  <2> QED BY <2>1, <2>2
<1>5. NumBlocks(p) \in Nat /\ (NumBlocks(p) - 1) * BlockSize < PieceLen(p)
  BY <1>1, CeilDivBounds, GeometryAssumption DEF NumBlocks
<1>6. n \in Nat /\ n * BlockSize \in Nat
  BY <1>5, GeometryAssumption
<1>7. n * BlockSize < PieceLen(p)
  <2>1. CASE n = NumBlocks(p) - 1
    BY <1>5, <2>1
  <2>2. CASE n # NumBlocks(p) - 1
    <3>1. n * BlockSize + BlockSize <= (NumBlocks(p) - 1) * BlockSize
      BY <1>5, <2>2, MultiplesApart, GeometryAssumption
    <3>2. (NumBlocks(p) - 1) * BlockSize \in Int
      BY <1>5, GeometryAssumption
    <3> QED BY <1>1, <1>5, <1>6, <3>1, <3>2, GeometryAssumption
  <2> QED BY <2>1, <2>2
<1> QED BY <1>1, <1>2, <1>4, <1>6, <1>7, GeometryAssumption DEF BlockLength, BlockBegin

\* NewPiecePicker cuts the torrent, whatever its size, into blocks that hold each
\* of its bytes once and nothing past its end; none is empty, and none is longer
\* than a request may ask for.
THEOREM BlocksTile ==
    /\ \A b \in Blocks : /\ BlockLength(b[1], b[2]) \in 1 .. BlockSize
                         /\ Begin(b) + BlockLength(b[1], b[2]) <= TotalLength
    /\ \A x \in 0 .. TotalLength - 1 :
          \E b \in Blocks : Holds(b, x) /\ \A c \in Blocks : Holds(c, x) => c = b
<1>0. ASSUME NEW b \in Blocks
      PROVE  b[1] \in Pieces /\ b[2] \in 0 .. NumBlocks(b[1]) - 1 /\ b = <<b[1], b[2]>>
  <2>1. b[1] \in Pieces /\ b[2] \in Nat /\ b[2] < NumBlocks(b[1]) /\ b = <<b[1], b[2]>>
    <3>1. MaxBlocks \in Nat
      BY CeilDivBounds, GeometryAssumption DEF MaxBlocks
    <3> QED BY <3>1 DEF Blocks
  <2>2. NumBlocks(b[1]) \in Nat
    BY <2>1, PieceLenPositive, CeilDivBounds, GeometryAssumption DEF NumBlocks
  <2> QED BY <2>1, <2>2
<1>1. ASSUME NEW b \in Blocks
      PROVE  /\ BlockLength(b[1], b[2]) \in 1 .. BlockSize
             /\ Begin(b) + BlockLength(b[1], b[2]) <= TotalLength
  <2>1. b[1] \in Pieces /\ b[2] \in 0 .. NumBlocks(b[1]) - 1
    BY <1>0
  <2> QED BY <2>1, BlockPlace, GeometryAssumption DEF Begin, BlockBegin
\* A byte of a block lies in the piece and in the place its number says.
<1>2. ASSUME NEW c \in Blocks, NEW x \in Nat, Holds(c, x)
      PROVE  /\ c[1] * PieceLength <= x /\ x < c[1] * PieceLength + PieceLength
             /\ c[2] * BlockSize <= x - c[1] * PieceLength
             /\ x - c[1] * PieceLength < c[2] * BlockSize + BlockSize
             /\ x - c[1] * PieceLength \in Nat
  <2>1. c[1] \in Pieces /\ c[2] \in 0 .. NumBlocks(c[1]) - 1
    BY <1>0
  <2>2. /\ BlockLength(c[1], c[2]) \in 1 .. BlockSize
        /\ c[2] * BlockSize \in Nat /\ c[1] * PieceLength \in Nat
        /\ c[2] * BlockSize + BlockLength(c[1], c[2]) <= PieceLen(c[1])
        /\ PieceLen(c[1]) \in 1 .. PieceLength
    BY <2>1, BlockPlace
  <2>3. /\ c[1] * PieceLength + c[2] * BlockSize <= x
        /\ x < c[1] * PieceLength + c[2] * BlockSize + BlockLength(c[1], c[2])
    BY <1>2 DEF Holds, Begin, BlockBegin
  <2> QED BY <2>2, <2>3, GeometryAssumption
<1>3. ASSUME NEW x \in 0 .. TotalLength - 1 PROVE \E b \in Blocks : Holds(b, x)
  <2>0. x \in Nat /\ x < TotalLength
    BY GeometryAssumption
  <2>1. PICK p \in Pieces : p * PieceLength <= x /\ x < p * PieceLength + PieceLength
    BY <2>0, Cut, GeometryAssumption DEF Pieces, TotalPieces
  <2>2. p \in Nat /\ p * PieceLength \in Nat /\ PieceLen(p) \in Nat \ {0}
    BY PieceLenPositive, GeometryAssumption DEF Pieces
  <2> DEFINE y == x - p * PieceLength
  <2>3. y \in Nat /\ y < PieceLen(p)
    BY <2>0, <2>1, <2>2, GeometryAssumption DEF PieceLen
  <2>4. PICK n \in 0 .. NumBlocks(p) - 1 : n * BlockSize <= y /\ y < n * BlockSize + BlockSize
    <3> HIDE DEF y
    <3> QED BY <2>2, <2>3, Cut, GeometryAssumption DEF NumBlocks
  <2>5. n * BlockSize <= y /\ y < n * BlockSize + BlockLength(p, n)
    <3> HIDE DEF y
    <3> QED BY <2>3, <2>4, BlockPlace
  <2>6. n * BlockSize \in Nat /\ BlockLength(p, n) \in Nat
    BY BlockPlace, GeometryAssumption
  <2>7. <<p, n>> \in Blocks
    <3>1. NumBlocks(p) \in Nat
      BY <2>2, CeilDivBounds, GeometryAssumption DEF NumBlocks
    <3> QED BY <3>1, BlocksOfPiece
  <2>8. Holds(<<p, n>>, x)
    BY <2>0, <2>2, <2>5, <2>6 DEF Holds, Begin, BlockBegin
  <2> QED BY <2>7, <2>8
<1>4. ASSUME NEW x \in Nat, NEW b \in Blocks, NEW c \in Blocks, Holds(b, x), Holds(c, x)
      PROVE  b = c
  <2>1. /\ b[1] \in Nat /\ b[2] \in Nat /\ b = <<b[1], b[2]>>
        /\ c[1] \in Nat /\ c[2] \in Nat /\ c = <<c[1], c[2]>>
    BY <1>0 DEF Pieces
  <2>2. b[1] = c[1]
    BY <1>2, <1>4, <2>1, Cut, GeometryAssumption
  <2>3. b[2] = c[2]
    <3> DEFINE y == x - b[1] * PieceLength
    <3>1. /\ y \in Nat
          /\ b[2] * BlockSize <= y /\ y < b[2] * BlockSize + BlockSize
          /\ c[2] * BlockSize <= y /\ y < c[2] * BlockSize + BlockSize
      BY <1>2, <1>4, <2>2
    <3> HIDE DEF y
    <3> QED BY <2>1, <3>1, Cut, GeometryAssumption
  <2> QED BY <2>1, <2>2, <2>3
<1>5. ASSUME NEW x \in 0 .. TotalLength - 1
      PROVE  \E b \in Blocks : Holds(b, x) /\ \A c \in Blocks : Holds(c, x) => c = b
  <2>1. x \in Nat
    BY GeometryAssumption
  <2> QED BY <1>3, <1>4, <2>1
<1> QED BY <1>1, <1>5

----------------------------------------------------------------------------
(* The invariant in two halves: what the block table says, and what the    *)
(* peer table says.  Most methods touch only one of them.                  *)

BlockTypes ==
    /\ blockState \in [Blocks -> BlockStates]
    /\ blockPeer \in [Blocks -> Peers \cup {NoPeer}]
    /\ stale \subseteq Blocks
    /\ pieceCompleted \subseteq Pieces
    /\ pendingCount \in Nat
    /\ completed \in Nat

BlockInv == BlockTypes /\ CountersExact /\ PieceFlagExact /\ PendingOwned

PeerInv ==
    /\ Registered \subseteq Peers
    /\ peerPieces \in [Registered -> SUBSET Pieces]
    /\ availability \in [Pieces -> Nat]
    /\ AvailabilityCovers

\* The two halves make up the invariant.
LEMMA IInvHalves ==
    /\ IInv <=> (BlockInv /\ PeerInv /\ endGame \in BOOLEAN)
    /\ IInv' <=> (BlockInv' /\ PeerInv' /\ endGame' \in BOOLEAN)
  BY DEF IInv, TypeOK, Safety, BlockInv, BlockTypes, PeerInv

\* The blocks in a given state can be counted.
LEMMA InStateFinite ==
    ASSUME NEW s
    PROVE  IsFiniteSet(InState(s)) /\ Cardinality(InState(s)) \in Nat
  BY BlocksFinite, FS_Subset, FS_CardinalityType DEF InState

\* A pending block belongs to a piece without the Completed flag, so the loops
\* that skip flagged pieces meet every pending block.
LEMMA PendingIncomplete ==
    ASSUME BlockInv
    PROVE  InState("pending") \subseteq Incomplete
<1> SUFFICES ASSUME NEW b \in InState("pending") PROVE b \in Incomplete
  OBVIOUS
<1>1. b \in Blocks /\ b[1] \in Pieces /\ blockState[b] = "pending"
  BY DEF InState, Blocks
<1>2. b \in BlocksOf(b[1])
  BY <1>1 DEF BlocksOf
<1> QED BY <1>1, <1>2 DEF BlockInv, PieceFlagExact, Incomplete

\* Reverting pending blocks keeps the block half, provided the owners of the
\* blocks that stay pending are still registered afterwards.
LEMMA RevertKeepsBlockInv ==
    ASSUME BlockInv, NEW S, S \subseteq InState("pending"), Revert(S),
           \A b \in InState("pending") \ S : blockPeer[b] \in Registered'
    PROVE  BlockInv'
<1> USE DEF BlockInv, BlockTypes
<1>1. S \subseteq Blocks /\ IsFiniteSet(S)
  BY InStateFinite, FS_Subset DEF InState
<1>2. InState("pending")' = InState("pending") \ S
  BY <1>1 DEF Revert, InState, BlockStates
<1>3. InState("completed")' = InState("completed")
  BY <1>1 DEF Revert, InState, BlockStates
<1>4. InState("pending") \cap S = S
  OBVIOUS
<1>5. Cardinality(InState("pending") \ S)
        = Cardinality(InState("pending")) - Cardinality(S)
  BY <1>1, <1>4, InStateFinite, FS_Difference
<1>6. CountersExact'
  BY <1>2, <1>3, <1>5 DEF CountersExact, Revert
<1>7. pendingCount' \in Nat
  BY <1>2, <1>6, InStateFinite, FS_Subset, FS_CardinalityType DEF CountersExact
<1>8. BlockTypes'
  BY <1>1, <1>7 DEF Revert, BlockStates
<1>9. PieceFlagExact'
  <2> SUFFICES ASSUME NEW p \in Pieces
               PROVE  p \in pieceCompleted'
                        <=> \A b \in BlocksOf(p) : blockState'[b] = "completed"
    BY DEF PieceFlagExact
  <2>1. \A b \in BlocksOf(p) : b \in Blocks
    BY DEF BlocksOf
  <2>2. \A b \in BlocksOf(p) :
            blockState'[b] = "completed" <=> blockState[b] = "completed"
    BY <1>1, <2>1 DEF Revert, InState
  <2> QED BY <2>2 DEF PieceFlagExact, Revert
<1>10. PendingOwned'
  BY <1>1, <1>2 DEF PendingOwned, Revert, InState
<1> QED BY <1>6, <1>8, <1>9, <1>10

\* A step that leaves the block table alone and forgets no address keeps the
\* block half.
LEMMA BlockInvUnchanged ==
    ASSUME BlockInv, UNCHANGED blockVars, Registered \subseteq Registered'
    PROVE  BlockInv'
  BY DEF BlockInv, BlockTypes, blockVars, CountersExact, PieceFlagExact,
         PendingOwned, InState

\* The peer half depends on nothing but the peer table.
LEMMA PeerInvUnchanged ==
    ASSUME PeerInv, UNCHANGED peerVars
    PROVE  PeerInv'
  BY DEF PeerInv, peerVars, AvailabilityCovers, Holders, Registered

\* The registered peers that have a piece can be counted.
LEMMA HoldersFinite ==
    ASSUME PeerInv, NEW p
    PROVE  IsFiniteSet(Holders(p)) /\ Cardinality(Holders(p)) \in Nat
<1>1. Holders(p) \subseteq Peers
  BY DEF PeerInv, Holders
<1> QED BY <1>1, PeersAssumption, FS_Subset, FS_CardinalityType

----------------------------------------------------------------------------
(* One lemma per method *)

\* NewPiecePicker establishes the invariant.
LEMMA InitIInv == PickerInit => IInv
<1> SUFFICES ASSUME PickerInit PROVE IInv
  OBVIOUS
<1>1. BlockTypes
  BY DEF PickerInit, BlockTypes, BlockStates
<1>2. InState("pending") = {} /\ InState("completed") = {}
  BY DEF PickerInit, InState
<1>3. CountersExact
  BY <1>2, FS_EmptySet DEF PickerInit, CountersExact
<1>4. PieceFlagExact
  <2> SUFFICES ASSUME NEW p \in Pieces
               PROVE  \E b \in BlocksOf(p) : blockState[b] # "completed"
    BY DEF PieceFlagExact, PickerInit
  <2>1. <<p, 0>> \in BlocksOf(p) /\ <<p, 0>> \in Blocks
    BY PieceHasBlock DEF BlocksOf
  <2> QED BY <2>1 DEF PickerInit
<1>5. PendingOwned
  BY <1>2 DEF PickerInit, PendingOwned
<1>6. Registered = {} /\ \A p \in Pieces : Holders(p) = {}
  BY DEF PickerInit, Registered, Holders
<1>7. AvailabilityCovers
  <2>1. \A p \in Pieces : Cardinality(Holders(p)) = 0
    BY <1>6, FS_EmptySet
  <2>2. \A p \in Pieces : availability[p] = 0
    BY DEF PickerInit
  <2> QED BY <2>1, <2>2 DEF AvailabilityCovers
<1>8. PeerInv
  BY <1>6, <1>7 DEF PeerInv, PickerInit
<1>9. endGame \in BOOLEAN
  BY DEF PickerInit
<1> QED BY <1>1, <1>3, <1>4, <1>5, <1>8, <1>9, IInvHalves DEF BlockInv

\* RegisterPeer keeps the invariant, for an address that is registered too.
LEMMA RegisterPeerKeepsIInv ==
    ASSUME IInv, NEW a \in Peers, RegisterPeer(a)
    PROVE  IInv'
<1>0. BlockInv /\ PeerInv /\ endGame \in BOOLEAN
  BY IInvHalves
<1>1. Registered' = Registered \cup {a}
  BY DEF RegisterPeer, Registered
<1>2. BlockInv'
  BY <1>0, <1>1, BlockInvUnchanged DEF RegisterPeer
<1>3. AvailabilityCovers'
  <2> SUFFICES ASSUME NEW p \in Pieces
               PROVE  Cardinality(Holders(p)') <= availability'[p]
    BY DEF AvailabilityCovers
  <2>1. Holders(p)' \subseteq Holders(p)
    BY <1>1 DEF RegisterPeer, Holders
  <2>2. /\ Cardinality(Holders(p)') <= Cardinality(Holders(p))
        /\ Cardinality(Holders(p)') \in Nat
    BY <1>0, <2>1, HoldersFinite, FS_Subset, FS_CardinalityType
  <2> QED BY <1>0, <2>2, HoldersFinite
          DEF RegisterPeer, PeerInv, AvailabilityCovers
<1>4. PeerInv'
  BY <1>0, <1>1, <1>3 DEF PeerInv, RegisterPeer
<1> QED BY <1>0, <1>2, <1>4, IInvHalves DEF RegisterPeer

\* UnregisterPeer keeps the invariant: the counters it decrements were at least
\* one, and no block stays pending in the name of the departed peer.
LEMMA UnregisterPeerKeepsIInv ==
    ASSUME IInv, NEW a \in Peers, UnregisterPeer(a)
    PROVE  IInv'
<1> DEFINE S == {b \in Incomplete : blockState[b] = "pending" /\ blockPeer[b] = a}
<1>0. BlockInv /\ PeerInv /\ endGame \in BOOLEAN
  BY IInvHalves
<1>1. Registered' = Registered \ {a}
  BY DEF UnregisterPeer, Registered, peerVars
<1>2. BlockInv'
  <2>1. S \subseteq InState("pending") /\ Revert(S)
    BY DEF UnregisterPeer, InState, Incomplete
  <2>2. \A b \in InState("pending") \ S : blockPeer[b] \in Registered'
    BY <1>0, <1>1, PendingIncomplete DEF BlockInv, PendingOwned, InState
  <2> HIDE DEF S
  <2> QED BY <1>0, <2>1, <2>2, RevertKeepsBlockInv
<1>3. CASE a \notin Registered
  BY <1>0, <1>2, <1>3, PeerInvUnchanged, IInvHalves DEF UnregisterPeer
<1>4. CASE a \in Registered
  <2>1. ASSUME NEW p \in Pieces
        PROVE  /\ availability'[p] \in Nat
               /\ Cardinality(Holders(p)') <= availability'[p]
    <3>1. Holders(p)' = Holders(p) \ {a}
      BY <1>1, <1>4 DEF UnregisterPeer, Holders
    <3>2. /\ Cardinality(Holders(p)) \in Nat /\ availability[p] \in Nat
          /\ Cardinality(Holders(p)) <= availability[p]
      BY <1>0, HoldersFinite DEF PeerInv, AvailabilityCovers
    <3>3. CASE p \in peerPieces[a]
      <4>1. a \in Holders(p)
        BY <1>4, <3>3 DEF Holders
      <4>2. Cardinality(Holders(p)') = Cardinality(Holders(p)) - 1
        BY <1>0, <3>1, <4>1, HoldersFinite, FS_RemoveElement
      <4>3. Cardinality(Holders(p)) # 0
        BY <1>0, <4>1, HoldersFinite, FS_EmptySet
      <4> QED BY <1>4, <3>2, <3>3, <4>2, <4>3 DEF UnregisterPeer
    <3>4. CASE p \notin peerPieces[a]
      <4>1. Holders(p)' = Holders(p)
        BY <3>1, <3>4 DEF Holders
      <4> QED BY <1>4, <3>2, <3>4, <4>1 DEF UnregisterPeer
    <3> QED BY <3>3, <3>4
  <2>2. availability' \in [Pieces -> Nat]
    BY <1>4, <2>1 DEF UnregisterPeer
  <2>3. AvailabilityCovers'
    BY <2>1 DEF AvailabilityCovers
  <2>4. PeerInv'
    BY <1>0, <1>1, <1>4, <2>2, <2>3 DEF PeerInv, UnregisterPeer
  <2> QED BY <1>0, <1>2, <2>4, IInvHalves DEF UnregisterPeer
<1> QED BY <1>3, <1>4

\* A bitfield or a have keeps the invariant, from an unknown address too.
LEMMA LearnKeepsIInv ==
    ASSUME IInv, NEW a, NEW S \in SUBSET Pieces, Learn(a, S)
    PROVE  IInv'
<1>0. BlockInv /\ PeerInv /\ endGame \in BOOLEAN
  BY IInvHalves
<1>1. Registered' = Registered
  BY DEF Learn, Registered, peerVars
<1>2. BlockInv'
  BY <1>0, <1>1, BlockInvUnchanged DEF Learn
<1>3. CASE a \notin Registered
  BY <1>0, <1>2, <1>3, PeerInvUnchanged, IInvHalves DEF Learn
<1>4. CASE a \in Registered
  <2>1. ASSUME NEW p \in Pieces
        PROVE  /\ availability'[p] \in Nat
               /\ Cardinality(Holders(p)') <= availability'[p]
    <3>1. /\ Cardinality(Holders(p)) \in Nat /\ availability[p] \in Nat
          /\ Cardinality(Holders(p)) <= availability[p]
      BY <1>0, HoldersFinite DEF PeerInv, AvailabilityCovers
    <3>2. CASE p \in S \ peerPieces[a]
      <4>1. Holders(p)' = Holders(p) \cup {a} /\ a \notin Holders(p)
        BY <1>0, <1>1, <1>4, <3>2 DEF Learn, Holders, PeerInv
      <4>2. Cardinality(Holders(p)') = Cardinality(Holders(p)) + 1
        BY <1>0, <4>1, HoldersFinite, FS_AddElement
      <4> QED BY <1>4, <3>1, <3>2, <4>2 DEF Learn
    <3>3. CASE p \notin S \ peerPieces[a]
      <4>1. Holders(p)' = Holders(p)
        BY <1>0, <1>1, <1>4, <3>3 DEF Learn, Holders, PeerInv
      <4> QED BY <1>4, <3>1, <3>3, <4>1 DEF Learn
    <3> QED BY <3>2, <3>3
  <2>2. availability' \in [Pieces -> Nat]
    BY <1>4, <2>1 DEF Learn
  <2>3. AvailabilityCovers'
    BY <2>1 DEF AvailabilityCovers
  <2>4. PeerInv'
    BY <1>0, <1>1, <1>4, <2>2, <2>3 DEF PeerInv, Learn
  <2> QED BY <1>0, <1>2, <2>4, IInvHalves DEF Learn
<1> QED BY <1>3, <1>4

\* NextBlock keeps the invariant in normal mode, where the block becomes
\* pending, and in end-game mode, where it already is.
LEMMA NextBlockKeepsIInv ==
    ASSUME IInv, NEW a \in Peers, NEW b \in Blocks, NextBlock(a, b)
    PROVE  IInv'
<1>0. BlockInv /\ PeerInv /\ endGame \in BOOLEAN
  BY IInvHalves
<1>1. PeerInv' /\ Registered' = Registered
  BY <1>0, PeerInvUnchanged DEF NextBlock, peerVars, Registered
<1>2. endGame' \in BOOLEAN
  BY <1>0 DEF NextBlock, EndGameFor
<1>3. CASE EndGameFor(a)
  <2>1. UNCHANGED <<blockState, blockPeer, pendingCount, pieceCompleted, completed>>
        /\ stale' \subseteq stale
    BY <1>3 DEF NextBlock
  <2>2. BlockInv'
    BY <1>0, <1>1, <2>1 DEF BlockInv, BlockTypes, CountersExact, PieceFlagExact,
                            PendingOwned, InState
  <2> QED BY <1>1, <1>2, <2>2, IInvHalves
<1>4. CASE ~EndGameFor(a)
  <2> USE DEF BlockInv, BlockTypes
  <2>1. blockState[b] = "unrequested" /\ a \in Registered
    BY <1>4 DEF NextBlock, Picks, Pickable, Candidates
  <2>2. /\ blockState' = [blockState EXCEPT ![b] = "pending"]
        /\ blockPeer' = [blockPeer EXCEPT ![b] = a]
        /\ pendingCount' = pendingCount + 1
        /\ UNCHANGED <<stale, pieceCompleted, completed>>
    BY <1>4 DEF NextBlock
  <2>3. /\ InState("pending")' = InState("pending") \cup {b}
        /\ b \notin InState("pending")
        /\ InState("completed")' = InState("completed")
    BY <1>0, <2>1, <2>2 DEF InState
  <2>4. Cardinality(InState("pending")') = Cardinality(InState("pending")) + 1
    BY <2>3, InStateFinite, FS_AddElement
  <2>5. CountersExact'
    BY <1>0, <2>2, <2>3, <2>4 DEF CountersExact
  <2>6. BlockTypes'
    BY <1>0, <2>2 DEF BlockStates
  <2>7. PieceFlagExact'
    <3> SUFFICES ASSUME NEW p \in Pieces
                 PROVE  p \in pieceCompleted'
                          <=> \A c \in BlocksOf(p) : blockState'[c] = "completed"
      BY DEF PieceFlagExact
    <3>1. \A c \in BlocksOf(p) :
              blockState'[c] = "completed" <=> blockState[c] = "completed"
      BY <1>0, <2>1, <2>2 DEF BlocksOf
    <3> QED BY <1>0, <2>2, <3>1 DEF PieceFlagExact
  <2>8. PendingOwned'
    BY <1>0, <1>1, <2>1, <2>2, <2>3 DEF PendingOwned, InState
  <2> QED BY <1>1, <1>2, <2>5, <2>6, <2>7, <2>8, IInvHalves
<1> QED BY <1>3, <1>4

\* MarkCompleted keeps the invariant whoever the block was requested from, and
\* also when it had been reverted in the meantime.
LEMMA MarkCompletedKeepsIInv ==
    ASSUME IInv, NEW a \in Peers, NEW b, MarkCompleted(b, a)
    PROVE  IInv'
<1>0. BlockInv /\ PeerInv /\ endGame \in BOOLEAN
  BY IInvHalves
<1>1. CASE ~Accepts(b)
  BY <1>1 DEF MarkCompleted, pickerVars, IInv, TypeOK, Safety, CountersExact,
     PieceFlagExact, PendingOwned, AvailabilityCovers, InState, Registered, Holders
<1>2. CASE Accepts(b)
  <2> USE DEF BlockInv, BlockTypes
  <2>1. /\ b \in Blocks /\ b[1] \in Pieces /\ b[1] \notin pieceCompleted
        /\ blockState[b] \in {"unrequested", "pending"}
    BY <1>0, <1>2 DEF Accepts, Blocks, BlockStates
  <2>2. /\ blockState' = [blockState EXCEPT ![b] = "completed"]
        /\ blockPeer' = [blockPeer EXCEPT ![b] = a]
        /\ stale' = stale \ {b}
        /\ pendingCount' = IF blockState[b] = "pending" THEN pendingCount - 1
                                                        ELSE pendingCount
        /\ completed' = completed + 1
        /\ pieceCompleted' = IF PieceDone(b) THEN pieceCompleted \cup {b[1]}
                                             ELSE pieceCompleted
        /\ UNCHANGED <<peerVars, endGame>>
    BY <1>2 DEF MarkCompleted
  <2>3. PeerInv' /\ Registered' = Registered
    BY <1>0, <2>2, PeerInvUnchanged DEF peerVars, Registered
  <2>4. /\ InState("completed")' = InState("completed") \cup {b}
        /\ b \notin InState("completed")
        /\ InState("pending")' = InState("pending") \ {b}
    BY <1>0, <2>1, <2>2 DEF InState
  <2>5. Cardinality(InState("completed")') = Cardinality(InState("completed")) + 1
    BY <2>4, InStateFinite, FS_AddElement
  <2>6. /\ Cardinality(InState("pending")') = pendingCount'
        /\ pendingCount' \in Nat
    <3>1. CASE blockState[b] = "pending"
      <4>1. b \in InState("pending")
        BY <2>1, <3>1 DEF InState
      <4>2. Cardinality(InState("pending") \ {b})
              = Cardinality(InState("pending")) - 1
        BY <4>1, InStateFinite, FS_RemoveElement
      <4>3. Cardinality(InState("pending")) # 0
        BY <4>1, InStateFinite, FS_EmptySet
      <4>4. Cardinality(InState("pending")) \in Nat
        BY InStateFinite
      <4> QED BY <1>0, <2>2, <2>4, <3>1, <4>2, <4>3, <4>4 DEF CountersExact
    <3>2. CASE blockState[b] # "pending"
      <4>1. InState("pending") \ {b} = InState("pending")
        BY <3>2 DEF InState
      <4> QED BY <1>0, <2>2, <2>4, <3>2, <4>1 DEF CountersExact
    <3> QED BY <3>1, <3>2
  <2>7. CountersExact'
    BY <1>0, <2>2, <2>5, <2>6 DEF CountersExact
  <2>8. BlockTypes'
    BY <1>0, <2>1, <2>2, <2>6 DEF BlockStates
  <2>9. PieceFlagExact'
    <3> SUFFICES ASSUME NEW p \in Pieces
                 PROVE  p \in pieceCompleted'
                          <=> \A c \in BlocksOf(p) : blockState'[c] = "completed"
      BY DEF PieceFlagExact
    <3>1. CASE p # b[1]
      <4>1. \A c \in BlocksOf(p) : blockState'[c] = blockState[c]
        BY <1>0, <2>1, <2>2, <3>1 DEF BlocksOf
      <4> QED BY <1>0, <2>2, <3>1, <4>1 DEF PieceFlagExact
    <3>2. CASE p = b[1]
      <4>1. b \in BlocksOf(p) /\ blockState'[b] = "completed"
        BY <1>0, <2>1, <2>2, <3>2 DEF BlocksOf
      <4>2. \A c \in BlocksOf(p) \ {b} : blockState'[c] = blockState[c]
        BY <1>0, <2>1, <2>2 DEF BlocksOf
      <4>3. PieceDone(b) <=> \A c \in BlocksOf(p) : blockState'[c] = "completed"
        BY <1>2, <3>2, <4>1, <4>2 DEF PieceDone
      <4> QED BY <2>1, <2>2, <3>2, <4>3
    <3> QED BY <3>1, <3>2
  <2>10. PendingOwned'
    BY <1>0, <2>1, <2>2, <2>3, <2>4 DEF PendingOwned, InState
  <2> QED BY <1>0, <2>2, <2>3, <2>7, <2>8, <2>9, <2>10, IInvHalves
<1> QED BY <1>1, <1>2

\* MarkFailed keeps the invariant for any set of blocks, known or not.
LEMMA MarkFailedKeepsIInv ==
    ASSUME IInv, NEW S, MarkFailed(S)
    PROVE  IInv'
<1> DEFINE R == {b \in Blocks \cap S : blockState[b] = "pending"}
<1>0. BlockInv /\ PeerInv /\ endGame \in BOOLEAN
  BY IInvHalves
<1>1. PeerInv' /\ Registered' = Registered
  BY <1>0, PeerInvUnchanged DEF MarkFailed, peerVars, Registered
<1>2. R \subseteq InState("pending") /\ Revert(R)
  BY DEF MarkFailed, InState
<1>3. \A b \in InState("pending") \ R : blockPeer[b] \in Registered'
  BY <1>0, <1>1 DEF BlockInv, PendingOwned
<1>4. BlockInv'
  <2> HIDE DEF R
  <2> QED BY <1>0, <1>2, <1>3, RevertKeepsBlockInv
<1> QED BY <1>0, <1>1, <1>4, IInvHalves DEF MarkFailed

\* GetStalledRequests keeps the invariant.
LEMMA GetStalledKeepsIInv ==
    ASSUME IInv, GetStalledRequests
    PROVE  IInv'
<1> DEFINE R == {b \in Incomplete : blockState[b] = "pending" /\ b \in stale}
<1>0. BlockInv /\ PeerInv /\ endGame \in BOOLEAN
  BY IInvHalves
<1>1. PeerInv' /\ Registered' = Registered
  BY <1>0, PeerInvUnchanged DEF GetStalledRequests, peerVars, Registered
<1>2. R \subseteq InState("pending") /\ Revert(R)
  BY DEF GetStalledRequests, InState, Incomplete
<1>3. \A b \in InState("pending") \ R : blockPeer[b] \in Registered'
  BY <1>0, <1>1 DEF BlockInv, PendingOwned
<1>4. BlockInv'
  <2> HIDE DEF R
  <2> QED BY <1>0, <1>2, <1>3, RevertKeepsBlockInv
<1> QED BY <1>0, <1>1, <1>4, IInvHalves DEF GetStalledRequests

\* The steps that only read the tables, or only move the clock.
LEMMA NextBlockNoneKeepsIInv ==
    ASSUME IInv, NEW a, NextBlockNone(a)
    PROVE  IInv'
<1>0. BlockInv /\ PeerInv /\ endGame \in BOOLEAN
  BY IInvHalves
<1>1. PeerInv' /\ Registered' = Registered
  BY <1>0, PeerInvUnchanged DEF NextBlockNone, peerVars, Registered
<1>2. BlockInv'
  BY <1>0, <1>1, BlockInvUnchanged DEF NextBlockNone
<1> QED BY <1>0, <1>1, <1>2, IInvHalves DEF NextBlockNone, EndGameFor

LEMMA RequestAgesKeepsIInv ==
    ASSUME IInv, NEW b \in Blocks, RequestAges(b)
    PROVE  IInv'
<1>0. BlockInv /\ PeerInv /\ endGame \in BOOLEAN
  BY IInvHalves
<1>1. PeerInv' /\ Registered' = Registered
  BY <1>0, PeerInvUnchanged DEF RequestAges, peerVars, Registered
<1>2. BlockInv'
  BY <1>0, <1>1 DEF RequestAges, BlockInv, BlockTypes, CountersExact,
                    PieceFlagExact, PendingOwned, InState
<1> QED BY <1>0, <1>1, <1>2, IInvHalves DEF RequestAges

----------------------------------------------------------------------------
(* The theorems *)

\* Every call any caller can make keeps the invariant.
LEMMA NextKeepsIInv == IInv /\ [Next]_pickerVars => IInv'
<1> SUFFICES ASSUME IInv, [Next]_pickerVars PROVE IInv'
  OBVIOUS
<1>1. CASE UNCHANGED pickerVars
  BY <1>1 DEF pickerVars, IInv, TypeOK, Safety, CountersExact,
     PieceFlagExact, PendingOwned, AvailabilityCovers, InState, Registered, Holders
<1>2. ASSUME NEW a \in Peers, RegisterPeer(a) PROVE IInv'
  BY <1>2, RegisterPeerKeepsIInv
<1>3. ASSUME NEW a \in Peers, UnregisterPeer(a) PROVE IInv'
  BY <1>3, UnregisterPeerKeepsIInv
<1>4. ASSUME NEW a \in Peers, NEW S \in SUBSET Pieces, UpdatePeerBitfield(a, S)
      PROVE  IInv'
  BY <1>4, LearnKeepsIInv DEF UpdatePeerBitfield
<1>5. ASSUME NEW a \in Peers, NEW p, UpdatePeerHave(a, p) PROVE IInv'
  <2>1. {p} \cap Pieces \in SUBSET Pieces
    OBVIOUS
  <2> QED BY <1>5, <2>1, LearnKeepsIInv DEF UpdatePeerHave
<1>6. ASSUME NEW a \in Peers, NEW b \in Blocks, NextBlock(a, b) PROVE IInv'
  BY <1>6, NextBlockKeepsIInv
<1>7. ASSUME NEW a \in Peers, NextBlockNone(a) PROVE IInv'
  BY <1>7, NextBlockNoneKeepsIInv
<1>8. ASSUME NEW a \in Peers, NEW b \in WireBlocks, MarkCompleted(b, a) PROVE IInv'
  BY <1>8, MarkCompletedKeepsIInv
<1>9. ASSUME NEW b \in WireBlocks, MarkFailed({b}) PROVE IInv'
  BY <1>9, MarkFailedKeepsIInv
<1>10. ASSUME GetStalledRequests PROVE IInv'
  BY <1>10, GetStalledKeepsIInv
<1>11. ASSUME NEW b \in Blocks, RequestAges(b) PROVE IInv'
  BY <1>11, RequestAgesKeepsIInv
<1> QED BY <1>1, <1>2, <1>3, <1>4, <1>5, <1>6, <1>7, <1>8, <1>9, <1>10, <1>11
        DEF Next

\* The fields keep their types whatever the callers do: no counter of the
\* picker ever goes below zero.
THEOREM PickerTypeCorrect == Spec => []TypeOK
<1>1. IInv => TypeOK
  BY DEF IInv
<1> QED BY InitIInv, NextKeepsIInv, <1>1, PTL DEF Spec

\* The counters are exact, the Completed flags are right, no request is left
\* in the name of a peer that is gone, and no counter falls below the number of
\* peers that have the piece.
THEOREM PickerSafe == Spec => []Safety
<1>1. IInv => Safety
  BY DEF IInv
<1> QED BY InitIInv, NextKeepsIInv, <1>1, PTL DEF Spec

\* pendingCount and completed are the numbers of pending and completed blocks,
\* whatever late answers, timeouts and departures the methods are called with.
THEOREM PickerCounts == Spec => []CountersExact
<1>1. Safety => CountersExact
  BY DEF Safety
<1> QED BY PickerSafe, <1>1, PTL

\* A piece has its Completed flag just when all its blocks are completed, so the
\* loops that skip flagged pieces miss no block.
THEOREM PickerFlags == Spec => []PieceFlagExact
<1>1. Safety => PieceFlagExact
  BY DEF Safety
<1> QED BY PickerSafe, <1>1, PTL

\* A pending block is requested from a registered peer.
THEOREM PickerOwners == Spec => []PendingOwned
<1>1. Safety => PendingOwned
  BY DEF Safety
<1> QED BY PickerSafe, <1>1, PTL

\* No availability counter falls below the number of holders of its piece.
THEOREM PickerAvailability == Spec => []AvailabilityCovers
<1>1. Safety => AvailabilityCovers
  BY DEF Safety
<1> QED BY PickerSafe, <1>1, PTL

\* Reverting pending blocks leaves the completed ones alone.
LEMMA RevertSparesCompleted ==
    ASSUME NEW S, S \subseteq InState("pending"), Revert(S)
    PROVE  InState("completed") \subseteq {b \in Blocks : blockState'[b] = "completed"}
  BY DEF Revert, InState

\* No call reopens a block that has come for a piece still incomplete.
THEOREM PickerKeepsReceived == Spec => ReceivedBlockKept
<1> DEFINE Kept == InState("completed") \cap Incomplete \subseteq
                       {b \in Blocks : blockState'[b] = "completed"}
<1>1. ASSUME IInv, [Next]_pickerVars PROVE [Kept]_pickerVars
  <2>0. blockState \in [Blocks -> BlockStates]
    BY <1>1 DEF IInv, TypeOK
  <2>1. ASSUME NEW a \in Peers,
               \/ RegisterPeer(a)
               \/ \E S \in SUBSET Pieces : UpdatePeerBitfield(a, S)
               \/ \E p \in 0 .. TotalPieces : UpdatePeerHave(a, p)
               \/ NextBlockNone(a)
        PROVE  Kept
    BY <2>1 DEF RegisterPeer, UpdatePeerBitfield, UpdatePeerHave, Learn,
                NextBlockNone, blockVars, InState
  <2>2. ASSUME NEW a \in Peers, UnregisterPeer(a) PROVE Kept
    <3> DEFINE R == {b \in Incomplete :
                        blockState[b] = "pending" /\ blockPeer[b] = a}
    <3>1. R \subseteq InState("pending") /\ Revert(R)
      BY <2>2 DEF UnregisterPeer, InState, Incomplete
    <3> HIDE DEF R
    <3> QED BY <3>1, RevertSparesCompleted
  <2>3. ASSUME NEW a \in Peers, NEW b \in Blocks, NextBlock(a, b) PROVE Kept
    <3>1. b \notin InState("completed")
      BY <2>3 DEF NextBlock, Picks, Pickable, InState
    <3> QED BY <2>0, <2>3, <3>1 DEF NextBlock, InState
  <2>4. ASSUME NEW a \in Peers, NEW b \in WireBlocks, MarkCompleted(b, a)
        PROVE  Kept
    <3>1. CASE Accepts(b)
      BY <2>0, <2>4, <3>1 DEF MarkCompleted, InState
    <3>2. CASE ~Accepts(b)
      BY <2>4, <3>2 DEF MarkCompleted, pickerVars, InState
    <3> QED BY <3>1, <3>2
  <2>5. ASSUME NEW b \in WireBlocks, MarkFailed({b}) PROVE Kept
    <3> DEFINE R == {c \in Blocks \cap {b} : blockState[c] = "pending"}
    <3>1. R \subseteq InState("pending") /\ Revert(R)
      BY <2>5 DEF MarkFailed, InState
    <3> HIDE DEF R
    <3> QED BY <3>1, RevertSparesCompleted
  <2>6. ASSUME GetStalledRequests PROVE Kept
    <3> DEFINE R == {b \in Incomplete : blockState[b] = "pending" /\ b \in stale}
    <3>1. R \subseteq InState("pending") /\ Revert(R)
      BY <2>6 DEF GetStalledRequests, InState, Incomplete
    <3> HIDE DEF R
    <3> QED BY <3>1, RevertSparesCompleted
  <2>7. ASSUME NEW b \in Blocks, RequestAges(b) PROVE Kept
    BY <2>7 DEF RequestAges, InState
  <2>8. CASE Next
    <3> HIDE DEF Kept
    <3> QED BY <2>1, <2>2, <2>3, <2>4, <2>5, <2>6, <2>7, <2>8 DEF Next
  <2> QED BY <1>1, <2>8
<1> QED BY InitIInv, NextKeepsIInv, <1>1, PTL DEF Spec, ReceivedBlockKept

----------------------------------------------------------------------------
(* The manager *)

\* A victim is named only while RemovePeer is between its two halves.
PeersInv ==
    /\ RegisteredIsActive
    /\ IF pc = "unregister" THEN victim \in Peers ELSE victim = NoPeer

\* The piece being verified is finished and has not been handed over, and the
\* download is not yet declared done.
VerifyingIsNew ==
    pc = "verify" => /\ verifying \in pieceCompleted
                     /\ verifying \notin Queued \cup disk
                     /\ doneClosed = 0

\* The torrent is found complete once, and then it is.
FoundDoneOnce ==
    /\ doneClosed > 0 \/ torrentDone => completed = TotalBlocks
    /\ torrentDone => doneClosed = 0

NoneQueuedTwice ==
    \A i, j \in DOMAIN storageCh : storageCh[i] = storageCh[j] => i = j

DataInv ==
    /\ CompletedIsBuffered
    /\ VerifyingIsNew
    /\ FoundDoneOnce /\ DoneClosedOnce
    /\ WrittenOnce /\ NoneQueuedTwice

\* The type invariant, in groups of variables that change together.
ClientTypes ==
    /\ link \in [Clients -> {"dialed", "open", "closed"}]
    /\ choked \in [Clients -> BOOLEAN]
    /\ outstanding \in [Clients -> {S \in SUBSET Blocks :
                                      Cardinality(S) <= MaxOutstanding}]
    /\ readerOn \subseteq Clients

LockTypes ==
    /\ DOMAIN activePeers \subseteq Peers
    /\ \A a \in DOMAIN activePeers :
          activePeers[a] \in Clients /\ AddressOf[activePeers[a]] = a
    /\ adding \in Clients \cup {NoClient} /\ toDrain \in Nat

QueueTypes == InMessages \in Seq(Messages) /\ Len(InMessages) <= InMessagesCap

LoopTypes ==
    /\ pc \in {"start", "select", "unregister", "verify", "pipeline", "visit",
               "returned"}
    /\ victim \in Peers \cup {NoPeer} /\ verifying \in Pieces \cup {0}
    /\ torrentDone \in BOOLEAN
    /\ todo \subseteq Clients /\ cur \in Clients \cup {NoClient}

DataTypes ==
    /\ pieceBufs \in [Blocks -> {"none", "good", "bad"}]
    /\ storageCh \in Seq(Pieces) /\ Len(storageCh) <= StorageCap
    /\ storage \in {"opening", "run", "exited"} /\ disk \subseteq Pieces
    /\ doneClosed \in Nat /\ session \in {"waiting", "ok", "error"}

StateTypeOK == ClientTypes /\ LockTypes /\ QueueTypes /\ LoopTypes /\ DataTypes

MInv == IInv /\ StateTypeOK /\ PeersInv /\ DataInv /\ process \in {"run", "exited"}

stepVars == <<pickerVars, managerVars>>

\* A step of the program is one of its goroutines, or changes none of their state.
LEMMA StepOrNone ==
    [ManagerNext]_vars => [ManagerStep]_stepVars /\ process' \in {process, "exited"}
  BY DEF ManagerNext, Running, ProcessExits, vars, stepVars

----------------------------------------------------------------------------
(* Messages and channels *)

\* What the event loop may rely on in a message.
LEMMA MessageParts ==
    ASSUME NEW m \in Messages
    PROVE  /\ m.from \in Peers
           /\ m.id = "bitfield" => m.has \in SUBSET Pieces
           /\ m.id = "piece" => m.block \in Blocks /\ m.data \in {"good", "bad"}
           /\ m.id = "timeout" => m.block \in Blocks
<1> DEFINE Good == /\ m.from \in Peers
                   /\ m.id = "bitfield" => m.has \in SUBSET Pieces
                   /\ m.id = "piece" => m.block \in Blocks /\ m.data \in {"good", "bad"}
                   /\ m.id = "timeout" => m.block \in Blocks
<1>1. ASSUME NEW a \in Peers, NEW S \in SUBSET Pieces, m = Bitfield(a, S) PROVE Good
  BY <1>1 DEF Bitfield
<1>2. ASSUME NEW a \in Peers, NEW p \in Haves, m = Have(a, p) PROVE Good
  BY <1>2 DEF Have
<1>3. ASSUME NEW a \in Peers, NEW b \in Blocks, NEW q \in {"good", "bad"},
             m = Piece(a, b, q)
      PROVE  Good
  BY <1>3 DEF Piece
<1>4. ASSUME NEW a \in Peers, NEW b \in Blocks, m = Timeout(a, b) PROVE Good
  BY <1>4 DEF Timeout
<1>5. ASSUME NEW a \in Peers, m = Dropped(a) \/ m = Other(a) PROVE Good
  BY <1>5 DEF Dropped, Other
<1> HIDE DEF Good
<1>6. Good
  BY <1>1, <1>2, <1>3, <1>4, <1>5 DEF Messages
<1> QED BY <1>6 DEF Good

\* The messages the clients and AddPeer put into InMessages.
LEMMA MessagesMade ==
    ASSUME NEW a \in Peers
    PROVE  /\ \A S \in SUBSET Pieces : Bitfield(a, S) \in Messages
           /\ \A p \in Haves : Have(a, p) \in Messages
           /\ \A b \in Blocks, q \in {"good", "bad"} : Piece(a, b, q) \in Messages
           /\ \A b \in Blocks : Timeout(a, b) \in Messages
           /\ Dropped(a) \in Messages
           /\ Other(a) \in Messages
<1>1. ASSUME NEW S \in SUBSET Pieces PROVE Bitfield(a, S) \in Messages
  BY DEF Messages
<1>2. ASSUME NEW p \in Haves PROVE Have(a, p) \in Messages
  BY DEF Messages
<1>3. ASSUME NEW b \in Blocks, NEW q \in {"good", "bad"} PROVE Piece(a, b, q) \in Messages
  BY DEF Messages
<1>4. ASSUME NEW b \in Blocks PROVE Timeout(a, b) \in Messages
  BY DEF Messages
<1>5. Dropped(a) \in Messages /\ Other(a) \in Messages
  BY DEF Messages
<1> QED BY <1>1, <1>2, <1>3, <1>4, <1>5

\* A send that finds room keeps a channel within its capacity.
LEMMA SendFits ==
    ASSUME NEW T, NEW ch \in Seq(T), NEW cap \in Nat, Len(ch) < cap, NEW m \in T
    PROVE  Append(ch, m) \in Seq(T) /\ Len(Append(ch, m)) <= cap
  BY AppendProperties, LenProperties

\* A receive.
LEMMA ReceiveFits ==
    ASSUME NEW T, NEW ch \in Seq(T), NEW cap \in Nat, Len(ch) <= cap, ch # <<>>
    PROVE  Head(ch) \in T /\ Tail(ch) \in Seq(T) /\ Len(Tail(ch)) <= cap
  BY HeadTailProperties, LenProperties

\* The message handleMessage is given.
LEMMA Received ==
    ASSUME StateTypeOK, NEW id, Receives(id)
    PROVE  /\ Head(InMessages) \in Messages /\ Head(InMessages).id = id
           /\ InMessages' \in Seq(Messages) /\ Len(InMessages') <= InMessagesCap
           /\ pc = "select"
<1>1. InMessages \in Seq(Messages) /\ Len(InMessages) <= InMessagesCap
      /\ InMessagesCap \in Nat
  BY ManagerAssumption DEF StateTypeOK, QueueTypes
<1>2. InMessages # <<>> /\ InMessages' = Tail(InMessages) /\ pc = "select"
      /\ Head(InMessages).id = id
  BY DEF Receives
<1> QED BY <1>1, <1>2, ReceiveFits

----------------------------------------------------------------------------
(* The picker inside the manager *)

\* No method of the picker but MarkCompleted touches a completed block.
LEMMA PickerQuiet ==
    ASSUME IInv,
           \/ UNCHANGED pickerVars
           \/ \E a : RegisterPeer(a)
           \/ \E a : UnregisterPeer(a)
           \/ \E a, S : Learn(a, S)
           \/ \E a, b : NextBlock(a, b)
           \/ \E a : NextBlockNone(a)
           \/ \E S : MarkFailed(S)
           \/ GetStalledRequests
           \/ \E b : RequestAges(b)
    PROVE  /\ InState("completed")' = InState("completed")
           /\ pieceCompleted' = pieceCompleted /\ completed' = completed
<1>1. blockState \in [Blocks -> BlockStates]
  BY DEF IInv, TypeOK
<1>2. ASSUME UNCHANGED <<blockState, pieceCompleted, completed>>
      PROVE  /\ InState("completed")' = InState("completed")
             /\ pieceCompleted' = pieceCompleted /\ completed' = completed
  BY <1>2 DEF InState
<1>3. ASSUME NEW S, S \subseteq InState("pending"), Revert(S)
      PROVE  /\ InState("completed")' = InState("completed")
             /\ pieceCompleted' = pieceCompleted /\ completed' = completed
  BY <1>1, <1>3 DEF InState, Revert
<1>4. CASE UNCHANGED pickerVars
  BY <1>2, <1>4 DEF pickerVars
<1>5. CASE \E a : RegisterPeer(a) \/ NextBlockNone(a)
  BY <1>2, <1>5 DEF RegisterPeer, NextBlockNone, blockVars
<1>6. CASE \E a, S : Learn(a, S)
  BY <1>2, <1>6 DEF Learn, blockVars
<1>7. ASSUME NEW a, UnregisterPeer(a)
      PROVE  /\ InState("completed")' = InState("completed")
             /\ pieceCompleted' = pieceCompleted /\ completed' = completed
  <2> DEFINE R == {b \in Incomplete : blockState[b] = "pending" /\ blockPeer[b] = a}
  <2>1. R \subseteq InState("pending") /\ Revert(R)
    BY <1>7 DEF UnregisterPeer, InState, Incomplete
  <2> HIDE DEF R
  <2> QED BY <1>3, <2>1
<1>8. ASSUME NEW a, NEW b, NextBlock(a, b)
      PROVE  /\ InState("completed")' = InState("completed")
             /\ pieceCompleted' = pieceCompleted /\ completed' = completed
  <2>1. b \in Blocks /\ b \notin InState("completed")
    BY <1>8 DEF NextBlock, Picks, Pickable, InState
  <2>2. blockState' = blockState \/ blockState' = [blockState EXCEPT ![b] = "pending"]
    BY <1>8 DEF NextBlock
  <2>3. InState("completed")' = InState("completed")
    BY <1>1, <2>1, <2>2 DEF InState
  <2> QED BY <1>8, <2>3 DEF NextBlock
<1>9. ASSUME NEW S, MarkFailed(S)
      PROVE  /\ InState("completed")' = InState("completed")
             /\ pieceCompleted' = pieceCompleted /\ completed' = completed
  <2> DEFINE R == {b \in Blocks \cap S : blockState[b] = "pending"}
  <2>1. R \subseteq InState("pending") /\ Revert(R)
    BY <1>9 DEF MarkFailed, InState
  <2> HIDE DEF R
  <2> QED BY <1>3, <2>1
<1>10. CASE GetStalledRequests
  <2> DEFINE R == {b \in Incomplete : blockState[b] = "pending" /\ b \in stale}
  <2>1. R \subseteq InState("pending") /\ Revert(R)
    BY <1>10 DEF GetStalledRequests, InState, Incomplete
  <2> HIDE DEF R
  <2> QED BY <1>3, <2>1
<1>11. CASE \E b : RequestAges(b)
  BY <1>2, <1>11 DEF RequestAges
<1> QED BY <1>4, <1>5, <1>6, <1>7, <1>8, <1>9, <1>10, <1>11

\* When completed has reached totalBlocks every block is completed, and so
\* MarkCompleted accepts nothing more.
LEMMA AllCompleted ==
    ASSUME IInv, completed = TotalBlocks
    PROVE  InState("completed") = Blocks /\ \A b : ~Accepts(b)
<1>1. InState("completed") \subseteq Blocks /\ Cardinality(InState("completed")) = Cardinality(Blocks)
  BY DEF IInv, Safety, CountersExact, InState, TotalBlocks
<1>2. InState("completed") = Blocks
  BY <1>1, BlocksFinite, FS_Subset
<1> QED BY <1>2 DEF Accepts, InState

\* A step that leaves the picker alone keeps the picker's invariant.
LEMMA IInvUnchanged == IInv /\ UNCHANGED pickerVars => IInv'
  BY DEF IInv, TypeOK, Safety, pickerVars, CountersExact, PieceFlagExact, PendingOwned,
         AvailabilityCovers, InState, Registered, Holders

----------------------------------------------------------------------------
(* The type of the manager's state, in the groups its steps change *)

\* The groups make up the type.
LEMMA TypeGroups ==
    /\ StateTypeOK <=> (ClientTypes /\ LockTypes /\ QueueTypes /\ LoopTypes /\ DataTypes)
    /\ StateTypeOK' <=>
           (ClientTypes' /\ LockTypes' /\ QueueTypes' /\ LoopTypes' /\ DataTypes')
  BY DEF StateTypeOK

\* Each group speaks of its own variables only.
LEMMA TypeFrames ==
    /\ ClientTypes /\ UNCHANGED clientVars => ClientTypes'
    /\ LockTypes /\ UNCHANGED lockVars => LockTypes'
    /\ QueueTypes /\ UNCHANGED InMessages => QueueTypes'
    /\ LoopTypes /\ UNCHANGED loopVars => LoopTypes'
    /\ DataTypes /\ UNCHANGED dataVars => DataTypes'
  BY DEF ClientTypes, LockTypes, QueueTypes, LoopTypes, DataTypes, clientVars, lockVars,
         loopVars, dataVars

\* Init gives every variable a value of its type.
LEMMA InitTypes == Init => StateTypeOK
<1> SUFFICES ASSUME Init PROVE StateTypeOK
  OBVIOUS
<1>1. ClientTypes
  <2>1. Cardinality({}) = 0 /\ MaxOutstanding \in Nat
    BY FS_EmptySet, ManagerAssumption
  <2>2. {} \in {S \in SUBSET Blocks : Cardinality(S) <= MaxOutstanding}
    BY <2>1
  <2> QED BY <2>2 DEF Init, ClientTypes
<1>2. LockTypes
  BY DEF Init, LockTypes
<1>3. QueueTypes
  BY ManagerAssumption DEF Init, QueueTypes
<1>4. LoopTypes
  BY DEF Init, LoopTypes
<1>5. DataTypes
  BY ManagerAssumption DEF Init, DataTypes
<1> QED BY <1>1, <1>2, <1>3, <1>4, <1>5, TypeGroups

\* AddPeer.
LEMMA AddPeerTypes ==
    ASSUME StateTypeOK,
           (\E c \in Clients : AddPeerBegin(c)) \/ AddPeerDrain \/ AddPeerEnd
    PROVE  StateTypeOK'
<1>1. ClientTypes /\ LockTypes /\ QueueTypes /\ LoopTypes /\ DataTypes
  BY TypeGroups
<1>2. LoopTypes' /\ DataTypes'
  BY <1>1, TypeFrames DEF AddPeerBegin, AddPeerDrain, AddPeerEnd
<1>3. ClientTypes'
  <2>1. ASSUME NEW c \in Clients, AddPeerBegin(c) PROVE ClientTypes'
    BY <1>1, <2>1 DEF AddPeerBegin, ClientTypes
  <2>2. ASSUME AddPeerEnd PROVE ClientTypes'
    BY <1>1, <2>2 DEF AddPeerEnd, ClientTypes, LockTypes
  <2> QED BY <1>1, <2>1, <2>2, TypeFrames DEF AddPeerDrain
<1>4. LockTypes'
  <2>1. ASSUME NEW c \in Clients, AddPeerBegin(c) PROVE LockTypes'
    BY <1>1, <2>1, ManagerAssumption DEF AddPeerBegin, LockTypes
  <2> QED BY <1>1, <2>1 DEF AddPeerDrain, AddPeerEnd, LockTypes
<1>5. QueueTypes'
  <2>1. CASE AddPeerDrain
    <3>1. Other(AddressOf[adding]) \in Messages
      BY <1>1, <2>1, MessagesMade, ManagerAssumption DEF AddPeerDrain, LockTypes
    <3>2. InMessages' = Append(InMessages, Other(AddressOf[adding]))
          /\ Len(InMessages) < InMessagesCap /\ InMessagesCap \in Nat
      BY <2>1, ManagerAssumption DEF AddPeerDrain, Room
    <3> QED BY <1>1, <3>1, <3>2, SendFits DEF QueueTypes
  <2> QED BY <1>1, <2>1, TypeFrames DEF AddPeerBegin, AddPeerEnd
<1> QED BY <1>2, <1>3, <1>4, <1>5, TypeGroups

\* A client's step that forwards a message of its own address.
LEMMA ForwardTypes ==
    ASSUME StateTypeOK, NEW c \in Clients, NEW m \in Messages, Forward(c, m)
    PROVE  LockTypes' /\ QueueTypes' /\ LoopTypes' /\ DataTypes'
<1>1. LockTypes /\ QueueTypes /\ LoopTypes /\ DataTypes
  BY TypeGroups
<1>2. QueueTypes'
  <2>1. InMessages' = Append(InMessages, m) /\ Len(InMessages) < InMessagesCap
        /\ InMessagesCap \in Nat
    BY ManagerAssumption DEF Forward, Room
  <2> QED BY <1>1, <2>1, SendFits DEF QueueTypes
<1> QED BY <1>1, <1>2, TypeFrames DEF Forward

\* Forgetting a request keeps the pipeline within its limit.
LEMMA ForgetTypes ==
    ASSUME ClientTypes, NEW c \in Clients, NEW b,
           outstanding' = [outstanding EXCEPT ![c] = @ \ {b}]
    PROVE  outstanding' \in [Clients -> {S \in SUBSET Blocks :
                                           Cardinality(S) <= MaxOutstanding}]
<1>1. outstanding[c] \in SUBSET Blocks /\ Cardinality(outstanding[c]) <= MaxOutstanding
  BY DEF ClientTypes
<1>2. IsFiniteSet(outstanding[c]) /\ MaxOutstanding \in Nat
  BY <1>1, BlocksFinite, FS_Subset, ManagerAssumption
<1>3. outstanding[c] \ {b} \subseteq outstanding[c]
  OBVIOUS
<1>4. Cardinality(outstanding[c] \ {b}) <= Cardinality(outstanding[c])
      /\ IsFiniteSet(outstanding[c] \ {b})
  BY <1>2, <1>3, FS_Subset
<1>5. Cardinality(outstanding[c] \ {b}) <= MaxOutstanding
  BY <1>1, <1>2, <1>4, FS_CardinalityType
<1> QED BY <1>1, <1>5 DEF ClientTypes

\* readLoop, tickerLoop and writeLoop.
LEMMA ClientStepTypes ==
    ASSUME StateTypeOK, NEW c \in Clients, Client(c)
    PROVE  StateTypeOK'
<1>1. ClientTypes /\ LockTypes /\ QueueTypes /\ LoopTypes /\ DataTypes
  BY TypeGroups
<1>2. AddressOf[c] \in Peers /\ Has[c] \in SUBSET Pieces
  BY ManagerAssumption
<1>3. CASE ReadBitfield(c)
  <2>1. Bitfield(AddressOf[c], Has[c]) \in Messages
    BY <1>2, MessagesMade
  <2> QED BY <1>1, <1>3, <2>1, ForwardTypes, TypeFrames, TypeGroups DEF ReadBitfield
<1>4. ASSUME NEW p \in Haves, ReadHave(c, p) PROVE StateTypeOK'
  <2>1. Have(AddressOf[c], p) \in Messages
    BY <1>2, MessagesMade
  <2> QED BY <1>1, <1>4, <2>1, ForwardTypes, TypeFrames, TypeGroups DEF ReadHave
<1>5. ASSUME NEW v \in BOOLEAN, ReadChoke(c, v) PROVE StateTypeOK'
  <2>1. Other(AddressOf[c]) \in Messages
    BY <1>2, MessagesMade
  <2>2. ClientTypes'
    BY <1>1, <1>5 DEF ReadChoke, ClientTypes
  <2> QED BY <1>5, <2>1, <2>2, ForwardTypes, TypeGroups DEF ReadChoke
<1>6. ASSUME NEW b \in Blocks, NEW q \in Qualities, ReadPiece(c, b, q)
      PROVE  StateTypeOK'
  <2>1. Piece(AddressOf[c], b, q) \in Messages
    BY <1>2, MessagesMade DEF Qualities
  <2>2. ClientTypes'
    BY <1>1, <1>6, ForgetTypes DEF ReadPiece, ClientTypes
  <2> QED BY <1>6, <2>1, <2>2, ForwardTypes, TypeGroups DEF ReadPiece
<1>7. CASE ReadError(c)
  <2>1. Dropped(AddressOf[c]) \in Messages
    BY <1>2, MessagesMade
  <2>2. ClientTypes'
    BY <1>1, <1>7 DEF ReadError, ClientTypes
  <2> QED BY <1>7, <2>1, <2>2, ForwardTypes, TypeGroups DEF ReadError
<1>8. CASE ReadAborted(c) \/ ClientCloses(c)
  <2>1. ClientTypes'
    BY <1>1, <1>8 DEF ReadAborted, ClientCloses, ClientTypes
  <2> QED BY <1>1, <1>8, <2>1, TypeFrames, TypeGroups DEF ReadAborted, ClientCloses
<1>9. ASSUME NEW b \in Blocks, TickerStall(c, b) PROVE StateTypeOK'
  <2>1. Timeout(AddressOf[c], b) \in Messages
    BY <1>2, MessagesMade
  <2>2. ClientTypes'
    BY <1>1, <1>9, ForgetTypes DEF TickerStall, ClientTypes
  <2> QED BY <1>9, <2>1, <2>2, ForwardTypes, TypeGroups DEF TickerStall
<1> QED BY <1>3, <1>4, <1>5, <1>6, <1>7, <1>8, <1>9 DEF Client

\* Start, the select, and the handlers that change none of the data.
LEMMA HandlerTypes ==
    ASSUME StateTypeOK,
           \/ StartOk \/ StartFails \/ SelectDone \/ SelectTicker
           \/ RemovePeerEnd \/ HandleTimeout \/ HandleBitfield
           \/ HandleHave \/ HandleOther
    PROVE  StateTypeOK'
<1> USE DEF Goto
<1>1. ClientTypes /\ LockTypes /\ QueueTypes /\ LoopTypes /\ DataTypes
  BY TypeGroups
<1>2. ClientTypes' /\ LockTypes'
  BY <1>1, TypeFrames DEF StartOk, StartFails, SelectDone, SelectTicker, RemovePeerEnd,
       HandleTimeout, HandleBitfield, HandleHave, HandleOther
<1>3. LoopTypes'
  BY <1>1 DEF StartOk, StartFails, SelectDone, SelectTicker, RemovePeerEnd, HandleTimeout,
       HandleBitfield, HandleHave, HandleOther, LoopTypes
<1>4. DataTypes'
  <2>1. CASE StartFails
    BY <1>1, <2>1 DEF StartFails, DataTypes
  <2> QED BY <1>1, <2>1, TypeFrames DEF StartOk, SelectDone, SelectTicker, RemovePeerEnd,
       HandleTimeout, HandleBitfield, HandleHave, HandleOther
<1>5. QueueTypes'
  <2>1. ASSUME NEW id, Receives(id) PROVE QueueTypes'
    BY <2>1, Received DEF QueueTypes
  <2> QED BY <1>1, <2>1, TypeFrames DEF StartOk, StartFails, SelectDone, SelectTicker,
       RemovePeerEnd, HandleTimeout, HandleBitfield, HandleHave, HandleOther
<1> QED BY <1>2, <1>3, <1>4, <1>5, TypeGroups

\* The first half of RemovePeer.
LEMMA HandleDroppedTypes == StateTypeOK /\ HandleDropped => StateTypeOK'
<1> SUFFICES ASSUME StateTypeOK, HandleDropped PROVE StateTypeOK'
  OBVIOUS
<1> DEFINE a == Head(InMessages).from
<1>1. ClientTypes /\ LockTypes /\ QueueTypes /\ LoopTypes /\ DataTypes
  BY TypeGroups
<1>2. DataTypes'
  BY <1>1, TypeFrames DEF HandleDropped
<1>3. QueueTypes' /\ a \in Peers
  BY Received, MessageParts DEF HandleDropped, QueueTypes
<1>4. CASE a \in DOMAIN activePeers
  <2>1. /\ activePeers' = Restrict(activePeers, DOMAIN activePeers \ {a})
        /\ link' = [link EXCEPT ![activePeers[a]] = "closed"]
        /\ pc' = "unregister" /\ victim' = a
        /\ UNCHANGED <<verifying, torrentDone, todo, cur, choked, outstanding, readerOn,
                       adding, toDrain>>
    BY <1>4 DEF HandleDropped
  <2>2. ClientTypes' /\ LoopTypes'
    BY <1>1, <1>3, <2>1 DEF ClientTypes, LoopTypes
  <2>3. LockTypes'
    BY <1>1, <2>1 DEF LockTypes, Restrict
  <2> QED BY <1>2, <1>3, <2>2, <2>3, TypeGroups
<1>5. CASE a \notin DOMAIN activePeers
  <2>1. UNCHANGED clientVars /\ UNCHANGED lockVars
    BY <1>5 DEF HandleDropped, clientVars, lockVars
  <2>2. LoopTypes'
    BY <1>1, <1>5 DEF HandleDropped, LoopTypes, Goto
  <2> QED BY <1>1, <1>2, <1>3, <2>1, <2>2, TypeFrames, TypeGroups
<1> QED BY <1>4, <1>5

\* The arrival of a block, and what verifyAndWritePiece makes of a piece.
LEMMA PieceTypes ==
    StateTypeOK /\ (HandlePiece \/ WritePiece \/ RevertPiece) => StateTypeOK'
<1> SUFFICES ASSUME StateTypeOK, HandlePiece \/ WritePiece \/ RevertPiece
             PROVE  StateTypeOK'
  OBVIOUS
<1>1. ClientTypes /\ LockTypes /\ QueueTypes /\ LoopTypes /\ DataTypes
  BY TypeGroups
<1>2. ClientTypes' /\ LockTypes'
  BY <1>1, TypeFrames DEF HandlePiece, WritePiece, RevertPiece
<1>3. CASE HandlePiece
  <2> DEFINE m == Head(InMessages)
  <2>1. QueueTypes' /\ m \in Messages /\ m.id = "piece"
    BY <1>3, Received DEF HandlePiece, QueueTypes
  <2>2. m.block \in Blocks /\ m.data \in {"good", "bad"}
    BY <2>1, MessageParts
  <2>3. m.block[1] \in Pieces
    BY <2>2 DEF Blocks
  <2>4. TorrentDone(m.block) \in BOOLEAN
    BY DEF TorrentDone
  <2>5. LoopTypes'
    BY <1>1, <1>3, <2>3, <2>4 DEF HandlePiece, LoopTypes, Goto
  <2>6. DataTypes'
    BY <1>1, <1>3, <2>2 DEF HandlePiece, DataTypes
  <2> QED BY <1>2, <2>1, <2>5, <2>6, TypeGroups
<1>4. CASE WritePiece \/ RevertPiece
  <2>1. QueueTypes'
    BY <1>1, <1>4, TypeFrames DEF WritePiece, RevertPiece
  <2>2. LoopTypes' /\ doneClosed' \in Nat
    <3>1. CloseIfDone
      BY <1>4 DEF WritePiece, RevertPiece
    <3>2. doneClosed' \in Nat
      BY <1>1, <3>1 DEF CloseIfDone, DataTypes
    <3>3. LoopTypes'
      BY <1>1, <3>1 DEF CloseIfDone, LoopTypes
    <3> QED BY <3>2, <3>3
  <2>3. pieceBufs' \in [Blocks -> {"none", "good", "bad"}]
    BY <1>1, <1>4 DEF WritePiece, RevertPiece, ForgetBufs, DataTypes
  <2>4. storageCh' \in Seq(Pieces) /\ Len(storageCh') <= StorageCap
    <3>1. CASE WritePiece
      <4>1. verifying \in Pieces
        <5>1. \E b \in BlocksOf(verifying) : TRUE
          BY <3>1 DEF WritePiece, DataOf
        <5> QED BY <5>1 DEF BlocksOf, Blocks
      <4>2. storageCh' = Append(storageCh, verifying) /\ Len(storageCh) < StorageCap
            /\ StorageCap \in Nat
        BY <3>1, ManagerAssumption DEF WritePiece
      <4> QED BY <1>1, <4>1, <4>2, SendFits DEF DataTypes
    <3>2. CASE RevertPiece
      BY <1>1, <3>2 DEF RevertPiece, DataTypes
    <3> QED BY <1>4, <3>1, <3>2
  <2>5. DataTypes'
    BY <1>1, <1>4, <2>2, <2>3, <2>4 DEF WritePiece, RevertPiece, DataTypes
  <2> QED BY <1>2, <2>1, <2>2, <2>5, TypeGroups
<1> QED BY <1>3, <1>4

\* pipelineRequests: a request is queued only below the limit.
LEMMA PipelineTypes ==
    ASSUME StateTypeOK,
           \/ PipelineBegin \/ PipelineEnd
           \/ \E c \in Clients : PipelineVisit(c) \/ PipelineLeave(c)
           \/ \E c \in Clients, b \in Blocks : PipelineRequest(c, b)
    PROVE  StateTypeOK'
<1>1. ClientTypes /\ LockTypes /\ QueueTypes /\ LoopTypes /\ DataTypes
  BY TypeGroups
<1>2. LockTypes' /\ QueueTypes' /\ DataTypes'
  BY <1>1, TypeFrames DEF PipelineBegin, PipelineEnd, PipelineVisit, PipelineLeave,
       PipelineRequest
<1>3. LoopTypes'
  <2>1. CASE PipelineBegin
    <3>1. Range(activePeers) \subseteq Clients
      BY <1>1 DEF LockTypes, Range
    <3> QED BY <1>1, <2>1, <3>1 DEF PipelineBegin, LoopTypes
  <2>2. CASE PipelineEnd
    BY <1>1, <2>2 DEF PipelineEnd, LoopTypes, Goto
  <2>3. ASSUME NEW c \in Clients, PipelineVisit(c) \/ PipelineLeave(c) PROVE LoopTypes'
    BY <1>1, <2>3 DEF PipelineVisit, PipelineLeave, LoopTypes
  <2>4. ASSUME NEW c \in Clients, NEW b \in Blocks, PipelineRequest(c, b)
        PROVE  LoopTypes'
    BY <1>1, <2>4, TypeFrames DEF PipelineRequest
  <2> QED BY <2>1, <2>2, <2>3, <2>4
<1>4. ClientTypes'
  <2>1. ASSUME NEW c \in Clients, NEW b \in Blocks, PipelineRequest(c, b)
        PROVE  ClientTypes'
    <3> DEFINE O == outstanding[c]
    <3>1. O \in SUBSET Blocks /\ Cardinality(O) < MaxOutstanding /\ MaxOutstanding \in Nat
      BY <1>1, <2>1, ManagerAssumption DEF PipelineRequest, Free, ClientTypes
    <3>2. IsFiniteSet(O) /\ Cardinality(O) \in Nat
      BY <3>1, BlocksFinite, FS_Subset, FS_CardinalityType
    <3>3. Cardinality(O \cup {b}) <= MaxOutstanding
      <4>1. Cardinality(O \cup {b}) \in {Cardinality(O), Cardinality(O) + 1}
        BY <3>2, FS_AddElement
      <4> HIDE DEF O
      <4> QED BY <3>1, <3>2, <4>1
    <3>4. outstanding' = [outstanding EXCEPT ![c] = O \cup {b}]
      BY <2>1 DEF PipelineRequest
    <3> QED BY <1>1, <2>1, <3>1, <3>3, <3>4 DEF PipelineRequest, ClientTypes
  <2> QED BY <1>1, <2>1, TypeFrames DEF PipelineBegin, PipelineEnd, PipelineVisit,
         PipelineLeave
<1> QED BY <1>2, <1>3, <1>4, TypeGroups

\* storageLoop and the end of Download.
LEMMA StorageTypes ==
    ASSUME StateTypeOK,
           \/ StorageOpen("run") \/ StorageOpen("exited")
           \/ StorageWrite \/ StorageWriteFails \/ StorageExit \/ DownloadReturns
    PROVE  StateTypeOK'
<1>1. ClientTypes /\ LockTypes /\ QueueTypes /\ LoopTypes /\ DataTypes
  BY TypeGroups
<1>2. ClientTypes' /\ LockTypes' /\ QueueTypes' /\ LoopTypes'
  BY <1>1, TypeFrames DEF StorageOpen, StorageWrite, StorageWriteFails, StorageExit,
       DownloadReturns
<1>3. CASE StorageWrite \/ StorageWriteFails
  <2>1. storageCh # <<>> /\ storageCh' = Tail(storageCh) /\ StorageCap \in Nat
    BY <1>3, ManagerAssumption DEF StorageWrite, StorageWriteFails
  <2>2. Head(storageCh) \in Pieces /\ storageCh' \in Seq(Pieces)
        /\ Len(storageCh') <= StorageCap
    BY <1>1, <2>1, ReceiveFits DEF DataTypes
  <2>3. DataTypes'
    BY <1>1, <1>3, <2>2 DEF StorageWrite, StorageWriteFails, DataTypes
  <2> QED BY <1>2, <2>3, TypeGroups
<1>4. CASE StorageOpen("run") \/ StorageOpen("exited") \/ StorageExit \/ DownloadReturns
  <2>1. DataTypes'
    BY <1>1, <1>4 DEF StorageOpen, StorageExit, DownloadReturns, DataTypes
  <2> QED BY <1>2, <2>1, TypeGroups
<1> QED BY <1>3, <1>4

\* Every step keeps the type.
LEMMA NextTypes == MInv /\ [ManagerStep]_stepVars => StateTypeOK'
<1> SUFFICES ASSUME MInv, [ManagerStep]_stepVars PROVE StateTypeOK'
  OBVIOUS
<1>1. StateTypeOK
  BY DEF MInv
<1>2. CASE EventLoop
  BY <1>1, <1>2, HandlerTypes, HandleDroppedTypes, PieceTypes, PipelineTypes DEF EventLoop
<1>3. CASE UNCHANGED managerVars
  BY <1>1, <1>3, TypeGroups, TypeFrames DEF managerVars
<1>4. CASE UNCHANGED stepVars
  BY <1>3, <1>4 DEF stepVars
<1> QED BY <1>1, <1>2, <1>3, <1>4, HandlerTypes, AddPeerTypes, ClientStepTypes, StorageTypes
        DEF ManagerStep, RequestExpires

----------------------------------------------------------------------------
(* The picker's invariant and the peers *)

\* The steps that leave the picker alone.
LEMMA PickerUntouched ==
    ASSUME \/ StartOk \/ StartFails \/ SelectDone \/ HandleDropped \/ HandleOther
           \/ WritePiece \/ PipelineBegin \/ PipelineEnd
           \/ \E c \in Clients : PipelineVisit(c)
           \/ AddPeerDrain \/ AddPeerEnd
           \/ \E c \in Clients : Client(c)
           \/ StorageOpen("run") \/ StorageOpen("exited")
           \/ StorageWrite \/ StorageWriteFails \/ StorageExit \/ DownloadReturns
           \/ UNCHANGED stepVars
    PROVE  UNCHANGED pickerVars
<1>1. ASSUME NEW c \in Clients, Client(c) PROVE UNCHANGED pickerVars
  BY <1>1 DEF Client, ReadBitfield, ReadHave, ReadChoke, ReadPiece, ReadError, ReadAborted,
       TickerStall, ClientCloses, Forward
<1>2. CASE \/ StartOk \/ StartFails \/ SelectDone \/ HandleDropped \/ HandleOther
           \/ WritePiece \/ PipelineBegin \/ PipelineEnd
           \/ \E c \in Clients : PipelineVisit(c)
  BY <1>2 DEF StartOk, StartFails, SelectDone, HandleDropped, HandleOther, WritePiece,
       PipelineBegin, PipelineEnd, PipelineVisit
<1>3. CASE \/ AddPeerDrain \/ AddPeerEnd
           \/ StorageOpen("run") \/ StorageOpen("exited")
           \/ StorageWrite \/ StorageWriteFails \/ StorageExit \/ DownloadReturns
           \/ UNCHANGED stepVars
  BY <1>3 DEF AddPeerDrain, AddPeerEnd, StorageOpen, StorageWrite, StorageWriteFails,
       StorageExit, DownloadReturns, stepVars
<1> QED BY <1>1, <1>2, <1>3

\* The manager calls the picker with arguments for which its methods keep their
\* invariant.
LEMMA NextPicker == MInv /\ [ManagerStep]_stepVars => IInv'
<1> SUFFICES ASSUME MInv, [ManagerStep]_stepVars PROVE IInv'
  OBVIOUS
<1>1. IInv /\ StateTypeOK /\ PeersInv
  BY DEF MInv
<1>2. ASSUME UNCHANGED pickerVars PROVE IInv'
  BY <1>1, <1>2, IInvUnchanged
<1>3. ASSUME NEW c \in Clients PROVE AddressOf[c] \in Peers
  BY ManagerAssumption
<1>4. ASSUME NEW c \in Clients, AddPeerBegin(c) PROVE IInv'
  BY <1>1, <1>3, <1>4, RegisterPeerKeepsIInv DEF AddPeerBegin
<1>5. CASE SelectTicker
  BY <1>1, <1>5, GetStalledKeepsIInv DEF SelectTicker
<1>6. CASE RemovePeerEnd
  BY <1>1, <1>6, UnregisterPeerKeepsIInv DEF RemovePeerEnd, PeersInv
<1>7. CASE HandleTimeout \/ RevertPiece
  BY <1>1, <1>7, MarkFailedKeepsIInv DEF HandleTimeout, RevertPiece
<1>8. CASE HandleBitfield
  <2>1. Head(InMessages).has \in SUBSET Pieces
    BY <1>1, <1>8, Received, MessageParts DEF HandleBitfield
  <2> QED BY <1>1, <1>8, <2>1, LearnKeepsIInv DEF HandleBitfield, UpdatePeerBitfield
<1>9. CASE HandleHave
  <2>1. Learn(Head(InMessages).from, {Head(InMessages).piece} \cap Pieces)
    BY <1>9 DEF HandleHave, UpdatePeerHave
  <2> QED BY <1>1, <2>1, LearnKeepsIInv
<1>10. CASE HandlePiece
  <2>1. Head(InMessages).from \in Peers
    BY <1>1, <1>10, Received, MessageParts DEF HandlePiece
  <2>2. MarkCompleted(Head(InMessages).block, Head(InMessages).from)
    BY <1>10 DEF HandlePiece
  <2> QED BY <1>1, <2>1, <2>2, MarkCompletedKeepsIInv
<1>11. ASSUME NEW c \in Clients, NEW b \in Blocks, PipelineRequest(c, b) PROVE IInv'
  BY <1>1, <1>3, <1>11, NextBlockKeepsIInv DEF PipelineRequest
<1>12. ASSUME NEW c \in Clients, PipelineLeave(c) PROVE IInv'
  <2>1. CASE NextBlockNone(AddressOf[c])
    BY <1>1, <2>1, NextBlockNoneKeepsIInv
  <2> QED BY <1>2, <1>12, <2>1 DEF PipelineLeave
<1>13. ASSUME NEW b \in Blocks, RequestExpires(b) PROVE IInv'
  BY <1>1, <1>13, RequestAgesKeepsIInv DEF RequestExpires
<1> QED BY <1>2, <1>4, <1>5, <1>6, <1>7, <1>8, <1>9, <1>10, <1>11, <1>12, <1>13,
           PickerUntouched
        DEF ManagerStep, EventLoop

\* The methods that leave the registrations alone.
LEMMA RegisteredKept ==
    ASSUME IInv,
           \/ UNCHANGED pickerVars
           \/ \E a, S : Learn(a, S)
           \/ \E a, b : NextBlock(a, b)
           \/ \E a : NextBlockNone(a)
           \/ \E a, b : MarkCompleted(b, a)
           \/ \E S : MarkFailed(S)
           \/ GetStalledRequests
           \/ \E b : RequestAges(b)
    PROVE  Registered' = Registered
<1>1. CASE UNCHANGED pickerVars
  BY <1>1 DEF pickerVars, Registered
<1>2. CASE \E a, S : Learn(a, S)
  BY <1>2 DEF Learn, Registered, peerVars
<1>3. CASE \/ \E a, b : NextBlock(a, b) \/ MarkCompleted(b, a)
           \/ \E a : NextBlockNone(a)
  BY <1>1, <1>3 DEF NextBlock, NextBlockNone, MarkCompleted, Registered, peerVars
<1>4. CASE (\E S : MarkFailed(S)) \/ GetStalledRequests \/ \E b : RequestAges(b)
  BY <1>4 DEF MarkFailed, GetStalledRequests, RequestAges, Registered, peerVars
<1> QED BY <1>1, <1>2, <1>3, <1>4

\* Every step keeps the registered addresses among the active ones, the one being
\* removed excepted.
LEMMA NextPeers == MInv /\ [ManagerStep]_stepVars => PeersInv'
<1> SUFFICES ASSUME MInv, [ManagerStep]_stepVars PROVE PeersInv'
  OBVIOUS
<1>1. IInv /\ StateTypeOK /\ PeersInv
  BY DEF MInv
<1>2. ASSUME Registered' = Registered, UNCHANGED <<activePeers, victim>>,
             pc' = "unregister" <=> pc = "unregister"
      PROVE  PeersInv'
  BY <1>1, <1>2 DEF PeersInv, RegisteredIsActive
<1>3. ASSUME NEW c \in Clients, AddPeerBegin(c) PROVE PeersInv'
  BY <1>1, <1>3 DEF AddPeerBegin, RegisterPeer, Registered, PeersInv, RegisteredIsActive,
       loopVars
<1>4. CASE HandleDropped
  <2>1. Registered' = Registered
    BY <1>1, <1>4, PickerUntouched, RegisteredKept
  <2>2. pc = "select" /\ Head(InMessages).from \in Peers
    BY <1>1, <1>4, Received, MessageParts DEF HandleDropped
  <2>3. Registered \subseteq DOMAIN activePeers
    BY <1>1, <2>2, PeersAssumption DEF PeersInv, RegisteredIsActive, IInv, TypeOK
  <2> QED BY <1>1, <1>4, <2>1, <2>2, <2>3
          DEF HandleDropped, PeersInv, RegisteredIsActive, Goto, Restrict
<1>5. CASE RemovePeerEnd
  <2>1. Registered' = Registered \ {victim}
    BY <1>5 DEF RemovePeerEnd, UnregisterPeer, Registered, peerVars
  <2> QED BY <1>1, <1>5, <2>1 DEF RemovePeerEnd, PeersInv, RegisteredIsActive, lockVars
<1>6. CASE StartOk \/ StartFails \/ SelectDone
  BY <1>1, <1>2, <1>6, PickerUntouched, RegisteredKept
     DEF StartOk, StartFails, SelectDone, Goto, lockVars
<1>7. CASE SelectTicker
  BY <1>1, <1>2, <1>7, RegisteredKept DEF SelectTicker, Goto, lockVars
<1>8. CASE HandleTimeout
  BY <1>1, <1>2, <1>8, RegisteredKept DEF HandleTimeout, Receives, Goto, lockVars
<1>9. CASE HandleBitfield \/ HandleHave
  BY <1>1, <1>2, <1>9, RegisteredKept
     DEF HandleBitfield, HandleHave, UpdatePeerBitfield, UpdatePeerHave, Receives, Goto, lockVars
<1>10. CASE HandleOther
  BY <1>1, <1>2, <1>10, PickerUntouched, RegisteredKept DEF HandleOther, Receives, Goto, lockVars
<1>11. CASE HandlePiece
  <2>1. Registered' = Registered
    BY <1>1, <1>11, RegisteredKept DEF HandlePiece
  <2>2. UNCHANGED <<activePeers, victim>> /\ pc = "select" /\ pc' # "unregister"
    BY <1>11 DEF HandlePiece, Receives, Goto, lockVars
  <2> QED BY <1>2, <2>1, <2>2
<1>12. CASE WritePiece
  BY <1>1, <1>2, <1>12, PickerUntouched, RegisteredKept DEF WritePiece, CloseIfDone, lockVars
<1>13. CASE RevertPiece
  BY <1>1, <1>2, <1>13, RegisteredKept DEF RevertPiece, CloseIfDone, lockVars
<1>14. CASE PipelineBegin \/ PipelineEnd \/ \E c \in Clients : PipelineVisit(c)
  BY <1>1, <1>2, <1>14, PickerUntouched, RegisteredKept
     DEF PipelineBegin, PipelineEnd, PipelineVisit, Visiting, Goto, lockVars
<1>15. ASSUME NEW c \in Clients, PipelineLeave(c) PROVE PeersInv'
  BY <1>1, <1>2, <1>15, RegisteredKept DEF PipelineLeave, lockVars
<1>16. ASSUME NEW c \in Clients, NEW b \in Blocks, PipelineRequest(c, b) PROVE PeersInv'
  BY <1>1, <1>2, <1>16, RegisteredKept DEF PipelineRequest, lockVars, loopVars
<1>17. CASE AddPeerDrain \/ AddPeerEnd
  BY <1>1, <1>2, <1>17, PickerUntouched, RegisteredKept
     DEF AddPeerDrain, AddPeerEnd, loopVars
<1>18. ASSUME NEW c \in Clients, Client(c) PROVE PeersInv'
  <2>1. UNCHANGED <<lockVars, loopVars>>
    BY <1>18 DEF Client, ReadBitfield, ReadHave, ReadChoke, ReadPiece, ReadError,
         ReadAborted, TickerStall, ClientCloses, Forward
  <2>2. Registered' = Registered
    BY <1>1, <1>18, PickerUntouched, RegisteredKept
  <2> QED BY <1>2, <2>1, <2>2 DEF lockVars, loopVars
<1>19. CASE \/ StorageOpen("run") \/ StorageOpen("exited")
            \/ StorageWrite \/ StorageWriteFails \/ StorageExit \/ DownloadReturns
            \/ UNCHANGED stepVars
  <2>1. UNCHANGED <<lockVars, loopVars>>
    BY <1>19 DEF StorageOpen, StorageWrite, StorageWriteFails, StorageExit, DownloadReturns,
         stepVars, managerVars
  <2>2. Registered' = Registered
    BY <1>1, <1>19, PickerUntouched, RegisteredKept
  <2> QED BY <1>2, <2>1, <2>2 DEF lockVars, loopVars
<1>20. ASSUME NEW b \in Blocks, RequestExpires(b) PROVE PeersInv'
  BY <1>1, <1>2, <1>20, RegisteredKept DEF RequestExpires, managerVars, lockVars, loopVars
<1> QED BY <1>3, <1>4, <1>5, <1>6, <1>7, <1>8, <1>9, <1>10, <1>11, <1>12, <1>13, <1>14,
           <1>15, <1>16, <1>17, <1>18, <1>19, <1>20 DEF ManagerStep, EventLoop

----------------------------------------------------------------------------
(* What becomes of the data *)

\* A step that completes no block, touches neither the buffers nor the storage
\* queue, and enters no verification.
LEMMA DataFrame ==
    ASSUME DataInv, InState("completed")' = InState("completed"),
           UNCHANGED <<pieceCompleted, completed, pieceBufs, storageCh, disk, doneClosed,
                       torrentDone>>,
           pc' = "verify" => pc = "verify" /\ verifying' = verifying
    PROVE  DataInv'
<1>1. CompletedIsBuffered'
  BY DEF DataInv, CompletedIsBuffered
<1>2. VerifyingIsNew'
  BY DEF DataInv, VerifyingIsNew, Queued
<1>3. FoundDoneOnce' /\ DoneClosedOnce' /\ NoneQueuedTwice'
  BY DEF DataInv, FoundDoneOnce, DoneClosedOnce, NoneQueuedTwice
<1>4. WrittenOnce'
  BY DEF DataInv, WrittenOnce, Queued
<1> QED BY <1>1, <1>2, <1>3, <1>4 DEF DataInv

\* The arrival of a block.  Only a block that MarkCompleted accepts can finish a
\* piece or the torrent, and neither was finished before.
LEMMA HandlePieceData == MInv /\ HandlePiece => DataInv'
<1> SUFFICES ASSUME MInv, HandlePiece PROVE DataInv'
  OBVIOUS
<1> DEFINE m == Head(InMessages)
           b == m.block
<1>1. IInv /\ DataInv /\ StateTypeOK /\ DataTypes /\ LoopTypes
  BY TypeGroups DEF MInv
<1>2. b \in Blocks /\ m.data # "none" /\ pc = "select"
  <2>1. m \in Messages /\ m.id = "piece" /\ pc = "select"
    BY <1>1, Received DEF HandlePiece
  <2>2. b \in Blocks /\ m.data \in {"good", "bad"}
    BY <2>1, MessageParts
  <2> QED BY <2>1, <2>2
<1>3. /\ pieceBufs' = [pieceBufs EXCEPT ![b] = m.data]
      /\ MarkCompleted(b, m.from)
      /\ UNCHANGED <<storageCh, disk>>
      /\ IF PieceDone(b)
         THEN pc' = "verify" /\ verifying' = b[1] /\ torrentDone' = TorrentDone(b)
              /\ doneClosed' = doneClosed
         ELSE pc' = "pipeline" /\ torrentDone' = torrentDone
              /\ doneClosed' = IF TorrentDone(b) THEN doneClosed + 1 ELSE doneClosed
  BY DEF HandlePiece, Goto
<1>4. blockState \in [Blocks -> BlockStates] /\ completed \in Nat
      /\ pieceBufs \in [Blocks -> {"none", "good", "bad"}] /\ b[1] \in Pieces
      /\ doneClosed \in Nat /\ torrentDone \in BOOLEAN
  BY <1>1, <1>2 DEF IInv, TypeOK, DataTypes, LoopTypes, Blocks
<1> HIDE DEF m, b
<1>5. CASE ~Accepts(b)
  <2>1. UNCHANGED pickerVars /\ ~PieceDone(b) /\ ~TorrentDone(b)
    BY <1>3, <1>5 DEF MarkCompleted, PieceDone, TorrentDone
  <2>2. InState("completed")' = InState("completed") /\ UNCHANGED <<pieceCompleted, completed>>
    BY <2>1 DEF pickerVars, InState
  <2>3. CompletedIsBuffered'
    BY <1>1, <1>2, <1>3, <1>4, <2>1, <2>2 DEF DataInv, CompletedIsBuffered, InState
  <2>4. VerifyingIsNew' /\ FoundDoneOnce' /\ DoneClosedOnce' /\ NoneQueuedTwice' /\ WrittenOnce'
    BY <1>1, <1>3, <2>1, <2>2 DEF DataInv, VerifyingIsNew, FoundDoneOnce, DoneClosedOnce,
         NoneQueuedTwice, WrittenOnce, Queued
  <2> QED BY <2>3, <2>4 DEF DataInv
<1>6. CASE Accepts(b)
  <2>1. /\ blockState' = [blockState EXCEPT ![b] = "completed"]
        /\ completed' = completed + 1
        /\ pieceCompleted' = IF PieceDone(b) THEN pieceCompleted \cup {b[1]}
                                             ELSE pieceCompleted
    BY <1>3, <1>6 DEF MarkCompleted
  <2>2. InState("completed")' = InState("completed") \cup {b}
    BY <1>2, <1>4, <2>1 DEF InState
  <2>3. b[1] \notin pieceCompleted
    BY <1>6 DEF Accepts
  <2>4. completed # TotalBlocks
    BY <1>1, <1>6, AllCompleted
  <2>5. doneClosed = 0 /\ torrentDone = FALSE
    BY <1>1, <1>4, <2>4 DEF DataInv, FoundDoneOnce
  <2>6. b[1] \notin Queued \cup disk
    BY <1>1, <2>3 DEF DataInv, WrittenOnce
  <2>7. Queued' = Queued /\ storageCh' = storageCh /\ disk' = disk
    BY <1>3 DEF Queued
  <2>8. CompletedIsBuffered'
    <3> SUFFICES ASSUME NEW c \in InState("completed")',
                        c[1] \notin pieceCompleted' \/ (pc' = "verify" /\ c[1] = verifying')
                 PROVE  pieceBufs'[c] # "none"
      BY DEF CompletedIsBuffered
    <3>1. CASE c = b
      BY <1>2, <1>3, <1>4, <3>1
    <3>2. CASE c # b
      <4>1. c \in InState("completed") /\ c \in Blocks
        BY <2>2, <3>2 DEF InState
      <4>2. c[1] \notin pieceCompleted
        BY <1>3, <2>1, <2>3
      <4>3. pieceBufs[c] # "none"
        BY <1>1, <4>1, <4>2 DEF DataInv, CompletedIsBuffered
      <4> QED BY <1>3, <1>4, <3>2, <4>1, <4>3
    <3> QED BY <3>1, <3>2
  <2>9. VerifyingIsNew'
    BY <1>3, <2>1, <2>5, <2>6, <2>7 DEF VerifyingIsNew
  <2>10. TorrentDone(b) => completed' = TotalBlocks
    BY <2>1 DEF TorrentDone
  <2>11. FoundDoneOnce' /\ DoneClosedOnce'
    BY <1>3, <1>4, <2>5, <2>10 DEF FoundDoneOnce, DoneClosedOnce
  <2>12. WrittenOnce' /\ NoneQueuedTwice'
    BY <1>1, <2>1, <2>7 DEF DataInv, WrittenOnce, NoneQueuedTwice
  <2> QED BY <2>8, <2>9, <2>11, <2>12 DEF DataInv
<1> QED BY <1>5, <1>6

\* The close of doneCh after a verification, right or wrong.
LEMMA CloseIfDoneData ==
    ASSUME DataInv, LoopTypes, DataTypes, CloseIfDone, completed' = completed
    PROVE  FoundDoneOnce' /\ DoneClosedOnce'
<1>1. torrentDone \in BOOLEAN /\ doneClosed \in Nat
  BY DEF LoopTypes, DataTypes
<1> QED BY <1>1 DEF DataInv, FoundDoneOnce, DoneClosedOnce, CloseIfDone

\* The buffers of a piece are given up once the piece is finished.
LEMMA ForgetBufsData ==
    ASSUME DataInv, DataTypes, pc = "verify", ForgetBufs(verifying), pc' = "pipeline",
           InState("completed")' = InState("completed"), pieceCompleted' = pieceCompleted
    PROVE  CompletedIsBuffered' /\ VerifyingIsNew'
<1>1. verifying \in pieceCompleted
  BY DEF DataInv, VerifyingIsNew
<1>2. \A b \in InState("completed") : b \in Blocks
  BY DEF InState
<1>3. CompletedIsBuffered'
  BY <1>1, <1>2 DEF DataInv, CompletedIsBuffered, ForgetBufs
<1> QED BY <1>3 DEF VerifyingIsNew

Elems(ch) == {ch[i] : i \in DOMAIN ch}

Distinct(ch) == \A i, j \in DOMAIN ch : ch[i] = ch[j] => i = j

\* Appending a new element to a queue without repetitions.
LEMMA AppendDistinct ==
    ASSUME NEW T, NEW ch \in Seq(T), NEW x \in T, Distinct(ch), x \notin Elems(ch)
    PROVE  /\ Elems(Append(ch, x)) = Elems(ch) \cup {x}
           /\ Distinct(Append(ch, x))
           /\ Len(Append(ch, x)) = Len(ch) + 1
<1> DEFINE ap == Append(ch, x)
<1>1. /\ ap \in Seq(T) /\ Len(ap) = Len(ch) + 1 /\ ap[Len(ch) + 1] = x
      /\ \A i \in 1 .. Len(ch) : ap[i] = ch[i]
  BY AppendProperties
<1>2. DOMAIN ap = 1 .. Len(ch) + 1 /\ DOMAIN ch = 1 .. Len(ch) /\ Len(ch) \in Nat
  BY <1>1, LenProperties
<1> HIDE DEF ap
<1>3. Elems(ap) = Elems(ch) \cup {x}
  BY <1>1, <1>2 DEF Elems
<1>4. Distinct(ap)
  BY <1>1, <1>2 DEF Distinct, Elems
<1> QED BY <1>1, <1>3, <1>4 DEF ap

\* Taking the head off a queue without repetitions.
LEMMA TailDistinct ==
    ASSUME NEW T, NEW ch \in Seq(T), ch # <<>>, Distinct(ch)
    PROVE  /\ Head(ch) \in Elems(ch)
           /\ Elems(Tail(ch)) = Elems(ch) \ {Head(ch)}
           /\ Distinct(Tail(ch))
           /\ Len(Tail(ch)) = Len(ch) - 1
<1> DEFINE t == Tail(ch)
<1>1. /\ t \in Seq(T) /\ Len(t) = Len(ch) - 1
      /\ \A i \in 1 .. Len(t) : t[i] = ch[i + 1]
  BY HeadTailProperties
<1>2. Len(ch) \in Nat /\ Len(ch) > 0 /\ DOMAIN ch = 1 .. Len(ch) /\ Head(ch) = ch[1]
  BY EmptySeq, LenProperties
<1>3. DOMAIN t = 1 .. Len(ch) - 1
  BY <1>1, LenProperties
<1> HIDE DEF t
<1>4. Head(ch) \in Elems(ch)
  BY <1>2 DEF Elems
<1>5. Distinct(t)
  <2> SUFFICES ASSUME NEW i \in 1 .. Len(ch) - 1, NEW j \in 1 .. Len(ch) - 1, t[i] = t[j]
               PROVE  i = j
    BY <1>3 DEF Distinct
  <2>1. i + 1 \in DOMAIN ch /\ j + 1 \in DOMAIN ch
    BY <1>2
  <2>2. ch[i + 1] = ch[j + 1]
    BY <1>1
  <2>3. i + 1 = j + 1
    BY <2>1, <2>2 DEF Distinct
  <2> QED BY <1>2, <2>3
<1>6. Elems(t) = Elems(ch) \ {Head(ch)}
  <2>1. ASSUME NEW x \in Elems(t) PROVE x \in Elems(ch) \ {Head(ch)}
    BY <1>1, <1>2, <1>3 DEF Elems, Distinct
  <2>2. ASSUME NEW x \in Elems(ch), x # Head(ch) PROVE x \in Elems(t)
    <3>1. PICK i \in 1 .. Len(ch) : x = ch[i]
      BY <1>2 DEF Elems
    <3>2. i - 1 \in 1 .. Len(ch) - 1 /\ (i - 1) + 1 = i
      BY <1>2, <2>2, <3>1
    <3> QED BY <1>1, <1>3, <3>1, <3>2 DEF Elems
  <2> QED BY <2>1, <2>2
<1> QED BY <1>1, <1>4, <1>5, <1>6 DEF t

\* The queue of pieces is a finite set of them.
LEMMA QueuedFinite ==
    ASSUME DataTypes
    PROVE  IsFiniteSet(Queued) /\ Cardinality(Queued) \in Nat /\ Queued \subseteq Pieces
<1>1. Queued \subseteq Pieces
  BY DEF DataTypes, Queued
<1>2. IsFiniteSet(Pieces)
  BY PieceLenPositive, FS_Interval DEF Pieces
<1> QED BY <1>1, <1>2, FS_Subset, FS_CardinalityType

\* A verified piece is handed to storageLoop, for the first time.
LEMMA WritePieceData == MInv /\ WritePiece => DataInv'
<1> SUFFICES ASSUME MInv, WritePiece PROVE DataInv'
  OBVIOUS
<1>1. IInv /\ DataInv /\ DataTypes /\ LoopTypes
  BY TypeGroups DEF MInv
<1>2. /\ pc = "verify" /\ pc' = "pipeline" /\ ForgetBufs(verifying) /\ CloseIfDone
      /\ storageCh' = Append(storageCh, verifying) /\ disk' = disk
  BY DEF WritePiece, CloseIfDone
<1>3. InState("completed")' = InState("completed") /\ UNCHANGED <<pieceCompleted, completed>>
  BY <1>1, PickerUntouched, PickerQuiet
<1>4. CompletedIsBuffered' /\ VerifyingIsNew' /\ FoundDoneOnce' /\ DoneClosedOnce'
  BY <1>1, <1>2, <1>3, CloseIfDoneData, ForgetBufsData
<1>5. verifying \in pieceCompleted /\ verifying \notin Queued \cup disk
  BY <1>1, <1>2 DEF DataInv, VerifyingIsNew
<1>6. verifying \in Pieces /\ storageCh \in Seq(Pieces) /\ Distinct(storageCh)
      /\ Queued = Elems(storageCh) /\ Queued' = Elems(storageCh')
  BY <1>1, <1>5 DEF IInv, TypeOK, DataTypes, DataInv, NoneQueuedTwice, Distinct, Queued, Elems
<1>7. Queued' = Queued \cup {verifying} /\ Distinct(storageCh')
      /\ Len(storageCh') = Len(storageCh) + 1
  BY <1>2, <1>5, <1>6, AppendDistinct
<1>8. Cardinality(Queued') = Cardinality(Queued) + 1
  BY <1>1, <1>5, <1>7, QueuedFinite, FS_AddElement
<1>9. WrittenOnce'
  BY <1>1, <1>2, <1>3, <1>5, <1>7, <1>8 DEF DataInv, WrittenOnce
<1>10. NoneQueuedTwice'
  BY <1>7 DEF NoneQueuedTwice, Distinct
<1> QED BY <1>4, <1>9, <1>10 DEF DataInv

\* A piece whose hash differs is not handed over.
LEMMA RevertPieceData == MInv /\ RevertPiece => DataInv'
<1> SUFFICES ASSUME MInv, RevertPiece PROVE DataInv'
  OBVIOUS
<1>1. IInv /\ DataInv /\ DataTypes /\ LoopTypes
  BY TypeGroups DEF MInv
<1>2. /\ pc = "verify" /\ pc' = "pipeline" /\ ForgetBufs(verifying) /\ CloseIfDone
      /\ storageCh' = storageCh /\ disk' = disk /\ MarkFailed(BlocksOf(verifying))
  BY DEF RevertPiece, CloseIfDone
<1>3. InState("completed")' = InState("completed") /\ UNCHANGED <<pieceCompleted, completed>>
  BY <1>1, <1>2, PickerQuiet
<1>4. CompletedIsBuffered' /\ VerifyingIsNew' /\ FoundDoneOnce' /\ DoneClosedOnce'
  BY <1>1, <1>2, <1>3, CloseIfDoneData, ForgetBufsData
<1>5. WrittenOnce' /\ NoneQueuedTwice'
  BY <1>1, <1>2, <1>3 DEF DataInv, WrittenOnce, NoneQueuedTwice, Queued
<1> QED BY <1>4, <1>5 DEF DataInv

\* storageLoop takes a piece off the queue and writes it, or fails to.
LEMMA StorageData == MInv /\ (StorageWrite \/ StorageWriteFails) => DataInv'
<1> SUFFICES ASSUME MInv, StorageWrite \/ StorageWriteFails PROVE DataInv'
  OBVIOUS
<1> DEFINE h == Head(storageCh)
<1>1. IInv /\ DataInv /\ DataTypes
  BY TypeGroups DEF MInv
<1>2. /\ storageCh # <<>> /\ storageCh' = Tail(storageCh)
      /\ disk' = disk \cup {h} \/ disk' = disk
      /\ UNCHANGED <<pieceBufs, doneClosed, loopVars>>
  BY DEF StorageWrite, StorageWriteFails
<1>3. InState("completed")' = InState("completed") /\ UNCHANGED <<pieceCompleted, completed>>
  BY <1>1, PickerUntouched, PickerQuiet
<1>4. storageCh \in Seq(Pieces) /\ Distinct(storageCh)
      /\ Queued = Elems(storageCh) /\ Queued' = Elems(storageCh')
  BY <1>1 DEF DataTypes, DataInv, NoneQueuedTwice, Distinct, Queued, Elems
<1>5. h \in Queued /\ Queued' = Queued \ {h} /\ Distinct(storageCh')
      /\ Len(storageCh') = Len(storageCh) - 1
  BY <1>2, <1>4, TailDistinct
<1> HIDE DEF h
<1>6. Cardinality(Queued') = Cardinality(Queued) - 1
  BY <1>1, <1>5, QueuedFinite, FS_RemoveElement
<1>7. WrittenOnce'
  <2>1. Cardinality(Queued') = Len(storageCh')
    BY <1>1, <1>5, <1>6 DEF DataInv, WrittenOnce
  <2>2. Queued' \cap disk' = {} /\ Queued' \cup disk' \subseteq pieceCompleted'
    BY <1>1, <1>2, <1>3, <1>5 DEF DataInv, WrittenOnce
  <2> QED BY <2>1, <2>2 DEF WrittenOnce
<1>8. NoneQueuedTwice'
  BY <1>5 DEF NoneQueuedTwice, Distinct
<1>9. Queued' \cup disk' \subseteq Queued \cup disk
  BY <1>2, <1>5
<1>10. VerifyingIsNew'
  BY <1>1, <1>2, <1>3, <1>9 DEF DataInv, VerifyingIsNew, loopVars
<1>11. CompletedIsBuffered' /\ FoundDoneOnce' /\ DoneClosedOnce'
  BY <1>1, <1>2, <1>3 DEF DataInv, CompletedIsBuffered, FoundDoneOnce, DoneClosedOnce, loopVars
<1> QED BY <1>7, <1>8, <1>10, <1>11 DEF DataInv

\* Every step keeps the part of the invariant about the data.
LEMMA NextData == MInv /\ [ManagerStep]_stepVars => DataInv'
<1> SUFFICES ASSUME MInv, [ManagerStep]_stepVars PROVE DataInv'
  OBVIOUS
<1>1. IInv /\ StateTypeOK /\ DataInv
  BY DEF MInv
<1> DEFINE DataKept ==
        UNCHANGED <<pieceBufs, storageCh, disk, doneClosed, torrentDone, verifying>>
<1>2. ASSUME UNCHANGED pickerVars, DataKept, pc' = "verify" => pc = "verify"
      PROVE  DataInv'
  BY <1>1, <1>2, PickerQuiet, DataFrame
<1>3. CASE StartOk \/ StartFails \/ SelectDone \/ HandleOther
  BY <1>2, <1>3, PickerUntouched
     DEF StartOk, StartFails, SelectDone, HandleOther, Goto, dataVars
<1>4. CASE HandleDropped
  <2>1. DataKept /\ pc' # "verify"
    BY <1>4 DEF HandleDropped, Goto, dataVars
  <2> QED BY <1>2, <1>4, <2>1, PickerUntouched
<1>5. CASE PipelineBegin \/ PipelineEnd \/ \E c \in Clients : PipelineVisit(c)
  BY <1>2, <1>5, PickerUntouched DEF PipelineBegin, PipelineEnd, PipelineVisit, Goto, dataVars
<1>6. CASE AddPeerDrain \/ AddPeerEnd
  BY <1>2, <1>6, PickerUntouched DEF AddPeerDrain, AddPeerEnd, loopVars, dataVars
<1>7. ASSUME NEW c \in Clients, Client(c) PROVE DataInv'
  <2>1. UNCHANGED <<loopVars, dataVars>>
    BY <1>7 DEF Client, ReadBitfield, ReadHave, ReadChoke, ReadPiece, ReadError, ReadAborted,
         TickerStall, ClientCloses, Forward
  <2> QED BY <1>2, <1>7, <2>1, PickerUntouched DEF loopVars, dataVars
<1>8. CASE StorageOpen("run") \/ StorageOpen("exited") \/ StorageExit \/ DownloadReturns
  BY <1>2, <1>8, PickerUntouched DEF StorageOpen, StorageExit, DownloadReturns, loopVars
<1>9. CASE UNCHANGED stepVars
  BY <1>2, <1>9 DEF stepVars, managerVars, loopVars, dataVars
<1>10. ASSUME DataKept, pc' = "verify" => pc = "verify",
              \/ \E a : RegisterPeer(a) \/ UnregisterPeer(a) \/ NextBlockNone(a)
              \/ \E a, S : Learn(a, S)
              \/ \E a, b : NextBlock(a, b)
              \/ \E S : MarkFailed(S)
              \/ GetStalledRequests
              \/ \E b : RequestAges(b)
       PROVE  DataInv'
  <2>1. InState("completed")' = InState("completed") /\ UNCHANGED <<pieceCompleted, completed>>
    BY <1>1, <1>10, PickerQuiet
  <2> QED BY <1>1, <1>10, <2>1, DataFrame
<1>11. ASSUME NEW c \in Clients, AddPeerBegin(c) PROVE DataInv'
  BY <1>10, <1>11 DEF AddPeerBegin, loopVars, dataVars
<1>12. CASE SelectTicker
  BY <1>10, <1>12 DEF SelectTicker, Goto, dataVars
<1>13. CASE RemovePeerEnd
  BY <1>10, <1>13 DEF RemovePeerEnd, dataVars
<1>14. CASE HandleTimeout \/ HandleBitfield \/ HandleHave
  BY <1>10, <1>14 DEF HandleTimeout, HandleBitfield, HandleHave, UpdatePeerBitfield,
       UpdatePeerHave, Goto, dataVars
<1>15. ASSUME NEW c \in Clients, NEW b \in Blocks, PipelineRequest(c, b) PROVE DataInv'
  BY <1>10, <1>15 DEF PipelineRequest, loopVars, dataVars
<1>16. ASSUME NEW c \in Clients, PipelineLeave(c) PROVE DataInv'
  BY <1>2, <1>10, <1>16 DEF PipelineLeave, dataVars
<1>17. ASSUME NEW b \in Blocks, RequestExpires(b) PROVE DataInv'
  BY <1>10, <1>17 DEF RequestExpires, managerVars, loopVars, dataVars
<1> QED BY <1>3, <1>4, <1>5, <1>6, <1>7, <1>8, <1>9, <1>11, <1>12, <1>13, <1>14, <1>15, <1>16,
           <1>17, HandlePieceData, WritePieceData, RevertPieceData, StorageData
        DEF ManagerStep, EventLoop

\* NewTorrentManager gives a state that satisfies the invariant.
LEMMA InitMInv == Init => MInv
<1> SUFFICES ASSUME Init PROVE MInv
  OBVIOUS
<1>1. IInv /\ StateTypeOK /\ process \in {"run", "exited"}
  BY InitIInv, InitTypes DEF Init
<1>2. PeersInv
  BY DEF Init, PickerInit, PeersInv, RegisteredIsActive, Registered
<1>3. InState("completed") = {} /\ Queued = {}
  BY DEF Init, PickerInit, InState, Queued
<1>4. Cardinality({}) = 0
  BY FS_EmptySet
<1>5. WrittenOnce
  BY <1>3, <1>4 DEF Init, WrittenOnce
<1>6. DataInv
  BY <1>3, <1>5 DEF Init, DataInv, CompletedIsBuffered, VerifyingIsNew, FoundDoneOnce,
       DoneClosedOnce, NoneQueuedTwice
<1> QED BY <1>1, <1>2, <1>6 DEF MInv

----------------------------------------------------------------------------
(* The theorems *)

\* The invariant holds in every reachable state.
LEMMA AlwaysMInv == ManagerSpec => []MInv
<1>1. MInv /\ [ManagerNext]_vars => MInv'
  BY StepOrNone, NextPicker, NextTypes, NextPeers, NextData DEF MInv
<1> QED BY <1>1, InitMInv, PTL DEF ManagerSpec

\* InMessages, storageCh and the request pipelines stay within their capacity, and
\* verifyAndWritePiece never meets a completed block whose data is missing.
THEOREM ManagerSafe == ManagerSpec => []ManagerInv
<1>1. MInv => ManagerTypeOK
  BY DEF MInv, ManagerTypeOK, StateTypeOK, ClientTypes, LockTypes, QueueTypes, LoopTypes,
         DataTypes
<1>2. MInv => ManagerInv
  BY <1>1 DEF MInv, ManagerInv, DataInv
<1> QED BY <1>2, AlwaysMInv, PTL

\* The manager never breaks the picker: used from the event loop and from AddPeer,
\* its counters, flags, owners and availabilities stay right.
THEOREM ManagerKeepsPicker == ManagerSpec => [](TypeOK /\ Safety)
<1>1. MInv => TypeOK /\ Safety
  BY DEF MInv, IInv
<1> QED BY <1>1, AlwaysMInv, PTL

\* doneCh is closed at most once; a second close would panic.
THEOREM ManagerClosesOnce == ManagerSpec => []DoneClosedOnce
<1>1. MInv => DoneClosedOnce
  BY DEF MInv, DataInv
<1> QED BY <1>1, AlwaysMInv, PTL

\* No piece reaches storageLoop twice, and every one that does is finished.
THEOREM ManagerWritesOnce == ManagerSpec => []WrittenOnce
<1>1. MInv => WrittenOnce
  BY DEF MInv, DataInv
<1> QED BY <1>1, AlwaysMInv, PTL

\* Only active peers, and the one being removed, are registered with the picker.
THEOREM ManagerPeers == ManagerSpec => []RegisteredIsActive
<1>1. MInv => RegisteredIsActive
  BY DEF MInv, PeersInv
<1> QED BY <1>1, AlwaysMInv, PTL

----------------------------------------------------------------------------
(* The contract, when peers send what was asked for and the disk works *)

GoodMessages == {m \in Messages : m.id = "piece" => m.data = "good"}

\* A finished piece has been handed over, or is just being verified.
GoodInv ==
    /\ InMessages \in Seq(GoodMessages)
    /\ \A b \in Blocks : pieceBufs[b] # "bad"
    /\ pieceCompleted = Queued \cup disk \cup (IF pc = "verify" THEN {verifying} ELSE {})
    /\ session = "waiting" \/ (session = "ok" /\ doneClosed > 0)

\* A step that touches nothing GoodInv speaks of but the queue of messages.
LEMMA GoodFrame ==
    ASSUME GoodInv, InMessages' \in Seq(GoodMessages), pieceCompleted' = pieceCompleted,
           UNCHANGED <<pieceBufs, storageCh, disk, session, doneClosed, verifying>>,
           pc' = "verify" <=> pc = "verify"
    PROVE  GoodInv' /\ UNCHANGED <<Queued \cup disk, session>>
  BY DEF GoodInv, Queued

\* A receive leaves good messages.
LEMMA GoodReceived ==
    ASSUME GoodInv, NEW id, Receives(id)
    PROVE  InMessages' \in Seq(GoodMessages) /\ Head(InMessages) \in GoodMessages
<1>1. InMessages \in Seq(GoodMessages) /\ InMessages # <<>> /\ InMessages' = Tail(InMessages)
  BY DEF GoodInv, Receives
<1> QED BY <1>1, HeadTailProperties

\* A client that sends no corrupt block sends only good messages.
LEMMA GoodForwarded ==
    ASSUME ~Corrupt, GoodInv, NEW c \in Clients, Client(c)
    PROVE  InMessages' \in Seq(GoodMessages)
<1>1. AddressOf[c] \in Peers /\ Has[c] \in SUBSET Pieces
  BY ManagerAssumption
<1>2. ASSUME NEW m \in GoodMessages, Forward(c, m) PROVE InMessages' \in Seq(GoodMessages)
  <2>1. InMessages \in Seq(GoodMessages) /\ InMessages' = Append(InMessages, m)
    BY <1>2 DEF Forward, GoodInv
  <2> QED BY <2>1, AppendProperties
<1>3. CASE ReadBitfield(c)
  <2>1. Bitfield(AddressOf[c], Has[c]) \in GoodMessages
    BY <1>1, MessagesMade DEF GoodMessages, Bitfield
  <2> QED BY <1>2, <1>3, <2>1 DEF ReadBitfield
<1>4. ASSUME NEW p \in Haves, ReadHave(c, p) PROVE InMessages' \in Seq(GoodMessages)
  <2>1. Have(AddressOf[c], p) \in GoodMessages
    BY <1>1, MessagesMade DEF GoodMessages, Have
  <2> QED BY <1>2, <1>4, <2>1 DEF ReadHave
<1>5. CASE ReadChoke(c, TRUE) \/ ReadChoke(c, FALSE)
  <2>1. Other(AddressOf[c]) \in GoodMessages
    BY <1>1, MessagesMade DEF GoodMessages, Other
  <2> QED BY <1>2, <1>5, <2>1 DEF ReadChoke
<1>6. ASSUME NEW b \in Blocks, NEW q \in Qualities, ReadPiece(c, b, q)
      PROVE  InMessages' \in Seq(GoodMessages)
  <2>1. q = "good"
    BY DEF Qualities
  <2>2. Piece(AddressOf[c], b, q) \in GoodMessages
    BY <1>1, <2>1, MessagesMade DEF GoodMessages, Piece
  <2> QED BY <1>2, <1>6, <2>2 DEF ReadPiece
<1>7. CASE ReadError(c)
  <2>1. Dropped(AddressOf[c]) \in GoodMessages
    BY <1>1, MessagesMade DEF GoodMessages, Dropped
  <2> QED BY <1>2, <1>7, <2>1 DEF ReadError
<1>8. CASE ReadAborted(c) \/ ClientCloses(c)
  BY <1>8 DEF ReadAborted, ClientCloses, GoodInv
<1>9. ASSUME NEW b \in Blocks, TickerStall(c, b) PROVE InMessages' \in Seq(GoodMessages)
  <2>1. Timeout(AddressOf[c], b) \in GoodMessages
    BY <1>1, MessagesMade DEF GoodMessages, Timeout
  <2> QED BY <1>2, <1>9, <2>1 DEF TickerStall
<1> QED BY <1>3, <1>4, <1>5, <1>6, <1>7, <1>8, <1>9 DEF Client

\* Once doneCh is closed every piece has been handed over.
LEMMA DoneIsComplete ==
    ASSUME MInv, GoodInv, doneClosed > 0
    PROVE  Queued \cup disk = Pieces
<1>1. IInv /\ DataInv /\ DataTypes
  BY TypeGroups DEF MInv
<1>2. completed = TotalBlocks /\ pc # "verify"
  BY <1>1 DEF DataInv, FoundDoneOnce, VerifyingIsNew, DataTypes
<1>3. InState("completed") = Blocks
  BY <1>1, <1>2, AllCompleted
<1>4. Pieces \subseteq pieceCompleted
  BY <1>1, <1>3 DEF IInv, Safety, PieceFlagExact, BlocksOf, InState
<1> QED BY <1>1, <1>2, <1>4 DEF GoodInv, IInv, TypeOK

ContractStep == Contract!Next \/ UNCHANGED <<Queued \cup disk, session>>

\* The arrival of a block hands nothing over yet.
LEMMA HandlePieceGood ==
    ASSUME MInv, GoodInv, HandlePiece
    PROVE  GoodInv' /\ UNCHANGED <<Queued \cup disk, session>>
<1> DEFINE b == Head(InMessages).block
<1>1. IInv /\ DataInv /\ StateTypeOK /\ DataTypes
  BY TypeGroups DEF MInv
<1>2. InMessages' \in Seq(GoodMessages) /\ Head(InMessages) \in GoodMessages
      /\ Head(InMessages).id = "piece" /\ pc = "select"
  BY GoodReceived DEF HandlePiece, Receives
<1>3. Head(InMessages).data = "good" /\ b \in Blocks
  BY <1>2, MessageParts DEF GoodMessages
<1>4. UNCHANGED <<storageCh, disk, session>>
      /\ pieceBufs' = [pieceBufs EXCEPT ![b] = Head(InMessages).data]
  BY DEF HandlePiece
<1>5. Queued' = Queued
  BY <1>4 DEF Queued
<1>6. \A c \in Blocks : pieceBufs'[c] # "bad"
  BY <1>1, <1>3, <1>4 DEF GoodInv, DataTypes
<1>7. doneClosed' \in {doneClosed, doneClosed + 1} /\ doneClosed \in Nat
  BY <1>1 DEF HandlePiece, DataTypes
<1>8. MarkCompleted(b, Head(InMessages).from)
  BY DEF HandlePiece
<1>9. pieceCompleted' = Queued \cup disk \cup (IF pc' = "verify" THEN {verifying'} ELSE {})
  <2>1. pieceCompleted = Queued \cup disk
    BY <1>2 DEF GoodInv
  <2>2. CASE PieceDone(b)
    <3>1. pieceCompleted' = pieceCompleted \cup {b[1]}
      BY <1>8, <2>2 DEF MarkCompleted, PieceDone
    <3>2. pc' = "verify" /\ verifying' = b[1]
      BY <2>2 DEF HandlePiece
    <3> QED BY <2>1, <3>1, <3>2
  <2>3. CASE ~PieceDone(b)
    <3>1. pieceCompleted' = pieceCompleted
      BY <1>8, <2>3 DEF MarkCompleted, pickerVars
    <3>2. pc' = "pipeline"
      BY <2>3 DEF HandlePiece, Goto
    <3> QED BY <2>1, <3>1, <3>2
  <2> QED BY <2>2, <2>3
<1> QED BY <1>2, <1>4, <1>5, <1>6, <1>7, <1>9 DEF GoodInv

\* A verified piece is accepted; nothing is ever found wrong with one.
LEMMA VerifyGood ==
    ASSUME MInv, GoodInv, WritePiece \/ RevertPiece
    PROVE  GoodInv' /\ ContractStep
<1>1. IInv /\ DataInv /\ StateTypeOK /\ DataTypes
  BY TypeGroups DEF MInv
<1>2. /\ pc = "verify" /\ pc' = "pipeline" /\ ForgetBufs(verifying)
      /\ UNCHANGED <<InMessages, disk, session>>
      /\ doneClosed' \in {doneClosed, doneClosed + 1} /\ doneClosed \in Nat
  BY <1>1 DEF WritePiece, RevertPiece, CloseIfDone, DataTypes
<1>3. verifying \in pieceCompleted /\ verifying \notin Queued \cup disk /\ doneClosed = 0
      /\ verifying \in Pieces
  BY <1>1, <1>2 DEF DataInv, VerifyingIsNew, IInv, TypeOK
<1>4. DataOf(verifying) = {"good"}
  <2>1. ASSUME NEW b \in BlocksOf(verifying) PROVE pieceBufs[b] = "good"
    <3>1. b \in Blocks /\ b[1] = verifying /\ b \in InState("completed")
      BY <1>1, <1>3 DEF BlocksOf, IInv, Safety, PieceFlagExact, InState
    <3>2. pieceBufs[b] # "none" /\ pieceBufs[b] # "bad"
      BY <1>1, <1>2, <3>1 DEF DataInv, CompletedIsBuffered, GoodInv
    <3> QED BY <1>1, <3>1, <3>2 DEF DataTypes
  <2>2. <<verifying, 0>> \in BlocksOf(verifying)
    BY <1>3, PieceHasBlock
  <2> QED BY <2>1, <2>2 DEF DataOf
<1>5. WritePiece
  BY <1>4 DEF RevertPiece
<1>6. storageCh' = Append(storageCh, verifying) /\ UNCHANGED pickerVars
  BY <1>5 DEF WritePiece
<1>7. Queued' = Queued \cup {verifying}
  <2>1. storageCh \in Seq(Pieces) /\ Distinct(storageCh)
        /\ Queued = Elems(storageCh) /\ Queued' = Elems(storageCh')
    BY <1>1 DEF DataTypes, DataInv, NoneQueuedTwice, Distinct, Queued, Elems
  <2> QED BY <1>3, <1>6, <2>1, AppendDistinct
<1>8. GoodInv'
  <2>1. \A b \in Blocks : pieceBufs'[b] # "bad"
    BY <1>2 DEF ForgetBufs, GoodInv
  <2>2. pieceCompleted' = Queued' \cup disk'
    BY <1>2, <1>6, <1>7 DEF GoodInv, pickerVars
  <2> QED BY <1>2, <2>1, <2>2 DEF GoodInv
<1>9. session = "waiting"
  BY <1>3 DEF GoodInv
<1>10. (Queued \cup disk)' = (Queued \cup disk) \cup {verifying}
  BY <1>2, <1>7
<1>11. Contract!Accept
  BY <1>2, <1>3, <1>9, <1>10 DEF Contract!Accept
<1> QED BY <1>8, <1>11 DEF ContractStep, Contract!Next

\* storageLoop moves pieces from the queue to the disk.
LEMMA StorageGood ==
    ASSUME MInv, GoodInv, StorageWrite
    PROVE  GoodInv' /\ UNCHANGED <<Queued \cup disk, session>>
<1>1. DataInv /\ DataTypes
  BY TypeGroups DEF MInv
<1>2. storageCh \in Seq(Pieces) /\ Distinct(storageCh)
      /\ Queued = Elems(storageCh) /\ Queued' = Elems(storageCh')
  BY <1>1 DEF DataTypes, DataInv, NoneQueuedTwice, Distinct, Queued, Elems
<1>3. storageCh # <<>> /\ storageCh' = Tail(storageCh)
      /\ disk' = disk \cup {Head(storageCh)}
  BY DEF StorageWrite
<1>4. Head(storageCh) \in Queued /\ Queued' = Queued \ {Head(storageCh)}
  BY <1>2, <1>3, TailDistinct
<1>5. (Queued \cup disk)' = Queued \cup disk
  BY <1>3, <1>4
<1> QED BY <1>5 DEF StorageWrite, GoodInv, loopVars, pickerVars

\* Every step keeps GoodInv, and is a step of the contract or changes nothing the
\* contract speaks of.
LEMMA NextGood ==
    ASSUME ~Corrupt, ~DiskFaults, MInv, GoodInv, [ManagerStep]_stepVars
    PROVE  GoodInv' /\ ContractStep
<1>1. IInv /\ StateTypeOK /\ DataInv
  BY DEF MInv
<1> DEFINE Kept == UNCHANGED <<pieceBufs, storageCh, disk, session, doneClosed, verifying>>
<1>2. ASSUME InMessages' \in Seq(GoodMessages), pieceCompleted' = pieceCompleted, Kept,
             pc' = "verify" <=> pc = "verify"
      PROVE  GoodInv' /\ ContractStep
  BY <1>2, GoodFrame DEF ContractStep
<1>3. ASSUME InMessages' = InMessages PROVE InMessages' \in Seq(GoodMessages)
  BY <1>3 DEF GoodInv
<1>4. ASSUME \/ UNCHANGED pickerVars
             \/ \E a : RegisterPeer(a) \/ UnregisterPeer(a) \/ NextBlockNone(a)
             \/ \E a, S : Learn(a, S)
             \/ \E a, b : NextBlock(a, b)
             \/ \E S : MarkFailed(S)
             \/ GetStalledRequests
             \/ \E b : RequestAges(b)
      PROVE  pieceCompleted' = pieceCompleted
  BY <1>1, <1>4, PickerQuiet
<1>5. CASE StartOk \/ SelectDone \/ PipelineBegin \/ PipelineEnd
           \/ \E c \in Clients : PipelineVisit(c)
  BY <1>2, <1>3, <1>4, <1>5 DEF StartOk, SelectDone, PipelineBegin, PipelineEnd,
       PipelineVisit, Visiting, Goto, dataVars
<1>6. CASE SelectTicker
  BY <1>2, <1>3, <1>4, <1>6 DEF SelectTicker, Goto, dataVars
<1>7. CASE HandleDropped
  <2>1. pieceCompleted' = pieceCompleted
    BY <1>4, <1>7, PickerUntouched
  <2>2. Kept /\ pc = "select" /\ pc' # "verify"
    BY <1>7 DEF HandleDropped, Receives, Goto, dataVars
  <2>3. InMessages' \in Seq(GoodMessages)
    BY <1>7, GoodReceived DEF HandleDropped
  <2> QED BY <1>2, <2>1, <2>2, <2>3
<1>8. CASE RemovePeerEnd
  BY <1>2, <1>3, <1>4, <1>8 DEF RemovePeerEnd, dataVars
<1>9. CASE HandleTimeout \/ HandleBitfield \/ HandleHave \/ HandleOther
  <2>1. InMessages' \in Seq(GoodMessages)
    BY <1>9, GoodReceived DEF HandleTimeout, HandleBitfield, HandleHave, HandleOther
  <2>2. pieceCompleted' = pieceCompleted
    BY <1>4, <1>9 DEF HandleTimeout, HandleBitfield, HandleHave, HandleOther,
         UpdatePeerBitfield, UpdatePeerHave
  <2>3. Kept /\ pc = "select" /\ pc' = "pipeline"
    BY <1>9 DEF HandleTimeout, HandleBitfield, HandleHave, HandleOther, Receives, Goto, dataVars
  <2> QED BY <1>2, <2>1, <2>2, <2>3
<1>10. CASE HandlePiece
  BY <1>10, HandlePieceGood DEF ContractStep
<1>11. CASE WritePiece \/ RevertPiece
  BY <1>11, VerifyGood
<1>12. ASSUME NEW c \in Clients, PipelineLeave(c) PROVE GoodInv' /\ ContractStep
  <2>1. pieceCompleted' = pieceCompleted
    BY <1>4, <1>12 DEF PipelineLeave
  <2> QED BY <1>2, <1>3, <1>12, <2>1 DEF PipelineLeave, dataVars
<1>13. ASSUME NEW c \in Clients, NEW b \in Blocks, PipelineRequest(c, b)
       PROVE  GoodInv' /\ ContractStep
  BY <1>2, <1>3, <1>4, <1>13 DEF PipelineRequest, loopVars, dataVars
<1>14. ASSUME NEW c \in Clients, AddPeerBegin(c) PROVE GoodInv' /\ ContractStep
  BY <1>2, <1>3, <1>4, <1>14 DEF AddPeerBegin, loopVars, dataVars
<1>15. CASE AddPeerDrain
  <2>1. AddressOf[adding] \in Peers
    BY <1>1, <1>15, ManagerAssumption DEF AddPeerDrain, StateTypeOK, LockTypes
  <2>2. Other(AddressOf[adding]) \in GoodMessages
    BY <2>1, MessagesMade DEF GoodMessages, Other
  <2>3. InMessages' \in Seq(GoodMessages)
    BY <1>15, <2>2, AppendProperties DEF AddPeerDrain, GoodInv
  <2> QED BY <1>2, <1>4, <1>15, <2>3 DEF AddPeerDrain, loopVars, dataVars
<1>16. CASE AddPeerEnd
  BY <1>2, <1>3, <1>4, <1>16 DEF AddPeerEnd, loopVars, dataVars
<1>17. ASSUME NEW c \in Clients, Client(c) PROVE GoodInv' /\ ContractStep
  <2>1. UNCHANGED <<pickerVars, loopVars, dataVars>>
    BY <1>17 DEF Client, ReadBitfield, ReadHave, ReadChoke, ReadPiece, ReadError,
         ReadAborted, TickerStall, ClientCloses, Forward
  <2>2. InMessages' \in Seq(GoodMessages)
    BY <1>17, GoodForwarded
  <2> QED BY <1>2, <1>4, <2>1, <2>2 DEF loopVars, dataVars
<1>18. CASE StorageOpen("run") \/ StorageExit
  BY <1>2, <1>3, <1>4, <1>18 DEF StorageOpen, StorageExit, loopVars
<1>19. CASE StorageWrite
  BY <1>19, StorageGood DEF ContractStep
<1>20. CASE DownloadReturns
  <2>1. Queued \cup disk = Pieces
    BY <1>20, DoneIsComplete DEF DownloadReturns
  <2>2. (Queued \cup disk)' = Queued \cup disk
    BY <1>20 DEF DownloadReturns, Queued
  <2>3. GoodInv'
    BY <1>20, <2>2 DEF DownloadReturns, GoodInv, pickerVars, loopVars
  <2>4. Contract!Succeed
    BY <1>20, <2>1, <2>2 DEF Contract!Succeed, DownloadReturns
  <2> QED BY <2>3, <2>4 DEF ContractStep, Contract!Next
<1>21. ASSUME NEW b \in Blocks, RequestExpires(b) PROVE GoodInv' /\ ContractStep
  BY <1>2, <1>3, <1>4, <1>21 DEF RequestExpires, managerVars, loopVars, dataVars
<1>22. CASE UNCHANGED stepVars
  BY <1>2, <1>3, <1>4, <1>22 DEF stepVars, managerVars, loopVars, dataVars
<1> QED BY <1>5, <1>6, <1>7, <1>8, <1>9, <1>10, <1>11, <1>12, <1>13, <1>14, <1>15, <1>16,
           <1>17, <1>18, <1>19, <1>20, <1>21, <1>22
        DEF ManagerStep, EventLoop, StartFails, StorageWriteFails

\* As long as peers send what was asked for and the disk works, the manager
\* implements the contract of a download: Download reports success only when every
\* piece was verified and handed to storageLoop, each once.
THEOREM ManagerImplementsContract ==
    ASSUME ~Corrupt, ~DiskFaults
    PROVE  ManagerSpec => KeepsContract
<1>1. Init => GoodInv /\ Contract!Init
  <2> SUFFICES ASSUME Init PROVE GoodInv /\ Contract!Init
    OBVIOUS
  <2>1. Queued \cup disk = {}
    BY DEF Init, Queued
  <2> QED BY <2>1 DEF Init, PickerInit, GoodInv, Contract!Init
<1>2. MInv /\ GoodInv /\ [ManagerNext]_vars => GoodInv' /\ [Contract!Next]_(Contract!vars)
  BY StepOrNone, NextGood DEF ContractStep, Contract!vars
<1> QED BY <1>1, <1>2, AlwaysMInv, PTL DEF ManagerSpec, KeepsContract, Contract!Spec
=============================================================================
