--------------------------- MODULE PieceGeometry ---------------------------
(***************************************************************************)
(* How a torrent of TotalLength bytes is cut into pieces and the pieces    *)
(* into blocks.  The same arithmetic is written out in NewPiecePicker,     *)
(* verifyAndWritePiece, revertPiece, ConcurrentFile, File, DownloadPiece   *)
(* and LoadPieces; every module of this project takes it from here.        *)
(*                                                                         *)
(* A block is the pair <<piece index, block number>>.  The code keys it by *)
(* <<piece index, byte offset>>; BlockBegin maps the one to the other and  *)
(* is injective, as BlockSize is positive.                                 *)
(***************************************************************************)
EXTENDS Integers, FiniteSets

CONSTANTS TotalLength,   \* bytes in the torrent
          PieceLength,   \* bytes in every piece but the last
          BlockSize      \* bytes in a request; 16384 in the code

ASSUME GeometryAssumption ==
    /\ TotalLength \in Nat
    /\ PieceLength \in Nat \ {0}
    /\ BlockSize \in Nat \ {0}

CeilDiv(n, d) == (n + d - 1) \div d

TotalPieces == CeilDiv(TotalLength, PieceLength)

Pieces == 0 .. (TotalPieces - 1)

\* The last piece is what the others leave.
PieceLen(p) ==
    IF p = TotalPieces - 1 THEN TotalLength - p * PieceLength ELSE PieceLength

NumBlocks(p) == CeilDiv(PieceLen(p), BlockSize)

MaxBlocks == CeilDiv(PieceLength, BlockSize)

BlockBegin(n) == n * BlockSize

BlockLength(p, n) ==
    IF BlockBegin(n) + BlockSize > PieceLen(p)
    THEN PieceLen(p) - BlockBegin(n)
    ELSE BlockSize

Blocks == {b \in Pieces \X (0 .. MaxBlocks - 1) : b[2] < NumBlocks(b[1])}

BlocksOf(p) == {b \in Blocks : b[1] = p}

TotalBlocks == Cardinality(Blocks)

\* Block coordinates as a message can carry them: one piece index past the
\* last and one offset past the end of a piece are included.
WireBlocks == (0 .. TotalPieces) \X (0 .. MaxBlocks)
=============================================================================
