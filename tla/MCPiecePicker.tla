--------------------------- MODULE MCPiecePicker ---------------------------
(* PiecePicker for TLC: the peers are interchangeable. *)
EXTENDS PiecePicker, TLC

PeerSymmetry == Permutations(Peers)
=============================================================================
