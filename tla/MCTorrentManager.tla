-------------------------- MODULE MCTorrentManager --------------------------
(* TorrentManager for TLC. *)
EXTENDS TorrentManager, TLC

CONSTANTS c1, c2, a1

\* One peer, connected twice: it is dialed again while or after it is active.
Redialed == c1 :> a1 @@ c2 :> a1
\* One connection.
OnePeer == c1 :> a1

NoneBuffered == [c \in Clients |-> 0]
OneBuffered == [c \in Clients |-> 1]
\* More messages than InMessages has room for.
TwoBuffered == [c \in Clients |-> 2]

\* Two connections of one peer are alike.
ClientSymmetry == Permutations(Clients)

AllHaveAll == [c \in Clients |-> Pieces]
=============================================================================
