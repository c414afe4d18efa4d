----------------------------- MODULE MCSession -----------------------------
(* Session for TLC: addresses are alike, and so are places in dialSem. *)
EXTENDS Session, TLC

Symmetry == Permutations(Addresses) \cup Permutations(Slots)
=============================================================================
