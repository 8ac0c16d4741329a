----------------------------- MODULE MCMgmtSend -----------------------------
(* MgmtSend for TLC: the futures are interchangeable.                      *)
EXTENDS MgmtSend, TLC

Symmetry == Permutations(Futures)

=============================================================================
