----------------------------- MODULE MCSession -----------------------------
(* Session for TLC.                                                        *)
EXTENDS Session, TLC

Symmetric == Permutations(Links) \cup Permutations(Listeners)
=============================================================================
