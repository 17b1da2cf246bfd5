------------------------------ MODULE MCGroups ------------------------------
(* Groups for TLC.                                                         *)
EXTENDS Groups, TLC

Symmetric == Permutations(Threads) \cup Permutations(Vars)
=============================================================================
