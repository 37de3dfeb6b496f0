------------------------------- MODULE MCTcp -------------------------------
(* DaapTcp on a small instance, for TLC.                                    *)
EXTENDS DaapTcp, TLC

Symmetry == Permutations(Threads) \cup Permutations(Lines)
=============================================================================
