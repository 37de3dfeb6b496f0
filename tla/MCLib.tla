------------------------------- MODULE MCLib -------------------------------
(* DaapLib on a small instance, for TLC.                                    *)
EXTENDS DaapLib, TLC

MCLines == LineSet
Symmetry == Permutations(Threads)
=============================================================================
