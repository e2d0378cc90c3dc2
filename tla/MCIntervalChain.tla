-------------------------- MODULE MCIntervalChain --------------------------
(* Instances of IntervalChain for TLC.                                     *)
EXTENDS IntervalChain, TLC

CONSTANTS c1, c2, w1, w2, f1, f2

MCSymmetry == Permutations(Workers) \cup Permutations(Fetchers) \cup Permutations(Chains)
=============================================================================
