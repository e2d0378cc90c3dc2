----------------------------- MODULE MCLogHook -----------------------------
(* Instances of LogHook for TLC.                                           *)
EXTENDS LogHook

CONSTANTS main, hook

MCMaxEntries == [g \in Goroutines |-> IF g = Poll THEN 2 ELSE 3]
=============================================================================
