-------------------------- MODULE MCConnectionPool --------------------------
(* Two workers, one goroutine with statements of its own, and run.          *)
EXTENDS ConnectionPool

CONSTANTS w1, w2, c1

MCWorkers == {w1, w2}
MCClerks == {c1}
=============================================================================
