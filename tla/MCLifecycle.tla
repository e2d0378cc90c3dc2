---------------------------- MODULE MCLifecycle ----------------------------
(* Two runs of the program, the first with somebody who uses its REST server. *)
EXTENDS Lifecycle

CONSTANTS p1, p2

MCProcs == {p1, p2}
MCAsked == {p1}
=============================================================================
