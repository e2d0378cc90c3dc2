-------------------------- MODULE MCClientSession --------------------------
(* Instances of ClientSession for TLC.                                     *)
EXTENDS ClientSession

CONSTANTS first, second, worker001

MCClientName == [p \in Clients |-> worker001]
=============================================================================
