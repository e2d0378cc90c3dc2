------------------------- MODULE ExclusiveExecution -------------------------
(***************************************************************************)
(* What exclusive_execution promises, without locks, channels or tables:   *)
(* "All parallel chains should be paused while executing this chain".      *)
(***************************************************************************)
CONSTANT Workers

VARIABLES shared,  \* workers executing an ordinary chain
          alone    \* workers executing an exclusive chain

Init == shared = {} /\ alone = {}

\* An ordinary chain may start unless an exclusive one executes.
StartShared(w) == /\ alone = {}
                  /\ w \notin shared
                  /\ shared' = shared \cup {w}
                  /\ UNCHANGED alone

\* An exclusive chain may start when nothing executes.
StartAlone(w) == /\ alone = {} /\ shared = {}
                 /\ alone' = {w}
                 /\ UNCHANGED shared

Finish(w) == /\ w \in shared \cup alone
             /\ shared' = shared \ {w}
             /\ alone' = alone \ {w}

Next == \E w \in Workers : StartShared(w) \/ StartAlone(w) \/ Finish(w)

Spec == Init /\ [][Next]_<<shared, alone>>
=============================================================================
