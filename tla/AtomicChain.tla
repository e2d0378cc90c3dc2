---------------------------- MODULE AtomicChain ----------------------------
(***************************************************************************)
(* What a chain promises, without savepoints, roles, parameter sets that   *)
(* fail or connections that are lost: its transaction takes effect once and *)
(* whole or not at all, and the chain deletes itself only after a success. *)
(***************************************************************************)
EXTENDS Naturals

VARIABLES
    tasks,         \* the tasks of the chain
    selfDestruct,  \* the chain has self_destruct
    failed,        \* tasks that returned an error
    cut,           \* tasks under which a context ended
    state,         \* "running", "succeeded", "failed" or "over"
    durable,       \* committed statements <<task, number>>
    deleted        \* the chain has been deleted

atomVars == <<tasks, selfDestruct, failed, cut, state, durable, deleted>>

Init ==
    /\ failed = {} /\ cut = {} /\ durable = {}
    /\ state = "running"
    /\ deleted = FALSE

\* All that some tasks do in the transaction.
Effects(T) == UNION {{<<i, s>> : s \in 1..tasks[i].sets} : i \in {j \in T : tasks[j].kind = "local"}}

\* A task returns an error: one that must not fail ends the chain.
TaskFails(i) ==
    /\ state = "running" /\ i \in DOMAIN tasks \ failed
    /\ failed' = failed \cup {i}
    /\ state' = IF tasks[i].ignoreError THEN "running" ELSE "failed"
    /\ UNCHANGED <<tasks, selfDestruct, cut, durable, deleted>>

\* A STOP or a timeout during a task.
ContextEnds(i) ==
    /\ state = "running" /\ i \in DOMAIN tasks
    /\ cut' = cut \cup {i}
    /\ UNCHANGED <<tasks, selfDestruct, failed, state, durable, deleted>>

\* All of the tasks that succeeded, nothing of those that failed; what a failed one has done
\* may remain if a context ended under it.
Succeed ==
    /\ state = "running" /\ state' = "succeeded"
    /\ \E left \in SUBSET Effects(failed \cap cut) :
          durable' = Effects(DOMAIN tasks \ failed) \cup left
    /\ UNCHANGED <<tasks, selfDestruct, failed, cut, deleted>>

\* COMMIT is refused, and nobody but the log gets to know.
SucceedInVain ==
    /\ state = "running" /\ state' = "succeeded"
    /\ UNCHANGED <<tasks, selfDestruct, failed, cut, durable, deleted>>

\* "Self destruct the chain after successful execution" (docs/components.md).
SelfDestruct ==
    /\ state = "succeeded" /\ state' = "over"
    /\ deleted' = selfDestruct
    /\ UNCHANGED <<tasks, selfDestruct, failed, cut, durable>>

Next ==
    \/ \E i \in DOMAIN tasks : TaskFails(i) \/ ContextEnds(i)
    \/ Succeed \/ SucceedInVain \/ SelfDestruct

Spec == Init /\ [][Next]_atomVars
=============================================================================
