--------------------------- MODULE ChainExecution ---------------------------
(***************************************************************************)
(* The transaction of one chain: executeChain from its first task to its   *)
(* end, with the tasks' roles, savepoints, parameter sets and timeouts.    *)
(* The early returns before the first task, the run status and the on_error *)
(* handler are in Scheduler.                                               *)
(***************************************************************************)
EXTENDS Naturals, Sequences

CONSTANTS
    Tasks,     \* the tasks a chain may consist of
    MaxTasks,  \* bound on the number of tasks of a chain
    Events     \* what may go wrong in an instance

EventKinds == {"chain_done", "task_done", "sql_error", "role_error", "commit_error"}

\* "local" tasks are SQL in the chain's transaction; "outside" ones are programs, built-ins and
\* remote or autonomous SQL; sets counts the parameter sets that are not empty strings.
TaskRecord == [kind : {"local", "outside"}, ignoreError : BOOLEAN, runAs : BOOLEAN, sets : Nat]

ASSUME ChainAssumption ==
    /\ Tasks \subseteq TaskRecord
    /\ MaxTasks \in Nat
    /\ Events \subseteq EventKinds

VARIABLES
    tasks,         \* the tasks of the chain, in task_order
    selfDestruct,  \* the chain has self_destruct
    k, set,        \* the current task and its next parameter set
    pc,            \* next step
    tx,            \* the transaction, as the database sees it
    role,          \* task whose run_as the session has, or 0 for the user of the connection
    pending,       \* statements <<task, set>> that took effect in the transaction
    saved,         \* what was pending at the savepoint of the current task, if it has one
    err,           \* a statement of the current task has failed
    failed,        \* tasks that returned an error
    chainDone,     \* task during which the chain's context ended (STOP, timeout), or 0
    timedOut,      \* tasks whose own timeout passed
    durable,       \* statements that were committed
    deleted        \* the chain has been deleted

posVars   == <<k, set, pc>>
txVars    == <<tx, role, pending, saved>>
endVars   == <<durable, deleted>>
ctxVars   == <<chainDone, timedOut>>
chainVars == <<tasks, selfDestruct>>
vars == <<chainVars, posVars, txVars, err, failed, ctxVars, endVars>>

InTask == {"params", "outside", "role", "savepoint", "run", "rollback", "reset"}

Statements == UNION {{<<i, s>> : s \in 1..tasks[i].sets} : i \in DOMAIN tasks}

TypeOK ==
    /\ tasks \in Seq(Tasks) /\ Len(tasks) <= MaxTasks
    /\ selfDestruct \in BOOLEAN
    /\ k \in 1..(Len(tasks) + 1)
    /\ pc \in InTask \cup {"commit", "failed", "completed", "over"}
    /\ pc \in InTask => k <= Len(tasks) /\ set \in 1..(tasks[k].sets + 1)
    /\ tx \in {"open", "aborted", "lost", "committed", "rolledback"}
    /\ role \in 0..Len(tasks)
    /\ pending \subseteq Statements /\ durable \subseteq Statements
    /\ saved \subseteq SUBSET pending
    /\ err \in BOOLEAN
    /\ failed \subseteq 1..Len(tasks)
    /\ chainDone \in 0..Len(tasks)
    /\ timedOut \subseteq 1..Len(tasks)
    /\ deleted \in BOOLEAN

FirstStep(n) == IF n <= Len(tasks) THEN "params" ELSE "commit"

Init ==
    /\ tasks \in UNION {[1..n -> Tasks] : n \in 0..MaxTasks}
    /\ selfDestruct \in BOOLEAN
    /\ k = 1 /\ set = 1
    /\ pc = FirstStep(1)
    /\ tx = "open" /\ role = 0 /\ pending = {} /\ saved = {}
    /\ err = FALSE
    /\ failed = {}
    /\ chainDone = 0 /\ timedOut = {}
    /\ durable = {}
    /\ deleted = FALSE

Task    == tasks[k]
CtxDone == chainDone # 0 \/ k \in timedOut

\* The database answers a statement of this transaction without an error of its own.
Usable == tx = "open" /\ ~CtxDone

-----------------------------------------------------------------------------
\* Mutant: every error is ignored.
TaskReturnsIgnoring(ok) ==
    /\ failed' = IF ok THEN failed ELSE failed \cup {k}
    /\ k' = k + 1 /\ pc' = FirstStep(k + 1)
    /\ set' = 1 /\ saved' = {} /\ err' = FALSE

\* executeTask returns: the chain goes on with the next task or fails.
TaskReturns(ok) ==
    /\ failed' = IF ok THEN failed ELSE failed \cup {k}
    /\ IF ok \/ Task.ignoreError
         THEN k' = k + 1 /\ pc' = FirstStep(k + 1)
         ELSE k' = k /\ pc' = "failed"
    /\ set' = 1
    /\ saved' = {}
    /\ err' = FALSE

\* The query for the parameters runs in the chain's context, in a connection of its own.
GetChainParamValues ==
    /\ pc = "params"
    /\ \/ /\ chainDone = 0
          /\ pc' = IF Task.kind = "local" THEN "role" ELSE "outside"
          /\ UNCHANGED <<k, set, saved, err, failed>>
       \/ /\ chainDone # 0 \/ "sql_error" \in Events
          /\ TaskReturns(FALSE)
    /\ UNCHANGED <<chainVars, tx, role, pending, ctxVars, endVars>>

\* A task outside the transaction cannot disturb it.
ExecuteOutside ==
    /\ pc = "outside"
    /\ \/ ~CtxDone /\ TaskReturns(TRUE)
       \/ (CtxDone \/ "sql_error" \in Events) /\ TaskReturns(FALSE)
    /\ UNCHANGED <<chainVars, tx, role, pending, ctxVars, endVars>>

-----------------------------------------------------------------------------
(* ExecLocalSQLTask                                                        *)

\* SET ROLE; if it fails, the task returns at once, and a refused one aborts the transaction.
SetRole ==
    /\ pc = "role"
    /\ \/ /\ Task.runAs => Usable
          /\ role' = IF Task.runAs THEN k ELSE role
          /\ pc' = "savepoint"
          /\ UNCHANGED <<tx, k, set, saved, err, failed>>
       \/ /\ Task.runAs
          /\ ~Usable \/ "role_error" \in Events
          /\ tx' = IF Usable THEN "aborted" ELSE tx
          /\ TaskReturns(FALSE)
          /\ UNCHANGED role
    /\ UNCHANGED <<chainVars, pending, ctxVars, endVars>>

\* SAVEPOINT, only for a task whose error is ignored; its own failure is logged.
MustSavepoint ==
    /\ pc = "savepoint"
    /\ saved' = IF Task.ignoreError /\ Usable THEN {pending} ELSE {}
    /\ pc' = "run"
    /\ UNCHANGED <<chainVars, k, set, tx, role, pending, err, failed, ctxVars, endVars>>

\* One parameter set.  Errors are joined and the next set is tried all the same; a set that
\* cannot be parsed ends the task.
ExecuteSQLCommand ==
    /\ pc = "run"
    /\ set <= Task.sets
    /\ \/ /\ Usable
          /\ pending' = pending \cup {<<k, set>>}
          /\ set' = set + 1
          /\ UNCHANGED <<tx, err>>
       \/ /\ ~Usable \/ "sql_error" \in Events
          /\ tx' = IF Usable THEN "aborted" ELSE tx
          /\ set' = set + 1
          /\ err' = TRUE
          /\ UNCHANGED pending
       \/ /\ "sql_error" \in Events
          /\ set' = Task.sets + 1
          /\ err' = TRUE
          /\ UNCHANGED <<tx, pending>>
    /\ UNCHANGED <<chainVars, k, pc, role, saved, failed, ctxVars, endVars>>

\* Mutant: an ignored error does not go back to the savepoint.
CommandDoneNoRollback ==
    /\ pc = "run"
    /\ set > Task.sets
    /\ pc' = "reset"
    /\ UNCHANGED <<chainVars, k, set, txVars, err, failed, ctxVars, endVars>>

CommandDone ==
    /\ pc = "run"
    /\ set > Task.sets
    /\ pc' = IF err /\ Task.ignoreError THEN "rollback" ELSE "reset"
    /\ UNCHANGED <<chainVars, k, set, txVars, err, failed, ctxVars, endVars>>

\* Mutant: everything the chain has done is rolled back.
MustRollbackAll ==
    /\ pc = "rollback"
    /\ IF ~CtxDone /\ saved # {} /\ tx \in {"open", "aborted"}
         THEN tx' = "open" /\ pending' = {}
         ELSE UNCHANGED <<tx, pending>>
    /\ pc' = "reset"
    /\ UNCHANGED <<chainVars, k, set, role, err, failed, ctxVars, endVars>>
    /\ saved' = {}

\* ROLLBACK TO SAVEPOINT in the task's context; its own failure is logged.
MustRollbackToSavepoint ==
    /\ pc = "rollback"
    /\ IF ~CtxDone /\ saved # {} /\ tx \in {"open", "aborted"}
         THEN tx' = "open" /\ pending' \in saved
         ELSE UNCHANGED <<tx, pending>>
    /\ pc' = "reset"
    /\ UNCHANGED <<chainVars, k, set, role, saved, err, failed, ctxVars, endVars>>

\* Mutant: the role is reset after a success only.
ResetRoleOnSuccess ==
    /\ pc = "reset"
    /\ role' = IF Task.runAs /\ Usable /\ ~err THEN 0 ELSE role
    /\ TaskReturns(~err)
    /\ UNCHANGED <<chainVars, tx, pending, ctxVars, endVars>>

ResetRole ==
    /\ pc = "reset"
    /\ role' = IF Task.runAs /\ Usable THEN 0 ELSE role
    /\ TaskReturns(~err)
    /\ UNCHANGED <<chainVars, tx, pending, ctxVars, endVars>>

-----------------------------------------------------------------------------
(* Contexts end between two statements, or during one: then the driver     *)
(* closes the connection and the transaction is lost.                      *)
Interrupted == IF pc \in InTask \ {"params", "outside"} THEN {tx, "lost"} ELSE {tx}

ChainContextEnds ==
    /\ "chain_done" \in Events
    /\ pc \in InTask /\ chainDone = 0
    /\ chainDone' = k
    /\ tx' \in Interrupted
    /\ UNCHANGED <<chainVars, posVars, role, pending, saved, err, failed, timedOut, endVars>>

TaskTimeout ==
    /\ "task_done" \in Events
    /\ pc \in InTask \ {"params"} /\ k \notin timedOut
    /\ timedOut' = timedOut \cup {k}
    /\ tx' \in Interrupted
    /\ UNCHANGED <<chainVars, posVars, role, pending, saved, err, failed, chainDone, endVars>>

-----------------------------------------------------------------------------
(* The end of executeChain, in a context that cannot be cancelled.         *)

\* COMMIT.  It may be refused (deferred constraints); an aborted transaction is rolled back.
\* The error is logged and the chain is over as after a success.
CommitTransaction ==
    /\ pc = "commit"
    /\ \/ tx = "open" /\ tx' = "committed" /\ durable' = pending
       \/ /\ tx # "open" \/ "commit_error" \in Events
          /\ tx' = "rolledback"
          /\ UNCHANGED durable
    /\ pc' = "completed"
    /\ UNCHANGED <<chainVars, k, set, role, pending, saved, err, failed, ctxVars, deleted>>

DeleteChain ==
    /\ pc = "completed"
    /\ deleted' = selfDestruct
    /\ pc' = "over"
    /\ UNCHANGED <<chainVars, k, set, txVars, err, failed, ctxVars, durable>>

\* Mutant: the cleanup of a failed chain ends like that of a successful one.
RollbackAndDelete ==
    /\ pc = "failed"
    /\ tx' = "rolledback" /\ deleted' = selfDestruct
    /\ pc' = "over"
    /\ UNCHANGED <<chainVars, k, set, role, pending, saved, err, failed, ctxVars, durable>>

RollbackTransaction ==
    /\ pc = "failed"
    /\ tx' = "rolledback"
    /\ pc' = "over"
    /\ UNCHANGED <<chainVars, k, set, role, pending, saved, err, failed, ctxVars, endVars>>

LocalStep ==
    \/ SetRole \/ MustSavepoint \/ ExecuteSQLCommand \/ CommandDone
    \/ MustRollbackToSavepoint \/ ResetRole

Next ==
    \/ GetChainParamValues \/ ExecuteOutside \/ LocalStep
    \/ ChainContextEnds \/ TaskTimeout
    \/ CommitTransaction \/ DeleteChain \/ RollbackTransaction
    \/ pc = "over" /\ UNCHANGED vars

Spec == Init /\ [][Next]_vars

-----------------------------------------------------------------------------
(* Properties.                                                             *)

\* What a chain commits is complete and isolated: every statement of every local task that
\* succeeded, and no statement of a task that failed and was ignored, unless that task failed
\* because its context had ended (MustSavepoint, MustRollbackToSavepoint, CommitTransaction).
CommittedIsComplete ==
    tx = "committed" =>
        /\ {st \in Statements : tasks[st[1]].kind = "local" /\ st[1] \notin failed} \subseteq durable
        /\ \A st \in durable : st[1] \in failed => st[1] \in timedOut \cup {chainDone}

\* Errors of SQL that are ignored leave the transaction usable for the next task, as long as no
\* context ended and no SET ROLE can have been refused (ExecLocalSQLTask).
IgnoredFailureIsolated ==
    pc = "params" /\ ~CtxDone /\ timedOut = {} /\ (\A i \in failed : ~tasks[i].runAs) =>
        tx = "open"

\* After whatever failures of earlier tasks, a statement that can take effect runs with the role
\* of its own task, unless an earlier task timed out before its RESET ROLE (SetRole, ResetRole).
TaskRunsAsItsRole ==
    pc = "run" /\ Usable /\ timedOut = {} => role = IF Task.runAs THEN k ELSE 0

\* A chain that is stopped or times out commits nothing if a task it has not yet executed must
\* not fail (executeChain, GetChainParamValues).
StoppedChainCommitsNothing ==
    chainDone # 0 /\ (\E i \in chainDone + 1..Len(tasks) : ~tasks[i].ignoreError) =>
        tx # "committed"

\* The chain as the promise sees it.
State ==
    CASE pc = "completed"                -> "succeeded"
      [] pc = "over" /\ k > Len(tasks)   -> "over"
      [] pc = "over" /\ k <= Len(tasks)  -> "failed"
      [] pc = "failed"                   -> "failed"
      [] OTHER                           -> "running"

Cut == timedOut \cup ({chainDone} \ {0})

\* The transaction, its savepoints and the cleanup of executeChain, in whatever order contexts end
\* and statements fail, keep the promise of AtomicChain: a chain that fails leaves nothing and
\* stays in the table, one that succeeds takes effect whole and may then delete itself.
Promise == INSTANCE AtomicChain WITH state <- State, cut <- Cut
ChainIsAtomic == Promise!Spec
=============================================================================
