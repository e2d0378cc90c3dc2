------------------------ MODULE ChainExecutionProofs ------------------------
(***************************************************************************)
(* For chains of any tasks and any events: what a chain's transaction may  *)
(* commit, with which role its statements run, and what an ignored failure *)
(* or a STOP leaves behind.                                                *)
(***************************************************************************)
EXTENDS ChainExecution, TLAPS

\* SET ROLE is over, RESET ROLE is not.
Body == {"savepoint", "run", "rollback", "reset"}

Running == {"run", "rollback", "reset"}

\* Where the steps are, and what belongs to the current task only.
Position ==
    /\ pc \in InTask => k <= Len(tasks)
    /\ pc \in Body \cup {"role"} => Task.kind = "local"
    /\ pc = "outside" => Task.kind # "local"
    /\ saved # {} => pc \in Running /\ Task.ignoreError
    /\ \A S \in saved : saved = {S}
    /\ err => pc \in Running
    /\ pc = "rollback" => err
    /\ pc \in {"params", "outside", "role", "savepoint"} => set = 1
    /\ pc \in {"rollback", "reset"} => set > Task.sets
    /\ pc \in {"commit", "completed"} \/ tx = "committed" => k = Len(tasks) + 1
    /\ tx = "committed" => pc \in {"completed", "over"}
    /\ \A i \in failed : i < k \/ (i = k /\ pc \in {"failed", "over"} /\ tx # "committed")
    /\ chainDone <= k /\ \A i \in timedOut : i <= k

\* After a STOP or a timeout of the chain no task is executed any more.
Stopped ==
    /\ chainDone # 0 /\ chainDone < k => pc \notin InTask \ {"params"}
    /\ chainDone # 0 => \A i \in chainDone + 1..k - 1 : tasks[i].ignoreError

Undisturbed == chainDone = 0 /\ timedOut = {}

\* The transaction is open, or ROLLBACK TO SAVEPOINT opens it.
Revivable == tx = "open" \/ (tx = "aborted" /\ saved # {})

\* The role is that of the current task from its SET ROLE to its RESET ROLE.
RoleOfTask ==
    Undisturbed /\ Revivable => role = IF pc \in Body /\ Task.runAs THEN k ELSE 0

\* An error that will be ignored has a savepoint to go back to.
SavepointReady ==
    Undisturbed /\ (\A i \in failed : ~tasks[i].runAs) /\ pc \in InTask \cup {"commit"} =>
        /\ pc \in {"run", "rollback"} /\ Task.ignoreError => saved # {}
        /\ \/ tx = "open"
           \/ /\ tx = "aborted" /\ pc \in Running /\ err
              /\ pc = "reset" => ~Task.ignoreError

\* All statements of the tasks before the current one, but those that failed.
Complete(S) ==
    \A i \in 1..k - 1 :
        tasks[i].kind = "local" /\ i \notin failed => \A s \in 1..tasks[i].sets : <<i, s>> \in S

StatementsKept ==
    /\ Complete(pending)
    /\ \A S \in saved : Complete(S)
    /\ pc \in {"run", "reset"} /\ ~err => \A s \in 1..set - 1 : <<k, s>> \in pending

\* The savepoint has no statement of the current task, and without one no statement took effect.
Earlier(S) == \A st \in S : st[1] < k

BeforeTask ==
    /\ \A st \in pending : st[1] <= k
    /\ pc \in {"params", "outside", "role", "savepoint", "commit"} => Earlier(pending)
    /\ \A S \in saved : Earlier(S)
    /\ pc \in Running /\ Task.ignoreError /\ saved = {} => Earlier(pending) /\ ~Usable

\* Statements of ignored tasks are gone, unless a context ended under them.
Excused(i) == i \in timedOut \cup {chainDone}

FailedIsUndone ==
    /\ (Revivable \/ tx = "committed") /\ pc # "failed" =>
            \A st \in pending : st[1] \in failed => Excused(st[1])
    /\ pc = "reset" /\ err /\ Task.ignoreError /\ Revivable =>
            \A st \in pending : st[1] = k => Excused(k)
    /\ tx = "committed" => durable = pending

IInv ==
    /\ TypeOK /\ Position /\ Stopped /\ RoleOfTask /\ SavepointReady
    /\ StatementsKept /\ BeforeTask /\ FailedIsUndone

-----------------------------------------------------------------------------
\* Statements are pairs of a task and one of its parameter sets.
LEMMA StatementPairs ==
    /\ \A st \in Statements : /\ st[1] \in DOMAIN tasks /\ st[2] \in 1..tasks[st[1]].sets
                               /\ st = <<st[1], st[2]>>
    /\ \A i \in DOMAIN tasks : \A s \in 1..tasks[i].sets : <<i, s>> \in Statements
BY DEF Statements

\* A chain that starts with its first task, or none, satisfies the invariant.
LEMMA InitIInv == Init => IInv
<1> SUFFICES ASSUME Init PROVE IInv OBVIOUS
<1>1. PICK n \in 0..MaxTasks : tasks \in [1..n -> Tasks] BY DEF Init
<1>2. tasks \in Seq(Tasks) /\ Len(tasks) = n BY <1>1, ChainAssumption
<1>3. \A i \in 1..Len(tasks) : tasks[i] \in TaskRecord BY <1>1, <1>2, ChainAssumption
<1>4. pc \in InTask => k <= Len(tasks) /\ set \in 1..(tasks[k].sets + 1)
      BY <1>1, <1>2, <1>3 DEF Init, FirstStep, InTask, TaskRecord
<1>5. TypeOK
  <2>1. tasks \in Seq(Tasks) /\ Len(tasks) \in 0..MaxTasks BY <1>1, <1>2
  <2>2. pc \in {"params", "commit"} /\ k \in 1..(Len(tasks) + 1)
        BY <2>1, ChainAssumption DEF Init, FirstStep
  <2>3. 0 \in 0..Len(tasks) /\ pending \subseteq Statements /\ durable \subseteq Statements
        /\ saved \subseteq SUBSET pending
        BY <2>1, ChainAssumption DEF Init
  <2>4. Len(tasks) <= MaxTasks BY <2>1, ChainAssumption
  <2> QED BY <2>1, <2>2, <2>3, <2>4, <1>4 DEF Init, TypeOK, InTask
<1>6. Position BY <1>2, ChainAssumption DEF Init, Position, FirstStep, InTask, Body, Running
<1>7. Stopped /\ RoleOfTask BY DEF Init, Stopped, RoleOfTask, FirstStep, Body
<1>8. SavepointReady BY DEF Init, SavepointReady, FirstStep
<1>9. StatementsKept /\ BeforeTask /\ FailedIsUndone
      BY DEF Init, StatementsKept, Complete, BeforeTask, Earlier, FailedIsUndone, FirstStep, Running
<1> QED BY <1>5, <1>6, <1>7, <1>8, <1>9 DEF IInv

\* The steps of a chain, those that end a task as one.
Returning(ok) ==
    /\ pc \in {"params", "outside", "role", "reset"}
    /\ TaskReturns(ok)
    /\ ok => pc = "outside" \/ (pc = "reset" /\ ~err)
    /\ ~ok /\ pc = "reset" => err
    /\ tx' = tx \/ (tx' = "aborted" /\ pc = "role" /\ Task.runAs)
    /\ role' = IF pc = "reset" /\ Task.runAs /\ Usable THEN 0 ELSE role
    /\ UNCHANGED <<tasks, selfDestruct, pending, chainDone, timedOut, durable, deleted>>

ParamsRead ==
    /\ pc = "params" /\ chainDone = 0
    /\ pc' = IF Task.kind = "local" THEN "role" ELSE "outside"
    /\ UNCHANGED <<tasks, selfDestruct, k, set, tx, role, pending, saved, err, failed, chainDone,
                   timedOut, durable, deleted>>

RoleSet ==
    /\ pc = "role" /\ pc' = "savepoint"
    /\ Task.runAs => Usable
    /\ role' = IF Task.runAs THEN k ELSE role
    /\ UNCHANGED <<tasks, selfDestruct, k, set, tx, pending, saved, err, failed, chainDone,
                   timedOut, durable, deleted>>

\* Every step is one of these.
LEMMA Steps ==
    ASSUME TypeOK, [Next]_vars
    PROVE  \/ \E ok \in BOOLEAN : Returning(ok)
           \/ ParamsRead \/ RoleSet \/ MustSavepoint \/ ExecuteSQLCommand \/ CommandDone
           \/ MustRollbackToSavepoint \/ ChainContextEnds \/ TaskTimeout
           \/ CommitTransaction \/ DeleteChain \/ RollbackTransaction \/ UNCHANGED vars
<1> USE DEF chainVars, ctxVars, endVars, txVars, posVars
<1>1. CASE GetChainParamValues
      BY <1>1 DEF GetChainParamValues, Returning, ParamsRead
<1>2. CASE ExecuteOutside BY <1>2 DEF ExecuteOutside, Returning
<1>3. CASE SetRole BY <1>3 DEF SetRole, Returning, RoleSet
<1>4. CASE ResetRole
  <2>1. CASE err
    <3>1. Returning(FALSE) BY <1>4, <2>1 DEF ResetRole, Returning, TaskReturns
    <3> QED BY <3>1
  <2>2. CASE ~err
    <3>1. Returning(TRUE) BY <1>4, <2>2 DEF ResetRole, Returning, TaskReturns
    <3> QED BY <3>1
  <2> QED BY <2>1, <2>2
<1> QED BY <1>1, <1>2, <1>3, <1>4 DEF Next, LocalStep

\* Where a chain is when a task has returned.
LEMMA Returned ==
    ASSUME TypeOK, Position, NEW ok \in BOOLEAN, Returning(ok)
    PROVE  /\ \/ k' = k + 1 /\ pc' = "params" /\ k' <= Len(tasks)
              \/ k' = k + 1 /\ pc' = "commit" /\ k' = Len(tasks) + 1
              \/ k' = k /\ pc' = "failed" /\ ~Task.ignoreError /\ ~ok
           /\ k' = k + 1 => ok \/ Task.ignoreError
           /\ k \in 1..Len(tasks) /\ k' \in 1..Len(tasks) + 1 /\ Len(tasks) \in Nat
           /\ Task \in TaskRecord
           /\ failed' = IF ok THEN failed ELSE failed \cup {k}
           /\ set' = 1 /\ saved' = {} /\ err' = FALSE
  <1>1. k \in 1..Len(tasks) /\ Len(tasks) \in Nat
        BY DEF TypeOK, Position, Returning, InTask
  <1>2. Task \in TaskRecord BY <1>1, ChainAssumption DEF TypeOK, Task
  <1> QED BY <1>1, <1>2 DEF TaskReturns, FirstStep, Returning

\* Every step leaves the variables in their ranges.
LEMMA TypeStep ==
    ASSUME TypeOK, Position, [Next]_vars
    PROVE  TypeOK'
<1>1. ASSUME NEW ok \in BOOLEAN, Returning(ok) PROVE TypeOK'
  <2>1. /\ \/ k' = k + 1 /\ pc' = "params" /\ k' <= Len(tasks)
           \/ k' = k + 1 /\ pc' = "commit" /\ k' = Len(tasks) + 1
           \/ k' = k /\ pc' = "failed" /\ ~Task.ignoreError /\ ~ok
        /\ k' = k + 1 => ok \/ Task.ignoreError
        /\ k \in 1..Len(tasks) /\ k' \in 1..Len(tasks) + 1 /\ Len(tasks) \in Nat
        /\ Task \in TaskRecord
        /\ failed' = IF ok THEN failed ELSE failed \cup {k}
        /\ set' = 1 /\ saved' = {} /\ err' = FALSE
        BY <1>1, Returned
  <2>2. tasks' = tasks /\ Statements' = Statements BY <1>1 DEF Returning, Statements
  <2>3. \A i \in 1..Len(tasks) : tasks[i].sets + 1 \in Nat \ {0}
        BY ChainAssumption DEF TypeOK, TaskRecord
  <2>4. pc' \in InTask => k' <= Len(tasks') /\ set' \in 1..(tasks'[k'].sets + 1)
        BY <2>1, <2>2, <2>3 DEF InTask
  <2>5. tx' \in {"open", "aborted", "lost", "committed", "rolledback"} /\ role' \in 0..Len(tasks)
        BY <1>1, <2>1 DEF Returning, TypeOK
  <2>6. failed' \subseteq 1..Len(tasks) BY <2>1 DEF TypeOK
  <2> QED BY <1>1, <2>1, <2>2, <2>4, <2>5, <2>6 DEF TypeOK, Returning, InTask
<1>tasks. tasks' = tasks
       BY <1>1, Steps DEF Returning, ParamsRead, RoleSet, vars, chainVars,
             MustSavepoint, ExecuteSQLCommand, CommandDone, MustRollbackToSavepoint,
             ChainContextEnds, TaskTimeout, CommitTransaction, DeleteChain, RollbackTransaction
<1>pairs. Statements' = Statements BY <1>tasks DEF Statements
<1>len. Len(tasks) \in Nat /\ DOMAIN tasks = 1..Len(tasks)
       /\ \A i \in 1..Len(tasks) : tasks[i] \in TaskRecord
       BY ChainAssumption DEF TypeOK
<1> USE <1>tasks, <1>pairs, <1>len DEF ParamsRead, RoleSet
<1> USE ChainAssumption DEF TypeOK, Task, Usable, CtxDone, InTask,
       chainVars, posVars, txVars, ctxVars, endVars
<1>2. CASE ParamsRead BY <1>2 DEF ParamsRead
<1>3. CASE RoleSet BY <1>3 DEF RoleSet
<1>4. CASE MustSavepoint BY <1>4 DEF MustSavepoint
<1>5. CASE ExecuteSQLCommand
  <2>1. k \in 1..Len(tasks) /\ set \in 1..tasks[k].sets BY <1>5 DEF ExecuteSQLCommand, Position
  <2>2. <<k, set>> \in Statements BY <2>1, StatementPairs
  <2>3. pending' \subseteq Statements /\ pending \subseteq pending'
        BY <1>5, <2>2 DEF ExecuteSQLCommand
  <2>4. saved' \subseteq SUBSET pending' BY <1>5, <2>3 DEF ExecuteSQLCommand
  <2>5. set' \in 1..tasks[k].sets + 1
    <3>1. tasks[k].sets \in Nat BY <2>1 DEF TaskRecord
    <3>2. set' = set + 1 \/ set' = tasks[k].sets + 1 BY <1>5 DEF ExecuteSQLCommand
    <3> QED BY <2>1, <3>1, <3>2
  <2> QED BY <1>5, <2>3, <2>4, <2>5 DEF ExecuteSQLCommand
<1>6. CASE CommandDone BY <1>6 DEF CommandDone
<1>7. CASE MustRollbackToSavepoint
  <2>1. pending' = pending \/ (pending' \in saved /\ saved = {pending'})
        BY <1>7 DEF MustRollbackToSavepoint, Position
  <2>2. pending' \subseteq Statements /\ saved' \subseteq SUBSET pending'
        BY <1>7, <2>1 DEF MustRollbackToSavepoint
  <2> QED BY <1>7, <2>2 DEF MustRollbackToSavepoint
<1>8. CASE ChainContextEnds BY <1>8 DEF ChainContextEnds, Interrupted
<1>9. CASE TaskTimeout BY <1>9 DEF TaskTimeout, Interrupted
<1>10. CASE CommitTransaction BY <1>10 DEF CommitTransaction
<1>11. CASE DeleteChain BY <1>11 DEF DeleteChain
<1>12. CASE RollbackTransaction BY <1>12 DEF RollbackTransaction
<1>13. CASE UNCHANGED vars BY <1>13 DEF vars
<1> QED BY <1>1, <1>2, <1>3, <1>4, <1>5, <1>6, <1>7, <1>8, <1>9, <1>10, <1>11, <1>12, <1>13, Steps

\* The current task alone has a savepoint, an error and a place in the transaction.
LEMMA PositionStep ==
    ASSUME TypeOK, Position, [Next]_vars
    PROVE  Position'
<1>1. ASSUME NEW ok \in BOOLEAN, Returning(ok) PROVE Position'
  <2>1. /\ \/ k' = k + 1 /\ pc' = "params" /\ k' <= Len(tasks)
           \/ k' = k + 1 /\ pc' = "commit" /\ k' = Len(tasks) + 1
           \/ k' = k /\ pc' = "failed" /\ ~Task.ignoreError /\ ~ok
        /\ k' = k + 1 => ok \/ Task.ignoreError
        /\ k \in 1..Len(tasks) /\ k' \in 1..Len(tasks) + 1 /\ Len(tasks) \in Nat
        /\ Task \in TaskRecord
        /\ failed' = IF ok THEN failed ELSE failed \cup {k}
        /\ set' = 1 /\ saved' = {} /\ err' = FALSE
        BY <1>1, Returned
  <2>2. UNCHANGED <<tasks, chainDone, timedOut>> /\ tx' # "committed"
        BY <1>1, <2>1 DEF Returning, Position
  <2>3. pc' \notin Body \cup Running \cup {"role", "outside", "completed"}
        BY <2>1 DEF Body, Running
  <2>4. \A i \in failed' : i < k' \/ (i = k' /\ pc' = "failed")
    <3>1. \A i \in failed : i \in Nat /\ i < k
          BY <1>1 DEF Position, TypeOK, Returning
    <3> QED BY <2>1, <3>1
  <2>5. chainDone' <= k' /\ \A i \in timedOut' : i <= k'
        BY <2>1, <2>2 DEF Position, TypeOK
  <2>6. pc' \in InTask => k' <= Len(tasks') BY <2>1, <2>2 DEF InTask
  <2>7. pc' = "commit" => k' = Len(tasks') + 1 BY <2>1, <2>2
  <2> QED BY <2>1, <2>2, <2>3, <2>4, <2>5, <2>6, <2>7 DEF Position
<1> USE DEF ParamsRead, RoleSet
<1> USE ChainAssumption DEF TypeOK, Position, Task, Usable, CtxDone, InTask, Body, Running,
       TaskRecord,
       chainVars, posVars, txVars, ctxVars, endVars
<1>2. CASE ParamsRead BY <1>2 DEF ParamsRead
<1>3. CASE RoleSet BY <1>3 DEF RoleSet
<1>4. CASE MustSavepoint BY <1>4 DEF MustSavepoint
<1>5. CASE ExecuteSQLCommand BY <1>5 DEF ExecuteSQLCommand
<1>6. CASE CommandDone BY <1>6 DEF CommandDone
<1>7. CASE MustRollbackToSavepoint BY <1>7 DEF MustRollbackToSavepoint
<1>8. CASE ChainContextEnds BY <1>8 DEF ChainContextEnds, Interrupted
<1>9. CASE TaskTimeout BY <1>9 DEF TaskTimeout, Interrupted
<1>10. CASE CommitTransaction BY <1>10 DEF CommitTransaction
<1>11. CASE DeleteChain BY <1>11 DEF DeleteChain
<1>12. CASE RollbackTransaction BY <1>12 DEF RollbackTransaction
<1>13. CASE UNCHANGED vars BY <1>13 DEF vars
<1> QED BY <1>1, <1>2, <1>3, <1>4, <1>5, <1>6, <1>7, <1>8, <1>9, <1>10, <1>11, <1>12, <1>13, Steps

\* A chain whose context has ended fails at the parameters of each task.
LEMMA StoppedStep ==
    ASSUME TypeOK, Position, Stopped, [Next]_vars
    PROVE  Stopped'
<1>1. ASSUME NEW ok \in BOOLEAN, Returning(ok) PROVE Stopped'
  <2>1. /\ \/ k' = k + 1 /\ pc' = "params" /\ k' <= Len(tasks)
           \/ k' = k + 1 /\ pc' = "commit" /\ k' = Len(tasks) + 1
           \/ k' = k /\ pc' = "failed" /\ ~Task.ignoreError /\ ~ok
        /\ k' = k + 1 => ok \/ Task.ignoreError
        /\ k \in 1..Len(tasks) /\ k' \in 1..Len(tasks) + 1 /\ Len(tasks) \in Nat
        /\ Task \in TaskRecord
        /\ failed' = IF ok THEN failed ELSE failed \cup {k}
        /\ set' = 1 /\ saved' = {} /\ err' = FALSE
        BY <1>1, Returned
  <2>2. UNCHANGED <<tasks, chainDone>> BY <1>1 DEF Returning
  <2>3. pc' \notin InTask \ {"params"} BY <2>1 DEF InTask
  <2>4. chainDone # 0 => \A i \in chainDone + 1..k' - 1 : tasks[i].ignoreError
    <3> SUFFICES ASSUME chainDone # 0, NEW i \in chainDone + 1..k' - 1
                 PROVE  tasks[i].ignoreError
        OBVIOUS
    <3>1. chainDone \in Nat /\ k \in Nat /\ (k' = k \/ k' = k + 1) BY <2>1 DEF TypeOK
    <3>2. CASE i \in chainDone + 1..k - 1 BY <3>2 DEF Stopped
    <3>3. CASE i = k /\ k' = k + 1
      <4>1. pc = "params" BY <1>1, <2>1, <3>1, <3>3 DEF Stopped, Returning, InTask
      <4>2. ~ok BY <1>1, <4>1 DEF Returning
      <4> QED BY <2>1, <3>3, <4>2 DEF Task
    <3> QED BY <3>1, <3>2, <3>3
  <2> QED BY <2>2, <2>3, <2>4 DEF Stopped
<1> USE DEF ParamsRead, RoleSet
<1> USE ChainAssumption DEF TypeOK, Position, Stopped, Task, CtxDone, InTask, Running,
       chainVars, posVars, txVars, ctxVars, endVars
<1>2. CASE ParamsRead BY <1>2 DEF ParamsRead
<1>3. CASE RoleSet BY <1>3 DEF RoleSet
<1>4. CASE MustSavepoint BY <1>4 DEF MustSavepoint
<1>5. CASE ExecuteSQLCommand BY <1>5 DEF ExecuteSQLCommand
<1>6. CASE CommandDone BY <1>6 DEF CommandDone
<1>7. CASE MustRollbackToSavepoint BY <1>7 DEF MustRollbackToSavepoint
<1>8. CASE ChainContextEnds BY <1>8 DEF ChainContextEnds, Interrupted
<1>9. CASE TaskTimeout BY <1>9 DEF TaskTimeout, Interrupted
<1>10. CASE CommitTransaction BY <1>10 DEF CommitTransaction
<1>11. CASE DeleteChain BY <1>11 DEF DeleteChain
<1>12. CASE RollbackTransaction BY <1>12 DEF RollbackTransaction
<1>13. CASE UNCHANGED vars BY <1>13 DEF vars
<1> QED BY <1>1, <1>2, <1>3, <1>4, <1>5, <1>6, <1>7, <1>8, <1>9, <1>10, <1>11, <1>12, <1>13, Steps

\* RESET ROLE is missed only when the transaction is lost anyway or a context has ended.
LEMMA RoleStep ==
    ASSUME TypeOK, Position, RoleOfTask, [Next]_vars
    PROVE  RoleOfTask'
<1>1. ASSUME NEW ok \in BOOLEAN, Returning(ok) PROVE RoleOfTask'
  <2>1. saved' = {} /\ pc' \notin Body
        BY <1>1 DEF Returning, TaskReturns, FirstStep, Body
  <2>2. UNCHANGED <<chainDone, timedOut>> /\ (tx' = tx \/ tx' = "aborted")
        BY <1>1 DEF Returning
  <2>3. CASE Undisturbed /\ tx' = "open"
    <3>1. tx = "open" /\ Usable BY <2>2, <2>3 DEF Undisturbed, Usable, CtxDone
    <3>2. role = IF pc \in Body /\ Task.runAs THEN k ELSE 0
          BY <2>3, <3>1 DEF RoleOfTask, Revivable
    <3>3. role' = 0 BY <1>1, <3>1, <3>2 DEF Returning, Body
    <3> QED BY <2>1, <3>3 DEF RoleOfTask
  <2> QED BY <2>1, <2>2, <2>3 DEF RoleOfTask, Undisturbed, Revivable
<1> USE DEF ParamsRead, RoleSet
<1> USE ChainAssumption DEF TypeOK, Position, RoleOfTask, Undisturbed, Revivable, Task, Usable,
       CtxDone, InTask, Body, Running,
       chainVars, posVars, txVars, ctxVars, endVars
<1>2. CASE ParamsRead BY <1>2 DEF ParamsRead
<1>3. CASE RoleSet BY <1>3 DEF RoleSet
<1>4. CASE MustSavepoint BY <1>4 DEF MustSavepoint
<1>5. CASE ExecuteSQLCommand BY <1>5 DEF ExecuteSQLCommand
<1>6. CASE CommandDone BY <1>6 DEF CommandDone
<1>7. CASE MustRollbackToSavepoint BY <1>7 DEF MustRollbackToSavepoint
<1>8. CASE ChainContextEnds BY <1>8 DEF ChainContextEnds, Interrupted
<1>9. CASE TaskTimeout BY <1>9 DEF TaskTimeout, Interrupted
<1>10. CASE CommitTransaction BY <1>10 DEF CommitTransaction
<1>11. CASE DeleteChain BY <1>11 DEF DeleteChain
<1>12. CASE RollbackTransaction BY <1>12 DEF RollbackTransaction
<1>13. CASE UNCHANGED vars BY <1>13 DEF vars
<1> QED BY <1>1, <1>2, <1>3, <1>4, <1>5, <1>6, <1>7, <1>8, <1>9, <1>10, <1>11, <1>12, <1>13, Steps

\* What fails inside a task is rolled back to its savepoint, or fails the chain.
LEMMA SavepointStep ==
    ASSUME TypeOK, Position, SavepointReady, [Next]_vars
    PROVE  SavepointReady'
<1>1. ASSUME NEW ok \in BOOLEAN, Returning(ok) PROVE SavepointReady'
  <2>1. /\ \/ k' = k + 1 /\ pc' = "params" /\ k' <= Len(tasks)
           \/ k' = k + 1 /\ pc' = "commit" /\ k' = Len(tasks) + 1
           \/ k' = k /\ pc' = "failed" /\ ~Task.ignoreError /\ ~ok
        /\ k' = k + 1 => ok \/ Task.ignoreError
        /\ k \in 1..Len(tasks) /\ k' \in 1..Len(tasks) + 1 /\ Len(tasks) \in Nat
        /\ Task \in TaskRecord
        /\ failed' = IF ok THEN failed ELSE failed \cup {k}
        /\ set' = 1 /\ saved' = {} /\ err' = FALSE
        BY <1>1, Returned
  <2> SUFFICES ASSUME Undisturbed', \A i \in failed' : ~tasks'[i].runAs,
                      pc' \in InTask \cup {"commit"}
               PROVE  tx' = "open"
      BY <2>1 DEF SavepointReady, InTask
  <2>2. UNCHANGED <<tasks, chainDone, timedOut>> BY <1>1 DEF Returning
  <2>3. Undisturbed /\ \A i \in failed : ~tasks[i].runAs BY <2>1, <2>2 DEF Undisturbed
  <2>4. k' = k + 1 BY <2>1 DEF InTask
  <2>5. \/ tx = "open"
        \/ tx = "aborted" /\ pc = "reset" /\ err /\ ~Task.ignoreError
        BY <1>1, <2>3 DEF SavepointReady, Returning, InTask, Running
  <2>6. tx = "open" BY <1>1, <2>1, <2>4, <2>5 DEF Returning
  <2>7. tx' # "open" => ~ok /\ Task.runAs BY <1>1, <2>6 DEF Returning
  <2>8. ~ok => ~Task.runAs BY <2>1, <2>2 DEF Task
  <2> QED BY <2>7, <2>8
<1> USE DEF ParamsRead, RoleSet
<1> USE ChainAssumption DEF TypeOK, Position, SavepointReady, Undisturbed, Task, Usable,
       CtxDone, InTask, Body, Running,
       chainVars, posVars, txVars, ctxVars, endVars
<1>2. CASE ParamsRead BY <1>2 DEF ParamsRead
<1>3. CASE RoleSet BY <1>3 DEF RoleSet
<1>4. CASE MustSavepoint BY <1>4 DEF MustSavepoint
<1>5. CASE ExecuteSQLCommand BY <1>5 DEF ExecuteSQLCommand
<1>6. CASE CommandDone BY <1>6 DEF CommandDone
<1>7. CASE MustRollbackToSavepoint BY <1>7 DEF MustRollbackToSavepoint
<1>8. CASE ChainContextEnds BY <1>8 DEF ChainContextEnds, Interrupted
<1>9. CASE TaskTimeout BY <1>9 DEF TaskTimeout, Interrupted
<1>10. CASE CommitTransaction BY <1>10 DEF CommitTransaction
<1>11. CASE DeleteChain BY <1>11 DEF DeleteChain
<1>12. CASE RollbackTransaction BY <1>12 DEF RollbackTransaction
<1>13. CASE UNCHANGED vars BY <1>13 DEF vars
<1> QED BY <1>1, <1>2, <1>3, <1>4, <1>5, <1>6, <1>7, <1>8, <1>9, <1>10, <1>11, <1>12, <1>13, Steps

\* A statement that took effect stays, but for those a savepoint takes back.
LEMMA KeptStep ==
    ASSUME TypeOK, Position, StatementsKept, [Next]_vars
    PROVE  StatementsKept'
<1>1. ASSUME NEW ok \in BOOLEAN, Returning(ok) PROVE StatementsKept'
  <2>1. /\ \/ k' = k + 1 /\ pc' = "params" /\ k' <= Len(tasks)
           \/ k' = k + 1 /\ pc' = "commit" /\ k' = Len(tasks) + 1
           \/ k' = k /\ pc' = "failed" /\ ~Task.ignoreError /\ ~ok
        /\ k' = k + 1 => ok \/ Task.ignoreError
        /\ k \in 1..Len(tasks) /\ k' \in 1..Len(tasks) + 1 /\ Len(tasks) \in Nat
        /\ Task \in TaskRecord
        /\ failed' = IF ok THEN failed ELSE failed \cup {k}
        /\ set' = 1 /\ saved' = {} /\ err' = FALSE
        BY <1>1, Returned
  <2>2. UNCHANGED <<tasks, pending>> BY <1>1 DEF Returning
  <2>3. Complete(pending)'
    <3> SUFFICES ASSUME NEW i \in 1..k' - 1, tasks[i].kind = "local", i \notin failed',
                        NEW s \in 1..tasks[i].sets
                 PROVE  <<i, s>> \in pending
        BY <2>2 DEF Complete
    <3>1. i \notin failed BY <2>1
    <3>2. CASE i \in 1..k - 1 BY <3>1, <3>2 DEF StatementsKept, Complete
    <3>3. CASE i = k
      <4>1. ok BY <2>1, <3>3
      <4>2. pc = "reset" /\ ~err BY <1>1, <3>3, <4>1 DEF Returning, Position, Task
      <4>3. set > tasks[k].sets /\ set \in Nat /\ tasks[k].sets \in Nat
            BY <2>1, <4>2 DEF Position, Task, TypeOK, InTask, TaskRecord
      <4>4. s \in 1..set - 1 BY <3>3, <4>3
      <4> QED BY <3>3, <4>2, <4>4 DEF StatementsKept
    <3>4. k \in Nat /\ (k' = k \/ k' = k + 1) BY <2>1
    <3> QED BY <3>2, <3>3, <3>4
  <2> QED BY <2>1, <2>3 DEF StatementsKept
<1> USE DEF ParamsRead, RoleSet
<1> USE ChainAssumption DEF TypeOK, Position, StatementsKept, Complete, Task, Usable, CtxDone,
       InTask, Running,
       chainVars, posVars, txVars, ctxVars, endVars
<1>2. CASE ParamsRead BY <1>2 DEF ParamsRead
<1>3. CASE RoleSet BY <1>3 DEF RoleSet
<1>4. CASE MustSavepoint BY <1>4 DEF MustSavepoint
<1>5. CASE ExecuteSQLCommand BY <1>5 DEF ExecuteSQLCommand
<1>6. CASE CommandDone BY <1>6 DEF CommandDone
<1>7. CASE MustRollbackToSavepoint BY <1>7 DEF MustRollbackToSavepoint
<1>8. CASE ChainContextEnds BY <1>8 DEF ChainContextEnds, Interrupted
<1>9. CASE TaskTimeout BY <1>9 DEF TaskTimeout, Interrupted
<1>10. CASE CommitTransaction BY <1>10 DEF CommitTransaction
<1>11. CASE DeleteChain BY <1>11 DEF DeleteChain
<1>12. CASE RollbackTransaction BY <1>12 DEF RollbackTransaction
<1>13. CASE UNCHANGED vars BY <1>13 DEF vars
<1> QED BY <1>1, <1>2, <1>3, <1>4, <1>5, <1>6, <1>7, <1>8, <1>9, <1>10, <1>11, <1>12, <1>13, Steps

\* Statements of a task take effect in that task only, and after its savepoint.
LEMMA BeforeStep ==
    ASSUME TypeOK, Position, BeforeTask, [Next]_vars
    PROVE  BeforeTask'
<1>1. ASSUME NEW ok \in BOOLEAN, Returning(ok) PROVE BeforeTask'
  <2>1. /\ \/ k' = k + 1 /\ pc' = "params" /\ k' <= Len(tasks)
           \/ k' = k + 1 /\ pc' = "commit" /\ k' = Len(tasks) + 1
           \/ k' = k /\ pc' = "failed" /\ ~Task.ignoreError /\ ~ok
        /\ k' = k + 1 => ok \/ Task.ignoreError
        /\ k \in 1..Len(tasks) /\ k' \in 1..Len(tasks) + 1 /\ Len(tasks) \in Nat
        /\ Task \in TaskRecord
        /\ failed' = IF ok THEN failed ELSE failed \cup {k}
        /\ set' = 1 /\ saved' = {} /\ err' = FALSE
        BY <1>1, Returned
  <2>2. UNCHANGED pending BY <1>1 DEF Returning
  <2>3. \A st \in pending : st[1] \in Nat /\ st[1] <= k
        BY StatementPairs DEF BeforeTask, TypeOK
  <2> QED BY <2>1, <2>2, <2>3 DEF BeforeTask, Earlier, Running
<1> USE DEF ParamsRead, RoleSet
<1> USE ChainAssumption DEF TypeOK, Position, BeforeTask, Earlier, Task, Usable, CtxDone,
       InTask, Running, Body,
       chainVars, posVars, txVars, ctxVars, endVars
<1>2. CASE ParamsRead BY <1>2 DEF ParamsRead
<1>3. CASE RoleSet BY <1>3 DEF RoleSet
<1>4. CASE MustSavepoint BY <1>4 DEF MustSavepoint
<1>5. CASE ExecuteSQLCommand BY <1>5 DEF ExecuteSQLCommand
<1>6. CASE CommandDone BY <1>6 DEF CommandDone
<1>7. CASE MustRollbackToSavepoint BY <1>7 DEF MustRollbackToSavepoint
<1>8. CASE ChainContextEnds BY <1>8 DEF ChainContextEnds, Interrupted
<1>9. CASE TaskTimeout BY <1>9 DEF TaskTimeout, Interrupted
<1>10. CASE CommitTransaction BY <1>10 DEF CommitTransaction
<1>11. CASE DeleteChain BY <1>11 DEF DeleteChain
<1>12. CASE RollbackTransaction BY <1>12 DEF RollbackTransaction
<1>13. CASE UNCHANGED vars BY <1>13 DEF vars
<1> QED BY <1>1, <1>2, <1>3, <1>4, <1>5, <1>6, <1>7, <1>8, <1>9, <1>10, <1>11, <1>12, <1>13, Steps

\* A failure is ignored only when the transaction is back where the task began.
LEMMA UndoneStep ==
    ASSUME TypeOK, Position, Stopped, BeforeTask, FailedIsUndone, [Next]_vars
    PROVE  FailedIsUndone'
<1>1. ASSUME NEW ok \in BOOLEAN, Returning(ok) PROVE FailedIsUndone'
  <2>1. /\ \/ k' = k + 1 /\ pc' = "params" /\ k' <= Len(tasks)
           \/ k' = k + 1 /\ pc' = "commit" /\ k' = Len(tasks) + 1
           \/ k' = k /\ pc' = "failed" /\ ~Task.ignoreError /\ ~ok
        /\ k' = k + 1 => ok \/ Task.ignoreError
        /\ k \in 1..Len(tasks) /\ k' \in 1..Len(tasks) + 1 /\ Len(tasks) \in Nat
        /\ Task \in TaskRecord
        /\ failed' = IF ok THEN failed ELSE failed \cup {k}
        /\ set' = 1 /\ saved' = {} /\ err' = FALSE
        BY <1>1, Returned
  <2>2. UNCHANGED <<pending, chainDone, timedOut>> /\ tx' # "committed" /\ pc' # "reset"
        BY <1>1, <2>1 DEF Returning, Position
  <2> SUFFICES ASSUME tx' = "open", pc' # "failed", NEW st \in pending, st[1] \in failed'
               PROVE  Excused(st[1])
      BY <2>1, <2>2 DEF FailedIsUndone, Revivable, Excused
  <2>3. tx = "open" /\ pc # "failed" BY <1>1 DEF Returning
  <2>4. CASE st[1] \in failed BY <2>3, <2>4 DEF FailedIsUndone, Revivable
  <2>5. CASE ~ok /\ st[1] = k
    <3>1. CASE pc = "reset"
          BY <1>1, <2>1, <2>3, <2>5, <3>1 DEF Returning, FailedIsUndone, Revivable
    <3>2. CASE pc # "reset"
          BY <1>1, <2>1, <2>5, <3>2 DEF Returning, BeforeTask, Earlier
    <3> QED BY <3>1, <3>2
  <2> QED BY <2>1, <2>4, <2>5
<1> USE DEF ParamsRead, RoleSet
<1> USE ChainAssumption DEF TypeOK, Position, Stopped, BeforeTask, Earlier, FailedIsUndone,
       Excused, Revivable, Task, Usable,
       CtxDone, InTask, Running,
       chainVars, posVars, txVars, ctxVars, endVars
<1>2. CASE ParamsRead BY <1>2 DEF ParamsRead
<1>3. CASE RoleSet BY <1>3 DEF RoleSet
<1>4. CASE MustSavepoint BY <1>4 DEF MustSavepoint
<1>5. CASE ExecuteSQLCommand BY <1>5 DEF ExecuteSQLCommand
<1>6. CASE CommandDone BY <1>6 DEF CommandDone
<1>7. CASE MustRollbackToSavepoint BY <1>7 DEF MustRollbackToSavepoint
<1>8. CASE ChainContextEnds BY <1>8 DEF ChainContextEnds, Interrupted
<1>9. CASE TaskTimeout BY <1>9 DEF TaskTimeout, Interrupted
<1>10. CASE CommitTransaction BY <1>10 DEF CommitTransaction
<1>11. CASE DeleteChain BY <1>11 DEF DeleteChain
<1>12. CASE RollbackTransaction BY <1>12 DEF RollbackTransaction
<1>13. CASE UNCHANGED vars BY <1>13 DEF vars
<1> QED BY <1>1, <1>2, <1>3, <1>4, <1>5, <1>6, <1>7, <1>8, <1>9, <1>10, <1>11, <1>12, <1>13, Steps

-----------------------------------------------------------------------------
\* What the transaction holds agrees with what the tasks have done, at every step of
\* executeChain and ExecLocalSQLTask.
THEOREM Invariant == Spec => []IInv
<1>1. IInv /\ [Next]_vars => IInv'
  <2> SUFFICES ASSUME IInv, [Next]_vars PROVE IInv' OBVIOUS
  <2>1. /\ TypeOK /\ Position /\ Stopped /\ RoleOfTask /\ SavepointReady
        /\ StatementsKept /\ BeforeTask /\ FailedIsUndone
        BY DEF IInv
  <2>2. TypeOK' /\ Position' BY <2>1, TypeStep, PositionStep
  <2>3. Stopped' /\ RoleOfTask' /\ SavepointReady' BY <2>1, StoppedStep, RoleStep, SavepointStep
  <2>4. StatementsKept' /\ BeforeTask' /\ FailedIsUndone' BY <2>1, KeptStep, BeforeStep, UndoneStep
  <2> QED BY <2>2, <2>3, <2>4 DEF IInv
<1> QED BY InitIInv, <1>1, PTL DEF Spec

\* The current task and parameter set exist, and the transaction holds statements of the chain
\* only.
THEOREM TypeCorrect == Spec => []TypeOK
<1>1. IInv => TypeOK BY DEF IInv
<1> QED BY <1>1, Invariant, PTL

\* A committed chain is complete, and ignored failures left nothing in it but what a timeout
\* kept the chain from taking back (MustSavepoint, MustRollbackToSavepoint, CommitTransaction).
THEOREM CommitsAreComplete == Spec => []CommittedIsComplete
<1>1. IInv => CommittedIsComplete
  <2> SUFFICES ASSUME IInv, tx = "committed"
               PROVE  /\ {st \in Statements : tasks[st[1]].kind = "local" /\ st[1] \notin failed}
                            \subseteq durable
                      /\ \A st \in durable : st[1] \in failed => st[1] \in timedOut \cup {chainDone}
      BY DEF CommittedIsComplete
  <2>1. k = Len(tasks) + 1 /\ pc # "failed" /\ durable = pending
        BY DEF IInv, Position, FailedIsUndone
  <2>2. Complete(pending) BY DEF IInv, StatementsKept
  <2>3. DOMAIN tasks = 1..k - 1 BY <2>1, ChainAssumption DEF IInv, TypeOK
  <2>4. \A st \in Statements : st[1] \in 1..k - 1 /\ st[2] \in 1..tasks[st[1]].sets
                                /\ st = <<st[1], st[2]>>
        BY <2>3, StatementPairs
  <2>5. {st \in Statements : tasks[st[1]].kind = "local" /\ st[1] \notin failed} \subseteq durable
    <3> SUFFICES ASSUME NEW st \in Statements, tasks[st[1]].kind = "local", st[1] \notin failed
                 PROVE  st \in durable
        OBVIOUS
    <3>1. <<st[1], st[2]>> \in pending BY <2>2, <2>4 DEF Complete
    <3> QED BY <2>1, <2>4, <3>1
  <2>6. \A st \in durable : st[1] \in failed => st[1] \in timedOut \cup {chainDone}
        BY <2>1 DEF IInv, FailedIsUndone, Excused
  <2> QED BY <2>5, <2>6
<1> QED BY <1>1, Invariant, PTL

\* An ignored error of SQL leaves the transaction usable for the next task (ExecLocalSQLTask).
THEOREM FailuresAreIsolated == Spec => []IgnoredFailureIsolated
<1>1. IInv => IgnoredFailureIsolated
      BY DEF IInv, SavepointReady, IgnoredFailureIsolated, Undisturbed, CtxDone, InTask, Running
<1> QED BY <1>1, Invariant, PTL

\* Every statement runs with the role of its task (SetRole, ResetRole).
THEOREM RolesAreRight == Spec => []TaskRunsAsItsRole
<1>1. IInv => TaskRunsAsItsRole
      BY DEF IInv, RoleOfTask, TaskRunsAsItsRole, Undisturbed, Revivable, Usable, CtxDone, Body
<1> QED BY <1>1, Invariant, PTL

\* A chain that was stopped before a task that must not fail commits nothing (executeChain).
THEOREM StoppedIsNotCommitted == Spec => []StoppedChainCommitsNothing
<1>1. IInv => StoppedChainCommitsNothing
  <2> SUFFICES ASSUME IInv, tx = "committed", chainDone # 0,
                      NEW i \in chainDone + 1..Len(tasks), ~tasks[i].ignoreError
               PROVE  FALSE
      BY DEF StoppedChainCommitsNothing
  <2>1. k = Len(tasks) + 1 BY DEF IInv, Position
  <2>2. chainDone \in Nat /\ Len(tasks) \in Nat BY ChainAssumption DEF IInv, TypeOK
  <2>3. i \in chainDone + 1..k - 1 BY <2>1, <2>2
  <2> QED BY <2>3 DEF IInv, Stopped
<1> QED BY <1>1, Invariant, PTL
-----------------------------------------------------------------------------
(* The implementation of AtomicChain.                                      *)

\* Only local tasks do anything in the transaction.
PendingIsLocal == \A st \in pending : tasks[st[1]].kind = "local"

\* Statements reach the transaction, or come back to it, from a task in it only.
LEMMA LocalStatements == Spec => []PendingIsLocal
<1>1. Init => PendingIsLocal BY DEF Init, PendingIsLocal
<1>2. IInv /\ PendingIsLocal /\ [Next]_vars => PendingIsLocal'
  <2> SUFFICES ASSUME TypeOK, Position, PendingIsLocal, [Next]_vars PROVE PendingIsLocal'
      BY DEF IInv
  <2>1. tasks' = tasks
        BY Steps DEF Returning, ParamsRead, RoleSet, vars, chainVars,
             MustSavepoint, ExecuteSQLCommand, CommandDone, MustRollbackToSavepoint,
             ChainContextEnds, TaskTimeout, CommitTransaction, DeleteChain, RollbackTransaction
  <2>2. CASE ExecuteSQLCommand
    <3>1. Task.kind = "local" BY <2>2 DEF ExecuteSQLCommand, Position, Body
    <3>2. pending' \subseteq pending \cup {<<k, set>>} BY <2>2 DEF ExecuteSQLCommand
    <3> QED BY <2>1, <3>1, <3>2 DEF PendingIsLocal, Task
  <2>3. CASE MustRollbackToSavepoint
    <3>1. pending' \subseteq pending BY <2>3 DEF MustRollbackToSavepoint, TypeOK
    <3> QED BY <2>1, <3>1 DEF PendingIsLocal
  <2>4. CASE pending' = pending BY <2>1, <2>4 DEF PendingIsLocal
  <2> QED BY <2>2, <2>3, <2>4, Steps
          DEF Returning, ParamsRead, RoleSet, vars, txVars, MustSavepoint, CommandDone,
              ChainContextEnds, TaskTimeout, CommitTransaction, DeleteChain, RollbackTransaction
<1> QED BY <1>1, <1>2, Invariant, PTL DEF Spec

\* A chain fails at one of its tasks.
FailedAtTask == pc = "failed" => k <= Len(tasks)

\* Only a task that must not fail takes executeChain to its cleanup.
LEMMA FailedTask == Spec => []FailedAtTask
<1>1. Init => FailedAtTask BY DEF Init, FailedAtTask, FirstStep
<1>2. IInv /\ FailedAtTask /\ [Next]_vars => FailedAtTask'
  <2> SUFFICES ASSUME TypeOK, Position, FailedAtTask, [Next]_vars, pc' = "failed"
               PROVE  k' <= Len(tasks')
      BY DEF IInv, FailedAtTask
  <2>1. ASSUME NEW ok \in BOOLEAN, Returning(ok) PROVE k' <= Len(tasks')
    <3>1. tasks' = tasks BY <2>1 DEF Returning
    <3>2. k' = k /\ k \in 1..Len(tasks) /\ Len(tasks) \in Nat
      <4>1. \/ k' = k + 1 /\ pc' = "params" /\ k' <= Len(tasks)
            \/ k' = k + 1 /\ pc' = "commit" /\ k' = Len(tasks) + 1
            \/ k' = k /\ pc' = "failed" /\ ~Task.ignoreError /\ ~ok
            BY <2>1, Returned
      <4>2. k \in 1..Len(tasks) /\ Len(tasks) \in Nat BY <2>1, Returned
      <4> QED BY <4>1, <4>2
    <3> QED BY <3>1, <3>2
  <2>2. CASE UNCHANGED <<pc, k, tasks>> BY <2>2 DEF FailedAtTask
  <2> QED BY <2>1, <2>2, Steps
          DEF ParamsRead, RoleSet, vars, chainVars, posVars, MustSavepoint, ExecuteSQLCommand,
              CommandDone, MustRollbackToSavepoint, ChainContextEnds, TaskTimeout,
              CommitTransaction, DeleteChain, RollbackTransaction
<1> QED BY <1>1, <1>2, Invariant, PTL DEF Spec

\* COMMIT makes durable what the tasks that succeeded have done, and nothing of the others that
\* no context has kept in the transaction.
LEMMA CommitIsWhole ==
    ASSUME IInv, PendingIsLocal, pc = "commit", tx = "open"
    PROVE  \E left \in SUBSET Promise!Effects(failed \cap Cut) :
              pending = Promise!Effects(DOMAIN tasks \ failed) \cup left
<1> DEFINE Of(T) == {st \in pending : st[1] \in T}
<1>1. k = Len(tasks) + 1 /\ DOMAIN tasks = 1..k - 1
      BY ChainAssumption DEF IInv, TypeOK, Position
<1>2. \A st \in pending : /\ st[1] \in DOMAIN tasks /\ st[2] \in 1..tasks[st[1]].sets
                           /\ st = <<st[1], st[2]>> /\ tasks[st[1]].kind = "local"
      BY StatementPairs DEF IInv, TypeOK, PendingIsLocal
<1>3. \A T : Of(T) \subseteq Promise!Effects(T) BY <1>2 DEF Promise!Effects
<1>4. Of(failed) = Of(failed \cap Cut)
  <2>1. \A st \in pending : st[1] \in failed => Excused(st[1]) BY DEF IInv, FailedIsUndone, Revivable
  <2>2. \A i \in DOMAIN tasks : i # 0 BY <1>1
  <2> QED BY <1>2, <2>1, <2>2 DEF Excused, Cut
<1>5. Promise!Effects(DOMAIN tasks \ failed) \subseteq Of(DOMAIN tasks \ failed)
  <2> SUFFICES ASSUME NEW st \in Promise!Effects(DOMAIN tasks \ failed)
               PROVE  st \in pending /\ st[1] \in DOMAIN tasks \ failed
      OBVIOUS
  <2>1. PICK i \in DOMAIN tasks \ failed : tasks[i].kind = "local" /\ \E s \in 1..tasks[i].sets : st = <<i, s>>
        BY DEF Promise!Effects
  <2>2. PICK s \in 1..tasks[i].sets : st = <<i, s>> BY <2>1
  <2>3. <<i, s>> \in pending BY <1>1, <2>1 DEF IInv, StatementsKept, Complete
  <2> QED BY <2>1, <2>2, <2>3
<1>6. pending = Of(DOMAIN tasks \ failed) \cup Of(failed) BY <1>2
<1>7. Of(failed \cap Cut) \in SUBSET Promise!Effects(failed \cap Cut) BY <1>3
<1> HIDE DEF Of
<1>8. Of(DOMAIN tasks \ failed) = Promise!Effects(DOMAIN tasks \ failed) BY <1>3, <1>5
<1> QED BY <1>4, <1>6, <1>7, <1>8

\* Every step of the chain is a step of the promise or changes nothing it sees.
LEMMA AtomicStep ==
    ASSUME IInv, PendingIsLocal, FailedAtTask, [Next]_vars
    PROVE  [Promise!Next]_(Promise!atomVars)
<1> DEFINE Shown == <<tasks, selfDestruct, failed, Cut, State, durable, deleted>>
           Same  == Shown' = Shown
<1>0. /\ TypeOK /\ Position /\ Len(tasks) \in Nat /\ k \in 1..Len(tasks) + 1
      /\ DOMAIN tasks = 1..Len(tasks)
      BY ChainAssumption DEF IInv, TypeOK
<1>1. SUFFICES Promise!Next \/ Same BY DEF Promise!atomVars
<1>2. pc \in InTask \cup {"commit"} => State = "running" BY DEF State, InTask
<1>3. ASSUME NEW ok \in BOOLEAN, Returning(ok) PROVE Promise!Next \/ Same
  <2>1. /\ UNCHANGED <<tasks, selfDestruct, Cut, durable, deleted>> /\ pc \in InTask
        BY <1>3 DEF Returning, Cut, InTask
  <2>2. k \in DOMAIN tasks /\ State = "running" BY <1>0, <1>2, <2>1 DEF Position
  <2>3. State' = IF pc' = "failed" THEN "failed" ELSE "running"
        BY <1>0, <1>3, Returned DEF State
  <2>4. CASE ok BY <1>0, <1>3, <2>1, <2>2, <2>3, <2>4, Returned
  <2>5. CASE ~ok
    <3>1. k \notin failed BY <1>0, <2>1 DEF Position, InTask
    <3>2. failed' = failed \cup {k} /\ (pc' = "failed" <=> ~tasks[k].ignoreError)
          BY <1>0, <1>3, <2>5, Returned DEF Task
    <3>3. Promise!TaskFails(k) BY <2>1, <2>2, <2>3, <3>1, <3>2 DEF Promise!TaskFails
    <3> QED BY <2>2, <3>3 DEF Promise!Next
  <2> QED BY <2>4, <2>5
<1>4. ASSUME ChainContextEnds \/ TaskTimeout PROVE Promise!Next \/ Same
  <2>1. /\ UNCHANGED <<tasks, selfDestruct, failed, durable, deleted, pc, k>> /\ pc \in InTask
        BY <1>4 DEF ChainContextEnds, TaskTimeout, chainVars, posVars, endVars
  <2>2. k \in DOMAIN tasks /\ State = "running" /\ State' = "running"
        BY <1>0, <1>2, <2>1 DEF Position, State, InTask
  <2>3. Cut' = Cut \cup {k}
        BY <1>4, <2>2, <1>0 DEF ChainContextEnds, TaskTimeout, Cut
  <2>4. Promise!ContextEnds(k) BY <2>1, <2>2, <2>3 DEF Promise!ContextEnds
  <2> QED BY <2>2, <2>4 DEF Promise!Next
<1>5. CASE CommitTransaction
  <2>1. /\ UNCHANGED <<tasks, selfDestruct, failed, Cut, deleted>> /\ pc = "commit"
        /\ State = "running" /\ State' = "succeeded"
        BY <1>5 DEF CommitTransaction, chainVars, ctxVars, Cut, State
  <2>2. CASE tx = "open" /\ durable' = pending
        BY <2>1, <2>2, CommitIsWhole DEF Promise!Succeed, Promise!Next
  <2>3. CASE durable' = durable BY <2>1, <2>3 DEF Promise!SucceedInVain, Promise!Next
  <2> QED BY <1>5, <2>2, <2>3 DEF CommitTransaction
<1>6. CASE DeleteChain
  <2>1. /\ UNCHANGED <<tasks, selfDestruct, failed, Cut, durable>> /\ deleted' = selfDestruct
        BY <1>6 DEF DeleteChain, chainVars, ctxVars, Cut
  <2>2. State = "succeeded" /\ State' = "over"
        BY <1>0, <1>6 DEF DeleteChain, chainVars, Position, State
  <2> QED BY <2>1, <2>2 DEF Promise!SelfDestruct, Promise!Next
<1>7. CASE RollbackTransaction
  <2>1. UNCHANGED <<tasks, selfDestruct, failed, Cut, durable, deleted>>
        BY <1>7 DEF RollbackTransaction, chainVars, ctxVars, endVars, Cut
  <2>2. k <= Len(tasks) BY <1>7 DEF RollbackTransaction, FailedAtTask
  <2>3. State = "failed" /\ State' = "failed"
        BY <1>7, <2>2 DEF RollbackTransaction, chainVars, State
  <2> QED BY <2>1, <2>3
<1>8. ASSUME \/ ParamsRead \/ RoleSet \/ MustSavepoint \/ ExecuteSQLCommand \/ CommandDone
             \/ MustRollbackToSavepoint
      PROVE  Same
  <2>1. /\ UNCHANGED <<tasks, selfDestruct, failed, Cut, durable, deleted>>
        /\ pc \in InTask /\ pc' \in InTask
        BY <1>8 DEF ParamsRead, RoleSet, MustSavepoint, ExecuteSQLCommand, CommandDone,
               MustRollbackToSavepoint, InTask, chainVars, ctxVars, endVars, Cut
  <2> QED BY <2>1 DEF State, InTask
<1>9. CASE UNCHANGED vars
       BY <1>9 DEF vars, chainVars, posVars, ctxVars, endVars, Cut, State
<1> QED BY <1>0, <1>3, <1>4, <1>5, <1>6, <1>7, <1>8, <1>9, Steps

\* executeChain with its savepoints, roles, timeouts and its cleanup implements AtomicChain: a
\* failed chain leaves nothing and is not deleted; a successful one takes effect once and whole,
\* unless its COMMIT is refused.
THEOREM ChainKeepsPromise == Spec => ChainIsAtomic
<1>1. Init => Promise!Init
      BY DEF Init, Promise!Init, State, Cut, FirstStep
<1>2. Spec => [](IInv /\ PendingIsLocal /\ FailedAtTask) BY Invariant, LocalStatements, FailedTask, PTL
<1>3. IInv /\ PendingIsLocal /\ FailedAtTask /\ [Next]_vars => [Promise!Next]_(Promise!atomVars) BY AtomicStep
<1> QED BY <1>1, <1>2, <1>3, PTL DEF Spec, ChainIsAtomic, Promise!Spec
=============================================================================
