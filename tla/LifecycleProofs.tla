-------------------------- MODULE LifecycleProofs --------------------------
(***************************************************************************)
(* For any number of runs of the program, of migrations and of faults: what *)
(* they can leave of the schema, and what a scheduler that is ready relies  *)
(* on.                                                                      *)
(***************************************************************************)
EXTENDS Lifecycle, TLAPS

\* A part of the schema is there because somebody is at the scripts that are missing, or is
\* about to drop it.
SomebodyCompletes ==
    \E p \in Procs : \/ pc[p] = "drop"
                     \/ pc[p] = "script" /\ Scripts \ schema \subseteq step[p]..5

HalfIsUnderWay ==
    /\ schema = {} \/ 1 \in schema
    /\ harm # "cut" => schema \in {{}, Scripts} \/ SomebodyCompletes

\* Runs that have been past the migrations without an error.
Passed(p) ==
    \/ pc[p] = "run"
    \/ pc[p] \in {"finalize", "exit", "exited"} /\ code[p] \in {"OK", "ShutdownCommand"}
    \/ request[p] # "none"

\* While no bootstrap has failed the schema only grows, and so does what a run has seen of it.
SeenStays ==
    harm = "none" =>
        \A p \in Procs :
            /\ pc[p] # "drop"
            /\ pc[p] \in {"files", "migrate", "upgrade", "applying"} => schema # {}
            /\ pc[p] = "applying" => step[p] <= migrated + 1
            /\ Passed(p) => schema # {} /\ migrated = Migrations

IInv == TypeOK /\ HalfIsUnderWay /\ SeenStays

-----------------------------------------------------------------------------
LEMMA InitIInv == Init => IInv
<1> SUFFICES ASSUME Init PROVE IInv OBVIOUS
<1>1. TypeOK BY LifecycleAssumption DEF Init, TypeOK, Starting, Codes
<1>2. HalfIsUnderWay BY DEF Init, HalfIsUnderWay, Scripts
<1>3. SeenStays BY DEF Init, SeenStays, Passed
<1> QED BY <1>1, <1>2, <1>3 DEF IInv

\* A run at its scripts is at one of the five, and only the first meets no schema.
LEMMA InRange ==
    ASSUME TypeOK, NEW p \in Procs, ExecuteScript(p)
    PROVE  step[p] \in 1..5 /\ (schema = {} => step[p] = 1)
<1>1. step[p] \in 1..5 BY DEF TypeOK, ExecuteScript, Scripts
<1>2. Needs[2] # {} /\ Needs[3] # {} /\ Needs[4] # {} /\ Needs[5] # {} BY DEF Needs
<1>3. Needs[step[p]] \subseteq schema BY DEF ExecuteScript, Runnable
<1>4. step[p] \in {1, 2, 3, 4, 5} BY <1>1
<1> QED BY <1>1, <1>2, <1>3, <1>4

\* Every step of a run leaves its variables in their ranges.
LEMMA TypeStep ==
    ASSUME TypeOK, NEW p \in Procs,
           \/ Start(p) \/ ConfigError(p) \/ BadConnStr(p)
           \/ Proceeds(p) \/ Rest(p) \/ Signal(p) \/ Kill(p)
    PROVE  TypeOK'
<1> USE LifecycleAssumption DEF TypeOK, Starting, Bootstrapping, Gone, Codes, db
<1>1. CASE Start(p) BY <1>1 DEF Start, Goto, GotoStep
<1>2. CASE ConfigError(p) BY <1>2 DEF ConfigError, Goto, GotoStep
<1>3. CASE BadConnStr(p) BY <1>3 DEF BadConnStr, Fault, Return, Goto, GotoStep
<1>4. CASE Connect(p) BY <1>4 DEF Connect, Goto, GotoStep
<1>5. CASE ConnectCancelled(p) BY <1>5 DEF ConnectCancelled, Return, Goto, GotoStep
<1>6. CASE SchemaExists(p) BY <1>6 DEF SchemaExists, Goto, GotoStep, Scripts
<1>7. CASE ExecuteScript(p)
  <2>1. step[p] \in 1..5 BY <1>7, InRange
  <2>2. schema' \subseteq Scripts BY <1>7, <2>1 DEF ExecuteScript, Scripts
  <2>3. migrated' \in 0..Migrations BY <1>7 DEF ExecuteScript
  <2>4. PICK s \in {"files", "script"}, i \in 0..5 :
           /\ pc' = [pc EXCEPT ![p] = s] /\ step' = [step EXCEPT ![p] = i]
           /\ s = "script" => i \in Scripts
        BY <1>7, <2>1 DEF ExecuteScript, Goto, GotoStep, Scripts
  <2>5. pc' \in [Procs -> Starting \cup Gone \cup {"off", "run", "finalize", "exit"}]
        BY <2>4
  <2>6. step' \in [Procs -> 0..5 \cup 1..Migrations + 1] BY <2>4
  <2>7. \A q \in Procs : pc'[q] = "script" => step'[q] \in Scripts BY <2>4
  <2> QED BY <1>7, <2>2, <2>3, <2>5, <2>6, <2>7 DEF ExecuteScript
<1>8. CASE ScriptFails(p) BY <1>8 DEF ScriptFails, Fails, Fault, Goto, GotoStep
<1>9. CASE DropSchema(p) BY <1>9 DEF DropSchema, Goto, GotoStep
<1>10. CASE NewFails(p) BY <1>10 DEF NewFails, Fails, Fault, Return, Goto, GotoStep
<1>11. CASE ExecuteFileScripts(p) BY <1>11 DEF ExecuteFileScripts, Goto, GotoStep
<1>12. CASE AcquireFails(p) BY <1>12 DEF AcquireFails, Fails, Fault, Return, Goto, GotoStep
<1>13. CASE CheckNeedMigrateDb(p)
       BY <1>13 DEF CheckNeedMigrateDb, Migrated, Return, Goto, GotoStep
<1>14. CASE MigrateDb(p) BY <1>14 DEF MigrateDb, Goto, GotoStep
<1>15. CASE ApplyMigration(p) BY <1>15 DEF ApplyMigration, Goto, GotoStep
<1>16. CASE AllApplied(p) BY <1>16 DEF AllApplied, Migrated, Return, Goto, GotoStep
<1>17. CASE MigrationFails(p) BY <1>17 DEF MigrationFails, Fails, Fault, Return, Goto, GotoStep
<1>18. CASE Run(p) BY <1>18 DEF Run, Return, Goto, GotoStep
<1>19. CASE Finalize(p) BY <1>19 DEF Finalize, Goto, GotoStep
<1>20. CASE Exit(p) BY <1>20 DEF Exit, Return, Goto, GotoStep
<1>21. CASE Signal(p) BY <1>21 DEF Signal, Fault
<1>22. CASE Kill(p) BY <1>22 DEF Kill, Fault, Goto, GotoStep
<1>23. CASE Rest(p) BY <1>23 DEF Rest, StartChain, Answer200, SendStarted, StartDropped
<1> QED BY <1>1, <1>2, <1>3, <1>4, <1>5, <1>6, <1>7, <1>8, <1>9, <1>10, <1>11, <1>12, <1>13,
           <1>14, <1>15, <1>16, <1>17, <1>18, <1>19, <1>20, <1>21, <1>22, <1>23
        DEF Proceeds

\* A part of the schema does not lose the run that completes or drops it.
LEMMA HalfStep ==
    ASSUME TypeOK, HalfIsUnderWay, NEW p \in Procs,
           \/ Start(p) \/ ConfigError(p) \/ BadConnStr(p)
           \/ Proceeds(p) \/ Rest(p) \/ Signal(p) \/ Kill(p)
    PROVE  HalfIsUnderWay'
<1>1. CASE /\ UNCHANGED <<schema, harm>>
           /\ pc[p] \notin Bootstrapping
           /\ \A q \in Procs \ {p} : pc'[q] = pc[q] /\ step'[q] = step[q]
      BY <1>1 DEF HalfIsUnderWay, SomebodyCompletes, Bootstrapping
<1>2. CASE ExecuteScript(p)
  <2>1. step[p] \in 1..5 /\ (schema = {} => step[p] = 1)
        BY <1>2, InRange
  <2>2. 1 \in schema' BY <1>2, <2>1 DEF ExecuteScript, HalfIsUnderWay
  <2>3. SUFFICES ASSUME harm # "cut" PROVE schema' = Scripts \/ SomebodyCompletes'
        BY <1>2, <2>2 DEF ExecuteScript, HalfIsUnderWay
  <2>4. schema \subseteq schema' /\ schema' \subseteq Scripts
        BY <1>2, <2>1 DEF ExecuteScript, TypeOK, Scripts
  <2>5. CASE schema = Scripts BY <2>4, <2>5
  <2>6. ASSUME Scripts \ schema \subseteq step[p]..5
        PROVE  schema' = Scripts \/ SomebodyCompletes'
    <3>1. Scripts \ schema' \subseteq (step[p] + 1)..5
          BY <1>2, <2>1, <2>6 DEF ExecuteScript, Scripts
    <3>2. CASE step[p] = 5
      <4>1. (step[p] + 1)..5 = {} BY <3>2
      <4> QED BY <2>4, <3>1, <4>1
    <3>3. CASE step[p] # 5
      <4>1. pc'[p] = "script" /\ step'[p] = step[p] + 1
            BY <1>2, <3>3 DEF ExecuteScript, GotoStep, TypeOK
      <4> QED BY <3>1, <4>1 DEF SomebodyCompletes
    <3> QED BY <3>2, <3>3
  <2>7. ASSUME NEW q \in Procs, q # p,
               \/ pc[q] = "drop"
               \/ pc[q] = "script" /\ Scripts \ schema \subseteq step[q]..5
        PROVE  SomebodyCompletes'
    <3>1. pc'[q] = pc[q] /\ step'[q] = step[q]
          BY <1>2, <2>7 DEF ExecuteScript, Goto, GotoStep, TypeOK
    <3> QED BY <2>4, <2>7, <3>1 DEF SomebodyCompletes
  <2>8. CASE schema = {} BY <2>1, <2>6, <2>8 DEF Scripts
  <2>9. CASE SomebodyCompletes
        BY <1>2, <2>6, <2>7, <2>9 DEF SomebodyCompletes, ExecuteScript
  <2> QED BY <2>3, <2>5, <2>8, <2>9 DEF HalfIsUnderWay
<1>3. CASE ScriptFails(p)
  <2>1. pc'[p] = "drop" BY <1>3 DEF ScriptFails, Goto, GotoStep, TypeOK
  <2> QED BY <1>3, <2>1 DEF ScriptFails, HalfIsUnderWay, SomebodyCompletes
<1>4. CASE DropSchema(p) BY <1>4 DEF DropSchema, HalfIsUnderWay
<1>5. CASE NewFails(p)
  <2>1. CASE pc[p] = "drop" BY <1>5, <2>1 DEF NewFails, HalfIsUnderWay
  <2>2. CASE pc[p] # "drop"
        BY <1>5, <2>2, <1>1 DEF NewFails, Return, Goto, GotoStep, TypeOK, Bootstrapping
  <2> QED BY <2>1, <2>2
<1>6. CASE Kill(p)
  <2>1. CASE pc[p] \in Bootstrapping BY <1>6, <2>1 DEF Kill, HalfIsUnderWay
  <2>2. CASE pc[p] \notin Bootstrapping
        BY <1>6, <2>2, <1>1 DEF Kill, Goto, GotoStep, TypeOK
  <2> QED BY <2>1, <2>2
<1>7. CASE \/ Signal(p) \/ Rest(p)
  <2>1. UNCHANGED <<schema, harm, pc, step>>
        BY <1>7 DEF Signal, Rest, StartChain, Answer200, SendStarted, StartDropped, db
  <2> QED BY <2>1 DEF HalfIsUnderWay, SomebodyCompletes
<1>8. CASE \/ Start(p) \/ ConfigError(p) \/ BadConnStr(p) \/ Connect(p) \/ ConnectCancelled(p)
           \/ SchemaExists(p) \/ ExecuteFileScripts(p)
  <2>1. pc[p] \notin Bootstrapping /\ UNCHANGED <<schema, harm>>
        BY <1>8 DEF Start, ConfigError, BadConnStr, Connect, ConnectCancelled, SchemaExists,
                    ExecuteFileScripts, db, Bootstrapping
  <2>2. \A q \in Procs \ {p} : pc'[q] = pc[q] /\ step'[q] = step[q]
        BY <1>8 DEF Start, ConfigError, BadConnStr, Connect, ConnectCancelled, SchemaExists,
                    ExecuteFileScripts, Return, Goto, GotoStep, TypeOK
  <2> QED BY <1>1, <2>1, <2>2
<1>9. CASE \/ AcquireFails(p) \/ CheckNeedMigrateDb(p) \/ MigrateDb(p) \/ ApplyMigration(p)
           \/ AllApplied(p) \/ MigrationFails(p) \/ Run(p) \/ Finalize(p) \/ Exit(p)
  <2>1. pc[p] \notin Bootstrapping /\ UNCHANGED <<schema, harm>>
        BY <1>9 DEF AcquireFails, CheckNeedMigrateDb, MigrateDb, ApplyMigration, AllApplied,
                    MigrationFails, Run, Finalize, Exit, db, Bootstrapping
  <2>2. \A q \in Procs \ {p} : pc'[q] = pc[q] /\ step'[q] = step[q]
        BY <1>9 DEF AcquireFails, CheckNeedMigrateDb, MigrateDb, ApplyMigration, AllApplied,
                    MigrationFails, Run, Finalize, Exit, Migrated, Return, Goto, GotoStep, TypeOK
  <2> QED BY <1>1, <2>1, <2>2
<1> QED BY <1>2, <1>3, <1>4, <1>5, <1>6, <1>7, <1>8, <1>9 DEF Proceeds

\* What a run has seen of the schema stays while no bootstrap fails.
LEMMA SeenStep ==
    ASSUME TypeOK, HalfIsUnderWay, SeenStays, NEW p \in Procs,
           \/ Start(p) \/ ConfigError(p) \/ BadConnStr(p)
           \/ Proceeds(p) \/ Rest(p) \/ Signal(p) \/ Kill(p)
    PROVE  SeenStays'
<1> USE LifecycleAssumption
<1> DEFINE Sees(q) == /\ pc[q] # "drop"
                      /\ pc[q] \in {"files", "migrate", "upgrade", "applying"} => schema # {}
                      /\ pc[q] = "applying" => step[q] <= migrated + 1
                      /\ Passed(q) => schema # {} /\ migrated = Migrations
<1>1. SUFFICES ASSUME harm' = "none", harm = "none"
               PROVE  \A q \in Procs : Sees(q)'
  <2>1. harm' = "none" => harm = "none"
        BY DEF Start, ConfigError, BadConnStr, Proceeds, Connect, ConnectCancelled, SchemaExists,
               ExecuteScript, ScriptFails, DropSchema, NewFails, ExecuteFileScripts, AcquireFails,
               CheckNeedMigrateDb, MigrateDb, ApplyMigration, AllApplied, MigrationFails, Run,
               Finalize, Exit, Rest, StartChain, Answer200, SendStarted, StartDropped, Signal,
               Kill, db
  <2> QED BY <2>1 DEF SeenStays
<1>2. \A q \in Procs : Sees(q) BY <1>1 DEF SeenStays
<1> HIDE DEF Sees
<1>3. \A q \in Procs \ {p} : /\ pc'[q] = pc[q] /\ step'[q] = step[q]
                             /\ code'[q] = code[q] /\ request'[q] = request[q]
      BY DEF Start, ConfigError, BadConnStr, Proceeds, Connect, ConnectCancelled, SchemaExists,
             ExecuteScript, ScriptFails, DropSchema, NewFails, ExecuteFileScripts, AcquireFails,
             CheckNeedMigrateDb, MigrateDb, ApplyMigration, AllApplied, MigrationFails, Run,
             Finalize, Exit, Rest, StartChain, Answer200, SendStarted, StartDropped, Signal,
             Kill, Migrated, Return, Goto, GotoStep, TypeOK
<1>4. /\ schema # {} => schema' # {}
      /\ migrated <= migrated' /\ migrated' \in 0..Migrations
  <2>1. pc[p] # "drop" BY <1>2 DEF Sees
  <2>2. CASE ExecuteScript(p)
        BY <2>2, InRange DEF ExecuteScript, TypeOK
  <2>3. CASE ApplyMigration(p) BY <2>3 DEF ApplyMigration, TypeOK
  <2>4. CASE UNCHANGED <<schema, migrated>> BY <2>4 DEF TypeOK
  <2> QED BY <2>1, <2>2, <2>3, <2>4
          DEF Start, ConfigError, BadConnStr, Proceeds, Connect, ConnectCancelled, SchemaExists,
              ScriptFails, DropSchema, NewFails, ExecuteFileScripts, AcquireFails,
              CheckNeedMigrateDb, MigrateDb, AllApplied, MigrationFails, Run,
              Finalize, Exit, Rest, StartChain, Answer200, SendStarted, StartDropped, Signal,
              Kill, db
<1>5. \A q \in Procs \ {p} : Sees(q)'
      BY <1>2, <1>3, <1>4 DEF Sees, Passed, TypeOK
<1>6. Sees(p)'
  <2> USE DEF Sees, Passed, TypeOK
  <2>1. Sees(p) /\ migrated \in Nat BY <1>2
  <2>2. CASE Start(p) \/ ConfigError(p) \/ BadConnStr(p) \/ Connect(p) \/ ConnectCancelled(p)
        BY <2>1, <2>2, <1>4 DEF Start, ConfigError, BadConnStr, Connect, ConnectCancelled, Return,
                                Goto, GotoStep, db
  <2>3. CASE SchemaExists(p)
        BY <2>1, <2>3 DEF SchemaExists, Goto, GotoStep, db
  <2>4. CASE ExecuteScript(p)
    <3>1. pc[p] = "script" /\ schema' # {}
          BY <2>4, InRange DEF ExecuteScript
    <3>2. pc'[p] \in {"files", "script"} /\ code' = code /\ request' = request
          BY <2>4 DEF ExecuteScript, Goto, GotoStep
    <3>3. request[p] # "none" => migrated' = Migrations
          BY <2>1, <2>4 DEF ExecuteScript
    <3> QED BY <3>1, <3>2, <3>3, <2>1
  <2>5. CASE ScriptFails(p) BY <1>1, <2>5 DEF ScriptFails
  <2>6. CASE DropSchema(p) BY <2>1, <2>6 DEF DropSchema
  <2>7. CASE NewFails(p) BY <2>1, <2>7 DEF NewFails, Return, Goto, GotoStep
  <2>8. CASE ExecuteFileScripts(p) BY <2>1, <2>8 DEF ExecuteFileScripts, Goto, GotoStep, db
  <2>9. CASE AcquireFails(p) BY <2>1, <2>9 DEF AcquireFails, Return, Goto, GotoStep, db
  <2>10. CASE CheckNeedMigrateDb(p)
    <3>1. pc[p] = "migrate" /\ schema # {} BY <2>1, <2>10 DEF CheckNeedMigrateDb
    <3>2. IF migrated < Migrations THEN Return(p, "UpgradeError", "finalize") ELSE Migrated(p)
          BY <2>10, <3>1 DEF CheckNeedMigrateDb
    <3>3. UNCHANGED <<schema, migrated, request>> BY <2>10 DEF CheckNeedMigrateDb, db
    <3>4. CASE migrated < Migrations
          BY <2>1, <3>1, <3>2, <3>3, <3>4 DEF Return, Goto, GotoStep
    <3>5. CASE ~(migrated < Migrations)
      <4>1. migrated = Migrations BY <3>5
      <4> QED BY <2>1, <3>1, <3>2, <3>3, <3>5, <4>1 DEF Migrated, Return, Goto, GotoStep
    <3> QED BY <3>4, <3>5
  <2>11. CASE MigrateDb(p) BY <2>1, <2>11 DEF MigrateDb, Goto, GotoStep, db
  <2>12. CASE ApplyMigration(p) BY <1>4, <2>1, <2>12 DEF ApplyMigration, Goto, GotoStep
  <2>13. CASE AllApplied(p)
    <3>1. /\ step[p] > Migrations /\ step[p] <= migrated + 1 /\ migrated <= Migrations
          /\ step[p] \in Nat /\ migrated \in Nat /\ Migrations \in Nat
          BY <2>1, <2>13, LifecycleAssumption DEF AllApplied
    <3>2. migrated = Migrations BY <3>1
    <3> QED BY <3>2, <2>1, <2>13 DEF AllApplied, Migrated, Return, Goto, GotoStep, db
  <2>14. CASE MigrationFails(p) BY <2>1, <2>14 DEF MigrationFails, Return, Goto, GotoStep, db
  <2>15. CASE Run(p) \/ Finalize(p) \/ Exit(p)
         BY <2>1, <2>15 DEF Run, Finalize, Exit, Return, Goto, GotoStep, db
  <2>16. CASE Signal(p) BY <2>1, <2>16 DEF Signal, db
  <2>17. CASE Kill(p) BY <2>1, <2>17 DEF Kill, Goto, GotoStep
  <2>18. CASE Rest(p)
         BY <2>1, <2>18 DEF Rest, StartChain, APIHandlerSet, HadMainLoop, Answer200, SendStarted,
                            StartDropped, db
  <2> QED BY <2>2, <2>3, <2>4, <2>5, <2>6, <2>7, <2>8, <2>9, <2>10, <2>11, <2>12, <2>13, <2>14,
             <2>15, <2>16, <2>17, <2>18 DEF Proceeds
<1> QED BY <1>5, <1>6 DEF Sees

LEMMA NextIInv == IInv /\ [Next]_vars => IInv'
<1> SUFFICES ASSUME IInv, [Next]_vars PROVE IInv' OBVIOUS
<1>1. CASE UNCHANGED vars
  <2>1. TypeOK' BY <1>1 DEF IInv, vars, TypeOK
  <2>2. HalfIsUnderWay' BY <1>1 DEF IInv, vars, HalfIsUnderWay, SomebodyCompletes
  <2>3. SeenStays' BY <1>1 DEF IInv, vars, SeenStays, Passed
  <2> QED BY <2>1, <2>2, <2>3 DEF IInv
<1> QED BY <1>1, TypeStep, HalfStep, SeenStep DEF IInv, Next

THEOREM Invariant == Spec => []IInv
BY InitIInv, NextIInv, PTL DEF Spec

-----------------------------------------------------------------------------
\* Every run of the program stays in the steps, options and statuses of the code.
THEOREM TypeCorrect == Spec => []TypeOK
<1>1. IInv => TypeOK BY DEF IInv
<1> QED BY <1>1, Invariant, PTL

\* Bootstraps that race or fail leave no part of the schema behind.
THEOREM NoPartLeft == Spec => []NoHalfSchema
<1>1. IInv => NoHalfSchema
      BY DEF IInv, HalfIsUnderWay, SomebodyCompletes, NoHalfSchema, Quiet, Bootstrapping
<1> QED BY <1>1, Invariant, PTL

\* Whoever is ready has the whole schema and every migration.
THEOREM ReadyIsUsable == Spec => []ReadyMeansUsable
<1>1. IInv => ReadyMeansUsable
  <2> SUFFICES ASSUME IInv, harm = "none", Quiet, NEW p \in Procs, Ready(p) PROVE Usable
      BY DEF ReadyMeansUsable
  <2>1. schema \in {{}, Scripts}
        BY DEF IInv, HalfIsUnderWay, SomebodyCompletes, Quiet, Bootstrapping
  <2>2. Passed(p) BY DEF Ready, InitDone, Passed
  <2> QED BY <2>1, <2>2 DEF IInv, SeenStays, Usable
<1> QED BY <1>1, Invariant, PTL
=============================================================================
