----------------------------- MODULE Lifecycle -----------------------------
(***************************************************************************)
(* Runs of the program against one database, from main to os.Exit: the      *)
(* connection, the five schema scripts, files, migrations, the main loop,   *)
(* Finalize and the exit status; and the REST server, which lives longer    *)
(* than the scheduler it talks to.  Runs may start at the same time, be     *)
(* interrupted or be killed between any two statements.                     *)
(***************************************************************************)
EXTENDS Naturals, FiniteSets

CONSTANTS
    Procs,       \* runs of the program
    Asked,       \* those whose REST server somebody asks to start a chain
    Migrations,  \* number of migrations the program knows
    MaxFaults    \* bound on failed statements, signals and kills

ASSUME LifecycleAssumption ==
    /\ Asked \subseteq Procs
    /\ Migrations \in Nat \ {0}
    /\ MaxFaults \in Nat

VARIABLES
    schema,    \* scripts whose objects are in the schema timetable
    migrated,  \* rows of timetable.migration
    harm,      \* history: what happened to a bootstrap
    pc,        \* where each run of the program is
    step,      \* its next script or migration
    opt,       \* its options, of --init and --upgrade
    signalled, \* runs that got SIGINT or SIGTERM: their context is done
    code,      \* exitCode
    request,   \* the REST request for START
    faults     \* how many went wrong so far

db == <<schema, migrated, harm>>
vars == <<schema, migrated, harm, pc, step, opt, signalled, code, request, faults>>

Scripts == 1..5

\* Init, Cron, Tables, JSON Schema, Job Functions: what each refers to, and which of them
\* create something that may not exist yet.
Needs == <<{}, {1}, {1, 2}, {1}, {1, 2, 3}>>
Fresh == {1, 2, 3}

Bootstrapping == {"script", "drop"}
Starting == {"connect", "exists", "files", "migrate", "upgrade", "applying"} \cup Bootstrapping
Gone     == {"exited", "killed", "refused"}
Codes    == {"OK", "DBEngineError", "UpgradeError", "UserCancel", "ShutdownCommand", "FatalError"}

Usable == schema = Scripts /\ migrated = Migrations

TypeOK ==
    /\ schema \subseteq Scripts
    /\ migrated \in 0..Migrations
    /\ harm \in {"none", "dropped", "cut"}
    /\ pc \in [Procs -> Starting \cup Gone \cup {"off", "run", "finalize", "exit"}]
    /\ step \in [Procs -> 0..5 \cup 1..Migrations + 1]
    /\ \A p \in Procs : pc[p] = "script" => step[p] \in Scripts
    /\ opt \in [Procs -> SUBSET {"init", "upgrade"}]
    /\ signalled \subseteq Procs
    /\ code \in [Procs -> Codes]
    /\ request \in [Procs -> {"none", "waiting", "answered", "early", "sent", "dropped"}]
    /\ faults \in 0..MaxFaults

\* A database without the schema, with one of an earlier version, or with this version's.
Init ==
    /\ \/ schema = {} /\ migrated = 0
       \/ schema = Scripts /\ migrated \in 0..Migrations
    /\ harm = "none"
    /\ pc = [p \in Procs |-> "off"]
    /\ step = [p \in Procs |-> 0]
    /\ opt = [p \in Procs |-> {}]
    /\ signalled = {}
    /\ code = [p \in Procs |-> "OK"]
    /\ request = [p \in Procs |-> "none"]
    /\ faults = 0

\* p goes to s, to script or migration i there.
GotoStep(p, s, i) ==
    /\ pc' = [pc EXCEPT ![p] = s]
    /\ step' = [step EXCEPT ![p] = i]

Goto(p, s) == GotoStep(p, s, 0)

Fault == faults < MaxFaults /\ faults' = faults + 1

\* A statement of p fails: its context is done, or something else went wrong.
Fails(p) == IF p \in signalled THEN UNCHANGED faults ELSE Fault

\* run returns c; Finalize is deferred once New has succeeded.
Return(p, c, s) ==
    /\ code' = [code EXCEPT ![p] = c]
    /\ Goto(p, s)

-----------------------------------------------------------------------------
(* New.                                                                     *)
Start(p) ==
    /\ pc[p] = "off"
    /\ \E o \in SUBSET {"init", "upgrade"} : opt' = [opt EXCEPT ![p] = o]
    /\ Goto(p, "connect")
    /\ UNCHANGED <<db, signalled, code, request, faults>>

\* main returns before the deferred os.Exit is in place: a configuration error exits with 0.
ConfigError(p) ==
    /\ pc[p] = "off"
    /\ Goto(p, "refused")
    /\ UNCHANGED <<db, opt, signalled, code, request, faults>>

\* A connection string that does not parse: New goes on with a nil configuration and panics.
BadConnStr(p) ==
    /\ pc[p] = "connect"
    /\ Fault
    /\ Return(p, "FatalError", "exit")
    /\ UNCHANGED <<db, opt, signalled, request>>

Connect(p) ==
    /\ pc[p] = "connect" /\ p \notin signalled
    /\ Goto(p, "exists")
    /\ UNCHANGED <<db, opt, signalled, code, request, faults>>

\* Retried without limit, until the context is done.
ConnectCancelled(p) ==
    /\ pc[p] = "connect" /\ p \in signalled
    /\ Return(p, "DBEngineError", "exit")
    /\ UNCHANGED <<db, opt, signalled, request, faults>>

SchemaExists(p) ==
    /\ pc[p] = "exists" /\ p \notin signalled
    /\ IF schema = {} THEN GotoStep(p, "script", 1) ELSE Goto(p, "files")
    /\ UNCHANGED <<db, opt, signalled, code, request, faults>>

Runnable(i) ==
    /\ Needs[i] \subseteq schema
    /\ i \in Fresh => i \notin schema

\* One script, one transaction.  The first also records all migrations as applied.
ExecuteScript(p) ==
    /\ pc[p] = "script" /\ p \notin signalled
    /\ Runnable(step[p])
    /\ schema' = schema \cup {step[p]}
    /\ migrated' = IF step[p] = 1 THEN Migrations ELSE migrated
    /\ IF step[p] = 5 THEN Goto(p, "files") ELSE GotoStep(p, "script", step[p] + 1)
    /\ UNCHANGED <<harm, opt, signalled, code, request, faults>>

\* A script of another run was here first or dropped what this one needs, or it just fails.
ScriptFails(p) ==
    /\ pc[p] = "script"
    /\ IF Runnable(step[p]) THEN Fails(p) ELSE UNCHANGED faults
    /\ harm' = IF harm = "cut" THEN "cut" ELSE "dropped"
    /\ Goto(p, "drop")
    /\ UNCHANGED <<schema, migrated, opt, signalled, code, request>>

\* Mutant: the schema that another run has created stays.
DropNothing(p) ==
    /\ pc[p] = "drop" /\ p \notin signalled
    /\ Goto(p, "files")
    /\ UNCHANGED <<db, opt, signalled, code, request, faults>>

\* DROP SCHEMA succeeds, and its nil error becomes the result of the bootstrap.
DropSchema(p) ==
    /\ pc[p] = "drop" /\ p \notin signalled
    /\ schema' = {} /\ migrated' = 0
    /\ Goto(p, "files")
    /\ UNCHANGED <<harm, opt, signalled, code, request, faults>>

\* The first query, DROP SCHEMA or a file fails: run returns without Finalize.
NewFails(p) ==
    /\ pc[p] \in {"exists", "drop", "files"}
    /\ Fails(p)
    /\ harm' = IF pc[p] = "drop" THEN "cut" ELSE harm
    /\ Return(p, "DBEngineError", "exit")
    /\ UNCHANGED <<schema, migrated, opt, signalled, request>>

ExecuteFileScripts(p) ==
    /\ pc[p] = "files"
    /\ Goto(p, IF "upgrade" \in opt[p] THEN "upgrade" ELSE "migrate")
    /\ UNCHANGED <<db, opt, signalled, code, request, faults>>

-----------------------------------------------------------------------------
(* Migrations.                                                              *)
\* No connection: conn.Release on a nil connection panics before err is looked at.
AcquireFails(p) ==
    /\ pc[p] \in {"migrate", "upgrade"}
    /\ Fails(p)
    /\ Return(p, "FatalError", "finalize")
    /\ UNCHANGED <<db, opt, signalled, request>>

\* What follows the migrations: --init is over, everybody else enters the main loop.
Migrated(p) ==
    IF "init" \in opt[p] THEN Return(p, "OK", "finalize")
                         ELSE Goto(p, "run") /\ UNCHANGED code

\* Mutant: a schema of an earlier version will do.
NeverNeedsUpgrade(p) ==
    /\ pc[p] = "migrate"
    /\ Migrated(p)
    /\ UNCHANGED <<db, opt, signalled, request, faults>>

\* Without the table of migrations the migrator reports no error, and either answer.
CheckNeedMigrateDb(p) ==
    /\ pc[p] = "migrate" /\ p \notin signalled
    /\ \E upgrade \in IF schema = {} THEN BOOLEAN ELSE {migrated < Migrations} :
          IF upgrade THEN Return(p, "UpgradeError", "finalize") ELSE Migrated(p)
    /\ UNCHANGED <<db, opt, signalled, request, faults>>

\* Mutant: the count taken for the last migration that was applied.
MigrateAgain(p) ==
    /\ pc[p] = "upgrade" /\ p \notin signalled
    /\ schema # {}
    /\ GotoStep(p, "applying", IF migrated = 0 THEN 1 ELSE migrated)
    /\ UNCHANGED <<db, opt, signalled, code, request, faults>>

\* The migrator counts the rows of timetable.migration once.
MigrateDb(p) ==
    /\ pc[p] = "upgrade" /\ p \notin signalled
    /\ schema # {}
    /\ GotoStep(p, "applying", migrated + 1)
    /\ UNCHANGED <<db, opt, signalled, code, request, faults>>

\* One migration, one transaction, with its number as the primary key of its row.
ApplyMigration(p) ==
    /\ pc[p] = "applying" /\ p \notin signalled
    /\ step[p] <= Migrations /\ step[p] = migrated + 1
    /\ migrated' = step[p]
    /\ GotoStep(p, "applying", step[p] + 1)
    /\ UNCHANGED <<schema, harm, opt, signalled, code, request, faults>>

AllApplied(p) ==
    /\ pc[p] = "applying" /\ step[p] > Migrations
    /\ Migrated(p)
    /\ UNCHANGED <<db, opt, signalled, request, faults>>

\* There is no schema, another run has applied this migration, or it just fails.
MigrationFails(p) ==
    /\ \/ pc[p] = "upgrade"
       \/ pc[p] = "applying" /\ step[p] <= Migrations
    /\ IF \/ pc[p] = "upgrade" /\ schema = {}
          \/ pc[p] = "applying" /\ step[p] # migrated + 1
       THEN UNCHANGED faults
       ELSE Fails(p)
    /\ Return(p, "UpgradeError", "finalize")
    /\ UNCHANGED <<db, opt, signalled, request>>

-----------------------------------------------------------------------------
(* The main loop and the end.                                               *)
Run(p) ==
    /\ pc[p] = "run"
    /\ \/ p \in signalled /\ Return(p, "OK", "finalize")
       \/ Return(p, "ShutdownCommand", "finalize")
    /\ UNCHANGED <<db, opt, signalled, request, faults>>

Finalize(p) ==
    /\ pc[p] = "finalize"
    /\ Goto(p, "exit")
    /\ UNCHANGED <<db, opt, signalled, code, request, faults>>

\* The signal handler sets exitCode after cancel(), main after run: either may be the last.
Exit(p) ==
    /\ pc[p] = "exit"
    /\ \E c \in {code[p]} \cup (IF p \in signalled THEN {"UserCancel"} ELSE {}) :
          Return(p, c, "exited")
    /\ request' = [request EXCEPT ![p] = "none"]
    /\ UNCHANGED <<db, opt, signalled, faults>>

Alive(p) == pc[p] \notin Gone \cup {"off"}

\* SIGINT or SIGTERM.
Signal(p) ==
    /\ Alive(p) /\ p \notin signalled
    /\ Fault
    /\ signalled' = signalled \cup {p}
    /\ UNCHANGED <<db, pc, step, opt, code, request>>

Kill(p) ==
    /\ Alive(p)
    /\ Fault
    /\ Goto(p, "killed")
    /\ harm' = IF pc[p] \in Bootstrapping THEN "cut" ELSE harm
    /\ request' = [request EXCEPT ![p] = "none"]
    /\ UNCHANGED <<schema, migrated, opt, signalled, code>>

-----------------------------------------------------------------------------
(* The REST server, which serves from before New until the process ends.    *)
HadMainLoop(p) == code[p] = "ShutdownCommand" \/ (code[p] = "OK" /\ "init" \notin opt[p])

APIHandlerSet(p) ==
    \/ pc[p] = "run"
    \/ pc[p] \in {"finalize", "exit"} /\ HadMainLoop(p)

\* A goroutine waits for the delay and for the context of the request.  Without a handler a
\* panic that net/http recovers, and 400 for an unknown chain, change nothing.
StartChain(p) ==
    /\ p \in Asked /\ APIHandlerSet(p)
    /\ request[p] = "none"
    /\ request' = [request EXCEPT ![p] = "waiting"]
    /\ UNCHANGED <<db, pc, step, opt, signalled, code, faults>>

\* 200, and the context of the request is done.
Answer200(p) ==
    /\ request[p] \in {"waiting", "early"}
    /\ request' = [request EXCEPT ![p] = IF @ = "early" THEN "sent" ELSE "answered"]
    /\ UNCHANGED <<db, pc, step, opt, signalled, code, faults>>

SendStarted(p) ==
    /\ request[p] \in {"waiting", "answered"}
    /\ request' = [request EXCEPT ![p] = IF @ = "waiting" THEN "early" ELSE "sent"]
    /\ UNCHANGED <<db, pc, step, opt, signalled, code, faults>>

\* The select of the goroutine takes the end of the context.
StartDropped(p) ==
    /\ request[p] = "answered"
    /\ request' = [request EXCEPT ![p] = "dropped"]
    /\ UNCHANGED <<db, pc, step, opt, signalled, code, faults>>

-----------------------------------------------------------------------------
Proceeds(p) ==
    \/ Connect(p) \/ ConnectCancelled(p) \/ SchemaExists(p)
    \/ ExecuteScript(p) \/ ScriptFails(p) \/ DropSchema(p) \/ NewFails(p)
    \/ ExecuteFileScripts(p)
    \/ AcquireFails(p) \/ CheckNeedMigrateDb(p)
    \/ MigrateDb(p) \/ ApplyMigration(p) \/ AllApplied(p) \/ MigrationFails(p)
    \/ Run(p) \/ Finalize(p) \/ Exit(p)

Rest(p) ==
    StartChain(p) \/ Answer200(p) \/ SendStarted(p) \/ StartDropped(p)

Next ==
    \/ \E p \in Procs : \/ Start(p) \/ ConfigError(p) \/ BadConnStr(p)
                        \/ Proceeds(p) \/ Rest(p)
                        \/ Signal(p) \/ Kill(p)
    \/ (\A p \in Procs : ~Alive(p) /\ pc[p] # "off") /\ UNCHANGED vars

Spec == Init /\ [][Next]_vars

\* A run of the program goes on, but for the main loop, which nothing ends by itself.
LiveSpec ==
    /\ Spec
    /\ \A p \in Procs : /\ WF_vars(pc[p] # "run" /\ Proceeds(p))
                        /\ WF_vars(p \in signalled /\ Run(p))
                        /\ WF_vars(Answer200(p)) /\ WF_vars(SendStarted(p))

-----------------------------------------------------------------------------
(* Properties.                                                              *)
InitDone(p) ==
    "init" \in opt[p] /\ code[p] = "OK" /\ pc[p] \in {"finalize", "exit", "exited"}

Ready(p) == pc[p] = "run" \/ InitDone(p) \/ request[p] # "none"

Quiet == \A p \in Procs : pc[p] \notin Bootstrapping

\* A scheduler in its main loop, a run of --init that returns 0 and a START that was accepted
\* stand for a complete schema with every migration, unless a bootstrap of any run was cut
\* short or made another one fail: then the next start takes what is left for a schema.
ReadyMeansUsable ==
    harm = "none" /\ Quiet /\ (\E p \in Procs : Ready(p)) => Usable

\* Two runs that create the schema at the same time may lose it, but leave no part of it, and
\* neither does a script that fails, unless a run ended or lost its database in the middle.
NoHalfSchema ==
    harm # "cut" /\ Quiet => schema \in {{}, Scripts}

\* When several runs upgrade at once all but one may fail, and the schema is upgraded.
UpgradeCompletes ==
    [](faults = 0 /\ harm = "none") =>
        \A p \in Procs : pc[p] = "applying" ~> migrated = Migrations

\* docs/api.md:20: status 200 "if the chain with the given id can be added to the worker queue".
AcceptedIsSent ==
    \A p \in Procs : request[p] = "answered" ~> request[p] \in {"sent", "none"}
=============================================================================
