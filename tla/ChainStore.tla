----------------------------- MODULE ChainStore -----------------------------
(***************************************************************************)
(* The tables chain, task and parameter, and who changes them while        *)
(* workers read them: imports of YAML files, which insert row by row       *)
(* outside a transaction, and the SQL functions of job_functions.sql.  A    *)
(* move of a task reads in one snapshot and writes after it has waited for *)
(* the rows, so that other calls come in between.                          *)
(***************************************************************************)
EXTENDS Naturals, Sequences, FiniteSets, SequencesExt

CONSTANTS
    Importers,  \* runs of pg_timetable --file, one file each
    Setups,     \* initial states: the files of the importers, the task_order of each task of
                \* the user's chain, and the bound on calls of the SQL functions
    Replace,    \* whether an importer was given --replace
    Workers,
    Names,      \* chain names
    Job,        \* what add_job inserts: a chain with one task
    UserChain,  \* the name of the user's chain
    MaxFaults   \* bound on failed statements

\* A chain of a file: its max_instances, or 0 if there is none, and whether run_at holds as
\* many fields as ValidateChain wants, with values the domain cron accepts.
Task == [kind : {"", "SQL", "sql"}, live : {"", "true", "false"}, params : Nat]
YamlChain == [name : Names, schedule : {"accepted", "out_of_range", "four_fields"},
              live : BOOLEAN, max : Nat, tasks : Seq(Task)]

ASSUME ChainStoreAssumption ==
    /\ Setups \subseteq [file : [Importers -> Seq(YamlChain)], orders : Seq(Nat), edits : Nat]
    /\ Replace \in [Importers -> BOOLEAN]
    /\ UserChain \in Names
    /\ Job \in YamlChain /\ Len(Job.tasks) = 1
    /\ Job.tasks[1].live # "false" /\ Job.tasks[1].params = 1
    /\ MaxFaults \in Nat

VARIABLES
    chain,      \* rows of chain, each with what its author meant it to be
    task,       \* rows of task, with the number of their rows of parameter
    lastChain,  \* sequence of chain_id
    file,       \* content of each importer's file
    import,     \* where each importer is
    worker,     \* where each worker is
    moves,      \* calls of move_task_up and move_task_down that have read and not yet written
    edits,      \* calls of the SQL functions that are still to come
    faults,
    edited,     \* history: chains whose tasks a user has changed
    imported    \* history: chains that were imported to the end

counters == <<edits, faults>>
history == <<edited, imported>>
vars == <<chain, task, lastChain, file, import, worker, moves, counters, history>>

\* The tasks of a chain are numbered as they come, as task_id does; last is the last number.
ChainRow == [id : Nat, name : Names, live : BOOLEAN, max : Nat, last : Nat, def : YamlChain]
TaskRow == [chain : Nat, no : Nat \ {0}, order : Nat, live : BOOLEAN, params : Nat]

\* The chain it is at, the row it has inserted for it, and the last task and parameter.
Import == [at : {"parse", "delete", "exists", "insert", "tasks", "done", "failed"},
           chain : Nat, id : Nat, task : Nat, param : Nat]

\* The chain it executes, the tasks it has read and those it has run, with their parameters.
\* whole is history: the import of the chain had come to its end when it was selected.
Worker == [at : {"idle", "selected", "admitted", "refused", "running"},
           id : Nat, max : Nat, def : YamlChain, whole : BOOLEAN,
           tasks : Seq(Nat), ran : Seq(Nat \X Nat)]

\* The two tasks that change places, as they were read, and what the snapshot of the
\* statement has for their chain.  call tells the calls apart.
Place == [no : Nat, order : Nat]
Move == [call : Nat, task : TaskRow, neighbour : TaskRow, seen : SUBSET Place]

TypeOK ==
    /\ chain \subseteq ChainRow /\ task \subseteq TaskRow
    /\ lastChain \in Nat
    /\ \A c, d \in chain : c.id = d.id \/ c.name = d.name => c = d
    /\ \A t, u \in task : t.chain = u.chain /\ t.no = u.no => t = u
    /\ \A t \in task : \E c \in chain : t.chain = c.id /\ t.no <= c.last
    /\ file \in [Importers -> Seq(YamlChain)]
    /\ import \in [Importers -> Import] /\ worker \in [Workers -> Worker]
    /\ moves \subseteq Move
    /\ edits \in Nat /\ faults \in 0..MaxFaults
    /\ edited \subseteq 1..lastChain /\ imported \subseteq 1..lastChain

Idle == [at |-> "idle", id |-> 0, max |-> 0, def |-> Job,
         whole |-> FALSE, tasks |-> <<>>, ran |-> <<>>]

UserDef(orders) ==
    [Job EXCEPT !.name = UserChain,
                !.tasks = [n \in DOMAIN orders |-> [kind |-> "SQL", live |-> "", params |-> 0]]]

Init ==
    /\ \E s \in Setups :
        /\ chain = {[id |-> 1, name |-> UserChain, live |-> FALSE, max |-> 1,
                     last |-> Len(s.orders), def |-> UserDef(s.orders)]}
        /\ task = {[chain |-> 1, no |-> n, order |-> s.orders[n], live |-> TRUE, params |-> 0]
                     : n \in DOMAIN s.orders}
        /\ file = s.file
        /\ edits = s.edits
    /\ lastChain = 1
    /\ import = [i \in Importers |-> [at |-> "parse", chain |-> 1, id |-> 0, task |-> 0, param |-> 0]]
    /\ worker = [w \in Workers |-> Idle]
    /\ moves = {}
    /\ faults = 0
    /\ edited = {1} /\ imported = {}

-----------------------------------------------------------------------------
(* Rows.                                                                   *)

TasksOf(id) == {t \in task : t.chain = id}
Named(name) == {c \in chain : c.name = name}

\* The row of a chain definition: an omitted max_instances is stored as 0.
NewChain(def) ==
    [id |-> lastChain + 1, name |-> def.name, live |-> def.live, max |-> def.max, last |-> 0,
     def |-> def]

NewTask(c, order, live, params) ==
    [chain |-> c.id, no |-> c.last + 1, order |-> order, live |-> live, params |-> params]

AddTask(c, order, live, params) ==
    /\ task' = task \cup {NewTask(c, order, live, params)}
    /\ chain' = (chain \ {c}) \cup {[c EXCEPT !.last = @ + 1]}

\* DELETE of chains, which cascades to their tasks and parameters.
DeleteChains(rows) ==
    /\ chain' = chain \ rows
    /\ task' = {t \in task : \A c \in rows : t.chain # c.id}

-----------------------------------------------------------------------------
(* LoadYamlChains and CreateChainFromYaml.                                 *)

Current(i) == file[i][import[i].chain]
Goto(i, at) == import' = [import EXCEPT ![i].at = at]
At(i, at) == import[i].at = at /\ UNCHANGED <<file, worker, moves, edits, edited>>

\* ValidateTask compares the kind without regard to case.
ValidateChain(def) ==
    /\ def.schedule # "four_fields"
    /\ def.tasks # <<>>

\* Where the import of the next chain begins.
Begin(i) == IF Replace[i] THEN "delete" ELSE "exists"

\* ParseYamlFile looks at the whole file before anything is imported; a file without chains
\* is imported at once.
ParseYamlFile(i) ==
    /\ At(i, "parse")
    /\ Goto(i, IF \E n \in DOMAIN file[i] : ~ValidateChain(file[i][n]) THEN "failed"
                ELSE IF file[i] = <<>> THEN "done" ELSE Begin(i))
    /\ UNCHANGED <<chain, task, lastChain, faults, imported>>

\* Mutant: nothing is deleted.
DeleteNothing(i) ==
    /\ At(i, "delete")
    /\ Goto(i, "exists")
    /\ UNCHANGED <<chain, task, lastChain, faults, imported>>

\* delete_job; its outcome is ignored.
DeleteReplaced(i) ==
    /\ At(i, "delete")
    /\ Goto(i, "exists")
    /\ \/ DeleteChains(Named(Current(i).name)) /\ UNCHANGED faults
       \/ faults < MaxFaults /\ faults' = faults + 1 /\ UNCHANGED <<chain, task>>
    /\ UNCHANGED <<lastChain, imported>>

CheckExists(i) ==
    /\ At(i, "exists")
    /\ Goto(i, IF Named(Current(i).name) # {} /\ ~Replace[i] THEN "failed" ELSE "insert")
    /\ UNCHANGED <<chain, task, lastChain, faults, imported>>

\* The domain cron and UNIQUE chain_name are checked now.
InsertChain(i) ==
    /\ At(i, "insert")
    /\ IF Current(i).schedule = "accepted" /\ Named(Current(i).name) = {}
         THEN /\ chain' = chain \cup {NewChain(Current(i))}
              /\ lastChain' = lastChain + 1
              /\ import' = [import EXCEPT ![i].at = "tasks", ![i].id = lastChain + 1]
         ELSE Goto(i, "failed") /\ UNCHANGED <<chain, lastChain>>
    /\ UNCHANGED <<task, faults, imported>>

\* Whether the task inserted last lacks parameters, or the chain tasks.
ParamsLeft(i) ==
    /\ import[i].task > 0
    /\ import[i].param < Current(i).tasks[import[i].task].params

TasksLeft(i) == ~ParamsLeft(i) /\ import[i].task < Len(Current(i).tasks)

\* The row of a task, if its chain is still there and its kind is one of command_kind.
InsertTaskAt(i, order, live) ==
    LET spec == Current(i).tasks[import[i].task + 1] IN
    /\ At(i, "tasks") /\ TasksLeft(i)
    /\ IF spec.kind # "sql" /\ \E c \in chain : c.id = import[i].id
         THEN /\ \E c \in chain : c.id = import[i].id /\ AddTask(c, order, live, 0)
              /\ import' = [import EXCEPT ![i].task = @ + 1, ![i].param = 0]
         ELSE Goto(i, "failed") /\ UNCHANGED <<chain, task>>
    /\ UNCHANGED <<lastChain, faults, imported>>

\* Mutants: a task is not live unless it says so; the last task gets the lowest order.
InsertTaskIfLive(i) ==
    InsertTaskAt(i, 10 * (import[i].task + 1), Current(i).tasks[import[i].task + 1].live = "true")
InsertTaskReversed(i) ==
    InsertTaskAt(i, 100 - 10 * import[i].task, Current(i).tasks[import[i].task + 1].live # "false")

InsertTask(i) ==
    InsertTaskAt(i, 10 * (import[i].task + 1), Current(i).tasks[import[i].task + 1].live # "false")

InsertParameter(i) ==
    /\ At(i, "tasks") /\ ParamsLeft(i)
    /\ \E t \in task :
        /\ t.chain = import[i].id /\ t.no = import[i].task
        /\ task' = (task \ {t}) \cup {[t EXCEPT !.params = @ + 1]}
    /\ import' = [import EXCEPT ![i].param = @ + 1]
    /\ UNCHANGED <<chain, lastChain, faults, imported>>

\* The task of the parameter is gone.
ParameterRefused(i) ==
    /\ At(i, "tasks") /\ ParamsLeft(i)
    /\ \A t \in task : t.chain # import[i].id \/ t.no # import[i].task
    /\ Goto(i, "failed")
    /\ UNCHANGED <<chain, task, lastChain, faults, imported>>

\* The next chain of the file.
ChainDone(i) ==
    /\ At(i, "tasks") /\ ~ParamsLeft(i) /\ ~TasksLeft(i)
    /\ import' = [import EXCEPT ![i] =
         [at |-> IF @.chain < Len(file[i]) THEN Begin(i) ELSE "done",
          chain |-> IF @.chain < Len(file[i]) THEN @.chain + 1 ELSE @.chain,
          id |-> 0, task |-> 0, param |-> 0]]
    /\ imported' = imported \cup {import[i].id}
    /\ UNCHANGED <<chain, task, lastChain, faults>>

\* Mutant: a failed INSERT of a parameter is ignored.
ParameterFailureIgnored(i) ==
    /\ At(i, "tasks") /\ ParamsLeft(i)
    /\ faults < MaxFaults /\ faults' = faults + 1
    /\ import' = [import EXCEPT ![i].param = @ + 1]
    /\ UNCHANGED <<chain, task, lastChain, imported>>

\* A statement fails, the context ends or the process dies: LoadYamlChains gives up.
ImportFails(i) ==
    /\ import[i].at \in {"exists", "insert", "tasks"}
    /\ At(i, import[i].at)
    /\ faults < MaxFaults /\ faults' = faults + 1
    /\ Goto(i, "failed")
    /\ UNCHANGED <<chain, task, lastChain, imported>>

\* pg_timetable is started again, with the same file.
StartAgain(i) ==
    /\ At(i, "failed") /\ Replace[i]
    /\ import' = [import EXCEPT ![i] = [at |-> "parse", chain |-> 1, id |-> 0, task |-> 0, param |-> 0]]
    /\ UNCHANGED <<chain, task, lastChain, faults, imported>>

-----------------------------------------------------------------------------
(* job_functions.sql.                                                      *)

Call ==
    /\ edits > 0 /\ edits' = edits - 1
    /\ UNCHANGED <<file, import, worker, faults, imported>>

Edit == Call /\ UNCHANGED moves

\* One statement inserts the chain, its task and its parameter.
add_job ==
    /\ Edit
    /\ Named(Job.name) = {}
    /\ LET c == NewChain(Job) IN
        /\ chain' = chain \cup {[c EXCEPT !.last = 1]}
        /\ task' = task \cup {NewTask(c, 10, TRUE, 1)}
    /\ lastChain' = lastChain + 1
    /\ UNCHANGED edited

delete_job(name) ==
    /\ Edit
    /\ DeleteChains(Named(name))
    /\ UNCHANGED <<lastChain, edited>>

\* pause_job and resume_job.
SetLive(name, live) ==
    /\ Edit
    /\ chain' = {IF c.name = name THEN [c EXCEPT !.live = live] ELSE c : c \in chain}
    /\ UNCHANGED <<task, lastChain, edited>>

\* The order of the new task may be that of another one.
add_task(parent, order_delta) ==
    /\ Edit
    /\ \E c \in chain : c.id = parent.chain /\ AddTask(c, parent.order + order_delta, TRUE, 0)
    /\ edited' = edited \cup {parent.chain}
    /\ UNCHANGED lastChain

delete_task(t) ==
    /\ Edit
    /\ task' = task \ {t}
    /\ edited' = edited \cup {t.chain}
    /\ UNCHANGED <<chain, lastChain>>

\* What a snapshot has for the tasks of a chain.
Places(id) == {[no |-> t.no, order |-> t.order] : t \in TasksOf(id)}

\* Mutant: the window is not ordered by the distance.
ReadMoveUnordered(t, others) ==
    /\ Call
    /\ \E u \in others :
        moves' = moves \cup
          {[call |-> edits, task |-> t, neighbour |-> u, seen |-> Places(t.chain)]}
    /\ UNCHANGED <<chain, task, lastChain, edited>>

\* The CTE tasks: the task and the nearest of the others, which LAG and LEAD over the
\* distance find; if there is none nothing is updated.
ReadMove(t, others) ==
    /\ Call
    /\ \E u \in others :
        /\ \A v \in others : ~(t.order < v.order /\ v.order < u.order)
                             /\ ~(u.order < v.order /\ v.order < t.order)
        /\ moves' = moves \cup
             {[call |-> edits, task |-> t, neighbour |-> u, seen |-> Places(t.chain)]}
    /\ UNCHANGED <<chain, task, lastChain, edited>>

move_task_up(t) == ReadMove(t, {u \in TasksOf(t.chain) : u.order < t.order})
move_task_down(t) == ReadMove(t, {u \in TasksOf(t.chain) : u.order > t.order})

MoveEnds(m) ==
    /\ moves' = moves \ {m}
    /\ UNCHANGED <<chain, lastChain, file, import, worker, counters, imported>>

\* A row gets the order that the other one had in the snapshot.
Moved(m, t) ==
    [t EXCEPT !.order = IF t.chain # m.task.chain THEN @
                        ELSE IF t.no = m.task.no THEN m.neighbour.order
                        ELSE IF t.no = m.neighbour.no THEN m.task.order
                        ELSE @]

\* UPDATE finds the rows by task_id, waits for those that another call holds, and skips those
\* that are gone by then: under READ COMMITTED the orders remain those of the snapshot.
WriteMove(m) ==
    /\ MoveEnds(m)
    /\ task' = {Moved(m, t) : t \in task}
    /\ edited' = edited \cup {m.task.chain}

\* The statement is cancelled, or the victim of a deadlock of two moves.
CancelMove(m) ==
    /\ MoveEnds(m)
    /\ UNCHANGED <<task, edited>>

-----------------------------------------------------------------------------
(* A worker, as far as it reads these tables.                              *)

Work(w, from) ==
    /\ worker[w].at = from
    /\ UNCHANGED <<chain, task, lastChain, file, import, moves, counters, history>>

\* SelectChains and the like.
SelectChain(w) ==
    /\ Work(w, worker[w].at) /\ worker[w].at \in {"idle", "refused"}
    /\ \E c \in chain :
        /\ c.live
        /\ worker' = [worker EXCEPT ![w] =
             [at |-> "selected", id |-> c.id, max |-> c.max, def |-> c.def,
              whole |-> c.id \in imported, tasks |-> <<>>, ran |-> <<>>]]

Instances(id) ==
    Cardinality({w \in Workers : worker[w].at \in {"admitted", "running"} /\ worker[w].id = id})

\* The worker is refused when max_instances of the row are active.
InsertChainRunStatus(w) ==
    /\ Work(w, "selected")
    /\ worker' = [worker EXCEPT ![w].at =
         IF Instances(worker[w].id) < worker[w].max THEN "admitted" ELSE "refused"]

\* Tasks of equal order come in any sequence.
GetChainElements(w) ==
    /\ Work(w, "admitted")
    /\ \E s \in SetToSeqs({t \in TasksOf(worker[w].id) : t.live}) :
        /\ \A m, n \in DOMAIN s : m < n => s[m].order <= s[n].order
        /\ worker' = [worker EXCEPT ![w].at = "running", ![w].tasks = [n \in DOMAIN s |-> s[n].no]]

\* executeTask: the parameters that are there now, which are none if the task is gone.
GetChainParamValues(w) ==
    LET no == worker[w].tasks[Len(worker[w].ran) + 1]
        row == {t \in TasksOf(worker[w].id) : t.no = no}
        params == IF row = {} THEN 0 ELSE (CHOOSE t \in row : TRUE).params
    IN
    /\ Work(w, "running")
    /\ Len(worker[w].ran) < Len(worker[w].tasks)
    /\ worker' = [worker EXCEPT ![w].ran = Append(@, <<no, params>>)]

RemoveChainRunStatus(w) ==
    /\ Work(w, "running")
    /\ Len(worker[w].ran) = Len(worker[w].tasks)
    /\ worker' = [worker EXCEPT ![w] = Idle]

-----------------------------------------------------------------------------
ImportStep(i) ==
    \/ ParseYamlFile(i) \/ DeleteReplaced(i) \/ CheckExists(i) \/ InsertChain(i)
    \/ InsertTask(i) \/ InsertParameter(i) \/ ParameterRefused(i) \/ ChainDone(i) \/ StartAgain(i)

UserStep ==
    \/ add_job
    \/ \E name \in Names : delete_job(name) \/ \E live \in BOOLEAN : SetLive(name, live)
    \/ \E t \in task : add_task(t, 10) \/ delete_task(t) \/ move_task_up(t) \/ move_task_down(t)
    \/ \E m \in moves : WriteMove(m) \/ CancelMove(m)

WorkerStep(w) ==
    \/ SelectChain(w) \/ InsertChainRunStatus(w) \/ GetChainElements(w)
    \/ GetChainParamValues(w) \/ RemoveChainRunStatus(w)

Next ==
    \/ \E i \in Importers : ImportStep(i) \/ ImportFails(i)
    \/ \E w \in Workers : WorkerStep(w)
    \/ UserStep

Spec == Init /\ [][Next]_vars

\* The server answers, and an import with --replace is repeated until it succeeds.
LiveSpec == Spec /\ \A i \in Importers : WF_vars(ImportStep(i))

-----------------------------------------------------------------------------
(* Properties                                                              *)

\* Numbers of the tasks of a definition that are live.
Enabled(def) == {n \in DOMAIN def.tasks : def.tasks[n].live # "false"}

\* A chain that LoadYamlChains reports as imported has all its tasks and parameters, in file
\* order and with the defaults of the file format, until it is deleted or edited, whatever
\* other imports delete and insert at the same time.
ImportedIsComplete ==
    \A c \in chain : c.id \in imported \ edited =>
        /\ {t.no : t \in TasksOf(c.id)} = DOMAIN c.def.tasks
        /\ \A t \in TasksOf(c.id) :
            /\ t.params = c.def.tasks[t.no].params
            /\ t.live <=> c.def.tasks[t.no].live # "false"
            /\ \A u \in TasksOf(c.id) : t.no < u.no => t.order < u.order

\* A worker that picks up a live chain in the middle of its import, or after it has failed,
\* runs the first tasks of the chain, in file order, and each with the first of its
\* parameters: it never skips one (CreateChainFromYaml, GetChainElements).
RunsPrefix ==
    \A w \in Workers : worker[w].id # 0 /\ worker[w].id \notin edited =>
        LET def == worker[w].def
            ran == worker[w].ran
        IN \A n \in DOMAIN ran :
            /\ ran[n][1] \in Enabled(def)
            /\ {ran[m][1] : m \in 1..n - 1} = {k \in Enabled(def) : k < ran[n][1]}
            /\ ran[n][2] <= def.tasks[ran[n][1]].params

\* One that picks it up after the import runs all of it, each task with all its parameters,
\* unless it is deleted or edited in the meantime (executeChain reads the tasks and each
\* task's parameters apart).
RunsWhole ==
    \A w \in Workers :
        /\ worker[w].at = "running" /\ Len(worker[w].ran) = Len(worker[w].tasks)
        /\ worker[w].whole
        /\ worker[w].id \notin edited /\ \E c \in chain : c.id = worker[w].id
        => {worker[w].ran[n] : n \in DOMAIN worker[w].ran} =
             {<<k, worker[w].def.tasks[k].params>> : k \in Enabled(worker[w].def)}

\* Pairs of tasks that a step reverses, and how many tasks of a chain have some order.
Reversed ==
    {p \in task \X task :
        /\ p[1].chain = p[2].chain /\ p[1].order < p[2].order
        /\ \E c, d \in task' : /\ c.chain = p[1].chain /\ c.no = p[1].no /\ c.order > d.order
                               /\ d.chain = p[2].chain /\ d.no = p[2].no}
OrdersUsed(tasks, id) ==
    [o \in {t.order : t \in {u \in tasks : u.chain = id}} |->
       Cardinality({t \in tasks : t.chain = id /\ t.order = o})]
Reordered == {a \in task : \E b \in task' : b.chain = a.chain /\ b.no = a.no /\ b.order # a.order}

ExchangeTwo ==
    /\ Cardinality(Reversed) <= 1
    /\ \A a \in Reordered : OrdersUsed(task, a.chain) = OrdersUsed(task', a.chain)

\* The chain of a move is as its snapshot has it.
Undisturbed(m) == Places(m.task.chain) = m.seen

OnlyMovesReorder ==
    /\ Cardinality(Reordered) <= 2
    /\ \A a \in Reordered : \E m \in moves \ moves' : m.task.chain = a.chain
    /\ (\A m \in moves \ moves' : Undisturbed(m)) => ExchangeTwo

\* Nothing but a move reorders tasks, those of its own chain and never more than two.  If the
\* orders of the chain are still those of its snapshot when it writes, it exchanges two tasks
\* and leaves every other pair as it was, ties of task_order included (move_task_up,
\* move_task_down).  A move that another call has overtaken writes orders that are out of
\* date, and two such calls may reverse two pairs or leave two tasks with one order.
MovesExchangeTwo == [][OnlyMovesReorder]_vars

\* An import with --replace of a file that the database accepts succeeds in the end, whatever
\* earlier attempts and other imports have left behind (LoadYamlChains).
ReplaceSucceeds ==
    \A i \in Importers :
        Replace[i] /\ (\A n \in DOMAIN file[i] :
            /\ ValidateChain(file[i][n]) /\ file[i][n].schedule = "accepted"
            /\ \A m \in DOMAIN file[i][n].tasks : file[i][n].tasks[m].kind # "sql")
        ~> import[i].at = "done"
=============================================================================
