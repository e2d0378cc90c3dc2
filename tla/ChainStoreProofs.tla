-------------------------- MODULE ChainStoreProofs --------------------------
(***************************************************************************)
(* For any files, importers, workers and calls of users: what LoadYamlChains *)
(* reports as imported is complete, a worker runs the first tasks of a chain *)
(* whose import is not complete, and all of one whose import is, and only    *)
(* moves reorder tasks, two of them, and by exchanging them if the chain is  *)
(* still as the move has read it.                                            *)
(***************************************************************************)
EXTENDS ChainStore, FiniteSetTheorems, TLAPS

\* A row of chain never gets the number of an earlier one.
Numbered ==
    /\ IsFiniteSet(task)
    /\ \A c \in chain : c.id \in 1..lastChain
    /\ \A i \in Importers : import[i].id \in 0..lastChain
    /\ \A w \in Workers : worker[w].id \in 0..lastChain
    /\ \A m \in moves : m.task.chain \in 1..lastChain

\* The two tasks of a move have different orders in its snapshot, and nothing between them.
Planned(m) ==
    /\ m.neighbour.chain = m.task.chain /\ m.neighbour.order # m.task.order
    /\ [no |-> m.task.no, order |-> m.task.order] \in m.seen
    /\ [no |-> m.neighbour.no, order |-> m.neighbour.order] \in m.seen
    /\ \A p \in m.seen : ~(m.task.order < p.order /\ p.order < m.neighbour.order)
                          /\ ~(m.neighbour.order < p.order /\ p.order < m.task.order)

\* Before and while an importer inserts tasks, it is at a chain of its file.
InFile(i) ==
    /\ import[i].at \in {"delete", "exists", "insert", "tasks"} =>
         import[i].chain \in DOMAIN file[i]
    /\ import[i].at \in {"parse", "delete", "exists", "insert"} =>
         import[i].task = 0 /\ import[i].param = 0
    /\ import[i].at = "parse" => import[i].chain = 1

\* The row an importer inserts tasks for is its own and not yet imported, and it is at a
\* task and a parameter of the definition.
Owner(i) == import[i].at = "tasks" =>
    /\ import[i].id # 0 /\ import[i].id \notin imported
    /\ \A j \in Importers : import[j].at = "tasks" /\ import[j].id = import[i].id => i = j
    /\ import[i].task \in 0..Len(Current(i).tasks)
    /\ IF import[i].task = 0 THEN import[i].param = 0
       ELSE import[i].param <= Current(i).tasks[import[i].task].params
    /\ \A c \in chain : c.id = import[i].id =>
         c.def = Current(i) /\ (c.id \in edited \/ c.last = import[i].task)

\* Unless a user has changed its tasks, a chain has the first tasks of its definition, all
\* of them with their parameters but the one that an importer is, or was, at.
AsDefined(c) ==
    /\ c.last <= Len(c.def.tasks)
    /\ \A n \in 1..c.last : \E t \in task : t.chain = c.id /\ t.no = n
    /\ \A t \in task : t.chain = c.id =>
        /\ t.order = 10 * t.no
        /\ t.live <=> c.def.tasks[t.no].live # "false"
        /\ t.params <= c.def.tasks[t.no].params
        /\ t.no < c.last \/ c.id \in imported => t.params = c.def.tasks[t.no].params
        /\ \A i \in Importers : import[i].at = "tasks" /\ import[i].id = c.id /\ t.no = c.last =>
             t.params = import[i].param
    /\ c.id \in imported => c.last = Len(c.def.tasks)
Rows == \A c \in chain : c.id \notin edited => AsDefined(c)

\* The tasks in the list of a worker are the first ones of the definition, and as long as
\* the row is there the definition is its.
Along(k) == k.id \notin edited =>
    /\ \A c \in chain : c.id = k.id => c.def = k.def
    /\ \A n \in DOMAIN k.tasks :
        /\ k.tasks[n] \in Enabled(k.def)
        /\ {k.tasks[m] : m \in 1..n - 1} = {j \in Enabled(k.def) : j < k.tasks[n]}
    /\ \A n \in DOMAIN k.ran : k.ran[n][2] <= k.def.tasks[k.tasks[n]].params

\* If the import had ended all live tasks are in the list and run with all their parameters.
Whole(k) == k.whole =>
    /\ k.id \in imported
    /\ k.id \notin edited /\ (\E c \in chain : c.id = k.id) =>
        /\ k.at = "running" => Enabled(k.def) \subseteq {k.tasks[n] : n \in DOMAIN k.tasks}
        /\ \A n \in DOMAIN k.ran : k.ran[n][2] = k.def.tasks[k.tasks[n]].params

Reading(k) ==
    /\ Len(k.ran) <= Len(k.tasks)
    /\ \A n \in DOMAIN k.ran : k.ran[n][1] = k.tasks[n]
    /\ k.at # "running" => k.tasks = <<>>
    /\ Along(k) /\ Whole(k)

IInv ==
    /\ TypeOK /\ Numbered
    /\ \A i \in Importers : InFile(i) /\ Owner(i)
    /\ Rows
    /\ \A w \in Workers : Reading(worker[w])
    /\ \A m \in moves : Planned(m)

-----------------------------------------------------------------------------
(* What is in the tables, and where the actors are.                        *)

Tables ==
    /\ chain \subseteq ChainRow /\ task \subseteq TaskRow /\ lastChain \in Nat
    /\ \A c, d \in chain : c.id = d.id \/ c.name = d.name => c = d
    /\ \A t, u \in task : t.chain = u.chain /\ t.no = u.no => t = u
    /\ \A t \in task : \E c \in chain : t.chain = c.id /\ t.no <= c.last
    /\ IsFiniteSet(task)
    /\ \A c \in chain : c.id \in 1..lastChain

Actors ==
    /\ file \in [Importers -> Seq(YamlChain)]
    /\ import \in [Importers -> Import] /\ worker \in [Workers -> Worker]
    /\ moves \subseteq Move
    /\ edits \in Nat /\ faults \in 0..MaxFaults
    /\ edited \subseteq 1..lastChain /\ imported \subseteq 1..lastChain
    /\ \A i \in Importers : import[i].id \in 0..lastChain
    /\ \A w \in Workers : worker[w].id \in 0..lastChain
    /\ \A m \in moves : m.task.chain \in 1..lastChain

\* The types with the numbering are those of the tables and those of who uses them.
LEMMA Typing == (TypeOK /\ Numbered <=> Tables /\ Actors) /\ (TypeOK /\ Numbered <=> Tables /\ Actors)'
BY DEF TypeOK, Numbered, Tables, Actors

\* A chain of a file is one.
LEMMA CurrentType ==
    ASSUME Actors, NEW i \in Importers, import[i].chain \in DOMAIN file[i]
    PROVE  Current(i) \in YamlChain
BY DEF Actors, Current

\* DELETE takes the tasks of a chain with it (ON DELETE CASCADE).
LEMMA DeleteTables ==
    ASSUME Tables, NEW rows, DeleteChains(rows), lastChain' = lastChain PROVE Tables'
<1>1. task' \subseteq task /\ chain' \subseteq chain BY DEF DeleteChains
<1>2. IsFiniteSet(task') BY <1>1, FS_Subset DEF Tables
<1>3. \A t \in task' : \E c \in chain' : t.chain = c.id /\ t.no <= c.last
      BY DEF DeleteChains, Tables
<1> QED BY <1>1, <1>2, <1>3 DEF Tables

\* An INSERT with a name that is free and a number of its own.
LEMMA NewRowTables ==
    ASSUME Tables, NEW c \in ChainRow, c.id = lastChain + 1, Named(c.name) = {},
           chain' = chain \cup {c}, lastChain' = lastChain + 1, task' = task
    PROVE  Tables'
<1>1. \A d \in chain : d.id # c.id /\ d.name # c.name BY DEF Tables, Named, ChainRow
<1> QED BY <1>1 DEF Tables, ChainRow

\* A task gets the next number of its chain.
LEMMA AddTaskTables ==
    ASSUME Tables, NEW c \in chain, NEW order \in Nat, NEW live \in BOOLEAN, NEW params \in Nat,
           AddTask(c, order, live, params), lastChain' = lastChain
    PROVE  Tables'
<1> DEFINE t == NewTask(c, order, live, params)
           d == [c EXCEPT !.last = @ + 1]
<1>1. c \in ChainRow /\ d \in ChainRow /\ t \in TaskRow
      BY DEF Tables, NewTask, ChainRow, TaskRow
<1>2. d.id = c.id /\ d.name = c.name /\ d.last = c.last + 1 /\ t.chain = c.id /\ t.no = c.last + 1
      BY <1>1 DEF ChainRow, NewTask
<1>3. chain' = (chain \ {c}) \cup {d} /\ task' = task \cup {t} BY DEF AddTask
<1> HIDE DEF t, d
<1>4. chain' \subseteq ChainRow /\ task' \subseteq TaskRow BY <1>1, <1>3 DEF Tables
<1>5. IsFiniteSet(task') BY <1>3, FS_AddElement DEF Tables
<1>6. \A x, y \in chain' : x.id = y.id \/ x.name = y.name => x = y BY <1>2, <1>3 DEF Tables
<1>7. \A u \in task : u.chain # t.chain \/ u.no # t.no
      BY <1>1, <1>2 DEF Tables, ChainRow, TaskRow
<1>8. \A u \in task' : \E x \in chain' : u.chain = x.id /\ u.no <= x.last
  <2> SUFFICES ASSUME NEW u \in task' PROVE \E x \in chain' : u.chain = x.id /\ u.no <= x.last
      OBVIOUS
  <2>1. CASE u = t BY <2>1, <1>1, <1>2, <1>3 DEF ChainRow
  <2>2. CASE u \in task
    <3>1. PICK x \in chain : u.chain = x.id /\ u.no <= x.last BY <2>2 DEF Tables
    <3>2. u \in TaskRow /\ x \in ChainRow BY <2>2 DEF Tables
    <3>3. CASE x = c BY <3>1, <3>2, <3>3, <1>1, <1>2, <1>3 DEF ChainRow, TaskRow
    <3>4. CASE x # c BY <3>1, <3>4, <1>3
    <3> QED BY <3>3, <3>4
  <2> QED BY <2>1, <2>2, <1>3
<1>9. \A x \in chain' : x.id \in 1..lastChain' BY <1>2, <1>3 DEF Tables
<1> QED BY <1>3, <1>4, <1>5, <1>6, <1>7, <1>8, <1>9 DEF Tables

\* Rows of task that change keep their place.
LEMMA UpdateTables ==
    ASSUME Tables, chain' = chain, lastChain' = lastChain,
           task' \subseteq TaskRow, IsFiniteSet(task'),
           \A t \in task' : \E u \in task : t.chain = u.chain /\ t.no = u.no,
           \A t, u \in task' : t.chain = u.chain /\ t.no = u.no => t = u
    PROVE  Tables'
BY DEF Tables

\* What the steps do to the tables, if anything.
LEMMA ImportTables ==
    ASSUME Tables, Actors, NEW i \in Importers, InFile(i), ImportStep(i) \/ ImportFails(i)
    PROVE  Tables'
<1>1. CASE UNCHANGED <<chain, task, lastChain>> BY <1>1 DEF Tables
<1>2. CASE InsertChain(i) /\ ~ UNCHANGED <<chain, task, lastChain>>
  <2>1. Current(i) \in YamlChain BY <1>2, CurrentType DEF InFile, InsertChain, At
  <2>2. NewChain(Current(i)) \in ChainRow /\ NewChain(Current(i)).id = lastChain + 1
        /\ NewChain(Current(i)).name = Current(i).name
        BY <2>1 DEF NewChain, ChainRow, YamlChain, Tables
  <2> QED BY <1>2, <2>2, NewRowTables DEF InsertChain
<1>3. CASE InsertTask(i) /\ ~ UNCHANGED <<chain, task, lastChain>>
  <2>1. import[i].task \in Nat BY DEF Actors, Import
  <2>2. PICK c \in chain : AddTask(c, 10 * (import[i].task + 1),
                                   Current(i).tasks[import[i].task + 1].live # "false", 0)
        BY <1>3 DEF InsertTask, InsertTaskAt
  <2>3. 10 * (import[i].task + 1) \in Nat /\ lastChain' = lastChain
        BY <2>1, <1>3 DEF InsertTask, InsertTaskAt
  <2> QED BY <2>2, <2>3, AddTaskTables
<1>4. CASE InsertParameter(i)
  <2>1. PICK t \in task : task' = (task \ {t}) \cup {[t EXCEPT !.params = @ + 1]}
        BY <1>4 DEF InsertParameter
  <2> DEFINE u == [t EXCEPT !.params = @ + 1]
  <2>2. t \in TaskRow /\ u \in TaskRow /\ u.chain = t.chain /\ u.no = t.no BY DEF Tables, TaskRow
  <2>3. task' = (task \ {t}) \cup {u} BY <2>1
  <2> HIDE DEF u
  <2>4. task' \subseteq TaskRow BY <2>2, <2>3 DEF Tables
  <2>5. IsFiniteSet(task') BY <2>3, FS_RemoveElement, FS_AddElement DEF Tables
  <2>6. \A x, y \in task' : x.chain = y.chain /\ x.no = y.no => x = y BY <2>2, <2>3 DEF Tables
  <2>7. \A x \in task' : \E y \in task : x.chain = y.chain /\ x.no = y.no BY <2>2, <2>3
  <2>8. UNCHANGED <<chain, lastChain>> BY <1>4 DEF InsertParameter
  <2> QED BY <2>4, <2>5, <2>6, <2>7, <2>8, UpdateTables
<1>5. CASE DeleteReplaced(i) /\ ~ UNCHANGED <<chain, task, lastChain>>
  BY <1>5, DeleteTables DEF DeleteReplaced
<1> QED BY <1>1, <1>2, <1>3, <1>4, <1>5
        DEF ImportStep, ImportFails, ParseYamlFile, DeleteReplaced, CheckExists,
            ParameterRefused, ChainDone, StartAgain

\* A move writes orders and nothing else.
LEMMA MovedRow ==
    ASSUME NEW m \in Move, NEW t \in TaskRow
    PROVE  /\ Moved(m, t) \in TaskRow
           /\ Moved(m, t).chain = t.chain /\ Moved(m, t).no = t.no
           /\ Moved(m, t).live = t.live /\ Moved(m, t).params = t.params
           /\ Moved(m, t).order = IF t.chain # m.task.chain THEN t.order
                                  ELSE IF t.no = m.task.no THEN m.neighbour.order
                                  ELSE IF t.no = m.neighbour.no THEN m.task.order
                                  ELSE t.order
BY DEF Moved, Move, TaskRow

\* Tasks that get other orders stay where they are.
LEMMA MoveTables ==
    ASSUME Tables, NEW m \in Move, WriteMove(m)
    PROVE  Tables'
<1>1. task' = {Moved(m, t) : t \in task} /\ UNCHANGED <<chain, lastChain>>
      BY DEF WriteMove, MoveEnds
<1>2. \A t \in task : Moved(m, t) \in TaskRow /\ Moved(m, t).chain = t.chain /\ Moved(m, t).no = t.no
      BY MovedRow DEF Tables
<1>3. IsFiniteSet(task')
  <2> DEFINE f == [t \in task |-> Moved(m, t)]
  <2>1. f \in Surjection(task, task') BY <1>1 DEF Surjection
  <2> QED BY <2>1, FS_Surjection DEF Tables
<1>4. \A x, y \in task' : x.chain = y.chain /\ x.no = y.no => x = y BY <1>1, <1>2 DEF Tables
<1>5. \A x \in task' : \E y \in task : x.chain = y.chain /\ x.no = y.no BY <1>1, <1>2
<1>6. task' \subseteq TaskRow BY <1>1, <1>2
<1> QED BY <1>1, <1>3, <1>4, <1>5, <1>6, UpdateTables

\* The SQL functions keep the tables in order.
LEMMA UserTables == ASSUME Tables, Actors, UserStep PROVE Tables'
<1>1. CASE add_job
  <2> DEFINE c == [NewChain(Job) EXCEPT !.last = 1]
             t == NewTask(NewChain(Job), 10, TRUE, 1)
  <2>1. c \in ChainRow /\ c.id = lastChain + 1 /\ c.name = Job.name /\ c.last = 1
        BY ChainStoreAssumption DEF NewChain, ChainRow, YamlChain, Tables
  <2>2. t \in TaskRow /\ t.chain = lastChain + 1 /\ t.no = 1
        BY DEF NewChain, NewTask, TaskRow, Tables
  <2>3. chain' = chain \cup {c} /\ task' = task \cup {t} /\ lastChain' = lastChain + 1
        /\ Named(c.name) = {} BY <1>1, <2>1 DEF add_job
  <2> HIDE DEF c, t
  <2>4. \A d \in chain : d.id # c.id /\ d.name # c.name
        BY <2>1, <2>3 DEF Tables, Named, ChainRow
  <2>5. \A u \in task : u.chain # t.chain BY <2>1, <2>2, <2>4 DEF Tables
  <2>6. IsFiniteSet(task') BY <2>3, FS_AddElement DEF Tables
  <2>7. \A x, y \in chain' : x.id = y.id \/ x.name = y.name => x = y BY <2>3, <2>4 DEF Tables
  <2>8. \A x, y \in task' : x.chain = y.chain /\ x.no = y.no => x = y BY <2>3, <2>5 DEF Tables
  <2>9. \A u \in task' : \E x \in chain' : u.chain = x.id /\ u.no <= x.last
    <3>1. t.chain = c.id /\ t.no <= c.last BY <2>1, <2>2
    <3> QED BY <2>3, <3>1 DEF Tables
  <2>10. chain' \subseteq ChainRow /\ task' \subseteq TaskRow BY <2>1, <2>2, <2>3 DEF Tables
  <2>11. lastChain' \in Nat /\ \A x \in chain' : x.id \in 1..lastChain'
        BY <2>1, <2>3 DEF Tables
  <2> QED BY <2>6, <2>7, <2>8, <2>9, <2>10, <2>11 DEF Tables
<1>2. ASSUME NEW name \in Names, delete_job(name) PROVE Tables'
      BY <1>2, DeleteTables DEF delete_job
<1>3. ASSUME NEW name \in Names, NEW live \in BOOLEAN, SetLive(name, live) PROVE Tables'
  <2> DEFINE Row(c) == IF c.name = name THEN [c EXCEPT !.live = live] ELSE c
  <2>1. chain' = {Row(c) : c \in chain} /\ UNCHANGED <<task, lastChain>> BY <1>3 DEF SetLive
  <2>2. \A c \in chain : Row(c) \in ChainRow /\ Row(c).id = c.id /\ Row(c).name = c.name
                         /\ Row(c).last = c.last
        BY DEF Tables, ChainRow
  <2> HIDE DEF Row
  <2>3. chain' \subseteq ChainRow /\ \A c \in chain' : c.id \in 1..lastChain'
        BY <2>1, <2>2 DEF Tables
  <2>4. \A c, d \in chain' : c.id = d.id \/ c.name = d.name => c = d BY <2>1, <2>2 DEF Tables
  <2>5. \A t \in task' : \E c \in chain' : t.chain = c.id /\ t.no <= c.last
        BY <2>1, <2>2 DEF Tables
  <2> QED BY <2>1, <2>3, <2>4, <2>5 DEF Tables
<1>4. ASSUME NEW t \in task, add_task(t, 10) PROVE Tables'
  <2>1. t.order + 10 \in Nat BY DEF Tables, TaskRow
  <2>2. PICK c \in chain : AddTask(c, t.order + 10, TRUE, 0) BY <1>4 DEF add_task
  <2> QED BY <1>4, <2>1, <2>2, AddTaskTables DEF add_task
<1>5. ASSUME NEW t \in task, delete_task(t) PROVE Tables'
  <2>1. task' \subseteq task /\ UNCHANGED <<chain, lastChain>> BY <1>5 DEF delete_task
  <2>2. IsFiniteSet(task') BY <2>1, FS_Subset DEF Tables
  <2> QED BY <2>1, <2>2 DEF Tables
<1>6. ASSUME NEW t \in task, move_task_up(t) \/ move_task_down(t) PROVE Tables'
      BY <1>6 DEF move_task_up, move_task_down, ReadMove, Tables
<1>7. ASSUME NEW m \in moves, WriteMove(m) PROVE Tables'
      BY <1>7, MoveTables DEF Actors
<1>8. ASSUME NEW m \in moves, CancelMove(m) PROVE Tables'
      BY <1>8 DEF CancelMove, MoveEnds, Tables
<1> QED BY <1>1, <1>2, <1>3, <1>4, <1>5, <1>6, <1>7, <1>8 DEF UserStep

\* A worker changes neither chains nor tasks.
LEMMA WorkerTables == ASSUME Tables, NEW w \in Workers, WorkerStep(w) PROVE Tables'
BY DEF WorkerStep, SelectChain, InsertChainRunStatus, GetChainElements, GetChainParamValues,
       RemoveChainRunStatus, Work, Tables

-----------------------------------------------------------------------------
\* A sequence of all elements of a set has each of them once.
LEMMA AllOnce ==
    ASSUME NEW S, IsFiniteSet(S), NEW s \in SetToSeqs(S)
    PROVE  /\ Cardinality(S) \in Nat /\ s \in [1..Cardinality(S) -> S]
           /\ \A m, n \in DOMAIN s : m # n => s[m] # s[n]
           /\ \A x \in S : \E n \in DOMAIN s : s[n] = x
<1> DEFINE D == 1..Cardinality(S)
<1>1. Cardinality(S) \in Nat BY FS_CardinalityType
<1>2. s \in [D -> S] /\ \A m, n \in D : m # n => s[m] # s[n] BY DEF SetToSeqs
<1>3. s \in Injection(D, S) BY <1>2 DEF Injection, IsInjective
<1>4. Cardinality(D) = Cardinality(S) BY <1>1, FS_Interval
<1>5. s \in Surjection(D, S) BY <1>3, <1>4, FS_Injection
<1> QED BY <1>1, <1>2, <1>5 DEF Surjection

\* An import moves on within its file; the chain it reports has a number by then.
LEMMA ImportActors ==
    ASSUME Tables, Actors, NEW i \in Importers, InFile(i), Owner(i), ImportStep(i) \/ ImportFails(i)
    PROVE  Actors'
<1>1. UNCHANGED <<file, worker, moves, edits, edited>> /\ lastChain' \in {lastChain, lastChain + 1}
      BY DEF ImportStep, ImportFails, ParseYamlFile, DeleteReplaced, CheckExists, InsertChain,
             InsertTask, InsertTaskAt, InsertParameter, ParameterRefused, ChainDone, StartAgain, At
<1>2. faults' \in 0..MaxFaults
      BY ChainStoreAssumption
      DEF Actors, ImportStep, ImportFails, ParseYamlFile, DeleteReplaced, CheckExists, InsertChain,
          InsertTask, InsertTaskAt, InsertParameter, ParameterRefused, ChainDone, StartAgain
<1>3. \E k \in Import : k.id \in 0..lastChain' /\ import' = [import EXCEPT ![i] = k]
  <2> DEFINE k == import[i]
  <2>1. k \in Import /\ k.id \in 0..lastChain /\ lastChain \in Nat BY DEF Actors, Tables
  <2>2. ASSUME NEW at \in {"parse", "delete", "exists", "insert", "tasks", "done", "failed"},
               Goto(i, at)
        PROVE  \E x \in Import : x.id \in 0..lastChain' /\ import' = [import EXCEPT ![i] = x]
    <3> DEFINE x == [k EXCEPT !.at = at]
    <3>1. x \in Import /\ x.id = k.id BY <2>1 DEF Import
    <3>2. import' = [import EXCEPT ![i] = x] BY <2>2 DEF Goto
    <3>3. x.id \in 0..lastChain' BY <1>1, <2>1, <3>1
    <3> QED BY <3>1, <3>2, <3>3
  <2>3. CASE InsertChain(i)
    <3>1. CASE Goto(i, "failed") BY <2>2, <3>1
    <3>2. CASE /\ import' = [import EXCEPT ![i].at = "tasks", ![i].id = lastChain + 1]
               /\ lastChain' = lastChain + 1
      <4> DEFINE y == [k EXCEPT !.at = "tasks"]
                 x == [y EXCEPT !.id = lastChain + 1]
      <4>1. y \in Import BY <2>1 DEF Import
      <4>2. import' = [import EXCEPT ![i] = x] BY <3>2
      <4> HIDE DEF y
      <4>3. lastChain + 1 \in Nat /\ x \in Import /\ x.id = lastChain + 1
            BY <2>1, <4>1 DEF Import
      <4> HIDE DEF x
      <4>4. x.id \in 0..lastChain' BY <3>2, <4>3
      <4> QED BY <4>2, <4>3, <4>4
    <3> QED BY <2>3, <3>1, <3>2 DEF InsertChain
  <2>4. CASE InsertTask(i)
    <3>1. CASE Goto(i, "failed") BY <2>2, <3>1
    <3>2. CASE import' = [import EXCEPT ![i].task = @ + 1, ![i].param = 0]
      <4> DEFINE y == [k EXCEPT !.task = @ + 1]
                 x == [y EXCEPT !.param = 0]
      <4>1. y \in Import /\ y.id = k.id BY <2>1 DEF Import
      <4>2. import' = [import EXCEPT ![i] = x] BY <3>2
      <4> HIDE DEF y
      <4>3. x \in Import /\ x.id = k.id BY <4>1 DEF Import
      <4> HIDE DEF x
      <4>4. x.id \in 0..lastChain' BY <1>1, <2>1, <4>3
      <4> QED BY <4>2, <4>3, <4>4
    <3> QED BY <2>4, <3>1, <3>2 DEF InsertTask, InsertTaskAt
  <2>5. CASE InsertParameter(i)
    <3> DEFINE x == [k EXCEPT !.param = @ + 1]
    <3>1. x \in Import /\ x.id = k.id BY <2>1 DEF Import
    <3>2. import' = [import EXCEPT ![i] = x] BY <2>5 DEF InsertParameter
    <3>3. x.id \in 0..lastChain' BY <1>1, <2>1, <3>1
    <3> QED BY <3>1, <3>2, <3>3
  <2>6. CASE ChainDone(i)
    <3> DEFINE x == [at |-> IF k.chain < Len(file[i]) THEN Begin(i) ELSE "done",
                     chain |-> IF k.chain < Len(file[i]) THEN k.chain + 1 ELSE k.chain,
                     id |-> 0, task |-> 0, param |-> 0]
    <3>1. x \in Import /\ x.id = 0 BY <2>1 DEF Import, Begin
    <3>2. import' = [import EXCEPT ![i] = x] BY <2>6 DEF ChainDone
    <3> HIDE DEF x
    <3>3. x.id \in 0..lastChain' BY <1>1, <2>1, <3>1
    <3> QED BY <3>1, <3>2, <3>3
  <2>7. CASE StartAgain(i)
    <3> DEFINE x == [at |-> "parse", chain |-> 1, id |-> 0, task |-> 0, param |-> 0]
    <3>1. x \in Import /\ x.id = 0 BY DEF Import
    <3>2. import' = [import EXCEPT ![i] = x] BY <2>7 DEF StartAgain
    <3> HIDE DEF x
    <3>3. x.id \in 0..lastChain' BY <1>1, <2>1, <3>1
    <3> QED BY <3>1, <3>2, <3>3
  <2>8. Begin(i) \in {"delete", "exists"} BY DEF Begin
  <2> QED BY <2>2, <2>3, <2>4, <2>5, <2>6, <2>7, <2>8
          DEF ImportStep, ImportFails, ParseYamlFile, DeleteReplaced, CheckExists, ParameterRefused
<1>4. imported' \subseteq 1..lastChain'
  <2>1. CASE imported' = imported BY <1>1, <2>1 DEF Actors, Tables
  <2>2. CASE ChainDone(i)
    <3>1. import[i].id \in 1..lastChain BY <2>2 DEF Actors, Owner, ChainDone, At
    <3> QED BY <2>2, <3>1 DEF ChainDone, Actors
  <2> QED BY <2>1, <2>2
          DEF ImportStep, ImportFails, ParseYamlFile, DeleteReplaced, CheckExists, InsertChain,
              InsertTask, InsertTaskAt, InsertParameter, ParameterRefused, StartAgain
<1> QED BY <1>1, <1>2, <1>3, <1>4 DEF Actors, Tables

\* Nobody else notices a call of a SQL function, and a move reads tasks of one chain.
LEMMA UserActors ==
    ASSUME Tables, Actors, UserStep
    PROVE  Actors' /\ UNCHANGED <<file, import, worker, imported>>
<1>1. UNCHANGED <<file, import, worker, faults, imported>> /\ edits' \in Nat
  <2>1. Call \/ \E m \in moves : MoveEnds(m)
        BY DEF UserStep, add_job, delete_job, SetLive, add_task, delete_task, move_task_up,
               move_task_down, ReadMove, WriteMove, CancelMove, Edit
  <2>2. edits \in Nat BY DEF Actors
  <2> QED BY <2>1, <2>2 DEF Call, MoveEnds, counters
<1>2. lastChain' \in {lastChain, lastChain + 1}
      BY DEF UserStep, add_job, delete_job, SetLive, add_task, delete_task, move_task_up,
             move_task_down, ReadMove, WriteMove, CancelMove, MoveEnds
<1>3. edited' \subseteq edited \cup {t.chain : t \in task} \cup {m.task.chain : m \in moves}
      BY DEF UserStep, add_job, delete_job, SetLive, add_task, delete_task, move_task_up,
             move_task_down, ReadMove, WriteMove, CancelMove, MoveEnds
<1>4. \A t \in task : t.chain \in 1..lastChain BY DEF Tables
<1>5. edited' \subseteq 1..lastChain'
  <2>1. edited' \subseteq 1..lastChain BY <1>3, <1>4 DEF Actors
  <2> QED BY <1>2, <2>1 DEF Tables
<1>6. moves' \subseteq Move /\ \A m \in moves' : m.task.chain \in 1..lastChain
  <2>1. CASE moves' \subseteq moves BY <2>1 DEF Actors
  <2>2. ASSUME NEW t \in task, NEW others \in SUBSET TasksOf(t.chain), ReadMove(t, others)
        PROVE  moves' \subseteq Move /\ \A m \in moves' : m.task.chain \in 1..lastChain
    <3>1. PICK u \in others : moves' = moves \cup
             {[call |-> edits, task |-> t, neighbour |-> u, seen |-> Places(t.chain)]}
          BY <2>2 DEF ReadMove
    <3>2. t \in TaskRow /\ u \in TaskRow /\ edits \in Nat BY DEF Tables, TasksOf, Actors
    <3>3. Places(t.chain) \subseteq Place BY DEF Places, Place, Tables, TaskRow, TasksOf
    <3>4. [call |-> edits, task |-> t, neighbour |-> u, seen |-> Places(t.chain)] \in Move
          BY <3>2, <3>3 DEF Move
    <3> QED BY <1>4, <3>1, <3>4 DEF Actors
  <2>3. ASSUME NEW t \in task, move_task_up(t) \/ move_task_down(t)
        PROVE  moves' \subseteq Move /\ \A m \in moves' : m.task.chain \in 1..lastChain
        BY <2>2, <2>3 DEF move_task_up, move_task_down, TasksOf
  <2> QED BY <2>1, <2>3
          DEF UserStep, add_job, delete_job, SetLive, add_task, delete_task, WriteMove, CancelMove,
              MoveEnds, Edit
<1> QED BY <1>1, <1>2, <1>5, <1>6 DEF Actors, Tables

\* What a move has read of its snapshot stays with it.
LEMMA MovesPlanned ==
    ASSUME Tables, \A m \in moves : Planned(m), UserStep \/ moves' = moves
    PROVE  \A m \in moves' : Planned(m)
<1>1. CASE moves' \subseteq moves BY <1>1
<1>2. ASSUME NEW t \in task, NEW others \in SUBSET TasksOf(t.chain), ReadMove(t, others),
             \A p \in Places(t.chain) : (\A v \in others : p.order # v.order) =>
               \A u \in others : ~(t.order < p.order /\ p.order < u.order)
                                 /\ ~(u.order < p.order /\ p.order < t.order),
             \A u \in others : u.order # t.order
      PROVE  \A m \in moves' : Planned(m)
  <2>1. PICK u \in others :
          /\ \A v \in others : ~(t.order < v.order /\ v.order < u.order)
                               /\ ~(u.order < v.order /\ v.order < t.order)
          /\ moves' = moves \cup
               {[call |-> edits, task |-> t, neighbour |-> u, seen |-> Places(t.chain)]}
        BY <1>2 DEF ReadMove
  <2>2. u \in task /\ u.chain = t.chain BY DEF TasksOf
  <2>3. \A v \in task : v.chain = t.chain => [no |-> v.no, order |-> v.order] \in Places(t.chain)
        BY DEF Places, TasksOf
  <2>4. \A p \in Places(t.chain) : ~(t.order < p.order /\ p.order < u.order)
                                   /\ ~(u.order < p.order /\ p.order < t.order)
        BY <1>2, <2>1
  <2>5. Planned([call |-> edits, task |-> t, neighbour |-> u, seen |-> Places(t.chain)])
        BY <1>2, <2>2, <2>3, <2>4 DEF Planned
  <2> QED BY <2>1, <2>5
<1>3. ASSUME NEW t \in task, move_task_up(t) \/ move_task_down(t)
      PROVE  \A m \in moves' : Planned(m)
  <2>1. \A v \in task : v.order \in Nat BY DEF Tables, TaskRow
  <2>2. \A p \in Places(t.chain) : \E v \in TasksOf(t.chain) : p.order = v.order BY DEF Places
  <2>3. TasksOf(t.chain) \subseteq task BY DEF TasksOf
  <2>4. CASE move_task_up(t)
    <3> DEFINE others == {u \in TasksOf(t.chain) : u.order < t.order}
    <3>1. ReadMove(t, others) BY <2>4 DEF move_task_up
    <3>2. \A p \in Places(t.chain) : (\A v \in others : p.order # v.order) =>
               \A u \in others : ~(t.order < p.order /\ p.order < u.order)
                                 /\ ~(u.order < p.order /\ p.order < t.order)
          BY <2>1, <2>2, <2>3
    <3>3. \A u \in others : u.order # t.order BY <2>1, <2>3
    <3>4. others \in SUBSET TasksOf(t.chain) OBVIOUS
    <3> HIDE DEF others
    <3> QED BY <1>2, <3>1, <3>2, <3>3, <3>4
  <2>5. CASE move_task_down(t)
    <3> DEFINE others == {u \in TasksOf(t.chain) : u.order > t.order}
    <3>1. ReadMove(t, others) BY <2>5 DEF move_task_down
    <3>2. \A p \in Places(t.chain) : (\A v \in others : p.order # v.order) =>
               \A u \in others : ~(t.order < p.order /\ p.order < u.order)
                                 /\ ~(u.order < p.order /\ p.order < t.order)
          BY <2>1, <2>2, <2>3
    <3>3. \A u \in others : u.order # t.order BY <2>1, <2>3
    <3>4. others \in SUBSET TasksOf(t.chain) OBVIOUS
    <3> HIDE DEF others
    <3> QED BY <1>2, <3>1, <3>2, <3>3, <3>4
  <2> QED BY <1>3, <2>4, <2>5
<1> QED BY <1>1, <1>3
        DEF UserStep, add_job, delete_job, SetLive, add_task, delete_task, WriteMove, CancelMove,
            MoveEnds, Edit

\* A worker only changes what it holds.
LEMMA WorkerActors ==
    ASSUME Tables, Actors, NEW w \in Workers, WorkerStep(w)
    PROVE  Actors' /\ UNCHANGED <<chain, task, lastChain, file, import, moves, edited, imported>>
<1>1. UNCHANGED <<chain, task, lastChain, file, import, moves, edits, faults, edited, imported>>
      BY DEF WorkerStep, SelectChain, InsertChainRunStatus, GetChainElements,
             GetChainParamValues, RemoveChainRunStatus, Work, counters, history
<1>2. \E k \in Worker : k.id \in 0..lastChain /\ worker' = [worker EXCEPT ![w] = k]
  <2>1. worker[w] \in Worker /\ worker[w].id \in 0..lastChain BY DEF Actors
  <2>2. CASE SelectChain(w)
    <3>1. PICK c \in chain : worker' = [worker EXCEPT ![w] =
             [at |-> "selected", id |-> c.id, max |-> c.max, def |-> c.def,
              whole |-> c.id \in imported, tasks |-> <<>>, ran |-> <<>>]]
          BY <2>2 DEF SelectChain
    <3>2. c \in ChainRow /\ c.id \in 0..lastChain /\ c.def \in YamlChain BY DEF Tables, ChainRow
    <3>3. [at |-> "selected", id |-> c.id, max |-> c.max, def |-> c.def,
           whole |-> c.id \in imported, tasks |-> <<>>, ran |-> <<>>] \in Worker
          BY <3>2 DEF Worker, ChainRow
    <3> QED BY <3>1, <3>2, <3>3
  <2>3. CASE InsertChainRunStatus(w)
    <3>1. PICK at \in {"admitted", "refused"} : worker' = [worker EXCEPT ![w].at = at]
          BY <2>3 DEF InsertChainRunStatus
    <3>2. [worker[w] EXCEPT !.at = at] \in Worker BY <2>1 DEF Worker
    <3> QED BY <2>1, <3>1, <3>2 DEF Worker
  <2>4. CASE GetChainElements(w)
    <3> DEFINE S == {t \in TasksOf(worker[w].id) : t.live}
    <3>1. PICK s \in SetToSeqs(S) :
             worker' = [worker EXCEPT ![w].at = "running", ![w].tasks = [n \in DOMAIN s |-> s[n].no]]
          BY <2>4 DEF GetChainElements
    <3>2. S \subseteq task /\ IsFiniteSet(S) BY FS_Subset DEF TasksOf, Tables
    <3>3. Cardinality(S) \in Nat /\ DOMAIN s = 1..Cardinality(S) /\ \A n \in DOMAIN s : s[n] \in TaskRow
          BY <3>2, AllOnce DEF Tables
    <3>4. \A n \in DOMAIN s : s[n].no \in Nat BY <3>3 DEF TaskRow
    <3> HIDE DEF S
    <3>5. [n \in DOMAIN s |-> s[n].no] \in Seq(Nat) BY <3>3, <3>4
    <3> DEFINE nos == [n \in DOMAIN s |-> s[n].no]
               k == worker[w]
               y == [k EXCEPT !.at = "running"]
               x == [y EXCEPT !.tasks = nos]
    <3>6. worker' = [worker EXCEPT ![w] = x] BY <3>1
    <3>7. y \in Worker /\ y.id = k.id BY <2>1 DEF Worker
    <3>8. nos \in Seq(Nat) BY <3>5
    <3> HIDE DEF nos, y
    <3>9. x \in Worker /\ x.id = k.id BY <3>7, <3>8 DEF Worker
    <3> HIDE DEF x
    <3> QED BY <2>1, <3>6, <3>9
  <2>5. CASE GetChainParamValues(w)
    <3> DEFINE no == worker[w].tasks[Len(worker[w].ran) + 1]
               row == {t \in TasksOf(worker[w].id) : t.no = no}
               params == IF row = {} THEN 0 ELSE (CHOOSE t \in row : TRUE).params
    <3>1. worker' = [worker EXCEPT ![w].ran = Append(@, <<no, params>>)]
          /\ Len(worker[w].ran) < Len(worker[w].tasks)
          BY <2>5 DEF GetChainParamValues
    <3>2. no \in Nat BY <2>1, <3>1 DEF Worker
    <3>3. row \subseteq TaskRow BY DEF TasksOf, Tables
    <3>4. params \in Nat BY <3>3 DEF TaskRow
    <3> HIDE DEF no, row, params
    <3>5. Append(worker[w].ran, <<no, params>>) \in Seq(Nat \X Nat) BY <2>1, <3>2, <3>4 DEF Worker
    <3>6. [worker[w] EXCEPT !.ran = Append(@, <<no, params>>)] \in Worker BY <2>1, <3>5 DEF Worker
    <3> QED BY <2>1, <3>1, <3>6 DEF Worker
  <2>6. CASE RemoveChainRunStatus(w)
    <3>1. Idle \in Worker /\ Idle.id = 0 /\ lastChain \in Nat BY ChainStoreAssumption DEF Idle, Worker, Tables
    <3>2. Idle.id \in 0..lastChain BY <3>1
    <3>3. worker' = [worker EXCEPT ![w] = Idle] BY <2>6 DEF RemoveChainRunStatus
    <3> QED BY <3>1, <3>2, <3>3
  <2> QED BY <2>2, <2>3, <2>4, <2>5, <2>6 DEF WorkerStep
<1> QED BY <1>1, <1>2 DEF Actors

-----------------------------------------------------------------------------
(* The importers.                                                          *)

\* Where Goto leads, and what it leaves.
LEMMA GotoAt ==
    ASSUME Actors, NEW i \in Importers, NEW at, Goto(i, at)
    PROVE  /\ import'[i].at = at /\ import'[i].chain = import[i].chain
           /\ import'[i].task = import[i].task /\ import'[i].param = import[i].param
<1>1. import'[i] = [import[i] EXCEPT !.at = at] BY DEF Goto, Actors
<1>2. import[i] \in Import BY DEF Actors
<1> QED BY <1>1, <1>2 DEF Import

\* The tasks of a chain have their parameters.
LEMMA TasksType ==
    ASSUME NEW def \in YamlChain
    PROVE  /\ Len(def.tasks) \in Nat /\ DOMAIN def.tasks = 1..Len(def.tasks)
           /\ \A n \in 1..Len(def.tasks) : def.tasks[n].params \in Nat
<1>1. def.tasks \in Seq(Task) BY DEF YamlChain
<1>2. Len(def.tasks) \in Nat /\ DOMAIN def.tasks = 1..Len(def.tasks) BY <1>1
<1>3. \A n \in 1..Len(def.tasks) : def.tasks[n] \in Task BY <1>1
<1> QED BY <1>2, <1>3 DEF Task

\* What the steps of others may do to the row an importer is at.
RowKept(id) == \A c \in chain' : c.id = id =>
    \E d \in chain : d.id = c.id /\ d.def = c.def /\ (c.id \in edited' \/ d.last = c.last)

\* An import whose chain nobody else touched still owns it.
LEMMA OwnerKept ==
    ASSUME NEW j \in Importers, InFile(j), Owner(j), import'[j] = import[j], file' = file,
           edited \subseteq edited',
           import[j].at = "tasks" =>
             /\ import[j].id \notin imported' /\ RowKept(import[j].id)
             /\ \A k \in Importers : import'[k].at = "tasks" /\ import'[k].id = import[j].id => k = j
    PROVE  (InFile(j) /\ Owner(j))'
<1>1. Current(j)' = Current(j) BY DEF Current
<1>2. InFile(j)' BY DEF InFile
<1>3. ASSUME import[j].at = "tasks", NEW c \in chain', c.id = import[j].id
      PROVE  c.def = Current(j) /\ (c.id \in edited' \/ c.last = import[j].task)
      BY <1>3 DEF Owner, RowKept
<1> QED BY <1>1, <1>2, <1>3 DEF Owner

\* Each import owns the chain it is filling: numbers are given once.
LEMMA ImportOwners ==
    ASSUME Tables, Actors, NEW i \in Importers, ImportStep(i) \/ ImportFails(i),
           \A j \in Importers : InFile(j) /\ Owner(j)
    PROVE  \A j \in Importers : (InFile(j) /\ Owner(j))'
<1> DEFINE k == import[i]
<1>1. file[i] \in Seq(YamlChain) BY DEF Actors
<1>2. k \in Import /\ k.id \in 0..lastChain /\ lastChain \in Nat BY DEF Actors, Tables
<1>3. UNCHANGED <<file, edited>> /\ \E x : import' = [import EXCEPT ![i] = x]
      BY DEF ImportStep, ImportFails, ParseYamlFile, DeleteReplaced, CheckExists, InsertChain,
             InsertTask, InsertTaskAt, InsertParameter, ParameterRefused, ChainDone, StartAgain,
             At, Goto
<1>4. import' \in [Importers -> Import] /\ \A j \in Importers \ {i} : import'[j] = import[j]
      BY <1>3, ImportActors DEF Actors
<1>5. Current(i) = file[i][k.chain] /\ Begin(i) \in {"delete", "exists"} BY DEF Current, Begin
<1>6. ASSUME k.at = "tasks" => k.id \in imported' \/ import'[i].at # "tasks" \/ import'[i].id = k.id,
             k.at # "tasks" /\ import'[i].at = "tasks" => import'[i].id = lastChain + 1,
             k.at = "tasks" /\ import'[i].at = "tasks" => import'[i].id = k.id,
             imported' \subseteq imported \cup {k.id}, k.at # "tasks" => imported' = imported,
             \A id \in 0..lastChain : id # k.id \/ k.at # "tasks" => RowKept(id)
      PROVE  \A j \in Importers \ {i} : (InFile(j) /\ Owner(j))'
  <2> SUFFICES ASSUME NEW j \in Importers \ {i} PROVE (InFile(j) /\ Owner(j))' OBVIOUS
  <2>1. import[j].id \in 0..lastChain BY DEF Actors
  <2>2. CASE import[j].at = "tasks"
    <3>1. k.at = "tasks" => k.id # import[j].id BY <2>2 DEF Owner
    <3>2. import[j].id \notin imported' BY <1>6, <2>2, <3>1 DEF Owner
    <3>3. RowKept(import[j].id) BY <1>6, <2>1, <3>1
    <3>4. ASSUME NEW l \in Importers, import'[l].at = "tasks", import'[l].id = import[j].id
          PROVE  l = j
      <4>1. CASE l = i BY <1>2, <1>6, <2>1, <3>1, <3>4, <4>1
      <4>2. CASE l # i BY <1>4, <2>2, <3>4, <4>2 DEF Owner
      <4> QED BY <4>1, <4>2
    <3> QED BY <1>3, <1>4, <3>2, <3>3, <3>4, OwnerKept
  <2>3. CASE import[j].at # "tasks" BY <1>3, <1>4, <2>3, OwnerKept
  <2> QED BY <2>2, <2>3
<1>7. ASSUME UNCHANGED <<chain, task, lastChain>> PROVE \A id : RowKept(id)
      BY <1>3, <1>7 DEF RowKept
<1>8. CASE \/ ParseYamlFile(i) \/ CheckExists(i) \/ StartAgain(i) \/ ImportFails(i)
           \/ ParameterRefused(i)
  <2>1. UNCHANGED <<chain, task, lastChain, imported>>
        BY <1>8 DEF ParseYamlFile, CheckExists, StartAgain, ImportFails, ParameterRefused
  <2>2. import'[i].at # "tasks" /\ InFile(i)'
    <3>1. CASE ParseYamlFile(i)
      <4>1. PICK at \in {"failed", "done", Begin(i)} : Goto(i, at)
                                                    /\ (file[i] = <<>> => at \in {"failed", "done"})
            BY <3>1 DEF ParseYamlFile
      <4>2. file[i] # <<>> => 1 \in DOMAIN file[i] BY <1>1
      <4>3. k.at = "parse" BY <3>1 DEF ParseYamlFile, At
      <4>4. import'[i].at = at /\ import'[i].chain = 1 /\ import'[i].task = 0
            /\ import'[i].param = 0 BY <4>1, <4>3, GotoAt DEF InFile
      <4> QED BY <1>3, <1>5, <4>1, <4>2, <4>4 DEF InFile
    <3>2. CASE CheckExists(i)
      <4>1. PICK at \in {"failed", "insert"} : Goto(i, at) BY <3>2 DEF CheckExists
      <4> QED BY <1>3, <3>2, <4>1, GotoAt DEF CheckExists, At, InFile
    <3>3. CASE StartAgain(i)
      <4>1. import'[i] = [at |-> "parse", chain |-> 1, id |-> 0, task |-> 0, param |-> 0]
            BY <3>3 DEF StartAgain, Actors
      <4> QED BY <1>3, <4>1 DEF InFile
    <3>4. CASE Goto(i, "failed") BY <1>3, <3>4, GotoAt DEF InFile
    <3> QED BY <1>8, <3>1, <3>2, <3>3, <3>4 DEF ImportFails, ParameterRefused
  <2> QED BY <1>6, <1>7, <2>1, <2>2 DEF Owner
<1>9. CASE DeleteReplaced(i)
  <2>1. import'[i] = [k EXCEPT !.at = "exists"] /\ k.at = "delete"
        /\ UNCHANGED <<lastChain, imported>>
        BY <1>2, <1>9 DEF DeleteReplaced, Goto, At, Actors
  <2>2. chain' \subseteq chain BY <1>9 DEF DeleteReplaced, DeleteChains
  <2>3. \A id : RowKept(id) BY <2>2 DEF RowKept
  <2>4. InFile(i)' /\ import'[i].at = "exists" BY <1>2, <1>3, <2>1 DEF InFile, Import
  <2> QED BY <1>6, <2>1, <2>3, <2>4 DEF Owner
<1>10. CASE InsertChain(i)
  <2>1. k.at = "insert" /\ imported' = imported BY <1>10 DEF InsertChain, At
  <2>2. CASE Goto(i, "failed") /\ UNCHANGED <<chain, task, lastChain>>
    <3>1. import'[i] = [k EXCEPT !.at = "failed"] BY <2>2 DEF Goto, Actors
    <3>2. import'[i].at = "failed" BY <1>2, <3>1 DEF Import
    <3> QED BY <1>6, <1>7, <2>1, <2>2, <3>2 DEF Owner, InFile
  <2>3. CASE /\ chain' = chain \cup {NewChain(Current(i))} /\ lastChain' = lastChain + 1
             /\ import' = [import EXCEPT ![i].at = "tasks", ![i].id = lastChain + 1]
    <3>1. import'[i] = [k EXCEPT !.at = "tasks", !.id = lastChain + 1] BY <2>3 DEF Actors
    <3>2. import'[i].at = "tasks" /\ import'[i].id = lastChain + 1 /\ import'[i].chain = k.chain
          /\ import'[i].task = k.task /\ import'[i].param = k.param
          BY <1>2, <3>1 DEF Import
    <3>3. k.task = 0 /\ k.param = 0 /\ k.chain \in DOMAIN file[i] BY <2>1 DEF InFile
    <3>4. NewChain(Current(i)).id = lastChain + 1 /\ NewChain(Current(i)).last = 0
          /\ NewChain(Current(i)).def = Current(i) BY DEF NewChain
    <3>5. \A id \in 0..lastChain : RowKept(id) BY <1>2, <2>3, <3>4 DEF RowKept
    <3>6. InFile(i)' BY <1>3, <3>2, <3>3 DEF InFile
    <3>7. Current(i)' = Current(i) BY <1>3, <3>2 DEF Current
    <3>8. Owner(i)'
      <4>1. lastChain + 1 \notin imported' BY <1>2, <2>1 DEF Actors
      <4>2. \A j \in Importers : import'[j].id = lastChain + 1 => j = i
            BY <1>2, <1>4 DEF Actors
      <4>3. \A c \in chain' : c.id = lastChain + 1 => c.def = Current(i) /\ c.last = 0
            BY <1>2, <2>3, <3>4 DEF Tables
      <4>4. Len(Current(i).tasks) \in Nat BY <3>3, CurrentType DEF YamlChain
      <4> QED BY <1>2, <3>2, <3>3, <3>7, <4>1, <4>2, <4>3, <4>4 DEF Owner
    <3> QED BY <1>6, <2>1, <3>2, <3>5, <3>6, <3>8
  <2> QED BY <1>10, <2>2, <2>3 DEF InsertChain
<1>11. CASE InsertTask(i)
  <2>1. k.at = "tasks" /\ imported' = imported /\ k.chain \in DOMAIN file[i]
        BY <1>11 DEF InsertTask, InsertTaskAt, At, InFile
  <2>2. CASE Goto(i, "failed") /\ UNCHANGED <<chain, task>>
    <3>1. import'[i] = [k EXCEPT !.at = "failed"] BY <2>2 DEF Goto, Actors
    <3>2. import'[i].at = "failed" BY <1>2, <3>1 DEF Import
    <3>3. UNCHANGED lastChain BY <1>11 DEF InsertTask, InsertTaskAt
    <3> QED BY <1>6, <1>7, <2>1, <2>2, <3>2, <3>3 DEF Owner, InFile
  <2>3. CASE /\ import' = [import EXCEPT ![i].task = @ + 1, ![i].param = 0]
             /\ \E c \in chain : /\ c.id = k.id
                                 /\ chain' = (chain \ {c}) \cup {[c EXCEPT !.last = @ + 1]}
    <3>1. PICK c \in chain : c.id = k.id /\ chain' = (chain \ {c}) \cup {[c EXCEPT !.last = @ + 1]}
          BY <2>3
    <3> DEFINE d == [c EXCEPT !.last = @ + 1]
    <3>2. d.id = c.id /\ d.def = c.def /\ d.last = c.last + 1 BY DEF Tables, ChainRow
    <3>3. chain' = (chain \ {c}) \cup {d} BY <3>1
    <3> HIDE DEF d
    <3>4. import'[i] = [k EXCEPT !.task = @ + 1, !.param = 0] BY <2>3 DEF Actors
    <3>5. import'[i].at = k.at /\ import'[i].id = k.id /\ import'[i].chain = k.chain
          /\ import'[i].task = k.task + 1 /\ import'[i].param = 0
          BY <1>2, <3>4 DEF Import
    <3>6. \A id : id # k.id => RowKept(id) BY <3>1, <3>2, <3>3 DEF RowKept
    <3>7. InFile(i)' BY <1>3, <2>1, <3>5 DEF InFile
    <3>8. Current(i)' = Current(i) BY <1>3, <3>5 DEF Current
    <3>9. Owner(i)'
      <4>1. Len(Current(i).tasks) \in Nat /\ DOMAIN Current(i).tasks = 1..Len(Current(i).tasks)
            BY <2>1, CurrentType DEF YamlChain
      <4>2. k.task + 1 \in 0..Len(Current(i).tasks) /\ k.task \in Nat
            BY <1>2, <1>11, <4>1 DEF InsertTask, InsertTaskAt, TasksLeft, Import
      <4>3. Current(i).tasks[k.task + 1].params \in Nat
            BY <2>1, <4>2, CurrentType, TasksType
      <4>4. \A j \in Importers : import'[j].at = "tasks" /\ import'[j].id = k.id => j = i
            BY <1>4, <2>1 DEF Owner
      <4>5. \A x \in chain' : x.id = k.id => x = d BY <3>1, <3>2, <3>3 DEF Tables
      <4>6. d.def = Current(i) /\ (d.id \in edited' \/ d.last = k.task + 1)
            BY <1>3, <2>1, <3>1, <3>2 DEF Owner
      <4>7. k.id # 0 /\ k.id \notin imported' BY <2>1 DEF Owner
      <4>8. k.task + 1 # 0 BY <4>2
      <4> QED BY <3>5, <3>8, <4>2, <4>3, <4>4, <4>5, <4>6, <4>7, <4>8 DEF Owner
    <3> QED BY <1>6, <2>1, <3>5, <3>6, <3>7, <3>9
  <2> QED BY <1>11, <2>2, <2>3 DEF InsertTask, InsertTaskAt, AddTask
<1>12. CASE InsertParameter(i)
  <2>1. k.at = "tasks" /\ UNCHANGED <<chain, lastChain, imported>> /\ k.chain \in DOMAIN file[i]
        BY <1>12 DEF InsertParameter, At, InFile
  <2>2. import'[i] = [k EXCEPT !.param = @ + 1] BY <1>12 DEF InsertParameter, Actors
  <2>3. import'[i].at = k.at /\ import'[i].id = k.id /\ import'[i].chain = k.chain
        /\ import'[i].task = k.task /\ import'[i].param = k.param + 1
        BY <1>2, <2>2 DEF Import
  <2>4. InFile(i)' BY <1>3, <2>1, <2>3 DEF InFile
  <2>5. Current(i)' = Current(i) BY <1>3, <2>3 DEF Current
  <2>6. Owner(i)'
    <3>1. k.task > 0 /\ k.param < Current(i).tasks[k.task].params
          BY <1>12 DEF InsertParameter, ParamsLeft
    <3>2. Current(i).tasks[k.task].params \in Nat /\ k.task \in 0..Len(Current(i).tasks)
      <4>1. k.task \in 0..Len(Current(i).tasks) BY <2>1 DEF Owner
      <4>2. Len(Current(i).tasks) \in Nat
            /\ \A n \in 1..Len(Current(i).tasks) : Current(i).tasks[n].params \in Nat
            BY <2>1, CurrentType, TasksType
      <4>3. k.task \in 1..Len(Current(i).tasks) BY <3>1, <4>1, <4>2
      <4> QED BY <4>1, <4>2, <4>3
    <3>3. k.param + 1 <= Current(i).tasks[k.task].params BY <1>2, <3>1, <3>2 DEF Import
    <3>4. \A j \in Importers : import'[j].at = "tasks" /\ import'[j].id = k.id => j = i
          BY <1>4, <2>1 DEF Owner
    <3> QED BY <1>2, <1>3, <2>1, <2>3, <2>5, <3>1, <3>2, <3>3, <3>4 DEF Owner, Import
  <2>7. \A id : RowKept(id) BY <2>1 DEF RowKept
  <2> QED BY <1>6, <2>1, <2>3, <2>4, <2>6, <2>7
<1>13. CASE ChainDone(i)
  <2>1. k.at = "tasks" /\ UNCHANGED <<chain, task, lastChain>> /\ k.chain \in DOMAIN file[i]
        /\ imported' = imported \cup {k.id}
        BY <1>13 DEF ChainDone, At, InFile
  <2>2. import'[i] = [at |-> IF k.chain < Len(file[i]) THEN Begin(i) ELSE "done",
                      chain |-> IF k.chain < Len(file[i]) THEN k.chain + 1 ELSE k.chain,
                      id |-> 0, task |-> 0, param |-> 0]
        BY <1>13 DEF ChainDone, Actors
  <2>3. import'[i].at \in {Begin(i), "done"} /\ import'[i].task = 0 /\ import'[i].param = 0
        /\ (import'[i].at # "done" => k.chain < Len(file[i]) /\ import'[i].chain = k.chain + 1)
        BY <1>5, <2>2
  <2>4. import'[i].at # "done" => import'[i].chain \in DOMAIN file[i]
        BY <1>1, <1>2, <2>1, <2>3 DEF Import
  <2>5. InFile(i)' BY <1>3, <1>5, <2>3, <2>4 DEF InFile
  <2> QED BY <1>5, <1>6, <1>7, <2>1, <2>3, <2>5 DEF Owner
<1> QED BY <1>8, <1>9, <1>10, <1>11, <1>12, <1>13 DEF ImportStep

\* Users leave the rows of importers, and a chain whose tasks they change is in edited.
LEMMA UserKeepsRows ==
    ASSUME Tables, UserStep
    PROVE  edited \subseteq edited' /\ \A id \in 0..lastChain : RowKept(id)
<1>1. CASE add_job
  <2>1. \E c : chain' = chain \cup {[c EXCEPT !.last = 1]} /\ c = NewChain(Job) BY <1>1 DEF add_job
  <2>2. [NewChain(Job) EXCEPT !.last = 1].id = lastChain + 1 BY DEF NewChain
  <2>3. lastChain + 1 \notin 0..lastChain BY DEF Tables
  <2> QED BY <1>1, <2>1, <2>2, <2>3 DEF RowKept, add_job
<1>2. CASE \E name \in Names : delete_job(name)
      BY <1>2 DEF RowKept, delete_job, DeleteChains
<1>3. ASSUME NEW name \in Names, NEW live \in BOOLEAN, SetLive(name, live)
      PROVE  edited \subseteq edited' /\ \A id : RowKept(id)
  <2> DEFINE Row(c) == IF c.name = name THEN [c EXCEPT !.live = live] ELSE c
  <2>1. chain' = {Row(c) : c \in chain} BY <1>3 DEF SetLive
  <2>2. \A c \in chain : Row(c).id = c.id /\ Row(c).last = c.last /\ Row(c).def = c.def
        BY DEF Tables, ChainRow
  <2> HIDE DEF Row
  <2> QED BY <1>3, <2>1, <2>2 DEF RowKept, SetLive
<1>4. ASSUME NEW t \in task, add_task(t, 10)
      PROVE  edited \subseteq edited' /\ \A id : RowKept(id)
  <2>1. PICK c \in chain : c.id = t.chain /\ chain' = (chain \ {c}) \cup {[c EXCEPT !.last = @ + 1]}
        BY <1>4 DEF add_task, AddTask
  <2> DEFINE d == [c EXCEPT !.last = @ + 1]
  <2>2. d.id = c.id /\ d.def = c.def BY DEF Tables, ChainRow
  <2>3. chain' = (chain \ {c}) \cup {d} BY <2>1
  <2> HIDE DEF d
  <2> QED BY <1>4, <2>1, <2>2, <2>3 DEF RowKept, add_task
<1>5. CASE \E t \in task : delete_task(t) \/ move_task_up(t) \/ move_task_down(t)
      BY <1>5 DEF RowKept, delete_task, move_task_up, move_task_down, ReadMove
<1>6. CASE \E m \in moves : WriteMove(m) \/ CancelMove(m)
      BY <1>6 DEF RowKept, WriteMove, CancelMove, MoveEnds
<1> QED BY <1>1, <1>2, <1>3, <1>4, <1>5, <1>6 DEF UserStep

-----------------------------------------------------------------------------
(* The rows.                                                               *)

\* A chain stays as defined if neither its tasks nor its import is touched.
LEMMA RowStays ==
    ASSUME NEW c, AsDefined(c),
           NEW d, d.id = c.id, d.last = c.last, d.def = c.def,
           \A t : t.chain = c.id => (t \in task' <=> t \in task),
           c.id \in imported' => c.id \in imported,
           \A i \in Importers : import'[i].at = "tasks" /\ import'[i].id = c.id =>
             import[i].at = "tasks" /\ import[i].id = c.id /\ import'[i].param = import[i].param
    PROVE  AsDefined(d)'
<1>1. \A n \in 1..c.last : \E t \in task' : t.chain = c.id /\ t.no = n BY DEF AsDefined
<1> QED BY <1>1 DEF AsDefined

\* What is left after a DELETE is as it was defined.
LEMMA DeleteRows ==
    ASSUME Tables, Rows, NEW rows \in SUBSET chain, DeleteChains(rows),
           edited' = edited, imported' = imported,
           \A i \in Importers : import'[i].at = "tasks" => import'[i] = import[i]
    PROVE  Rows'
<1> SUFFICES ASSUME NEW c \in chain', c.id \notin edited' PROVE AsDefined(c)' BY DEF Rows
<1>1. c \in chain /\ c \notin rows BY DEF DeleteChains
<1>2. \A d \in rows : d.id # c.id BY <1>1 DEF Tables
<1>3. \A t : t.chain = c.id => (t \in task' <=> t \in task) BY <1>2 DEF DeleteChains
<1>4. AsDefined(c) BY <1>1 DEF Rows
<1> QED BY <1>3, <1>4, RowStays

\* An import adds tasks in the order of the definition, and parameters to the last one.
LEMMA ImportRows ==
    ASSUME Tables, Actors, Rows, NEW i \in Importers, ImportStep(i) \/ ImportFails(i),
           \A j \in Importers : InFile(j) /\ Owner(j)
    PROVE  Rows'
<1> DEFINE k == import[i]
<1>1. UNCHANGED <<file, edited>> /\ \E x : import' = [import EXCEPT ![i] = x]
      BY DEF ImportStep, ImportFails, ParseYamlFile, DeleteReplaced, CheckExists, InsertChain,
             InsertTask, InsertTaskAt, InsertParameter, ParameterRefused, ChainDone, StartAgain,
             At, Goto
<1>2. \A j \in Importers \ {i} : import'[j] = import[j] BY <1>1 DEF Actors
<1>3. k \in Import /\ lastChain \in Nat BY DEF Actors, Tables
<1>4. \A c \in chain : c.id \notin edited => AsDefined(c) BY DEF Rows
<1>5. ASSUME UNCHANGED <<chain, task, imported>>, import'[i].at # "tasks" PROVE Rows'
  <2> SUFFICES ASSUME NEW c \in chain', c.id \notin edited' PROVE AsDefined(c)' BY DEF Rows
  <2> QED BY <1>1, <1>2, <1>4, <1>5, RowStays
<1>6. CASE ParseYamlFile(i) \/ CheckExists(i) \/ StartAgain(i) \/ ImportFails(i)
           \/ ParameterRefused(i)
  <2>1. UNCHANGED <<chain, task, imported>>
        BY <1>6 DEF ParseYamlFile, CheckExists, StartAgain, ImportFails, ParameterRefused
  <2>2. import'[i].at # "tasks"
    <3>1. CASE StartAgain(i) BY <3>1 DEF StartAgain, Actors
    <3>2. CASE \E at \in {"failed", "done", "insert", "delete", "exists"} : Goto(i, at)
          BY <3>2, GotoAt
    <3> QED BY <1>6, <3>1, <3>2
            DEF ParseYamlFile, CheckExists, ImportFails, ParameterRefused, Begin
  <2> QED BY <1>5, <2>1, <2>2
<1>7. CASE DeleteReplaced(i)
  <2>1. import'[i].at = "exists" BY <1>7, GotoAt DEF DeleteReplaced
  <2>2. CASE DeleteChains(Named(Current(i).name))
        BY <1>1, <1>2, <1>7, <2>1, <2>2, DeleteRows DEF DeleteReplaced, Named
  <2>3. CASE UNCHANGED <<chain, task>> BY <1>5, <1>7, <2>1, <2>3 DEF DeleteReplaced
  <2> QED BY <1>7, <2>2, <2>3 DEF DeleteReplaced
<1>8. CASE InsertChain(i)
  <2>1. CASE Goto(i, "failed") /\ UNCHANGED chain
        BY <1>5, <1>8, <2>1, GotoAt DEF InsertChain
  <2>2. CASE /\ chain' = chain \cup {NewChain(Current(i))} /\ lastChain' = lastChain + 1
             /\ import' = [import EXCEPT ![i].at = "tasks", ![i].id = lastChain + 1]
    <3>0. PICK d : d = NewChain(Current(i)) OBVIOUS
    <3>1. d.id = lastChain + 1 /\ d.last = 0 /\ d.def = Current(i) BY <3>0 DEF NewChain
    <3>2. chain' = chain \cup {d} /\ UNCHANGED <<task, imported>> BY <1>8, <2>2, <3>0 DEF InsertChain
    <3>3. import'[i] = [k EXCEPT !.at = "tasks", !.id = lastChain + 1] BY <2>2 DEF Actors
    <3>4. import'[i].id = lastChain + 1 BY <1>3, <3>3 DEF Import
    <3>5. \A t \in task : t.chain # d.id BY <1>3, <3>1 DEF Tables
    <3>6. d.id \notin imported BY <1>3, <3>1 DEF Actors
    <3>7. Current(i) \in YamlChain BY <1>8, CurrentType DEF InsertChain, At, InFile
    <3>8. AsDefined(d)'
      <4>1. 0 <= Len(d.def.tasks) BY <3>1, <3>7, TasksType
      <4>2. \A t \in task' : t.chain # d.id BY <3>2, <3>5
      <4>3. \A n \in 1..d.last : FALSE BY <3>1
      <4>4. d.last <= Len(d.def.tasks) /\ d.id \notin imported' BY <3>1, <3>2, <3>6, <4>1
      <4> QED BY <4>2, <4>3, <4>4 DEF AsDefined
    <3>9. ASSUME NEW c \in chain, c.id \notin edited PROVE AsDefined(c)'
      <4>1. c.id # lastChain + 1 BY <1>3 DEF Tables
      <4> QED BY <1>2, <1>4, <3>2, <3>4, <3>9, <4>1, RowStays
    <3> SUFFICES ASSUME NEW c \in chain', c.id \notin edited' PROVE AsDefined(c)' BY DEF Rows
    <3>10. CASE c = d BY <3>8, <3>10
    <3>11. CASE c \in chain BY <1>1, <3>9, <3>11
    <3> QED BY <3>2, <3>10, <3>11
  <2> QED BY <1>8, <2>1, <2>2 DEF InsertChain
<1>9. CASE ChainDone(i)
  <2>1. k.at = "tasks" /\ UNCHANGED <<chain, task>> /\ imported' = imported \cup {k.id}
        BY <1>9 DEF ChainDone, At
  <2>2. import'[i].at # "tasks" BY <1>9 DEF ChainDone, Actors, Begin
  <2>3. ASSUME NEW c \in chain, c.id \notin edited, c.id # k.id PROVE AsDefined(c)'
        BY <1>2, <1>4, <2>1, <2>2, <2>3, RowStays
  <2>4. ASSUME NEW c \in chain, c.id \notin edited, c.id = k.id PROVE AsDefined(c)'
    <3>1. c.def = Current(i) /\ c.last = k.task /\ AsDefined(c) /\ k.task \in 0..Len(c.def.tasks)
          BY <1>4, <2>1, <2>4 DEF Owner
    <3>2. c.def \in YamlChain BY DEF Tables, ChainRow
    <3>3. k.task = Len(c.def.tasks)
      <4>1. ~(k.task < Len(c.def.tasks)) BY <1>9, <3>1 DEF ChainDone, TasksLeft
      <4> QED BY <3>1, <3>2, <4>1, TasksType
    <3>4. ASSUME NEW t \in task, t.chain = c.id
          PROVE  t.params = c.def.tasks[t.no].params
      <4>1. t.no \in Nat /\ t.no <= c.last /\ t \in TaskRow
            BY <3>4 DEF Tables, TaskRow
      <4>2. CASE t.no < c.last BY <3>1, <3>4, <4>2 DEF AsDefined
      <4>3. CASE t.no = c.last /\ t.no > 0
        <5>1. t.params = k.param /\ t.params <= c.def.tasks[t.no].params
              BY <2>1, <2>4, <3>1, <3>4, <4>3 DEF AsDefined
        <5>2. ~(k.param < c.def.tasks[t.no].params)
              BY <1>9, <3>1, <4>3 DEF ChainDone, ParamsLeft
        <5>3. c.def.tasks[t.no].params \in Nat /\ t.params \in Nat
              BY <3>1, <3>2, <4>1, <4>3, TasksType DEF TaskRow
        <5> QED BY <5>1, <5>2, <5>3
      <4> QED BY <3>1, <4>1, <4>2, <4>3 DEF TaskRow
    <3> QED BY <1>1, <1>2, <2>1, <2>2, <3>1, <3>3, <3>4 DEF AsDefined
  <2> QED BY <1>1, <2>1, <2>3, <2>4 DEF Rows
<1>10. CASE InsertParameter(i)
  <2>1. PICK t \in task : /\ t.chain = k.id /\ t.no = k.task
                          /\ task' = (task \ {t}) \cup {[t EXCEPT !.params = @ + 1]}
        BY <1>10 DEF InsertParameter
  <2> DEFINE u == [t EXCEPT !.params = @ + 1]
  <2>2. t \in TaskRow /\ u.chain = t.chain /\ u.no = t.no /\ u.order = t.order /\ u.live = t.live
        /\ u.params = t.params + 1 BY DEF Tables, TaskRow
  <2>3. task' = (task \ {t}) \cup {u} BY <2>1
  <2>4. UNCHANGED <<chain, imported>> /\ k.at = "tasks" /\ k.task > 0
        /\ k.param < Current(i).tasks[k.task].params
        BY <1>10 DEF InsertParameter, At, ParamsLeft
  <2>5. import'[i] = [k EXCEPT !.param = @ + 1] BY <1>10 DEF InsertParameter, Actors
  <2>6. import'[i].at = "tasks" /\ import'[i].id = k.id /\ import'[i].param = k.param + 1
        BY <1>3, <2>4, <2>5 DEF Import
  <2> HIDE DEF u
  <2>7. ASSUME NEW c \in chain, c.id \notin edited, c.id # k.id PROVE AsDefined(c)'
        BY <1>2, <1>4, <2>1, <2>2, <2>3, <2>4, <2>6, <2>7, RowStays
  <2>8. ASSUME NEW c \in chain, c.id \notin edited, c.id = k.id PROVE AsDefined(c)'
    <3>1. c.def = Current(i) /\ c.last = k.task /\ AsDefined(c) /\ c.id \notin imported
          BY <1>4, <2>4, <2>8 DEF Owner
    <3>2. t.params = k.param BY <2>1, <2>4, <2>8, <3>1 DEF AsDefined
    <3>3. u.params <= c.def.tasks[u.no].params /\ u.params = k.param + 1 /\ u.no = c.last
      <4>1. c.def.tasks[k.task].params \in Nat
        <5>1. c.def \in YamlChain /\ k.task \in 1..Len(c.def.tasks)
              BY <1>3, <2>4, <3>1, TasksType DEF Tables, ChainRow, AsDefined, Import
        <5> QED BY <5>1, TasksType
      <4> QED BY <1>3, <2>1, <2>2, <2>4, <3>1, <3>2, <4>1 DEF Import
    <3>4. ASSUME NEW x \in task', x.chain = c.id
          PROVE  /\ x.order = 10 * x.no /\ (x.live <=> c.def.tasks[x.no].live # "false")
                 /\ x.params <= c.def.tasks[x.no].params
                 /\ (x.no < c.last => x.params = c.def.tasks[x.no].params)
                 /\ (x.no = c.last => x.params = k.param + 1)
      <4>1. CASE x = u
        <5>1. ~(u.no < c.last) BY <1>3, <3>1, <3>3 DEF Import
        <5> QED BY <2>1, <2>2, <3>1, <3>3, <3>4, <4>1, <5>1 DEF AsDefined
      <4>2. CASE x \in task \ {t}
        <5>1. x.no # c.last BY <2>1, <2>8, <3>1, <3>4, <4>2 DEF Tables
        <5> QED BY <3>1, <3>4, <4>2, <5>1 DEF AsDefined
      <4> QED BY <2>3, <4>1, <4>2
    <3>5. \A n \in 1..c.last : \E x \in task' : x.chain = c.id /\ x.no = n
          BY <2>2, <2>3, <3>1 DEF AsDefined
    <3>6. \A j \in Importers : import'[j].at = "tasks" /\ import'[j].id = c.id => j = i
          BY <1>2, <2>4, <2>8 DEF Owner
    <3> QED BY <2>4, <2>6, <3>1, <3>4, <3>5, <3>6 DEF AsDefined
  <2> QED BY <1>1, <2>4, <2>7, <2>8 DEF Rows
<1>11. CASE InsertTask(i)
  <2>1. CASE Goto(i, "failed") /\ UNCHANGED <<chain, task>>
        BY <1>5, <1>11, <2>1, GotoAt DEF InsertTask, InsertTaskAt
  <2>2. CASE /\ import' = [import EXCEPT ![i].task = @ + 1, ![i].param = 0]
             /\ \E c \in chain : /\ c.id = k.id
                                 /\ AddTask(c, 10 * (k.task + 1),
                                            Current(i).tasks[k.task + 1].live # "false", 0)
    <3>1. PICK c \in chain : /\ c.id = k.id
                             /\ AddTask(c, 10 * (k.task + 1),
                                        Current(i).tasks[k.task + 1].live # "false", 0)
          BY <2>2
    <3> DEFINE d == [c EXCEPT !.last = @ + 1]
               u == NewTask(c, 10 * (k.task + 1), Current(i).tasks[k.task + 1].live # "false", 0)
    <3>2. d.id = c.id /\ d.def = c.def /\ d.last = c.last + 1 /\ c.last \in Nat /\ c.def \in YamlChain
          BY DEF Tables, ChainRow
    <3>3. u.chain = c.id /\ u.no = c.last + 1 /\ u.order = 10 * (k.task + 1) /\ u.params = 0
          /\ u.live = (Current(i).tasks[k.task + 1].live # "false")
          BY DEF NewTask
    <3>4. chain' = (chain \ {c}) \cup {d} /\ task' = task \cup {u} BY <3>1 DEF AddTask
    <3>5. import'[i] = [k EXCEPT !.task = @ + 1, !.param = 0] BY <2>2 DEF Actors
    <3>6. import'[i].at = k.at /\ import'[i].id = k.id /\ import'[i].param = 0
          BY <1>3, <3>5 DEF Import
    <3>7. k.at = "tasks" /\ UNCHANGED imported /\ k.task < Len(Current(i).tasks)
          /\ (k.task > 0 => ~(k.param < Current(i).tasks[k.task].params))
          BY <1>11 DEF InsertTask, InsertTaskAt, At, TasksLeft, ParamsLeft
    <3> HIDE DEF d, u
    <3>8. ASSUME NEW x \in chain, x.id \notin edited, x # c PROVE AsDefined(x)'
      <4>1. x.id # c.id BY <3>8 DEF Tables
      <4>2. \A t : t.chain = x.id => (t \in task' <=> t \in task) BY <3>3, <3>4, <4>1
      <4>3. \A j \in Importers : import'[j].id = x.id => import'[j] = import[j]
            BY <1>2, <3>1, <3>6, <4>1
      <4>4. AsDefined(x) BY <1>4, <3>8
      <4> QED BY <3>7, <4>2, <4>3, <4>4, RowStays
    <3>9. ASSUME c.id \notin edited PROVE AsDefined(d)'
      <4>1. c.def = Current(i) /\ c.last = k.task /\ AsDefined(c) /\ c.id \notin imported
            BY <1>4, <3>1, <3>7, <3>9 DEF Owner
      <4>2. Len(c.def.tasks) \in Nat /\ \A n \in 1..Len(c.def.tasks) : c.def.tasks[n].params \in Nat
            BY <3>2, TasksType
      <4>3. c.last + 1 \in 1..Len(c.def.tasks) BY <3>2, <3>7, <4>1, <4>2
      <4>4. ASSUME NEW t \in task', t.chain = c.id
            PROVE  /\ t.order = 10 * t.no /\ (t.live <=> c.def.tasks[t.no].live # "false")
                   /\ t.params <= c.def.tasks[t.no].params
                   /\ (t.no < d.last => t.params = c.def.tasks[t.no].params)
                   /\ (t.no = d.last => t.params = 0)
        <5>1. CASE t = u
          <6>1. ~(u.no < d.last) BY <3>2, <3>3
          <6>2. 0 <= c.def.tasks[u.no].params BY <3>3, <4>2, <4>3
          <6> QED BY <3>3, <4>1, <5>1, <6>1, <6>2
        <5>2. CASE t \in task
          <6>1. t.no \in Nat /\ t.no > 0 /\ t.no <= c.last /\ t.params \in Nat
                BY <4>4, <5>2 DEF Tables, TaskRow
          <6>2. CASE t.no < c.last BY <3>2, <4>1, <4>4, <5>2, <6>1, <6>2 DEF AsDefined
          <6>3. CASE t.no = c.last /\ t.no > 0
            <7>1. t.params = k.param /\ t.params <= c.def.tasks[t.no].params
                  BY <3>1, <3>7, <4>1, <4>4, <5>2, <6>3 DEF AsDefined
            <7>2. ~(k.param < c.def.tasks[t.no].params) BY <3>7, <4>1, <6>3
            <7>3. c.def.tasks[t.no].params \in Nat BY <4>2, <4>3, <6>1, <6>3
            <7>4. t.params = c.def.tasks[t.no].params BY <6>1, <7>1, <7>2, <7>3
            <7> QED BY <3>2, <4>1, <4>4, <5>2, <6>3, <7>4 DEF AsDefined
          <6> QED BY <3>2, <6>1, <6>2, <6>3
        <5> QED BY <3>4, <5>1, <5>2
      <4>5. \A n \in 1..d.last : \E t \in task' : t.chain = c.id /\ t.no = n
        <5> SUFFICES ASSUME NEW n \in 1..d.last PROVE \E t \in task' : t.chain = c.id /\ t.no = n
            OBVIOUS
        <5>1. CASE n = c.last + 1 BY <3>3, <3>4, <5>1
        <5>2. CASE n \in 1..c.last BY <3>4, <4>1, <5>2 DEF AsDefined
        <5> QED BY <3>2, <5>1, <5>2
      <4>6. \A j \in Importers : import'[j].at = "tasks" /\ import'[j].id = c.id => j = i
            BY <1>2, <3>1, <3>7 DEF Owner
      <4>7. d.last <= Len(c.def.tasks) BY <3>2, <4>2, <4>3
      <4>8. d.id \notin imported' BY <3>2, <3>7, <4>1
      <4>9. ASSUME NEW t \in task', t.chain = d.id
            PROVE  /\ t.order = 10 * t.no /\ (t.live <=> d.def.tasks[t.no].live # "false")
                   /\ t.params <= d.def.tasks[t.no].params
                   /\ (t.no < d.last \/ d.id \in imported' => t.params = d.def.tasks[t.no].params)
                   /\ \A j \in Importers : import'[j].at = "tasks" /\ import'[j].id = d.id
                                            /\ t.no = d.last => t.params = import'[j].param
            BY <3>2, <3>6, <4>4, <4>6, <4>8, <4>9
      <4>10. \A n \in 1..d.last : \E t \in task' : t.chain = d.id /\ t.no = n BY <3>2, <4>5
      <4>11. d.last <= Len(d.def.tasks) BY <3>2, <4>7
      <4> QED BY <4>8, <4>9, <4>10, <4>11 DEF AsDefined
    <3> QED BY <1>1, <3>2, <3>4, <3>8, <3>9 DEF Rows
  <2> QED BY <1>11, <2>1, <2>2 DEF InsertTask, InsertTaskAt
<1> QED BY <1>6, <1>7, <1>8, <1>9, <1>10, <1>11 DEF ImportStep

\* Except for the chains that are edited, the SQL functions leave rows as they were defined.
LEMMA UserRows ==
    ASSUME Tables, Actors, Rows, UserStep
    PROVE  Rows'
<1>1. UNCHANGED <<import, imported>> BY UserActors
<1>2. \A c \in chain : c.id \notin edited => AsDefined(c) BY DEF Rows
<1>3. CASE add_job
  <2>1. PICK d, t : /\ d = [NewChain(Job) EXCEPT !.last = 1]
                    /\ t = NewTask(NewChain(Job), 10, TRUE, 1)
        OBVIOUS
  <2>2. d.id = lastChain + 1 /\ d.last = 1 /\ d.def = Job BY <2>1 DEF NewChain
  <2>3. t.chain = lastChain + 1 /\ t.no = 1 /\ t.order = 10 /\ t.live = TRUE /\ t.params = 1
        BY <2>1 DEF NewTask, NewChain
  <2>4. chain' = chain \cup {d} /\ task' = task \cup {t} /\ UNCHANGED edited
        BY <1>3, <2>1 DEF add_job
  <2>5. lastChain \in Nat /\ \A u \in task : u.chain # lastChain + 1 BY DEF Tables
  <2>6. AsDefined(d)'
    <3>1. d.id \notin imported' BY <1>1, <2>2, <2>5 DEF Actors
    <3>2. \A j \in Importers : import'[j].id # d.id BY <1>1, <2>2, <2>5 DEF Actors
    <3>3. \A u \in task' : u.chain = d.id => u = t BY <2>2, <2>4, <2>5
    <3>4. \A n \in 1..d.last : \E u \in task' : u.chain = d.id /\ u.no = n BY <2>2, <2>3, <2>4
    <3>5. Len(d.def.tasks) = 1 /\ d.def.tasks[1].live # "false" /\ d.def.tasks[1].params = 1
          BY <2>2, ChainStoreAssumption
    <3> QED BY <2>2, <2>3, <3>1, <3>2, <3>3, <3>4, <3>5 DEF AsDefined
  <2>7. ASSUME NEW c \in chain, c.id \notin edited PROVE AsDefined(c)'
    <3>1. c.id # lastChain + 1 BY <2>5 DEF Tables
    <3> QED BY <1>1, <1>2, <2>3, <2>4, <2>7, <3>1, RowStays
  <2> SUFFICES ASSUME NEW c \in chain', c.id \notin edited' PROVE AsDefined(c)' BY DEF Rows
  <2>8. CASE c = d BY <2>6, <2>8
  <2>9. CASE c \in chain BY <2>4, <2>7, <2>9
  <2> QED BY <2>4, <2>8, <2>9
<1>4. CASE \E name \in Names : delete_job(name)
      BY <1>1, <1>4, DeleteRows DEF delete_job, Named
<1>5. ASSUME NEW name \in Names, NEW live \in BOOLEAN, SetLive(name, live) PROVE Rows'
  <2> SUFFICES ASSUME NEW c \in chain', c.id \notin edited' PROVE AsDefined(c)' BY DEF Rows
  <2>1. PICK d \in chain : c = (IF d.name = name THEN [d EXCEPT !.live = live] ELSE d)
        BY <1>5 DEF SetLive
  <2>2. c.id = d.id /\ c.last = d.last /\ c.def = d.def BY <2>1 DEF Tables, ChainRow
  <2>3. AsDefined(d) BY <1>2, <1>5, <2>2 DEF SetLive
  <2> QED BY <1>1, <1>5, <2>2, <2>3, RowStays DEF SetLive
\* The chain of the task is in edited.
<1>6. ASSUME NEW id, edited' = edited \cup {id}, \A t : t.chain # id => (t \in task' <=> t \in task),
             \A c \in chain' : c.id # id => c \in chain
      PROVE  Rows'
  <2> SUFFICES ASSUME NEW c \in chain', c.id \notin edited' PROVE AsDefined(c)' BY DEF Rows
  <2>1. c.id # id /\ c.id \notin edited BY <1>6
  <2>2. c \in chain /\ AsDefined(c) BY <1>2, <1>6, <2>1
  <2> QED BY <1>1, <1>6, <2>1, <2>2, RowStays
<1>7. ASSUME NEW t \in task, add_task(t, 10) PROVE Rows'
  <2>1. PICK c \in chain : c.id = t.chain /\ AddTask(c, t.order + 10, TRUE, 0)
        BY <1>7 DEF add_task
  <2>2. NewTask(c, t.order + 10, TRUE, 0).chain = t.chain BY <2>1 DEF NewTask
  <2>3. [c EXCEPT !.last = @ + 1].id = t.chain BY <2>1 DEF Tables, ChainRow
  <2>4. chain' = (chain \ {c}) \cup {[c EXCEPT !.last = @ + 1]}
        /\ task' = task \cup {NewTask(c, t.order + 10, TRUE, 0)}
        BY <2>1 DEF AddTask
  <2> QED BY <1>6, <1>7, <2>2, <2>3, <2>4 DEF add_task
<1>8. ASSUME NEW t \in task, delete_task(t) PROVE Rows' BY <1>6, <1>8 DEF delete_task
<1>9. ASSUME NEW m \in moves, WriteMove(m) PROVE Rows'
  <2>1. task' = {Moved(m, t) : t \in task} BY <1>9 DEF WriteMove
  <2>2. m \in Move /\ task \subseteq TaskRow BY DEF Actors, Tables
  <2>3. \A t \in task : Moved(m, t).chain = t.chain BY <2>2, MovedRow
  <2>4. \A t \in task : t.chain # m.task.chain => Moved(m, t) = t
    <3>1. \A t \in TaskRow : [t EXCEPT !.order = t.order] = t BY DEF TaskRow
    <3> QED BY <2>2, <3>1 DEF Moved
  <2>5. \A t : t.chain # m.task.chain => (t \in task' <=> t \in task) BY <2>1, <2>3, <2>4
  <2> QED BY <1>6, <1>9, <2>5 DEF WriteMove, MoveEnds
<1>10. ASSUME UNCHANGED <<chain, task, edited>> PROVE Rows' BY <1>1, <1>10 DEF Rows, AsDefined
<1>11. ASSUME NEW t \in task, move_task_up(t) \/ move_task_down(t) PROVE Rows'
       BY <1>10, <1>11 DEF move_task_up, move_task_down, ReadMove
<1>12. ASSUME NEW m \in moves, CancelMove(m) PROVE Rows'
       BY <1>10, <1>12 DEF CancelMove, MoveEnds
<1> QED BY <1>3, <1>4, <1>5, <1>7, <1>8, <1>9, <1>11, <1>12 DEF UserStep

\* What a chain that is as defined is to whom reads it.
LEMMA DefinedTasks ==
    ASSUME Tables, NEW c \in chain, AsDefined(c)
    PROVE  /\ c.last \in Nat /\ Len(c.def.tasks) \in Nat /\ DOMAIN c.def.tasks = 1..Len(c.def.tasks)
           /\ \A t \in task : t.chain = c.id =>
                /\ t.no \in DOMAIN c.def.tasks /\ t.no <= c.last /\ t.order = 10 * t.no
                /\ t.live <=> t.no \in Enabled(c.def)
                /\ t.params <= c.def.tasks[t.no].params
                /\ c.id \in imported => t.params = c.def.tasks[t.no].params
           /\ \A n \in 1..c.last : \E t \in task : t.chain = c.id /\ t.no = n
           /\ c.id \in imported => c.last = Len(c.def.tasks)
<1>1. c.def \in YamlChain /\ c.last \in Nat BY DEF Tables, ChainRow
<1>2. Len(c.def.tasks) \in Nat /\ DOMAIN c.def.tasks = 1..Len(c.def.tasks) BY <1>1, TasksType
<1>3. ASSUME NEW t \in task, t.chain = c.id
      PROVE  t.no \in DOMAIN c.def.tasks /\ t.no <= c.last
  <2>1. PICK d \in chain : d.id = c.id /\ t.no <= d.last BY <1>3 DEF Tables
  <2>2. d = c BY <2>1 DEF Tables
  <2>3. t.no \in Nat /\ t.no > 0 BY DEF Tables, TaskRow
  <2> QED BY <1>1, <1>2, <2>1, <2>2, <2>3 DEF AsDefined
<1> QED BY <1>1, <1>2, <1>3 DEF AsDefined, Enabled

-----------------------------------------------------------------------------
(* The workers.                                                            *)

\* No step gives a number to another definition.
DefKept(id) == \A c \in chain' : c.id = id => \E d \in chain : d.id = id /\ d.def = c.def

\* An import gives no old number a new definition.
LEMMA ImportKeepsDefs ==
    ASSUME Tables, NEW i \in Importers, ImportStep(i) \/ ImportFails(i)
    PROVE  edited' = edited /\ imported \subseteq imported' /\ \A id \in 0..lastChain : DefKept(id)
<1>1. edited' = edited /\ imported \subseteq imported'
      BY DEF ImportStep, ImportFails, ParseYamlFile, DeleteReplaced, CheckExists, InsertChain,
             InsertTask, InsertTaskAt, InsertParameter, ParameterRefused, ChainDone, StartAgain, At
<1>2. CASE chain' \subseteq chain BY <1>1, <1>2 DEF DefKept
<1>3. CASE chain' = chain \cup {NewChain(Current(i))}
  <2>1. NewChain(Current(i)).id \notin 0..lastChain BY DEF NewChain, Tables
  <2> QED BY <1>1, <1>3, <2>1 DEF DefKept
<1>4. ASSUME NEW c \in chain, chain' = (chain \ {c}) \cup {[c EXCEPT !.last = @ + 1]}
      PROVE  \A id : DefKept(id)
  <2> DEFINE d == [c EXCEPT !.last = @ + 1]
  <2>1. d.id = c.id /\ d.def = c.def BY DEF Tables, ChainRow
  <2>2. chain' = (chain \ {c}) \cup {d} BY <1>4
  <2> HIDE DEF d
  <2> QED BY <2>1, <2>2 DEF DefKept
<1> QED BY <1>1, <1>2, <1>3, <1>4
        DEF ImportStep, ImportFails, ParseYamlFile, DeleteReplaced, DeleteChains, CheckExists,
            InsertChain, InsertTask, InsertTaskAt, AddTask, InsertParameter, ParameterRefused,
            ChainDone, StartAgain

\* Whoever reads a chain does not care about the steps that leave its definition alone.
LEMMA ReadingKept ==
    ASSUME NEW w \in Workers, Reading(worker[w]), worker' = worker, DefKept(worker[w].id),
           edited \subseteq edited', imported \subseteq imported'
    PROVE  Reading(worker[w])'
<1>1. PICK k : k = worker[w] OBVIOUS
<1>2. k = worker'[w] /\ Reading(k) /\ (k.id \notin edited' => k.id \notin edited) BY <1>1
<1>3. \A c \in chain' : c.id = k.id => \E d \in chain : d.id = k.id /\ d.def = c.def
      BY <1>1 DEF DefKept
<1>4. Along(k)'
  <2>1. k.id \notin edited' => \A c \in chain' : c.id = k.id => c.def = k.def
        BY <1>2, <1>3 DEF Reading, Along
  <2> QED BY <1>2, <2>1 DEF Reading, Along, Enabled
<1>5. Whole(k)' BY <1>2, <1>3 DEF Reading, Whole, Enabled
<1>6. Reading(k)' BY <1>2, <1>4, <1>5 DEF Reading
<1> QED BY <1>2, <1>6 DEF Reading, Along, Whole

\* The sequence of live tasks that the query of GetChainElements returns.
LEMMA ListedTasks ==
    ASSUME Tables, Rows, NEW id \in Nat, id \notin edited,
           NEW s \in SetToSeqs({t \in TasksOf(id) : t.live}),
           \A m, n \in DOMAIN s : m < n => s[m].order <= s[n].order,
           NEW def, \A c \in chain : c.id = id => c.def = def
    PROVE  /\ \A n \in DOMAIN s :
                /\ s[n].no \in Enabled(def)
                /\ {s[m].no : m \in 1..n - 1} = {j \in Enabled(def) : j < s[n].no}
           /\ id \in imported /\ (\E c \in chain : c.id = id) =>
                Enabled(def) \subseteq {s[n].no : n \in DOMAIN s}
<1> DEFINE S == {t \in TasksOf(id) : t.live}
<1>1. S \subseteq task /\ \A t \in S : t.chain = id /\ t.live BY DEF TasksOf
<1>2. IsFiniteSet(S) BY <1>1, FS_Subset DEF Tables
<1>3. Cardinality(S) \in Nat /\ DOMAIN s = 1..Cardinality(S) /\ (\A n \in DOMAIN s : s[n] \in S)
      /\ (\A m, n \in DOMAIN s : m # n => s[m] # s[n]) /\ \A t \in S : \E n \in DOMAIN s : s[n] = t
      BY <1>2, AllOnce
<1>4. \A t \in task : t.chain = id /\ t.live => t \in S BY DEF TasksOf
<1> HIDE DEF S
<1>5. CASE \A c \in chain : c.id # id
  <2>1. S = {} BY <1>1, <1>5 DEF Tables
  <2> QED BY <1>3, <1>5, <2>1
<1>6. ASSUME NEW c \in chain, c.id = id
      PROVE  /\ \A n \in DOMAIN s :
                  /\ s[n].no \in Enabled(def)
                  /\ {s[m].no : m \in 1..n - 1} = {j \in Enabled(def) : j < s[n].no}
             /\ id \in imported => Enabled(def) \subseteq {s[n].no : n \in DOMAIN s}
  <2>1. c.def = def /\ AsDefined(c) BY <1>6 DEF Rows
  <2>2. /\ c.last \in Nat /\ DOMAIN def.tasks = 1..Len(def.tasks) /\ Len(def.tasks) \in Nat
        /\ \A t \in task : t.chain = id =>
             t.no \in DOMAIN def.tasks /\ t.no <= c.last /\ t.order = 10 * t.no
             /\ (t.live <=> t.no \in Enabled(def))
        /\ \A n \in 1..c.last : \E t \in task : t.chain = id /\ t.no = n
        /\ id \in imported => c.last = Len(def.tasks)
        BY <1>6, <2>1, DefinedTasks
  <2>3. \A n \in DOMAIN s : s[n] \in task /\ s[n].chain = id /\ s[n].live BY <1>1, <1>3
  <2>4. \A n \in DOMAIN s : s[n].no \in Enabled(def) /\ s[n].no \in 1..c.last
                            /\ s[n].order = 10 * s[n].no BY <2>2, <2>3
  <2>5. ASSUME NEW m \in DOMAIN s, NEW n \in DOMAIN s, m < n PROVE s[m].no < s[n].no
    <3>1. s[m].order <= s[n].order /\ s[m] # s[n] BY <1>3, <2>5
    <3>2. s[m].no # s[n].no BY <2>3, <3>1 DEF Tables
    <3>3. s[m].no \in 1..c.last /\ s[n].no \in 1..c.last BY <2>4
    <3> QED BY <2>2, <2>4, <3>1, <3>2, <3>3
  <2>6. ASSUME NEW j \in Enabled(def), j <= c.last PROVE \E m \in DOMAIN s : s[m].no = j
    <3>1. j \in 1..c.last BY <2>2, <2>6 DEF Enabled
    <3>2. PICK t \in task : t.chain = id /\ t.no = j BY <2>2, <3>1
    <3>3. t \in S BY <1>4, <2>2, <3>2
    <3> QED BY <1>3, <3>2, <3>3
  <2>7. ASSUME NEW n \in DOMAIN s
        PROVE  {s[m].no : m \in 1..n - 1} = {j \in Enabled(def) : j < s[n].no}
    <3>1. n \in 1..Cardinality(S) BY <1>3
    <3>2. \A m \in 1..n - 1 : m \in DOMAIN s /\ m < n BY <1>3, <3>1
    <3>3. \A m \in 1..n - 1 : s[m].no \in Enabled(def) /\ s[m].no < s[n].no
          BY <2>4, <2>5, <3>2
    <3>4. ASSUME NEW j \in Enabled(def), j < s[n].no PROVE \E m \in 1..n - 1 : s[m].no = j
      <4>1. j <= c.last /\ j \in Nat BY <2>2, <2>4, <3>4 DEF Enabled
      <4>2. PICK m \in DOMAIN s : s[m].no = j BY <2>6, <4>1
      <4>3. m # n BY <2>2, <2>4, <3>4, <4>1, <4>2
      <4>4. ~(n < m) BY <2>2, <2>4, <2>5, <3>4, <4>1, <4>2
      <4> QED BY <1>3, <3>1, <4>2, <4>3, <4>4
    <3> QED BY <3>3, <3>4
  <2>8. ASSUME id \in imported, NEW j \in Enabled(def) PROVE \E m \in DOMAIN s : s[m].no = j
        BY <2>2, <2>6, <2>8 DEF Enabled
  <2> QED BY <2>4, <2>7, <2>8
<1> QED BY <1>5, <1>6

\* What a worker reads, it reads of the definition.
LEMMA WorkerReads ==
    ASSUME Tables, Actors, Rows, NEW w \in Workers, WorkerStep(w), \A v \in Workers : Reading(worker[v])
    PROVE  \A v \in Workers : Reading(worker[v])'
<1> DEFINE k == worker[w]
<1>1. UNCHANGED <<chain, task, edited, imported>> /\ \E x : worker' = [worker EXCEPT ![w] = x]
      BY WorkerActors
      DEF WorkerStep, SelectChain, InsertChainRunStatus, GetChainElements, GetChainParamValues,
          RemoveChainRunStatus
<1>2. \A v \in Workers \ {w} : worker'[v] = worker[v] BY <1>1 DEF Actors
<1>3. ASSUME NEW v \in Workers, NEW x, x = worker'[v], Reading(x) PROVE Reading(worker[v])'
  <2>1. Along(x)' /\ Whole(x)' BY <1>1, <1>3 DEF Reading, Along, Whole, Enabled
  <2>2. Reading(x)' BY <1>3, <2>1 DEF Reading
  <2> QED BY <1>3, <2>2 DEF Reading, Along, Whole
<1> SUFFICES ASSUME NEW x, x = worker'[w] PROVE Reading(x) BY <1>2, <1>3
<1>4. k \in Worker /\ x \in Worker /\ k.id \in 0..lastChain /\ lastChain \in Nat
      BY WorkerActors DEF Actors, Tables
<1>5. k.tasks \in Seq(Nat) /\ k.ran \in Seq(Nat \X Nat) BY <1>4 DEF Worker
<1>6. CASE SelectChain(w)
  <2>1. PICK c \in chain : x =
          [at |-> "selected", id |-> c.id, max |-> c.max, def |-> c.def,
           whole |-> c.id \in imported, tasks |-> <<>>, ran |-> <<>>]
        BY <1>6 DEF SelectChain, Actors
  <2>2. \A d \in chain : d.id = c.id => d = c BY DEF Tables
  <2>3. x.at # "running" /\ x.id = c.id /\ x.def = c.def /\ x.tasks = <<>> /\ x.ran = <<>>
        BY <2>1
  <2>4. x.whole => c.id \in imported
    <3>1. ASSUME NEW b PROVE [at |-> "selected", id |-> c.id, max |-> c.max, def |-> c.def,
                             whole |-> b, tasks |-> <<>>, ran |-> <<>>].whole = b
          OBVIOUS
    <3>2. x.whole = (c.id \in imported) BY <2>1, <3>1, Zenon
    <3> QED BY <3>2, Zenon
  <2>5. Along(x) /\ Whole(x) BY <2>2, <2>3, <2>4 DEF Along, Whole
  <2> QED BY <2>3, <2>5 DEF Reading
<1>7. CASE InsertChainRunStatus(w)
  <2>1. PICK at \in {"admitted", "refused"} : x = [k EXCEPT !.at = at]
        BY <1>7 DEF InsertChainRunStatus, Actors
  <2>2. k.at = "selected" BY <1>7 DEF InsertChainRunStatus, Work
  <2>3. x.id = k.id /\ x.def = k.def /\ x.whole = k.whole
        /\ x.tasks = k.tasks /\ x.ran = k.ran /\ x.at # "running"
        BY <1>4, <2>1 DEF Worker
  <2> QED BY <2>2, <2>3 DEF Reading, Along, Whole
<1>8. CASE RemoveChainRunStatus(w)
  <2>1. x = Idle BY <1>8 DEF RemoveChainRunStatus, Actors
  <2>2. \A c \in chain : c.id # 0 BY DEF Tables
  <2> QED BY <2>1, <2>2 DEF Reading, Along, Whole, Idle
<1>9. CASE GetChainElements(w)
  <2>1. PICK s \in SetToSeqs({t \in TasksOf(k.id) : t.live}) :
          /\ \A m, n \in DOMAIN s : m < n => s[m].order <= s[n].order
          /\ x = [k EXCEPT !.at = "running", !.tasks = [n \in DOMAIN s |-> s[n].no]]
        BY <1>9 DEF GetChainElements, Actors
  <2> DEFINE nos == [n \in DOMAIN s |-> s[n].no]
  <2>2. x.id = k.id /\ x.def = k.def /\ x.whole = k.whole
        /\ x.tasks = nos /\ x.ran = k.ran /\ x.at = "running"
        BY <1>4, <2>1 DEF Worker
  <2>3. k.tasks = <<>> /\ k.ran = <<>> BY <1>5, <1>9 DEF GetChainElements, Work, Reading
  <2>4. Len(nos) \in Nat /\ Len(<<>>) = 0 BY <1>4, <2>2 DEF Worker
  <2>5. CASE k.id \in edited BY <2>2, <2>3, <2>4, <2>5 DEF Reading, Along, Whole
  <2>6. CASE k.id \notin edited
    <3>1. \A c \in chain : c.id = k.id => c.def = k.def BY <2>6 DEF Reading, Along
    <3>2. /\ \A n \in DOMAIN s :
               /\ s[n].no \in Enabled(k.def)
               /\ {s[m].no : m \in 1..n - 1} = {j \in Enabled(k.def) : j < s[n].no}
          /\ k.id \in imported /\ (\E c \in chain : c.id = k.id) =>
               Enabled(k.def) \subseteq {s[n].no : n \in DOMAIN s}
          BY <1>4, <2>1, <2>6, <3>1, ListedTasks
    <3>3. Len(nos) \in Nat /\ DOMAIN s = 1..Len(nos) BY <1>4, <2>2 DEF Worker
    <3>4. \A n \in DOMAIN nos : {nos[m] : m \in 1..n - 1} = {s[m].no : m \in 1..n - 1}
          BY <3>3
    <3>5. \A n \in DOMAIN nos : nos[n] = s[n].no OBVIOUS
    <3>6. DOMAIN nos = DOMAIN s OBVIOUS
    <3>7. {nos[n] : n \in DOMAIN nos} = {s[n].no : n \in DOMAIN s} OBVIOUS
    <3> HIDE DEF nos
    <3>8. Along(x)
      <4>1. \A n \in DOMAIN nos : nos[n] \in Enabled(k.def)
                                 /\ {nos[m] : m \in 1..n - 1} = {j \in Enabled(k.def) : j < nos[n]}
            BY <3>2, <3>4, <3>5, <3>6
      <4> QED BY <2>2, <2>3, <3>1, <4>1 DEF Along
    <3>9. Whole(x)
      <4>1. k.whole => k.id \in imported BY DEF Reading, Whole
      <4>2. k.id \in imported /\ (\E c \in chain : c.id = k.id) =>
              Enabled(k.def) \subseteq {nos[n] : n \in DOMAIN nos} BY <3>2, <3>7
      <4> QED BY <2>2, <2>3, <4>1, <4>2 DEF Whole
    <3> QED BY <2>2, <2>3, <2>4, <3>8, <3>9 DEF Reading
  <2> QED BY <2>5, <2>6
<1>10. CASE GetChainParamValues(w)
  <2> DEFINE no == k.tasks[Len(k.ran) + 1]
             row == {t \in TasksOf(k.id) : t.no = no}
             params == IF row = {} THEN 0 ELSE (CHOOSE t \in row : TRUE).params
  <2>1. x = [k EXCEPT !.ran = Append(@, <<no, params>>)] /\ Len(k.ran) < Len(k.tasks)
        /\ k.at = "running"
        BY <1>10 DEF GetChainParamValues, Work, Actors
  <2>2. x.id = k.id /\ x.def = k.def /\ x.whole = k.whole
        /\ x.tasks = k.tasks /\ x.ran = Append(k.ran, <<no, params>>)
        /\ x.at = k.at
        BY <1>4, <2>1 DEF Worker
  <2>3. row # {} => \E t \in row : params = t.params OBVIOUS
  <2>4. \A t \in row : t \in task /\ t.chain = k.id /\ t.no = no BY DEF TasksOf
  <2>5. \A t \in task : t.chain = k.id /\ t.no = no => t \in row BY DEF TasksOf
  <2>6. row = {} => params = 0 OBVIOUS
  <2> HIDE DEF row, params
  <2>7. Len(k.ran) + 1 \in DOMAIN k.tasks BY <1>5, <2>1
  <2>8. ASSUME k.id \notin edited
        PROVE  /\ params <= k.def.tasks[no].params
               /\ k.whole /\ (\E c \in chain : c.id = k.id) => params = k.def.tasks[no].params
    <3>1. no \in Enabled(k.def) BY <2>7, <2>8 DEF Reading, Along
    <3>2. k.def.tasks[no].params \in Nat BY <1>4, <3>1, TasksType DEF Enabled, Worker
    <3>3. CASE row = {}
      <4>1. params <= k.def.tasks[no].params BY <2>6, <3>2, <3>3
      <4>2. ASSUME k.whole, NEW c \in chain, c.id = k.id PROVE FALSE
        <5>1. c.def = k.def /\ AsDefined(c) /\ c.id \in imported
              BY <2>8, <4>2 DEF Reading, Along, Whole, Rows
        <5>2. no \in 1..c.last BY <3>1, <5>1, DefinedTasks DEF Enabled
        <5> QED BY <2>5, <3>3, <4>2, <5>1, <5>2, DefinedTasks
      <4> QED BY <4>1, <4>2
    <3>4. ASSUME NEW t \in row, params = t.params
          PROVE  /\ params <= k.def.tasks[no].params
                 /\ k.whole => params = k.def.tasks[no].params
      <4>1. t \in task /\ t.chain = k.id /\ t.no = no BY <2>4
      <4>2. PICK c \in chain : c.id = k.id BY <4>1 DEF Tables
      <4>3. c.def = k.def /\ AsDefined(c) BY <2>8, <4>2 DEF Reading, Along, Rows
      <4>4. k.whole => c.id \in imported BY <4>2 DEF Reading, Whole
      <4> QED BY <3>4, <4>1, <4>2, <4>3, <4>4, DefinedTasks
    <3> QED BY <2>3, <3>3, <3>4
  <2> DEFINE e == <<no, params>>
             ran == x.ran
  <2>9. e[1] = no /\ e[2] = params OBVIOUS
  <2>10. /\ Len(ran) = Len(k.ran) + 1 /\ DOMAIN ran = 1..Len(k.ran) + 1 /\ Len(k.ran) \in Nat
         /\ ran[Len(k.ran) + 1] = e /\ \A n \in 1..Len(k.ran) : ran[n] = k.ran[n]
    <3> HIDE DEF no, e
    <3>1. \A y : /\ Len(Append(k.ran, y)) = Len(k.ran) + 1
                 /\ DOMAIN Append(k.ran, y) = 1..Len(k.ran) + 1 /\ Len(k.ran) \in Nat
                 /\ Append(k.ran, y)[Len(k.ran) + 1] = y
                 /\ \A n \in 1..Len(k.ran) : Append(k.ran, y)[n] = k.ran[n]
          BY <1>5
    <3> QED BY <2>2, <3>1 DEF e
  <2> HIDE DEF ran, e
  <2>11. ASSUME NEW n \in DOMAIN ran
         PROVE  /\ ran[n][1] = k.tasks[n]
                /\ k.id \notin edited => ran[n][2] <= k.def.tasks[k.tasks[n]].params
                /\ k.id \notin edited /\ k.whole /\ (\E c \in chain : c.id = k.id) =>
                     ran[n][2] = k.def.tasks[k.tasks[n]].params
    <3>1. CASE n = Len(k.ran) + 1 BY <2>8, <2>9, <2>10, <3>1
    <3>2. CASE n \in 1..Len(k.ran)
      <4>1. n \in DOMAIN k.ran BY <1>5, <3>2
      <4> QED BY <2>10, <3>2, <4>1 DEF Reading, Along, Whole
    <3> QED BY <2>10, <3>1, <3>2
  <2>12. Len(ran) <= Len(k.tasks) BY <1>5, <2>1, <2>10
  <2>13. Along(x) BY <2>2, <2>11 DEF Reading, Along, ran
  <2>14. Whole(x)
    <3>1. k.whole => k.id \in imported BY DEF Reading, Whole
    <3>2. k.whole /\ k.id \notin edited /\ (\E c \in chain : c.id = k.id) =>
            Enabled(k.def) \subseteq {k.tasks[n] : n \in DOMAIN k.tasks}
          BY <2>1 DEF Reading, Whole
    <3> QED BY <2>2, <2>11, <3>1, <3>2 DEF Whole, ran
  <2> QED BY <2>1, <2>2, <2>11, <2>12, <2>13, <2>14 DEF Reading, ran
<1> QED BY <1>6, <1>7, <1>8, <1>9, <1>10 DEF WorkerStep

-----------------------------------------------------------------------------
(* The invariant.                                                          *)

\* At first there is the chain of the user, whose tasks count as edited.
LEMMA InitIInv == Init => IInv
<1> SUFFICES ASSUME Init PROVE IInv OBVIOUS
<1>1. PICK orders \in Seq(Nat) :
        /\ chain = {[id |-> 1, name |-> UserChain, live |-> FALSE, max |-> 1,
                     last |-> Len(orders), def |-> UserDef(orders)]}
        /\ task = {[chain |-> 1, no |-> n, order |-> orders[n], live |-> TRUE, params |-> 0]
                     : n \in DOMAIN orders}
        /\ file \in [Importers -> Seq(YamlChain)]
        /\ edits \in Nat
  <2>1. PICK s \in Setups :
          /\ chain = {[id |-> 1, name |-> UserChain, live |-> FALSE, max |-> 1,
                       last |-> Len(s.orders), def |-> UserDef(s.orders)]}
          /\ task = {[chain |-> 1, no |-> n, order |-> s.orders[n], live |-> TRUE, params |-> 0]
                       : n \in DOMAIN s.orders}
          /\ file = s.file
          /\ edits = s.edits
        BY DEF Init
  <2>2. s \in [file : [Importers -> Seq(YamlChain)], orders : Seq(Nat), edits : Nat]
        BY ChainStoreAssumption
  <2> QED BY <2>1, <2>2
<1>2. Len(orders) \in Nat /\ DOMAIN orders = 1..Len(orders)
      OBVIOUS
<1>3. UserDef(orders) \in YamlChain
  <2> DEFINE y == [Job EXCEPT !.name = UserChain]
             T == [n \in DOMAIN orders |-> [kind |-> "SQL", live |-> "", params |-> 0]]
  <2>1. y \in YamlChain BY ChainStoreAssumption DEF YamlChain
  <2>2. [kind |-> "SQL", live |-> "", params |-> 0] \in Task BY DEF Task
  <2>3. T \in Seq(Task)
    <3>1. \A x \in Task : [n \in DOMAIN orders |-> x] \in Seq(Task) BY <1>2
    <3> QED BY <2>2, <3>1
  <2>4. UserDef(orders) = [y EXCEPT !.tasks = T] BY DEF UserDef
  <2> HIDE DEF y, T
  <2>5. [y EXCEPT !.tasks = T] \in YamlChain BY <2>1, <2>3 DEF YamlChain
  <2> QED BY <2>4, <2>5
<1>4. PICK c \in chain : c.id = 1 /\ c.last = Len(orders) /\ chain = {c} /\ c \in ChainRow
      BY <1>1, <1>2, <1>3, ChainStoreAssumption DEF ChainRow
<1>5. task \subseteq TaskRow
  <2> SUFFICES ASSUME NEW n \in DOMAIN orders
               PROVE  [chain |-> 1, no |-> n, order |-> orders[n], live |-> TRUE, params |-> 0]
                        \in TaskRow
      BY <1>1
  <2>1. orders[n] \in Nat /\ n \in Nat \ {0} BY <1>2
  <2> QED BY <2>1 DEF TaskRow
<1>6. IsFiniteSet(task)
  <2> DEFINE f == [n \in 1..Len(orders) |-> [chain |-> 1, no |-> n, order |-> orders[n],
                                             live |-> TRUE, params |-> 0]]
  <2>1. f \in Surjection(1..Len(orders), task) BY <1>1, <1>2 DEF Surjection
  <2>2. IsFiniteSet(1..Len(orders)) BY <1>2, FS_Interval
  <2> QED BY <2>1, <2>2, FS_Surjection
<1>7. \A t \in task : t.chain = 1 /\ t.no \in 1..Len(orders) BY <1>1, <1>2
<1>8. \A t, u \in task : t.no = u.no => t = u
  <2>1. \A t \in task : t = [chain |-> 1, no |-> t.no, order |-> orders[t.no], live |-> TRUE,
                             params |-> 0] BY <1>1
  <2> QED BY <2>1
<1>9. lastChain = 1 /\ moves = {} /\ faults = 0 /\ edited = {1} /\ imported = {} BY DEF Init
<1>10. Tables BY <1>2, <1>4, <1>5, <1>6, <1>7, <1>8, <1>9 DEF Tables
<1>11. import \in [Importers -> Import] /\ worker \in [Workers -> Worker]
  <2>1. [at |-> "parse", chain |-> 1, id |-> 0, task |-> 0, param |-> 0] \in Import BY DEF Import
  <2>2. Idle \in Worker BY ChainStoreAssumption DEF Idle, Worker
  <2> QED BY <2>1, <2>2 DEF Init
<1>12. \A i \in Importers : import[i] = [at |-> "parse", chain |-> 1, id |-> 0, task |-> 0, param |-> 0]
       BY DEF Init
<1>13. \A w \in Workers : worker[w] = Idle /\ Idle.id = 0 /\ Idle.whole = FALSE
                          /\ Idle.tasks = <<>> /\ Idle.ran = <<>> BY DEF Init, Idle
<1>14. Actors
  <2>1. \A i \in Importers : import[i].id = 0 BY <1>12
  <2> QED BY <1>1, <1>9, <1>11, <1>13, <2>1, ChainStoreAssumption DEF Actors
<1>15. \A i \in Importers : InFile(i) /\ Owner(i) BY <1>12 DEF InFile, Owner
<1>16. Rows BY <1>4, <1>9 DEF Rows
<1>17. \A w \in Workers : Reading(worker[w])
  <2> SUFFICES ASSUME NEW w \in Workers PROVE Reading(Idle) BY <1>13
  <2>1. \A x \in chain : x.id # Idle.id BY <1>4, <1>13
  <2> QED BY <1>13, <2>1 DEF Reading, Along, Whole
<1> QED BY <1>9, <1>10, <1>14, <1>15, <1>16, <1>17, Typing DEF IInv

\* Every step preserves the inductive invariant.
LEMMA StepIInv == IInv /\ [Next]_vars => IInv'
<1> SUFFICES ASSUME IInv, [Next]_vars PROVE IInv' OBVIOUS
<1>1. Tables /\ Actors /\ Rows BY Typing DEF IInv
<1>2. \A i \in Importers : InFile(i) /\ Owner(i) BY DEF IInv
<1>3. \A w \in Workers : Reading(worker[w]) /\ worker[w].id \in 0..lastChain BY <1>1 DEF IInv, Actors
<1>4. ASSUME Tables', Actors', Rows', \A i \in Importers : (InFile(i) /\ Owner(i))',
             \A w \in Workers : Reading(worker[w])', \A m \in moves' : Planned(m)
      PROVE  IInv'
      BY <1>4, Typing DEF IInv, Planned
<1>10. UserStep \/ moves' = moves => \A m \in moves' : Planned(m)
       BY <1>1, MovesPlanned DEF IInv
<1>5. ASSUME NEW i \in Importers, ImportStep(i) \/ ImportFails(i) PROVE IInv'
  <2>1. Tables' BY <1>1, <1>2, <1>5, ImportTables
  <2>2. Actors' BY <1>1, <1>2, <1>5, ImportActors
  <2>3. Rows' BY <1>1, <1>2, <1>5, ImportRows
  <2>4. \A j \in Importers : (InFile(j) /\ Owner(j))' BY <1>1, <1>2, <1>5, ImportOwners
  <2>5. worker' = worker /\ moves' = moves
        BY <1>5 DEF ImportStep, ImportFails, ParseYamlFile, DeleteReplaced, CheckExists,
                    InsertChain, InsertTask, InsertTaskAt, InsertParameter, ParameterRefused,
                    ChainDone, StartAgain, At
  <2>6. \A w \in Workers : Reading(worker[w])'
        BY <1>1, <1>3, <1>5, <2>5, ImportKeepsDefs, ReadingKept
  <2> QED BY <1>4, <1>10, <2>1, <2>2, <2>3, <2>4, <2>5, <2>6
<1>6. CASE UserStep
  <2>1. Tables' /\ Actors' /\ Rows' /\ UNCHANGED <<file, import, worker, imported>>
        BY <1>1, <1>6, UserTables, UserActors, UserRows
  <2>2. edited \subseteq edited' /\ \A id \in 0..lastChain : RowKept(id)
        BY <1>1, <1>6, UserKeepsRows
  <2>3. \A i \in Importers : (InFile(i) /\ Owner(i))'
    <3> SUFFICES ASSUME NEW i \in Importers PROVE (InFile(i) /\ Owner(i))' OBVIOUS
    <3>1. import[i].at = "tasks" =>
            /\ import[i].id \notin imported' /\ RowKept(import[i].id)
            /\ \A k \in Importers : import'[k].at = "tasks" /\ import'[k].id = import[i].id => k = i
          BY <1>1, <1>2, <2>1, <2>2 DEF Owner, Actors
    <3> QED BY <1>2, <2>1, <2>2, <3>1, OwnerKept
  <2>4. \A id : RowKept(id) => DefKept(id) BY DEF RowKept, DefKept
  <2>5. \A w \in Workers : Reading(worker[w])' BY <1>3, <2>1, <2>2, <2>4, ReadingKept
  <2> QED BY <1>4, <1>6, <1>10, <2>1, <2>3, <2>5
<1>7. ASSUME UNCHANGED <<chain, task, lastChain, file, import, edited, imported>>
      PROVE  Rows' /\ \A i \in Importers : (InFile(i) /\ Owner(i))'
  <2>1. Rows' BY <1>1, <1>7 DEF Rows, AsDefined
  <2>2. \A i \in Importers : (InFile(i) /\ Owner(i))'
        BY <1>2, <1>7 DEF InFile, Owner, Current
  <2> QED BY <2>1, <2>2
<1>8. ASSUME NEW w \in Workers, WorkerStep(w) PROVE IInv'
  <2>1. Tables' BY <1>1, <1>8, WorkerTables
  <2>2. Actors' /\ UNCHANGED <<chain, task, lastChain, file, import, moves, edited, imported>>
        BY <1>1, <1>8, WorkerActors
  <2>3. \A v \in Workers : Reading(worker[v])' BY <1>1, <1>3, <1>8, WorkerReads
  <2> QED BY <1>4, <1>7, <1>10, <2>1, <2>2, <2>3
<1>9. CASE UNCHANGED vars
  <2>1. UNCHANGED <<chain, task, lastChain, file, import, worker, moves, edits, faults, edited, imported>>
        BY <1>9 DEF vars, counters, history
  <2>2. Tables' /\ Actors' BY <1>1, <2>1 DEF Tables, Actors
  <2>3. \A w \in Workers : Reading(worker[w])'
    <3>1. \A id : DefKept(id) BY <2>1 DEF DefKept
    <3> QED BY <1>3, <2>1, <3>1, ReadingKept
  <2> QED BY <1>4, <1>7, <1>10, <2>1, <2>2, <2>3
<1> QED BY <1>5, <1>6, <1>8, <1>9 DEF Next

\* The inductive invariant holds in every state.
LEMMA Invariance == Spec => []IInv
BY InitIInv, StepIInv, PTL DEF Spec

\* The variables keep their types: the names and numbers of chains and the places of tasks
\* are unique (CREATE TABLE timetable.chain, timetable.task).
THEOREM TypeCorrect == Spec => []TypeOK
<1>1. IInv => TypeOK BY DEF IInv
<1> QED BY <1>1, Invariance, PTL

\* A chain that LoadYamlChains reports as imported is complete until it is deleted or edited,
\* whatever files there are and how many imports run at the same time.
THEOREM ImportsAreComplete == Spec => []ImportedIsComplete
<1>1. IInv => ImportedIsComplete
  <2> SUFFICES ASSUME IInv, NEW c \in chain, c.id \in imported \ edited
               PROVE  /\ {t.no : t \in TasksOf(c.id)} = DOMAIN c.def.tasks
                      /\ \A t \in TasksOf(c.id) :
                          /\ t.params = c.def.tasks[t.no].params
                          /\ t.live <=> c.def.tasks[t.no].live # "false"
                          /\ \A u \in TasksOf(c.id) : t.no < u.no => t.order < u.order
      BY DEF ImportedIsComplete
  <2>1. Tables /\ AsDefined(c) BY Typing DEF IInv, Rows
  <2>2. \A t : t \in TasksOf(c.id) <=> t \in task /\ t.chain = c.id BY DEF TasksOf
  <2>3. \A t \in TasksOf(c.id) : t.no \in Nat /\ t.order = 10 * t.no
        BY <2>1, <2>2, DefinedTasks DEF Tables, TaskRow
  <2>4. \A t \in TasksOf(c.id) :
          /\ t.no \in DOMAIN c.def.tasks /\ t.params = c.def.tasks[t.no].params
          /\ t.live <=> t.no \in Enabled(c.def)
        BY <2>1, <2>2, DefinedTasks
  <2>5. \A n \in DOMAIN c.def.tasks : \E t \in TasksOf(c.id) : t.no = n
        BY <2>1, <2>2, DefinedTasks
  <2>6. \A t \in TasksOf(c.id) : t.live <=> c.def.tasks[t.no].live # "false"
        BY <2>4 DEF Enabled
  <2>7. \A t, u \in TasksOf(c.id) : t.no < u.no => t.order < u.order BY <2>3
  <2> QED BY <2>4, <2>5, <2>6, <2>7
<1> QED BY <1>1, Invariance, PTL

\* A worker that reads a chain during its import runs the first tasks of its definition.
THEOREM RunsFirstTasks == Spec => []RunsPrefix
<1>1. IInv => RunsPrefix
  <2> SUFFICES ASSUME IInv, NEW w \in Workers, worker[w].id \notin edited,
                      NEW n \in DOMAIN worker[w].ran
               PROVE  /\ worker[w].ran[n][1] \in Enabled(worker[w].def)
                      /\ {worker[w].ran[m][1] : m \in 1..n - 1} =
                           {k \in Enabled(worker[w].def) : k < worker[w].ran[n][1]}
                      /\ worker[w].ran[n][2] <= worker[w].def.tasks[worker[w].ran[n][1]].params
      BY DEF RunsPrefix
  <2> DEFINE k == worker[w]
  <2>1. Reading(k) /\ k.tasks \in Seq(Nat) /\ k.ran \in Seq(Nat \X Nat)
        BY DEF IInv, TypeOK, Worker
  <2>2. n \in DOMAIN k.tasks /\ \A m \in 1..n - 1 : m \in DOMAIN k.ran
    <3>1. Len(k.ran) <= Len(k.tasks) BY <2>1 DEF Reading
    <3>2. Len(k.ran) \in Nat /\ DOMAIN k.ran = 1..Len(k.ran) BY <2>1
    <3>3. Len(k.tasks) \in Nat /\ DOMAIN k.tasks = 1..Len(k.tasks) BY <2>1
    <3>4. n \in 1..Len(k.ran) BY <3>2
    <3> QED BY <3>1, <3>2, <3>3, <3>4
  <2>3. \A m \in DOMAIN k.ran : k.ran[m][1] = k.tasks[m] BY <2>1 DEF Reading
  <2>4. {k.ran[m][1] : m \in 1..n - 1} = {k.tasks[m] : m \in 1..n - 1} BY <2>2, <2>3
  <2> QED BY <2>1, <2>2, <2>3, <2>4 DEF Reading, Along
<1> QED BY <1>1, Invariance, PTL

\* One that reads it after the import runs all of them with all their parameters.
THEOREM RunsAllTasks == Spec => []RunsWhole
<1>1. IInv => RunsWhole
  <2> SUFFICES ASSUME IInv, NEW w \in Workers, worker[w].at = "running",
                      Len(worker[w].ran) = Len(worker[w].tasks), worker[w].whole,
                      worker[w].id \notin edited, \E c \in chain : c.id = worker[w].id
               PROVE  {worker[w].ran[n] : n \in DOMAIN worker[w].ran} =
                        {<<k, worker[w].def.tasks[k].params>> : k \in Enabled(worker[w].def)}
      BY DEF RunsWhole
  <2> DEFINE k == worker[w]
  <2>1. Reading(k) /\ k.tasks \in Seq(Nat) /\ k.ran \in Seq(Nat \X Nat)
        BY DEF IInv, TypeOK, Worker
  <2>2. DOMAIN k.ran = DOMAIN k.tasks BY <2>1
  <2>3. \A n \in DOMAIN k.ran : /\ k.ran[n][1] = k.tasks[n] /\ k.tasks[n] \in Enabled(k.def)
                                /\ k.ran[n][2] = k.def.tasks[k.tasks[n]].params
        BY <2>1, <2>2 DEF Reading, Along, Whole
  <2>4. \A n \in DOMAIN k.ran : k.ran[n] = <<k.ran[n][1], k.ran[n][2]>>
    <3>1. \A n \in DOMAIN k.ran : k.ran[n] \in Nat \X Nat BY <2>1
    <3> QED BY <3>1
  <2>5. \A j \in Enabled(k.def) : \E n \in DOMAIN k.ran : k.tasks[n] = j
        BY <2>1, <2>2 DEF Reading, Whole
  <2>6. \A n \in DOMAIN k.ran : k.ran[n] = <<k.tasks[n], k.def.tasks[k.tasks[n]].params>>
        BY <2>3, <2>4
  <2>7. ASSUME NEW x PROVE x \in {k.ran[n] : n \in DOMAIN k.ran} <=>
                           x \in {<<j, k.def.tasks[j].params>> : j \in Enabled(k.def)}
    <3> DEFINE P(j) == <<j, k.def.tasks[j].params>>
    <3>1. \A n \in DOMAIN k.ran : k.ran[n] = P(k.tasks[n]) /\ k.tasks[n] \in Enabled(k.def)
          BY <2>3, <2>6
    <3> HIDE DEF P
    <3>2. x \in {k.ran[n] : n \in DOMAIN k.ran} <=> x \in {P(j) : j \in Enabled(k.def)}
          BY <2>5, <3>1
    <3> QED BY <3>2 DEF P
  <2> QED BY <2>7
<1> QED BY <1>1, Invariance, PTL

-----------------------------------------------------------------------------
(* What reorders tasks.                                                    *)

OrdersKept == \A a \in task, b \in task' : a.chain = b.chain /\ a.no = b.no => a.order = b.order

\* A step that changes no order reverses nothing.
LEMMA NothingMoved == ASSUME Tables, OrdersKept PROVE OnlyMovesReorder
<1>1. \A t \in task : t.order \in Nat BY DEF Tables, TaskRow
<1>2. ASSUME NEW p \in Reversed PROVE FALSE
  <2>1. p \in task \X task /\ p[1].order < p[2].order
        /\ \E c, d \in task' : /\ c.chain = p[1].chain /\ c.no = p[1].no /\ c.order > d.order
                               /\ d.chain = p[2].chain /\ d.no = p[2].no
        BY <1>2 DEF Reversed
  <2>2. p[1] \in task /\ p[2] \in task BY <2>1
  <2>3. PICK c, d \in task' : c.order = p[1].order /\ d.order = p[2].order /\ c.order > d.order
        BY <2>1, <2>2 DEF OrdersKept
  <2> QED BY <1>1, <2>1, <2>2, <2>3
<1>3. \A a \in Reordered : FALSE BY DEF OrdersKept, Reordered
<1>4. Cardinality(Reversed) = 0 /\ Cardinality(Reordered) = 0 BY <1>2, <1>3, FS_EmptySet
<1>5. ExchangeTwo BY <1>3, <1>4 DEF ExchangeTwo
<1> QED BY <1>3, <1>4, <1>5 DEF OnlyMovesReorder

\* Two tasks of a chain change places, and none of the chain is strictly between them.
LEMMA TwoExchanged ==
    ASSUME Tables, NEW t \in task, NEW u \in task, t.chain = u.chain, t.order < u.order,
           \A v \in task : v.chain = t.chain => ~(t.order < v.order /\ v.order < u.order),
           task' = (task \ {t, u}) \cup {[t EXCEPT !.order = u.order], [u EXCEPT !.order = t.order]}
    PROVE  ExchangeTwo
<1>1. PICK t2, u2 : t2 = [t EXCEPT !.order = u.order] /\ u2 = [u EXCEPT !.order = t.order] OBVIOUS
<1>2. \A v \in task : v \in TaskRow BY DEF Tables
<1>3. /\ t2.chain = t.chain /\ t2.no = t.no /\ t2.order = u.order /\ t2 \in TaskRow
      /\ u2.chain = t.chain /\ u2.no = u.no /\ u2.order = t.order /\ u2 \in TaskRow
      BY <1>1, <1>2 DEF TaskRow
<1>4. task' = (task \ {t, u}) \cup {t2, u2} BY <1>1
<1>5. \A v \in task : v.order \in Nat BY <1>2 DEF TaskRow
<1>6. \A v, x \in task : v.chain = x.chain /\ v.no = x.no => v = x BY DEF Tables
<1>7. t.no # u.no BY <1>5, <1>6
<1>8. ASSUME NEW v \in task, NEW x \in task', x.chain = v.chain, x.no = v.no
      PROVE  x.order = IF v = t THEN u.order ELSE IF v = u THEN t.order ELSE v.order
      BY <1>3, <1>4, <1>6, <1>7, <1>8
<1>9. Reversed \subseteq {<<t, u>>}
  <2> SUFFICES ASSUME NEW p \in Reversed PROVE p = <<t, u>> OBVIOUS
  <2>1. p \in task \X task /\ p[1].chain = p[2].chain /\ p[1].order < p[2].order
        /\ \E c, d \in task' : /\ c.chain = p[1].chain /\ c.no = p[1].no /\ c.order > d.order
                               /\ d.chain = p[2].chain /\ d.no = p[2].no
        BY DEF Reversed
  <2>2. PICK a \in task, b \in task : p = <<a, b>> /\ a = p[1] /\ b = p[2] BY <2>1
  <2>3. PICK c, d \in task' : /\ c.chain = a.chain /\ c.no = a.no /\ c.order > d.order
                              /\ d.chain = b.chain /\ d.no = b.no
        BY <2>1, <2>2
  <2>4. c.order = (IF a = t THEN u.order ELSE IF a = u THEN t.order ELSE a.order)
        /\ d.order = (IF b = t THEN u.order ELSE IF b = u THEN t.order ELSE b.order)
        BY <1>8, <2>3
  <2>5. a.chain = b.chain /\ a.order < b.order BY <2>1, <2>2
  <2>6. a = t /\ b = u BY <1>5, <2>3, <2>4, <2>5
  <2> QED BY <2>2, <2>6
<1>10. Cardinality(Reversed) <= 1
  <2>1. IsFiniteSet({<<t, u>>}) /\ Cardinality({<<t, u>>}) = 1 BY FS_Singleton
  <2> QED BY <1>9, <2>1, FS_Subset
<1>11. \A a \in Reordered : a.chain = t.chain BY <1>8 DEF Reordered
<1>12. OrdersUsed(task, t.chain) = OrdersUsed(task', t.chain)
  <2> DEFINE Holders(T, o) == {v \in T : v.chain = t.chain /\ v.order = o}
             O(T) == {v.order : v \in {x \in T : x.chain = t.chain}}
  <2>1. O(task) = O(task')
    <3>1. \A v \in task : v.chain = t.chain => \E x \in task' : x.chain = t.chain /\ x.order = v.order
      <4> SUFFICES ASSUME NEW v \in task, v.chain = t.chain
                   PROVE  \E x \in task' : x.chain = t.chain /\ x.order = v.order
          OBVIOUS
      <4>1. CASE v = t BY <1>3, <1>4, <4>1
      <4>2. CASE v = u BY <1>3, <1>4, <4>2
      <4>3. CASE v # t /\ v # u BY <1>4, <4>3
      <4> QED BY <4>1, <4>2, <4>3
    <3>2. \A x \in task' : x.chain = t.chain => \E v \in task : v.chain = t.chain /\ v.order = x.order
          BY <1>3, <1>4
    <3> QED BY <3>1, <3>2
  <2>2. t2 \notin task /\ u2 \notin task BY <1>3, <1>5, <1>6
  <2>3. ASSUME NEW o PROVE Cardinality(Holders(task, o)) = Cardinality(Holders(task', o))
    <3>1. Holders(task, o) \subseteq task OBVIOUS
    <3>2. IsFiniteSet(Holders(task, o)) BY <3>1, FS_Subset DEF Tables
    <3>3. CASE o = t.order
      <4>1. Holders(task', o) = (Holders(task, o) \ {t}) \cup {u2} BY <1>3, <1>4, <1>5, <3>3
      <4>2. t \in Holders(task, o) /\ u2 \notin Holders(task, o) \ {t} BY <2>2, <3>3
      <4> HIDE DEF Holders
      <4>3. IsFiniteSet(Holders(task, o) \ {t})
            /\ Cardinality(Holders(task, o) \ {t}) = Cardinality(Holders(task, o)) - 1
            BY <3>2, <4>2, FS_RemoveElement
      <4>4. Cardinality(Holders(task', o)) = Cardinality(Holders(task, o) \ {t}) + 1
            BY <4>1, <4>2, <4>3, FS_AddElement
      <4>5. Cardinality(Holders(task, o)) \in Nat BY <3>2, FS_CardinalityType
      <4> QED BY <4>3, <4>4, <4>5
    <3>4. CASE o = u.order
      <4>1. Holders(task', o) = (Holders(task, o) \ {u}) \cup {t2} BY <1>3, <1>4, <1>5, <3>4
      <4>2. u \in Holders(task, o) /\ t2 \notin Holders(task, o) \ {u} BY <2>2, <3>4
      <4> HIDE DEF Holders
      <4>3. IsFiniteSet(Holders(task, o) \ {u})
            /\ Cardinality(Holders(task, o) \ {u}) = Cardinality(Holders(task, o)) - 1
            BY <3>2, <4>2, FS_RemoveElement
      <4>4. Cardinality(Holders(task', o)) = Cardinality(Holders(task, o) \ {u}) + 1
            BY <4>1, <4>2, <4>3, FS_AddElement
      <4>5. Cardinality(Holders(task, o)) \in Nat BY <3>2, FS_CardinalityType
      <4> QED BY <4>3, <4>4, <4>5
    <3>5. CASE o # t.order /\ o # u.order
      <4>1. Holders(task', o) = Holders(task, o) BY <1>3, <1>4, <3>5
      <4> QED BY <4>1
    <3> QED BY <3>3, <3>4, <3>5
  <2>4. \A T : OrdersUsed(T, t.chain) = [o \in O(T) |-> Cardinality(Holders(T, o))] BY DEF OrdersUsed
  <2> HIDE DEF Holders, O
  <2> QED BY <2>1, <2>3, <2>4
<1> QED BY <1>10, <1>11, <1>12 DEF ExchangeTwo

\* A move that finds the chain as it has read it exchanges the orders of two tasks that are
\* next to each other.
LEMMA MoveExchanges ==
    ASSUME Tables, NEW m \in Move, Planned(m), Undisturbed(m), WriteMove(m)
    PROVE  ExchangeTwo
<1>1. \A v \in task : v \in TaskRow /\ v.order \in Nat BY DEF Tables, TaskRow
<1>2. \A v \in task : v.chain = m.task.chain => [no |-> v.no, order |-> v.order] \in m.seen
      BY DEF Undisturbed, Places, TasksOf
<1>3. \A p \in m.seen : \E v \in task : v.chain = m.task.chain /\ v.no = p.no /\ v.order = p.order
      BY DEF Undisturbed, Places, TasksOf
<1>4. PICK t \in task : t.chain = m.task.chain /\ t.no = m.task.no /\ t.order = m.task.order
      BY <1>3 DEF Planned
<1>5. PICK u \in task : /\ u.chain = m.task.chain /\ u.no = m.neighbour.no
                        /\ u.order = m.neighbour.order
      BY <1>3 DEF Planned
<1>6. t.order # u.order BY <1>4, <1>5 DEF Planned
<1>7. \A v \in task : v.chain = t.chain => /\ ~(t.order < v.order /\ v.order < u.order)
                                           /\ ~(u.order < v.order /\ v.order < t.order)
      BY <1>2, <1>4, <1>5 DEF Planned
<1>8. \A v, x \in task : v.chain = x.chain /\ v.no = x.no => v = x BY DEF Tables
<1>9. /\ Moved(m, t) = [t EXCEPT !.order = u.order]
      /\ Moved(m, u) = [u EXCEPT !.order = t.order]
      BY <1>4, <1>5, <1>6, <1>8 DEF Moved
<1>10. \A v \in task \ {t, u} : Moved(m, v) = v
  <2>1. \A v \in TaskRow : [v EXCEPT !.order = v.order] = v BY DEF TaskRow
  <2>2. \A v \in task \ {t, u} : v.chain = m.task.chain => v.no # m.task.no /\ v.no # m.neighbour.no
        BY <1>4, <1>5, <1>8
  <2> QED BY <1>1, <2>1, <2>2 DEF Moved
<1>11. task' = (task \ {t, u}) \cup {[t EXCEPT !.order = u.order], [u EXCEPT !.order = t.order]}
  <2>1. task' = {Moved(m, v) : v \in task} BY DEF WriteMove
  <2>2. task' = {Moved(m, v) : v \in task \ {t, u}} \cup {Moved(m, t), Moved(m, u)} BY <2>1
  <2>3. {Moved(m, v) : v \in task \ {t, u}} = task \ {t, u} BY <1>10
  <2> QED BY <1>9, <2>2, <2>3
<1>12. CASE t.order < u.order BY <1>4, <1>5, <1>7, <1>11, <1>12, TwoExchanged
<1>13. CASE u.order < t.order
  <2>1. task' = (task \ {u, t}) \cup {[u EXCEPT !.order = t.order], [t EXCEPT !.order = u.order]}
        BY <1>11
  <2> QED BY <1>4, <1>5, <1>7, <1>13, <2>1, TwoExchanged
<1> QED BY <1>1, <1>6, <1>12, <1>13

\* However old its snapshot is, a move changes no more than two tasks, those of its chain.
LEMMA MoveReorders ==
    ASSUME Tables, NEW m \in Move, m \in moves, Planned(m), WriteMove(m)
    PROVE  OnlyMovesReorder
<1>1. task' = {Moved(m, t) : t \in task} /\ moves \ moves' = {m} BY DEF WriteMove, MoveEnds
<1>2. \A v, x \in task : v.chain = x.chain /\ v.no = x.no => v = x BY DEF Tables
<1>3. task \subseteq TaskRow BY DEF Tables
<1>4. ASSUME NEW a \in Reordered
      PROVE  a \in task /\ a.chain = m.task.chain /\ (a.no = m.task.no \/ a.no = m.neighbour.no)
  <2>1. PICK b \in task' : b.chain = a.chain /\ b.no = a.no /\ b.order # a.order
        BY DEF Reordered
  <2>2. a \in task BY DEF Reordered
  <2>3. PICK t \in task : b = Moved(m, t) BY <1>1, <2>1
  <2>4. t = a BY <1>2, <1>3, <2>1, <2>2, <2>3, MovedRow
  <2> QED BY <1>3, <2>1, <2>2, <2>3, <2>4, MovedRow
<1>5. Cardinality(Reordered) <= 2
  <2>1. \E x : \A a \in Reordered : a.no = m.task.no => a = x
    <3>1. CASE \E x \in Reordered : x.no = m.task.no BY <1>2, <1>4, <3>1
    <3>2. CASE \A a \in Reordered : a.no # m.task.no BY <3>2
    <3> QED BY <3>1, <3>2
  <2>2. \E y : \A a \in Reordered : a.no = m.neighbour.no => a = y
    <3>1. CASE \E y \in Reordered : y.no = m.neighbour.no BY <1>2, <1>4, <3>1
    <3>2. CASE \A a \in Reordered : a.no # m.neighbour.no BY <3>2
    <3> QED BY <3>1, <3>2
  <2>3. PICK x : \A a \in Reordered : a.no = m.task.no => a = x BY <2>1
  <2>4. PICK y : \A a \in Reordered : a.no = m.neighbour.no => a = y BY <2>2
  <2>5. Reordered \subseteq {x} \cup {y} BY <1>4, <2>3, <2>4
  <2>6. IsFiniteSet({x}) /\ Cardinality({x}) = 1 BY FS_Singleton
  <2>7. /\ IsFiniteSet({x} \cup {y})
        /\ Cardinality({x} \cup {y}) = IF y \in {x} THEN Cardinality({x}) ELSE Cardinality({x}) + 1
        BY <2>6, FS_AddElement
  <2>8. Cardinality(Reordered) <= Cardinality({x} \cup {y}) BY <2>5, <2>7, FS_Subset
  <2>9. IsFiniteSet(Reordered) BY <2>5, <2>7, FS_Subset
  <2>10. Cardinality(Reordered) \in Nat BY <2>9, FS_CardinalityType
  <2> QED BY <2>6, <2>7, <2>8, <2>10
<1>6. (\A n \in moves \ moves' : Undisturbed(n)) => ExchangeTwo BY <1>1, MoveExchanges
<1> QED BY <1>1, <1>4, <1>5, <1>6 DEF OnlyMovesReorder

\* Every other step leaves the orders of the tasks that stay alone.
LEMMA StepReorders ==
    ASSUME Tables, Actors, \A m \in moves : Planned(m), [Next]_vars
    PROVE  OnlyMovesReorder
<1>1. \A t, u \in task : t.chain = u.chain /\ t.no = u.no => t = u BY DEF Tables
<1>2. ASSUME task' \subseteq task PROVE OnlyMovesReorder
      BY <1>1, <1>2, NothingMoved DEF OrdersKept
<1>3. ASSUME NEW t, task' = task \cup {t}, \A u \in task : u.chain # t.chain \/ u.no # t.no
      PROVE  OnlyMovesReorder
      BY <1>1, <1>3, NothingMoved DEF OrdersKept
<1>4. ASSUME NEW c \in chain, NEW order, NEW live, NEW params, AddTask(c, order, live, params)
      PROVE  OnlyMovesReorder
  <2> DEFINE t == NewTask(c, order, live, params)
  <2>1. t.chain = c.id /\ t.no = c.last + 1 BY DEF NewTask
  <2>2. \A u \in task : u.chain = c.id => u.no <= c.last /\ u.no \in Nat /\ c.last \in Nat
        BY DEF Tables, TaskRow, ChainRow
  <2>3. \A u \in task : u.chain # t.chain \/ u.no # t.no BY <2>1, <2>2
  <2>4. task' = task \cup {t} BY <1>4 DEF AddTask
  <2> HIDE DEF t
  <2> QED BY <1>3, <2>3, <2>4
<1>5. CASE add_job
  <2> DEFINE t == NewTask(NewChain(Job), 10, TRUE, 1)
  <2>1. t.chain = lastChain + 1 BY DEF NewTask, NewChain
  <2>2. \A u \in task : u.chain # lastChain + 1 BY DEF Tables
  <2>3. task' = task \cup {t} BY <1>5 DEF add_job
  <2> HIDE DEF t
  <2> QED BY <1>3, <2>1, <2>2, <2>3
<1>6. ASSUME NEW i \in Importers, InsertParameter(i) PROVE OnlyMovesReorder
  <2>1. PICK t \in task : task' = (task \ {t}) \cup {[t EXCEPT !.params = @ + 1]}
        BY <1>6 DEF InsertParameter
  <2>2. PICK u : u = [t EXCEPT !.params = @ + 1] OBVIOUS
  <2>3. u.chain = t.chain /\ u.no = t.no /\ u.order = t.order BY <2>2 DEF Tables, TaskRow
  <2>4. task' = (task \ {t}) \cup {u} BY <2>1, <2>2
  <2> QED BY <1>1, <2>3, <2>4, NothingMoved DEF OrdersKept
<1>7. ASSUME NEW i \in Importers, InsertTask(i) PROVE OnlyMovesReorder
      BY <1>2, <1>4, <1>7 DEF InsertTask, InsertTaskAt
<1>8. ASSUME NEW i \in Importers, ImportStep(i) \/ ImportFails(i) PROVE OnlyMovesReorder
      BY <1>2, <1>6, <1>7, <1>8
      DEF ImportStep, ImportFails, ParseYamlFile, DeleteReplaced, DeleteChains, CheckExists,
          InsertChain, ParameterRefused, ChainDone, StartAgain
<1>9. ASSUME NEW t \in task, add_task(t, 10) PROVE OnlyMovesReorder BY <1>4, <1>9 DEF add_task
<1>10. CASE UserStep
  <2>1. ASSUME NEW m \in moves, WriteMove(m) PROVE OnlyMovesReorder
        BY <2>1, MoveReorders DEF Actors
  <2>2. CASE \E t \in task : move_task_up(t) \/ move_task_down(t)
        BY <1>2, <2>2 DEF move_task_up, move_task_down, ReadMove
  <2> QED BY <1>2, <1>5, <1>9, <1>10, <2>1, <2>2
          DEF UserStep, delete_job, DeleteChains, SetLive, delete_task, CancelMove
<1>11. ASSUME NEW w \in Workers, WorkerStep(w) PROVE OnlyMovesReorder
       BY <1>2, <1>11
       DEF WorkerStep, SelectChain, InsertChainRunStatus, GetChainElements, GetChainParamValues,
           RemoveChainRunStatus, Work
<1>12. CASE UNCHANGED vars BY <1>2, <1>12 DEF vars
<1> QED BY <1>8, <1>10, <1>11, <1>12 DEF Next

\* However many tasks a chain has, whatever their orders, ties included, and however many calls
\* overlap: only moves reorder tasks, no move more than two, and one that nobody has overtaken
\* reverses the order of one pair (move_task_up, move_task_down).
THEOREM OnlyMoves == Spec => MovesExchangeTwo
<1>1. IInv /\ [Next]_vars => OnlyMovesReorder BY Typing, StepReorders DEF IInv
<1>2. Spec => [][OnlyMovesReorder]_vars BY <1>1, Invariance, PTL DEF Spec
<1> QED BY <1>2 DEF MovesExchangeTwo
=============================================================================
