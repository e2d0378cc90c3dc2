----------------------------- MODULE Scheduler -----------------------------
(***************************************************************************)
(* The scheduler of one client: the main loop that fetches due chains, the *)
(* bounded channel to the cron workers, START/STOP signals, the workers    *)
(* that admit, lock, execute and clean up after a chain, and shutdown.     *)
(* The transaction inside executeChain is refined in ChainExecution, the   *)
(* tokens that feed the interval workers in IntervalChain.                 *)
(***************************************************************************)
EXTENDS Naturals, Sequences, FiniteSets, RWMutex

CONSTANTS
    Chains,           \* chain IDs
    CronWorkers,      \* goroutines running chainWorker
    IntervalWorkers,  \* goroutines running intervalChainWorker
    IntervalChains,   \* chains with an @every or @after schedule
    Exclusive,        \* chains with exclusive_execution
    SelfDestruct,     \* chains with self_destruct
    MaxInstances,     \* max_instances of each chain, already defaulted to 16
    ChanCap,          \* capacity of chainsChan: max(1024, 2 * workers) in the code
    Signals,          \* what happens from outside in an instance
    Failing           \* statements and tasks that may go wrong in an instance

SignalKinds == {"START", "STOP", "TIMEOUT", "SHUTDOWN", "SIGTERM"}
FaultKinds  == {"insert", "begin", "elements", "task", "output", "remove", "delete"}

ASSUME WorkersAssumption ==
    /\ Workers = CronWorkers \cup IntervalWorkers
    /\ CronWorkers \cap IntervalWorkers = {}
    /\ IsFiniteSet(Workers)
    /\ None \notin Workers /\ None \notin Chains
ASSUME ChainsAssumption ==
    /\ IntervalChains \subseteq Chains
    /\ Exclusive \subseteq Chains
    /\ SelfDestruct \subseteq Chains
    /\ MaxInstances \in [Chains -> Nat]
    /\ ChanCap \in Nat
ASSUME EnvironmentAssumption == Signals \subseteq SignalKinds /\ Failing \subseteq FaultKinds

VARIABLES
    chain,        \* chains present in timetable.chain
    activeChain,  \* rows of timetable.active_chain of this client, per chain
    chainsChan,   \* channel of chains for the cron workers
    fetching,     \* a retrieveChainsAndRun goroutine has not queried yet
    retrieved,    \* chains a retrieval has fetched and not sent yet
    delayed,      \* chains whose START waits for its delay
    activeChains, \* map from chain ID to the worker whose context cancel() ends
    pc, cur,      \* step and chain of each worker
    cancelled,    \* workers whose chain context is cancelled or timed out
    ctx,          \* the context of Run is cancelled
    shutdown,     \* the shutdown channel is closed
    main          \* where Run is

tableVars  == <<chain, activeChain>>
sendVars   == <<chainsChan, fetching, retrieved, delayed>>
workerVars == <<pc, cur>>
mainVars   == <<ctx, shutdown, main>>
vars == <<mutexVars, tableVars, sendVars, activeChains, workerVars, cancelled, mainVars>>

-----------------------------------------------------------------------------
(* Steps of a worker, in program order.                                    *)
Waiting   == {"lock", "wait"}
InTx      == {"elements", "tasks", "held", "commit", "rollback", "failed"}
Executing == InTx \cup {"begin", "completed", "destruct", "onerror"}
Holding   == Executing \cup {"start", "leave", "unlock"}
Steps     == {"idle", "insert", "exited"} \cup Waiting \cup Holding

TypeOK ==
    /\ MutexTypeOK
    /\ chain \in SUBSET Chains
    /\ activeChain \in [Chains -> Nat]
    /\ chainsChan \in Seq(Chains) /\ Len(chainsChan) <= ChanCap
    /\ fetching \in BOOLEAN
    /\ retrieved \in SUBSET Chains
    /\ delayed \in SUBSET Chains
    /\ activeChains \in [Chains -> CronWorkers \cup {None}]
    /\ pc \in [Workers -> Steps]
    /\ cur \in [Workers -> Chains \cup {None}]
    /\ cancelled \in SUBSET Workers
    /\ ctx \in BOOLEAN
    /\ shutdown \in BOOLEAN
    /\ main \in {"loop", "terminating", "returned", "panicked"}

Init ==
    /\ MutexInit
    /\ chain = Chains
    /\ activeChain = [c \in Chains |-> 0]
    /\ chainsChan = <<>>
    /\ fetching = TRUE
    /\ retrieved = {}
    /\ delayed = {}
    /\ activeChains = [c \in Chains |-> None]
    /\ pc = [w \in Workers |-> "idle"]
    /\ cur = [w \in Workers |-> None]
    /\ cancelled = {}
    /\ ctx = FALSE
    /\ shutdown = FALSE
    /\ main = "loop"

\* Worker contexts end with the context of Run and with Run itself (deferred cancels).
WorkerCtxDone == ctx \/ main = "returned"


\* The context a chain executes under: done after STOP, a timeout or the end of its worker.
ChainCtxDone(w) == w \in cancelled \/ WorkerCtxDone

Goto(w, step) == pc' = [pc EXCEPT ![w] = step]

\* The end of a worker's loop body and the "high priority" check at its start.
LoopTop(w) == /\ Goto(w, IF WorkerCtxDone THEN "exited" ELSE "idle")
              /\ cur' = [cur EXCEPT ![w] = None]

-----------------------------------------------------------------------------
(* Feeding the cron workers.                                               *)

\* Mutant: the channel has no limit.
SendChainUnbounded(c) == chainsChan' = Append(chainsChan, c)

\* A full channel drops the chain.
SendChain(c) ==
    chainsChan' = IF Len(chainsChan) < ChanCap THEN Append(chainsChan, c) ELSE chainsChan

\* The main loop spawns a retrieval on every tick.  Bound: one that has not queried yet.
Tick ==
    /\ main = "loop"
    /\ ~fetching
    /\ fetching' = TRUE
    /\ UNCHANGED <<mutexVars, tableVars, chainsChan, retrieved, delayed, activeChains,
                   workerVars, cancelled, mainVars>>

\* The query of a retrieval, @reboot included: any chains may be due; an error means none.
RetrieveChains ==
    /\ fetching
    /\ fetching' = FALSE
    /\ \E due \in SUBSET (chain \ IntervalChains) :
          /\ ctx => due = {}
          /\ retrieved' = retrieved \cup due
    /\ UNCHANGED <<mutexVars, tableVars, chainsChan, delayed, activeChains, workerVars,
                   cancelled, mainVars>>

\* Its loop over the fetched chains.  Bound: one unsent copy per chain.
SendRetrieved(c) ==
    /\ c \in retrieved
    /\ retrieved' = retrieved \ {c}
    /\ SendChain(c)
    /\ UNCHANGED <<mutexVars, tableVars, fetching, delayed, activeChains, workerVars,
                   cancelled, mainVars>>

\* START reads the chain, live or not, and leaves it to a goroutine that waits for the
\* delay.  Bound: one waiting START per chain.
StartChain(c) ==
    /\ "START" \in Signals
    /\ ~ctx
    /\ c \in chain \ delayed
    /\ delayed' = delayed \cup {c}
    /\ UNCHANGED <<mutexVars, tableVars, chainsChan, fetching, retrieved, activeChains,
                   workerVars, cancelled, mainVars>>

DelayElapsed(c) ==
    /\ c \in delayed
    /\ delayed' = delayed \ {c}
    /\ \/ SendChain(c)
       \/ ctx /\ UNCHANGED chainsChan
    /\ UNCHANGED <<mutexVars, tableVars, fetching, retrieved, activeChains, workerVars,
                   cancelled, mainVars>>

\* STOP cancels whatever the map holds for the chain; without an entry it is an error.
StopChain(c) ==
    /\ "STOP" \in Signals
    /\ activeChains[c] # None
    /\ cancelled' = cancelled \cup {activeChains[c]}
    /\ UNCHANGED <<mutexVars, tableVars, sendVars, activeChains, workerVars, mainVars>>

-----------------------------------------------------------------------------
(* A worker admits a chain.                                                *)

\* Mutant: count(*) <= max_instances.
AdmitOneMore(w, c) ==
    IF activeChain[c] <= MaxInstances[c] /\ ~WorkerCtxDone
      THEN Goto(w, "insert") /\ cur' = [cur EXCEPT ![w] = c]
      ELSE LoopTop(w)

\* The INSERT of InsertChainRunStatus starts: its count(*) sees the rows committed now.
Admit(w, c) ==
    IF activeChain[c] < MaxInstances[c] /\ ~WorkerCtxDone
      THEN Goto(w, "insert") /\ cur' = [cur EXCEPT ![w] = c]
      ELSE LoopTop(w)

ReceiveChain(w) ==
    /\ pc[w] = "idle"
    /\ chainsChan # <<>>
    /\ chainsChan' = Tail(chainsChan)
    /\ Admit(w, Head(chainsChan))
    /\ UNCHANGED <<mutexVars, tableVars, fetching, retrieved, delayed, activeChains,
                   cancelled, mainVars>>

\* An interval worker may get any interval chain: IntervalChain says which and when.
ReceiveIntervalChain(w, c) ==
    /\ pc[w] = "idle"
    /\ Admit(w, c)
    /\ UNCHANGED <<mutexVars, tableVars, sendVars, activeChains, cancelled, mainVars>>

\* The INSERT commits.  If it is refused, or its result is lost to a cancelled context,
\* the worker goes on with the next chain; the row may exist in the second case.
InsertChainRunStatus(w) ==
    LET inserted == [activeChain EXCEPT ![cur[w]] = @ + 1] IN
    /\ pc[w] = "insert"
    /\ \/ ~WorkerCtxDone /\ activeChain' = inserted /\ Goto(w, "lock") /\ UNCHANGED cur
       \/ "insert" \in Failing /\ UNCHANGED activeChain /\ LoopTop(w)
       \/ WorkerCtxDone /\ activeChain' \in {activeChain, inserted} /\ LoopTop(w)
    /\ UNCHANGED <<mutexVars, chain, sendVars, activeChains, cancelled, mainVars>>

-----------------------------------------------------------------------------
(* The lock around an execution.                                           *)

Locked(w) == IF w \in CronWorkers THEN "start" ELSE "begin"

\* Lock: an exclusive chain announces itself, any other asks for a read lock.
Lock(w) ==
    /\ pc[w] = "lock"
    /\ IF cur[w] \in Exclusive THEN Announce(w) ELSE RLock(w)
    /\ Goto(w, "wait")
    /\ UNCHANGED <<tableVars, sendVars, activeChains, cur, cancelled, mainVars>>

LockReturns(w) ==
    /\ pc[w] = "wait"
    /\ IF cur[w] \in Exclusive THEN LockHeld(w) ELSE RLockHeld(w)
    /\ Goto(w, Locked(w))
    /\ UNCHANGED <<mutexVars, tableVars, sendVars, activeChains, cur, cancelled, mainVars>>

\* Mutant: only the read lock is released.
UnlockChainReaders(w) ==
    /\ pc[w] = "unlock"
    /\ RUnlock(w)
    /\ cancelled' = cancelled \ {w}
    /\ LoopTop(w)
    /\ UNCHANGED <<tableVars, sendVars, activeChains, mainVars>>

UnlockChain(w) ==
    /\ pc[w] = "unlock"
    /\ IF cur[w] \in Exclusive THEN Unlock(w) ELSE RUnlock(w)
    /\ cancelled' = cancelled \ {w}
    /\ LoopTop(w)
    /\ UNCHANGED <<tableVars, sendVars, activeChains, mainVars>>

\* Cron workers register the cancel function under the chain's ID, whoever is there.
AddActiveChain(w) ==
    /\ pc[w] = "start"
    /\ activeChains' = [activeChains EXCEPT ![cur[w]] = w]
    /\ Goto(w, "begin")
    /\ UNCHANGED <<mutexVars, tableVars, sendVars, cur, cancelled, mainVars>>

\* Mutant: the entry of a cancelled chain stays.
DeleteActiveChainUnlessDone(w) ==
    /\ pc[w] = "leave"
    /\ activeChains' = IF ChainCtxDone(w) THEN activeChains
                                          ELSE [activeChains EXCEPT ![cur[w]] = None]
    /\ Goto(w, "unlock")
    /\ UNCHANGED <<mutexVars, tableVars, sendVars, cur, cancelled, mainVars>>

DeleteActiveChain(w) ==
    /\ pc[w] = "leave"
    /\ activeChains' = [activeChains EXCEPT ![cur[w]] = None]
    /\ Goto(w, "unlock")
    /\ UNCHANGED <<mutexVars, tableVars, sendVars, cur, cancelled, mainVars>>

-----------------------------------------------------------------------------
(* executeChain.  Each step needs the chain context until the last task;   *)
(* the statements after it run on a context that cannot be cancelled.      *)

Executed(w) == IF w \in CronWorkers THEN "leave" ELSE "unlock"

\* A step under the chain context: it fails if the context is done, or by itself.
UnderChainCtx(w, fault, step) ==
    /\ \/ ~ChainCtxDone(w) /\ Goto(w, step)
       \/ (ChainCtxDone(w) \/ fault \in Failing) /\ Goto(w, Executed(w))
    /\ UNCHANGED <<mutexVars, tableVars, sendVars, activeChains, cur, cancelled, mainVars>>

StartTransaction(w) == pc[w] = "begin" /\ UnderChainCtx(w, "begin", "elements")

\* Deleting a chain deletes its tasks: nothing is left to execute.
GetChainElements(w) ==
    /\ pc[w] = "elements"
    /\ UnderChainCtx(w, "elements", IF cur[w] \in chain THEN "tasks" ELSE "commit")

\* The last task is done, its errors ignored; or there was none.
TasksDone(w) ==
    /\ pc[w] = "tasks"
    /\ Goto(w, "commit")
    /\ UNCHANGED <<mutexVars, tableVars, sendVars, activeChains, cur, cancelled, mainVars>>

\* A task without ignore_error fails, by itself or because the context is done.
TaskFails(w) ==
    /\ pc[w] = "tasks"
    /\ ChainCtxDone(w) \/ "task" \in Failing
    /\ Goto(w, "failed")
    /\ UNCHANGED <<mutexVars, tableVars, sendVars, activeChains, cur, cancelled, mainVars>>

\* A PROGRAM task, or a COPY from or to a program, waits for the pipes of its command until every
\* process that inherited them is gone: killing the command does not help.
OutputHeld(w) ==
    /\ "output" \in Failing
    /\ pc[w] = "tasks"
    /\ Goto(w, "held")
    /\ UNCHANGED <<mutexVars, tableVars, sendVars, activeChains, cur, cancelled, mainVars>>

OutputReleased(w) ==
    /\ pc[w] = "held"
    /\ Goto(w, "tasks")
    /\ UNCHANGED <<mutexVars, tableVars, sendVars, activeChains, cur, cancelled, mainVars>>

\* The chain timeout, or the global one, passes while somebody still looks at the context.
ChainTimeout(w) ==
    /\ "TIMEOUT" \in Signals
    /\ pc[w] \in {"begin", "elements", "tasks", "held"}
    /\ cancelled' = cancelled \cup {w}
    /\ UNCHANGED <<mutexVars, tableVars, sendVars, activeChains, workerVars, mainVars>>

CommitTransaction(w) ==
    /\ pc[w] = "commit"
    /\ Goto(w, "completed")
    /\ UNCHANGED <<mutexVars, tableVars, sendVars, activeChains, cur, cancelled, mainVars>>

\* Where the cleanup goes on: a failed chain still has to roll back.
Removed(w) ==
    IF pc[w] = "failed" THEN "rollback"
    ELSE IF cur[w] \in SelfDestruct THEN "destruct" ELSE Executed(w)

\* Deletes every row this client has for the chain, not just the worker's own.
RemoveChainRunStatus(w) ==
    /\ pc[w] \in {"failed", "completed"}
    /\ \/ activeChain' = [activeChain EXCEPT ![cur[w]] = 0]
       \/ "remove" \in Failing /\ UNCHANGED activeChain
    /\ Goto(w, Removed(w))
    /\ UNCHANGED <<mutexVars, chain, sendVars, activeChains, cur, cancelled, mainVars>>

RollbackTransaction(w) ==
    /\ pc[w] = "rollback"
    /\ Goto(w, "onerror")
    /\ UNCHANGED <<mutexVars, tableVars, sendVars, activeChains, cur, cancelled, mainVars>>

\* The on_error handler, a transaction of its own; the chain is over whatever it does.
ExecuteOnErrorHandler(w) ==
    /\ pc[w] = "onerror"
    /\ Goto(w, Executed(w))
    /\ UNCHANGED <<mutexVars, tableVars, sendVars, activeChains, cur, cancelled, mainVars>>

DeleteChain(w) ==
    /\ pc[w] = "destruct"
    /\ \/ chain' = chain \ {cur[w]}
       \/ "delete" \in Failing /\ UNCHANGED chain
    /\ Goto(w, Executed(w))
    /\ UNCHANGED <<mutexVars, activeChain, sendVars, activeChains, cur, cancelled, mainVars>>

-----------------------------------------------------------------------------
(* The end of Run.                                                         *)

\* A BUILTIN Shutdown task closes the channel; closing it twice panics.
Shutdown(w) ==
    /\ "SHUTDOWN" \in Signals
    /\ pc[w] = "tasks"
    /\ shutdown' = TRUE
    /\ main' = IF shutdown THEN "panicked" ELSE main
    /\ UNCHANGED <<mutexVars, tableVars, sendVars, activeChains, workerVars, cancelled, ctx>>

\* SIGTERM or an interrupt cancels the context of Run.
CancelContext ==
    /\ "SIGTERM" \in Signals
    /\ ctx' = TRUE
    /\ UNCHANGED <<mutexVars, tableVars, sendVars, activeChains, workerVars, cancelled,
                   shutdown, main>>

RunSeesContextDone ==
    /\ main = "loop" /\ ctx
    /\ main' = "returned"
    /\ UNCHANGED <<mutexVars, tableVars, sendVars, activeChains, workerVars, cancelled,
                   ctx, shutdown>>

Registered == {activeChains[c] : c \in Chains} \ {None}

\* terminateChains: cancel every registered chain, ...
TerminateChains ==
    /\ main = "loop" /\ shutdown
    /\ main' = "terminating"
    /\ cancelled' = cancelled \cup Registered
    /\ UNCHANGED <<mutexVars, tableVars, sendVars, activeChains, workerVars, ctx, shutdown>>

\* ... then poll the map until it is empty.
ChainsTerminated ==
    /\ main = "terminating"
    /\ Registered = {}
    /\ main' = "returned"
    /\ UNCHANGED <<mutexVars, tableVars, sendVars, activeChains, workerVars, cancelled,
                   ctx, shutdown>>

\* STOP and terminateChains look into the map without its mutex: a write at the same time
\* is a data race, on which the Go runtime may abort the process.
MapRaceAborts ==
    /\ "STOP" \in Signals \/ (main = "loop" /\ shutdown)
    /\ \E w \in CronWorkers : pc[w] \in {"start", "leave"}
    /\ main' = "panicked"
    /\ UNCHANGED <<mutexVars, tableVars, sendVars, activeChains, workerVars, cancelled,
                   ctx, shutdown>>

WorkerExits(w) ==
    /\ pc[w] = "idle"
    /\ WorkerCtxDone
    /\ LoopTop(w)
    /\ UNCHANGED <<mutexVars, tableVars, sendVars, activeChains, cancelled, mainVars>>

-----------------------------------------------------------------------------
LockStep(w) == Lock(w) \/ LockReturns(w) \/ UnlockChain(w)

MapStep(w) == AddActiveChain(w) \/ DeleteActiveChain(w)

TasksEnd(w) == TasksDone(w) \/ TaskFails(w)

TaskStep(w) == TasksEnd(w) \/ OutputHeld(w) \/ OutputReleased(w)

StatementStep(w) ==
    \/ InsertChainRunStatus(w) \/ StartTransaction(w) \/ GetChainElements(w)
    \/ CommitTransaction(w) \/ RemoveChainRunStatus(w) \/ RollbackTransaction(w)
    \/ ExecuteOnErrorHandler(w) \/ DeleteChain(w)

WorkerStep(w) ==
    \/ LockStep(w) \/ TaskStep(w) \/ StatementStep(w) \/ WorkerExits(w)
    \/ ChainTimeout(w) \/ Shutdown(w)

MainStep ==
    \/ Tick \/ RetrieveChains \/ CancelContext
    \/ RunSeesContextDone \/ TerminateChains \/ ChainsTerminated \/ MapRaceAborts

SignalStep(c) == SendRetrieved(c) \/ StartChain(c) \/ DelayElapsed(c) \/ StopChain(c)

\* The process is gone, or everything it started has returned.
Stopped == main = "panicked" \/ \A w \in Workers : pc[w] = "exited"

Next ==
    \/ /\ main # "panicked"
       /\ \/ MainStep
          \/ \E c \in Chains : SignalStep(c)
          \/ \E w \in CronWorkers : ReceiveChain(w) \/ MapStep(w)
          \/ \E w \in IntervalWorkers, c \in IntervalChains : ReceiveIntervalChain(w, c)
          \/ \E w \in Workers : WorkerStep(w)
    \/ Stopped /\ UNCHANGED vars

Spec == Init /\ [][Next]_vars

-----------------------------------------------------------------------------
(* Properties.                                                             *)

\* A chain with exclusive_execution executes alone: no other worker, cron or interval, is
\* between Lock and Unlock meanwhile (chainWorker, intervalChainWorker, Lock, Unlock).
ExclusiveRunsAlone ==
    \A v, w \in Workers :
        v # w /\ pc[v] \in Holding /\ pc[w] \in Holding => cur[v] \notin Exclusive

\* The lock, seen as the promise of exclusive_execution (ExclusiveExecution): every step of
\* every worker starts or finishes an execution as that specification allows, or does neither.
SharedRunners == {w \in Workers : pc[w] \in Holding /\ cur[w] \notin Exclusive}
LoneRunners   == {w \in Workers : pc[w] \in Holding /\ cur[w] \in Exclusive}
Promise == INSTANCE ExclusiveExecution WITH shared <- SharedRunners, alone <- LoneRunners
ExclusivePromise == Promise!Spec

\* An entry of the activeChains map belongs to a cron worker that executes that very chain,
\* so neither STOP nor terminateChains ever cancels another chain, or one that is over, although
\* workers overwrite and delete each other's entries (addActiveChain, deleteActiveChain).
EntriesAreCurrent ==
    \A c \in Chains : LET w == activeChains[c] IN
        w # None => cur[w] = c /\ pc[w] \in Executing \cup {"leave"}

\* Workers whose INSERT into active_chain for chain c has counted and not committed yet.
Inserting(c) == {w \in Workers : pc[w] = "insert" /\ cur[w] = c}

\* Racing INSERTs, leaked rows and deleted sibling rows together never bring active_chain
\* above max_instances by more than the number of other workers (InsertChainRunStatus).
RunStatusBounded ==
    \A c \in Chains : MaxInstances[c] > 0 =>
        activeChain[c] < MaxInstances[c] + Cardinality(Workers)

-----------------------------------------------------------------------------
(* Fairness: goroutines are scheduled, statements answer, sync.Mutex (which *)
(* serialises writers) does not starve anybody.  Tasks need not end unless  *)
(* their context is done and no process holds the pipes of their command.   *)
CodeFairness ==
    /\ \A w \in Workers :
        /\ SF_vars(main # "panicked" /\ Lock(w))
        /\ WF_vars(main # "panicked" /\ (LockReturns(w) \/ UnlockChain(w)))
        /\ WF_vars(main # "panicked" /\ StatementStep(w))
        /\ WF_vars(main # "panicked" /\ ChainCtxDone(w) /\ TasksEnd(w))
    /\ \A w \in CronWorkers :
        WF_vars(main # "panicked" /\ (ReceiveChain(w) \/ MapStep(w)))
    /\ WF_vars(main # "panicked" /\ (TerminateChains \/ ChainsTerminated \/ RunSeesContextDone))

LiveSpec == Spec /\ CodeFairness

\* Tasks, of which a chain has finitely many, and the processes they leave behind end by
\* themselves: an assumption of the properties that need it.
AllTasksEnd ==
    \A w \in Workers :
        /\ SF_vars(main # "panicked" /\ TasksEnd(w))
        /\ WF_vars(main # "panicked" /\ OutputReleased(w))


\* If tasks end, a worker that waits for the lock gets it, an exclusive chain as well as the
\* chains that queue behind it (Lock, Unlock).
LockGranted ==
    AllTasksEnd => \A w \in Workers :
        pc[w] \in Waiting ~> (pc[w] \notin Waiting \/ main = "panicked")

\* If tasks end, Run returns after a Shutdown task: terminateChains does not wait forever for
\* a chain that nobody removes from the map (Shutdown, terminateChains, deleteActiveChain).
ShutdownCompletes == AllTasksEnd => (shutdown ~> main \in {"returned", "panicked"})
=============================================================================
