-------------------------- MODULE SchedulerProofs --------------------------
(***************************************************************************)
(* Proofs about Scheduler, for any chains, workers, signals and faults.    *)
(***************************************************************************)
EXTENDS Scheduler, FiniteSetTheorems, TLAPS

\* A worker in the loop body has a chain in hand.
HasChain == \A w \in Workers : pc[w] \notin {"idle", "exited"} => cur[w] \in Chains

TypeInv == TypeOK /\ HasChain

-----------------------------------------------------------------------------
(* Type correctness.                                                       *)

LEMMA InitType == Init => TypeInv
<1> SUFFICES ASSUME Init PROVE TypeInv
  OBVIOUS
<1>1. MutexTypeOK
  BY DEF Init, MutexInit, MutexTypeOK
<1>2. pc \in [Workers -> Steps] /\ cur \in [Workers -> Chains \cup {None}]
  BY DEF Init, Steps
<1>3. chainsChan \in Seq(Chains) /\ Len(chainsChan) <= ChanCap
  <2>1. chainsChan = <<>> BY DEF Init
  <2>2. chainsChan \in Seq(Chains) /\ Len(chainsChan) = 0 BY <2>1
  <2> QED BY <2>2, ChainsAssumption DEF ChainsAssumption
<1>4. activeChain \in [Chains -> Nat] /\ activeChains \in [Chains -> CronWorkers \cup {None}]
  BY DEF Init
<1>5. TypeOK
  BY <1>1, <1>2, <1>3, <1>4, ChainsAssumption DEF Init, TypeOK, ChainsAssumption
<1>6. HasChain
  BY DEF Init, HasChain
<1> QED BY <1>5, <1>6 DEF TypeInv

\* A step of the main loop changes neither locks nor workers.
LEMMA MainType ==
    ASSUME TypeInv, MainStep PROVE TypeInv'
<1> USE DEF TypeInv, TypeOK, MutexTypeOK, HasChain, mutexVars, tableVars, sendVars,
            workerVars, mainVars
<1>1. CASE Tick BY <1>1 DEF Tick
<1>2. CASE RetrieveChains BY <1>2 DEF RetrieveChains
<1>3. CASE CancelContext BY <1>3 DEF CancelContext
<1>4. CASE RunSeesContextDone BY <1>4 DEF RunSeesContextDone
<1>5. CASE TerminateChains
  BY <1>5, WorkersAssumption DEF WorkersAssumption, TerminateChains, Registered
<1>6. CASE ChainsTerminated BY <1>6 DEF ChainsTerminated
<1>7. CASE MapRaceAborts BY <1>7 DEF MapRaceAborts
<1> QED BY <1>1, <1>2, <1>3, <1>4, <1>5, <1>6, <1>7, MainStep DEF MainStep

\* Sending a chain keeps the channel a sequence of chains within its capacity.
LEMMA SendType ==
    ASSUME NEW c \in Chains, chainsChan \in Seq(Chains), Len(chainsChan) <= ChanCap, SendChain(c)
    PROVE  chainsChan' \in Seq(Chains) /\ Len(chainsChan') <= ChanCap
<1>1. CASE Len(chainsChan) < ChanCap
  <2>1. chainsChan' = Append(chainsChan, c) BY <1>1 DEF SendChain
  <2>2. chainsChan' \in Seq(Chains) /\ Len(chainsChan') = Len(chainsChan) + 1 BY <2>1
  <2>3. Len(chainsChan) \in Nat /\ ChanCap \in Nat BY ChainsAssumption DEF ChainsAssumption
  <2> QED BY <1>1, <2>2, <2>3
<1>2. CASE ~(Len(chainsChan) < ChanCap)
  BY <1>2 DEF SendChain
<1> QED BY <1>1, <1>2

LEMMA SignalType ==
    ASSUME TypeInv, NEW c \in Chains, SignalStep(c) PROVE TypeInv'
<1> USE DEF TypeInv, TypeOK, MutexTypeOK, HasChain, mutexVars, tableVars, sendVars,
            workerVars, mainVars
<1>1. CASE SendRetrieved(c) BY <1>1, SendType DEF SendRetrieved
<1>2. CASE StartChain(c) BY <1>2 DEF StartChain
<1>3. CASE DelayElapsed(c) BY <1>3, SendType DEF DelayElapsed
<1>4. CASE StopChain(c) BY <1>4, WorkersAssumption DEF WorkersAssumption, StopChain
<1> QED BY <1>1, <1>2, <1>3, <1>4, SignalStep(c) DEF SignalStep

\* Moving a worker on keeps pc typed, and the chain in hand as long as there is one.
LEMMA GotoType ==
    ASSUME TypeInv, NEW w \in Workers, NEW step \in Steps, Goto(w, step), UNCHANGED cur,
           pc[w] \notin {"idle", "exited"}
    PROVE  pc' \in [Workers -> Steps] /\ cur' \in [Workers -> Chains \cup {None}] /\ HasChain'
  BY DEF TypeInv, TypeOK, HasChain, Goto

LEMMA LoopTopType ==
    ASSUME TypeInv, NEW w \in Workers, LoopTop(w)
    PROVE  pc' \in [Workers -> Steps] /\ cur' \in [Workers -> Chains \cup {None}] /\ HasChain'
  BY DEF TypeInv, TypeOK, HasChain, LoopTop, Goto, Steps

LEMMA AdmitType ==
    ASSUME TypeInv, NEW w \in Workers, NEW c \in Chains, Admit(w, c)
    PROVE  pc' \in [Workers -> Steps] /\ cur' \in [Workers -> Chains \cup {None}] /\ HasChain'
<1>1. CASE LoopTop(w) BY <1>1, LoopTopType
<1>2. CASE Goto(w, "insert") /\ cur' = [cur EXCEPT ![w] = c]
  BY <1>2 DEF TypeInv, TypeOK, HasChain, Goto, Steps
<1> QED BY <1>1, <1>2 DEF Admit

\* The cron workers' receive and map steps.
LEMMA CronType ==
    ASSUME TypeInv, NEW w \in CronWorkers, ReceiveChain(w) \/ MapStep(w) PROVE TypeInv'
<1> USE DEF TypeInv, mutexVars, tableVars, sendVars, workerVars, mainVars
<1>1. w \in Workers
  BY WorkersAssumption DEF WorkersAssumption
<1>2. CASE ReceiveChain(w)
  <2>1. chainsChan \in Seq(Chains) /\ chainsChan # <<>>
    BY <1>2 DEF ReceiveChain, TypeOK
  <2>2. /\ Head(chainsChan) \in Chains
        /\ Tail(chainsChan) \in Seq(Chains) /\ Len(Tail(chainsChan)) <= ChanCap
    <3>1. Head(chainsChan) \in Chains /\ Tail(chainsChan) \in Seq(Chains)
      BY <2>1
    <3>2. Len(Tail(chainsChan)) = Len(chainsChan) - 1 /\ Len(chainsChan) \in Nat
      BY <2>1
    <3>3. Len(chainsChan) <= ChanCap /\ ChanCap \in Nat
      BY ChainsAssumption DEF ChainsAssumption, TypeOK
    <3> QED BY <3>1, <3>2, <3>3
  <2>3. Admit(w, Head(chainsChan))
    BY <1>2 DEF ReceiveChain
  <2>4. pc' \in [Workers -> Steps] /\ cur' \in [Workers -> Chains \cup {None}] /\ HasChain'
    BY <1>1, <2>2, <2>3, AdmitType
  <2> QED BY <1>2, <2>2, <2>4 DEF ReceiveChain, TypeOK, MutexTypeOK
<1>3. CASE AddActiveChain(w)
  <2>1. pc' \in [Workers -> Steps] /\ cur' \in [Workers -> Chains \cup {None}] /\ HasChain'
    BY <1>1, <1>3, GotoType DEF AddActiveChain, Steps, Holding, Executing
  <2> QED BY <1>3, <2>1 DEF AddActiveChain, TypeOK, MutexTypeOK
<1>4. CASE DeleteActiveChain(w)
  <2>1. pc' \in [Workers -> Steps] /\ cur' \in [Workers -> Chains \cup {None}] /\ HasChain'
    BY <1>1, <1>4, GotoType DEF DeleteActiveChain, Steps, Holding
  <2> QED BY <1>4, <2>1 DEF DeleteActiveChain, TypeOK, MutexTypeOK
<1> QED BY <1>2, <1>3, <1>4 DEF MapStep

LEMMA IntervalType ==
    ASSUME TypeInv, NEW w \in IntervalWorkers, NEW c \in IntervalChains,
           ReceiveIntervalChain(w, c)
    PROVE  TypeInv'
<1>1. w \in Workers /\ c \in Chains
  BY WorkersAssumption, ChainsAssumption DEF WorkersAssumption, ChainsAssumption
<1>2. pc' \in [Workers -> Steps] /\ cur' \in [Workers -> Chains \cup {None}] /\ HasChain'
  BY <1>1, AdmitType DEF ReceiveIntervalChain
<1> QED BY <1>2 DEF ReceiveIntervalChain, TypeInv, TypeOK, MutexTypeOK, mutexVars, tableVars,
                    sendVars, mainVars

LEMMA LockType ==
    ASSUME TypeInv, NEW w \in Workers, LockStep(w) PROVE TypeInv'
<1> USE DEF TypeInv, mutexVars, tableVars, sendVars, workerVars, mainVars
<1>1. CASE Lock(w)
  <2>1. pc' \in [Workers -> Steps] /\ cur' \in [Workers -> Chains \cup {None}] /\ HasChain'
    BY <1>1, GotoType DEF Lock, Steps, Waiting
  <2>2. MutexTypeOK'
    BY <1>1 DEF Lock, Announce, RLock, TypeOK, MutexTypeOK
  <2> QED BY <1>1, <2>1, <2>2 DEF Lock, TypeOK
<1>2. CASE LockReturns(w)
  <2>1. pc' \in [Workers -> Steps] /\ cur' \in [Workers -> Chains \cup {None}] /\ HasChain'
    BY <1>2, GotoType DEF LockReturns, Locked, Steps, Holding, Executing
  <2> QED BY <1>2, <2>1 DEF LockReturns, TypeOK, MutexTypeOK
<1>3. CASE UnlockChain(w)
  <2>1. pc' \in [Workers -> Steps] /\ cur' \in [Workers -> Chains \cup {None}] /\ HasChain'
    BY <1>3, LoopTopType DEF UnlockChain
  <2>2. MutexTypeOK'
    BY <1>3 DEF UnlockChain, Unlock, RUnlock, TypeOK, MutexTypeOK
  <2> QED BY <1>3, <2>1, <2>2 DEF UnlockChain, TypeOK
<1> QED BY <1>1, <1>2, <1>3, LockStep(w) DEF LockStep

\* Steps inside executeChain that only move the worker on.
InsideStep(w) ==
    \/ StartTransaction(w) \/ GetChainElements(w) \/ TaskStep(w)
    \/ CommitTransaction(w) \/ RollbackTransaction(w) \/ ExecuteOnErrorHandler(w)

\* Where these steps start and lead to: never out of the execution.
LEMMA InsideSteps ==
    ASSUME NEW w \in Workers, InsideStep(w)
    PROVE  /\ pc[w] \in Executing
           /\ \E step \in Executing \cup {"leave", "unlock"} :
                 /\ Goto(w, step)
                 /\ step = "unlock" => w \notin CronWorkers
           /\ UNCHANGED <<mutexVars, tableVars, sendVars, activeChains, cur, cancelled, mainVars>>
<1> USE DEF Executing, InTx, Executed, UnderChainCtx
<1>1. CASE StartTransaction(w) BY <1>1 DEF StartTransaction
<1>2. CASE GetChainElements(w) BY <1>2 DEF GetChainElements
<1>3. CASE TasksEnd(w) BY <1>3 DEF TasksEnd, TasksDone, TaskFails
<1>4. CASE OutputHeld(w) \/ OutputReleased(w) BY <1>4 DEF OutputHeld, OutputReleased
<1>5. CASE CommitTransaction(w) BY <1>5 DEF CommitTransaction
<1>6. CASE RollbackTransaction(w) BY <1>6 DEF RollbackTransaction
<1>7. CASE ExecuteOnErrorHandler(w) BY <1>7 DEF ExecuteOnErrorHandler
<1> QED BY <1>1, <1>2, <1>3, <1>4, <1>5, <1>6, <1>7 DEF InsideStep, TaskStep

\* The steps that also change a table.
TableStep(w) == RemoveChainRunStatus(w) \/ DeleteChain(w)

LEMMA TableSteps ==
    ASSUME NEW w \in Workers, TableStep(w)
    PROVE  /\ pc[w] \in Executing
           /\ \E step \in Executing \cup {"leave", "unlock"} :
                 /\ Goto(w, step)
                 /\ step = "unlock" => w \notin CronWorkers
           /\ UNCHANGED <<mutexVars, sendVars, activeChains, cur, cancelled, mainVars>>
<1> USE DEF Executing, InTx, Executed, Removed
<1>1. CASE RemoveChainRunStatus(w) BY <1>1 DEF RemoveChainRunStatus
<1>2. CASE DeleteChain(w) BY <1>2 DEF DeleteChain
<1> QED BY <1>1, <1>2 DEF TableStep

LEMMA StepKinds ==
    ASSUME NEW w \in Workers
    PROVE  (TaskStep(w) \/ StatementStep(w))
              <=> (InsideStep(w) \/ TableStep(w) \/ InsertChainRunStatus(w))
  BY DEF StatementStep, InsideStep, TableStep

LEMMA ExecutionType ==
    ASSUME TypeInv, NEW w \in Workers, TaskStep(w) \/ StatementStep(w) PROVE TypeInv'
<1> USE DEF TypeInv, mutexVars, tableVars, sendVars, workerVars, mainVars
<1>1. CASE InsideStep(w) \/ TableStep(w)
  <2>1. PICK step \in Executing \cup {"leave", "unlock"} : Goto(w, step)
    BY <1>1, InsideSteps, TableSteps
  <2>2. step \in Steps /\ pc[w] \notin {"idle", "exited"} /\ UNCHANGED cur
    BY <1>1, InsideSteps, TableSteps DEF Steps, Holding, Executing, InTx
  <2>3. pc' \in [Workers -> Steps] /\ cur' \in [Workers -> Chains \cup {None}] /\ HasChain'
    BY <2>1, <2>2, GotoType
  <2>4. UNCHANGED <<mutexVars, sendVars, activeChains, cancelled, mainVars>>
    BY <1>1, InsideSteps, TableSteps
  <2>5. activeChain' \in [Chains -> Nat] /\ chain' \in SUBSET Chains
    <3>1. CASE InsideStep(w) BY <3>1, InsideSteps DEF TypeOK
    <3>2. CASE RemoveChainRunStatus(w)
      <4>1. activeChain \in [Chains -> Nat] BY DEF TypeOK
      <4>2. [activeChain EXCEPT ![cur[w]] = 0] \in [Chains -> Nat] BY <4>1
      <4>3. activeChain' \in {activeChain, [activeChain EXCEPT ![cur[w]] = 0]}
        BY <3>2 DEF RemoveChainRunStatus
      <4> QED BY <3>2, <4>1, <4>2, <4>3 DEF RemoveChainRunStatus, TypeOK
    <3>3. CASE DeleteChain(w) BY <3>3 DEF DeleteChain, TypeOK
    <3> QED BY <1>1, <3>1, <3>2, <3>3 DEF TableStep
  <2> QED BY <2>3, <2>4, <2>5 DEF TypeOK, MutexTypeOK
<1>2. CASE InsertChainRunStatus(w)
  <2>1. pc' \in [Workers -> Steps] /\ cur' \in [Workers -> Chains \cup {None}] /\ HasChain'
    <3>1. CASE Goto(w, "lock") /\ UNCHANGED cur
      BY <1>2, <3>1, GotoType DEF InsertChainRunStatus, Steps, Waiting
    <3>2. CASE LoopTop(w) BY <3>2, LoopTopType
    <3> QED BY <1>2, <3>1, <3>2 DEF InsertChainRunStatus
  <2>2. cur[w] \in Chains
    BY <1>2 DEF InsertChainRunStatus, HasChain
  <2>3. activeChain' \in [Chains -> Nat]
    <3> DEFINE inserted == [activeChain EXCEPT ![cur[w]] = @ + 1]
    <3>1. inserted \in [Chains -> Nat] BY <2>2 DEF TypeOK
    <3>2. activeChain' \in {activeChain, inserted} BY <1>2 DEF InsertChainRunStatus
    <3> QED BY <3>1, <3>2 DEF TypeOK
  <2> QED BY <1>2, <2>1, <2>3 DEF InsertChainRunStatus, TypeOK, MutexTypeOK
<1> QED BY <1>1, <1>2, StepKinds

LEMMA WorkerType ==
    ASSUME TypeInv, NEW w \in Workers, WorkerStep(w) PROVE TypeInv'
<1>1. CASE LockStep(w) BY <1>1, LockType
<1>2. CASE TaskStep(w) \/ StatementStep(w) BY <1>2, ExecutionType
<1>3. CASE WorkerExits(w)
  <2>1. pc' \in [Workers -> Steps] /\ cur' \in [Workers -> Chains \cup {None}] /\ HasChain'
    BY <1>3, LoopTopType DEF WorkerExits
  <2> QED BY <1>3, <2>1 DEF WorkerExits, TypeInv, TypeOK, MutexTypeOK, mutexVars, tableVars,
                            sendVars, mainVars
<1>4. CASE ChainTimeout(w) \/ Shutdown(w)
  BY <1>4 DEF ChainTimeout, Shutdown, TypeInv, TypeOK, HasChain, MutexTypeOK, mutexVars,
              tableVars, sendVars, workerVars, mainVars
<1> QED BY <1>1, <1>2, <1>3, <1>4 DEF WorkerStep

LEMMA NextType == TypeInv /\ [Next]_vars => TypeInv'
<1> SUFFICES ASSUME TypeInv, [Next]_vars PROVE TypeInv'
  OBVIOUS
<1>1. CASE MainStep BY <1>1, MainType
<1>2. CASE \E c \in Chains : SignalStep(c) BY <1>2, SignalType
<1>3. CASE \E w \in CronWorkers : ReceiveChain(w) \/ MapStep(w) BY <1>3, CronType
<1>4. CASE \E w \in IntervalWorkers, c \in IntervalChains : ReceiveIntervalChain(w, c)
  BY <1>4, IntervalType
<1>5. CASE \E w \in Workers : WorkerStep(w) BY <1>5, WorkerType
<1>6. CASE UNCHANGED vars
  BY <1>6 DEF vars, mutexVars, tableVars, sendVars, workerVars, mainVars, TypeInv, TypeOK,
              HasChain, MutexTypeOK
<1> QED BY <1>1, <1>2, <1>3, <1>4, <1>5, <1>6 DEF Next

\* Every variable keeps its type, and a worker always has a chain to execute or to unlock.
THEOREM TypeCorrect == Spec => []TypeOK
<1>1. Spec => []TypeInv BY InitType, NextType, PTL DEF Spec
<1>2. TypeInv => TypeOK BY DEF TypeInv
<1> QED BY <1>1, <1>2, PTL

-----------------------------------------------------------------------------
(* The lock.  The invariant ties each worker's step to what the mutex knows *)
(* of it: this is what ExclusiveRunsAlone needs to be inductive.            *)

OwnsLock(w) == IF cur[w] \in Exclusive THEN writer = w /\ readers = {} ELSE w \in readers

LockInv ==
    /\ \A w \in Workers : pc[w] \in Holding => OwnsLock(w)
    /\ \A w \in Workers : pc[w] = "wait" /\ cur[w] \in Exclusive => writer = w
    /\ \A w \in readers \cup blocked : pc[w] \in Holding \cup {"wait"} /\ cur[w] \notin Exclusive
    /\ \A w \in blocked : pc[w] = "wait" /\ w \notin readers
    /\ writer # None => pc[writer] \in Holding \cup {"wait"} /\ cur[writer] \in Exclusive

LEMMA InitLock == Init => LockInv
  BY DEF Init, MutexInit, LockInv, Holding, Executing, InTx

\* A step that keeps the mutex, and moves no worker into or out of the lock, keeps LockInv.
LEMMA LockFrame ==
    ASSUME TypeInv, LockInv, UNCHANGED mutexVars,
           \A w \in Workers :
              \/ pc'[w] = pc[w] /\ cur'[w] = cur[w]
              \/ pc[w] \in Holding /\ pc'[w] \in Holding /\ cur'[w] = cur[w]
              \/ pc[w] \notin Holding \cup {"wait"} /\ pc'[w] \notin Holding \cup {"wait"}
    PROVE  LockInv'
<1> USE DEF TypeInv, TypeOK, MutexTypeOK, LockInv, OwnsLock, mutexVars
<1>1. \A w \in readers \cup blocked : w \in Workers
  OBVIOUS
<1>2. writer # None => writer \in Workers
  OBVIOUS
<1>3. "wait" \notin Holding
  BY DEF Holding, Executing, InTx
<1>4. (\A w \in Workers : pc[w] \in Holding => OwnsLock(w))'
  OBVIOUS
<1>5. (\A w \in Workers : pc[w] = "wait" /\ cur[w] \in Exclusive => writer = w)'
  BY <1>3
<1>6. (\A w \in readers \cup blocked : pc[w] \in Holding \cup {"wait"} /\ cur[w] \notin Exclusive)'
  BY <1>1
<1>7. (\A w \in blocked : pc[w] = "wait" /\ w \notin readers)'
  BY <1>1, <1>3
<1>8. (writer # None => pc[writer] \in Holding \cup {"wait"} /\ cur[writer] \in Exclusive)'
  BY <1>2
<1> QED BY <1>4, <1>5, <1>6, <1>7, <1>8

\* Moving one worker from step to step leaves the other workers where they are.
LEMMA GotoOthers ==
    ASSUME TypeInv, NEW w \in Workers, NEW step, Goto(w, step)
    PROVE  pc'[w] = step /\ \A v \in Workers : v # w => pc'[v] = pc[v]
  BY DEF TypeInv, TypeOK, Goto

LEMMA LoopTopOthers ==
    ASSUME TypeInv, NEW w \in Workers, LoopTop(w)
    PROVE  /\ pc'[w] \in {"idle", "exited"}
           /\ \A v \in Workers : v # w => pc'[v] = pc[v] /\ cur'[v] = cur[v]
  BY DEF TypeInv, TypeOK, LoopTop, Goto

LEMMA AdmitOthers ==
    ASSUME TypeInv, NEW w \in Workers, NEW c, Admit(w, c)
    PROVE  /\ pc'[w] \in {"idle", "exited", "insert"}
           /\ \A v \in Workers : v # w => pc'[v] = pc[v] /\ cur'[v] = cur[v]
  BY LoopTopOthers DEF TypeInv, TypeOK, Admit, Goto

\* The main loop and the signals touch neither workers nor the mutex.
LEMMA OutsideSteps ==
    ASSUME MainStep \/ (\E c \in Chains : SignalStep(c))
    PROVE  UNCHANGED mutexVars /\ UNCHANGED workerVars /\ UNCHANGED activeChains
  BY DEF MainStep, Tick, RetrieveChains, CancelContext, RunSeesContextDone, TerminateChains,
         ChainsTerminated, MapRaceAborts, SignalStep, SendRetrieved, StartChain, DelayElapsed,
         StopChain, mutexVars, workerVars

\* A worker outside the lock may go anywhere outside the lock.
LEMMA OutsideLock ==
    ASSUME TypeInv, LockInv, NEW w \in Workers, UNCHANGED mutexVars,
           pc[w] \in {"idle", "insert"}, pc'[w] \in {"idle", "exited", "insert", "lock"},
           \A v \in Workers : v # w => pc'[v] = pc[v] /\ cur'[v] = cur[v]
    PROVE  LockInv'
  BY LockFrame DEF Holding, Executing, InTx

\* A worker inside the lock may go anywhere inside the lock.
LEMMA InsideLock ==
    ASSUME TypeInv, LockInv, NEW w \in Workers, UNCHANGED mutexVars, UNCHANGED cur,
           pc[w] \in Holding, NEW step \in Holding, Goto(w, step)
    PROVE  LockInv'
  BY LockFrame, GotoOthers

LEMMA LockLock ==
    ASSUME TypeInv, LockInv, NEW w \in Workers, LockStep(w) PROVE LockInv'
<1> USE DEF mutexVars
<1>1. (\A v \in readers \cup blocked : v \in Workers) /\ (writer # None => writer \in Workers)
  BY DEF TypeInv, TypeOK, MutexTypeOK
<1>2. "wait" \notin Holding /\ "lock" \notin Holding /\ "unlock" \in Holding
      /\ "idle" \notin Holding /\ "exited" \notin Holding
  BY DEF Holding, Executing, InTx
<1>3. CASE Lock(w)
  <2>1. /\ pc[w] = "lock" /\ pc'[w] = "wait" /\ cur' = cur
        /\ \A v \in Workers : v # w => pc'[v] = pc[v]
    BY <1>3, GotoOthers DEF Lock
  <2>2. w \notin readers \cup blocked /\ writer # w
    BY <2>1, <1>2, WorkersAssumption DEF LockInv, WorkersAssumption
  <2>3. CASE cur[w] \in Exclusive
    <3>1. writer = None /\ writer' = w /\ readers' = readers /\ blocked' = blocked
      BY <1>3, <2>3 DEF Lock, Announce
    <3> QED BY <3>1, <2>1, <2>2, <2>3, <1>1, <1>2, WorkersAssumption
            DEF LockInv, OwnsLock, WorkersAssumption
  <2>4. CASE cur[w] \notin Exclusive /\ writer = None
    <3>1. writer' = writer /\ readers' = readers \cup {w} /\ blocked' = blocked
      BY <1>3, <2>4 DEF Lock, RLock
    <3> QED BY <3>1, <2>1, <2>2, <2>4, <1>1, <1>2, WorkersAssumption
            DEF LockInv, OwnsLock, WorkersAssumption
  <2>5. CASE cur[w] \notin Exclusive /\ writer # None
    <3>1. writer' = writer /\ readers' = readers /\ blocked' = blocked \cup {w}
      BY <1>3, <2>5 DEF Lock, RLock
    <3> QED BY <3>1, <2>1, <2>2, <2>5, <1>1, <1>2 DEF LockInv, OwnsLock
  <2> QED BY <2>3, <2>4, <2>5
<1>4. CASE LockReturns(w)
  <2>1. PICK step \in Holding : Goto(w, step)
    BY <1>4 DEF LockReturns, Locked, Holding, Executing
  <2>2. /\ pc[w] = "wait" /\ pc'[w] \in Holding /\ cur' = cur /\ UNCHANGED mutexVars
        /\ \A v \in Workers : v # w => pc'[v] = pc[v]
    BY <1>4, <2>1, GotoOthers DEF LockReturns
  <2>3. OwnsLock(w) /\ w \notin blocked
    BY <1>4 DEF LockReturns, LockHeld, RLockHeld, OwnsLock, LockInv
  <2> QED BY <2>2, <2>3, <1>1, <1>2 DEF LockInv, OwnsLock
<1>5. CASE UnlockChain(w)
  <2>1. /\ pc[w] = "unlock" /\ pc'[w] \in {"idle", "exited"}
        /\ \A v \in Workers : v # w => pc'[v] = pc[v] /\ cur'[v] = cur[v]
    BY <1>5, LoopTopOthers DEF UnlockChain
  <2>2. OwnsLock(w) /\ w \notin blocked
    BY <2>1, <1>2 DEF LockInv
  <2>3. CASE cur[w] \in Exclusive
    <3>1. writer' = None /\ readers' = blocked /\ blocked' = {} /\ writer = w /\ readers = {}
      BY <1>5, <2>2, <2>3 DEF UnlockChain, Unlock, OwnsLock
    <3>2. \A v \in Workers : v # w => pc[v] \notin Holding
      BY <3>1, WorkersAssumption DEF LockInv, OwnsLock, WorkersAssumption
    <3> QED BY <3>1, <3>2, <2>1, <2>2, <2>3, <1>1, <1>2, WorkersAssumption
            DEF LockInv, OwnsLock, WorkersAssumption
  <2>4. CASE cur[w] \notin Exclusive
    <3>1. writer' = writer /\ readers' = readers \ {w} /\ blocked' = blocked /\ writer # w
      BY <1>5, <2>1, <2>4, WorkersAssumption
         DEF UnlockChain, RUnlock, LockInv, WorkersAssumption
    <3>2. \A v \in Workers : v # w /\ OwnsLock(v) => OwnsLock(v)'
      BY <3>1, <2>1 DEF OwnsLock
    <3>3. /\ \A v \in Workers : pc'[v] \in Holding => OwnsLock(v)'
          /\ \A v \in Workers : pc'[v] = "wait" /\ cur'[v] \in Exclusive => writer' = v
      BY <3>1, <3>2, <2>1, <1>2 DEF LockInv
    <3>4. \A v \in readers' \cup blocked' : v \in Workers /\ v # w
      BY <3>1, <2>2, <1>1
    <3>5. /\ \A v \in readers' \cup blocked' :
                pc'[v] \in Holding \cup {"wait"} /\ cur'[v] \notin Exclusive
          /\ \A v \in blocked' : pc'[v] = "wait" /\ v \notin readers'
      BY <3>1, <3>4, <2>1 DEF LockInv
    <3>6. writer' # None => pc'[writer'] \in Holding \cup {"wait"} /\ cur'[writer'] \in Exclusive
      BY <3>1, <2>1, <1>1 DEF LockInv
    <3> QED BY <3>3, <3>5, <3>6 DEF LockInv
  <2> QED BY <2>3, <2>4
<1> QED BY <1>3, <1>4, <1>5 DEF LockStep

LEMMA NextLock == TypeInv /\ LockInv /\ [Next]_vars => LockInv'
<1> SUFFICES ASSUME TypeInv, LockInv, [Next]_vars PROVE LockInv'
  OBVIOUS
<1> USE DEF mutexVars, workerVars
<1>1. CASE MainStep \/ \E c \in Chains : SignalStep(c)
  BY <1>1, OutsideSteps, LockFrame
<1>2. ASSUME NEW w \in CronWorkers, ReceiveChain(w) PROVE LockInv'
  BY <1>2, AdmitOthers, OutsideLock, WorkersAssumption DEF ReceiveChain, WorkersAssumption
<1>3. ASSUME NEW w \in CronWorkers, MapStep(w) PROVE LockInv'
  BY <1>3, InsideLock, WorkersAssumption
     DEF MapStep, AddActiveChain, DeleteActiveChain, Holding, Executing, WorkersAssumption
<1>4. ASSUME NEW w \in IntervalWorkers, NEW c \in IntervalChains, ReceiveIntervalChain(w, c)
      PROVE  LockInv'
  BY <1>4, AdmitOthers, OutsideLock, WorkersAssumption DEF ReceiveIntervalChain, WorkersAssumption
<1>5. ASSUME NEW w \in Workers, WorkerStep(w) PROVE LockInv'
  <2>1. CASE LockStep(w) BY <2>1, LockLock
  <2>2. CASE InsideStep(w) \/ TableStep(w)
    BY <2>2, InsideSteps, TableSteps, InsideLock DEF Holding
  <2>3. CASE InsertChainRunStatus(w)
    <3>1. CASE Goto(w, "lock") /\ UNCHANGED cur
      BY <2>3, <3>1, GotoOthers, OutsideLock DEF InsertChainRunStatus
    <3>2. CASE LoopTop(w)
      BY <2>3, <3>2, LoopTopOthers, OutsideLock DEF InsertChainRunStatus
    <3> QED BY <2>3, <3>1, <3>2 DEF InsertChainRunStatus
  <2>4. CASE WorkerExits(w)
    BY <2>4, LoopTopOthers, OutsideLock DEF WorkerExits
  <2>5. CASE ChainTimeout(w) \/ Shutdown(w)
    BY <2>5, LockFrame DEF ChainTimeout, Shutdown
  <2> QED BY <1>5, <2>1, <2>2, <2>3, <2>4, <2>5, StepKinds DEF WorkerStep
<1>6. CASE UNCHANGED vars
  BY <1>6, LockFrame DEF vars
<1> QED BY <1>1, <1>2, <1>3, <1>4, <1>5, <1>6 DEF Next

LEMMA Invariants == Spec => [](TypeInv /\ LockInv)
<1>1. Init => TypeInv /\ LockInv BY InitType, InitLock
<1>2. TypeInv /\ LockInv /\ [Next]_vars => (TypeInv /\ LockInv)' BY NextType, NextLock
<1> QED BY <1>1, <1>2, PTL DEF Spec

\* An exclusive chain executes alone, whatever workers, signals and faults there are.
THEOREM ExclusiveAlone == Spec => []ExclusiveRunsAlone
<1>1. LockInv => ExclusiveRunsAlone
  BY DEF LockInv, OwnsLock, ExclusiveRunsAlone
<1> QED BY <1>1, Invariants, PTL

-----------------------------------------------------------------------------
(* The implementation of ExclusiveExecution.                               *)

\* A step that moves no worker into or out of the lock is a stuttering step of the promise.
LEMMA PromiseFrame ==
    ASSUME \A w \in Workers :
              /\ pc'[w] \in Holding <=> pc[w] \in Holding
              /\ pc[w] \in Holding => cur'[w] = cur[w]
    PROVE  UNCHANGED <<SharedRunners, LoneRunners>>
  BY DEF SharedRunners, LoneRunners

LEMMA PromiseEnter ==
    ASSUME TypeInv, LockInv, NEW w \in Workers, LockReturns(w)
    PROVE  Promise!StartShared(w) \/ Promise!StartAlone(w)
<1>1. PICK step \in Holding : Goto(w, step)
  BY DEF LockReturns, Locked, Holding, Executing
<1>2. /\ pc[w] = "wait" /\ pc'[w] \in Holding /\ cur' = cur
      /\ \A v \in Workers : v # w => pc'[v] = pc[v]
  BY <1>1, GotoOthers DEF LockReturns
<1>3. "wait" \notin Holding
  BY DEF Holding, Executing, InTx
<1>4. CASE cur[w] \in Exclusive
  <2>1. writer = w /\ readers = {}
    BY <1>4 DEF LockReturns, LockHeld
  <2>2. \A v \in Workers : pc[v] \notin Holding
    BY <2>1, <1>2, <1>3 DEF LockInv, OwnsLock
  <2>3. SharedRunners = {} /\ LoneRunners = {}
    BY <2>2 DEF SharedRunners, LoneRunners
  <2>4. SharedRunners' = {} /\ LoneRunners' = {w}
    BY <1>2, <1>4, <2>2 DEF SharedRunners, LoneRunners
  <2> QED BY <2>3, <2>4 DEF Promise!StartAlone
<1>5. CASE cur[w] \notin Exclusive
  <2>1. w \in readers
    BY <1>5 DEF LockReturns, RLockHeld
  <2>2. LoneRunners = {}
    BY <2>1 DEF LockInv, OwnsLock, LoneRunners
  <2>3. w \notin SharedRunners /\ SharedRunners' = SharedRunners \cup {w}
    BY <1>2, <1>3, <1>5 DEF SharedRunners
  <2>4. LoneRunners' = LoneRunners
    BY <1>2, <1>5 DEF LoneRunners
  <2> QED BY <2>2, <2>3, <2>4 DEF Promise!StartShared
<1> QED BY <1>4, <1>5

LEMMA PromiseLeave ==
    ASSUME TypeInv, NEW w \in Workers, UnlockChain(w)
    PROVE  Promise!Finish(w)
<1>1. /\ pc[w] = "unlock" /\ pc'[w] \in {"idle", "exited"}
      /\ \A v \in Workers : v # w => pc'[v] = pc[v] /\ cur'[v] = cur[v]
  BY LoopTopOthers DEF UnlockChain
<1>2. "unlock" \in Holding /\ "idle" \notin Holding /\ "exited" \notin Holding
  BY DEF Holding, Executing, InTx
<1>3. w \in SharedRunners \cup LoneRunners
  BY <1>1, <1>2 DEF SharedRunners, LoneRunners
<1>4. SharedRunners' = SharedRunners \ {w} /\ LoneRunners' = LoneRunners \ {w}
  BY <1>1, <1>2 DEF SharedRunners, LoneRunners
<1> QED BY <1>3, <1>4 DEF Promise!Finish

LEMMA PromiseNext ==
    ASSUME TypeInv, LockInv, [Next]_vars
    PROVE  [Promise!Next]_<<SharedRunners, LoneRunners>>
<1> DEFINE Abstract == [Promise!Next]_<<SharedRunners, LoneRunners>>
<1> SUFFICES Abstract
  OBVIOUS
<1>0. /\ \A step \in {"idle", "exited", "insert", "lock"} : step \notin Holding
      /\ Executing \subseteq Holding /\ {"start", "leave", "unlock"} \subseteq Holding
  BY DEF Holding, Executing, InTx
<1>1. CASE MainStep \/ \E c \in Chains : SignalStep(c)
  BY <1>1, OutsideSteps, PromiseFrame DEF workerVars
<1>2. ASSUME NEW w \in CronWorkers, ReceiveChain(w) PROVE Abstract
  BY <1>0, <1>2, AdmitOthers, PromiseFrame, WorkersAssumption DEF ReceiveChain, WorkersAssumption
<1>3. ASSUME NEW w \in CronWorkers, MapStep(w) PROVE Abstract
  <2>1. w \in Workers BY WorkersAssumption DEF WorkersAssumption
  <2>2. pc[w] \in Holding /\ cur' = cur /\ \E step \in Holding : Goto(w, step)
    BY <1>3 DEF MapStep, AddActiveChain, DeleteActiveChain, Holding, Executing
  <2> QED BY <2>1, <2>2, GotoOthers, PromiseFrame
<1>4. ASSUME NEW w \in IntervalWorkers, NEW c \in IntervalChains, ReceiveIntervalChain(w, c)
      PROVE  Abstract
  BY <1>0, <1>4, AdmitOthers, PromiseFrame, WorkersAssumption
     DEF ReceiveIntervalChain, WorkersAssumption
<1>5. ASSUME NEW w \in Workers, WorkerStep(w) PROVE Abstract
  <2>1. CASE Lock(w)
    BY <2>1, <1>0, GotoOthers, PromiseFrame DEF Lock, Holding, Executing, InTx
  <2>2. CASE LockReturns(w) BY <2>2, PromiseEnter DEF Promise!Next
  <2>3. CASE UnlockChain(w) BY <2>3, PromiseLeave DEF Promise!Next
  <2>4. CASE InsideStep(w) \/ TableStep(w)
    <3>1. PICK step \in Holding : Goto(w, step)
      BY <2>4, <1>0, InsideSteps, TableSteps
    <3>2. pc[w] \in Holding /\ cur' = cur
      BY <2>4, <1>0, InsideSteps, TableSteps
    <3> QED BY <3>1, <3>2, GotoOthers, PromiseFrame
  <2>5. CASE InsertChainRunStatus(w)
    <3>1. CASE Goto(w, "lock") /\ UNCHANGED cur
      BY <1>0, <2>5, <3>1, GotoOthers, PromiseFrame DEF InsertChainRunStatus
    <3>2. CASE LoopTop(w)
      BY <1>0, <2>5, <3>2, LoopTopOthers, PromiseFrame DEF InsertChainRunStatus
    <3> QED BY <2>5, <3>1, <3>2 DEF InsertChainRunStatus
  <2>6. CASE WorkerExits(w)
    BY <1>0, <2>6, LoopTopOthers, PromiseFrame DEF WorkerExits
  <2>7. CASE ChainTimeout(w) \/ Shutdown(w)
    BY <2>7, PromiseFrame DEF ChainTimeout, Shutdown, workerVars
  <2> QED BY <1>5, <2>1, <2>2, <2>3, <2>4, <2>5, <2>6, <2>7, StepKinds DEF WorkerStep, LockStep
<1>6. CASE UNCHANGED vars
  BY <1>6, PromiseFrame DEF vars, workerVars
<1> QED BY <1>1, <1>2, <1>3, <1>4, <1>5, <1>6 DEF Next

\* The workers, the mutex and executeChain together keep what exclusive_execution promises:
\* each of their steps is a step of ExclusiveExecution or changes nothing it sees.
THEOREM PromiseKept == Spec => ExclusivePromise
<1>1. Init => Promise!Init
  BY DEF Init, Promise!Init, SharedRunners, LoneRunners, Holding, Executing, InTx
<1>2. TypeInv /\ LockInv /\ [Next]_vars => [Promise!Next]_<<SharedRunners, LoneRunners>>
  BY PromiseNext
<1> QED BY <1>1, <1>2, Invariants, PTL DEF Spec, ExclusivePromise, Promise!Spec

-----------------------------------------------------------------------------
(* The map of active chains.                                               *)

\* A step that keeps the map, and takes no cron worker out of an execution with its entry
\* still there, keeps the entries current.
LEMMA EntriesFrame ==
    ASSUME TypeInv, EntriesAreCurrent, UNCHANGED activeChains,
           \A w \in CronWorkers :
              \/ pc'[w] = pc[w] /\ cur'[w] = cur[w]
              \/ pc'[w] \in Executing \cup {"leave"} /\ cur'[w] = cur[w]
              \/ pc[w] \notin Executing \cup {"leave"}
    PROVE  EntriesAreCurrent'
<1> SUFFICES ASSUME NEW c \in Chains, activeChains'[c] # None
             PROVE  LET w == activeChains'[c] IN
                       cur'[w] = c /\ pc'[w] \in Executing \cup {"leave"}
  BY DEF EntriesAreCurrent
<1>1. activeChains'[c] = activeChains[c] /\ activeChains[c] \in CronWorkers
  BY DEF TypeInv, TypeOK
<1>2. cur[activeChains[c]] = c /\ pc[activeChains[c]] \in Executing \cup {"leave"}
  BY <1>1 DEF EntriesAreCurrent
<1> QED BY <1>1, <1>2

LEMMA EntriesAdd ==
    ASSUME TypeInv, EntriesAreCurrent, NEW w \in CronWorkers, AddActiveChain(w)
    PROVE  EntriesAreCurrent'
<1>1. w \in Workers /\ w # None
  BY WorkersAssumption DEF WorkersAssumption
<1>2. pc[w] = "start" /\ pc'[w] = "begin" /\ cur' = cur /\ cur[w] \in Chains
      /\ \A v \in Workers : v # w => pc'[v] = pc[v]
  BY <1>1, GotoOthers DEF AddActiveChain, TypeInv, HasChain
<1>3. activeChains' = [activeChains EXCEPT ![cur[w]] = w]
  BY DEF AddActiveChain
<1>4. "start" \notin Executing \cup {"leave"} /\ "begin" \in Executing
  BY DEF Executing, InTx
<1>5. ASSUME NEW c \in Chains, activeChains'[c] # None
      PROVE  /\ cur'[activeChains'[c]] = c
             /\ pc'[activeChains'[c]] \in Executing \cup {"leave"}
  <2>1. CASE c = cur[w]
    BY <2>1, <1>2, <1>3, <1>4 DEF TypeInv, TypeOK
  <2>2. CASE c # cur[w]
    <3>1. activeChains'[c] = activeChains[c]
      BY <2>2, <1>3 DEF TypeInv, TypeOK
    <3>2. activeChains[c] \in Workers
      BY <1>5, <3>1, WorkersAssumption DEF WorkersAssumption, TypeInv, TypeOK
    <3>3. cur[activeChains[c]] = c /\ pc[activeChains[c]] \in Executing \cup {"leave"}
      BY <1>5, <3>1 DEF EntriesAreCurrent
    <3> QED BY <2>2, <3>1, <3>2, <3>3, <1>2
  <2> QED BY <2>1, <2>2
<1> QED BY <1>5 DEF EntriesAreCurrent

LEMMA EntriesDelete ==
    ASSUME TypeInv, EntriesAreCurrent, NEW w \in CronWorkers, DeleteActiveChain(w)
    PROVE  EntriesAreCurrent'
<1>1. w \in Workers
  BY WorkersAssumption DEF WorkersAssumption
<1>2. cur' = cur /\ \A v \in Workers : v # w => pc'[v] = pc[v]
  BY <1>1, GotoOthers DEF DeleteActiveChain
<1>3. activeChains' = [activeChains EXCEPT ![cur[w]] = None]
  BY DEF DeleteActiveChain
<1>4. ASSUME NEW c \in Chains, activeChains'[c] # None
      PROVE  /\ cur'[activeChains'[c]] = c
             /\ pc'[activeChains'[c]] \in Executing \cup {"leave"}
  <2>1. c # cur[w] /\ activeChains'[c] = activeChains[c]
    BY <1>3, <1>4 DEF TypeInv, TypeOK
  <2>2. activeChains[c] \in Workers
    BY <1>4, <2>1, WorkersAssumption DEF WorkersAssumption, TypeInv, TypeOK
  <2>3. cur[activeChains[c]] = c /\ pc[activeChains[c]] \in Executing \cup {"leave"}
    BY <1>4, <2>1 DEF EntriesAreCurrent
  <2> QED BY <2>1, <2>2, <2>3, <1>2
<1> QED BY <1>4 DEF EntriesAreCurrent

LEMMA NextEntries == TypeInv /\ EntriesAreCurrent /\ [Next]_vars => EntriesAreCurrent'
<1> SUFFICES ASSUME TypeInv, EntriesAreCurrent, [Next]_vars PROVE EntriesAreCurrent'
  OBVIOUS
<1>0. /\ \A step \in {"idle", "exited", "insert", "lock", "wait", "unlock"} :
            step \notin Executing \cup {"leave"}
      /\ CronWorkers \subseteq Workers
  BY WorkersAssumption DEF Executing, InTx, WorkersAssumption
<1>1. CASE MainStep \/ \E c \in Chains : SignalStep(c)
  BY <1>1, OutsideSteps, EntriesFrame DEF workerVars
<1>2. ASSUME NEW w \in CronWorkers, ReceiveChain(w) PROVE EntriesAreCurrent'
  BY <1>0, <1>2, AdmitOthers, EntriesFrame DEF ReceiveChain
<1>3. ASSUME NEW w \in CronWorkers, MapStep(w) PROVE EntriesAreCurrent'
  BY <1>3, EntriesAdd, EntriesDelete DEF MapStep
<1>4. ASSUME NEW w \in IntervalWorkers, NEW c \in IntervalChains, ReceiveIntervalChain(w, c)
      PROVE  EntriesAreCurrent'
  BY <1>0, <1>4, AdmitOthers, EntriesFrame, WorkersAssumption
     DEF ReceiveIntervalChain, WorkersAssumption
<1>5. ASSUME NEW w \in Workers, WorkerStep(w) PROVE EntriesAreCurrent'
  <2>1. CASE Lock(w) BY <2>1, <1>0, GotoOthers, EntriesFrame DEF Lock
  <2>2. CASE LockReturns(w)
    BY <2>2, <1>0, GotoOthers, EntriesFrame DEF LockReturns, Locked
  <2>3. CASE UnlockChain(w)
    BY <2>3, <1>0, LoopTopOthers, EntriesFrame DEF UnlockChain
  <2>4. CASE InsideStep(w) \/ TableStep(w)
    <3>1. PICK step \in Executing \cup {"leave", "unlock"} :
             Goto(w, step) /\ (step = "unlock" => w \notin CronWorkers)
      BY <2>4, InsideSteps, TableSteps
    <3>2. UNCHANGED cur /\ UNCHANGED activeChains
      BY <2>4, InsideSteps, TableSteps
    <3> QED BY <3>1, <3>2, <1>0, GotoOthers, EntriesFrame
  <2>5. CASE InsertChainRunStatus(w)
    <3>1. CASE Goto(w, "lock") /\ UNCHANGED cur
      BY <2>5, <3>1, <1>0, GotoOthers, EntriesFrame DEF InsertChainRunStatus
    <3>2. CASE LoopTop(w)
      BY <2>5, <3>2, <1>0, LoopTopOthers, EntriesFrame DEF InsertChainRunStatus
    <3> QED BY <2>5, <3>1, <3>2 DEF InsertChainRunStatus
  <2>6. CASE WorkerExits(w)
    BY <2>6, <1>0, LoopTopOthers, EntriesFrame DEF WorkerExits
  <2>7. CASE ChainTimeout(w) \/ Shutdown(w)
    BY <2>7, EntriesFrame DEF ChainTimeout, Shutdown, workerVars
  <2> QED BY <1>5, <2>1, <2>2, <2>3, <2>4, <2>5, <2>6, <2>7, StepKinds DEF WorkerStep, LockStep
<1>6. CASE UNCHANGED vars
  BY <1>6, EntriesFrame DEF vars, workerVars
<1> QED BY <1>1, <1>2, <1>3, <1>4, <1>5, <1>6 DEF Next

\* STOP and terminateChains only ever cancel a worker that executes the chain they look up.
THEOREM EntriesCurrent == Spec => []EntriesAreCurrent
<1>1. Init => TypeInv /\ EntriesAreCurrent
  BY InitType DEF Init, EntriesAreCurrent
<1>2. TypeInv /\ EntriesAreCurrent /\ [Next]_vars => (TypeInv /\ EntriesAreCurrent)'
  BY NextType, NextEntries
<1> QED BY <1>1, <1>2, PTL DEF Spec

-----------------------------------------------------------------------------
(* The bound on active_chain.  An INSERT that has counted but not committed *)
(* is a row to come: the invariant bounds rows and rows to come together.   *)

BoundInv ==
    \A c \in Chains : MaxInstances[c] > 0 =>
        activeChain[c] + Cardinality(Inserting(c)) < MaxInstances[c] + Cardinality(Workers)

LEMMA InsertingFinite ==
    ASSUME NEW c \in Chains
    PROVE  /\ IsFiniteSet(Workers) /\ Cardinality(Workers) \in Nat
           /\ IsFiniteSet(Inserting(c)) /\ Cardinality(Inserting(c)) \in Nat
           /\ Cardinality(Inserting(c)) <= Cardinality(Workers)
<1>1. IsFiniteSet(Workers)
  BY WorkersAssumption DEF WorkersAssumption
<1>2. Inserting(c) \subseteq Workers
  BY DEF Inserting
<1> QED BY <1>1, <1>2, FS_Subset, FS_CardinalityType

\* A step that admits nobody and adds no row keeps the bound.
LEMMA BoundFrame ==
    ASSUME TypeInv, TypeInv', BoundInv,
           \A c \in Chains : activeChain'[c] <= activeChain[c],
           \A w \in Workers : pc'[w] = "insert" => pc[w] = "insert" /\ cur'[w] = cur[w]
    PROVE  BoundInv'
<1>1. ASSUME NEW c \in Chains, MaxInstances[c] > 0
      PROVE  activeChain'[c] + Cardinality(Inserting(c)')
                < MaxInstances[c] + Cardinality(Workers)
  <2>1. Inserting(c)' \subseteq Inserting(c)
    BY DEF Inserting
  <2>2. /\ Cardinality(Inserting(c)') <= Cardinality(Inserting(c))
        /\ Cardinality(Inserting(c)') \in Nat
    BY <2>1, InsertingFinite, FS_Subset, FS_CardinalityType
  <2>3. activeChain'[c] \in Nat /\ activeChain[c] \in Nat /\ MaxInstances[c] \in Nat
    BY ChainsAssumption DEF TypeInv, TypeOK, ChainsAssumption
  <2> QED BY <1>1, <2>2, <2>3, InsertingFinite DEF BoundInv
<1> QED BY <1>1 DEF BoundInv

\* The count of a new INSERT was below max_instances.
LEMMA BoundAdmit ==
    ASSUME TypeInv, TypeInv', BoundInv, NEW w \in Workers, NEW d \in Chains, Admit(w, d),
           UNCHANGED activeChain
    PROVE  BoundInv'
<1>1. CASE pc'[w] # "insert"
  BY <1>1, AdmitOthers, BoundFrame DEF TypeInv, TypeOK
<1>2. CASE pc'[w] = "insert"
  <2>1. cur'[w] = d /\ activeChain[d] < MaxInstances[d]
    BY <1>2 DEF Admit, LoopTop, Goto, TypeInv, TypeOK
  <2>2. ASSUME NEW c \in Chains, MaxInstances[c] > 0
        PROVE  activeChain'[c] + Cardinality(Inserting(c)')
                  < MaxInstances[c] + Cardinality(Workers)
    <3>1. activeChain[c] \in Nat /\ MaxInstances[c] \in Nat /\ activeChain' = activeChain
      BY ChainsAssumption DEF TypeInv, TypeOK, ChainsAssumption
    <3>2. CASE c = d
      <4>1. Inserting(c)' \subseteq Workers
        BY DEF Inserting
      <4>2. Cardinality(Inserting(c)') <= Cardinality(Workers)
            /\ Cardinality(Inserting(c)') \in Nat
        BY <4>1, InsertingFinite, FS_Subset, FS_CardinalityType
      <4> QED BY <2>1, <3>1, <3>2, <4>2, InsertingFinite
    <3>3. CASE c # d
      <4>1. Inserting(c)' \subseteq Inserting(c)
        BY <2>1, <3>3, AdmitOthers DEF Inserting
      <4>2. Cardinality(Inserting(c)') <= Cardinality(Inserting(c))
            /\ Cardinality(Inserting(c)') \in Nat
        BY <4>1, InsertingFinite, FS_Subset, FS_CardinalityType
      <4> QED BY <2>2, <3>1, <4>2, InsertingFinite DEF BoundInv
    <3> QED BY <3>2, <3>3
  <2> QED BY <2>2 DEF BoundInv
<1> QED BY <1>1, <1>2

\* A committed INSERT turns a row to come into a row.
LEMMA BoundInsert ==
    ASSUME TypeInv, TypeInv', BoundInv, NEW w \in Workers, InsertChainRunStatus(w)
    PROVE  BoundInv'
<1>1. /\ pc[w] = "insert" /\ pc'[w] # "insert" /\ cur[w] \in Chains
      /\ \A v \in Workers : v # w => pc'[v] = pc[v] /\ cur'[v] = cur[v]
  BY GotoOthers, LoopTopOthers DEF InsertChainRunStatus, TypeInv, HasChain
<1>2. activeChain' \in {activeChain, [activeChain EXCEPT ![cur[w]] = @ + 1]}
  BY DEF InsertChainRunStatus
<1>3. ASSUME NEW c \in Chains, MaxInstances[c] > 0
      PROVE  activeChain'[c] + Cardinality(Inserting(c)')
                < MaxInstances[c] + Cardinality(Workers)
  <2>1. activeChain[c] \in Nat /\ MaxInstances[c] \in Nat
    BY ChainsAssumption DEF TypeInv, TypeOK, ChainsAssumption
  <2>2. CASE c # cur[w]
    <3>1. Inserting(c)' = Inserting(c)
      BY <1>1, <2>2 DEF Inserting
    <3>2. activeChain'[c] = activeChain[c]
      BY <1>1, <1>2, <2>2 DEF TypeInv, TypeOK
    <3> QED BY <1>3, <3>1, <3>2 DEF BoundInv
  <2>3. CASE c = cur[w]
    <3>1. w \in Inserting(c) /\ Inserting(c)' = Inserting(c) \ {w}
      BY <1>1, <2>3 DEF Inserting
    <3>2. Cardinality(Inserting(c)') = Cardinality(Inserting(c)) - 1
      BY <3>1, InsertingFinite, FS_RemoveElement
    <3>3. activeChain'[c] \in {activeChain[c], activeChain[c] + 1}
      BY <1>2, <2>3 DEF TypeInv, TypeOK
    <3> QED BY <1>3, <2>1, <3>2, <3>3, InsertingFinite DEF BoundInv
  <2> QED BY <2>2, <2>3
<1> QED BY <1>3 DEF BoundInv

LEMMA NextBound == TypeInv /\ BoundInv /\ [Next]_vars => BoundInv'
<1> SUFFICES ASSUME TypeInv, BoundInv, [Next]_vars PROVE BoundInv'
  OBVIOUS
<1>0. /\ TypeInv' /\ activeChain \in [Chains -> Nat] /\ CronWorkers \subseteq Workers
      /\ \A step \in Executing \cup {"leave", "unlock"} : step # "insert"
  BY NextType, WorkersAssumption DEF TypeInv, TypeOK, WorkersAssumption, Executing, InTx
<1>a. ASSUME UNCHANGED activeChain, UNCHANGED workerVars PROVE BoundInv'
  BY <1>0, <1>a, BoundFrame DEF workerVars
<1>1. CASE MainStep
  BY <1>1, <1>a, OutsideSteps
     DEF MainStep, Tick, RetrieveChains, CancelContext, RunSeesContextDone, TerminateChains,
         ChainsTerminated, MapRaceAborts, tableVars
<1>2. CASE \E c \in Chains : SignalStep(c)
  BY <1>2, <1>a, OutsideSteps
     DEF SignalStep, SendRetrieved, StartChain, DelayElapsed, StopChain, tableVars
<1>3. ASSUME NEW w \in CronWorkers, ReceiveChain(w) PROVE BoundInv'
  <2>1. Head(chainsChan) \in Chains
    <3>1. chainsChan \in Seq(Chains) /\ chainsChan # <<>>
      BY <1>3 DEF ReceiveChain, TypeInv, TypeOK
    <3> QED BY <3>1
  <2> QED BY <1>0, <1>3, <2>1, BoundAdmit DEF ReceiveChain, tableVars
<1>4. ASSUME NEW w \in CronWorkers, MapStep(w) PROVE BoundInv'
  <2>1. PICK step \in Executing \cup {"unlock"} : Goto(w, step)
    BY <1>4 DEF MapStep, AddActiveChain, DeleteActiveChain, Executing
  <2>2. UNCHANGED activeChain
    BY <1>4 DEF MapStep, AddActiveChain, DeleteActiveChain, tableVars
  <2>3. UNCHANGED cur
    BY <1>4 DEF MapStep, AddActiveChain, DeleteActiveChain
  <2> QED BY <1>0, <2>1, <2>2, <2>3, GotoOthers, BoundFrame
<1>5. ASSUME NEW w \in IntervalWorkers, NEW c \in IntervalChains, ReceiveIntervalChain(w, c)
      PROVE  BoundInv'
  BY <1>0, <1>5, BoundAdmit, WorkersAssumption, ChainsAssumption
     DEF ReceiveIntervalChain, tableVars, WorkersAssumption, ChainsAssumption
<1>6. ASSUME NEW w \in Workers, WorkerStep(w) PROVE BoundInv'
  <2>1. CASE Lock(w) \/ LockReturns(w)
    <3>1. PICK step \in {"wait", "start", "begin"} : Goto(w, step)
      BY <2>1 DEF Lock, LockReturns, Locked
    <3>2. UNCHANGED activeChain /\ UNCHANGED cur
      BY <2>1 DEF Lock, LockReturns, tableVars
    <3> QED BY <1>0, <3>1, <3>2, GotoOthers, BoundFrame
  <2>2. CASE UnlockChain(w) \/ WorkerExits(w)
    <3>1. LoopTop(w) /\ UNCHANGED activeChain
      BY <2>2 DEF UnlockChain, WorkerExits, tableVars
    <3> QED BY <1>0, <3>1, LoopTopOthers, BoundFrame
  <2>3. CASE InsideStep(w) \/ TableStep(w)
    <3>1. PICK step \in Executing \cup {"leave", "unlock"} : Goto(w, step)
      BY <2>3, InsideSteps, TableSteps
    <3>2. UNCHANGED cur
      BY <2>3, InsideSteps, TableSteps
    <3>3. \A c \in Chains : activeChain'[c] <= activeChain[c]
      <4>1. CASE InsideStep(w) BY <1>0, <4>1, InsideSteps DEF tableVars
      <4>2. CASE RemoveChainRunStatus(w) BY <1>0, <4>2 DEF RemoveChainRunStatus
      <4>3. CASE DeleteChain(w) BY <1>0, <4>3 DEF DeleteChain
      <4> QED BY <2>3, <4>1, <4>2, <4>3 DEF TableStep
    <3> QED BY <1>0, <3>1, <3>2, <3>3, GotoOthers, BoundFrame
  <2>4. CASE InsertChainRunStatus(w) BY <1>0, <2>4, BoundInsert
  <2>5. CASE ChainTimeout(w) \/ Shutdown(w)
    BY <2>5, <1>a DEF ChainTimeout, Shutdown, tableVars
  <2> QED BY <1>6, <2>1, <2>2, <2>3, <2>4, <2>5, StepKinds DEF WorkerStep, LockStep
<1>7. CASE UNCHANGED vars
  BY <1>7, <1>a DEF vars, tableVars
<1> QED BY <1>1, <1>2, <1>3, <1>4, <1>5, <1>6, <1>7 DEF Next

\* Races, leaks and deleted sibling rows never let active_chain exceed max_instances by
\* as many rows as there are workers.
THEOREM StatusBounded == Spec => []RunStatusBounded
<1>1. Init => TypeInv /\ BoundInv
  <2> SUFFICES ASSUME Init PROVE TypeInv /\ BoundInv
    OBVIOUS
  <2>1. TypeInv BY InitType
  <2>2. ASSUME NEW c \in Chains, MaxInstances[c] > 0
        PROVE  activeChain[c] + Cardinality(Inserting(c)) < MaxInstances[c] + Cardinality(Workers)
    <3>1. activeChain[c] = 0 BY DEF Init
    <3>2. Inserting(c) = {} BY DEF Init, Inserting
    <3>3. Cardinality(Inserting(c)) = 0 BY <3>2, FS_EmptySet
    <3> QED BY <2>2, <3>1, <3>3, InsertingFinite, ChainsAssumption DEF ChainsAssumption
  <2> QED BY <2>1, <2>2 DEF BoundInv
<1>2. TypeInv /\ BoundInv /\ [Next]_vars => (TypeInv /\ BoundInv)'
  BY NextType, NextBound
<1>3. TypeInv /\ BoundInv => RunStatusBounded
  <2> SUFFICES ASSUME TypeInv, BoundInv, NEW c \in Chains, MaxInstances[c] > 0
               PROVE  activeChain[c] < MaxInstances[c] + Cardinality(Workers)
    BY DEF RunStatusBounded
  <2>1. activeChain[c] \in Nat /\ MaxInstances[c] \in Nat
    BY ChainsAssumption DEF TypeInv, TypeOK, ChainsAssumption
  <2> QED BY <2>1, InsertingFinite DEF BoundInv
<1> QED BY <1>1, <1>2, <1>3, PTL DEF Spec

=============================================================================
