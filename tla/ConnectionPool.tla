--------------------------- MODULE ConnectionPool ---------------------------
(***************************************************************************)
(* Who holds connections of the client's pool, and who waits for one.  A    *)
(* worker keeps a connection for the transaction of its chain and takes a   *)
(* second one for every statement outside it: the tasks and parameters of   *)
(* the chain, execution_log, active_chain, COPY.  Finalize waits for all of *)
(* them.  What the statements do is in Scheduler and ChainExecution.        *)
(***************************************************************************)
EXTENDS Naturals, FiniteSets

CONSTANTS
    Workers,   \* cron and interval workers
    Clerks,    \* retrievals, signal lookups and the log hook: one statement at a time
    Main,      \* the goroutine of run, for Finalize
    MaxLeaks   \* bound on the transactions lost in StartTransaction

ASSUME PoolAssumption ==
    /\ IsFiniteSet(Workers) /\ IsFiniteSet(Clerks)
    /\ Workers \cap Clerks = {} /\ Main \notin Workers \cup Clerks
    /\ MaxLeaks \in Nat

Procs == Workers \cup Clerks \cup {Main}

VARIABLES
    pc,      \* step of each goroutine
    tx,      \* workers with an open transaction, each on a connection of its own
    query,   \* goroutines that hold a connection for one statement or one COPY
    leaked   \* connections that nobody will ever release

poolVars == <<pc, tx, query, leaked>>

\* Mutant: one connection for each worker.
NoSpareConns ==
    Cardinality(Workers)

\* One per worker, two retrievals and the log hook.
MaxConns ==
    Cardinality(Workers) + 3

InUse == Cardinality(tx) + Cardinality(query) + leaked

-----------------------------------------------------------------------------
(* The steps of a worker.  TaskOver is where a task leaves the loop over    *)
(* the tasks, or goes on with the next one.                                 *)
TaskOver == {"params", "commit", "failed"}

\* COPY to and from a file or a program keeps one connection all the time.
AfterCopy == {"copy"} \X {"copylog"}

\* A built-in task that copies: a COPY and its execution_log row per parameter set.
AfterCopyLogged == {"copylog"} \X ({"copy"} \cup TaskOver)

\* Statements on a connection from the pool, and where each may lead.
AfterStatement ==
    UNION {{"insert"}     \X {"begin", "idle"},
           {"elements"}   \X {"params", "commit", "abandon"},
           {"params"}     \X ({"run", "copy", "autonomous"} \cup TaskOver),
           {"log"}        \X ({"run"} \cup TaskOver),
           AfterCopy, AfterCopyLogged,
           {"autonomous"} \X ({"standalone"} \cup TaskOver),
           {"alonelog"}   \X ({"standalone"} \cup TaskOver),
           {"failed"}     \X {"rollback"},
           {"completed"}  \X {"destruct", "idle"},
           {"destruct"}   \X {"idle"},
           {"ask"}        \X {"idle"},
           {"finalize"}   \X {"closing"}}

\* Those whose context may end, and where their error leads.
OnError ==
    UNION {{"insert", "ask"} \X {"idle"},
           {"elements"} \X {"abandon"},
           {"params", "autonomous"} \X TaskOver,
           {"copy"} \X {"copylog"}}

Statements == {"insert", "elements", "params", "log", "copy", "copylog", "autonomous",
               "alonelog", "failed", "completed", "destruct", "ask", "finalize"}

\* In the code's order: the steps that hold the transaction of the chain, or of on_error.
InTx == {"vxid", "elements", "params", "run", "log", "copy", "copylog", "autonomous",
         "standalone", "alonelog", "commit", "failed", "rollback", "abandon",
         "onvxid", "handle"}
Begins     == {"begin", "onerror"}
WorkerStep == InTx \cup Begins \cup {"idle", "insert", "completed", "destruct"}
MainSteps  == {"main", "finalize", "closing", "closed", "exited", "panicked"}

PoolTypeOK ==
    /\ \A w \in Workers : pc[w] \in WorkerStep
    /\ \A c \in Clerks : pc[c] \in {"idle", "ask"}
    /\ pc[Main] \in MainSteps
    /\ tx \subseteq Workers
    /\ query \subseteq Procs
    /\ leaked \in Nat
    /\ InUse <= MaxConns

PoolInit ==
    /\ pc = [p \in Procs |-> IF p = Main THEN "main" ELSE "idle"]
    /\ tx = {}
    /\ query = {}
    /\ leaked = 0

Goto(p, step) == pc' = [pc EXCEPT ![p] = step]

\* pgxpool.Close was called: it refuses new requests and waits for the old ones.
Closed == pc[Main] \in {"closing", "closed"}

-----------------------------------------------------------------------------
(* The pool.                                                                *)
Waits(p) == pc[p] \in Statements \cup Begins /\ p \notin query

Acquire(p) ==
    /\ pc[p] \in Statements /\ p \notin query
    /\ ~Closed
    /\ InUse < MaxConns
    /\ query' = query \cup {p}
    /\ UNCHANGED <<pc, tx, leaked>>

\* The statement is over; AfterRelease resets the connection, or the pool opens another.
Answered(p, step) ==
    /\ p \in query
    /\ <<pc[p], step>> \in AfterStatement
    /\ query' = query \ {p}
    /\ Goto(p, step)
    /\ UNCHANGED <<tx, leaked>>

\* A request ends without a connection: its context is done, or the pool is closed.
Refused(p, step) ==
    /\ pc[p] \in Statements /\ p \notin query
    /\ \/ <<pc[p], step>> \in OnError
       \/ /\ Closed
          /\ \A e \in OnError : e[1] # pc[p]
          /\ <<pc[p], step>> \in AfterStatement
    /\ Goto(p, step)
    /\ UNCHANGED <<tx, query, leaked>>

-----------------------------------------------------------------------------
(* Transactions.                                                            *)
Begin(w) ==
    /\ pc[w] \in Begins
    /\ ~Closed
    /\ InUse < MaxConns
    /\ tx' = tx \cup {w}
    /\ Goto(w, IF pc[w] = "begin" THEN "vxid" ELSE "onvxid")
    /\ UNCHANGED <<query, leaked>>

\* Begin fails: the chain, or its handler, is over.
BeginFails(w) ==
    /\ \/ pc[w] = "begin"
       \/ pc[w] = "onerror" /\ Closed
    /\ Goto(w, "idle")
    /\ UNCHANGED <<tx, query, leaked>>

VirtualXid(w) ==
    /\ pc[w] \in {"vxid", "onvxid"}
    /\ Goto(w, IF pc[w] = "vxid" THEN "elements" ELSE "handle")
    /\ UNCHANGED <<tx, query, leaked>>

\* The query for the virtual xid fails, by itself or because the chain was stopped: the
\* callers return without the transaction they were given.
VirtualXidFails(w) ==
    /\ pc[w] \in {"vxid", "onvxid"}
    /\ leaked < MaxLeaks
    /\ tx' = tx \ {w}
    /\ leaked' = leaked + 1
    /\ Goto(w, "idle")
    /\ UNCHANGED query

CommitTransaction(w) ==
    /\ pc[w] \in {"commit", "handle"}
    /\ tx' = tx \ {w}
    /\ Goto(w, IF pc[w] = "commit" THEN "completed" ELSE "idle")
    /\ UNCHANGED <<query, leaked>>

\* Mutant: the chain whose tasks could not be read keeps its transaction.
RollbackFailedOnly(w) ==
    /\ pc[w] \in {"rollback", "abandon"}
    /\ tx' = IF pc[w] = "rollback" THEN tx \ {w} ELSE tx
    /\ \E step \in {"onerror", "idle"} :
          /\ step = "onerror" => pc[w] = "rollback"
          /\ Goto(w, step)
    /\ UNCHANGED <<query, leaked>>

RollbackTransaction(w) ==
    /\ pc[w] \in {"rollback", "abandon"}
    /\ tx' = tx \ {w}
    /\ \E step \in {"onerror", "idle"} :
          /\ step = "onerror" => pc[w] = "rollback"
          /\ Goto(w, step)
    /\ UNCHANGED <<query, leaked>>

-----------------------------------------------------------------------------
(* Work.                                                                    *)
Receive(w) ==
    /\ pc[w] = "idle"
    /\ Goto(w, "insert")
    /\ UNCHANGED <<tx, query, leaked>>

Ask(c) ==
    /\ pc[c] = "idle"
    /\ Goto(c, "ask")
    /\ UNCHANGED <<tx, query, leaked>>

\* A task on the chain's transaction, a program or a remote task: no connection of the pool
\* but for its execution_log row, if one is written.
TaskRuns(w) ==
    /\ pc[w] = "run"
    /\ \E step \in {"log"} \cup TaskOver : Goto(w, step)
    /\ UNCHANGED <<tx, query, leaked>>

\* An autonomous task: Hijack has taken its connection out of the pool.
StandaloneRuns(w) ==
    /\ pc[w] = "standalone"
    /\ \E step \in {"alonelog"} \cup TaskOver : Goto(w, step)
    /\ UNCHANGED <<tx, query, leaked>>

-----------------------------------------------------------------------------
(* The end of the process.                                                  *)
RunReturns ==
    /\ pc[Main] = "main"
    /\ Goto(Main, "finalize")
    /\ UNCHANGED <<tx, query, leaked>>

\* Mutant: ConfigDb is cleared without waiting for the transactions.
CloseForgetsTx ==
    /\ pc[Main] = "closing"
    /\ query = {}
    /\ Goto(Main, "closed")
    /\ UNCHANGED <<tx, query, leaked>>

\* Close has waited for every connection of the pool; ConfigDb becomes nil.
CloseReturns ==
    /\ pc[Main] = "closing"
    /\ InUse = 0
    /\ Goto(Main, "closed")
    /\ UNCHANGED <<tx, query, leaked>>

\* A goroutine that still wants a connection finds ConfigDb nil and ends the process.
NilPool ==
    /\ pc[Main] = "closed"
    /\ \E p \in Procs : Waits(p)
    /\ Goto(Main, "panicked")
    /\ UNCHANGED <<tx, query, leaked>>

Exit ==
    /\ pc[Main] = "closed"
    /\ Goto(Main, "exited")
    /\ UNCHANGED <<tx, query, leaked>>

-----------------------------------------------------------------------------
Steps == WorkerStep \cup MainSteps \cup {"ask"}

PoolStep(p) ==
    \/ Acquire(p)
    \/ \E step \in Steps : Answered(p, step) \/ Refused(p, step)

TxStep(w) ==
    \/ Begin(w) \/ BeginFails(w) \/ VirtualXid(w) \/ VirtualXidFails(w)
    \/ CommitTransaction(w) \/ RollbackTransaction(w)

WorkStep(w) == Receive(w) \/ TaskRuns(w) \/ StandaloneRuns(w)

MainStep == RunReturns \/ CloseReturns \/ NilPool \/ Exit

Over == pc[Main] \in {"exited", "panicked"}

PoolNext ==
    \/ /\ ~Over
       /\ \/ \E p \in Procs : PoolStep(p)
          \/ \E w \in Workers : TxStep(w) \/ WorkStep(w)
          \/ \E c \in Clerks : Ask(c)
          \/ MainStep
    \/ Over /\ UNCHANGED poolVars

PoolSpec == PoolInit /\ [][PoolNext]_poolVars

\* Where a chain leaves the loop over its tasks, of which it has finitely many.
ChainEnds(w) ==
    /\ \/ \E step \in Steps : Answered(w, step) \/ Refused(w, step)
       \/ TaskRuns(w) \/ StandaloneRuns(w)
    /\ pc'[w] \in {"commit", "failed", "abandon"}

\* What a goroutine does without waiting for the pool.
GoesOn(p) ==
    \/ \E step \in Steps : Answered(p, step) \/ (Closed /\ Refused(p, step))
    \/ /\ p \in Workers
       /\ \/ VirtualXid(p) \/ CommitTransaction(p) \/ RollbackTransaction(p)
          \/ TaskRuns(p) \/ StandaloneRuns(p)
          \/ Closed /\ BeginFails(p)

\* Statements are answered and tasks end; the pool serves its waiters in the order they came.
Live ==
    /\ \A p \in Procs : WF_poolVars(~Over /\ GoesOn(p))
    /\ \A p \in Workers \cup {Main} : SF_poolVars(~Over /\ (Acquire(p) \/ Begin(p)))
    /\ \A w \in Workers : SF_poolVars(~Over /\ ChainEnds(w))
    /\ WF_poolVars(~Over /\ (CloseReturns \/ NilPool \/ Exit))

PoolLiveSpec == PoolSpec /\ Live

-----------------------------------------------------------------------------
(* Properties.                                                              *)

\* Workers with a transaction that wait for a second connection never have the pool to
\* themselves: somebody who waits for nobody holds a connection, as long as StartTransaction
\* has lost fewer than the three that MaxConns counts beyond the workers.
NobodyWaitsInCircle ==
    leaked < 3 /\ InUse = MaxConns => query # {}

\* Every path out of executeChain and executeOnErrorHandler gives the connection of its
\* transaction back, but for the failed query of StartTransaction.
IdleHoldsNothing ==
    \A w \in Workers : w \in tx <=> pc[w] \in InTx

\* Finalize takes the pool from nobody: no transaction is open and no statement runs when
\* ConfigDb is cleared, nor when somebody then finds it nil.
FinalizeCutsNobody ==
    pc[Main] \in {"closed", "exited", "panicked"} => tx = {} /\ query = {} /\ leaked = 0

\* While fewer than three connections are lost, no chain waits for the pool forever: each
\* gives its transaction back.
TransactionsEnd ==
    [](leaked < 3) => \A w \in Workers : w \in tx ~> w \notin tx \/ Over

\* Once run has returned the process ends, if no connection was ever lost: Close waits for
\* all of them.
FinalizeEnds ==
    [](leaked = 0) => (pc[Main] = "finalize" ~> Over)
=============================================================================
