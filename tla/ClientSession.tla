--------------------------- MODULE ClientSession ---------------------------
(***************************************************************************)
(* Who works under a client name.  Every new connection of a client runs   *)
(* try_lock_client_name, whose statements see what other transactions have *)
(* committed in the meantime; a client that ends deletes its rows, one     *)
(* that is killed leaves them, and its backends, behind.  A client that    *)
(* starts again is another member of Clients with the same name, and a     *)
(* server process may get the number of one that is gone.                  *)
(***************************************************************************)
EXTENDS Naturals, FiniteSets

CONSTANTS
    Clients,      \* runs of pg_timetable, each with a session ID of its own
    Names,
    ClientName,   \* name of each client
    MaxConns,     \* capacity of a client's pool
    MaxPid,       \* bound on the server processes at one time
    MaxFaults,    \* bound on failed transactions and restarts of the server
    None

Pids == 1..MaxPid

ASSUME ClientSessionAssumption ==
    /\ ClientName \in [Clients -> Names] /\ None \notin Clients
    /\ IsFiniteSet(Clients)
    /\ MaxConns \in Nat \ {0} /\ MaxPid \in Nat /\ MaxFaults \in Nat

VARIABLES
    client,          \* where a client is between New and Finalize
    schema,          \* schema timetable exists
    active_session,  \* rows <<server_pid, client>>
    active_chain,    \* clients with a row; one chain each is enough here
    backend,         \* the client a server process serves, or None
    at,              \* where it is in AfterConnect or in the pool
    purged,          \* rows of active_session its transaction has deleted
    orphaned,        \* rows of active_chain its transaction has deleted
    faults,
    unguarded        \* history: names whose exclusiveness the code leaves to luck

backendVars == <<backend, at, purged, orphaned>>
tables == <<active_session, active_chain>>
vars == <<client, schema, tables, backendVars, faults, unguarded>>

Gone(p) == client[p] \in {"finalized", "killed"}

InLock == {"sessions", "chains", "check", "insert", "refuse"}
Pooled == {"unlocked", "locked"}

\* Connections of a client that are open or being opened, and how many it may have: New
\* tries one connection at a time, a running client's pool has up to MaxConns.
Open(p) == {b \in Pids : backend[b] = p /\ at[b] # "closing"}
Capacity(p) == CASE client[p] = "connecting" -> 1
                 [] client[p] \in {"running", "finalizing"} -> MaxConns
                 [] OTHER -> 0

TypeOK ==
    /\ client \in [Clients -> {"new", "connecting", "running", "finalizing", "finalized", "killed"}]
    /\ schema \in BOOLEAN
    /\ active_session \subseteq Pids \X Clients
    /\ active_chain \subseteq Clients
    /\ backend \in [Pids -> Clients \cup {None}]
    /\ at \in [Pids -> {"none", "regproc", "closing"} \cup InLock \cup Pooled]
    /\ purged \in [Pids -> SUBSET (Pids \X Clients)]
    /\ orphaned \in [Pids -> SUBSET active_chain]
    /\ faults \in 0..MaxFaults /\ unguarded \subseteq Names
    /\ \A p \in Clients : ~Gone(p) => Cardinality(Open(p)) <= Capacity(p)

Init ==
    /\ client = [p \in Clients |-> "new"]
    /\ schema \in BOOLEAN
    /\ active_session = {} /\ active_chain = {}
    /\ backend = [b \in Pids |-> None]
    /\ at = [b \in Pids |-> "none"]
    /\ purged = [b \in Pids |-> {}]
    /\ orphaned = [b \in Pids |-> {}]
    /\ faults = 0
    /\ unguarded = {}

-----------------------------------------------------------------------------
(* AfterConnect                                                            *)

\* The pool opens a connection; the server process has any number that is free.
Connect(p) ==
    /\ Cardinality(Open(p)) < Capacity(p)
    /\ \E b \in Pids :
        /\ backend[b] = None
        /\ backend' = [backend EXCEPT ![b] = p]
        /\ at' = [at EXCEPT ![b] = "regproc"]
    /\ UNCHANGED <<client, schema, tables, purged, orphaned, faults, unguarded>>

\* to_regproc: without the schema there is no lock to take.
CheckSchema(b) ==
    /\ at[b] = "regproc"
    /\ at' = [at EXCEPT ![b] = IF schema THEN "sessions" ELSE "unlocked"]
    /\ unguarded' = IF schema THEN unguarded ELSE unguarded \cup {ClientName[backend[b]]}
    /\ UNCHANGED <<client, schema, tables, backend, purged, orphaned, faults>>

\* Rows that other transactions have deleted, which the transaction of b sees until they commit,
\* and the clients it sees a session of.
Deleting(b) == UNION {purged[c] : c \in Pids \ {b}}
Visible(b) == active_session \cup Deleting(b)
ClientsOf(rows) == {r[2] : r \in rows}
Sessions(b) == ClientsOf(Visible(b))

\* A transaction waits for the one that has deleted the same row.
Undisputed(sessions, chains, b) ==
    \A c \in Pids \ {b} : purged[c] \cap sessions = {} /\ orphaned[c] \cap chains = {}

Purge(b, rows) ==
    /\ at[b] = "sessions"
    /\ Undisputed(rows, {}, b)
    /\ purged' = [purged EXCEPT ![b] = rows]
    /\ active_session' = active_session \ rows
    /\ at' = [at EXCEPT ![b] = "chains"]
    /\ unguarded' = unguarded \cup {ClientName[p] : p \in ClientsOf(Deleting(b))} \cup
         {ClientName[backend[c]] : c \in {c \in Pids :
             /\ at[c] \in InLock \ {"sessions"} /\ backend[c] # backend[b]
             /\ ClientName[backend[c]] = ClientName[backend[b]]}}
    /\ UNCHANGED <<client, schema, active_chain, backend, orphaned, faults>>

\* Mutants: every session goes; no session goes.
RemoveAllOthers(b) == Purge(b, Visible(b))
RemoveNobody(b) == Purge(b, {})

\* First DELETE: sessions whose server process is gone.  A row stays if its number is that of
\* another process of pg_timetable by now, whoever it serves.
RemoveDisconnected(b) == Purge(b, {r \in Visible(b) : backend[r[1]] = None})

Orphans(b, sessions) ==
    /\ at[b] = "chains"
    /\ LET chains == {p \in active_chain : \A q \in sessions : ClientName[q] # ClientName[p]}
       IN /\ Undisputed({}, chains, b)
          /\ orphaned' = [orphaned EXCEPT ![b] = chains]
    /\ at' = [at EXCEPT ![b] = "check"]
    /\ UNCHANGED <<client, schema, tables, backend, purged, faults, unguarded>>

\* Mutant: the DELETEs swapped, so that this one still sees the disconnected sessions.
RemoveOrphansFirst(b) == Orphans(b, Sessions(b) \cup ClientsOf(purged[b]))

\* Second DELETE: chains of names that have no session left.
RemoveOrphans(b) == Orphans(b, Sessions(b))

\* Mutant: looks for sessions of this client instead of the others'.
CheckOwnSessions(b) ==
    /\ at[b] = "check"
    /\ at' = [at EXCEPT ![b] =
         IF backend[b] \in Sessions(b)
           THEN "refuse" ELSE "insert"]
    /\ UNCHANGED <<client, schema, tables, backend, purged, orphaned, faults, unguarded>>

\* PERFORM 1: another client with this name.
CheckName(b) ==
    /\ at[b] = "check"
    /\ at' = [at EXCEPT ![b] =
         IF \E q \in Sessions(b) \ {backend[b]} : ClientName[q] = ClientName[backend[b]]
           THEN "refuse" ELSE "insert"]
    /\ UNCHANGED <<client, schema, tables, backend, purged, orphaned, faults, unguarded>>

\* The function returns and its transaction commits, the DELETEs also when the lock is
\* refused.  AfterConnect closes the connection if it is, or if nobody waits for it any more.
Commit(b) ==
    /\ at[b] \in {"insert", "refuse"}
    /\ active_session' = active_session \cup
         IF at[b] = "insert" THEN {<<b, backend[b]>>} ELSE {}
    /\ active_chain' = active_chain \ orphaned[b]
    /\ at' = [at EXCEPT ![b] =
         IF at[b] = "insert" /\ ~Gone(backend[b]) THEN "locked" ELSE "closing"]
    /\ purged' = [purged EXCEPT ![b] = {}]
    /\ orphaned' = [orphaned EXCEPT ![b] = {}]
    /\ UNCHANGED <<client, schema, backend, faults, unguarded>>

\* The transaction fails.
Abort(b) ==
    /\ faults < MaxFaults /\ faults' = faults + 1
    /\ at[b] \in InLock \cup {"regproc"}
    /\ at' = [at EXCEPT ![b] = "closing"]
    /\ purged' = [purged EXCEPT ![b] = {}]
    /\ orphaned' = [orphaned EXCEPT ![b] = {}]
    /\ active_session' = active_session \cup purged[b]
    /\ UNCHANGED <<client, schema, active_chain, backend, unguarded>>

-----------------------------------------------------------------------------
(* The server.                                                             *)

\* A backend notices that its client has left, once it is done with what it was sent.  Its
\* row of active_session stays.
BackendExits(b) ==
    /\ \/ at[b] = "closing"
       \/ at[b] \in Pooled \cup {"regproc"} /\ Gone(backend[b])
    /\ backend' = [backend EXCEPT ![b] = None]
    /\ at' = [at EXCEPT ![b] = "none"]
    /\ UNCHANGED <<client, schema, tables, purged, orphaned, faults, unguarded>>

\* A crash empties both tables, which are UNLOGGED; a restart keeps them.
ServerRestarts ==
    /\ faults < MaxFaults
    /\ faults' = faults + 1
    /\ backend' = [b \in Pids |-> None]
    /\ at' = [b \in Pids |-> "none"]
    /\ purged' = [b \in Pids |-> {}] /\ orphaned' = [b \in Pids |-> {}]
    /\ \/ /\ active_session' = active_session \cup UNION {purged[b] : b \in Pids}
          /\ UNCHANGED active_chain
       \/ active_session' = {} /\ active_chain' = {}
    /\ UNCHANGED <<client, schema, unguarded>>

-----------------------------------------------------------------------------
(* A client.                                                               *)

Start(p) ==
    /\ client[p] = "new"
    /\ client' = [client EXCEPT ![p] = "connecting"]
    /\ UNCHANGED <<schema, tables, backendVars, faults, unguarded>>

\* The first connection answers; ExecuteSchemaScripts creates what is missing.
Bootstrap(p) ==
    /\ client[p] = "connecting"
    /\ \E b \in Open(p) : at[b] \in Pooled
    /\ client' = [client EXCEPT ![p] = "running"]
    /\ schema' = TRUE
    /\ UNCHANGED <<tables, backendVars, faults, unguarded>>

\* A worker admits a chain.  What was sent before the client died is executed as well, and
\* after a Shutdown a worker may still be admitting when Finalize runs.
InsertChainRunStatus(b) ==
    /\ at[b] \in Pooled /\ schema
    /\ client[backend[b]] # "connecting"
    /\ backend[b] \notin active_chain
    /\ active_chain' = active_chain \cup {backend[b]}
    /\ UNCHANGED <<client, schema, active_session, backendVars, faults, unguarded>>

Namesakes(p) == {q \in Clients : ClientName[q] = ClientName[p]}

\* A chain is done: its rows go by chain and client name.
RemoveChainRunStatus(b) ==
    /\ at[b] \in Pooled
    /\ client[backend[b]] = "running" /\ backend[b] \in active_chain
    /\ Undisputed({}, active_chain \cap Namesakes(backend[b]), b)
    /\ active_chain' = active_chain \ Namesakes(backend[b])
    /\ UNCHANGED <<client, schema, active_session, backendVars, faults, unguarded>>

\* The pool closes a connection that idled or lived for too long, or that broke.
CloseConnection(b) ==
    /\ at[b] \in Pooled /\ client[backend[b]] = "running"
    /\ at' = [at EXCEPT ![b] = "closing"]
    /\ UNCHANGED <<client, schema, tables, backend, purged, orphaned, faults, unguarded>>

\* Run returns, or any other way out of run() after New.
Stop(p) ==
    /\ client[p] = "running"
    /\ client' = [client EXCEPT ![p] = "finalizing"]
    /\ UNCHANGED <<schema, tables, backendVars, faults, unguarded>>

\* The rows go by client name, through a connection of the pool; then the pool is closed.
Finalize(b) ==
    LET p == backend[b]
        chains == active_chain \cap Namesakes(p)
    IN
    /\ at[b] \in Pooled /\ client[p] = "finalizing"
    /\ Undisputed(Pids \X Namesakes(p), chains, b)
    /\ active_session' = active_session \ (Pids \X Namesakes(p))
    /\ active_chain' = active_chain \ chains
    /\ client' = [client EXCEPT ![p] = "finalized"]
    /\ UNCHANGED <<schema, backendVars, faults, unguarded>>

\* Killed at any point, or ended before New returned, or Finalize found no connection.
Die(p) ==
    /\ client[p] \in {"connecting", "running", "finalizing"}
    /\ client' = [client EXCEPT ![p] = "killed"]
    /\ UNCHANGED <<schema, tables, backendVars, faults, unguarded>>

AllGone == (\A p \in Clients : Gone(p)) /\ UNCHANGED vars

-----------------------------------------------------------------------------
TryLockClientName(b) ==
    \/ CheckSchema(b) \/ RemoveDisconnected(b) \/ RemoveOrphans(b) \/ CheckName(b) \/ Commit(b)

PoolStep(b) ==
    \/ Abort(b) \/ BackendExits(b) \/ CloseConnection(b)
    \/ InsertChainRunStatus(b) \/ RemoveChainRunStatus(b) \/ Finalize(b)

ClientStep(p) == Connect(p) \/ Start(p) \/ Bootstrap(p) \/ Stop(p) \/ Die(p)

Next ==
    \/ \E b \in Pids : TryLockClientName(b) \/ PoolStep(b)
    \/ \E p \in Clients : ClientStep(p)
    \/ ServerRestarts \/ AllGone

Spec == Init /\ [][Next]_vars

\* Clients retry, statements are answered, and the server notices closed connections.  An
\* attempt that waits for other transactions is not overtaken forever.
Fairness ==
    /\ \A p \in Clients :
        /\ WF_vars(Connect(p)) /\ WF_vars(Bootstrap(p))
        /\ SF_vars(\E b \in Open(p) : TryLockClientName(b))
    /\ \A b \in Pids : WF_vars(BackendExits(b))

LiveSpec == Spec /\ Fairness

-----------------------------------------------------------------------------
(* Properties.  A name is unguarded once two calls of                      *)
(* try_lock_client_name for it have overlapped, neither of which sees the  *)
(* other's row, or once a connection for it came before the schema, or     *)
(* once the number of a session that one call was deleting was taken again *)
(* before the next call deleted its own; for such a name the code promises *)
(* nothing.                                                                *)

Connected(p) == ~Gone(p) /\ \E b \in Pids : backend[b] = p /\ at[b] = "locked"

Holders(n) == {p \in Clients : ClientName[p] = n /\ Connected(p)}

\* Two clients never work under one name, whoever was killed, disconnected, restarted or
\* finalized before (try_lock_client_name, Finalize).
OneClientPerName == \A n \in Names \ unguarded : Cardinality(Holders(n)) <= 1

\* The rows of active_chain under the name of a connected client are its own, but for what a
\* predecessor admitted after its own Finalize: what a killed one left does not count against
\* max_instances (try_lock_client_name).
RowsAreOwn ==
    \A n \in Names \ unguarded : \A p \in Holders(n), q \in active_chain :
        ClientName[q] = n => q = p \/ client[q] = "finalized"

\* A connecting client takes no running chain for an orphan while its client is connected,
\* even if that one exchanges its connections at the same time (try_lock_client_name).
OrphansHaveNoClient ==
    [][\A b \in Pids : \A p \in orphaned'[b] \ orphaned[b] :
          ClientName[p] \notin unguarded => ~Connected(p)]_vars

\* A row that another client of the name has left, with the number of a process that now serves
\* somebody else.
PidTaken(p) == \E r \in active_session :
    r[2] \in Namesakes(p) \ {p} /\ backend[r[1]] \notin {None, r[2]}

\* A client that starts gets in, or gives up, once every client of its name is gone, in
\* whatever way they went, unless the server gives away the numbers of the processes that they
\* have left rows of, time and again or to a connection that stays: such a row keeps the name
\* taken (New, try_lock_client_name).
NameComesFree ==
    \A p \in Clients : <>[]~PidTaken(p) =>
        (client[p] = "connecting" /\ (\A q \in Namesakes(p) \ {p} : Gone(q))
            ~> client[p] # "connecting")
=============================================================================
