------------------------ MODULE ClientSessionProofs ------------------------
(***************************************************************************)
(* For any clients, names and connections: under a name whose exclusiveness *)
(* the code does not leave to luck one client works at a time, the rows of  *)
(* active_chain are its own, and nobody takes its chains for orphans.       *)
(***************************************************************************)
EXTENDS ClientSession, FiniteSetTheorems, TLAPS

Past == InLock \ {"sessions"}
Same(p, q) == ClientName[p] = ClientName[q]
Finalized(p) == client[p] = "finalized"
Guarded(b) == backend[b] # None /\ ClientName[backend[b]] \notin unguarded

\* Clients that have a session, and those that a running transaction may give it back to.
Present == ClientsOf(active_session)
Seen == ClientsOf(active_session \cup UNION {purged[c] : c \in Pids})
Registered(b) == <<b, backend[b]>> \in active_session

Types ==
    /\ client \in [Clients -> {"new", "connecting", "running", "finalizing", "finalized", "killed"}]
    /\ schema \in BOOLEAN
    /\ active_session \subseteq Pids \X Clients /\ active_chain \subseteq Clients
    /\ backend \in [Pids -> Clients \cup {None}]
    /\ at \in [Pids -> {"none", "regproc", "closing"} \cup InLock \cup Pooled]
    /\ purged \in [Pids -> SUBSET (Pids \X Clients)]
    /\ orphaned \in [Pids -> SUBSET Clients]
    /\ unguarded \subseteq Names

\* Server processes without a client do nothing, and only an open transaction has deleted rows,
\* no two of them sessions of one guarded name.
Backends ==
    \A b \in Pids : /\ backend[b] = None <=> at[b] = "none"
                    /\ at[b] \notin Past => purged[b] = {}
PurgeAlone ==
    \A b, c \in Pids : b # c =>
        \A r \in purged[b], s \in purged[c] : Same(r[2], s[2]) => ClientName[r[2]] \in unguarded

\* What makes a name guarded: transactions of two clients do not overlap past their first DELETE.
Guard ==
    \A b \in Pids : Guarded(b) =>
        /\ at[b] # "unlocked"
        /\ \A c \in Pids : at[b] \in Past /\ at[c] \in Past /\ Same(backend[b], backend[c])
                 => backend[b] = backend[c]

\* A lock is held with a row, of which no other client of the name has one.
LockedIsRegistered ==
    \A b \in Pids : at[b] = "locked" /\ Guarded(b) /\ ~Finalized(backend[b]) => Registered(b)
LockedIsAlone ==
    \A b \in Pids : at[b] = "locked" /\ Guarded(b) /\ ~Finalized(backend[b]) =>
        \A p \in Seen : Same(p, backend[b]) => p = backend[b]
InsertIsAlone ==
    \A b \in Pids : at[b] = "insert" /\ Guarded(b) =>
        \A p \in Sessions(b) : Same(p, backend[b]) => p = backend[b]

\* A chain whose name has no session any more goes with the transaction that deleted the last.
Covered ==
    \A q \in active_chain : ClientName[q] \notin unguarded /\ ~Finalized(q) =>
        \/ \E r \in Present : Same(q, r)
        \/ \E c \in Pids : \E r \in purged[c] :
             Same(q, r[2]) /\ (at[c] = "chains" \/ q \in orphaned[c])
SessionOwns ==
    \A p \in Seen, q \in active_chain :
        Same(p, q) /\ ClientName[q] \notin unguarded /\ ~Finalized(p) /\ ~Finalized(q) => p = q
InsertOwns ==
    \A b \in Pids, q \in active_chain :
        at[b] = "insert" /\ Guarded(b) /\ Same(q, backend[b])
          /\ ~Finalized(backend[b]) /\ ~Finalized(q)
            => q = backend[b] \/ q \in orphaned[b]

Exclusive == Guard /\ LockedIsRegistered /\ LockedIsAlone /\ InsertIsAlone
Owned == Covered /\ SessionOwns /\ InsertOwns
IInv == Types /\ Backends /\ PurgeAlone /\ Exclusive /\ Owned

-----------------------------------------------------------------------------
LEMMA InitIInv == Init => IInv
BY ClientSessionAssumption DEF Init, IInv, Types, Backends, PurgeAlone, Exclusive, Owned, Guard,
    LockedIsRegistered, LockedIsAlone, InsertIsAlone, Covered, SessionOwns, InsertOwns, Seen,
    Present, ClientsOf, Guarded, InLock, Pooled

\* Sessions by client, for what a transaction sees and for what is left of a table.
LEMMA ClientsOfRows ==
    ASSUME NEW S, NEW T
    PROVE  /\ ClientsOf(S \cup T) = ClientsOf(S) \cup ClientsOf(T)
           /\ S \subseteq T => ClientsOf(S) \subseteq ClientsOf(T)
BY DEF ClientsOf

SessionsKnown ==
    /\ Seen \subseteq Clients
    /\ Seen = Present \cup ClientsOf(UNION {purged[c] : c \in Pids})
    /\ \A b \in Pids : /\ Sessions(b) = Present \cup ClientsOf(Deleting(b))
                       /\ Sessions(b) \subseteq Seen
                       /\ Registered(b) => backend[b] \in Present

LEMMA WhoHasSessions == Types => SessionsKnown
<1> SUFFICES ASSUME Types PROVE SessionsKnown OBVIOUS
<1>1. active_session \cup UNION {purged[c] : c \in Pids} \subseteq Pids \X Clients BY DEF Types
<1>2. Seen \subseteq Clients BY <1>1 DEF Seen, ClientsOf
<1>3. Seen = Present \cup ClientsOf(UNION {purged[c] : c \in Pids})
      BY ClientsOfRows DEF Seen, Present
<1>4. ASSUME NEW b \in Pids
      PROVE  /\ Sessions(b) = Present \cup ClientsOf(Deleting(b))
             /\ Sessions(b) \subseteq Seen
  <2>1. Sessions(b) = Present \cup ClientsOf(Deleting(b))
        BY ClientsOfRows DEF Sessions, Visible, Present
  <2>2. Deleting(b) \subseteq UNION {purged[c] : c \in Pids} BY DEF Deleting
  <2>3. ClientsOf(Deleting(b)) \subseteq ClientsOf(UNION {purged[c] : c \in Pids})
        BY <2>2, ClientsOfRows
  <2> QED BY <2>1, <2>3, <1>3
<1>5. ASSUME NEW b \in Pids, Registered(b) PROVE backend[b] \in Present
      BY <1>5 DEF Registered, Present, ClientsOf
<1> QED BY <1>2, <1>3, <1>4, <1>5 DEF SessionsKnown

\* Every step leaves the variables in their ranges.
LEMMA TypesStep == Types /\ Backends /\ [Next]_vars => Types'
<1> SUFFICES ASSUME Types, Backends, [Next]_vars PROVE Types' OBVIOUS
<1> USE ClientSessionAssumption
    DEF Types, Backends, tables, backendVars, InLock, Pooled
<1>1. ASSUME NEW b \in Pids, TryLockClientName(b) PROVE Types'
  <2>1. CASE CheckSchema(b) BY <2>1 DEF CheckSchema
  <2>2. CASE RemoveDisconnected(b)
    <3>1. {ClientName[backend[c]] : c \in {c \in Pids :
              /\ at[c] \in InLock \ {"sessions"} /\ backend[c] # backend[b]
              /\ ClientName[backend[c]] = ClientName[backend[b]]}} \subseteq Names
          BY <2>2 DEF RemoveDisconnected, Purge
    <3>2. Visible(b) \subseteq Pids \X Clients /\ Deleting(b) \subseteq Pids \X Clients
          BY DEF Visible, Deleting
    <3>3. {ClientName[p] : p \in ClientsOf(Deleting(b))} \subseteq Names BY <3>2 DEF ClientsOf
    <3> QED BY <2>2, <3>1, <3>2, <3>3 DEF RemoveDisconnected, Purge
  <2>3. CASE RemoveOrphans(b) BY <2>3 DEF RemoveOrphans, Orphans
  <2>4. CASE CheckName(b) BY <2>4 DEF CheckName
  <2>5. CASE Commit(b) BY <2>5 DEF Commit
  <2> QED BY <1>1, <2>1, <2>2, <2>3, <2>4, <2>5 DEF TryLockClientName
<1>2. ASSUME NEW b \in Pids, PoolStep(b) PROVE Types'
  <2>1. CASE Abort(b) BY <2>1 DEF Abort
  <2>2. CASE BackendExits(b) BY <2>2 DEF BackendExits
  <2>3. CASE CloseConnection(b) BY <2>3 DEF CloseConnection
  <2>4. CASE InsertChainRunStatus(b) BY <2>4 DEF InsertChainRunStatus
  <2>5. CASE RemoveChainRunStatus(b) BY <2>5 DEF RemoveChainRunStatus
  <2>6. CASE Finalize(b) BY <2>6 DEF Finalize
  <2> QED BY <1>2, <2>1, <2>2, <2>3, <2>4, <2>5, <2>6 DEF PoolStep
<1>3. ASSUME NEW p \in Clients, ClientStep(p) PROVE Types'
  <2>1. CASE Connect(p) BY <2>1 DEF Connect
  <2>2. CASE Start(p) BY <2>2 DEF Start
  <2>3. CASE Bootstrap(p) BY <2>3 DEF Bootstrap
  <2>4. CASE Stop(p) BY <2>4 DEF Stop
  <2>5. CASE Die(p) BY <2>5 DEF Die
  <2> QED BY <1>3, <2>1, <2>2, <2>3, <2>4, <2>5 DEF ClientStep
<1>4. CASE ServerRestarts
  <2>1. UNION {purged[b] : b \in Pids} \subseteq Pids \X Clients BY DEF Types
  <2> QED BY <1>4, <2>1 DEF ServerRestarts
<1>5. CASE UNCHANGED vars BY <1>5 DEF vars
<1> QED BY <1>1, <1>2, <1>3, <1>4, <1>5 DEF Next, AllGone

-----------------------------------------------------------------------------
\* A step that touches no row and leaves the transactions where they are, or ends one that
\* holds nothing.
Harmless ==
    /\ active_session' = active_session /\ active_chain' = active_chain
    /\ unguarded \subseteq unguarded' /\ purged' = purged /\ orphaned' = orphaned
    /\ \A p \in Clients : Finalized(p)' <=> Finalized(p)
    /\ \A b \in Pids :
        /\ backend'[b] = None <=> at'[b] = "none"
        /\ \/ at'[b] = at[b] /\ backend'[b] = backend[b]
           \/ at'[b] \in {"none", "regproc", "closing", "sessions"} /\ purged[b] = {} /\ at[b] \notin Past
           \/ at'[b] = "refuse" /\ at[b] = "check" /\ backend'[b] = backend[b]
           \/ /\ at'[b] = "unlocked" /\ backend'[b] = backend[b] /\ at[b] \notin Past
              /\ ClientName[backend[b]] \in unguarded'

LEMMA HarmlessStep == ASSUME IInv, Types', Harmless
                      PROVE  Backends' /\ PurgeAlone' /\ Exclusive' /\ Owned'
<1>0. SessionsKnown BY WhoHasSessions DEF IInv
<1> USE DEF IInv, Types, Backends, Harmless
<1>1. Backends' BY DEF Past, InLock
<1>2. PurgeAlone' BY DEF PurgeAlone
<1>3. /\ Present' = Present /\ Seen' = Seen /\ Seen \subseteq Clients
      /\ \A b \in Pids : Sessions(b)' = Sessions(b)
  BY <1>0 DEF SessionsKnown, Present, Seen, Sessions, Visible, Deleting
<1>4. \A b \in Pids : Guarded(b)' /\ at'[b] \in Past \cup {"locked"} =>
         Guarded(b) /\ backend'[b] = backend[b]
         /\ (at'[b] = at[b] \/ (at'[b] = "refuse" /\ at[b] = "check"))
  BY DEF Guarded, Past, InLock
<1>5. Guard'
  <2>1. \A b \in Pids : Guarded(b)' => at'[b] # "unlocked"
        BY DEF Exclusive, Guard, Guarded
  <2>2. \A b \in Pids : at'[b] \in Past => at[b] \in Past /\ backend'[b] = backend[b]
        BY DEF Past, InLock
  <2>3. \A b \in Pids : Guarded(b)' /\ at'[b] \in Past => Guarded(b) BY <1>4
  <2> QED BY <2>1, <2>2, <2>3 DEF Exclusive, Guard, Same
<1>6. LockedIsRegistered'
  BY <1>4 DEF Exclusive, LockedIsRegistered, Registered, Finalized, Past, InLock, Guarded
<1>7. LockedIsAlone'
  BY <1>3, <1>4 DEF Exclusive, LockedIsAlone, Finalized, Past, InLock, Guarded, Same
<1>8. InsertIsAlone'
  <2> SUFFICES ASSUME NEW b \in Pids, at'[b] = "insert", Guarded(b)',
                      NEW p \in Sessions(b)', Same(p, backend[b])'
               PROVE  p = backend'[b]
      BY DEF InsertIsAlone
  <2>1. Guarded(b) /\ backend'[b] = backend[b] /\ at[b] = "insert" BY <1>4 DEF Past, InLock
  <2>2. Sessions(b)' = Sessions(b) BY <1>3
  <2> QED BY <2>1, <2>2 DEF Exclusive, InsertIsAlone, Same
<1>9. Covered'
  <2> SUFFICES ASSUME NEW q \in active_chain, ClientName[q] \notin unguarded', ~Finalized(q)'
               PROVE  \/ \E r \in Present' : Same(q, r)
                      \/ \E c \in Pids : \E r \in purged'[c] :
                           Same(q, r[2]) /\ (at'[c] = "chains" \/ q \in orphaned'[c])
      BY DEF Covered, Same
  <2>1. CASE \E r \in Present : Same(q, r) BY <2>1, <1>3
  <2>2. ASSUME NEW c \in Pids, NEW r \in purged[c], Same(q, r[2]),
               at[c] = "chains" \/ q \in orphaned[c]
        PROVE  \E d \in Pids : \E s \in purged'[d] :
                  Same(q, s[2]) /\ (at'[d] = "chains" \/ q \in orphaned'[d])
    <3>1. at[c] \in Past OBVIOUS
    <3>2. at'[c] = at[c] \/ at[c] = "check" BY <3>1
    <3> QED BY <2>2, <3>2
  <2> QED BY <2>1, <2>2 DEF Owned, Covered
<1>10. SessionOwns' BY <1>3 DEF Owned, SessionOwns, Same
<1>11. InsertOwns' BY <1>4 DEF Owned, InsertOwns, Same, Past, InLock
<1> QED BY <1>1, <1>2, <1>5, <1>6, <1>7, <1>8, <1>9, <1>10, <1>11 DEF Exclusive, Owned

LEMMA HarmlessServerStep ==
    ASSUME IInv, Types', NEW b \in Pids,
           \/ CheckSchema(b) \/ CloseConnection(b) \/ BackendExits(b)
           \/ CheckName(b) /\ at'[b] = "refuse"
    PROVE  Backends' /\ PurgeAlone' /\ Exclusive' /\ Owned'
<1> USE ClientSessionAssumption
    DEF IInv, Types, Backends, tables, Past, InLock, Pooled
<1>1. CASE CheckSchema(b) BY <1>1, HarmlessStep DEF CheckSchema, Harmless, Finalized
<1>2. CASE CloseConnection(b) BY <1>2, HarmlessStep DEF CloseConnection, Harmless, Finalized
<1>3. CASE CheckName(b) /\ at'[b] = "refuse"
      BY <1>3, HarmlessStep DEF CheckName, Harmless, Finalized
<1>4. CASE BackendExits(b) BY <1>4, HarmlessStep DEF BackendExits, Harmless, Finalized
<1> QED BY <1>1, <1>2, <1>3, <1>4

LEMMA HarmlessClientStep ==
    ASSUME IInv, Types', UNCHANGED vars \/ \E p \in Clients : ClientStep(p)
    PROVE  Backends' /\ PurgeAlone' /\ Exclusive' /\ Owned'
<1> USE DEF IInv, Types, Backends, tables, backendVars
<1>1. Harmless
  <2>1. ASSUME NEW p \in Clients, Connect(p) PROVE Harmless
        BY <2>1, ClientSessionAssumption DEF Connect, Harmless, Past, InLock, Finalized
  <2>2. ASSUME NEW p \in Clients, Start(p) \/ Bootstrap(p) \/ Stop(p) \/ Die(p) PROVE Harmless
        BY <2>2 DEF Start, Bootstrap, Stop, Die, Harmless, Finalized
  <2>3. ASSUME UNCHANGED vars PROVE Harmless BY <2>3 DEF vars, Harmless, Finalized
  <2> QED BY <2>1, <2>2, <2>3 DEF ClientStep
<1> QED BY <1>1, HarmlessStep

-----------------------------------------------------------------------------
\* The first DELETE: what it takes away is seen by everybody else, and who overlaps is noted.
LEMMA RemoveDisconnectedStep ==
    ASSUME IInv, Types', NEW b \in Pids, RemoveDisconnected(b)
    PROVE  Backends' /\ PurgeAlone' /\ Exclusive' /\ Owned'
<1> USE DEF IInv, Types, Backends
<1> DEFINE rows == {r \in Visible(b) : backend[r[1]] = None}
<1>1. /\ purged' = [purged EXCEPT ![b] = rows] /\ active_session' = active_session \ rows
      /\ backend' = backend /\ active_chain' = active_chain
      /\ orphaned' = orphaned /\ client' = client
      /\ at[b] = "sessions" /\ at' = [at EXCEPT ![b] = "chains"] /\ unguarded \subseteq unguarded'
      /\ \A c \in Pids \ {b} : purged[c] \cap rows = {}
      /\ \A p \in ClientsOf(Deleting(b)) : ClientName[p] \in unguarded'
  BY DEF RemoveDisconnected, Purge, Undisputed
<1>2. /\ purged[b] = {} /\ rows \subseteq active_session
      /\ purged'[b] = rows /\ \A c \in Pids \ {b} : purged'[c] = purged[c]
      /\ \A r \in rows : backend[r[1]] = None
  <2>1. purged[b] = {} BY <1>1 DEF Past, InLock
  <2>2. \A r \in rows : r \in active_session \/ \E c \in Pids \ {b} : r \in purged[c]
        BY DEF Visible, Deleting
  <2>3. rows \subseteq active_session BY <2>2, <1>1
  <2> QED BY <2>1, <2>3, <1>1
<1> HIDE DEF rows
<1>3. \A p \in Present : p \in Present' \/ \E r \in rows : r[2] = p
  BY <1>1 DEF Present, ClientsOf
<1>4. \A c \in Pids \ {b} : \A r \in purged[c] : ClientName[r[2]] \in unguarded'
  BY <1>1 DEF Deleting, ClientsOf
<1>5. Seen' = Seen
  <2>1. active_session' \cup UNION {purged'[c] : c \in Pids}
          = active_session \cup UNION {purged[c] : c \in Pids}
    BY <1>1, <1>2
  <2> QED BY <2>1 DEF Seen, ClientsOf
<1>6. \A c \in Pids : c # b => Sessions(c)' = Sessions(c)
  <2> SUFFICES ASSUME NEW c \in Pids, c # b PROVE Sessions(c)' = Sessions(c) OBVIOUS
  <2>1. UNION {purged'[d] : d \in Pids \ {c}} = rows \cup UNION {purged[d] : d \in Pids \ {c}}
        BY <1>2
  <2>2. Visible(c)' = Visible(c) BY <2>1, <1>1, <1>2 DEF Visible, Deleting
  <2> QED BY <2>2 DEF Sessions, ClientsOf
<1>7. \A c \in Pids : Guarded(c)' => Guarded(c) BY <1>1 DEF Guarded
<1>8. Backends' /\ PurgeAlone'
  <2>1. Backends' BY <1>1, <1>2 DEF Past, InLock
  <2>2. ASSUME NEW c \in Pids, NEW d \in Pids, c # d,
               NEW r \in purged'[c], NEW t \in purged'[d], Same(r[2], t[2])
        PROVE  ClientName[r[2]] \in unguarded'
    <3>1. CASE c # b BY <3>1, <2>2, <1>2, <1>4
    <3>2. CASE d # b BY <3>2, <2>2, <1>2, <1>4 DEF Same
    <3> QED BY <3>1, <3>2, <2>2
  <2> QED BY <2>1, <2>2 DEF PurgeAlone, Same
<1>9. Guard'
  <2>1. \A c \in Pids : Guarded(c)' => at'[c] # "unlocked"
        BY <1>1, <1>7 DEF Exclusive, Guard
  <2>2. ASSUME NEW c \in Pids, c # b, at[c] \in Past, Same(backend[c], backend[b]), Guarded(c)'
        PROVE  backend[c] = backend[b]
        BY <2>2, <1>1 DEF RemoveDisconnected, Purge, Guarded, Same, Past
  <2>3. ASSUME NEW c \in Pids, NEW d \in Pids, Guarded(c)', at'[c] \in Past, at'[d] \in Past,
               Same(backend[c], backend[d])
        PROVE  backend[c] = backend[d]
    <3>1. CASE c # b /\ d # b BY <3>1, <2>3, <1>1, <1>7 DEF Exclusive, Guard
    <3>2. CASE c = b /\ d # b
      <4>1. Guarded(d)' /\ Same(backend[d], backend[b]) /\ at[d] \in Past
            BY <3>2, <2>3, <1>1 DEF Guarded, Same, Past, InLock
      <4> QED BY <4>1, <3>2, <2>2
    <3>3. CASE c # b /\ d = b BY <3>3, <2>3, <2>2, <1>1
    <3> QED BY <3>1, <3>2, <3>3
  <2> QED BY <2>1, <2>3, <1>1 DEF Guard, Same
<1>10. LockedIsRegistered'
  BY <1>1, <1>2, <1>7 DEF Exclusive, LockedIsRegistered, Registered, Guarded, Finalized
<1>11. LockedIsAlone' BY <1>1, <1>5, <1>7 DEF Exclusive, LockedIsAlone, Finalized, Same
<1>12. InsertIsAlone' BY <1>1, <1>6, <1>7 DEF Exclusive, InsertIsAlone, Same
<1>13. Covered'
  <2> SUFFICES ASSUME NEW q \in active_chain, ClientName[q] \notin unguarded', ~Finalized(q)'
               PROVE  \/ \E r \in Present' : Same(q, r)
                      \/ \E c \in Pids : \E r \in purged'[c] :
                           Same(q, r[2]) /\ (at'[c] = "chains" \/ q \in orphaned'[c])
      BY <1>1 DEF Covered, Same
  <2>1. ~ \E c \in Pids : \E r \in purged[c] : Same(q, r[2])
        BY <1>2, <1>4 DEF Same
  <2>2. PICK p \in Present : Same(q, p) BY <2>1, <1>1 DEF Owned, Covered, Finalized
  <2>3. CASE p \in Present' BY <2>2, <2>3
  <2>4. CASE \E r \in rows : r[2] = p BY <2>2, <2>4, <1>1, <1>2
  <2> QED BY <2>3, <2>4, <1>3
<1>14. SessionOwns' BY <1>1, <1>5 DEF Owned, SessionOwns, Same, Finalized
<1>15. InsertOwns' BY <1>1, <1>7 DEF Owned, InsertOwns, Same, Finalized
<1> QED BY <1>8, <1>9, <1>10, <1>11, <1>12, <1>13, <1>14, <1>15 DEF Exclusive, Owned

\* The second DELETE takes the chains whose names have no session but those of its transaction.
LEMMA RemoveOrphansStep ==
    ASSUME IInv, Types', NEW b \in Pids, RemoveOrphans(b)
    PROVE  Backends' /\ PurgeAlone' /\ Exclusive' /\ Owned'
<1>0. SessionsKnown BY WhoHasSessions DEF IInv
<1> USE DEF IInv, Types, Backends
<1>1. /\ purged' = purged /\ active_session' = active_session /\ backend' = backend
      /\ active_chain' = active_chain /\ client' = client /\ unguarded' = unguarded
      /\ orphaned' = [orphaned EXCEPT ![b] = {p \in active_chain :
                          \A q \in Sessions(b) : ClientName[q] # ClientName[p]}]
      /\ at[b] = "chains" /\ at' = [at EXCEPT ![b] = "check"]
  BY DEF RemoveOrphans, Orphans, tables
<1>2. Present' = Present /\ Seen' = Seen /\ \A c \in Pids : Sessions(c)' = Sessions(c)
  BY <1>1 DEF Present, Seen, Sessions, Visible, Deleting
<1>3. \A c \in Pids : Guarded(c)' <=> Guarded(c) BY <1>1 DEF Guarded
<1>4. \A c \in Pids : at'[c] \in Past <=> at[c] \in Past BY <1>1 DEF Past, InLock
<1>5. Backends' /\ PurgeAlone' BY <1>1, <1>4 DEF PurgeAlone, Past, InLock
<1>6. Guard' BY <1>1, <1>3, <1>4 DEF Exclusive, Guard, Same
<1>7. LockedIsRegistered' /\ LockedIsAlone' /\ InsertIsAlone'
  BY <1>1, <1>2, <1>3
     DEF Exclusive, LockedIsRegistered, Registered, LockedIsAlone, InsertIsAlone, Finalized, Same
<1>8. Covered'
  <2> SUFFICES ASSUME NEW q \in active_chain, ClientName[q] \notin unguarded, ~Finalized(q)
               PROVE  \/ \E r \in Present : Same(q, r)
                      \/ \E c \in Pids : \E r \in purged[c] :
                           Same(q, r[2]) /\ (at'[c] = "chains" \/ q \in orphaned'[c])
      BY <1>1, <1>2 DEF Covered, Same, Finalized
  <2>1. CASE \E r \in Present : Same(q, r) BY <2>1
  <2>2. ASSUME NEW c \in Pids, NEW r \in purged[c], Same(q, r[2]),
               at[c] = "chains" \/ q \in orphaned[c]
        PROVE  (\E s \in Present : Same(q, s)) \/ at'[c] = "chains" \/ q \in orphaned'[c]
    <3>1. CASE c # b BY <3>1, <2>2, <1>1
    <3>2. CASE c = b
      <4>1. ASSUME NEW p \in Sessions(b), Same(q, p) PROVE p \in Present
        <5>1. \A d \in Pids \ {b} : \A t \in purged[d] : ~Same(q, t[2])
              BY <3>2, <2>2 DEF PurgeAlone, Same
        <5>2. p \notin ClientsOf(Deleting(b)) BY <5>1, <4>1 DEF ClientsOf, Deleting
        <5> QED BY <5>2, <1>0 DEF SessionsKnown
      <4> QED BY <4>1, <3>2, <1>1 DEF Same
    <3> QED BY <3>1, <3>2
  <2> QED BY <2>1, <2>2 DEF Owned, Covered
<1>9. SessionOwns' BY <1>1, <1>2 DEF Owned, SessionOwns, Same, Finalized
<1>10. InsertOwns' BY <1>1, <1>3 DEF Owned, InsertOwns, Same, Finalized
<1> QED BY <1>5, <1>6, <1>7, <1>8, <1>9, <1>10 DEF Exclusive, Owned

\* The lock is granted: the chains that are left belong to a session of the client itself.
LEMMA CheckNameStep ==
    ASSUME IInv, Types', NEW b \in Pids, CheckName(b), at'[b] # "refuse"
    PROVE  Backends' /\ PurgeAlone' /\ Exclusive' /\ Owned'
<1>0. SessionsKnown BY WhoHasSessions DEF IInv
<1> USE DEF IInv, Types, Backends
<1>1. /\ purged' = purged /\ active_session' = active_session /\ backend' = backend
      /\ active_chain' = active_chain /\ client' = client /\ unguarded' = unguarded
      /\ orphaned' = orphaned /\ at[b] = "check" /\ at' = [at EXCEPT ![b] = "insert"]
      /\ \A q \in Sessions(b) : Same(q, backend[b]) => q = backend[b]
  BY DEF CheckName, tables, Same
<1>2. Present' = Present /\ Seen' = Seen /\ \A c \in Pids : Sessions(c)' = Sessions(c)
  BY <1>1 DEF Present, Seen, Sessions, Visible, Deleting
<1>3. \A c \in Pids : Guarded(c)' <=> Guarded(c) BY <1>1 DEF Guarded
<1>4. \A c \in Pids : at'[c] \in Past <=> at[c] \in Past BY <1>1 DEF Past, InLock
<1>5. Backends' /\ PurgeAlone' BY <1>1, <1>4 DEF PurgeAlone, Past, InLock
<1>6. Guard' BY <1>1, <1>3, <1>4 DEF Exclusive, Guard, Same
<1>7. LockedIsRegistered' /\ LockedIsAlone' /\ InsertIsAlone'
  BY <1>1, <1>2, <1>3
     DEF Exclusive, LockedIsRegistered, Registered, LockedIsAlone, InsertIsAlone, Finalized, Same
<1>8. Covered' BY <1>1, <1>2 DEF Owned, Covered, Same, Finalized
<1>9. SessionOwns' BY <1>1, <1>2 DEF Owned, SessionOwns, Same, Finalized
<1>10. ASSUME NEW q \in active_chain, Guarded(b), Same(q, backend[b]),
              ~Finalized(backend[b]), ~Finalized(q)
       PROVE  q = backend[b] \/ q \in orphaned[b]
  <2>1. CASE \E r \in Sessions(b) : Same(q, r)
    <3>1. backend[b] \in Sessions(b) BY <2>1, <1>1, <1>10 DEF Same
    <3>2. backend[b] \in Seen BY <3>1, <1>0 DEF SessionsKnown
    <3> QED BY <3>2, <1>10 DEF Owned, SessionOwns, Same, Guarded
  <2>2. CASE \A r \in Sessions(b) : ~Same(q, r)
    <3>1. \A r \in Present : ~Same(q, r) BY <2>2, <1>0 DEF SessionsKnown
    <3>2. PICK c \in Pids : \E r \in purged[c] :
              Same(q, r[2]) /\ (at[c] = "chains" \/ q \in orphaned[c])
          BY <3>1, <1>10 DEF Owned, Covered, Guarded, Same
    <3>3. c = b BY <3>2, <2>2, <1>0 DEF SessionsKnown, Deleting, ClientsOf
    <3> QED BY <3>2, <3>3, <1>1
  <2> QED BY <2>1, <2>2
<1>11. InsertOwns' BY <1>1, <1>3, <1>10 DEF Owned, InsertOwns, Same, Finalized
<1> QED BY <1>5, <1>6, <1>7, <1>8, <1>9, <1>11 DEF Exclusive, Owned

-----------------------------------------------------------------------------
\* A transaction commits: a client that gets the lock owns what is left under its name.
LEMMA CommitStep ==
    ASSUME IInv, Types', NEW b \in Pids, Commit(b)
    PROVE  Backends' /\ PurgeAlone' /\ Exclusive' /\ Owned'
<1>0. SessionsKnown BY WhoHasSessions DEF IInv
<1> USE DEF IInv, Types, Backends
<1>1. /\ purged' = [purged EXCEPT ![b] = {}] /\ orphaned' = [orphaned EXCEPT ![b] = {}]
      /\ backend' = backend /\ client' = client /\ unguarded' = unguarded
      /\ active_chain' = active_chain \ orphaned[b]
      /\ at[b] \in {"insert", "refuse"}
      /\ active_session' = active_session \cup IF at[b] = "insert" THEN {<<b, backend[b]>>} ELSE {}
      /\ at' = [at EXCEPT ![b] = at'[b]]
      /\ at'[b] = "closing" \/ (at'[b] = "locked" /\ at[b] = "insert")
  BY DEF Commit
<1>2. backend[b] # None /\ at[b] \in Past BY <1>1 DEF Past, InLock
<1>3. /\ Present \subseteq Present'
      /\ \A p \in Present' : p \in Present \/ (p = backend[b] /\ at[b] = "insert")
  BY <1>1 DEF Present, ClientsOf
<1>4. \A p \in Seen' : p \in Sessions(b) \/ (p = backend[b] /\ at[b] = "insert")
  <2>1. UNION {purged'[c] : c \in Pids} = Deleting(b) BY <1>1 DEF Deleting
  <2>2. Seen' = Present' \cup ClientsOf(Deleting(b)) BY <2>1, ClientsOfRows DEF Seen, Present
  <2> QED BY <1>3, <2>2, <1>0 DEF SessionsKnown
<1>5. \A c \in Pids : Sessions(c) \subseteq Seen BY <1>0 DEF SessionsKnown
<1>6. \A c \in Pids : \A p \in Sessions(c)' :
         p \in Sessions(c) \/ (p = backend[b] /\ at[b] = "insert")
  <2> TAKE c \in Pids
  <2>1. Deleting(c)' \subseteq Deleting(c) BY <1>1 DEF Deleting
  <2>2. ClientsOf(Deleting(c)') \subseteq ClientsOf(Deleting(c)) BY <2>1, ClientsOfRows
  <2>3. Sessions(c)' = Present' \cup ClientsOf(Deleting(c)') BY ClientsOfRows DEF Sessions, Visible, Present
  <2> QED BY <1>3, <2>2, <2>3, <1>0 DEF SessionsKnown
<1>7. \A c \in Pids : Guarded(c)' <=> Guarded(c) BY <1>1 DEF Guarded
<1>8. \A c \in Pids : at'[c] \in Past => c # b /\ at[c] \in Past BY <1>1 DEF Past, InLock
<1>9. Backends' /\ PurgeAlone' BY <1>1, <1>2, <1>8 DEF PurgeAlone, Past, InLock, Same
<1>10. Guard' BY <1>1, <1>7, <1>8 DEF Exclusive, Guard, Same
<1>11. LockedIsRegistered' BY <1>1, <1>7 DEF Exclusive, LockedIsRegistered, Registered, Finalized
<1>12. LockedIsAlone'
  <2> SUFFICES ASSUME NEW c \in Pids, at'[c] = "locked", Guarded(c), ~Finalized(backend[c]),
                      NEW p \in Seen', Same(p, backend[c])
               PROVE  p = backend[c]
      BY <1>1, <1>7 DEF LockedIsAlone, Same, Finalized
  <2>1. CASE c = b BY <2>1, <1>1, <1>4 DEF Exclusive, InsertIsAlone
  <2>2. CASE c # b
    <3>1. at[c] = "locked" BY <2>2, <1>1
    <3>2. CASE p \in Sessions(b) BY <3>1, <3>2, <1>5 DEF Exclusive, LockedIsAlone
    <3>3. CASE p = backend[b] /\ at[b] = "insert"
      <4>1. backend[c] \in Sessions(b) BY <3>1, <1>0 DEF SessionsKnown, Exclusive, LockedIsRegistered
      <4>2. Guarded(b) /\ Same(backend[c], backend[b]) BY <3>3, <1>2 DEF Guarded, Same
      <4> QED BY <3>3, <4>1, <4>2 DEF Exclusive, InsertIsAlone
    <3> QED BY <3>2, <3>3, <1>4
  <2> QED BY <2>1, <2>2
<1>13. InsertIsAlone'
  <2> SUFFICES ASSUME NEW c \in Pids, at'[c] = "insert", Guarded(c),
                      NEW p \in Sessions(c)', Same(p, backend[c])
               PROVE  p = backend[c]
      BY <1>1, <1>7 DEF InsertIsAlone, Same
  <2>1. c # b /\ at[c] = "insert" BY <1>1
  <2>2. CASE p \in Sessions(c) BY <2>1, <2>2 DEF Exclusive, InsertIsAlone
  <2>3. CASE p = backend[b] /\ at[b] = "insert"
        BY <2>1, <2>3, <1>2 DEF Exclusive, Guard, Past, InLock, Same
  <2> QED BY <2>2, <2>3, <1>6
<1>14. Covered'
  <2> SUFFICES ASSUME NEW q \in active_chain, q \notin orphaned[b],
                      ClientName[q] \notin unguarded, ~Finalized(q)
               PROVE  \/ \E r \in Present' : Same(q, r)
                      \/ \E c \in Pids : \E r \in purged'[c] :
                           Same(q, r[2]) /\ (at'[c] = "chains" \/ q \in orphaned'[c])
      BY <1>1 DEF Covered, Same, Finalized
  <2>1. CASE \E r \in Present : Same(q, r) BY <2>1, <1>3
  <2>2. ASSUME NEW c \in Pids, NEW r \in purged[c], Same(q, r[2]),
               at[c] = "chains" \/ q \in orphaned[c]
        PROVE  \E d \in Pids : \E s \in purged'[d] :
                  Same(q, s[2]) /\ (at'[d] = "chains" \/ q \in orphaned'[d])
        BY <2>2, <1>1
  <2> QED BY <2>1, <2>2 DEF Owned, Covered
<1>15. SessionOwns'
  <2> SUFFICES ASSUME NEW p \in Seen', NEW q \in active_chain, q \notin orphaned[b], Same(p, q),
                      ClientName[q] \notin unguarded, ~Finalized(p), ~Finalized(q)
               PROVE  p = q
      BY <1>1 DEF SessionOwns, Same, Finalized
  <2>1. CASE p \in Sessions(b) BY <2>1, <1>5 DEF Owned, SessionOwns
  <2>2. CASE p = backend[b] /\ at[b] = "insert"
        BY <2>2, <1>2 DEF Owned, InsertOwns, Guarded, Same
  <2> QED BY <2>1, <2>2, <1>4
<1>16. InsertOwns' BY <1>1, <1>7 DEF Owned, InsertOwns, Same, Finalized
<1> QED BY <1>9, <1>10, <1>11, <1>12, <1>13, <1>14, <1>15, <1>16 DEF Exclusive, Owned

\* A failed transaction gives the sessions back.
LEMMA AbortStep ==
    ASSUME IInv, Types', NEW b \in Pids, Abort(b)
    PROVE  Backends' /\ PurgeAlone' /\ Exclusive' /\ Owned'
<1> USE DEF IInv, Types, Backends
<1>1. /\ purged' = [purged EXCEPT ![b] = {}] /\ orphaned' = [orphaned EXCEPT ![b] = {}]
      /\ active_session' = active_session \cup purged[b]
      /\ backend' = backend /\ client' = client /\ unguarded' = unguarded
      /\ active_chain' = active_chain /\ at' = [at EXCEPT ![b] = "closing"]
      /\ at[b] \notin {"none", "locked", "unlocked"}
  BY DEF Abort, InLock
<1>2. Present' = Present \cup ClientsOf(purged[b]) BY <1>1, ClientsOfRows DEF Present
<1>3. Seen' = Seen
  <2>1. active_session' \cup UNION {purged'[c] : c \in Pids}
          = active_session \cup UNION {purged[c] : c \in Pids}
    BY <1>1
  <2> QED BY <2>1 DEF Seen, ClientsOf
<1>4. \A c \in Pids : c # b => Sessions(c)' \subseteq Sessions(c)
  <2> SUFFICES ASSUME NEW c \in Pids, c # b PROVE Sessions(c)' \subseteq Sessions(c) OBVIOUS
  <2>1. Visible(c)' \subseteq Visible(c) BY <1>1 DEF Visible, Deleting
  <2> QED BY <2>1 DEF Sessions, ClientsOf
<1>5. \A c \in Pids : Guarded(c)' <=> Guarded(c) BY <1>1 DEF Guarded
<1>6. \A c \in Pids : at'[c] \in Past => c # b /\ at[c] \in Past BY <1>1 DEF Past, InLock
<1>7. Backends' /\ PurgeAlone' BY <1>1, <1>6 DEF PurgeAlone, Past, InLock
<1>8. Guard' BY <1>1, <1>5, <1>6 DEF Exclusive, Guard, Same
<1>9. LockedIsRegistered' /\ LockedIsAlone'
  BY <1>1, <1>3, <1>5 DEF Exclusive, LockedIsRegistered, Registered, LockedIsAlone, Finalized, Same
<1>10. InsertIsAlone' BY <1>1, <1>4, <1>5 DEF Exclusive, InsertIsAlone, Same
<1>11. Covered'
  <2> SUFFICES ASSUME NEW q \in active_chain, ClientName[q] \notin unguarded, ~Finalized(q)
               PROVE  \/ \E r \in Present' : Same(q, r)
                      \/ \E c \in Pids : \E r \in purged'[c] :
                           Same(q, r[2]) /\ (at'[c] = "chains" \/ q \in orphaned'[c])
      BY <1>1 DEF Covered, Same, Finalized
  <2>1. CASE \E r \in Present : Same(q, r) BY <2>1, <1>2
  <2>2. ASSUME NEW c \in Pids, NEW r \in purged[c], Same(q, r[2]),
               at[c] = "chains" \/ q \in orphaned[c]
        PROVE  \/ \E p \in Present' : Same(q, p)
               \/ \E d \in Pids : \E s \in purged'[d] :
                    Same(q, s[2]) /\ (at'[d] = "chains" \/ q \in orphaned'[d])
    <3>1. CASE c = b
      <4>1. r[2] \in Present' BY <3>1, <1>2 DEF ClientsOf
      <4> QED BY <4>1, <2>2
    <3>2. CASE c # b BY <3>2, <2>2, <1>1
    <3> QED BY <3>1, <3>2
  <2> QED BY <2>1, <2>2 DEF Owned, Covered
<1>12. SessionOwns' BY <1>1, <1>3 DEF Owned, SessionOwns, Same, Finalized
<1>13. InsertOwns' BY <1>1, <1>5 DEF Owned, InsertOwns, Same, Finalized
<1> QED BY <1>7, <1>8, <1>9, <1>10, <1>11, <1>12, <1>13 DEF Exclusive, Owned

-----------------------------------------------------------------------------
\* Whoever admits a chain under a guarded name is the only one with a session.
LEMMA InsertChainRunStatusStep ==
    ASSUME IInv, Types', NEW b \in Pids, InsertChainRunStatus(b)
    PROVE  Backends' /\ PurgeAlone' /\ Exclusive' /\ Owned'
<1>0. SessionsKnown BY WhoHasSessions DEF IInv
<1> USE DEF IInv, Types, Backends
<1>1. /\ purged' = purged /\ orphaned' = orphaned /\ active_session' = active_session
      /\ backend' = backend /\ client' = client /\ unguarded' = unguarded /\ at' = at
      /\ active_chain' = active_chain \cup {backend[b]}
      /\ at[b] \in {"locked", "unlocked"} /\ backend[b] # None
  BY DEF InsertChainRunStatus, tables, backendVars, Pooled
<1>2. Present' = Present /\ Seen' = Seen /\ \A c \in Pids : Sessions(c)' = Sessions(c)
  BY <1>1 DEF Present, Seen, Sessions, Visible, Deleting
<1>3. \A c \in Pids : Guarded(c)' <=> Guarded(c) BY <1>1 DEF Guarded
<1>4. Backends' /\ PurgeAlone' /\ Guard' BY <1>1, <1>3 DEF PurgeAlone, Exclusive, Guard, Same
<1>5. LockedIsRegistered' /\ LockedIsAlone' /\ InsertIsAlone'
  BY <1>1, <1>2, <1>3
     DEF Exclusive, LockedIsRegistered, Registered, LockedIsAlone, InsertIsAlone, Finalized, Same
<1>6. Guarded(b) /\ ~Finalized(backend[b]) => at[b] = "locked" /\ Registered(b)
  BY <1>1 DEF Exclusive, Guard, LockedIsRegistered
<1>7. Registered(b) => backend[b] \in Present /\ \A c \in Pids : backend[b] \in Sessions(c)
  BY <1>0 DEF SessionsKnown
<1>8. Covered'
  <2> SUFFICES ASSUME NEW q \in active_chain', ClientName[q] \notin unguarded, ~Finalized(q)
               PROVE  \/ \E r \in Present : Same(q, r)
                      \/ \E c \in Pids : \E r \in purged[c] :
                           Same(q, r[2]) /\ (at[c] = "chains" \/ q \in orphaned[c])
      BY <1>1, <1>2 DEF Covered, Same, Finalized
  <2>1. CASE q \in active_chain BY <2>1 DEF Owned, Covered
  <2>2. CASE q = backend[b] BY <2>2, <1>1, <1>6, <1>7 DEF Guarded, Same
  <2> QED BY <2>1, <2>2, <1>1
<1>9. SessionOwns'
  <2> SUFFICES ASSUME NEW p \in Seen, NEW q \in active_chain', Same(p, q),
                      ClientName[q] \notin unguarded, ~Finalized(p), ~Finalized(q)
               PROVE  p = q
      BY <1>1, <1>2 DEF SessionOwns, Same, Finalized
  <2>1. CASE q \in active_chain BY <2>1 DEF Owned, SessionOwns
  <2>2. CASE q = backend[b] BY <2>2, <1>1, <1>6 DEF Exclusive, LockedIsAlone, Guarded, Same
  <2> QED BY <2>1, <2>2, <1>1
<1>10. InsertOwns'
  <2> SUFFICES ASSUME NEW c \in Pids, NEW q \in active_chain', at[c] = "insert", Guarded(c),
                      Same(q, backend[c]), ~Finalized(backend[c]), ~Finalized(q)
               PROVE  q = backend[c] \/ q \in orphaned[c]
      BY <1>1, <1>3 DEF InsertOwns, Same, Finalized
  <2>1. CASE q \in active_chain BY <2>1 DEF Owned, InsertOwns
  <2>2. CASE q = backend[b]
    <3>1. Guarded(b) BY <2>2, <1>1 DEF Guarded, Same
    <3> QED BY <2>2, <3>1, <1>6, <1>7 DEF Exclusive, InsertIsAlone
  <2> QED BY <2>1, <2>2, <1>1
<1> QED BY <1>4, <1>5, <1>8, <1>9, <1>10 DEF Exclusive, Owned

\* Rows that go can only help.
LEMMA RemoveChainRunStatusStep ==
    ASSUME IInv, Types', NEW b \in Pids, RemoveChainRunStatus(b)
    PROVE  Backends' /\ PurgeAlone' /\ Exclusive' /\ Owned'
<1> USE DEF IInv, Types, Backends
<1>1. /\ purged' = purged /\ orphaned' = orphaned /\ active_session' = active_session
      /\ backend' = backend /\ client' = client /\ unguarded' = unguarded /\ at' = at
      /\ active_chain' \subseteq active_chain
  BY DEF RemoveChainRunStatus, tables, backendVars
<1>2. Present' = Present /\ Seen' = Seen /\ \A c \in Pids : Sessions(c)' = Sessions(c)
  BY <1>1 DEF Present, Seen, Sessions, Visible, Deleting
<1>3. \A c \in Pids : Guarded(c)' <=> Guarded(c) BY <1>1 DEF Guarded
<1>4. Backends' /\ PurgeAlone' /\ Guard' BY <1>1, <1>3 DEF PurgeAlone, Exclusive, Guard, Same
<1>5. LockedIsRegistered' /\ LockedIsAlone' /\ InsertIsAlone'
  BY <1>1, <1>2, <1>3
     DEF Exclusive, LockedIsRegistered, Registered, LockedIsAlone, InsertIsAlone, Finalized, Same
<1>6. Covered' /\ SessionOwns' /\ InsertOwns'
  BY <1>1, <1>2, <1>3 DEF Owned, Covered, SessionOwns, InsertOwns, Same, Finalized
<1> QED BY <1>4, <1>5, <1>6 DEF Exclusive, Owned

\* Finalize deletes by name: under a guarded one that is nobody else's.
LEMMA FinalizeStep ==
    ASSUME IInv, Types', NEW b \in Pids, Finalize(b)
    PROVE  Backends' /\ PurgeAlone' /\ Exclusive' /\ Owned'
<1>0. SessionsKnown BY WhoHasSessions DEF IInv
<1> USE DEF IInv, Types, Backends
<1> DEFINE p == backend[b]
<1>1. /\ purged' = purged /\ orphaned' = orphaned /\ backend' = backend /\ unguarded' = unguarded
      /\ at' = at /\ active_session' = active_session \ (Pids \X Namesakes(p))
      /\ active_chain' = active_chain \ (active_chain \cap Namesakes(p))
      /\ client' = [client EXCEPT ![p] = "finalized"]
      /\ at[b] \in {"locked", "unlocked"} /\ p # None /\ ~Finalized(p)
  BY DEF Finalize, backendVars, Pooled, Finalized
<1>2. p \in Clients /\ \A q \in Clients : q \in Namesakes(p) <=> Same(q, p)
  BY <1>1 DEF Namesakes, Same
<1>3. \A q \in Clients : Finalized(q)' <=> (Finalized(q) \/ q = p) BY <1>1, <1>2 DEF Finalized
<1>4. Present' = Present \ Namesakes(p)
  <2>1. \A t \in active_session : t \in active_session' <=> t[2] \notin Namesakes(p) BY <1>1
  <2> QED BY <1>1, <2>1 DEF Present, ClientsOf
<1>5. Seen' \subseteq Seen /\ Seen \subseteq Clients
      /\ \A c \in Pids : Sessions(c)' \subseteq Sessions(c)
  <2>1. /\ active_session' \cup UNION {purged'[c] : c \in Pids}
              \subseteq active_session \cup UNION {purged[c] : c \in Pids}
        /\ \A c \in Pids : Visible(c)' \subseteq Visible(c)
        BY <1>1 DEF Visible, Deleting
  <2> QED BY <2>1, <1>0 DEF SessionsKnown, Seen, Sessions, ClientsOf
<1>6. \A c \in Pids : Guarded(c)' <=> Guarded(c) BY <1>1 DEF Guarded
<1>7. Backends' /\ PurgeAlone' /\ Guard' BY <1>1, <1>6 DEF PurgeAlone, Exclusive, Guard, Same
<1>8. LockedIsRegistered'
  <2> SUFFICES ASSUME NEW c \in Pids, at[c] = "locked", Guarded(c),
                      ~Finalized(backend[c]), backend[c] # p
               PROVE  Registered(c)'
      BY <1>1, <1>3, <1>6 DEF LockedIsRegistered, Guarded, Finalized
  <2>1. Registered(c) /\ backend[c] \in Seen
        BY <1>0 DEF SessionsKnown, Exclusive, LockedIsRegistered
  <2>2. ~Same(backend[c], p)
    <3> SUFFICES ASSUME Same(backend[c], p) PROVE FALSE OBVIOUS
    <3>1. Guarded(b) BY <1>1 DEF Guarded, Same
    <3>2. at[b] = "locked" BY <1>1, <3>1 DEF Exclusive, Guard
    <3> QED BY <1>1, <2>1, <3>1, <3>2 DEF Exclusive, LockedIsAlone
  <2> QED BY <2>1, <2>2, <1>1, <1>2 DEF Guarded, Registered
<1>9. LockedIsAlone'
  BY <1>1, <1>3, <1>5, <1>6 DEF Exclusive, LockedIsAlone, Same, Guarded, Finalized
<1>10. InsertIsAlone' BY <1>1, <1>5, <1>6 DEF Exclusive, InsertIsAlone, Same
<1>11. Covered'
  <2> SUFFICES ASSUME NEW q \in active_chain, ~Same(q, p),
                      ClientName[q] \notin unguarded, ~Finalized(q)
               PROVE  \/ \E r \in Present' : Same(q, r)
                      \/ \E c \in Pids : \E r \in purged[c] :
                           Same(q, r[2]) /\ (at[c] = "chains" \/ q \in orphaned[c])
      BY <1>1, <1>2, <1>3 DEF Covered, Same
  <2>1. \A r \in Present : Same(q, r) => r \in Present'
        BY <1>2, <1>4, <1>5, <1>0 DEF SessionsKnown, Same
  <2> QED BY <2>1 DEF Owned, Covered
<1>12. SessionOwns' BY <1>1, <1>3, <1>5 DEF Owned, SessionOwns, Same
<1>13. InsertOwns' BY <1>1, <1>3, <1>6 DEF Owned, InsertOwns, Same, Guarded
<1> QED BY <1>7, <1>8, <1>9, <1>10, <1>11, <1>12, <1>13 DEF Exclusive, Owned

\* After a restart of the server every session is one of a process that is gone, or there is none.
LEMMA ServerRestartsStep ==
    ASSUME IInv, Types', ServerRestarts
    PROVE  Backends' /\ PurgeAlone' /\ Exclusive' /\ Owned'
<1>0. SessionsKnown BY WhoHasSessions DEF IInv
<1> USE DEF IInv, Types, Backends
<1>1. /\ purged' = [b \in Pids |-> {}] /\ orphaned' = [b \in Pids |-> {}]
      /\ backend' = [b \in Pids |-> None] /\ at' = [b \in Pids |-> "none"]
      /\ client' = client /\ unguarded' = unguarded
      /\ \/ /\ active_session' = active_session \cup UNION {purged[b] : b \in Pids}
            /\ active_chain' = active_chain
         \/ active_session' = {} /\ active_chain' = {}
  BY DEF ServerRestarts
<1>2. /\ Seen' = Present'
      /\ \/ Present' = Seen /\ active_chain' = active_chain
         \/ Present' = {} /\ active_chain' = {}
  <2>1. UNION {purged'[b] : b \in Pids} = {} BY <1>1
  <2>2. Seen' = Present' BY <2>1 DEF Seen, Present, ClientsOf
  <2>3. CASE active_session' = active_session \cup UNION {purged[b] : b \in Pids}
                /\ active_chain' = active_chain
        BY <2>2, <2>3 DEF Seen, Present
  <2>4. CASE active_session' = {} /\ active_chain' = {} BY <2>2, <2>4 DEF Present, ClientsOf
  <2> QED BY <2>2, <2>3, <2>4, <1>1
<1>3. Backends' /\ PurgeAlone' BY <1>1 DEF PurgeAlone
<1>4. Exclusive'
  BY <1>1 DEF Exclusive, Guard, LockedIsRegistered, LockedIsAlone, InsertIsAlone, Guarded
<1>5. Covered'
  <2> SUFFICES ASSUME NEW q \in active_chain', ClientName[q] \notin unguarded, ~Finalized(q)
               PROVE  \E r \in Present' : Same(q, r)
      BY <1>1, <1>2 DEF Covered, Same, Finalized
  <2>1. Present' = Seen /\ q \in active_chain BY <1>2
  <2>2. \A c \in Pids : \A r \in purged[c] : r[2] \in Seen BY DEF Seen, ClientsOf
  <2> QED BY <2>1, <2>2, <1>0 DEF SessionsKnown, Owned, Covered
<1>6. SessionOwns' BY <1>1, <1>2 DEF Owned, SessionOwns, Same, Finalized
<1>7. InsertOwns' BY <1>1 DEF InsertOwns
<1> QED BY <1>3, <1>4, <1>5, <1>6, <1>7 DEF Owned

-----------------------------------------------------------------------------
\* The invariant holds for any clients, names and connections.
THEOREM IInvHolds == Spec => []IInv
<1>1. IInv /\ [Next]_vars => IInv'
  <2> SUFFICES ASSUME IInv, [Next]_vars PROVE IInv' OBVIOUS
  <2>1. Types' BY TypesStep DEF IInv
  <2>2. Backends' /\ PurgeAlone' /\ Exclusive' /\ Owned'
    <3>1. ASSUME NEW b \in Pids, TryLockClientName(b)
          PROVE  Backends' /\ PurgeAlone' /\ Exclusive' /\ Owned'
      <4>1. CASE CheckSchema(b) BY <4>1, <2>1, HarmlessServerStep
      <4>2. CASE RemoveDisconnected(b) BY <4>2, <2>1, RemoveDisconnectedStep
      <4>3. CASE RemoveOrphans(b) BY <4>3, <2>1, RemoveOrphansStep
      <4>4. CASE CheckName(b) BY <4>4, <2>1, HarmlessServerStep, CheckNameStep
      <4>5. CASE Commit(b) BY <4>5, <2>1, CommitStep
      <4> QED BY <3>1, <4>1, <4>2, <4>3, <4>4, <4>5 DEF TryLockClientName
    <3>2. ASSUME NEW b \in Pids, PoolStep(b)
          PROVE  Backends' /\ PurgeAlone' /\ Exclusive' /\ Owned'
      <4>1. CASE Abort(b) BY <4>1, <2>1, AbortStep
      <4>2. CASE BackendExits(b) BY <4>2, <2>1, HarmlessServerStep
      <4>3. CASE CloseConnection(b) BY <4>3, <2>1, HarmlessServerStep
      <4>4. CASE InsertChainRunStatus(b) BY <4>4, <2>1, InsertChainRunStatusStep
      <4>5. CASE RemoveChainRunStatus(b) BY <4>5, <2>1, RemoveChainRunStatusStep
      <4>6. CASE Finalize(b) BY <4>6, <2>1, FinalizeStep
      <4> QED BY <3>2, <4>1, <4>2, <4>3, <4>4, <4>5, <4>6 DEF PoolStep
    <3> QED BY <2>1, <3>1, <3>2, HarmlessClientStep, ServerRestartsStep DEF Next, AllGone
  <2> QED BY <2>1, <2>2 DEF IInv
<1> QED BY <1>1, InitIInv, PTL DEF Spec

\* Two clients never work under one guarded name, whoever was killed, disconnected, restarted
\* or finalized before.
THEOREM OneClient == Spec => []OneClientPerName
<1>1. IInv => OneClientPerName
  <2> SUFFICES ASSUME IInv, NEW n \in Names \ unguarded PROVE Cardinality(Holders(n)) <= 1
      BY DEF OneClientPerName
  <2>0. SessionsKnown BY WhoHasSessions DEF IInv
  <2>1. ASSUME NEW p \in Holders(n), NEW q \in Holders(n) PROVE p = q
    <3>1. PICK b \in Pids : backend[b] = p /\ at[b] = "locked" BY DEF Holders, Connected
    <3>2. PICK c \in Pids : backend[c] = q /\ at[c] = "locked" BY DEF Holders, Connected
    <3>3. /\ p \in Clients /\ q \in Clients /\ Same(p, q) /\ ~Finalized(p) /\ ~Finalized(q)
          /\ ClientName[p] \notin unguarded
          BY DEF Holders, Connected, Gone, Finalized, Same
    <3>4. Guarded(b) /\ Guarded(c)
          BY <3>1, <3>2, <3>3, ClientSessionAssumption DEF Guarded, Same
    <3>5. Registered(c)
          BY <3>2, <3>3, <3>4 DEF IInv, Exclusive, LockedIsRegistered
    <3>6. q \in Seen BY <3>2, <3>5, <2>0 DEF SessionsKnown, IInv
    <3> QED BY <3>1, <3>3, <3>4, <3>6 DEF IInv, Exclusive, LockedIsAlone, Same
  <2>2. CASE Holders(n) = {} BY <2>2, FS_EmptySet
  <2>3. ASSUME NEW p \in Holders(n) PROVE Cardinality(Holders(n)) <= 1
    <3>1. Holders(n) = {p} BY <2>1
    <3> QED BY <3>1, FS_Singleton
  <2> QED BY <2>2, <2>3
<1> QED BY <1>1, IInvHolds, PTL

\* What a killed predecessor left in active_chain does not count against max_instances: it is
\* gone when its successor gets the name.
THEOREM OwnRows == Spec => []RowsAreOwn
<1>1. IInv => RowsAreOwn
  <2> SUFFICES ASSUME IInv, NEW n \in Names \ unguarded, NEW p \in Holders(n),
                      NEW q \in active_chain, ClientName[q] = n, client[q] # "finalized"
               PROVE  q = p
      BY DEF RowsAreOwn
  <2>0. SessionsKnown BY WhoHasSessions DEF IInv
  <2>1. PICK b \in Pids : backend[b] = p /\ at[b] = "locked" BY DEF Holders, Connected
  <2>2. p \in Clients /\ ~Finalized(p) /\ ~Finalized(q) /\ Same(p, q)
        BY DEF Holders, Connected, Gone, Finalized, Same
  <2>3. Guarded(b) BY <2>1, <2>2, ClientSessionAssumption DEF Guarded, Same
  <2>4. p \in Seen BY <2>1, <2>2, <2>3, <2>0 DEF SessionsKnown, IInv, Exclusive, LockedIsRegistered
  <2> QED BY <2>2, <2>4 DEF IInv, Owned, SessionOwns, Same
<1> QED BY <1>1, IInvHolds, PTL

\* No transaction takes a chain for an orphan while its client is connected.
THEOREM NoOrphanWithClient == Spec => OrphansHaveNoClient
<1>1. IInv /\ [Next]_vars => [\A b \in Pids : \A p \in orphaned'[b] \ orphaned[b] :
                                ClientName[p] \notin unguarded => ~Connected(p)]_vars
  <2> SUFFICES ASSUME IInv, Next, NEW b \in Pids, NEW p \in orphaned'[b] \ orphaned[b],
                      ClientName[p] \notin unguarded, Connected(p)
               PROVE  FALSE
      OBVIOUS
  <2>0. SessionsKnown BY WhoHasSessions DEF IInv
  <2> USE DEF IInv, Types
  <2>1. p \in active_chain /\ \A q \in Sessions(b) : ClientName[q] # ClientName[p]
    <3>1. ASSUME NEW c \in Pids, TryLockClientName(c)
          PROVE  p \in active_chain /\ \A q \in Sessions(b) : ClientName[q] # ClientName[p]
      <4>1. CASE RemoveOrphans(c) BY <4>1 DEF RemoveOrphans, Orphans
      <4>2. CASE CheckSchema(c) \/ CheckName(c)  BY <4>2 DEF CheckSchema, CheckName
      <4>3. CASE RemoveDisconnected(c) BY <4>3 DEF RemoveDisconnected, Purge
      <4>4. CASE Commit(c) BY <4>4 DEF Commit
      <4> QED BY <3>1, <4>1, <4>2, <4>3, <4>4 DEF TryLockClientName
    <3>2. ASSUME NEW c \in Pids, PoolStep(c) PROVE orphaned'[b] \subseteq orphaned[b]
          BY <3>2 DEF PoolStep, Abort, BackendExits, CloseConnection, InsertChainRunStatus,
                      RemoveChainRunStatus, Finalize, backendVars
    <3>3. ASSUME NEW q \in Clients, ClientStep(q) PROVE orphaned'[b] \subseteq orphaned[b]
          BY <3>3 DEF ClientStep, Connect, Start, Bootstrap, Stop, Die, backendVars
    <3>4. ASSUME ServerRestarts \/ AllGone PROVE orphaned'[b] \subseteq orphaned[b]
          BY <3>4 DEF ServerRestarts, AllGone, vars, backendVars
    <3> QED BY <3>1, <3>2, <3>3, <3>4 DEF Next
  <2>2. PICK c \in Pids : backend[c] = p /\ at[c] = "locked" BY DEF Connected
  <2>3. Guarded(c) /\ ~Finalized(p)
        BY <2>1, <2>2, ClientSessionAssumption DEF Guarded, Connected, Gone, Finalized
  <2>4. p \in Sessions(b) BY <2>2, <2>3, <2>0 DEF SessionsKnown, Exclusive, LockedIsRegistered
  <2> QED BY <2>1, <2>4
<1> QED BY <1>1, IInvHolds, PTL DEF Spec, OrphansHaveNoClient
-----------------------------------------------------------------------------
(* Rows that are about to go, and the pool.                                *)

\* A transaction that has deleted rows of active_chain keeps them for itself until it ends.
OrphansApart ==
    /\ \A b \in Pids : orphaned[b] \subseteq active_chain
    /\ \A b \in Pids : at[b] \notin {"check", "insert", "refuse"} => orphaned[b] = {}
    /\ \A b, c \in Pids : b # c => orphaned[b] \cap orphaned[c] = {}

FaultsBounded == faults \in 0..MaxFaults
PoolBounded == \A p \in Clients : ~Gone(p) => Cardinality(Open(p)) <= Capacity(p)

\* A transaction that nobody disputes deletes what no other one has deleted.
LEMMA OrphansStep == Types /\ Backends /\ OrphansApart /\ [Next]_vars => OrphansApart'
<1> SUFFICES ASSUME Types, Backends, OrphansApart, [Next]_vars PROVE OrphansApart' OBVIOUS
<1> USE DEF Types, Backends, OrphansApart, tables, backendVars, InLock, Pooled
<1>1. ASSUME NEW b \in Pids, TryLockClientName(b) PROVE OrphansApart'
  <2>1. CASE CheckSchema(b) BY <2>1 DEF CheckSchema
  <2>2. CASE RemoveDisconnected(b) BY <2>2 DEF RemoveDisconnected, Purge
  <2>3. CASE RemoveOrphans(b)
    <3>1. PICK chains \in SUBSET active_chain :
            Undisputed({}, chains, b) /\ orphaned' = [orphaned EXCEPT ![b] = chains]
          BY <2>3 DEF RemoveOrphans, Orphans
    <3>2. \A c \in Pids \ {b} : orphaned[c] \cap chains = {} BY <3>1 DEF Undisputed
    <3>3. at' = [at EXCEPT ![b] = "check"] /\ active_chain' = active_chain
          BY <2>3 DEF RemoveOrphans, Orphans
    <3> QED BY <3>1, <3>2, <3>3
  <2>4. CASE CheckName(b) BY <2>4 DEF CheckName
  <2>5. CASE Commit(b) BY <2>5 DEF Commit
  <2> QED BY <1>1, <2>1, <2>2, <2>3, <2>4, <2>5 DEF TryLockClientName
<1>2. ASSUME NEW b \in Pids, PoolStep(b) PROVE OrphansApart'
  <2>1. CASE Abort(b) BY <2>1 DEF Abort
  <2>2. CASE BackendExits(b) BY <2>2 DEF BackendExits
  <2>3. CASE CloseConnection(b) BY <2>3 DEF CloseConnection
  <2>4. CASE InsertChainRunStatus(b) BY <2>4 DEF InsertChainRunStatus
  <2>5. ASSUME NEW chains, Undisputed({}, chains, b) \/ Undisputed(Pids \X Namesakes(backend[b]), chains, b),
               at[b] \in Pooled, active_chain' = active_chain \ chains, UNCHANGED <<at, orphaned>>
        PROVE  OrphansApart'
    <3>1. \A c \in Pids : orphaned[c] \cap chains = {} BY <2>5 DEF Undisputed
    <3> QED BY <2>5, <3>1
  <2>6. CASE RemoveChainRunStatus(b)
    <3> DEFINE chains == active_chain \cap Namesakes(backend[b])
    <3>1. Undisputed({}, chains, b) /\ active_chain' = active_chain \ chains
          /\ at[b] \in Pooled /\ UNCHANGED <<at, orphaned>>
          BY <2>6 DEF RemoveChainRunStatus
    <3> HIDE DEF chains
    <3> QED BY <2>5, <3>1
  <2>7. CASE Finalize(b)
    <3> DEFINE chains == active_chain \cap Namesakes(backend[b])
    <3>1. Undisputed(Pids \X Namesakes(backend[b]), chains, b) /\ active_chain' = active_chain \ chains
          /\ at[b] \in Pooled /\ UNCHANGED <<at, orphaned>>
          BY <2>7 DEF Finalize
    <3> HIDE DEF chains
    <3> QED BY <2>5, <3>1
  <2> QED BY <1>2, <2>1, <2>2, <2>3, <2>4, <2>6, <2>7 DEF PoolStep
<1>3. ASSUME NEW p \in Clients, ClientStep(p) PROVE OrphansApart'
      BY <1>3 DEF ClientStep, Connect, Start, Bootstrap, Stop, Die
<1>4. CASE ServerRestarts BY <1>4 DEF ServerRestarts
<1>5. CASE UNCHANGED vars BY <1>5 DEF vars
<1> QED BY <1>1, <1>2, <1>3, <1>4, <1>5 DEF Next, AllGone

\* Only Connect opens a connection, and no client gets room for fewer.
LEMMA PoolStepBound == Types /\ Backends /\ PoolBounded /\ [Next]_vars => PoolBounded'
<1> SUFFICES ASSUME Types, Backends, PoolBounded, [Next]_vars, NEW p \in Clients, ~Gone(p)'
             PROVE  Cardinality(Open(p)') <= Capacity(p)'
    BY DEF PoolBounded
<1>1. \A q : /\ Open(q) \subseteq Pids /\ IsFiniteSet(Open(q)) /\ Cardinality(Open(q)) \in Nat
  <2>1. MaxPid \in Int /\ 1 \in Int /\ IsFiniteSet(Pids)
        BY ClientSessionAssumption, FS_Interval DEF Pids
  <2> QED BY <2>1, FS_Subset, FS_CardinalityType DEF Open
<1>2. ASSUME Open(p)' \subseteq Open(p), client'[p] = client[p] PROVE Cardinality(Open(p)') <= Capacity(p)'
  <2>1. Cardinality(Open(p)') <= Cardinality(Open(p)) /\ Cardinality(Open(p)') \in Nat
        BY <1>1, <1>2, FS_Subset, FS_CardinalityType
  <2>2. Capacity(p)' = Capacity(p) /\ ~Gone(p) BY <1>2 DEF Capacity, Gone
  <2>3. Capacity(p) \in Nat BY ClientSessionAssumption DEF Capacity, Types, Gone
  <2> QED BY <1>1, <2>1, <2>2, <2>3 DEF PoolBounded
<1>3. ASSUME \A b \in Pids : \/ at'[b] = at[b] /\ backend'[b] = backend[b]
                             \/ at'[b] = "closing" \/ backend'[b] = None
                             \/ at[b] # "closing" /\ backend'[b] = backend[b]
      PROVE  Open(p)' \subseteq Open(p)
      BY <1>3, ClientSessionAssumption DEF Open
<1>4. ASSUME NEW b \in Pids, TryLockClientName(b) PROVE Cardinality(Open(p)') <= Capacity(p)'
  <2>1. client' = client BY <1>4 DEF TryLockClientName, CheckSchema, RemoveDisconnected, Purge,
                               RemoveOrphans, Orphans, CheckName, Commit
  <2>2. /\ backend' = backend /\ at[b] # "closing" /\ \A c \in Pids \ {b} : at'[c] = at[c]
        BY <1>4 DEF TryLockClientName, CheckSchema, RemoveDisconnected, Purge,
                    RemoveOrphans, Orphans, CheckName, Commit, Types
  <2> QED BY <1>2, <1>3, <2>1, <2>2
<1>5. ASSUME NEW b \in Pids, PoolStep(b) PROVE Cardinality(Open(p)') <= Capacity(p)'
  <2>1. client'[p] = client[p]
    <3>1. CASE Finalize(b)
      <4>1. backend[b] # None /\ backend[b] \in Clients BY <3>1 DEF Finalize, Types, Backends, Pooled
      <4>2. p # backend[b] BY <3>1, <4>1 DEF Finalize, Types, Gone
      <4> QED BY <3>1, <4>2 DEF Finalize, Types
    <3>2. CASE client' = client BY <3>2
    <3> QED BY <1>5, <3>1, <3>2 DEF PoolStep, Abort, BackendExits, CloseConnection,
               InsertChainRunStatus, RemoveChainRunStatus
  <2>2. /\ \A c \in Pids \ {b} : at'[c] = at[c] /\ backend'[c] = backend[c]
        /\ \/ at'[b] = at[b] /\ backend'[b] = backend[b]
           \/ at'[b] = "closing" \/ backend'[b] = None
        BY <1>5 DEF PoolStep, Abort, BackendExits, CloseConnection, InsertChainRunStatus,
                    RemoveChainRunStatus, Finalize, Types, backendVars
  <2> QED BY <1>2, <1>3, <2>1, <2>2
<1>6. ASSUME NEW q \in Clients, ClientStep(q) PROVE Cardinality(Open(p)') <= Capacity(p)'
  <2>1. CASE Connect(q)
    <3>1. PICK b \in Pids : /\ backend[b] = None /\ backend' = [backend EXCEPT ![b] = q]
                            /\ at' = [at EXCEPT ![b] = "regproc"]
          BY <2>1 DEF Connect
    <3>2. client' = client /\ Cardinality(Open(q)) < Capacity(q) BY <2>1 DEF Connect
    <3>3. CASE p # q
      <4>1. Open(p)' \subseteq Open(p) BY <3>1, <3>3 DEF Open, Types
      <4> QED BY <1>2, <3>2, <4>1
    <3>4. CASE p = q
      <4>0. PICK O : O = Open(p) \cup {b} OBVIOUS
      <4>1. Open(p)' \subseteq O BY <3>1, <4>0 DEF Open, Types
      <4>2. IsFiniteSet(O) /\ Cardinality(O) <= Cardinality(Open(p)) + 1 /\ Cardinality(O) \in Nat
        <5>1. IsFiniteSet(Open(p)) /\ Cardinality(Open(p)) \in Nat BY <1>1
        <5>2. /\ IsFiniteSet(Open(p) \cup {b})
              /\ Cardinality(Open(p) \cup {b}) =
                   IF b \in Open(p) THEN Cardinality(Open(p)) ELSE Cardinality(Open(p)) + 1
              BY <5>1, FS_AddElement
        <5> QED BY <4>0, <5>1, <5>2
      <4>3. Cardinality(Open(p)') <= Cardinality(O) /\ Cardinality(Open(p)') \in Nat
            BY <4>1, <4>2, FS_Subset, FS_CardinalityType
      <4>4. Capacity(p)' = Capacity(p) /\ Capacity(p) \in Nat
            BY <3>2, ClientSessionAssumption DEF Capacity, Types
      <4> QED BY <1>1, <3>2, <3>4, <4>2, <4>3, <4>4
    <3> QED BY <3>3, <3>4
  <2>2. CASE Start(q) \/ Bootstrap(q) \/ Stop(q) \/ Die(q)
    <3>1. at' = at /\ backend' = backend BY <2>2 DEF Start, Bootstrap, Stop, Die, backendVars
    <3>2. Open(p)' = Open(p) BY <3>1 DEF Open
    <3>3. ~Gone(p) /\ Capacity(p) <= Capacity(p)' /\ Capacity(p) \in Nat /\ Capacity(p)' \in Nat
          BY <2>2, ClientSessionAssumption DEF Start, Bootstrap, Stop, Die, Gone, Capacity, Types
    <3>4. Cardinality(Open(p)) <= Capacity(p) BY <3>3 DEF PoolBounded
    <3> QED BY <1>1, <3>2, <3>3, <3>4
  <2> QED BY <1>6, <2>1, <2>2 DEF ClientStep
<1>7. CASE ServerRestarts
  <2>1. client' = client /\ Open(p)' = {}
        BY <1>7, ClientSessionAssumption DEF ServerRestarts, Open
  <2> QED BY <1>2, <2>1
<1>8. CASE UNCHANGED vars
      BY <1>2, <1>3, <1>8 DEF vars, backendVars
<1> QED BY <1>4, <1>5, <1>6, <1>7, <1>8 DEF Next, AllGone

\* The rows a transaction has deleted are still in the table for the others, and a pool never has
\* more connections than it may have (New, AfterConnect, Finalize).
THEOREM TypeCorrect == Spec => []TypeOK
<1>1. Init => OrphansApart /\ PoolBounded /\ FaultsBounded
  <2> SUFFICES ASSUME Init PROVE OrphansApart /\ PoolBounded /\ FaultsBounded OBVIOUS
  <2>1. \A p \in Clients : Open(p) = {} BY ClientSessionAssumption DEF Init, Open
  <2>2. \A p \in Clients : Capacity(p) = 0 BY DEF Init, Capacity
  <2> QED BY <2>1, <2>2, FS_EmptySet, ClientSessionAssumption DEF Init, OrphansApart, PoolBounded, FaultsBounded
<1>2. FaultsBounded /\ [Next]_vars => FaultsBounded'
  <2> SUFFICES ASSUME faults \in 0..MaxFaults, [Next]_vars PROVE faults' \in 0..MaxFaults
      BY DEF FaultsBounded
  <2>1. faults' = faults \/ (faults < MaxFaults /\ faults' = faults + 1)
        BY DEF Next, TryLockClientName, PoolStep, ClientStep, AllGone, CheckSchema, RemoveDisconnected,
               Purge, RemoveOrphans, Orphans, CheckName, Commit, Abort, BackendExits, CloseConnection,
               InsertChainRunStatus, RemoveChainRunStatus, Finalize, Connect, Start, Bootstrap, Stop,
               Die, ServerRestarts, vars
  <2> QED BY <2>1, ClientSessionAssumption
<1>3. IInv /\ OrphansApart /\ PoolBounded /\ FaultsBounded => TypeOK
      BY DEF IInv, Types, Backends, OrphansApart, PoolBounded, FaultsBounded, TypeOK
<1>4. IInv => Types /\ Backends BY DEF IInv
<1> QED BY <1>1, <1>2, <1>3, <1>4, OrphansStep, PoolStepBound, IInvHolds, PTL DEF Spec
=============================================================================
