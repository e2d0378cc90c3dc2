----------------------------- MODULE PoolProofs -----------------------------
(***************************************************************************)
(* The pool of connections, and the log hook that is one of its users.  For *)
(* every number of workers and of other users: what an idle worker holds,   *)
(* and why the workers never wait for one another in a circle.  For any     *)
(* goroutines, numbers of entries and limit: timetable.log gets every entry *)
(* at most once and in order, and every entry that it does not get has been *)
(* given up knowingly.                                                      *)
(***************************************************************************)
EXTENDS ConnectionPool, LogHook, FiniteSetTheorems, TLAPS

-----------------------------------------------------------------------------
(* The pool.                                                                *)

\* A connection is held for a statement only while that statement runs.
QueryAtStatement == \A p \in query : pc[p] \in Statements

\* Finalize runs when the process ends, and Close when nobody holds a connection.
PcType ==
    /\ pc \in [Procs -> Steps]
    /\ \A w \in Workers : pc[w] \in WorkerStep
    /\ \A c \in Clerks : pc[c] \in {"idle", "ask"}
    /\ pc[Main] \in MainSteps

HoldType ==
    /\ tx \subseteq Workers
    /\ query \subseteq Procs
    /\ leaked \in Nat

PoolInv == PcType /\ HoldType /\ QueryAtStatement /\ IdleHoldsNothing /\ InUse <= MaxConns

-----------------------------------------------------------------------------
\* The counts of MaxConns are those of finite sets.
LEMMA PoolIsFinite ==
    ASSUME HoldType
    PROVE  /\ IsFiniteSet(tx) /\ IsFiniteSet(query) /\ IsFiniteSet(Workers)
           /\ Cardinality(tx) \in Nat /\ Cardinality(query) \in Nat
           /\ Cardinality(Workers) \in Nat
           /\ Cardinality(tx) <= Cardinality(Workers)
<1>1. IsFiniteSet(Workers) /\ IsFiniteSet(Clerks) BY PoolAssumption
<1>2. IsFiniteSet(Procs) BY <1>1, FS_Union, FS_Singleton DEF Procs
<1>3. IsFiniteSet(tx) /\ Cardinality(tx) <= Cardinality(Workers)
      BY <1>1, FS_Subset DEF HoldType
<1>4. IsFiniteSet(query) BY <1>2, FS_Subset DEF HoldType
<1> QED BY <1>1, <1>3, <1>4, FS_CardinalityType

\* One more holder in a set, and one fewer.
LEMMA AddOne ==
    ASSUME NEW S, IsFiniteSet(S), NEW x, x \notin S
    PROVE  Cardinality(S \cup {x}) = Cardinality(S) + 1
BY FS_AddElement

\* Taking one element away takes one from the count.
LEMMA RemoveOne ==
    ASSUME NEW S, IsFiniteSet(S), NEW x
    PROVE  /\ Cardinality(S \ {x}) <= Cardinality(S)
           /\ x \in S => Cardinality(S \ {x}) = Cardinality(S) - 1
           /\ Cardinality(S \ {x}) \in Nat
BY FS_RemoveElement, FS_CardinalityType, FS_Subset

-----------------------------------------------------------------------------
\* Goroutines of three kinds, none of two.
LEMMA Kinds ==
    /\ Workers \subseteq Procs /\ Clerks \subseteq Procs /\ Main \in Procs
    /\ Main \notin Workers /\ Main \notin Clerks
    /\ \A w \in Workers : w \notin Clerks
BY PoolAssumption DEF Procs

\* An answer or a refusal keeps a worker on its own steps, and on the same side of the
\* transaction: neither opens nor ends one.
LEMMA StatementSides ==
    ASSUME NEW from, NEW to,
           <<from, to>> \in AfterStatement \/ <<from, to>> \in OnError
    PROVE  /\ from \in Statements
           /\ to \in Steps
           /\ from \in WorkerStep => to \in WorkerStep
           /\ from \in {"idle", "ask"} => to \in {"idle", "ask"}
           /\ from \in MainSteps => to \in MainSteps
           /\ from \in WorkerStep => (from \in InTx <=> to \in InTx)
BY SMTT(30) DEF AfterStatement, AfterCopy, AfterCopyLogged, OnError, TaskOver, Statements,
                Steps, WorkerStep, MainSteps, InTx, Begins

\* At the start nobody holds a connection.
LEMMA InitPool == PoolInit => PoolInv
<1> SUFFICES ASSUME PoolInit PROVE PoolInv OBVIOUS
<1>1. PcType BY Kinds DEF PoolInit, PcType, Steps, WorkerStep, MainSteps
<1>2. HoldType BY DEF PoolInit, HoldType
<1>3. QueryAtStatement BY DEF PoolInit, QueryAtStatement
<1>4. IdleHoldsNothing BY Kinds DEF PoolInit, IdleHoldsNothing, InTx
<1>5. InUse <= MaxConns
      BY <1>2, PoolIsFinite, FS_EmptySet DEF PoolInit, InUse, MaxConns
<1> QED BY <1>1, <1>2, <1>3, <1>4, <1>5 DEF PoolInv

\* Who holds what, and where, after a step of the pool.
LEMMA StatementStepInv ==
    ASSUME PoolInv, NEW p \in Procs, PoolStep(p)
    PROVE  PoolInv'
<1>1. CASE Acquire(p)
  <2>1. PcType' BY <1>1 DEF PoolInv, PcType, Acquire
  <2>2. HoldType' BY <1>1 DEF PoolInv, HoldType, Acquire
  <2>3. QueryAtStatement' BY <1>1 DEF PoolInv, QueryAtStatement, Acquire
  <2>4. IdleHoldsNothing' BY <1>1 DEF PoolInv, IdleHoldsNothing, Acquire
  <2>5. Cardinality(query') = Cardinality(query) + 1
        BY <1>1, PoolIsFinite, AddOne DEF PoolInv, Acquire
  <2>6. (InUse <= MaxConns)'
        BY <1>1, <2>5, PoolIsFinite DEF PoolInv, HoldType, Acquire, InUse, MaxConns
  <2> QED BY <2>1, <2>2, <2>3, <2>4, <2>6 DEF PoolInv
<1>2. ASSUME NEW step \in Steps, Answered(p, step) \/ Refused(p, step)
      PROVE  PoolInv'
  <2>1. <<pc[p], step>> \in AfterStatement \/ <<pc[p], step>> \in OnError
        BY <1>2 DEF Answered, Refused
  <2>2. /\ pc' = [pc EXCEPT ![p] = step]
        /\ tx' = tx /\ leaked' = leaked /\ query' = query \ {p}
        BY <1>2 DEF Answered, Refused, Goto
  <2>3. PcType' BY <2>1, <2>2, StatementSides, Kinds DEF PoolInv, PcType
  <2>4. HoldType' BY <2>2 DEF PoolInv, HoldType
  <2>5. QueryAtStatement'
        BY <2>2 DEF PoolInv, QueryAtStatement, PcType, HoldType
  <2>6. IdleHoldsNothing'
        BY <2>1, <2>2, StatementSides, Kinds DEF PoolInv, IdleHoldsNothing, PcType
  <2>7. Cardinality(query') <= Cardinality(query) /\ Cardinality(query') \in Nat
        BY <2>2, PoolIsFinite, RemoveOne DEF PoolInv
  <2>8. (InUse <= MaxConns)'
        BY <2>2, <2>7, PoolIsFinite DEF PoolInv, HoldType, InUse, MaxConns
  <2> QED BY <2>3, <2>4, <2>5, <2>6, <2>8 DEF PoolInv
<1> QED BY <1>1, <1>2 DEF PoolStep

\* A worker's transaction begins and ends; the connection is lost or given back.
LEMMA TxStepInv ==
    ASSUME PoolInv, NEW w \in Workers, TxStep(w)
    PROVE  PoolInv'
<1> w \in Procs BY Kinds
<1>1. CASE Begin(w)
  <2>1. pc[w] \in Begins /\ w \notin tx /\ w \notin query
        BY <1>1 DEF Begin, PoolInv, IdleHoldsNothing, InTx, Begins, QueryAtStatement, Statements
  <2>2. PcType' BY <1>1, Kinds DEF PoolInv, PcType, Begin, Goto, Steps, WorkerStep, InTx
  <2>3. HoldType' BY <1>1 DEF PoolInv, HoldType, Begin
  <2>4. QueryAtStatement'
        BY <1>1, <2>1 DEF PoolInv, QueryAtStatement, Begin, Goto, PcType
  <2>5. IdleHoldsNothing' BY <1>1, Kinds DEF PoolInv, IdleHoldsNothing, Begin, Goto, PcType, InTx
  <2>6. Cardinality(tx') = Cardinality(tx) + 1
        BY <1>1, <2>1, PoolIsFinite, AddOne DEF PoolInv, Begin
  <2>7. (InUse <= MaxConns)'
        BY <1>1, <2>6, PoolIsFinite DEF PoolInv, HoldType, Begin, InUse, MaxConns
  <2> QED BY <2>2, <2>3, <2>4, <2>5, <2>7 DEF PoolInv
<1>2. CASE BeginFails(w) \/ VirtualXid(w)
  <2>1. PICK step \in WorkerStep :
           /\ pc' = [pc EXCEPT ![w] = step]
           /\ step \in InTx <=> pc[w] \in InTx
        BY <1>2 DEF BeginFails, VirtualXid, Goto, WorkerStep, InTx
  <2>2. UNCHANGED <<tx, query, leaked>> /\ pc[w] \notin Statements
        BY <1>2 DEF BeginFails, VirtualXid, Statements
  <2>3. PcType' BY <2>1, Kinds DEF PoolInv, PcType, Steps
  <2>4. HoldType' BY <2>2 DEF PoolInv, HoldType
  <2>5. QueryAtStatement' BY <2>1, <2>2 DEF PoolInv, QueryAtStatement, PcType
  <2>6. IdleHoldsNothing' BY <2>1, <2>2, Kinds DEF PoolInv, IdleHoldsNothing, PcType
  <2>7. (InUse <= MaxConns)' BY <2>2 DEF PoolInv, InUse, MaxConns
  <2> QED BY <2>3, <2>4, <2>5, <2>6, <2>7 DEF PoolInv
<1>3. CASE VirtualXidFails(w) \/ CommitTransaction(w) \/ RollbackTransaction(w)
  <2>1. PICK step \in WorkerStep \ InTx :
           pc' = [pc EXCEPT ![w] = step]
        BY <1>3 DEF VirtualXidFails, CommitTransaction, RollbackTransaction, Goto,
                    WorkerStep, InTx, Begins
  <2>2. /\ tx' = tx \ {w} /\ query' = query
        /\ leaked' = leaked + 1 \/ leaked' = leaked
        /\ pc[w] \in InTx /\ pc[w] \notin Statements
        BY <1>3 DEF VirtualXidFails, CommitTransaction, RollbackTransaction, InTx, Statements
  <2>3. PcType' BY <2>1, Kinds DEF PoolInv, PcType, Steps
  <2>4. HoldType' BY <2>2 DEF PoolInv, HoldType
  <2>5. QueryAtStatement' BY <2>1, <2>2 DEF PoolInv, QueryAtStatement, PcType
  <2>6. IdleHoldsNothing' BY <2>1, <2>2, Kinds DEF PoolInv, IdleHoldsNothing, PcType
  <2>7. w \in tx BY <2>2 DEF PoolInv, IdleHoldsNothing
  <2>8. Cardinality(tx') = Cardinality(tx) - 1 BY <2>2, <2>7, PoolIsFinite, RemoveOne DEF PoolInv
  <2>9. (InUse <= MaxConns)'
        BY <2>2, <2>8, PoolIsFinite DEF PoolInv, HoldType, InUse, MaxConns
  <2> QED BY <2>3, <2>4, <2>5, <2>6, <2>9 DEF PoolInv
<1> QED BY <1>1, <1>2, <1>3 DEF TxStep

\* What moves a goroutine without the pool.
LEMMA OtherStepInv ==
    ASSUME PoolInv,
           \/ \E w \in Workers : WorkStep(w)
           \/ \E c \in Clerks : Ask(c)
           \/ MainStep
    PROVE  PoolInv'
<1>1. PICK p \in Procs, step \in Steps :
         /\ pc' = [pc EXCEPT ![p] = step]
         /\ pc[p] \notin Statements
         /\ p \in Workers => step \in WorkerStep /\ (step \in InTx <=> pc[p] \in InTx)
         /\ p \in Clerks => step \in {"idle", "ask"}
         /\ p = Main => step \in MainSteps
      BY Kinds DEF WorkStep, Receive, TaskRuns, StandaloneRuns, Ask, MainStep, RunReturns,
                   CloseReturns, NilPool, Exit, Goto, TaskOver, Steps, WorkerStep, MainSteps,
                   InTx, Begins, Statements
<1>2. UNCHANGED <<tx, query, leaked>>
      BY DEF WorkStep, Receive, TaskRuns, StandaloneRuns, Ask, MainStep, RunReturns,
             CloseReturns, NilPool, Exit
<1>3. PcType' BY <1>1, Kinds DEF PoolInv, PcType
<1>4. HoldType' BY <1>2 DEF PoolInv, HoldType
<1>5. QueryAtStatement' BY <1>1, <1>2 DEF PoolInv, QueryAtStatement, PcType
<1>6. IdleHoldsNothing' BY <1>1, <1>2, Kinds DEF PoolInv, IdleHoldsNothing, PcType
<1>7. (InUse <= MaxConns)' BY <1>2 DEF PoolInv, InUse, MaxConns
<1> QED BY <1>3, <1>4, <1>5, <1>6, <1>7 DEF PoolInv

\* Every step preserves the inductive invariant of the pool.
LEMMA NextPool == PoolInv /\ [PoolNext]_poolVars => PoolInv'
<1> SUFFICES ASSUME PoolInv, [PoolNext]_poolVars PROVE PoolInv' OBVIOUS
<1>1. CASE UNCHANGED poolVars
  <2> USE <1>1 DEF poolVars
  <2>1. PcType' /\ HoldType' /\ QueryAtStatement' /\ IdleHoldsNothing'
        BY DEF PoolInv, PcType, HoldType, QueryAtStatement, IdleHoldsNothing
  <2>2. (InUse <= MaxConns)' BY DEF PoolInv, InUse, MaxConns
  <2> QED BY <2>1, <2>2 DEF PoolInv
<1> QED BY <1>1, StatementStepInv, TxStepInv, OtherStepInv DEF PoolNext

\* The inductive invariant of the pool holds in every state.
THEOREM PoolInvariant == PoolSpec => []PoolInv
BY InitPool, NextPool, PTL DEF PoolSpec

-----------------------------------------------------------------------------
\* The steps of the goroutines, who can hold what, and never more than MaxConns of them.
THEOREM PoolTypeCorrect == PoolSpec => []PoolTypeOK
<1>1. PoolInv => PoolTypeOK BY DEF PoolInv, PcType, HoldType, PoolTypeOK
<1> QED BY <1>1, PoolInvariant, PTL

\* Every path out of executeChain and executeOnErrorHandler gives the transaction's
\* connection back or loses it in StartTransaction.
THEOREM NothingHeldWhenIdle == PoolSpec => []IdleHoldsNothing
<1>1. PoolInv => IdleHoldsNothing BY DEF PoolInv
<1> QED BY <1>1, PoolInvariant, PTL

\* Transactions alone cannot fill a pool with three connections to spare.
THEOREM NoCircle == PoolSpec => []NobodyWaitsInCircle
<1>1. PoolInv => NobodyWaitsInCircle
  <2> SUFFICES ASSUME PoolInv, leaked < 3, InUse = MaxConns, query = {} PROVE FALSE
      BY DEF NobodyWaitsInCircle
  <2>1. Cardinality(query) = 0 BY FS_EmptySet
  <2> QED BY <2>1, PoolIsFinite DEF PoolInv, HoldType, InUse, MaxConns
<1> QED BY <1>1, PoolInvariant, PTL

\* Close has waited for every transaction and every statement, and once it has, none begins.
THEOREM NobodyCut == PoolSpec => []FinalizeCutsNobody
<1>1. PoolInit => FinalizeCutsNobody BY Kinds DEF PoolInit, FinalizeCutsNobody
<1>2. PoolInv /\ FinalizeCutsNobody /\ [PoolNext]_poolVars => FinalizeCutsNobody'
  <2> SUFFICES ASSUME PoolInv, FinalizeCutsNobody, [PoolNext]_poolVars PROVE FinalizeCutsNobody' OBVIOUS
  <2>1. CASE UNCHANGED poolVars BY <2>1 DEF poolVars, FinalizeCutsNobody
  <2>2. CASE ~Over /\ \E p \in Procs : PoolStep(p)
    <3>1. PICK p \in Procs : PoolStep(p) BY <2>2
    <3>2. CASE Acquire(p)
          BY <2>2, <3>2 DEF Acquire, Closed, FinalizeCutsNobody, Over, PoolInv, PcType,
                      MainSteps, Statements
    <3>3. ASSUME NEW step \in Steps, Answered(p, step) \/ Refused(p, step)
          PROVE  FinalizeCutsNobody'
      <4>1. <<pc[p], step>> \in AfterStatement \/ <<pc[p], step>> \in OnError
            BY <3>3 DEF Answered, Refused
      <4>2. p = Main => step = "closing"
            BY <4>1, SMTT(30) DEF AfterStatement, AfterCopy, AfterCopyLogged, OnError, TaskOver,
                                  PoolInv, PcType, MainSteps
      <4>3. pc'[Main] = pc[Main] \/ pc'[Main] = "closing"
            BY <3>3, <4>2, Kinds DEF Answered, Refused, Goto, PoolInv, PcType
      <4> QED BY <3>3, <4>3 DEF Answered, Refused, FinalizeCutsNobody
    <3> QED BY <3>1, <3>2, <3>3 DEF PoolStep
  <2>3. CASE ~Over /\ \E w \in Workers : TxStep(w)
    <3>1. PICK w \in Workers : TxStep(w) BY <2>3
    <3>2. pc'[Main] = pc[Main]
          BY <3>1, Kinds DEF TxStep, Begin, BeginFails, VirtualXid, VirtualXidFails,
                  CommitTransaction, RollbackTransaction, Goto, PoolInv, PcType
    <3>3. tx = {} => pc[w] \notin InTx BY DEF PoolInv, IdleHoldsNothing
    <3> QED BY <2>3, <3>1, <3>2, <3>3
            DEF TxStep, Begin, BeginFails, VirtualXid, VirtualXidFails, CommitTransaction,
                RollbackTransaction, FinalizeCutsNobody, Over, Closed, InTx
  <2>4. CASE (\E w \in Workers : WorkStep(w)) \/ (\E c \in Clerks : Ask(c))
        BY <2>4, Kinds DEF WorkStep, Receive, TaskRuns, StandaloneRuns, Ask, Goto,
             FinalizeCutsNobody, PoolInv, PcType
  <2>5. CASE MainStep
    <3>1. CASE CloseReturns
      <4>1. Cardinality(tx) = 0 /\ Cardinality(query) = 0 /\ leaked = 0
            BY <3>1, PoolIsFinite DEF CloseReturns, InUse, PoolInv, HoldType
      <4>2. tx = {} /\ query = {} BY <4>1, PoolIsFinite, FS_EmptySet DEF PoolInv
      <4> QED BY <3>1, <4>1, <4>2 DEF CloseReturns, FinalizeCutsNobody
    <3> QED BY <2>5, <3>1, Kinds DEF MainStep, RunReturns, NilPool, Exit, Goto,
                FinalizeCutsNobody, PoolInv, PcType
  <2> QED BY <2>1, <2>2, <2>3, <2>4, <2>5 DEF PoolNext
<1> QED BY <1>1, <1>2, PoolInvariant, PTL DEF PoolSpec

-----------------------------------------------------------------------------
(* The log hook.                                                            *)

Sorted(s) == \A i, j \in DOMAIN s : i < j /\ s[i].from = s[j].from => s[i].no < s[j].no

Elements(s) == {s[i] : i \in DOMAIN s}

OlderThan(S, T) == \A d \in S, e \in T : d.from = e.from => d.no < e.no

\* poll goes on caching only while the cache has room.
CacheHasRoom == poll \in {"check", "select"} => Len(cache) < CacheLimit

\* Whoever waits in Fire waits with its latest entry, and everything it logged before is older.
FiringIsLatest ==
    \A g \in Goroutines : firing[g] # None => firing[g].from = g /\ firing[g].no = fired[g]

Older(e) ==
    /\ e.no <= fired[e.from]
    /\ firing[e.from] # None => e.no < fired[e.from]

\* An entry goes from the channel to the cache to the table, and none overtakes another.
InOrder ==
    /\ Sorted(log) /\ Sorted(cache) /\ Sorted(input)
    /\ OlderThan(Elements(log), Elements(cache) \cup Elements(input))
    /\ OlderThan(Elements(cache), Elements(input))
    /\ \A e \in Elements(log) \cup Elements(cache) \cup Elements(input) : Older(e)

IInv == TypeOK /\ CacheHasRoom /\ FiringIsLatest /\ InOrder /\ EntriesAccountedFor

-----------------------------------------------------------------------------
(* Entries and sequences.                                                  *)

\* An entry is a goroutine and a number.
LEMMA EntryParts ==
    /\ \A e \in Entries : /\ e.from \in Goroutines /\ e.no \in 1..MaxEntries[e.from]
                          /\ e.no \in Nat \ {0} /\ e = [from |-> e.from, no |-> e.no]
    /\ \A g \in Goroutines : \A n \in 1..MaxEntries[g] : [from |-> g, no |-> n] \in Entries
BY LogHookAssumption DEF Entries

\* The empty sequence.
LEMMA NoEntry == <<>> \in Seq(Entries) /\ Len(<<>>) = 0 /\ DOMAIN <<>> = {}
OBVIOUS

\* What an element more, the first one less, or a second sequence does to the elements.
LEMMA Appended ==
    ASSUME NEW s \in Seq(Entries), NEW e \in Entries
    PROVE  /\ Append(s, e) \in Seq(Entries) /\ Len(Append(s, e)) = Len(s) + 1
           /\ DOMAIN s = 1..Len(s) /\ DOMAIN Append(s, e) = 1..(Len(s) + 1) /\ Len(s) \in Nat
           /\ Append(s, e)[Len(s) + 1] = e
           /\ \A i \in DOMAIN s : Append(s, e)[i] = s[i]
OBVIOUS

\* Without its first element.
LEMMA HeadTail ==
    ASSUME NEW s \in Seq(Entries), s # <<>>
    PROVE  /\ Head(s) \in Entries /\ Tail(s) \in Seq(Entries)
           /\ 1 \in DOMAIN s /\ Head(s) = s[1]
           /\ Len(Tail(s)) = Len(s) - 1 /\ Len(s) \in Nat
           /\ \A i \in DOMAIN s : i = 1 \/ (i - 1 \in DOMAIN Tail(s) /\ Tail(s)[i - 1] = s[i])
           /\ \A i \in DOMAIN Tail(s) : i \in Nat /\ i > 0 /\ i + 1 \in DOMAIN s
                                        /\ Tail(s)[i] = s[i + 1]
OBVIOUS

\* Behind one another.
LEMMA Joined ==
    ASSUME NEW s \in Seq(Entries), NEW t \in Seq(Entries)
    PROVE  /\ s \o t \in Seq(Entries) /\ Len(s) \in Nat
           /\ DOMAIN s = 1..Len(s) /\ DOMAIN t = 1..Len(t)
           /\ \A i \in DOMAIN s : i \in DOMAIN (s \o t) /\ (s \o t)[i] = s[i]
           /\ \A i \in DOMAIN t : i + Len(s) \in DOMAIN (s \o t) /\ (s \o t)[i + Len(s)] = t[i]
           /\ \A i \in DOMAIN (s \o t) :
                 \/ i \in DOMAIN s /\ (s \o t)[i] = s[i]
                 \/ /\ i \in Nat /\ i > Len(s) /\ i - Len(s) \in DOMAIN t
                    /\ (s \o t)[i] = t[i - Len(s)]
OBVIOUS

\* The same for the sets of their elements.
LEMMA ElementsAppend ==
    ASSUME NEW s \in Seq(Entries), NEW e \in Entries
    PROVE  Elements(Append(s, e)) = Elements(s) \cup {e}
<1> DEFINE t == Append(s, e)
<1>1. /\ DOMAIN s = 1..Len(s) /\ DOMAIN t = 1..(Len(s) + 1) /\ Len(s) \in Nat
      /\ t[Len(s) + 1] = e /\ \A i \in DOMAIN s : t[i] = s[i]
      BY Appended
<1> HIDE DEF t
<1>2. \A i \in DOMAIN t : i \in DOMAIN s \/ i = Len(s) + 1 BY <1>1
<1>3. Elements(t) \subseteq Elements(s) \cup {e} BY <1>1, <1>2 DEF Elements
<1>4. Elements(s) \subseteq Elements(t) BY <1>1 DEF Elements
<1>5. e \in Elements(t) BY <1>1 DEF Elements
<1>6. Elements(t) = Elements(s) \cup {e} BY <1>3, <1>4, <1>5
<1> QED BY <1>6 DEF t

\* Without its first element.
LEMMA ElementsTail ==
    ASSUME NEW s \in Seq(Entries), s # <<>>
    PROVE  Elements(s) = {Head(s)} \cup Elements(Tail(s))
<1> DEFINE t == Tail(s)
<1>1. /\ 1 \in DOMAIN s /\ Head(s) = s[1]
      /\ \A i \in DOMAIN s : i = 1 \/ (i - 1 \in DOMAIN t /\ t[i - 1] = s[i])
      /\ \A i \in DOMAIN t : i + 1 \in DOMAIN s /\ t[i] = s[i + 1]
      BY HeadTail
<1> HIDE DEF t
<1>2. Elements(s) \subseteq {Head(s)} \cup Elements(t)
  <2> SUFFICES ASSUME NEW i \in DOMAIN s PROVE s[i] \in {Head(s)} \cup Elements(t)
      BY DEF Elements
  <2> QED BY <1>1 DEF Elements
<1>3. {Head(s)} \cup Elements(t) \subseteq Elements(s) BY <1>1 DEF Elements
<1> QED BY <1>2, <1>3 DEF t

\* Behind one another.
LEMMA ElementsJoined ==
    ASSUME NEW s \in Seq(Entries), NEW t \in Seq(Entries)
    PROVE  Elements(s \o t) = Elements(s) \cup Elements(t)
<1> DEFINE u == s \o t
<1>1. /\ \A i \in DOMAIN s : i \in DOMAIN u /\ u[i] = s[i]
      /\ \A i \in DOMAIN t : i + Len(s) \in DOMAIN u /\ u[i + Len(s)] = t[i]
      /\ \A i \in DOMAIN u :
            \/ i \in DOMAIN s /\ u[i] = s[i]
            \/ i - Len(s) \in DOMAIN t /\ u[i] = t[i - Len(s)]
      BY Joined
<1> HIDE DEF u
<1>2. Elements(u) \subseteq Elements(s) \cup Elements(t)
  <2> SUFFICES ASSUME NEW i \in DOMAIN u PROVE u[i] \in Elements(s) \cup Elements(t)
      BY DEF Elements
  <2> QED BY <1>1 DEF Elements
<1>3. Elements(s) \subseteq Elements(u) BY <1>1 DEF Elements
<1>4. Elements(t) \subseteq Elements(u)
  <2> SUFFICES ASSUME NEW i \in DOMAIN t PROVE t[i] \in Elements(u) BY DEF Elements
  <2> QED BY <1>1 DEF Elements
<1> QED BY <1>2, <1>3, <1>4 DEF u

\* The empty sequence has none.
LEMMA NoElements == Elements(<<>>) = {}
BY NoEntry DEF Elements

\* All elements are entries.
LEMMA ElementsAreEntries == \A s \in Seq(Entries) : Elements(s) \subseteq Entries
BY DEF Elements

\* Order is kept by what the hook does with its sequences.
LEMMA SortedAppend ==
    ASSUME NEW s \in Seq(Entries), NEW e \in Entries, Sorted(s),
           OlderThan(Elements(s), {e})
    PROVE  Sorted(Append(s, e))
<1> DEFINE t == Append(s, e)
<1>1. /\ DOMAIN s = 1..Len(s) /\ DOMAIN t = 1..(Len(s) + 1) /\ Len(s) \in Nat
      /\ t[Len(s) + 1] = e
      /\ \A i \in DOMAIN s : t[i] = s[i]
      BY Appended
<1> HIDE DEF t
<1>2. ASSUME NEW i \in DOMAIN t, NEW j \in DOMAIN t, i < j, t[i].from = t[j].from
      PROVE  t[i].no < t[j].no
  <2>1. i \in DOMAIN s /\ t[i] = s[i] BY <1>1, <1>2
  <2>2. CASE j = Len(s) + 1
    <3>1. s[i] \in Elements(s) BY <2>1 DEF Elements
    <3> QED BY <1>1, <1>2, <2>1, <2>2, <3>1 DEF OlderThan
  <2>3. CASE j \in DOMAIN s BY <1>1, <1>2, <2>1, <2>3 DEF Sorted
  <2> QED BY <1>1, <2>2, <2>3
<1>3. Sorted(t) BY <1>2 DEF Sorted
<1> QED BY <1>3 DEF t

\* The first element is the oldest of its goroutine.
LEMMA SortedTail ==
    ASSUME NEW s \in Seq(Entries), s # <<>>, Sorted(s)
    PROVE  /\ Sorted(Tail(s))
           /\ OlderThan({Head(s)}, Elements(Tail(s)))
<1> DEFINE t == Tail(s)
<1>1. /\ 1 \in DOMAIN s /\ Head(s) = s[1]
      /\ \A i \in DOMAIN t : i \in Nat /\ i > 0 /\ i + 1 \in DOMAIN s /\ t[i] = s[i + 1]
      BY HeadTail
<1> HIDE DEF t
<1>2. Sorted(t) BY <1>1 DEF Sorted
<1>3. \A i \in DOMAIN t : Head(s).from = t[i].from => Head(s).no < t[i].no
      BY <1>1 DEF Sorted
<1>4. OlderThan({Head(s)}, Elements(t)) BY <1>3 DEF OlderThan, Elements
<1> QED BY <1>2, <1>4 DEF t

\* Two ordered sequences, the first of them older.
LEMMA SortedJoined ==
    ASSUME NEW s \in Seq(Entries), NEW t \in Seq(Entries), Sorted(s), Sorted(t),
           OlderThan(Elements(s), Elements(t))
    PROVE  Sorted(s \o t)
<1> DEFINE u == s \o t
<1>1. /\ Len(s) \in Nat /\ DOMAIN s = 1..Len(s)
      /\ \A i \in DOMAIN u :
            \/ i \in DOMAIN s /\ u[i] = s[i]
            \/ i \in Nat /\ i > Len(s) /\ i - Len(s) \in DOMAIN t /\ u[i] = t[i - Len(s)]
      BY Joined
<1> HIDE DEF u
<1>2. ASSUME NEW i \in DOMAIN u, NEW j \in DOMAIN u, i < j, u[i].from = u[j].from
      PROVE  u[i].no < u[j].no
  <2>1. CASE j \in DOMAIN s /\ u[j] = s[j] BY <1>1, <1>2, <2>1 DEF Sorted
  <2>2. CASE /\ j \in Nat /\ j > Len(s) /\ j - Len(s) \in DOMAIN t /\ u[j] = t[j - Len(s)]
             /\ i \in DOMAIN s /\ u[i] = s[i]
    <3>1. s[i] \in Elements(s) /\ t[j - Len(s)] \in Elements(t) BY <2>2 DEF Elements
    <3> QED BY <1>2, <2>2, <3>1 DEF OlderThan
  <2>3. CASE /\ j \in Nat /\ j > Len(s) /\ j - Len(s) \in DOMAIN t /\ u[j] = t[j - Len(s)]
             /\ i \in Nat /\ i > Len(s) /\ i - Len(s) \in DOMAIN t /\ u[i] = t[i - Len(s)]
    <3>1. i - Len(s) < j - Len(s) BY <1>1, <1>2, <2>3
    <3> QED BY <1>2, <2>3, <3>1 DEF Sorted
  <2> QED BY <1>1, <2>1, <2>2, <2>3
<1>3. Sorted(u) BY <1>2 DEF Sorted
<1> QED BY <1>3 DEF u

-----------------------------------------------------------------------------
\* A new hook has no entries.
LEMMA InitIInv == Init => IInv
<1> SUFFICES ASSUME Init PROVE IInv OBVIOUS
<1>1. /\ input \in Seq(Entries) /\ Len(input) <= CacheLimit
      /\ cache \in Seq(Entries) /\ Len(cache) <= CacheLimit /\ log \in Seq(Entries)
      BY NoEntry, LogHookAssumption DEF Init
<1>2. fired \in [Goroutines -> Nat] /\ \A g \in Goroutines : fired[g] <= MaxEntries[g]
      BY LogHookAssumption DEF Init
<1>3. firing \in [Goroutines -> Entries \cup {None}] BY DEF Init
<1>4. TypeOK BY <1>1, <1>2, <1>3 DEF TypeOK, Init
<1>5. CacheHasRoom BY NoEntry, LogHookAssumption DEF Init, CacheHasRoom
<1>6. FiringIsLatest BY DEF Init, FiringIsLatest
<1>7. Elements(log) = {} /\ Elements(cache) = {} /\ Elements(input) = {}
      BY NoElements DEF Init
<1>8. Sorted(log) /\ Sorted(cache) /\ Sorted(input) BY NoEntry DEF Init, Sorted
<1>9. InOrder BY <1>7, <1>8 DEF InOrder, OlderThan
<1>10. EntriesAccountedFor BY EntryParts DEF Init, EntriesAccountedFor
<1> QED BY <1>4, <1>5, <1>6, <1>9, <1>10 DEF IInv

\* Every step leaves the variables in their ranges.
LEMMA TypeStep == TypeOK /\ CacheHasRoom /\ [Next]_vars => TypeOK'
<1> SUFFICES ASSUME TypeOK, CacheHasRoom, [Next]_vars PROVE TypeOK' OBVIOUS
<1> USE LogHookAssumption DEF TypeOK
<1>1. CASE Check BY <1>1 DEF Check
<1>2. CASE Cache
  <2>1. input # <<>> /\ Head(input) \in Entries /\ Tail(input) \in Seq(Entries)
        /\ Len(Tail(input)) = Len(input) - 1 /\ Len(input) \in Nat
        BY <1>2, HeadTail DEF Cache
  <2>2. input' \in Seq(Entries) /\ Len(input') <= CacheLimit BY <1>2, <2>1 DEF Cache
  <2>3. /\ Append(cache, Head(input)) \in Seq(Entries)
        /\ Len(Append(cache, Head(input))) = Len(cache) + 1 /\ Len(cache) \in Nat
        BY <2>1, Appended
  <2>4. cache' \in Seq(Entries) /\ Len(cache') <= CacheLimit
        BY <1>2, <2>3 DEF Cache, CacheHasRoom
  <2> QED BY <1>2, <2>2, <2>4 DEF Cache
<1>3. CASE Tick BY <1>3 DEF Tick
<1>4. CASE Returns BY <1>4 DEF Returns
<1>5. CASE Stored
  <2>1. log \o cache \in Seq(Entries) BY Joined
  <2> QED BY <1>5, <2>1, NoEntry DEF Stored
<1>6. CASE NotStored
  <2>1. log \o cache \in Seq(Entries) BY Joined
  <2>2. InCache \subseteq Entries BY DEF InCache
  <2>3. log' \in Seq(Entries) BY <1>6, <2>1 DEF NotStored
  <2>4. cache' \in Seq(Entries) /\ Len(cache') <= CacheLimit BY <1>6, NoEntry DEF NotStored
  <2>5. failed' \subseteq Entries BY <1>6, <2>2 DEF NotStored
  <2> QED BY <1>6, <2>3, <2>4, <2>5 DEF NotStored
<1>7. CASE Cancel BY <1>7 DEF Cancel
<1>8. ASSUME NEW g \in Goroutines, Fire(g) PROVE TypeOK'
  <2>1. [from |-> g, no |-> fired[g] + 1] \in Entries
    <3>1. fired[g] + 1 \in 1..MaxEntries[g] BY <1>8 DEF Fire
    <3> QED BY <3>1, EntryParts
  <2>2. firing' \in [Goroutines -> Entries \cup {None}] BY <1>8, <2>1 DEF Fire
  <2>3. fired' \in [Goroutines -> Nat] /\ \A h \in Goroutines : fired'[h] <= MaxEntries[h]
        BY <1>8 DEF Fire
  <2> QED BY <1>8, <2>2, <2>3 DEF Fire
<1>9. ASSUME NEW g \in Goroutines, Queue(g) PROVE TypeOK'
  <2>1. firing[g] \in Entries BY <1>9 DEF Queue
  <2>2. /\ Append(input, firing[g]) \in Seq(Entries)
        /\ Len(Append(input, firing[g])) = Len(input) + 1 /\ Len(input) \in Nat
        BY <2>1, Appended
  <2>3. input' \in Seq(Entries) /\ Len(input') <= CacheLimit BY <1>9, <2>2 DEF Queue
  <2> QED BY <1>9, <2>3 DEF Queue
<1>10. ASSUME NEW g \in Goroutines, HighLoad(g) PROVE TypeOK' BY <1>10 DEF HighLoad
<1>11. CASE UNCHANGED vars BY <1>11 DEF vars
<1> QED BY <1>1, <1>2, <1>3, <1>4, <1>5, <1>6, <1>7, <1>8, <1>9, <1>10, <1>11
        DEF Next, PollStep, FireStep

\* poll sends a cache that is full before it caches again.
LEMMA RoomStep == TypeOK /\ CacheHasRoom /\ [Next]_vars => CacheHasRoom'
<1> SUFFICES ASSUME TypeOK, CacheHasRoom, [Next]_vars PROVE CacheHasRoom' OBVIOUS
<1> USE DEF CacheHasRoom
<1>1. CASE Check BY <1>1 DEF Check
<1>2. CASE Cache BY <1>2 DEF Cache
<1>3. CASE Tick
  <2>1. Len(<<>>) < CacheLimit BY NoEntry, LogHookAssumption
  <2> QED BY <1>3, <2>1 DEF Tick
<1>4. CASE Returns BY <1>4 DEF Returns
<1>5. CASE Stored \/ NotStored
  <2>1. cache' = <<>> BY <1>5 DEF Stored, NotStored
  <2>2. Len(cache') = 0 BY <2>1, NoEntry
  <2> QED BY <2>2, LogHookAssumption
<1>6. CASE UNCHANGED <<poll, cache>> BY <1>6
<1> QED BY <1>1, <1>2, <1>3, <1>4, <1>5, <1>6
        DEF Next, vars, PollStep, FireStep, Cancel, Fire, Queue, HighLoad

\* A goroutine logs one entry at a time.
LEMMA FiringStep == TypeOK /\ FiringIsLatest /\ [Next]_vars => FiringIsLatest'
<1> SUFFICES ASSUME TypeOK, FiringIsLatest, [Next]_vars PROVE FiringIsLatest' OBVIOUS
<1>1. firing \in [Goroutines -> Entries \cup {None}] /\ fired \in [Goroutines -> Nat]
      BY DEF TypeOK
<1>2. ASSUME NEW g \in Goroutines, Fire(g) PROVE FiringIsLatest'
      BY <1>1, <1>2 DEF Fire, FiringIsLatest
<1>3. ASSUME NEW g \in Goroutines, Queue(g) \/ HighLoad(g) PROVE FiringIsLatest'
      BY <1>1, <1>3 DEF Queue, HighLoad, FiringIsLatest
<1>4. CASE UNCHANGED <<fired, firing>> BY <1>4 DEF FiringIsLatest
<1> QED BY <1>2, <1>3, <1>4
        DEF Next, vars, PollStep, FireStep, Check, Cache, Tick, Returns, Stored, NotStored, Cancel

-----------------------------------------------------------------------------
(* The order.                                                              *)

\* A new entry is newer than all others; none of them is touched.
LEMMA FireInOrder ==
    ASSUME TypeOK, FiringIsLatest, InOrder, NEW g \in Goroutines, Fire(g)
    PROVE  InOrder'
<1>1. UNCHANGED <<log, cache, input>> BY DEF Fire
<1>2. ASSUME NEW e \in Entries, Older(e) PROVE Older(e)'
  <2>1. e.from \in Goroutines /\ e.no \in Nat BY EntryParts
  <2>2. fired \in [Goroutines -> Nat] /\ firing \in [Goroutines -> Entries \cup {None}]
        BY DEF TypeOK
  <2>3. fired' = [fired EXCEPT ![g] = @ + 1] BY DEF Fire
  <2>4. CASE e.from = g BY <1>2, <2>1, <2>2, <2>3, <2>4 DEF Older
  <2>5. CASE e.from # g
    <3>1. fired'[e.from] = fired[e.from] BY <2>1, <2>2, <2>3, <2>5
    <3>2. firing'[e.from] = firing[e.from] BY <2>1, <2>2, <2>5 DEF Fire
    <3> QED BY <1>2, <3>1, <3>2 DEF Older
  <2> QED BY <2>4, <2>5
<1>3. Elements(log) \cup Elements(cache) \cup Elements(input) \subseteq Entries
      BY ElementsAreEntries DEF TypeOK
<1>4. \A e \in Elements(log)' \cup Elements(cache)' \cup Elements(input)' : Older(e)'
      BY <1>1, <1>2, <1>3 DEF InOrder
<1> QED BY <1>1, <1>4 DEF InOrder

\* An entry is queued behind the older ones of its goroutine.
LEMMA QueueInOrder ==
    ASSUME TypeOK, FiringIsLatest, InOrder, NEW g \in Goroutines, Queue(g)
    PROVE  InOrder'
<1> DEFINE All == Elements(log) \cup Elements(cache) \cup Elements(input)
<1>1. PICK e \in Entries : firing[g] = e BY DEF Queue, TypeOK
<1>2. /\ input' = Append(input, e) /\ UNCHANGED <<log, cache, fired>>
      /\ firing' = [firing EXCEPT ![g] = None]
      BY <1>1 DEF Queue
<1>3. e.from = g /\ e.no = fired[g] /\ e # None
      BY <1>1, LogHookAssumption DEF FiringIsLatest
<1>4. input \in Seq(Entries) /\ All \subseteq Entries BY ElementsAreEntries DEF TypeOK
<1>5. OlderThan(All, {e})
  <2>1. \A d \in All : Older(d) BY DEF InOrder
  <2> QED BY <1>1, <1>3, <2>1 DEF Older, OlderThan
<1>6. Elements(input') = Elements(input) \cup {e} BY <1>2, <1>4, ElementsAppend
<1>7. Sorted(input)'
  <2>1. Sorted(Append(input, e)) BY <1>4, <1>5, SortedAppend DEF InOrder, OlderThan
  <2> QED BY <1>2, <2>1
<1>8. \A d \in Entries : Older(d) => Older(d)'
  <2> SUFFICES ASSUME NEW d \in Entries, Older(d) PROVE Older(d)' OBVIOUS
  <2>1. firing'[d.from] # None => firing[d.from] # None
        BY <1>2, EntryParts DEF TypeOK
  <2> QED BY <1>2, <2>1 DEF Older
<1>9. Older(e)'
  <2>1. firing'[g] = None BY <1>2 DEF TypeOK
  <2>2. fired[g] \in Nat BY DEF TypeOK
  <2> QED BY <1>2, <1>3, <2>1, <2>2 DEF Older
<1>10. Elements(log)' = Elements(log) /\ Elements(cache)' = Elements(cache) BY <1>2
<1>11. \A d \in Elements(log)' \cup Elements(cache)' \cup Elements(input') : Older(d)'
       BY <1>4, <1>6, <1>8, <1>9, <1>10 DEF InOrder
<1>12. OlderThan(Elements(log), Elements(cache) \cup Elements(input'))
       BY <1>5, <1>6 DEF InOrder, OlderThan
<1>13. OlderThan(Elements(cache), Elements(input')) BY <1>5, <1>6 DEF InOrder, OlderThan
<1> QED BY <1>2, <1>7, <1>10, <1>11, <1>12, <1>13 DEF InOrder

\* An entry that is dropped was in no sequence.
LEMMA HighLoadInOrder ==
    ASSUME TypeOK, InOrder, NEW g \in Goroutines, HighLoad(g)
    PROVE  InOrder'
<1>1. UNCHANGED <<log, cache, input, fired>> /\ firing' = [firing EXCEPT ![g] = None]
      BY DEF HighLoad
<1>2. \A d \in Entries : Older(d) => Older(d)'
  <2> SUFFICES ASSUME NEW d \in Entries, Older(d) PROVE Older(d)' OBVIOUS
  <2>1. firing'[d.from] # None => firing[d.from] # None
        BY <1>1, EntryParts DEF TypeOK
  <2> QED BY <1>1, <2>1 DEF Older
<1>3. Elements(log) \cup Elements(cache) \cup Elements(input) \subseteq Entries
      BY ElementsAreEntries DEF TypeOK
<1>4. \A e \in Elements(log)' \cup Elements(cache)' \cup Elements(input)' : Older(e)'
      BY <1>1, <1>2, <1>3 DEF InOrder
<1> QED BY <1>1, <1>4 DEF InOrder

\* The oldest entry of the channel becomes the newest one of the cache.
LEMMA CacheInOrder ==
    ASSUME TypeOK, InOrder, Cache
    PROVE  InOrder'
<1>1. input \in Seq(Entries) /\ input # <<>> /\ cache \in Seq(Entries)
      BY DEF Cache, TypeOK
<1>2. PICK e \in Entries : e = Head(input) BY <1>1, HeadTail
<1>3. /\ input' = Tail(input) /\ cache' = Append(cache, e)
      /\ UNCHANGED <<log, fired, firing>>
      BY <1>2 DEF Cache
<1>4. Elements(input) = {e} \cup Elements(input') BY <1>1, <1>2, <1>3, ElementsTail
<1>5. Elements(cache') = Elements(cache) \cup {e} BY <1>1, <1>3, ElementsAppend
<1>6. Sorted(input') /\ OlderThan({e}, Elements(input'))
      BY <1>1, <1>2, <1>3, SortedTail DEF InOrder
<1>7. Sorted(cache')
  <2>1. OlderThan(Elements(cache), {e}) BY <1>4 DEF InOrder, OlderThan
  <2>2. Sorted(Append(cache, e)) BY <1>1, <2>1, SortedAppend DEF InOrder
  <2> QED BY <1>3, <2>2
<1>8. OlderThan(Elements(log), Elements(cache') \cup Elements(input'))
      BY <1>4, <1>5 DEF InOrder, OlderThan
<1>9. OlderThan(Elements(cache'), Elements(input'))
      BY <1>4, <1>5, <1>6 DEF InOrder, OlderThan
<1>10. \A d : Older(d) => Older(d)' BY <1>3 DEF Older
<1>11. \A d \in Elements(log)' \cup Elements(cache') \cup Elements(input') : Older(d)'
       BY <1>3, <1>4, <1>5, <1>10 DEF InOrder
<1> QED BY <1>3, <1>6, <1>7, <1>8, <1>9, <1>11 DEF InOrder

\* The rows of the cache go behind those of the table, or are lost; the cache is emptied.
LEMMA CopyInOrder ==
    ASSUME TypeOK, InOrder, log' \in {log, log \o cache}, cache' = <<>>,
           UNCHANGED <<input, fired, firing>>
    PROVE  InOrder'
<1>1. log \in Seq(Entries) /\ cache \in Seq(Entries) BY DEF TypeOK
<1>2. Sorted(log')
  <2>1. OlderThan(Elements(log), Elements(cache)) BY DEF InOrder, OlderThan
  <2>2. Sorted(log \o cache) BY <1>1, <2>1, SortedJoined DEF InOrder
  <2> QED BY <2>2 DEF InOrder
<1>3. Elements(log') \subseteq Elements(log) \cup Elements(cache) BY <1>1, ElementsJoined
<1>4. Elements(cache') = {} BY NoElements
<1>5. Sorted(cache') BY NoEntry DEF Sorted
<1>6. OlderThan(Elements(log'), Elements(cache') \cup Elements(input))
      BY <1>3, <1>4 DEF InOrder, OlderThan
<1>7. \A d : Older(d) => Older(d)' BY DEF Older
<1>8. \A d \in Elements(log') \cup Elements(cache') \cup Elements(input) : Older(d)'
      BY <1>3, <1>4, <1>7 DEF InOrder
<1>9. OlderThan(Elements(cache'), Elements(input)) BY <1>4 DEF OlderThan
<1> QED BY <1>2, <1>5, <1>6, <1>8, <1>9 DEF InOrder

\* No step lets an entry overtake another.
LEMMA OrderStep ==
    ASSUME TypeOK, FiringIsLatest, InOrder, [Next]_vars
    PROVE  InOrder'
<1>1. ASSUME NEW g \in Goroutines, FireStep(g) PROVE InOrder'
      BY <1>1, FireInOrder, QueueInOrder, HighLoadInOrder DEF FireStep
<1>2. CASE Cache BY <1>2, CacheInOrder
<1>3. CASE Stored \/ NotStored
  <2>1. /\ log' \in {log, log \o cache} /\ cache' = <<>>
        /\ UNCHANGED <<input, fired, firing>>
        BY <1>3 DEF Stored, NotStored
  <2> QED BY <2>1, CopyInOrder
<1>4. CASE UNCHANGED <<log, cache, input, fired, firing>> BY <1>4 DEF InOrder, Older
<1> QED BY <1>1, <1>2, <1>3, <1>4 DEF Next, vars, PollStep, Check, Tick, Returns, Cancel

-----------------------------------------------------------------------------
(* No entry is forgotten.                                                  *)

OnItsWay(e) == firing[e.from] = e \/ e \in Elements(input) \cup Elements(cache)

Accounted(e) == OnItsWay(e) \/ e \in Elements(log) \/ Lost(e)

\* EntriesAccountedFor, said with sets.
LEMMA AccountedMeans ==
    EntriesAccountedFor <=> \A e \in Entries : e.no <= fired[e.from] => Accounted(e)
BY DEF EntriesAccountedFor, Accounted, OnItsWay, In, Elements

\* The entry that is new is the one its goroutine waits with.
LEMMA FireAccounts ==
    ASSUME TypeOK, EntriesAccountedFor, NEW g \in Goroutines, Fire(g)
    PROVE  \A e \in Entries : e.no <= fired'[e.from] => Accounted(e)'
<1> SUFFICES ASSUME NEW e \in Entries, e.no <= fired'[e.from] PROVE Accounted(e)' OBVIOUS
<1>1. e.from \in Goroutines /\ e.no \in Nat /\ e = [from |-> e.from, no |-> e.no]
      BY EntryParts
<1>2. /\ fired' = [fired EXCEPT ![g] = @ + 1] /\ firing[g] = None
      /\ firing' = [firing EXCEPT ![g] = [from |-> g, no |-> fired[g] + 1]]
      /\ UNCHANGED <<input, cache, log, dropped, failed>>
      BY DEF Fire
<1>3. fired \in [Goroutines -> Nat] /\ firing \in [Goroutines -> Entries \cup {None}]
      BY DEF TypeOK
<1>4. CASE e.from = g /\ e.no = fired[g] + 1
  <2>1. firing'[g] = e BY <1>1, <1>2, <1>3, <1>4
  <2> QED BY <1>4, <2>1 DEF Accounted, OnItsWay
<1>5. CASE e.no <= fired[e.from]
  <2>1. Accounted(e) BY <1>5, AccountedMeans
  <2>2. firing[e.from] = e => firing'[e.from] = e
        BY <1>1, <1>2, <1>3, LogHookAssumption
  <2> QED BY <1>2, <2>1, <2>2 DEF Accounted, OnItsWay, Lost
<1>6. e.no <= fired[e.from] \/ (e.from = g /\ e.no = fired[g] + 1) BY <1>1, <1>2, <1>3
<1> QED BY <1>4, <1>5, <1>6

\* An entry goes from one place to the next, or is lost knowingly.
LEMMA AccountedStep ==
    ASSUME TypeOK, FiringIsLatest, EntriesAccountedFor, [Next]_vars
    PROVE  EntriesAccountedFor'
<1> SUFFICES \A e \in Entries : e.no <= fired'[e.from] => Accounted(e)'
    BY AccountedMeans DEF EntriesAccountedFor, Accounted, OnItsWay, In, Elements
<1>1. ASSUME NEW g \in Goroutines, Fire(g)
      PROVE  \A e \in Entries : e.no <= fired'[e.from] => Accounted(e)'
      BY <1>1, FireAccounts
<1>2. ASSUME UNCHANGED fired, \A e \in Entries : Accounted(e) => Accounted(e)'
      PROVE  \A e \in Entries : e.no <= fired'[e.from] => Accounted(e)'
      BY <1>2, AccountedMeans
<1>3. ASSUME NEW g \in Goroutines, Queue(g) \/ HighLoad(g)
      PROVE  UNCHANGED fired /\ \A e \in Entries : Accounted(e) => Accounted(e)'
  <2>1. /\ UNCHANGED <<fired, cache, log, failed>> /\ firing' = [firing EXCEPT ![g] = None]
        /\ dropped \subseteq dropped'
        /\ firing[g] # None
        BY <1>3 DEF Queue, HighLoad
  <2>2. firing \in [Goroutines -> Entries \cup {None}] /\ input \in Seq(Entries) BY DEF TypeOK
  <2>3. firing[g] \in Entries BY <2>1, <2>2
  <2>4. Elements(input) \subseteq Elements(input')
        /\ firing[g] \in Elements(input') \cup dropped'
    <3>1. CASE Queue(g)
      <4>1. input' = Append(input, firing[g]) BY <3>1 DEF Queue
      <4> QED BY <2>2, <2>3, <4>1, ElementsAppend
    <3>2. CASE HighLoad(g) BY <3>2 DEF HighLoad
    <3> QED BY <1>3, <3>1, <3>2
  <2>5. ASSUME NEW e \in Entries, Accounted(e) PROVE Accounted(e)'
    <3>1. CASE e = firing[g] BY <3>1, <2>4 DEF Accounted, OnItsWay, Lost
    <3>2. CASE e # firing[g]
      <4>1. firing[e.from] = e => firing'[e.from] = e BY <2>1, <2>2, <3>2, EntryParts
      <4> QED BY <2>1, <2>4, <2>5, <4>1 DEF Accounted, OnItsWay, Lost
    <3> QED BY <3>1, <3>2
  <2> QED BY <2>1, <2>5
<1>4. CASE Cache
  <2>1. input \in Seq(Entries) /\ input # <<>> /\ cache \in Seq(Entries)
        BY <1>4 DEF Cache, TypeOK
  <2>2. PICK h \in Entries : h = Head(input) BY <2>1, HeadTail
  <2>3. input' = Tail(input) /\ cache' = Append(cache, h) BY <1>4, <2>2 DEF Cache
  <2>4. Elements(input) = {h} \cup Elements(input') BY <2>1, <2>2, <2>3, ElementsTail
  <2>5. Elements(cache') = Elements(cache) \cup {h} BY <2>1, <2>3, ElementsAppend
  <2>6. UNCHANGED <<fired, firing, log, dropped, failed>> BY <1>4 DEF Cache
  <2>7. \A e \in Entries : Accounted(e) => Accounted(e)'
        BY <2>4, <2>5, <2>6 DEF Accounted, OnItsWay, Lost
  <2> QED BY <1>2, <2>6, <2>7
<1>5. CASE Stored \/ NotStored
  <2>1. log \in Seq(Entries) /\ cache \in Seq(Entries) BY DEF TypeOK
  <2>2. Elements(log \o cache) = Elements(log) \cup Elements(cache) BY <2>1, ElementsJoined
  <2>3. UNCHANGED <<fired, firing, input, dropped>> /\ failed \subseteq failed'
        BY <1>5 DEF Stored, NotStored
  <2>4. log' = log \/ log' = log \o cache BY <1>5 DEF Stored, NotStored
  <2>5. Elements(log) \subseteq Elements(log') BY <2>2, <2>4
  <2>6. Elements(cache) \subseteq Elements(log') \cup failed'
    <3>1. CASE Stored BY <2>2, <3>1 DEF Stored
    <3>2. CASE NotStored BY <3>2 DEF NotStored, InCache, Elements
    <3> QED BY <1>5, <3>1, <3>2
  <2>7. \A e \in Entries : Accounted(e) => Accounted(e)'
        BY <2>3, <2>5, <2>6 DEF Accounted, OnItsWay, Lost
  <2> QED BY <1>2, <2>3, <2>7
<1>6. CASE UNCHANGED <<fired, firing, input, cache, log, dropped, failed>>
      BY <1>2, <1>6 DEF Accounted, OnItsWay, Lost, Elements
<1> QED BY <1>1, <1>2, <1>3, <1>4, <1>5, <1>6
        DEF Next, vars, PollStep, FireStep, Check, Tick, Returns, Cancel

-----------------------------------------------------------------------------
\* The hook keeps its entries in order and in sight, whatever logs, fails or ends (Fire, poll,
\* send).
THEOREM Invariant == Spec => []IInv
<1>1. IInv /\ [Next]_vars => IInv'
  <2> SUFFICES ASSUME IInv, [Next]_vars PROVE IInv' OBVIOUS
  <2> USE DEF IInv
  <2>1. TypeOK' BY TypeStep
  <2>2. CacheHasRoom' BY RoomStep
  <2>3. FiringIsLatest' BY FiringStep
  <2>4. InOrder' BY OrderStep
  <2>5. EntriesAccountedFor' BY AccountedStep
  <2> QED BY <2>1, <2>2, <2>3, <2>4, <2>5
<1> QED BY InitIInv, <1>1, PTL DEF Spec

\* The channel and the cache never have more than CacheLimit entries (NewHook, poll).
THEOREM TypeCorrect == Spec => []TypeOK
<1>1. IInv => TypeOK BY DEF IInv
<1> QED BY <1>1, Invariant, PTL

\* No entry is stored twice or before an older one of its goroutine (poll, send).
THEOREM StoredInOrder == Spec => []StoredOnceInOrder
<1>1. IInv => StoredOnceInOrder BY DEF IInv, InOrder, Sorted, StoredOnceInOrder
<1> QED BY <1>1, Invariant, PTL

\* An entry that is not stored has been given up under high load or by a failed COPY (Fire,
\* poll, send).
THEOREM NoEntryForgotten == Spec => []EntriesAccountedFor
<1>1. IInv => EntriesAccountedFor BY DEF IInv
<1> QED BY <1>1, Invariant, PTL
=============================================================================
