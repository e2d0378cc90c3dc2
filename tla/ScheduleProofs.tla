--------------------------- MODULE ScheduleProofs ---------------------------
(***************************************************************************)
(* The two kinds of schedules.  Interval chains, for any chains, workers,   *)
(* fetchers, edits and channel capacity: who has a token.  Cron, for any    *)
(* calendar, expressions and clock: next_run and is_cron_in_time mean the   *)
(* same times, and the ticker finds each of them once.                      *)
(***************************************************************************)
EXTENDS IntervalChain, Cron, FiniteSetTheorems, WellFoundedInduction, TLAPS

-----------------------------------------------------------------------------
(* Interval chains.                                                         *)

\* A worker that is not idle has a token in hand.
HasToken == \A w \in Workers : pc[w] # "idle" => tok[w] \in Tokens

\* The holder of the mutex works through the chains listed in the snapshot it has read.
HolderHasSnapshot ==
    mutex # None => /\ snapshot[mutex] # None
                    /\ \A c \in todo : snapshot[mutex][c] # None

TypeInv == TypeOK /\ HasToken /\ HolderHasSnapshot

-----------------------------------------------------------------------------
(* Sending a token.                                                        *)

LEMMA ChanLength == ASSUME TypeOK PROVE Len(ichainsChan) \in Nat /\ ChanCap \in Nat
  BY IntervalAssumption DEF TypeOK, IntervalAssumption

\* A token is sent only into a channel that has room.
LEMMA SendType ==
    ASSUME TypeOK, NEW t \in Tokens, SendIntervalChain(t)
    PROVE  /\ ichainsChan' \in Seq(Tokens) /\ Len(ichainsChan') <= ChanCap
           /\ dropped' \in SUBSET Chains
<1>0. t.chain \in Chains /\ ichainsChan \in Seq(Tokens) /\ dropped \in SUBSET Chains
  BY DEF TypeOK, Tokens
<1>1. CASE Len(ichainsChan) < ChanCap
  <2>1. ichainsChan' = Append(ichainsChan, t) /\ dropped' = dropped \ {t.chain}
    BY <1>1 DEF SendIntervalChain
  <2>2. ichainsChan' \in Seq(Tokens) /\ Len(ichainsChan') = Len(ichainsChan) + 1
    BY <1>0, <2>1
  <2> QED BY <1>0, <1>1, <2>1, <2>2, ChanLength
<1>2. CASE ~(Len(ichainsChan) < ChanCap)
  <2>1. ichainsChan' = ichainsChan /\ dropped' = dropped \cup {t.chain}
    BY <1>2 DEF SendIntervalChain
  <2> QED BY <1>0, <2>1 DEF TypeOK
<1> QED BY <1>1, <1>2

\* Whatever was queued stays queued, and the chain that was sent is queued or dropped.
LEMMA SendKeeps ==
    ASSUME TypeOK, NEW t \in Tokens, SendIntervalChain(t)
    PROVE  /\ \A c \in Chains : Queued(c) => Queued(c)'
           /\ Queued(t.chain)' \/ t.chain \in dropped'
           /\ \A c \in Chains : c \in dropped => c \in dropped' \/ c = t.chain
<1>0. ichainsChan \in Seq(Tokens)
  BY DEF TypeOK
<1>1. CASE Len(ichainsChan) < ChanCap
  <2>1. ichainsChan' = Append(ichainsChan, t) /\ dropped' = dropped \ {t.chain}
    BY <1>1 DEF SendIntervalChain
  <2>2. /\ \A i \in DOMAIN ichainsChan : i \in DOMAIN ichainsChan' /\ ichainsChan'[i] = ichainsChan[i]
        /\ Len(ichainsChan) + 1 \in DOMAIN ichainsChan'
        /\ ichainsChan'[Len(ichainsChan) + 1] = t
    BY <1>0, <2>1
  <2>3. \A c \in Chains : Queued(c) => Queued(c)'
    BY <2>2 DEF Queued
  <2>4. Queued(t.chain)'
    BY <2>2 DEF Queued
  <2> QED BY <2>1, <2>3, <2>4
<1>2. CASE ~(Len(ichainsChan) < ChanCap)
  <2>1. ichainsChan' = ichainsChan /\ dropped' = dropped \cup {t.chain}
    BY <1>2 DEF SendIntervalChain
  <2> QED BY <2>1 DEF Queued
<1> QED BY <1>1, <1>2

\* One more goroutine sleeps.
LEMMA RescheduleType ==
    ASSUME TypeOK, NEW t \in Tokens, Reschedule(t) PROVE timers' \in [Tokens -> Nat]
  BY DEF TypeOK, Reschedule

-----------------------------------------------------------------------------
(* Type correctness.                                                       *)

LEMMA InitType == Init => TypeInv
<1> SUFFICES ASSUME Init PROVE TypeInv
  OBVIOUS
<1>1. ichainsChan \in Seq(Tokens) /\ Len(ichainsChan) <= ChanCap
  <2>1. ichainsChan \in Seq(Tokens) /\ Len(ichainsChan) = 0 BY DEF Init
  <2> QED BY <2>1, IntervalAssumption DEF IntervalAssumption
<1>2. edits \in 0..MaxEdits /\ intervalChains \in Schedules
  BY IntervalAssumption DEF Init, IntervalAssumption, Schedules
<1>3. TypeOK
  BY <1>1, <1>2 DEF Init, TypeOK
<1>4. HasToken /\ HolderHasSnapshot
  BY DEF Init, HasToken, HolderHasSnapshot
<1> QED BY <1>3, <1>4 DEF TypeInv

\* A fetcher applies a list only while it has one.
LEMMA FetchType ==
    ASSUME TypeInv, NEW f \in Fetchers, FetchStep(f) PROVE TypeInv'
<1> USE DEF TypeInv, TypeOK, HasToken, HolderHasSnapshot, fetchVars, workerVars
<1>0. f # None
  BY IntervalAssumption DEF IntervalAssumption
<1>1. CASE SelectIntervalChains(f)
  <2>1. PICK s \in Schedules : snapshot' = [snapshot EXCEPT ![f] = s]
    BY <1>1 DEF SelectIntervalChains, Schedules
  <2>2. edits' \in 0..MaxEdits
    BY <1>1, IntervalAssumption DEF SelectIntervalChains, IntervalAssumption
  <2>3. snapshot[f] = None /\ mutex # f
    BY <1>0, <1>1 DEF SelectIntervalChains
  <2> QED BY <1>1, <2>1, <2>2, <2>3 DEF SelectIntervalChains
<1>2. CASE DeleteUnlisted(f)
  <2>1. intervalChains' \in Schedules
    BY <1>2 DEF DeleteUnlisted, Schedules
  <2> QED BY <1>2, <2>1 DEF DeleteUnlisted
<1>3. CASE FetchDone(f)
  BY <1>3 DEF FetchDone
<1>4. ASSUME NEW c \in Chains, UpdateListed(f, c) PROVE TypeInv'
  <2>1. snapshot[f] \in Schedules /\ snapshot[f][c] # None
    BY <1>0, <1>4 DEF UpdateListed
  <2>2. snapshot[f][c] \in Kinds
    BY <2>1 DEF Schedules
  <2>3. intervalChains' \in Schedules
    BY <1>4, <2>2 DEF UpdateListed, Schedules
  <2>4. [chain |-> c, kind |-> snapshot[f][c]] \in Tokens
    BY <2>2 DEF Tokens
  <2>5. /\ ichainsChan' \in Seq(Tokens) /\ Len(ichainsChan') <= ChanCap
        /\ dropped' \in SUBSET Chains
    BY <1>4, <2>4, SendType DEF UpdateListed
  <2> QED BY <1>4, <2>3, <2>5 DEF UpdateListed
<1> QED BY <1>1, <1>2, <1>3, <1>4, FetchStep(f) DEF FetchStep

\* A worker has a token from its receive to the end of the chain.
LEMMA WorkerType ==
    ASSUME TypeInv, NEW w \in Workers, WorkerStep(w) PROVE TypeInv'
<1> USE DEF TypeInv, TypeOK, HasToken, HolderHasSnapshot, fetchVars, workerVars
<1>1. CASE ReceiveToken(w)
  <2> DEFINE t == Head(ichainsChan)
  <2>1. ichainsChan \in Seq(Tokens) /\ ichainsChan # <<>> /\ ichainsChan' = Tail(ichainsChan)
    BY <1>1 DEF ReceiveToken
  <2>2. t \in Tokens /\ ichainsChan' \in Seq(Tokens) /\ Len(ichainsChan') = Len(ichainsChan) - 1
    BY <2>1
  <2>3. Len(ichainsChan') <= ChanCap
    BY <2>2, ChanLength
  <2>4. timers' \in [Tokens -> Nat]
    BY <1>1, <2>2, RescheduleType DEF ReceiveToken
  <2>5. pc' \in [Workers -> {"idle", "admit", "run"}] /\ tok' \in [Workers -> Tokens \cup {None}]
    BY <1>1, <2>2 DEF ReceiveToken
  <2>6. HasToken'
    BY <1>1, <2>2 DEF ReceiveToken
  <2> QED BY <1>1, <2>2, <2>3, <2>4, <2>5, <2>6 DEF ReceiveToken
<1>2. CASE Admitted(w)
  BY <1>2 DEF Admitted
<1>3. CASE Done(w)
  <2>1. tok[w] \in Tokens
    BY <1>3 DEF Done
  <2>2. timers' \in [Tokens -> Nat]
    BY <1>3, <2>1, RescheduleType DEF Done
  <2> QED BY <1>3, <2>2 DEF Done
<1> QED BY <1>1, <1>2, <1>3, WorkerStep(w) DEF WorkerStep

\* A goroutine that wakes up sends the token it slept with.
LEMMA TimerType ==
    ASSUME TypeInv, NEW t \in Tokens, TimerFires(t) PROVE TypeInv'
<1> USE DEF TypeInv, TypeOK, HasToken, HolderHasSnapshot, fetchVars, workerVars
<1>1. timers' \in [Tokens -> Nat]
  BY DEF TimerFires
<1>2. /\ ichainsChan' \in Seq(Tokens) /\ Len(ichainsChan') <= ChanCap
      /\ dropped' \in SUBSET Chains
  BY SendType DEF TimerFires
<1> QED BY <1>1, <1>2 DEF TimerFires

\* Every step preserves the types.
LEMMA NextType == TypeInv /\ [Next]_vars => TypeInv'
<1> SUFFICES ASSUME TypeInv, [Next]_vars PROVE TypeInv'
  OBVIOUS
<1>1. ASSUME NEW c \in Chains, NEW k \in Kinds \cup {None}, EditSchedule(c, k) PROVE TypeInv'
  <2>1. table' \in Schedules /\ edits' \in 0..MaxEdits
    BY <1>1, IntervalAssumption DEF EditSchedule, TypeInv, TypeOK, Schedules, IntervalAssumption
  <2> QED BY <1>1, <2>1
    DEF EditSchedule, TypeInv, TypeOK, HasToken, HolderHasSnapshot, fetchVars, workerVars
<1>2. CASE UNCHANGED vars
  BY <1>2 DEF vars, TypeInv, TypeOK, HasToken, HolderHasSnapshot, fetchVars, workerVars
<1> QED BY <1>1, <1>2, FetchType, WorkerType, TimerType DEF Next

\* IntervalChain is type-correct, its channel never holds more than its capacity, and a worker
\* that is busy has a token (SendIntervalChain, intervalChainWorker).
THEOREM TypeCorrect == Spec => [](TypeOK /\ HasToken)
<1>1. TypeInv => TypeOK /\ HasToken
  BY DEF TypeInv
<1> QED BY <1>1, InitType, NextType, PTL DEF Spec

-----------------------------------------------------------------------------
(* A known chain has a token: whoever takes one away puts another one in   *)
(* its place, or the chain is not known any more.                          *)

\* Setting a timer only adds tokens.
LEMMA RescheduleKeeps ==
    ASSUME TypeOK, NEW t \in Tokens, Reschedule(t)
    PROVE  /\ \A c \in Chains : Sleeping(c) => Sleeping(c)'
           /\ Sleeping(t.chain)'
<1>1. \A u \in Tokens : timers[u] > 0 => timers'[u] > 0
  BY DEF TypeOK, Reschedule
<1>2. timers'[t] > 0
  BY DEF TypeOK, Reschedule
<1>3. \A c \in Chains, k \in Kinds : [chain |-> c, kind |-> k] \in Tokens
  BY DEF Tokens
<1>4. t.chain \in Chains /\ t.kind \in Kinds /\ t = [chain |-> t.chain, kind |-> t.kind]
  BY DEF Tokens
<1> QED BY <1>1, <1>2, <1>3, <1>4 DEF Sleeping

\* A chain enters the map together with its token.
LEMMA FetchKeepsToken ==
    ASSUME TypeInv, KnownChainHasToken, NEW f \in Fetchers, FetchStep(f)
    PROVE  KnownChainHasToken'
<1> USE DEF KnownChainHasToken, TypeInv, fetchVars, workerVars
<1>1. CASE SelectIntervalChains(f)
  BY <1>1 DEF SelectIntervalChains, Queued, Sleeping, InHand
<1>2. CASE DeleteUnlisted(f)
  BY <1>2 DEF DeleteUnlisted, Queued, Sleeping, InHand
<1>3. CASE FetchDone(f)
  BY <1>3 DEF FetchDone, Queued, Sleeping, InHand
<1>4. ASSUME NEW c \in Chains, UpdateListed(f, c) PROVE KnownChainHasToken'
  <2> DEFINE t == [chain |-> c, kind |-> snapshot[f][c]]
  <2>1. t \in Tokens /\ t.chain = c
    BY <1>4, IntervalAssumption
    DEF UpdateListed, HolderHasSnapshot, TypeOK, Schedules, Tokens, IntervalAssumption
  <2>2. \A d \in Chains : Sleeping(d)' = Sleeping(d) /\ InHand(d)' = InHand(d)
    BY <1>4 DEF UpdateListed, Sleeping, InHand
  <2>3. \A d \in Chains \ {c} : intervalChains'[d] = intervalChains[d]
    BY <1>4 DEF UpdateListed, TypeOK, Schedules
  <2>4. CASE intervalChains[c] = None
    BY <1>4, <2>1, <2>2, <2>3, <2>4, SendKeeps DEF UpdateListed
  <2>5. CASE intervalChains[c] # None
    <3>1. UNCHANGED <<ichainsChan, dropped>>
      BY <1>4, <2>5 DEF UpdateListed
    <3> QED BY <2>2, <2>3, <2>5, <3>1 DEF Queued
  <2> QED BY <2>4, <2>5
<1> QED BY <1>1, <1>2, <1>3, <1>4, FetchStep(f) DEF FetchStep

\* A worker keeps the token of a known chain or puts it to sleep.
LEMMA WorkerKeepsToken ==
    ASSUME TypeInv, KnownChainHasToken, NEW w \in Workers, WorkerStep(w)
    PROVE  KnownChainHasToken'
<1> USE DEF KnownChainHasToken, TypeInv, fetchVars, workerVars
<1>1. CASE ReceiveToken(w)
  <2>1. ichainsChan \in Seq(Tokens) /\ ichainsChan # <<>> /\ ichainsChan' = Tail(ichainsChan)
    BY <1>1 DEF ReceiveToken, TypeOK
  <2>0. PICK t \in Tokens : t = Head(ichainsChan)
    BY <2>1
  <2>2. t = ichainsChan[1] /\ Len(ichainsChan) \in Nat
    BY <2>0, <2>1
  <2>3. UNCHANGED <<intervalChains, dropped>> /\ pc[w] = "idle"
    BY <1>1 DEF ReceiveToken
  <2>4. \A c \in Chains : Queued(c) => Queued(c)' \/ c = t.chain
    <3> SUFFICES ASSUME NEW c \in Chains, NEW i \in DOMAIN ichainsChan,
                        ichainsChan[i].chain = c, c # t.chain
                 PROVE  Queued(c)'
      BY DEF Queued
    <3>1. i # 1 /\ i \in 1..Len(ichainsChan)
      BY <2>1, <2>2
    <3>2. i - 1 \in DOMAIN ichainsChan' /\ ichainsChan'[i - 1] = ichainsChan[i]
      BY <2>1, <3>1
    <3> QED BY <3>2 DEF Queued
  <2>5. CASE IsValid(t)
    <3>1. pc' = [pc EXCEPT ![w] = "admit"] /\ tok' = [tok EXCEPT ![w] = t]
      BY <1>1, <2>0, <2>5 DEF ReceiveToken
    <3>2. \A c \in Chains : InHand(c) => InHand(c)'
      BY <2>3, <3>1 DEF InHand, TypeOK
    <3>3. CASE t.kind = "every"
      <4>1. Reschedule(t)
        BY <1>1, <2>0, <2>5, <3>3 DEF ReceiveToken
      <4> QED BY <2>2, <2>3, <2>4, <3>2, <4>1, RescheduleKeeps
    <3>4. CASE t.kind # "every"
      <4>1. t.kind = "after" /\ UNCHANGED timers
        BY <1>1, <2>0, <2>5, <3>4 DEF ReceiveToken, Tokens, Kinds
      <4>2. InHand(t.chain)'
        BY <3>1, <4>1 DEF InHand, TypeOK
      <4>3. \A c \in Chains : Sleeping(c)' = Sleeping(c)
        BY <4>1 DEF Sleeping
      <4> QED BY <2>3, <2>4, <3>2, <4>2, <4>3
    <3> QED BY <3>3, <3>4
  <2>6. CASE ~IsValid(t)
    <3>1. UNCHANGED <<timers, pc, tok>>
      BY <1>1, <2>0, <2>6 DEF ReceiveToken
    <3>2. intervalChains[t.chain] = None
      BY <2>6 DEF IsValid
    <3> QED BY <2>3, <2>4, <3>1, <3>2 DEF Sleeping, InHand
  <2> QED BY <2>5, <2>6
<1>2. CASE Admitted(w)
  <2>1. \A c \in Chains : InHand(c) => InHand(c)'
    BY <1>2 DEF Admitted, InHand, TypeOK
  <2> QED BY <1>2, <2>1 DEF Admitted, Queued, Sleeping
<1>3. CASE Done(w)
  <2>1. tok[w] \in Tokens
    BY <1>3 DEF Done, HasToken
  <2>2. UNCHANGED <<intervalChains, dropped, ichainsChan>>
    BY <1>3 DEF Done
  <2>3. \A c \in Chains : InHand(c) => InHand(c)' \/ (tok[w].chain = c /\ tok[w].kind = "after")
    BY <1>3 DEF Done, InHand, TypeOK
  <2>4. CASE tok[w].kind = "after"
    <3>1. Reschedule(tok[w])
      BY <1>3, <2>4 DEF Done
    <3> QED BY <2>1, <2>2, <2>3, <3>1, RescheduleKeeps DEF Queued
  <2>5. CASE tok[w].kind # "after"
    <3>1. UNCHANGED timers
      BY <1>3, <2>5 DEF Done
    <3> QED BY <2>2, <2>3, <2>5, <3>1 DEF Queued, Sleeping
  <2> QED BY <2>4, <2>5
<1> QED BY <1>1, <1>2, <1>3, WorkerStep(w) DEF WorkerStep

\* A token that wakes up is sent, or counted as refused.
LEMMA TimerKeepsToken ==
    ASSUME TypeInv, KnownChainHasToken, NEW t \in Tokens, TimerFires(t)
    PROVE  KnownChainHasToken'
<1> USE DEF KnownChainHasToken, TypeInv, fetchVars, workerVars
<1>1. UNCHANGED <<intervalChains, pc, tok>>
  BY DEF TimerFires
<1>2. \A c \in Chains : InHand(c)' = InHand(c)
  BY <1>1 DEF InHand
<1>3. \A c \in Chains : Sleeping(c) => Sleeping(c)' \/ c = t.chain
  <2>1. \A u \in Tokens \ {t} : timers'[u] = timers[u]
    BY DEF TimerFires, TypeOK
  <2>2. \A c \in Chains, k \in Kinds :
            /\ [chain |-> c, kind |-> k] \in Tokens
            /\ [chain |-> c, kind |-> k] = t => c = t.chain
    BY DEF Tokens
  <2> QED BY <2>1, <2>2 DEF Sleeping
<1>4. CASE IsValid(t)
  <2>1. SendIntervalChain(t)
    BY <1>4 DEF TimerFires
  <2> QED BY <1>1, <1>2, <1>3, <2>1, SendKeeps
<1>5. CASE ~IsValid(t)
  <2>1. UNCHANGED <<ichainsChan, dropped>> /\ intervalChains[t.chain] = None
    BY <1>5 DEF TimerFires, IsValid
  <2> QED BY <1>1, <1>2, <1>3, <2>1 DEF Queued
<1> QED BY <1>4, <1>5

\* Every step keeps the tokens of known chains.
LEMMA NextKeepsToken == TypeInv /\ KnownChainHasToken /\ [Next]_vars => KnownChainHasToken'
<1> SUFFICES ASSUME TypeInv, KnownChainHasToken, [Next]_vars PROVE KnownChainHasToken'
  OBVIOUS
<1>1. ASSUME NEW c \in Chains, NEW k \in Kinds \cup {None}, EditSchedule(c, k)
      PROVE  KnownChainHasToken'
  BY <1>1 DEF EditSchedule, KnownChainHasToken, Queued, Sleeping, InHand, workerVars
<1>2. CASE UNCHANGED vars
  BY <1>2 DEF vars, KnownChainHasToken, Queued, Sleeping, InHand, workerVars
<1> QED BY <1>1, <1>2, FetchKeepsToken, WorkerKeepsToken, TimerKeepsToken DEF Next

\* A chain the scheduler knows is never forgotten: it is queued, asleep or in hand, unless a
\* full channel refused it (retrieveIntervalChainsAndRun, reschedule, intervalChainWorker).
THEOREM TokenKept == Spec => []KnownChainHasToken
<1>1. Init => KnownChainHasToken
  BY DEF Init, KnownChainHasToken
<1> QED BY <1>1, InitType, NextType, NextKeepsToken, PTL DEF Spec

-----------------------------------------------------------------------------
(* A chain has no second token before it leaves the map: only a chain that *)
(* is not in the map is sent by a fetch, and until it has left for the     *)
(* first time such a chain has no token at all.                            *)

At(c) == {i \in DOMAIN ichainsChan : ichainsChan[i].chain = c}
Holding(c) == {w \in Workers : pc[w] # "idle" /\ tok[w].chain = c /\ tok[w].kind = "after"}
Timers(c) == timers[[chain |-> c, kind |-> "every"]] + timers[[chain |-> c, kind |-> "after"]]

\* The places of a token exclude one another.
Alone(c) ==
    /\ \A i, j \in At(c) : i = j
    /\ \A v, w \in Holding(c) : v = w
    /\ Timers(c) <= 1
    /\ At(c) # {} => Holding(c) = {} /\ Timers(c) = 0
    /\ Holding(c) # {} => Timers(c) = 0

NoToken(c) == At(c) = {} /\ Holding(c) = {} /\ Timers(c) = 0

AloneUntilLeft ==
    \A c \in Chains \ left : Alone(c) /\ (intervalChains[c] = None => NoToken(c))

\* The two timers of a chain, and those of the others.
LEMMA TimersOf ==
    ASSUME TypeOK
    PROVE  /\ \A c \in Chains : Timers(c) \in Nat
           /\ \A t \in Tokens : timers[t] \in Nat /\ timers[t] <= Timers(t.chain)
<1>1. \A c \in Chains : /\ [chain |-> c, kind |-> "every"] \in Tokens
                        /\ [chain |-> c, kind |-> "after"] \in Tokens
  BY DEF Tokens, Kinds
<1>2. ASSUME NEW t \in Tokens
      PROVE  /\ t.chain \in Chains
             /\ \/ t = [chain |-> t.chain, kind |-> "every"]
                \/ t = [chain |-> t.chain, kind |-> "after"]
  BY DEF Tokens, Kinds
<1>3. \A t \in Tokens : timers[t] \in Nat BY DEF TypeOK
<1>4. ASSUME NEW c \in Chains PROVE Timers(c) \in Nat
  <2>1. /\ timers[[chain |-> c, kind |-> "every"]] \in Nat
        /\ timers[[chain |-> c, kind |-> "after"]] \in Nat
    BY <1>1, <1>3
  <2> QED BY <2>1 DEF Timers
<1>5. ASSUME NEW t \in Tokens PROVE timers[t] <= Timers(t.chain)
  BY <1>1, <1>2, <1>3 DEF Timers
<1> QED BY <1>3, <1>4, <1>5

\* A timer that is set or that fires is one of its chain's.
LEMMA TimerChanges ==
    ASSUME TypeOK, NEW t \in Tokens, NEW n \in Nat, timers' = [timers EXCEPT ![t] = n]
    PROVE  \A c \in Chains :
              Timers(c)' = IF c = t.chain THEN (Timers(c) - timers[t]) + n ELSE Timers(c)
<1>1. \A c \in Chains : /\ [chain |-> c, kind |-> "every"] \in Tokens
                        /\ [chain |-> c, kind |-> "after"] \in Tokens
  BY DEF Tokens, Kinds
<1>2. \A u \in Tokens : timers[u] \in Nat /\ timers'[u] = IF u = t THEN n ELSE timers[u]
  BY DEF TypeOK
<1>3. t \in Tokens /\ (t = [chain |-> t.chain, kind |-> "every"]
                       \/ t = [chain |-> t.chain, kind |-> "after"])
  BY DEF Tokens, Kinds
<1> TAKE c \in Chains
<1> DEFINE e == [chain |-> c, kind |-> "every"]
           a == [chain |-> c, kind |-> "after"]
<1>4. e \in Tokens /\ a \in Tokens /\ e # a /\ (t = e \/ t = a <=> c = t.chain)
  BY <1>1, <1>3
<1>5. Timers(c) = timers[e] + timers[a] /\ Timers(c)' = timers'[e] + timers'[a]
  BY DEF Timers
<1> QED BY <1>2, <1>4, <1>5

\* A send adds at most one place, to its chain.
LEMMA SendAdds ==
    ASSUME TypeOK, NEW t \in Tokens, SendIntervalChain(t)
    PROVE  /\ \A c \in Chains : c # t.chain => At(c)' = At(c)
           /\ At(t.chain) = {} => \A i, j \in At(t.chain)' : i = j
<1>1. ichainsChan \in Seq(Tokens) BY DEF TypeOK
<1>2. CASE ichainsChan' = ichainsChan BY <1>2 DEF At
<1>3. CASE ichainsChan' = Append(ichainsChan, t)
  <2>1. /\ Len(ichainsChan) \in Nat /\ DOMAIN ichainsChan = 1..Len(ichainsChan)
        /\ DOMAIN ichainsChan' = 1..(Len(ichainsChan) + 1)
        /\ \A i \in 1..Len(ichainsChan) : ichainsChan'[i] = ichainsChan[i]
        /\ ichainsChan'[Len(ichainsChan) + 1] = t
    BY <1>1, <1>3
  <2>2. \A c \in Chains : c # t.chain => At(c)' = At(c) BY <2>1 DEF At
  <2>3. At(t.chain) = {} => \A i \in At(t.chain)' : i = Len(ichainsChan) + 1 BY <2>1 DEF At
  <2> QED BY <2>2, <2>3
<1> QED BY <1>2, <1>3 DEF SendIntervalChain

\* What a worker receives is gone from the channel.
LEMMA ReceiveTakes ==
    ASSUME TypeOK, ichainsChan # <<>>, ichainsChan' = Tail(ichainsChan), NEW c \in Chains
    PROVE  /\ \A i \in At(c)' : i + 1 \in At(c) /\ i \in Nat /\ i > 0
           /\ Head(ichainsChan).chain = c => 1 \in At(c)
<1>1. ichainsChan \in Seq(Tokens) BY DEF TypeOK
<1>2. /\ Head(ichainsChan) = ichainsChan[1] /\ 1 \in DOMAIN ichainsChan
      /\ \A i \in DOMAIN ichainsChan' :
            /\ i \in Nat /\ i > 0 /\ i + 1 \in DOMAIN ichainsChan
            /\ ichainsChan'[i] = ichainsChan[i + 1]
  BY <1>1
<1> QED BY <1>2 DEF At

\* A step that moves no token.
LEMMA UntouchedAlone ==
    ASSUME AloneUntilLeft, UNCHANGED <<ichainsChan, timers, left, intervalChains>>,
           \A c \in Chains : Holding(c)' = Holding(c)
    PROVE  AloneUntilLeft'
<1>1. \A c \in Chains : At(c)' = At(c) /\ Timers(c)' = Timers(c) BY DEF At, Timers
<1> QED BY <1>1 DEF AloneUntilLeft, Alone, NoToken

\* A fetch sends a token only for a chain that was not in the map.
LEMMA FetchKeepsAlone ==
    ASSUME TypeInv, AloneUntilLeft, NEW f \in Fetchers, FetchStep(f)
    PROVE  AloneUntilLeft'
<1> USE DEF AloneUntilLeft, TypeInv, fetchVars, workerVars
<1>1. CASE SelectIntervalChains(f)
  BY <1>1, UntouchedAlone DEF SelectIntervalChains, Holding
<1>2. CASE DeleteUnlisted(f)
  <2>1. \A c \in Chains : /\ Alone(c)' = Alone(c) /\ NoToken(c)' = NoToken(c)
    BY <1>2 DEF DeleteUnlisted, Alone, NoToken, At, Holding, Timers
  <2>2. \A c \in Chains \ left' :
           c \notin left /\ (intervalChains'[c] = None => intervalChains[c] = None)
    BY <1>2 DEF DeleteUnlisted
  <2> QED BY <2>1, <2>2
<1>3. CASE FetchDone(f)
  BY <1>3, UntouchedAlone DEF FetchDone, Holding
<1>4. ASSUME NEW c \in Chains, UpdateListed(f, c) PROVE AloneUntilLeft'
  <2> DEFINE t == [chain |-> c, kind |-> snapshot[f][c]]
  <2>1. t \in Tokens /\ t.chain = c /\ snapshot[f][c] # None
    BY <1>4, IntervalAssumption
    DEF UpdateListed, HolderHasSnapshot, TypeOK, Schedules, Tokens, IntervalAssumption
  <2>2. left' = left /\ \A d \in Chains : Holding(d)' = Holding(d) /\ Timers(d)' = Timers(d)
    BY <1>4 DEF UpdateListed, Holding, Timers
  <2>3. /\ \A d \in Chains \ {c} : intervalChains'[d] = intervalChains[d]
        /\ intervalChains'[c] # None
    BY <1>4, <2>1 DEF UpdateListed, TypeOK, Schedules
  <2>4. CASE intervalChains[c] = None
    <3>1. SendIntervalChain(t) BY <1>4, <2>4 DEF UpdateListed
    <3>2. \A d \in Chains : d # c => At(d)' = At(d) BY <2>1, <3>1, SendAdds
    <3>3. At(c) = {} => \A i, j \in At(c)' : i = j BY <2>1, <3>1, SendAdds
    <3> QED BY <2>2, <2>3, <2>4, <3>2, <3>3, TimersOf DEF Alone, NoToken
  <2>5. CASE intervalChains[c] # None
    <3>1. \A d \in Chains : At(d)' = At(d) BY <1>4, <2>5 DEF UpdateListed, At
    <3> QED BY <2>2, <2>3, <2>5, <3>1 DEF Alone, NoToken
  <2> QED BY <2>4, <2>5
<1> QED BY <1>1, <1>2, <1>3, <1>4, FetchStep(f) DEF FetchStep

\* A token moves from the channel into the hand of a worker or, for "every", into a timer.
LEMMA ReceiveKeepsAlone ==
    ASSUME TypeInv, AloneUntilLeft, NEW w \in Workers, ReceiveToken(w)
    PROVE  AloneUntilLeft'
<1> USE DEF TypeInv
<1>1. ichainsChan \in Seq(Tokens) /\ ichainsChan # <<>> /\ ichainsChan' = Tail(ichainsChan)
  BY DEF ReceiveToken, TypeOK
<1>2. PICK t \in Tokens : t = Head(ichainsChan)
  BY <1>1
<1>3. UNCHANGED <<intervalChains, left>> /\ pc[w] = "idle" /\ t.chain \in Chains
  BY DEF ReceiveToken, Tokens
<1> SUFFICES ASSUME NEW c \in Chains \ left
             PROVE  Alone(c)' /\ (intervalChains[c] = None => NoToken(c)')
  BY <1>3 DEF AloneUntilLeft
<1>4. Alone(c) /\ (intervalChains[c] = None => NoToken(c)) BY DEF AloneUntilLeft
<1>5. /\ \A i \in At(c)' : i + 1 \in At(c) /\ i \in Nat /\ i > 0
      /\ t.chain = c => 1 \in At(c)
  BY <1>1, <1>2, ReceiveTakes
<1>6. (\A i, j \in At(c)' : i = j) /\ (At(c)' # {} => At(c) # {})
  BY <1>4, <1>5 DEF Alone
<1>7. Timers(c) \in Nat BY TimersOf
<1>8. CASE t.chain # c \/ ~IsValid(t)
  <2>1. Holding(c)' = Holding(c)
    <3>1. CASE IsValid(t)
      <4>1. pc' = [pc EXCEPT ![w] = "admit"] /\ tok' = [tok EXCEPT ![w] = t]
        BY <1>2, <3>1 DEF ReceiveToken
      <4> QED BY <1>3, <1>8, <3>1, <4>1 DEF Holding, TypeOK
    <3>2. CASE ~IsValid(t) BY <1>2, <3>2 DEF ReceiveToken, Holding, workerVars
    <3> QED BY <3>1, <3>2
  <2>2. Timers(c)' = Timers(c)
    <3>1. CASE timers' = timers BY <3>1 DEF Timers
    <3>2. CASE t.chain # c /\ timers' = [timers EXCEPT ![t] = timers[t] + 1]
      <4>1. timers[t] + 1 \in Nat BY TimersOf
      <4> QED BY <3>2, <4>1, TimerChanges DEF TypeOK
    <3> QED BY <1>2, <1>8, <3>1, <3>2 DEF ReceiveToken, Reschedule
  <2> QED BY <1>4, <1>6, <2>1, <2>2 DEF Alone, NoToken
<1>9. CASE t.chain = c /\ IsValid(t)
  <2>1. At(c)' = {}
    <3> SUFFICES ASSUME NEW i \in At(c)' PROVE FALSE OBVIOUS
    <3>1. i + 1 \in At(c) /\ 1 \in At(c) /\ i \in Nat /\ i > 0 BY <1>5, <1>9
    <3>2. i + 1 = 1 BY <1>4, <3>1 DEF Alone
    <3> QED BY <3>1, <3>2
  <2>2. Holding(c) = {} /\ Timers(c) = 0 BY <1>4, <1>5, <1>9 DEF Alone
  <2>3. intervalChains[c] # None BY <1>9 DEF IsValid
  <2>4. pc' = [pc EXCEPT ![w] = "admit"] /\ tok' = [tok EXCEPT ![w] = t]
    BY <1>2, <1>9 DEF ReceiveToken
  <2>5. CASE t.kind = "every"
    <3>1. timers' = [timers EXCEPT ![t] = timers[t] + 1]
      BY <1>2, <1>9, <2>5 DEF ReceiveToken, Reschedule
    <3>2. timers[t] + 1 \in Nat BY TimersOf
    <3>3. Timers(c)' = (0 - timers[t]) + (timers[t] + 1) BY <1>9, <2>2, <3>1, <3>2, TimerChanges
    <3>4. Timers(c)' = 1 BY <3>2, <3>3, TimersOf
    <3>5. Holding(c)' = {} BY <2>2, <2>4, <2>5 DEF Holding, TypeOK
    <3> QED BY <2>1, <2>3, <3>4, <3>5 DEF Alone
  <2>6. CASE t.kind # "every"
    <3>1. Timers(c)' = 0 BY <1>2, <1>9, <2>2, <2>6 DEF ReceiveToken, Timers
    <3>2. Holding(c)' \subseteq {w} BY <2>2, <2>4 DEF Holding, TypeOK
    <3> QED BY <2>1, <2>3, <3>1, <3>2 DEF Alone
  <2> QED BY <2>5, <2>6
<1> QED BY <1>8, <1>9

\* A token moves from the hand of a worker into a timer, or ends.
LEMMA DoneKeepsAlone ==
    ASSUME TypeInv, AloneUntilLeft, NEW w \in Workers, Done(w)
    PROVE  AloneUntilLeft'
<1> USE DEF TypeInv
<1>1. tok[w] \in Tokens /\ pc[w] # "idle" BY DEF Done, HasToken
<1>2. /\ UNCHANGED <<intervalChains, left, ichainsChan>>
      /\ pc' = [pc EXCEPT ![w] = "idle"] /\ tok' = [tok EXCEPT ![w] = None]
  BY DEF Done
<1>3. \A c \in Chains : At(c)' = At(c) /\ Holding(c)' = Holding(c) \ {w}
  BY <1>2 DEF At, Holding, TypeOK
<1>4. CASE tok[w].kind = "after"
  <2>1. timers' = [timers EXCEPT ![tok[w]] = timers[tok[w]] + 1] BY <1>4 DEF Done, Reschedule
  <2>2. timers[tok[w]] + 1 \in Nat BY <1>1, TimersOf
  <2>3. \A c \in Chains :
           Timers(c)' = IF c = tok[w].chain THEN Timers(c) + 1 ELSE Timers(c)
    <3>1. \A c \in Chains :
             Timers(c)' = IF c = tok[w].chain
                            THEN (Timers(c) - timers[tok[w]]) + (timers[tok[w]] + 1)
                            ELSE Timers(c)
      BY <1>1, <2>1, <2>2, TimerChanges
    <3>2. timers[tok[w]] \in Nat /\ \A c \in Chains : Timers(c) \in Nat BY <1>1, TimersOf
    <3> QED BY <3>1, <3>2
  <2>4. \A c \in Chains : c # tok[w].chain => Holding(c)' = Holding(c)
    BY <1>3 DEF Holding
  <2>5. w \in Holding(tok[w].chain) BY <1>1, <1>4 DEF Holding
  <2> SUFFICES ASSUME NEW c \in Chains \ left
               PROVE  Alone(c)' /\ (intervalChains[c] = None => NoToken(c)')
    BY <1>2 DEF AloneUntilLeft
  <2>6. Alone(c) /\ (intervalChains[c] = None => NoToken(c)) BY DEF AloneUntilLeft
  <2>7. CASE c # tok[w].chain BY <1>3, <2>3, <2>4, <2>6, <2>7 DEF Alone, NoToken
  <2>8. CASE c = tok[w].chain
    <3>1. At(c)' = {} /\ Timers(c)' = 1 /\ Holding(c)' = {} /\ ~NoToken(c)
      BY <1>3, <2>3, <2>5, <2>6, <2>8 DEF Alone, NoToken
    <3> QED BY <2>6, <3>1 DEF Alone
  <2> QED BY <2>7, <2>8
<1>5. CASE tok[w].kind # "after"
  <2>1. \A c \in Chains : Timers(c)' = Timers(c) BY <1>5 DEF Done, Timers
  <2>2. \A c \in Chains : Holding(c)' = Holding(c) BY <1>3, <1>5 DEF Holding
  <2> QED BY <1>2, <1>3, <2>1, <2>2 DEF AloneUntilLeft, Alone, NoToken
<1> QED BY <1>4, <1>5

\* A token moves from its timer into the channel, or ends.
LEMMA TimerKeepsAlone ==
    ASSUME TypeInv, AloneUntilLeft, NEW t \in Tokens, TimerFires(t)
    PROVE  AloneUntilLeft'
<1> USE DEF TypeInv
<1>1. /\ UNCHANGED <<intervalChains, left, pc, tok>> /\ timers[t] > 0
      /\ timers' = [timers EXCEPT ![t] = timers[t] - 1] /\ t.chain \in Chains
  BY DEF TimerFires, workerVars, Tokens
<1>2. \A c \in Chains : Holding(c)' = Holding(c) BY <1>1 DEF Holding
<1>3. timers[t] \in Nat /\ timers[t] <= Timers(t.chain) /\ Timers(t.chain) \in Nat
  BY <1>1, TimersOf
<1>4. \A c \in Chains : Timers(c)' = IF c = t.chain THEN Timers(c) - 1 ELSE Timers(c)
  <2>1. timers[t] - 1 \in Nat BY <1>1, <1>3
  <2>2. \A c \in Chains :
           Timers(c)' = IF c = t.chain THEN (Timers(c) - timers[t]) + (timers[t] - 1)
                                       ELSE Timers(c)
    BY <1>1, <2>1, TimerChanges
  <2>3. \A c \in Chains : Timers(c) \in Nat BY TimersOf
  <2> QED BY <1>3, <2>2, <2>3
<1>5. \A c \in Chains : c # t.chain => At(c)' = At(c)
  BY SendAdds DEF TimerFires, At
<1>6. (At(t.chain) = {} => \A i, j \in At(t.chain)' : i = j)
  BY SendAdds DEF TimerFires, At
<1> SUFFICES ASSUME NEW c \in Chains \ left
             PROVE  Alone(c)' /\ (intervalChains[c] = None => NoToken(c)')
  BY <1>1 DEF AloneUntilLeft
<1>7. Alone(c) /\ (intervalChains[c] = None => NoToken(c)) BY DEF AloneUntilLeft
<1>8. CASE c # t.chain BY <1>2, <1>4, <1>5, <1>7, <1>8 DEF Alone, NoToken
<1>9. CASE c = t.chain
  <2>1. Timers(c) = 1 /\ At(c) = {} /\ Holding(c) = {} /\ ~NoToken(c)
    BY <1>1, <1>3, <1>7, <1>9 DEF Alone, NoToken
  <2>2. Timers(c)' = 0 /\ Holding(c)' = {} /\ \A i, j \in At(c)' : i = j
    BY <1>2, <1>4, <1>6, <1>9, <2>1
  <2> QED BY <1>7, <2>1, <2>2 DEF Alone
<1> QED BY <1>8, <1>9

\* As long as a chain has never left the map it has one token at most, whatever fetches overlap
\* and whatever its schedule is changed to (retrieveIntervalChainsAndRun, intervalChainWorker).
THEOREM OneToken == Spec => []OneTokenUntilRemoved
<1>1. Init => AloneUntilLeft
  <2> SUFFICES ASSUME Init, NEW c \in Chains PROVE Alone(c) /\ NoToken(c)
    BY DEF AloneUntilLeft
  <2>1. At(c) = {} /\ Holding(c) = {} BY DEF Init, At, Holding
  <2>2. Timers(c) = 0 BY DEF Init, Timers, Tokens, Kinds
  <2> QED BY <2>1, <2>2 DEF Alone, NoToken
<1>2. TypeInv /\ AloneUntilLeft /\ [Next]_vars => AloneUntilLeft'
  <2> SUFFICES ASSUME TypeInv, AloneUntilLeft, [Next]_vars PROVE AloneUntilLeft'
    OBVIOUS
  <2>1. ASSUME NEW c \in Chains, NEW k \in Kinds \cup {None}, EditSchedule(c, k)
        PROVE  AloneUntilLeft'
    BY <2>1, UntouchedAlone DEF EditSchedule, Holding, workerVars
  <2>2. ASSUME NEW w \in Workers, Admitted(w) PROVE AloneUntilLeft'
    <3>1. \A c \in Chains : Holding(c)' = Holding(c)
      BY <2>2 DEF Admitted, Holding, TypeInv, TypeOK
    <3> QED BY <2>2, <3>1, UntouchedAlone DEF Admitted
  <2>3. CASE UNCHANGED vars BY <2>3, UntouchedAlone DEF vars, Holding, workerVars
  <2> QED BY <2>1, <2>2, <2>3, FetchKeepsAlone, ReceiveKeepsAlone, DoneKeepsAlone,
          TimerKeepsAlone DEF Next, WorkerStep
<1>3. TypeInv /\ AloneUntilLeft => OneTokenUntilRemoved
  <2> SUFFICES ASSUME TypeInv, NEW c \in Chains, Alone(c) PROVE TokenCount(c) <= 1
    BY DEF AloneUntilLeft, OneTokenUntilRemoved
  <2>1. Timers(c) \in Nat BY TimersOf DEF TypeInv
  <2>2. Cardinality(At(c)) = IF At(c) = {} THEN 0 ELSE 1
    <3>1. CASE At(c) = {} BY <3>1, FS_EmptySet
    <3>2. ASSUME NEW i \in At(c) PROVE Cardinality(At(c)) = 1
      <4>1. At(c) = {i} BY DEF Alone
      <4> QED BY <4>1, FS_Singleton
    <3> QED BY <3>1, <3>2
  <2>3. Cardinality(Holding(c)) = IF Holding(c) = {} THEN 0 ELSE 1
    <3>1. CASE Holding(c) = {} BY <3>1, FS_EmptySet
    <3>2. ASSUME NEW w \in Holding(c) PROVE Cardinality(Holding(c)) = 1
      <4>1. Holding(c) = {w} BY DEF Alone
      <4> QED BY <4>1, FS_Singleton
    <3> QED BY <3>1, <3>2
  <2>4. Cardinality(At(c)) + Timers(c) + Cardinality(Holding(c)) <= 1
    BY <2>1, <2>2, <2>3 DEF Alone
  <2>5. /\ timers[[chain |-> c, kind |-> "every"]] \in Nat
        /\ timers[[chain |-> c, kind |-> "after"]] \in Nat
    BY DEF TypeInv, TypeOK, Tokens, Kinds
  <2>6. TokenCount(c) = Cardinality(At(c)) + timers[[chain |-> c, kind |-> "every"]]
                          + timers[[chain |-> c, kind |-> "after"]] + Cardinality(Holding(c))
    BY DEF TokenCount, At, Holding
  <2> QED BY <2>1, <2>2, <2>3, <2>4, <2>5, <2>6 DEF Timers
<1> QED BY <1>1, <1>2, <1>3, InitType, NextType, PTL DEF Spec

-----------------------------------------------------------------------------
(* Cron.                                                                    *)

\* What NextRunAgrees is about.
NextRunDefined ==
    /\ run_at # NoCron /\ InDomain(run_at)
    /\ 7 \in Field(run_at, 5) => 0 \in Field(run_at, 5)

-----------------------------------------------------------------------------
(* Numbers and recursion.                                                   *)

\* A set of numbers has a smallest one.
LEMMA Least ==
    ASSUME NEW S \in SUBSET Nat, S # {}
    PROVE  \E n \in S : \A k \in S : n <= k
<1> DEFINE R == OpToRel(<, Nat)
<1>1. IsWellFoundedOn(R, Nat) BY NatLessThanWellFounded
<1>2. \A x, y \in Nat : x < y => <<x, y>> \in R BY DEF OpToRel
<1> HIDE DEF R
<1>3. PICK n \in S : \A k \in S : ~(<<k, n>> \in R) BY <1>1, WFMin
<1>4. ASSUME NEW k \in S PROVE n <= k
  <2>1. ~(k < n) BY <1>2, <1>3
  <2> QED BY <2>1
<1> QED BY <1>4

\* Induction over a set of numbers.
LEMMA Induction ==
    ASSUME NEW S \in SUBSET Nat, 0 \in S, \A n \in S : n + 1 \in S
    PROVE  S = Nat
<1> SUFFICES ASSUME Nat \ S # {} PROVE FALSE OBVIOUS
<1>1. PICK n \in Nat \ S : \A k \in Nat \ S : n <= k BY Least
<1>2. n # 0 /\ n - 1 \in Nat BY <1>1
<1>3. n - 1 \in S BY <1>1, <1>2
<1> QED BY <1>1, <1>3

\* The recursion that defines Sum has a solution.
LEMMA SumUnfolds == Sum = [k \in Nat |-> IF k = 0 THEN 0 ELSE Sum[k - 1] + MonthLengths[k]]
<1> DEFINE Plus(s, k) == s + MonthLengths[k]
           Upto(f, n) == f = [k \in 0..n |-> IF k = 0 THEN 0 ELSE Plus(f[k - 1], k)]
           All(f)     == f = [k \in Nat |-> IF k = 0 THEN 0 ELSE Plus(f[k - 1], k)]
<1>1. SUFFICES \E f : All(f) BY DEF Sum
<1> HIDE DEF Plus
<1>2. ASSUME NEW m \in Nat, NEW n \in Nat, NEW f, NEW g, Upto(f, m), Upto(g, n)
      PROVE  \A k \in Nat : k <= m /\ k <= n => f[k] = g[k]
  <2> DEFINE S == {k \in Nat : k <= m /\ k <= n => f[k] = g[k]}
  <2>1. 0 \in S BY <1>2
  <2>2. ASSUME NEW k \in S PROVE k + 1 \in S
    <3>1. SUFFICES ASSUME k + 1 <= m, k + 1 <= n PROVE f[k + 1] = g[k + 1] OBVIOUS
    <3>2. f[k] = g[k] BY <3>1
    <3>3. f[k + 1] = Plus(f[k], k + 1) /\ g[k + 1] = Plus(g[k], k + 1) BY <1>2, <3>1
    <3> QED BY <3>2, <3>3
  <2> HIDE DEF S
  <2>3. S = Nat BY <2>1, <2>2, Induction DEF S
  <2> QED BY <2>3 DEF S
<1>3. \A n \in Nat : \E f : Upto(f, n)
  <2> DEFINE S == {n \in Nat : \E f : Upto(f, n)}
  <2>1. 0 \in S
    <3>1. Upto([k \in 0..0 |-> 0], 0) OBVIOUS
    <3> QED BY <3>1
  <2>2. ASSUME NEW n \in S PROVE n + 1 \in S
    <3>1. PICK f : Upto(f, n) OBVIOUS
    <3> DEFINE g == [k \in 0..(n + 1) |-> IF k <= n THEN f[k] ELSE Plus(f[n], n + 1)]
    <3>2. Upto(g, n + 1)
      <4>1. ASSUME NEW k \in 0..(n + 1)
            PROVE  g[k] = IF k = 0 THEN 0 ELSE Plus(g[k - 1], k)
        <5>1. CASE k = 0 BY <3>1, <5>1
        <5>2. CASE k # 0 /\ k <= n
          <6>1. g[k] = f[k] /\ g[k - 1] = f[k - 1] BY <5>2
          <6> QED BY <3>1, <5>2, <6>1
        <5>3. CASE k = n + 1 BY <5>3
        <5> QED BY <5>1, <5>2, <5>3
      <4> QED BY <4>1
    <3> HIDE DEF g
    <3>3. n + 1 \in Nat /\ \E e : Upto(e, n + 1) BY <3>2
    <3> QED BY <3>3
  <2> HIDE DEF S
  <2>3. S = Nat BY <2>1, <2>2, Induction DEF S
  <2> QED BY <2>3 DEF S
<1> DEFINE h == [n \in Nat |-> CHOOSE f : Upto(f, n)]
           F == [n \in Nat |-> h[n][n]]
<1>4. \A n \in Nat : Upto(h[n], n) BY <1>3
<1> HIDE DEF h
<1>5. ASSUME NEW k \in Nat PROVE F[k] = IF k = 0 THEN 0 ELSE Plus(F[k - 1], k)
  <2>1. Upto(h[k], k) BY <1>4
  <2>2. CASE k = 0 BY <2>1, <2>2
  <2>3. CASE k # 0
    <3>1. k - 1 \in Nat /\ Upto(h[k - 1], k - 1) BY <1>4, <2>3
    <3>2. h[k][k - 1] = h[k - 1][k - 1] BY <1>2, <2>1, <3>1
    <3>3. h[k][k] = Plus(h[k][k - 1], k) BY <2>1, <2>3
    <3> QED BY <2>3, <3>1, <3>2, <3>3
  <2> QED BY <2>2, <2>3
<1>6. All(F) BY <1>5
<1> QED BY <1>6

-----------------------------------------------------------------------------
(* Division.                                                                *)

\* A multiple is no smaller.
LEMMA Grows ==
    ASSUME NEW x \in Nat \ {0}, NEW b \in Nat
    PROVE  x * b >= b
OBVIOUS

\* Quotient and remainder.
IsDivision(a, b, q, r) == a = q * b + r

\* There are such a quotient and remainder.
LEMMA DivMod ==
    ASSUME NEW a \in Nat, NEW b \in Nat \ {0}
    PROVE  a \div b \in Nat /\ a % b \in 0..b - 1 /\ IsDivision(a, b, a \div b, a % b)
BY DEF IsDivision

\* And no others.
LEMMA DivModUnique ==
    ASSUME NEW a \in Nat, NEW b \in Nat \ {0}, NEW q \in Nat, NEW r \in 0..b - 1,
           IsDivision(a, b, q, r)
    PROVE  q = a \div b /\ r = a % b
<1>1. a \div b \in Nat /\ a % b \in 0..b - 1 /\ a = (a \div b) * b + (a % b)
      BY DivMod DEF IsDivision
<1> DEFINE p == a \div b
           s == a % b
<1>2. p \in Nat /\ s \in 0..b - 1 /\ a = p * b + s BY <1>1
<1> HIDE DEF p, s
<1>3. (q - p) * b = s - r BY <1>2 DEF IsDivision
<1>4. ~(q > p)
  <2> SUFFICES ASSUME q > p PROVE FALSE OBVIOUS
  <2>1. (q - p) * b >= b BY <1>2, Grows
  <2> QED BY <1>2, <1>3, <2>1
<1>5. ~(p > q)
  <2> SUFFICES ASSUME p > q PROVE FALSE OBVIOUS
  <2>1. (p - q) * b >= b BY <1>2, Grows
  <2>2. (p - q) * b = r - s BY <1>2 DEF IsDivision
  <2> QED BY <1>2, <2>1, <2>2
<1>6. q = p BY <1>2, <1>4, <1>5
<1>7. r = s BY <1>2, <1>6 DEF IsDivision
<1> QED BY <1>6, <1>7 DEF p, s

\* Before which multiple of b a number is, and in which part.
LEMMA DivLess ==
    ASSUME NEW a \in Nat, NEW b \in Nat \ {0}, NEW c \in Nat
    PROVE  a \div b < c <=> a < c * b
<1>1. a \div b \in Nat /\ a % b \in 0..b - 1 /\ a = (a \div b) * b + (a % b)
      BY DivMod DEF IsDivision
<1> DEFINE q == a \div b
           r == a % b
<1>2. q \in Nat /\ r \in 0..b - 1 /\ a = q * b + r BY <1>1
<1> HIDE DEF q, r
<1>3. ASSUME q < c PROVE a < c * b
  <2>1. (c - q) * b >= b BY <1>2, <1>3, Grows
  <2>2. (c - q) * b = c * b - q * b /\ c * b \in Nat /\ q * b \in Nat BY <1>2
  <2> QED BY <1>2, <2>1, <2>2
<1>4. ASSUME ~(q < c) PROVE ~(a < c * b)
  <2>1. (q - c) * b \in Nat BY <1>2, <1>4
  <2>2. (q - c) * b = q * b - c * b /\ c * b \in Nat /\ q * b \in Nat BY <1>2
  <2> QED BY <1>2, <2>1, <2>2
<1> QED BY <1>3, <1>4 DEF q

\* A minute is a day, an hour and a minute of the hour.
IsTime(m, d, h, mi, M, H) == m = d * (M * H) + (h * M + mi)

\* Such a minute has these parts.
LEMMA Compose ==
    ASSUME NEW M \in Nat \ {0}, NEW H \in Nat \ {0}, NEW d \in Nat,
           NEW h \in 0..H - 1, NEW mi \in 0..M - 1,
           NEW m, IsTime(m, d, h, mi, M, H)
    PROVE  m \in Nat /\ m \div (M * H) = d /\ (m \div M) % H = h /\ m % M = mi
<1>0. m = d * (M * H) + (h * M + mi) BY DEF IsTime
<1>1. d * (M * H) \in Nat /\ h * M \in Nat /\ M * H \in Nat \ {0} /\ d * H \in Nat
  <2>1. \A a, b \in Nat : a * b \in Nat OBVIOUS
  <2>2. \A a, b \in Nat : a # 0 /\ b # 0 => a * b # 0 OBVIOUS
  <2>3. M * H \in Nat \ {0} BY <2>1, <2>2
  <2> QED BY <2>1, <2>3
<1>2. m \in Nat BY <1>0, <1>1
<1>3. h * M + mi \in 0..(M * H) - 1
  <2>1. h * M + mi <= (H - 1) * M + (M - 1)
    <3>1. (H - 1 - h) * M \in Nat OBVIOUS
    <3>2. (H - 1 - h) * M = (H - 1) * M - h * M OBVIOUS
    <3>3. (H - 1) * M \in Nat OBVIOUS
    <3> QED BY <1>1, <3>1, <3>2, <3>3
  <2>2. (H - 1) * M + (M - 1) = (M * H) - 1 OBVIOUS
  <2> QED BY <1>1, <2>1, <2>2
<1>4. m \div (M * H) = d
  <2>1. IsDivision(m, M * H, d, h * M + mi) BY <1>0 DEF IsDivision
  <2> QED BY <1>1, <1>2, <1>3, <2>1, DivModUnique
<1>5. IsDivision(m, M, d * H + h, mi) /\ d * H + h \in Nat
      BY <1>0, <1>1 DEF IsDivision
<1>6. m \div M = d * H + h /\ m % M = mi BY <1>1, <1>2, <1>5, DivModUnique
<1>7. (d * H + h) % H = h
  <2>1. IsDivision(d * H + h, H, d, h) BY DEF IsDivision
  <2> QED BY <1>1, <1>5, <2>1, DivModUnique
<1> QED BY <1>2, <1>4, <1>6, <1>7

\* Every minute has them.
LEMMA Decompose ==
    ASSUME NEW M \in Nat \ {0}, NEW H \in Nat \ {0}, NEW m \in Nat
    PROVE  IsTime(m, m \div (M * H), (m \div M) % H, m % M, M, H)
<1>1. m \div M \in Nat /\ m % M \in 0..M - 1 /\ m = (m \div M) * M + (m % M)
      BY DivMod DEF IsDivision
<1> DEFINE n == m \div M
           mi == m % M
<1>2. n \div H \in Nat /\ n % H \in 0..H - 1 /\ n = (n \div H) * H + (n % H)
      BY <1>1, DivMod DEF IsDivision
<1> DEFINE d == n \div H
           h == n % H
<1>3. /\ n \in Nat /\ mi \in 0..M - 1 /\ m = n * M + mi
      /\ d \in Nat /\ h \in 0..H - 1 /\ n = d * H + h
      BY <1>1, <1>2
<1> HIDE DEF n, mi, d, h
<1>4. IsTime(m, d, h, mi, M, H) BY <1>3 DEF IsTime
<1>5. m \div (M * H) = d BY <1>3, <1>4, Compose
<1> QED BY <1>4, <1>5 DEF n, mi, h

-----------------------------------------------------------------------------
(* The calendar.                                                            *)

\* The days before a month are a number, and the days of the month are added.
LEMMA SumStep ==
    /\ Len(MonthLengths) \in Nat /\ DOMAIN MonthLengths = 1..Len(MonthLengths)
    /\ Sum[0] = 0
    /\ \A k \in DOMAIN MonthLengths : Sum[k] = Sum[k - 1] + MonthLengths[k] /\ MonthLengths[k] \in Nat \ {0}
    /\ \A k \in 0..Len(MonthLengths) : Sum[k] \in Nat
<1>1. /\ Len(MonthLengths) \in Nat /\ DOMAIN MonthLengths = 1..Len(MonthLengths)
      /\ \A k \in DOMAIN MonthLengths : MonthLengths[k] \in Nat \ {0}
      BY CronAssumption
<1>2. \A k \in Nat : Sum[k] = IF k = 0 THEN 0 ELSE Sum[k - 1] + MonthLengths[k] BY SumUnfolds
<1>3. Sum[0] = 0 BY <1>2
<1>4. \A k \in DOMAIN MonthLengths : Sum[k] = Sum[k - 1] + MonthLengths[k] BY <1>1, <1>2
<1> DEFINE S == {k \in Nat : k <= Len(MonthLengths) => Sum[k] \in Nat}
<1>5. 0 \in S BY <1>3
<1>6. ASSUME NEW k \in S PROVE k + 1 \in S
  <2> SUFFICES ASSUME k + 1 <= Len(MonthLengths) PROVE Sum[k + 1] \in Nat OBVIOUS
  <2>1. k + 1 \in DOMAIN MonthLengths /\ Sum[k] \in Nat /\ (k + 1) - 1 = k BY <1>1
  <2>2. Sum[k + 1] = Sum[k] + MonthLengths[k + 1] BY <1>4, <2>1
  <2> QED BY <1>1, <2>1, <2>2
<1> HIDE DEF S
<1>7. S = Nat BY <1>5, <1>6, Induction DEF S
<1>8. \A k \in 0..Len(MonthLengths) : Sum[k] \in Nat BY <1>1, <1>7 DEF S
<1> QED BY <1>1, <1>3, <1>4, <1>8

\* Later months begin later.
LEMMA SumGrows ==
    ASSUME NEW j \in 0..Len(MonthLengths), NEW k \in 0..Len(MonthLengths), j < k
    PROVE  Sum[j] < Sum[k]
<1> DEFINE S == {n \in Nat : n <= Len(MonthLengths) /\ j < n => Sum[j] < Sum[n]}
<1>1. 0 \in S OBVIOUS
<1>2. ASSUME NEW n \in S PROVE n + 1 \in S
  <2> SUFFICES ASSUME n + 1 <= Len(MonthLengths), j < n + 1 PROVE Sum[j] < Sum[n + 1] OBVIOUS
  <2>1. n + 1 \in DOMAIN MonthLengths /\ n \in 0..Len(MonthLengths) /\ (n + 1) - 1 = n BY SumStep
  <2>2. Sum[n + 1] = Sum[n] + MonthLengths[n + 1] BY SumStep, <2>1
  <2>3. Sum[n] \in Nat /\ Sum[j] \in Nat /\ MonthLengths[n + 1] \in Nat \ {0} BY SumStep, <2>1
  <2>4. j = n \/ Sum[j] < Sum[n] BY <2>1
  <2> QED BY <2>2, <2>3, <2>4
<1> HIDE DEF S
<1>3. S = Nat BY <1>1, <1>2, Induction DEF S
<1> QED BY <1>3, SumStep DEF S

\* The month of a day is the one in which it lies.
LEMMA MonthOfDay ==
    ASSUME NEW d \in Nat, NEW k \in DOMAIN MonthLengths, Sum[k - 1] <= d, d < Sum[k]
    PROVE  MonthIndex(d) = k
<1>1. ASSUME NEW j \in DOMAIN MonthLengths, Sum[j - 1] <= d, d < Sum[j] PROVE j = k
  <2>1. /\ j \in 0..Len(MonthLengths) /\ j - 1 \in 0..Len(MonthLengths)
        /\ k \in 0..Len(MonthLengths) /\ k - 1 \in 0..Len(MonthLengths)
        BY SumStep
  <2>2. /\ Sum[j] \in Nat /\ Sum[j - 1] \in Nat /\ Sum[k] \in Nat /\ Sum[k - 1] \in Nat
        BY SumStep, <2>1
  <2>3. ~(j < k)
    <3> SUFFICES ASSUME j < k PROVE FALSE OBVIOUS
    <3>1. j = k - 1 \/ Sum[j] < Sum[k - 1] BY <2>1, SumGrows
    <3> QED BY <1>1, <2>2, <3>1
  <2>4. ~(k < j)
    <3> SUFFICES ASSUME k < j PROVE FALSE OBVIOUS
    <3>1. k = j - 1 \/ Sum[k] < Sum[j - 1] BY <2>1, SumGrows
    <3> QED BY <1>1, <2>2, <3>1
  <2> QED BY <2>1, <2>3, <2>4
<1> QED BY <1>1 DEF MonthIndex

\* Every day before the end of a month has one, which is not a later one.
LEMMA DayHasMonth ==
    ASSUME NEW d \in Nat, NEW n \in 0..Len(MonthLengths), d < Sum[n]
    PROVE  /\ MonthIndex(d) \in 1..n
           /\ Sum[MonthIndex(d) - 1] <= d /\ d < Sum[MonthIndex(d)]
<1> DEFINE S == {k \in Nat : k <= Len(MonthLengths) /\ d < Sum[k]}
<1>1. n \in S OBVIOUS
<1>2. PICK k \in S : \A j \in S : k <= j BY <1>1, Least
<1>3. k # 0 /\ k \in 0..Len(MonthLengths) /\ k \in DOMAIN MonthLengths
      /\ k - 1 \in Nat /\ k - 1 \in 0..Len(MonthLengths) BY SumStep
<1>4. k - 1 \notin S BY <1>2, <1>3
<1>5. Sum[k - 1] <= d BY <1>3, <1>4, SumStep
<1>6. MonthIndex(d) = k BY <1>3, <1>5, MonthOfDay
<1>7. k <= n BY <1>1, <1>2
<1> QED BY <1>3, <1>5, <1>6, <1>7

-----------------------------------------------------------------------------
(* next_run and is_cron_in_time.                                            *)

\* The sizes of the calendar.
LEMMA Sizes ==
    /\ Slots \in Nat \ {0} /\ MonthsInYear \in Nat \ {0}
    /\ LastMinute + 1 \in Nat \ {0} /\ LastHour + 1 \in Nat \ {0}
    /\ MinutesInDay \in Nat \ {0}
<1>1. \A a, b \in Nat \ {0} : a * b \in Nat \ {0} OBVIOUS
<1>2. LastMinute + 1 \in Nat \ {0} /\ LastHour + 1 \in Nat \ {0} BY CronAssumption
<1> QED BY <1>1, <1>2, CronAssumption DEF MinutesInDay

\* The months that next_run looks at are in the calendar.
LEMMA YearAhead ==
    ASSUME NEW ts \in 0..Until
    PROVE  /\ Minute(ts) \in Nat /\ DayOf(Minute(ts)) \in Nat
           /\ LET first == MonthIndex(DayOf(Minute(ts)))
              IN  /\ first \in DOMAIN MonthLengths
                  /\ first + MonthsInYear \in DOMAIN MonthLengths
                  /\ Sum[first - 1] <= DayOf(Minute(ts))
<1>1. PICK k \in DOMAIN MonthLengths :
         /\ k + MonthsInYear \in DOMAIN MonthLengths
         /\ Until < Sum[k] * MinutesInDay * Slots
      BY CalendarAssumption
<1>2. k \in 1..Len(MonthLengths) /\ Sum[k] \in Nat /\ Until \in Nat
      BY SumStep, CronAssumption
<1>3. ts \in Nat /\ Sum[k] * MinutesInDay \in Nat
  <2>1. \A a, b \in Nat : a * b \in Nat OBVIOUS
  <2> QED BY <2>1, <1>2, Sizes
<1>4. ts < (Sum[k] * MinutesInDay) * Slots
  <2> DEFINE end == (Sum[k] * MinutesInDay) * Slots
  <2>1. end \in Nat
    <3>1. \A a, b \in Nat : a * b \in Nat OBVIOUS
    <3> QED BY <3>1, <1>3, Sizes
  <2>2. Until < end BY <1>1
  <2> HIDE DEF end
  <2>3. ts < end BY <1>2, <1>3, <2>1, <2>2, Sizes
  <2> QED BY <2>3 DEF end
<1>5. Minute(ts) \in Nat /\ Minute(ts) < Sum[k] * MinutesInDay
      BY <1>3, <1>4, Sizes, DivLess, DivMod DEF Minute
<1>6. DayOf(Minute(ts)) \in Nat /\ DayOf(Minute(ts)) < Sum[k]
      BY <1>2, <1>5, Sizes, DivLess, DivMod DEF DayOf
<1> DEFINE first == MonthIndex(DayOf(Minute(ts)))
<1>7. first \in 1..k /\ Sum[first - 1] <= DayOf(Minute(ts)) BY <1>2, <1>6, DayHasMonth
<1> HIDE DEF first
<1>8. first \in DOMAIN MonthLengths /\ first + MonthsInYear \in DOMAIN MonthLengths
  <2>1. DOMAIN MonthLengths = 1..Len(MonthLengths) /\ Len(MonthLengths) \in Nat BY SumStep
  <2>2. MonthsInYear \in Nat BY Sizes
  <2> QED BY <1>1, <1>2, <1>7, <2>1, <2>2
<1> QED BY <1>5, <1>6, <1>7, <1>8 DEF first

\* The days of cron_days are those of a year and a month that match.
LEMMA DaysMean ==
    ASSUME NEW ts \in 0..Until, NEW F4, NEW F3, NEW F5
    PROVE  LET first == MonthIndex(DayOf(Minute(ts)))
           IN  /\ cron_days(ts, F4, F3, F5) \subseteq Nat
               /\ \A d \in Nat : d \in cron_days(ts, F4, F3, F5) <=>
                     /\ Sum[first - 1] <= d /\ d < Sum[first + MonthsInYear]
                     /\ month(MonthIndex(d)) \in F4 /\ day(d) \in F3 /\ dow(d) \in F5
<1> DEFINE first == MonthIndex(DayOf(Minute(ts)))
           last  == first + MonthsInYear
           Ms    == {k \in first..last : month(k) \in F4}
           Ds    == UNION {Sum[k - 1]..Sum[k] - 1 : k \in Ms}
<1>1. cron_days(ts, F4, F3, F5) = {d \in Ds : day(d) \in F3 /\ dow(d) \in F5}
      BY DEF cron_days, cron_months
<1>2. first \in DOMAIN MonthLengths /\ last \in DOMAIN MonthLengths BY YearAhead
<1>3. MonthsInYear \in Nat /\ last = first + MonthsInYear BY Sizes
<1> HIDE DEF first, last
<1>4. /\ first \in 1..Len(MonthLengths) /\ last \in 1..Len(MonthLengths)
      /\ \A k \in first..last : /\ k \in DOMAIN MonthLengths
                                /\ Sum[k] \in Nat /\ Sum[k - 1] \in Nat
                                /\ k - 1 \in 0..Len(MonthLengths) /\ k \in 0..Len(MonthLengths)
      BY <1>2, SumStep
<1>5. first <= last /\ Sum[first - 1] \in Nat /\ Sum[last] \in Nat BY <1>3, <1>4
<1>6. ASSUME NEW k \in Ms, NEW d \in Sum[k - 1]..Sum[k] - 1
      PROVE  /\ d \in Nat /\ MonthIndex(d) = k
             /\ Sum[first - 1] <= d /\ d < Sum[last]
  <2>0. k \in first..last /\ k \in Int /\ first \in Int /\ last \in Int BY <1>4
  <2>1. /\ d \in Nat /\ k \in DOMAIN MonthLengths /\ Sum[k - 1] <= d /\ d < Sum[k]
        /\ Sum[k] \in Nat /\ Sum[k - 1] \in Nat
        BY <1>4, <2>0
  <2>2. MonthIndex(d) = k BY <2>1, MonthOfDay
  <2>3. Sum[first - 1] <= Sum[k - 1]
    <3>1. CASE k = first BY <1>5, <3>1
    <3>2. CASE k # first
      <4>1. /\ first - 1 < k - 1 /\ k - 1 \in 0..Len(MonthLengths)
            /\ first - 1 \in 0..Len(MonthLengths)
            BY <1>4, <2>0, <3>2
      <4> QED BY <1>5, <2>1, <4>1, SumGrows
    <3> QED BY <3>1, <3>2
  <2>4. Sum[k] <= Sum[last]
    <3>1. CASE k = last BY <1>5, <3>1
    <3>2. CASE k # last
      <4>1. k < last /\ k \in 0..Len(MonthLengths) /\ last \in 0..Len(MonthLengths)
            BY <1>4, <2>0, <3>2
      <4> QED BY <1>5, <2>1, <4>1, SumGrows
    <3> QED BY <3>1, <3>2
  <2> QED BY <1>5, <2>1, <2>2, <2>3, <2>4
<1>7. ASSUME NEW d \in Nat, Sum[first - 1] <= d, d < Sum[last], month(MonthIndex(d)) \in F4
      PROVE  d \in Ds
  <2> DEFINE k == MonthIndex(d)
  <2>1. k \in 1..last /\ Sum[k - 1] <= d /\ d < Sum[k] BY <1>4, <1>7, DayHasMonth
  <2> HIDE DEF k
  <2>2. ~(k < first)
    <3> SUFFICES ASSUME k < first PROVE FALSE OBVIOUS
    <3>1. k \in 0..Len(MonthLengths) /\ first - 1 \in 0..Len(MonthLengths) BY <1>4, <2>1
    <3>2. k = first - 1 \/ Sum[k] < Sum[first - 1] BY <1>4, <2>1, <3>1, SumGrows
    <3>3. Sum[k] \in Nat BY <3>1, SumStep
    <3> QED BY <1>5, <1>7, <2>1, <3>2, <3>3
  <2>3. k \in first..last BY <1>4, <2>1, <2>2
  <2>4. k \in Ms BY <1>7, <2>3 DEF k
  <2>5. d \in Sum[k - 1]..Sum[k] - 1 BY <1>4, <2>1, <2>3
  <2> QED BY <2>4, <2>5
<1>8. \A d \in Ds : d \in Nat /\ Sum[first - 1] <= d /\ d < Sum[last] /\ month(MonthIndex(d)) \in F4
      BY <1>6
<1> HIDE DEF Ds
<1>9. cron_days(ts, F4, F3, F5) \subseteq Nat BY <1>1, <1>8
<1>10. \A d \in Nat : d \in cron_days(ts, F4, F3, F5) <=>
                     /\ Sum[first - 1] <= d /\ d < Sum[last]
                     /\ month(MonthIndex(d)) \in F4 /\ day(d) \in F3 /\ dow(d) \in F5
       BY <1>1, <1>7, <1>8
<1> QED BY <1>9, <1>10 DEF first, last

\* Fields of an expression that the domain has accepted: hours and minutes that exist.
LEMMA InRange ==
    ASSUME NEW cron, InDomain(cron)
    PROVE  Field(cron, 2) \subseteq 0..LastHour /\ Field(cron, 1) \subseteq 0..LastMinute
<1>1. /\ Field(cron, 2) \subseteq AllowedRanges[2][1]..AllowedRanges[2][2]
      /\ Field(cron, 1) \subseteq AllowedRanges[1][1]..AllowedRanges[1][2]
      BY DEF InDomain
<1> HIDE DEF Field
<1> QED BY <1>1 DEF AllowedRanges

\* Every run of next_run is at a minute for which is_cron_in_time holds.
LEMMA RunsMatch ==
    ASSUME CronTypeOK, NextRunDefined, NEW ts \in cron_runs(now, run_at)
    PROVE  ts \in Matches
<1> DEFINE first == MonthIndex(DayOf(Minute(now)))
           last  == first + MonthsInYear
           M == LastMinute + 1
           H == LastHour + 1
<1>1. PICK d \in cron_days(now, Field(run_at, 4), Field(run_at, 3), Field(run_at, 5)),
           t \in cron_times(Field(run_at, 2), Field(run_at, 1)) :
           ts = (d * MinutesInDay + t) * Slots /\ ts > now
      BY DEF cron_runs
<1>2. PICK h \in Field(run_at, 2), mi \in Field(run_at, 1) : t = h * M + mi
      BY <1>1 DEF cron_times
<1>3. /\ d \in Nat /\ d < Sum[last]
      /\ month(MonthIndex(d)) \in Field(run_at, 4)
      /\ day(d) \in Field(run_at, 3) /\ dow(d) \in Field(run_at, 5)
      BY <1>1, DaysMean DEF CronTypeOK
<1>4. h \in 0..H - 1 /\ mi \in 0..M - 1
  <2>1. h \in 0..LastHour /\ mi \in 0..LastMinute
        BY <1>2, InRange DEF CronTypeOK, NextRunDefined
  <2> QED BY <2>1, CronAssumption
<1>5. M \in Nat \ {0} /\ H \in Nat \ {0} /\ MinutesInDay = M * H BY Sizes DEF MinutesInDay
<1> DEFINE m == d * MinutesInDay + t
<1>6. IsTime(m, d, h, mi, M, H) BY <1>2, <1>5 DEF IsTime
<1>7. last \in DOMAIN MonthLengths /\ Minute(now) \in Nat BY YearAhead DEF CronTypeOK
<1>8. Sum[last] \in Nat BY <1>7, SumStep
<1> HIDE DEF m, M, H, first, last
<1>9. /\ m \in Nat /\ m \div MinutesInDay = d
      /\ (m \div M) % H = h /\ m % M = mi
  <2>1. d \in Nat /\ M \in Nat \ {0} /\ H \in Nat \ {0} BY <1>3, <1>5
  <2>2. m \in Nat /\ m \div (M * H) = d /\ (m \div M) % H = h /\ m % M = mi
        BY <2>1, <1>4, <1>6, Compose
  <2> QED BY <1>5, <2>2
<1>10. m < Sum[last] * MinutesInDay BY <1>3, <1>8, <1>9, Sizes, DivLess
<1>11. Minute(now) < m
  <2>1. now < m * Slots BY <1>1, <1>9, Sizes DEF m, CronTypeOK
  <2>2. now \in Nat BY CronAssumption DEF CronTypeOK
  <2>3. now \div Slots < m <=> now < m * Slots BY <1>9, <2>2, Sizes, DivLess
  <2> QED BY <2>1, <2>3 DEF Minute
<1>12. is_cron_in_time(run_at, m)
  <2>1. DayOf(m) = d BY <1>9 DEF DayOf
  <2>2. (m \div (LastMinute + 1)) % (LastHour + 1) = h /\ m % (LastMinute + 1) = mi
        BY <1>9 DEF M, H
  <2> QED BY <1>2, <1>3, <2>1, <2>2 DEF is_cron_in_time
<1>13. Sum[last] * MinutesInDay \in Nat
  <2>1. \A a, b \in Nat : a * b \in Nat OBVIOUS
  <2> QED BY <2>1, <1>8, Sizes
<1>14. m \in Minute(now) + 1..Sum[last] * MinutesInDay - 1
       BY <1>7, <1>9, <1>10, <1>11, <1>13
<1>15. ts = m * Slots BY <1>1 DEF m
<1> QED BY <1>12, <1>14, <1>15 DEF Matches, first, last

\* And next_run finds each of these minutes.
LEMMA MatchesRun ==
    ASSUME CronTypeOK, NextRunDefined, NEW ts \in Matches
    PROVE  ts \in cron_runs(now, run_at)
<1> DEFINE first == MonthIndex(DayOf(Minute(now)))
           last  == first + MonthsInYear
           M == LastMinute + 1
           H == LastHour + 1
           N == Minute(now)
<1>1. PICK m \in N + 1..Sum[last] * MinutesInDay - 1 :
           ts = m * Slots /\ is_cron_in_time(run_at, m)
      BY DEF Matches
<1>2. /\ last \in DOMAIN MonthLengths /\ first \in DOMAIN MonthLengths
      /\ N \in Nat /\ DayOf(N) \in Nat /\ Sum[first - 1] <= DayOf(N)
      BY YearAhead DEF CronTypeOK
<1>3. Sum[last] \in Nat /\ Sum[first - 1] \in Nat
  <2>1. last \in 0..Len(MonthLengths) /\ first - 1 \in 0..Len(MonthLengths) BY <1>2, SumStep
  <2> QED BY <2>1, SumStep
<1>4. Sum[last] * MinutesInDay \in Nat
  <2>1. \A a, b \in Nat : a * b \in Nat OBVIOUS
  <2> QED BY <2>1, <1>3, Sizes
<1>5. M \in Nat \ {0} /\ H \in Nat \ {0} /\ MinutesInDay = M * H BY Sizes DEF MinutesInDay
<1>6. m \in Nat /\ N < m /\ m < Sum[last] * MinutesInDay BY <1>1, <1>2, <1>4
<1> DEFINE d  == DayOf(m)
           h  == (m \div M) % H
           mi == m % M
<1>7. /\ month(MonthIndex(d)) \in Field(run_at, 4)
      /\ dow(d) \in Field(run_at, 5) \/ isodow(d) \in Field(run_at, 5)
      /\ day(d) \in Field(run_at, 3)
      /\ h \in Field(run_at, 2) /\ mi \in Field(run_at, 1)
      BY <1>1 DEF is_cron_in_time, NextRunDefined
<1>8. dow(d) \in Field(run_at, 5) BY <1>7 DEF isodow, NextRunDefined
<1>9. m = d * MinutesInDay + (h * M + mi) BY <1>5, <1>6, Decompose DEF DayOf, IsTime
<1> HIDE DEF first, last, M, H, N
<1>10. d \in Nat /\ d < Sum[last]
       BY <1>3, <1>6, Sizes, DivMod, DivLess DEF DayOf
<1>11. DayOf(N) <= d
  <2> SUFFICES ASSUME d < DayOf(N) PROVE FALSE BY <1>2, <1>10
  <2>1. d + 1 \in Nat /\ d < d + 1 /\ ~(DayOf(N) < d + 1) BY <1>2, <1>10
  <2>2. (d + 1) * MinutesInDay \in Nat
    <3>1. \A a, b \in Nat : a * b \in Nat OBVIOUS
    <3> QED BY <3>1, <2>1, Sizes
  <2>3. m < (d + 1) * MinutesInDay BY <1>6, <2>1, Sizes, DivLess DEF DayOf
  <2>4. ~(N < (d + 1) * MinutesInDay) BY <1>2, <2>1, Sizes, DivLess DEF DayOf
  <2> QED BY <1>2, <1>6, <2>2, <2>3, <2>4
<1> HIDE DEF d, h, mi
<1>12. Sum[first - 1] <= d BY <1>2, <1>3, <1>10, <1>11
<1>13. d \in cron_days(now, Field(run_at, 4), Field(run_at, 3), Field(run_at, 5))
       BY <1>7, <1>8, <1>10, <1>12, DaysMean DEF CronTypeOK, first, last
<1>14. h * M + mi \in cron_times(Field(run_at, 2), Field(run_at, 1))
       BY <1>7 DEF cron_times, M
<1>15. ts = (d * MinutesInDay + (h * M + mi)) * Slots BY <1>1, <1>9
<1>16. ts > now
  <2>1. now < m * Slots BY <1>6, Sizes, DivLess DEF N, Minute, CronTypeOK
  <2>2. m * Slots \in Nat
    <3>1. \A a, b \in Nat : a * b \in Nat OBVIOUS
    <3> QED BY <3>1, <1>6, Sizes
  <2> QED BY <1>1, <2>1, <2>2 DEF CronTypeOK
<1> QED BY <1>13, <1>14, <1>15, <1>16 DEF cron_runs

\* next_run and is_cron_in_time have the same earliest time.
LEMMA Agree == CronTypeOK => NextRunAgrees
<1> SUFFICES ASSUME CronTypeOK, NextRunDefined
             PROVE  next_run(now, run_at) = Earliest(Matches)
    BY DEF NextRunAgrees, NextRunDefined, CronTypeOK
<1>1. cron_runs(now, run_at) = Matches BY RunsMatch, MatchesRun
<1> QED BY <1>1 DEF next_run

-----------------------------------------------------------------------------
(* The ticker.                                                              *)

\* The next tick is in this minute or in the next one; a minute that no older query has
\* disturbed has waited for its tick, then for its query, and is then done.
TicksInTime ==
    /\ now <= due
    /\ Minute(due) \in {Minute(now), Minute(now) + 1}
    /\ sent + pending <= MaxPending + (Minute(due) - Minute(now))
    /\ ~late => IF Minute(due) = Minute(now)
                THEN pending = 0 /\ sent = 0
                ELSE \/ pending = 1 /\ sent = 0
                     \/ pending = 0 /\ sent = IF is_cron_in_time(run_at, Minute(now)) THEN 1 ELSE 0

CronInv == CronTypeOK /\ TicksInTime

\* What the passing of time does to the minute.
LEMMA Minutes ==
    /\ \A a \in Nat : Minute(a) \in Nat /\ Minute(a + Slots) = Minute(a) + 1
    /\ \A a, b \in Nat : a <= b => Minute(a) <= Minute(b)
    /\ \A a \in Nat : Minute(a + 1) \in {Minute(a), Minute(a) + 1}
    /\ \A a \in 0..Slots - 1 : Minute(a) = 0
<1> USE Sizes DEF Minute
<1>1. \A a \in Nat : Minute(a) \in Nat OBVIOUS
<1>2. \A a, b \in Nat : a <= b => Minute(a) <= Minute(b) OBVIOUS
<1>3. \A a \in Nat : Minute(a + Slots) = Minute(a) + 1 OBVIOUS
<1>4. \A a \in Nat : Minute(a + 1) \in {Minute(a), Minute(a) + 1}
  <2> SUFFICES ASSUME NEW a \in Nat PROVE Minute(a + 1) \in {Minute(a), Minute(a) + 1} OBVIOUS
  <2>1. Minute(a) <= Minute(a + 1) /\ Minute(a + 1) <= Minute(a + Slots)
    <3>1. a + 1 \in Nat /\ a + Slots \in Nat /\ a <= a + 1 /\ a + 1 <= a + Slots OBVIOUS
    <3> HIDE DEF Minute
    <3> QED BY <1>2, <3>1
  <2>2. Minute(a) \in Nat /\ Minute(a + 1) \in Nat /\ Minute(a + Slots) = Minute(a) + 1
    <3>1. a + 1 \in Nat OBVIOUS
    <3> HIDE DEF Minute
    <3> QED BY <1>1, <1>3, <3>1
  <2> HIDE DEF Minute
  <2> QED BY <2>1, <2>2
<1>5. \A a \in 0..Slots - 1 : Minute(a) = 0 OBVIOUS
<1> QED BY <1>1, <1>2, <1>3, <1>4, <1>5

\* When Run begins, its first tick is due and no query waits.
LEMMA InitCron == CronInit => CronInv
<1> SUFFICES ASSUME CronInit PROVE CronInv OBVIOUS
<1>1. now \in 0..Slots - 1 /\ due = now /\ pending = 0 /\ sent = 0 /\ late = TRUE
      BY DEF CronInit
<1>2. run_at # NoCron => InDomain(run_at) BY DEF CronInit
<1>3. CronTypeOK BY <1>1, <1>2, CronAssumption DEF CronTypeOK
<1>4. TicksInTime
  <2>1. Minute(now) = 0 BY <1>1, Minutes
  <2> QED BY <1>1, <2>1, CronAssumption DEF TicksInTime
<1> QED BY <1>3, <1>4 DEF CronInv

\* A step of the ticker, of a query or of the clock.
LEMMA NextCron == CronInv /\ [CronNext]_cronVars => CronInv'
<1> SUFFICES ASSUME CronInv, [CronNext]_cronVars PROVE CronInv' OBVIOUS
<1> DEFINE Hit == IF is_cron_in_time(run_at, Minute(now)) THEN 1 ELSE 0
<1>1. /\ now \in Nat /\ due \in Nat /\ now <= Until /\ due <= Until + Slots
      /\ pending \in 0..MaxPending /\ sent \in 0..MaxPending + 1
      /\ Slots \in Nat \ {0} /\ Until \in Nat /\ MaxPending \in Nat /\ Slots <= Until
      /\ Minute(now) \in Nat /\ Minute(due) \in Nat
      BY CronAssumption, Minutes DEF CronInv, CronTypeOK
<1>2. /\ now <= due /\ Minute(due) \in {Minute(now), Minute(now) + 1}
      /\ sent + pending <= MaxPending + (Minute(due) - Minute(now))
      /\ ~late => IF Minute(due) = Minute(now)
                  THEN pending = 0 /\ sent = 0
                  ELSE \/ pending = 1 /\ sent = 0
                       \/ pending = 0 /\ sent = Hit
      BY DEF CronInv, TicksInTime
<1>3. late \in BOOLEAN /\ (run_at # NoCron => InDomain(run_at)) BY DEF CronInv, CronTypeOK
<1>4. CASE Tick
  <2>1. /\ now = due /\ pending < MaxPending /\ pending' = pending + 1 /\ due' = due + Slots
        /\ now' = now /\ sent' = sent /\ late' = late /\ run_at' = run_at
        BY <1>4 DEF Tick
  <2>2. Minute(due') = Minute(now) + 1 BY <1>1, <2>1, Minutes
  <2>3. CronTypeOK' BY <1>1, <1>3, <2>1 DEF CronTypeOK
  <2>4. (~late => pending' = 1 /\ sent = 0) BY <1>1, <1>2, <2>1
  <2>5. TicksInTime'
        BY <1>1, <1>2, <2>1, <2>2, <2>4 DEF TicksInTime
  <2> QED BY <2>3, <2>5 DEF CronInv
<1>5. CASE SelectChains
  <2>1. /\ pending > 0 /\ pending' = pending - 1
        /\ sent' = sent + Hit
        /\ UNCHANGED <<now, due, late, run_at>>
        BY <1>1, <1>5 DEF SelectChains
  <2>2. Hit \in {0, 1} OBVIOUS
  <2>3. Hit' = Hit BY <2>1
  <2>4. Minute(now)' = Minute(now) /\ Minute(due)' = Minute(due) BY <2>1
  <2>5. ~late' => Minute(due)' # Minute(now)' /\ pending' = 0 /\ sent' = Hit'
    <3> HIDE DEF Hit
    <3> QED BY <1>1, <1>2, <2>1, <2>2, <2>3, <2>4
  <2>6. CronTypeOK'
    <3>1. sent + pending <= MaxPending + 1 BY <1>1, <1>2
    <3> HIDE DEF Hit
    <3>2. sent' \in 0..MaxPending + 1 /\ pending' \in 0..MaxPending BY <1>1, <2>1, <2>2, <3>1
    <3> QED BY <1>3, <2>1, <3>2 DEF CronTypeOK, CronInv
  <2>7. (sent + pending <= MaxPending + (Minute(due) - Minute(now)))'
    <3> HIDE DEF Hit
    <3> QED BY <1>1, <1>2, <2>1, <2>2, <2>4
  <2>8. TicksInTime' BY <1>1, <1>2, <2>1, <2>4, <2>5, <2>7 DEF TicksInTime
  <2> QED BY <2>6, <2>8 DEF CronInv
<1>6. CASE Pass
  <2>1. /\ now < Until /\ now < due /\ now' = now + 1
        /\ IF Minute(now') = Minute(now) THEN sent' = sent /\ late' = late
                                         ELSE sent' = 0 /\ late' = (pending > 0)
        /\ UNCHANGED <<due, pending, run_at>>
        BY <1>6 DEF Pass
  <2>0. now' = now + 1 /\ now' \in Nat /\ now' <= due BY <1>1, <2>1
  <2>2. Minute(now') \in {Minute(now), Minute(now) + 1} /\ Minute(now') <= Minute(due)
        BY <1>1, <2>0, Minutes
  <2>3. CronTypeOK'
    <3>1. sent' \in {sent, 0} /\ now' \in 0..Until BY <1>1, <2>1
    <3>2. late' \in BOOLEAN
      <4>1. CASE Minute(now') = Minute(now) BY <1>3, <2>1, <4>1
      <4>2. CASE Minute(now') # Minute(now)
        <5>1. late' = (pending > 0) BY <2>1, <4>2
        <5>2. (pending > 0) \in BOOLEAN OBVIOUS
        <5> QED BY <5>1, <5>2, Zenon
      <4> QED BY <4>1, <4>2
    <3> QED BY <1>1, <1>3, <2>1, <3>1, <3>2 DEF CronTypeOK
  <2>4. CASE Minute(now') = Minute(now)
        BY <1>1, <1>2, <2>1, <2>3, <2>4 DEF TicksInTime, CronInv
  <2>5. CASE Minute(now') # Minute(now)
    <3>1. Minute(now') = Minute(due) BY <1>1, <1>2, <2>2, <2>5
    <3>2. Minute(due') = Minute(now') BY <2>1, <3>1
    <3>3. sent' = 0 /\ late' = (pending > 0) /\ pending' = pending BY <2>1, <2>5
    <3>4. ~late' => pending' = 0
      <4>1. ~late' => ~(pending > 0) BY <3>3, Zenon
      <4>2. ~(pending > 0) => pending = 0 BY <1>1
      <4> QED BY <3>3, <4>1, <4>2, Zenon
    <3> QED BY <1>1, <2>1, <2>3, <3>2, <3>3, <3>4 DEF TicksInTime, CronInv
  <2> QED BY <2>4, <2>5
<1>7. CASE UNCHANGED cronVars
      BY <1>7 DEF cronVars, CronInv, CronTypeOK, TicksInTime
<1> QED BY <1>4, <1>5, <1>6, <1>7 DEF CronNext

\* The inductive invariant of the ticker holds in every state.
THEOREM CronInvariant == CronSpec => []CronInv
BY InitCron, NextCron, PTL DEF CronSpec

-----------------------------------------------------------------------------
\* The clock, the queries that wait and the chains retrieved in a minute stay in their ranges:
\* one query of its own can come to those that wait when a minute begins.
THEOREM CronTypeCorrect == CronSpec => []CronTypeOK
<1>1. CronInv => CronTypeOK BY DEF CronInv
<1> QED BY <1>1, CronInvariant, PTL

\* next_run of cron.sql and the query of the scheduler agree at every time.
THEOREM NextRunIsInTime == CronSpec => []NextRunAgrees
<1> QED BY Agree, CronTypeCorrect, PTL

\* The ticker retrieves a chain once in a minute that matches.
THEOREM MatchingMinuteOnce == CronSpec => OncePerMatchingMinute
<1>1. CronInv /\ [CronNext]_cronVars =>
          [/\ Minute(now') # Minute(now)
           /\ ~late /\ pending = 0
           => sent = IF is_cron_in_time(run_at, Minute(now)) THEN 1 ELSE 0]_cronVars
  <2> SUFFICES ASSUME CronInv, CronNext, Minute(now') # Minute(now), ~late, pending = 0
               PROVE  sent = IF is_cron_in_time(run_at, Minute(now)) THEN 1 ELSE 0
      OBVIOUS
  <2>1. Pass
    <3>1. now' # now OBVIOUS
    <3> QED BY <3>1 DEF CronNext, Tick, SelectChains, cronVars
  <2>2. now \in Nat /\ due \in Nat /\ now' = now + 1 /\ now' <= due
        BY <2>1 DEF Pass, CronInv, CronTypeOK
  <2>3. Minute(due) # Minute(now)
    <3>1. Minute(now) <= Minute(now') /\ Minute(now') <= Minute(due) BY <2>2, Minutes
    <3>2. Minute(now) \in Nat /\ Minute(now') \in Nat /\ Minute(due) \in Nat BY <2>2, Minutes
    <3> QED BY <3>1, <3>2
  <2> QED BY <2>3 DEF CronInv, TicksInTime
<1> QED BY <1>1, CronInvariant, PTL DEF CronSpec, OncePerMatchingMinute
=============================================================================
