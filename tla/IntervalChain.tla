--------------------------- MODULE IntervalChain ---------------------------
(***************************************************************************)
(* How @every and @after chains are fed to the interval workers: a map of  *)
(* known chains refreshed from the database, and for every known chain a   *)
(* token that travels channel -> worker -> timer -> channel.  Executing a  *)
(* chain takes a step of unknown length here; Scheduler has what happens   *)
(* inside it, and the end of a worker with its context.                    *)
(***************************************************************************)
EXTENDS Naturals, Sequences, FiniteSets

CONSTANTS
    Chains,      \* IDs of chains that may get an interval schedule
    Workers,     \* goroutines running intervalChainWorker
    Fetchers,    \* retrieveIntervalChainsAndRun goroutines that may overlap
    ChanCap,     \* capacity of ichainsChan: max(1024, 2 * workers) in the code
    Edits,       \* what may happen to the schedules: "add", "change", "remove", "error"
    MaxEdits,    \* bound on the number of these events
    None         \* "not scheduled", "no one"

Kinds  == {"every", "after"}
Tokens == [chain : Chains, kind : Kinds]

ASSUME IntervalAssumption ==
    /\ None \notin Kinds /\ None \notin Fetchers /\ None \notin Tokens
    /\ ChanCap \in Nat /\ MaxEdits \in Nat
    /\ Edits \subseteq {"add", "change", "remove", "error"}

VARIABLES
    table,           \* schedule of each live chain in timetable.chain, or None
    edits,           \* number of edits so far
    snapshot,        \* what each fetcher has read and not applied yet, or None
    mutex,           \* holder of intervalChainMutex among the fetchers, or None
    todo,            \* listed chains the holder has not handled yet
    intervalChains,  \* map from chain ID to the schedule it is known with, or None
    ichainsChan,     \* channel of tokens
    timers,          \* sleeping reschedule goroutines, per token
    pc, tok,         \* step and token of each worker
    dropped,         \* chains whose last token a full channel refused
    left             \* chains that have left the map at some time

fetchVars  == <<snapshot, mutex, todo>>
workerVars == <<pc, tok>>
vars == <<table, edits, fetchVars, intervalChains, ichainsChan, timers, workerVars, dropped, left>>

Schedules == [Chains -> Kinds \cup {None}]

TypeOK ==
    /\ table \in Schedules
    /\ edits \in 0..MaxEdits
    /\ snapshot \in [Fetchers -> Schedules \cup {None}]
    /\ mutex \in Fetchers \cup {None}
    /\ todo \in SUBSET Chains
    /\ intervalChains \in Schedules
    /\ ichainsChan \in Seq(Tokens) /\ Len(ichainsChan) <= ChanCap
    /\ timers \in [Tokens -> Nat]
    /\ pc \in [Workers -> {"idle", "admit", "run"}]
    /\ tok \in [Workers -> Tokens \cup {None}]
    /\ dropped \in SUBSET Chains
    /\ left \in SUBSET Chains

Init ==
    /\ table \in Schedules
    /\ edits = 0
    /\ snapshot = [f \in Fetchers |-> None]
    /\ mutex = None
    /\ todo = {}
    /\ intervalChains = [c \in Chains |-> None]
    /\ ichainsChan = <<>>
    /\ timers = [t \in Tokens |-> 0]
    /\ pc = [w \in Workers |-> "idle"]
    /\ tok = [w \in Workers |-> None]
    /\ dropped = {}
    /\ left = {}

-----------------------------------------------------------------------------
\* Users add chains, change their schedule, pause or delete them.
EditKind(old, new) ==
    IF old = None THEN "add" ELSE IF new = None THEN "remove" ELSE "change"

EditSchedule(c, k) ==
    /\ edits < MaxEdits
    /\ table[c] # k
    /\ EditKind(table[c], k) \in Edits
    /\ table' = [table EXCEPT ![c] = k]
    /\ edits' = edits + 1
    /\ UNCHANGED <<fetchVars, intervalChains, ichainsChan, timers, workerVars, dropped, left>>

\* SendIntervalChain: a full channel refuses the token, nobody tries again.
SendIntervalChain(t) ==
    IF Len(ichainsChan) < ChanCap
      THEN ichainsChan' = Append(ichainsChan, t) /\ dropped' = dropped \ {t.chain}
      ELSE ichainsChan' = ichainsChan /\ dropped' = dropped \cup {t.chain}

-----------------------------------------------------------------------------
(* retrieveIntervalChainsAndRun                                            *)

\* The query, outside the mutex.  An error leaves the empty list and goes on with it.
SelectIntervalChains(f) ==
    /\ snapshot[f] = None
    /\ \/ /\ snapshot' = [snapshot EXCEPT ![f] = table]
          /\ UNCHANGED edits
       \/ /\ "error" \in Edits /\ edits < MaxEdits
          /\ snapshot' = [snapshot EXCEPT ![f] = [c \in Chains |-> None]]
          /\ edits' = edits + 1
    /\ UNCHANGED <<table, mutex, todo, intervalChains, ichainsChan, timers, workerVars, dropped, left>>

\* Chains that are not listed leave the map.
DeleteUnlisted(f) ==
    /\ mutex = None /\ snapshot[f] # None
    /\ mutex' = f
    /\ todo' = {c \in Chains : snapshot[f][c] # None}
    /\ intervalChains' = [c \in Chains |->
                            IF snapshot[f][c] = None THEN None ELSE intervalChains[c]]
    /\ left' = left \cup {c \in Chains : intervalChains[c] # None /\ snapshot[f][c] = None}
    /\ UNCHANGED <<table, edits, snapshot, ichainsChan, timers, workerVars, dropped>>

\* Mutant: a chain whose schedule has changed is sent as well.
UpdateListedAndChanged(f, c) ==
    /\ mutex = f /\ c \in todo
    /\ todo' = todo \ {c}
    /\ intervalChains' = [intervalChains EXCEPT ![c] = snapshot[f][c]]
    /\ IF intervalChains[c] # snapshot[f][c]
         THEN SendIntervalChain([chain |-> c, kind |-> snapshot[f][c]])
         ELSE UNCHANGED <<ichainsChan, dropped>>
    /\ UNCHANGED <<table, edits, snapshot, mutex, timers, workerVars, left>>

\* A listed chain that was not in the map is sent; the map has its schedule from now on.
UpdateListed(f, c) ==
    /\ mutex = f /\ c \in todo
    /\ todo' = todo \ {c}
    /\ intervalChains' = [intervalChains EXCEPT ![c] = snapshot[f][c]]
    /\ IF intervalChains[c] = None
         THEN SendIntervalChain([chain |-> c, kind |-> snapshot[f][c]])
         ELSE UNCHANGED <<ichainsChan, dropped>>
    /\ UNCHANGED <<table, edits, snapshot, mutex, timers, workerVars, left>>

FetchDone(f) ==
    /\ mutex = f /\ todo = {}
    /\ mutex' = None
    /\ snapshot' = [snapshot EXCEPT ![f] = None]
    /\ UNCHANGED <<table, edits, todo, intervalChains, ichainsChan, timers, workerVars, dropped, left>>

-----------------------------------------------------------------------------
(* intervalChainWorker and reschedule                                      *)

\* isValid: the map knows the chain, with whatever schedule.
IsValid(t) == intervalChains[t.chain] # None

Reschedule(t) == timers' = [timers EXCEPT ![t] = @ + 1]

\* Receive and isValid; an @every chain sets its timer before it is admitted.
ReceiveToken(w) ==
    LET t == Head(ichainsChan) IN
    /\ pc[w] = "idle" /\ mutex = None
    /\ ichainsChan # <<>>
    /\ ichainsChan' = Tail(ichainsChan)
    /\ IF IsValid(t)
         THEN /\ pc' = [pc EXCEPT ![w] = "admit"]
              /\ tok' = [tok EXCEPT ![w] = t]
              /\ IF t.kind = "every" THEN Reschedule(t) ELSE UNCHANGED timers
         ELSE UNCHANGED <<timers, workerVars>>
    /\ UNCHANGED <<table, edits, fetchVars, intervalChains, dropped, left>>

\* InsertChainRunStatus lets the instance run.
Admitted(w) ==
    /\ pc[w] = "admit"
    /\ pc' = [pc EXCEPT ![w] = "run"]
    /\ UNCHANGED <<table, edits, fetchVars, intervalChains, ichainsChan, timers, tok, dropped, left>>

\* Mutant: an @after chain that was refused does not set its timer.
DoneIfRun(w) ==
    /\ pc[w] \in {"admit", "run"}
    /\ pc' = [pc EXCEPT ![w] = "idle"]
    /\ tok' = [tok EXCEPT ![w] = None]
    /\ IF tok[w].kind = "after" /\ pc[w] = "run" THEN Reschedule(tok[w]) ELSE UNCHANGED timers
    /\ UNCHANGED <<table, edits, fetchVars, intervalChains, ichainsChan, dropped, left>>

\* The worker is done with its token: refused, or executed.  An @after chain sets its timer.
Done(w) ==
    /\ pc[w] \in {"admit", "run"}
    /\ pc' = [pc EXCEPT ![w] = "idle"]
    /\ tok' = [tok EXCEPT ![w] = None]
    /\ IF tok[w].kind = "after" THEN Reschedule(tok[w]) ELSE UNCHANGED timers
    /\ UNCHANGED <<table, edits, fetchVars, intervalChains, ichainsChan, dropped, left>>

\* Mutant: a sleeper whose schedule has changed gives up.
TimerFiresIfUnchanged(t) ==
    /\ timers[t] > 0 /\ mutex = None
    /\ timers' = [timers EXCEPT ![t] = @ - 1]
    /\ IF intervalChains[t.chain] = t.kind THEN SendIntervalChain(t)
                                           ELSE UNCHANGED <<ichainsChan, dropped>>
    /\ UNCHANGED <<table, edits, fetchVars, intervalChains, workerVars, left>>

\* The interval has passed: the sleeper sends the chain as it was when it fell asleep.
TimerFires(t) ==
    /\ timers[t] > 0 /\ mutex = None
    /\ timers' = [timers EXCEPT ![t] = @ - 1]
    /\ IF IsValid(t) THEN SendIntervalChain(t) ELSE UNCHANGED <<ichainsChan, dropped>>
    /\ UNCHANGED <<table, edits, fetchVars, intervalChains, workerVars, left>>

-----------------------------------------------------------------------------
FetchStep(f) ==
    \/ SelectIntervalChains(f) \/ DeleteUnlisted(f) \/ FetchDone(f)
    \/ \E c \in Chains : UpdateListed(f, c)

WorkerStep(w) == ReceiveToken(w) \/ Admitted(w) \/ Done(w)

Next ==
    \/ \E c \in Chains, k \in Kinds \cup {None} : EditSchedule(c, k)
    \/ \E f \in Fetchers : FetchStep(f)
    \/ \E w \in Workers : WorkerStep(w)
    \/ \E t \in Tokens : TimerFires(t)

Spec == Init /\ [][Next]_vars

\* The main loop fetches every minute, goroutines are scheduled, chains end, timers fire.
Fairness ==
    /\ \A f \in Fetchers : WF_vars(FetchStep(f))
    /\ \A w \in Workers : SF_vars(ReceiveToken(w)) /\ WF_vars(Admitted(w) \/ Done(w))
    /\ \A t \in Tokens : SF_vars(TimerFires(t))

LiveSpec == Spec /\ Fairness

-----------------------------------------------------------------------------
(* Properties.                                                             *)

Queued(c)   == \E i \in DOMAIN ichainsChan : ichainsChan[i].chain = c
Sleeping(c) == \E k \in Kinds : timers[[chain |-> c, kind |-> k]] > 0
InHand(c)   == \E w \in Workers : pc[w] # "idle" /\ tok[w].chain = c /\ tok[w].kind = "after"

\* A chain in the map has a token on its way: whatever users edit, whatever fetches fail or
\* overtake one another, it never stops being run while it is known, unless a full channel
\* refused its token (retrieveIntervalChainsAndRun, reschedule, intervalChainWorker).
KnownChainHasToken ==
    \A c \in Chains : intervalChains[c] # None /\ c \notin dropped
                         => Queued(c) \/ Sleeping(c) \/ InHand(c)

\* Number of tokens of chain c.
TokenCount(c) ==
    Cardinality({i \in DOMAIN ichainsChan : ichainsChan[i].chain = c})
    + timers[[chain |-> c, kind |-> "every"]] + timers[[chain |-> c, kind |-> "after"]]
    + Cardinality({w \in Workers : pc[w] # "idle" /\ tok[w].chain = c /\ tok[w].kind = "after"})

\* As long as a chain has never left the map, neither overlapping fetches nor changes of its
\* schedule give it a second token (retrieveIntervalChainsAndRun, intervalChainWorker).
OneTokenUntilRemoved == \A c \in Chains \ left : TokenCount(c) <= 1

\* A chain that stays known is received again and again, whatever its schedule is changed to,
\* unless a full channel refuses its token (reschedule, intervalChainWorker).
KnownChainKeepsRunning ==
    \A c \in Chains :
        <>[](intervalChains[c] # None /\ c \notin dropped)
            => []<>(\E w \in Workers : pc[w] = "admit" /\ tok[w].chain = c)
=============================================================================
