------------------------------ MODULE LogHook ------------------------------
(***************************************************************************)
(* Log entries on their way to timetable.log: Fire queues them from every  *)
(* goroutine that logs, poll caches and stores them.  The driver logs      *)
(* while it stores, so that the goroutine of poll calls Fire as well.      *)
(***************************************************************************)
EXTENDS Naturals, Sequences

CONSTANTS
    Loggers,     \* goroutines that log
    Poll,        \* the goroutine of poll
    CacheLimit,  \* capacity of the channel and of the cache: 500 in the code
    MaxEntries,  \* bound on the entries of each goroutine
    None

Goroutines == Loggers \cup {Poll}
Entries == UNION {[from : {g}, no : 1..MaxEntries[g]] : g \in Goroutines}

ASSUME LogHookAssumption ==
    /\ Poll \notin Loggers /\ None \notin Entries
    /\ CacheLimit \in Nat \ {0} /\ MaxEntries \in [Goroutines -> Nat]

VARIABLES
    fired,   \* number of entries each goroutine has logged
    firing,  \* the entry for which it waits in Fire, or None
    input,   \* channel
    cache,
    poll,    \* where poll is: at its first select, its second one, in send, or returned
    log,     \* rows of timetable.log, in the order they were stored
    ctx,     \* the hook's context is done
    dropped, \* history: entries given up under high load
    failed   \* history: entries whose COPY has failed

vars == <<fired, firing, input, cache, poll, log, ctx, dropped, failed>>

TypeOK ==
    /\ fired \in [Goroutines -> Nat] /\ \A g \in Goroutines : fired[g] <= MaxEntries[g]
    /\ firing \in [Goroutines -> Entries \cup {None}]
    /\ input \in Seq(Entries) /\ Len(input) <= CacheLimit
    /\ cache \in Seq(Entries) /\ Len(cache) <= CacheLimit
    /\ poll \in {"check", "select", "send", "returned"}
    /\ log \in Seq(Entries)
    /\ ctx \in BOOLEAN
    /\ dropped \subseteq Entries /\ failed \subseteq Entries

Init ==
    /\ fired = [g \in Goroutines |-> 0]
    /\ firing = [g \in Goroutines |-> None]
    /\ input = <<>> /\ cache = <<>> /\ log = <<>>
    /\ poll = "check"
    /\ ctx = FALSE
    /\ dropped = {} /\ failed = {}

-----------------------------------------------------------------------------
(* Fire                                                                    *)

\* With a context that is done Fire returns at once.
Fire(g) ==
    /\ ~ctx
    /\ firing[g] = None /\ fired[g] < MaxEntries[g]
    /\ g = Poll => poll = "send"
    /\ fired' = [fired EXCEPT ![g] = @ + 1]
    /\ firing' = [firing EXCEPT ![g] = [from |-> g, no |-> fired[g] + 1]]
    /\ UNCHANGED <<input, cache, poll, log, ctx, dropped, failed>>

Queue(g) ==
    /\ firing[g] # None /\ Len(input) < CacheLimit
    /\ input' = Append(input, firing[g])
    /\ firing' = [firing EXCEPT ![g] = None]
    /\ UNCHANGED <<fired, cache, poll, log, ctx, dropped, failed>>

\* Mutant: whoever logs waits until poll reads.
HighLoadWhilePolling(g) ==
    /\ firing[g] # None /\ poll = "select"
    /\ firing' = [firing EXCEPT ![g] = None]
    /\ dropped' = dropped \cup {firing[g]}
    /\ UNCHANGED <<fired, input, cache, poll, log, ctx, failed>>

\* highLoadTimeout: the entry is not stored.
HighLoad(g) ==
    /\ firing[g] # None
    /\ firing' = [firing EXCEPT ![g] = None]
    /\ dropped' = dropped \cup {firing[g]}
    /\ UNCHANGED <<fired, input, cache, poll, log, ctx, failed>>

-----------------------------------------------------------------------------
(* poll and send                                                           *)

\* The first select: a context that is done has priority.
Check ==
    /\ poll = "check"
    /\ poll' = IF ctx THEN "returned" ELSE "select"
    /\ UNCHANGED <<fired, firing, input, cache, log, ctx, dropped, failed>>

Cache ==
    /\ poll = "select" /\ input # <<>>
    /\ input' = Tail(input)
    /\ cache' = Append(cache, Head(input))
    /\ poll' = IF Len(cache') < CacheLimit THEN "check" ELSE "send"
    /\ UNCHANGED <<fired, firing, log, ctx, dropped, failed>>

\* Mutants: an empty cache hides the tick; the tick discards what is cached.
TickIfFull ==
    /\ poll = "select"
    /\ poll' = IF Len(cache) < CacheLimit THEN "check" ELSE "send"
    /\ UNCHANGED <<fired, firing, input, cache, log, ctx, dropped, failed>>
TickDiscards ==
    /\ poll = "select"
    /\ poll' = "check"
    /\ cache' = <<>>
    /\ UNCHANGED <<fired, firing, input, log, ctx, dropped, failed>>

\* cacheTimeout: whatever is cached is sent.
Tick ==
    /\ poll = "select"
    /\ poll' = IF cache = <<>> THEN "check" ELSE "send"
    /\ UNCHANGED <<fired, firing, input, cache, log, ctx, dropped, failed>>

Returns ==
    /\ poll = "select" /\ ctx
    /\ poll' = "returned"
    /\ UNCHANGED <<fired, firing, input, cache, log, ctx, dropped, failed>>

InCache == {cache[i] : i \in DOMAIN cache}

\* CopyFrom, once it is done with logging, stores the whole cache.
Stored ==
    /\ poll = "send" /\ firing[Poll] = None
    /\ log' = log \o cache
    /\ cache' = <<>>
    /\ poll' = "check"
    /\ UNCHANGED <<fired, firing, input, ctx, dropped, failed>>

\* Mutant: the cache is kept for another attempt.
NotStoredRetry ==
    /\ poll = "send" /\ firing[Poll] = None
    /\ log' \in {log, log \o cache}
    /\ failed' = failed \cup InCache
    /\ poll' = "check"
    /\ UNCHANGED <<fired, firing, input, cache, ctx, dropped>>

\* CopyFrom returns an error, possibly after the server has stored the rows.  The cache is
\* emptied all the same.  The error goes to lastError if Fire waits there, which it never does:
\* its select has a default.
NotStored ==
    /\ poll = "send" /\ firing[Poll] = None
    /\ log' \in {log, log \o cache}
    /\ failed' = failed \cup InCache
    /\ cache' = <<>>
    /\ poll' = "check"
    /\ UNCHANGED <<fired, firing, input, ctx, dropped>>

Cancel ==
    /\ ctx' = TRUE
    /\ UNCHANGED <<fired, firing, input, cache, poll, log, dropped, failed>>

-----------------------------------------------------------------------------
FireStep(g) == Fire(g) \/ Queue(g) \/ HighLoad(g)

PollStep == Check \/ Cache \/ Tick \/ Returns \/ Stored \/ NotStored

Next == PollStep \/ Cancel \/ \E g \in Goroutines : FireStep(g)

Spec == Init /\ [][Next]_vars

\* Timers expire, goroutines are scheduled, the database answers; a select that finds an entry
\* again and again takes it some time.
LiveSpec ==
    /\ Spec
    /\ \A g \in Goroutines : WF_vars(HighLoad(g))
    /\ WF_vars(Check) /\ SF_vars(Cache) /\ WF_vars(Tick) /\ WF_vars(Stored \/ NotStored)

-----------------------------------------------------------------------------
(* Properties.                                                             *)

\* The rows of a goroutine are stored in the order it logged them, and none twice, whatever
\* COPY answers (poll, send).
StoredOnceInOrder ==
    \A i, j \in DOMAIN log : i < j /\ log[i].from = log[j].from => log[i].no < log[j].no

In(e, s) == \E i \in DOMAIN s : s[i] = e

Lost(e) == e \in dropped \cup failed

\* An entry is in the table or on its way, unless it was dropped under high load or its COPY
\* failed: neither a full cache nor a tick loses one (Fire, poll).
EntriesAccountedFor ==
    \A e \in Entries : e.no <= fired[e.from] =>
        firing[e.from] = e \/ In(e, input) \/ In(e, cache) \/ In(e, log) \/ Lost(e)

\* A queued entry is stored or lost by a failed COPY in the end, also when nobody logs any
\* more, unless the context ends (poll).
EntriesFlushed ==
    \A e \in Entries : In(e, input) \/ In(e, cache) ~> In(e, log) \/ e \in failed \/ ctx

\* Logging never blocks for good: not when the database does not answer, not after poll has
\* returned, and not in poll itself, which logs while it stores (Fire).
FireReturns == \A g \in Goroutines : firing[g] # None ~> firing[g] = None
=============================================================================
