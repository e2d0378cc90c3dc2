-------------------------------- MODULE Cron --------------------------------
(***************************************************************************)
(* The cron functions in SQL and the ticker that asks them.  A chain is due *)
(* when is_cron_in_time holds at the time its query is evaluated, and       *)
(* next_run enumerates the same times by another way, from months down to   *)
(* minutes.  The calendar is PostgreSQL's, in one time zone; its sizes are  *)
(* constants here, all but the week.                                        *)
(***************************************************************************)
EXTENDS Integers, Sequences, FiniteSets

CONSTANTS
    Slots,        \* parts of a minute that are told apart
    LastMinute, LastHour,   \* 59 and 23
    MonthLengths, \* days of the months of the calendar, one after the other
    MonthsInYear, \* 12
    FirstDow,     \* day of the week on which the calendar begins, 0 is Sunday
    Expressions,  \* five fields each, a field being the set of its items
    NoCron,       \* run_at IS NULL
    Until,        \* the clock stops here: bound
    MaxPending    \* bound on the queries that wait for a connection

ASSUME CronAssumption ==
    /\ {Slots, MonthsInYear} \subseteq Nat \ {0}
    /\ {LastMinute, LastHour, Until, MaxPending} \subseteq Nat
    /\ MonthLengths \in Seq(Nat \ {0})
    /\ FirstDow \in 0..6
    /\ Slots <= Until

VARIABLES
    now,     \* slots since the calendar began
    due,     \* next tick
    pending, \* queries that were started and not yet evaluated
    sent,    \* how often the chain was retrieved in this minute
    late,    \* history: a query of an earlier minute was pending when this one began
    run_at   \* expression of the chain

cronVars == <<now, due, pending, sent, late, run_at>>

-----------------------------------------------------------------------------
(* The calendar, in minutes since it began.                                 *)
MinutesInDay == (LastMinute + 1) * (LastHour + 1)

Minute(ts) == ts \div Slots
DayOf(m)   == m \div MinutesInDay

Sum[k \in Nat] == IF k = 0 THEN 0 ELSE Sum[k - 1] + MonthLengths[k]

\* The calendar goes on for a year after the month in which the clock stops.
ASSUME CalendarAssumption ==
    \E k \in DOMAIN MonthLengths :
        /\ k + MonthsInYear \in DOMAIN MonthLengths
        /\ Until < Sum[k] * MinutesInDay * Slots

\* Months and days of the calendar are counted from 1 and from 0.
MonthIndex(day) == CHOOSE k \in DOMAIN MonthLengths : Sum[k - 1] <= day /\ day < Sum[k]

month(k)  == ((k - 1) % MonthsInYear) + 1
day(d)    == d - Sum[MonthIndex(d) - 1] + 1
dow(d)    == (d + FirstDow) % 7
isodow(d) == IF dow(d) = 0 THEN 7 ELSE dow(d)

-----------------------------------------------------------------------------
(* cron_split_to_arrays: an item is <<kind, numbers of the text>>.          *)
LongestMonth == CHOOSE n \in {MonthLengths[k] : k \in DOMAIN MonthLengths} :
                    \A k \in DOMAIN MonthLengths : MonthLengths[k] <= n

AllowedRanges ==
    << <<0, LastMinute>>, <<0, LastHour>>, <<1, LongestMonth>>, <<1, MonthsInYear>>, <<0, 7>> >>

generate_series(from, to, step) == {n \in from..to : (n - from) % step = 0}

\* A step of zero raises an error.
ZeroStep(item) ==
    \/ item[1] = "every" /\ item[2] = 0
    \/ item[1] = "from" /\ item[3] = 0
    \/ item[1] = "steps" /\ item[4] = 0

Values(item, i) ==
    CASE item[1] = "number" -> {item[2]}
      [] item[1] = "any"    -> generate_series(AllowedRanges[i][1], AllowedRanges[i][2], 1)
      [] item[1] = "range"  -> generate_series(item[2], item[3], 1)
      [] item[1] = "from"   -> generate_series(item[2], AllowedRanges[i][2], item[3])
      [] item[1] = "steps"  -> generate_series(item[2], item[3], item[4])
      [] item[1] = "every"  -> generate_series(AllowedRanges[i][1], AllowedRanges[i][2], item[2])

Field(cron, i) == UNION {Values(item, i) : item \in cron[i]}

\* The CHECK of the domain: a field is one item or a list of numbers, no range with steps although
\* cron_split_to_arrays reads it, and its values are there and within the range of the field.
InDomain(cron) ==
    \A i \in 1..5 :
        /\ \A item \in cron[i] : item[1] # "steps" /\ ~ZeroStep(item)
        /\ Cardinality(cron[i]) > 1 => \A item \in cron[i] : item[1] = "number"
        /\ Field(cron, i) # {}
        /\ Field(cron, i) \subseteq AllowedRanges[i][1]..AllowedRanges[i][2]

-----------------------------------------------------------------------------
is_cron_in_time(cron, m) ==
    \/ cron = NoCron
    \/ LET d == DayOf(m)
       IN  /\ month(MonthIndex(d)) \in Field(cron, 4)
           /\ dow(d) \in Field(cron, 5) \/ isodow(d) \in Field(cron, 5)
           /\ day(d) \in Field(cron, 3)
           /\ ((m \div (LastMinute + 1)) % (LastHour + 1)) \in Field(cron, 2)
           /\ (m % (LastMinute + 1)) \in Field(cron, 1)

\* Months of the calendar that next_run looks at: this one and the same one of the next year
\* included.
cron_months(from, allowed) ==
    LET first == MonthIndex(DayOf(Minute(from)))
    IN  {k \in first..first + MonthsInYear : month(k) \in allowed}

\* Mutant: without "- INTERVAL '1 day'".
AndTheNextFirst(from, allowed_months, allowed_days, allowed_week_days) ==
    {d \in UNION {Sum[k - 1]..Sum[k] : k \in cron_months(from, allowed_months)} :
        day(d) \in allowed_days /\ dow(d) \in allowed_week_days}

cron_days(from, allowed_months, allowed_days, allowed_week_days) ==
    {d \in UNION {Sum[k - 1]..Sum[k] - 1 : k \in cron_months(from, allowed_months)} :
        day(d) \in allowed_days /\ dow(d) \in allowed_week_days}

cron_times(allowed_hours, allowed_minutes) ==
    {h * (LastMinute + 1) + m : h \in allowed_hours, m \in allowed_minutes}

\* In slots: a run is at the beginning of its minute.
cron_runs(from, cron) ==
    {ts \in {(d * MinutesInDay + t) * Slots :
                d \in cron_days(from, Field(cron, 4), Field(cron, 3), Field(cron, 5)),
                t \in cron_times(Field(cron, 2), Field(cron, 1))} : ts > from}

Earliest(S) == {t \in S : \A u \in S : t <= u}

\* The set with the next run, or the empty set for NULL.
next_run(from, cron) == Earliest(cron_runs(from, cron))

-----------------------------------------------------------------------------
(* The ticker of Run, and the queries it starts.                            *)
CronTypeOK ==
    /\ now \in 0..Until /\ due \in 0..Until + Slots
    /\ pending \in 0..MaxPending
    /\ sent \in 0..MaxPending + 1
    /\ late \in BOOLEAN
    /\ run_at # NoCron => InDomain(run_at)

CronInit ==
    /\ now \in 0..Slots - 1
    /\ due = now
    /\ pending = 0 /\ sent = 0
    /\ late = TRUE
    /\ run_at \in {cron \in Expressions : InDomain(cron)} \cup {NoCron}

\* The loop starts a query in a goroutine and waits for the ticker again.
Tick ==
    /\ now = due
    /\ pending < MaxPending
    /\ pending' = pending + 1
    /\ due' = due + Slots
    /\ UNCHANGED <<now, sent, late, run_at>>

\* Mutant: the loop waits a minute from when the chains are sent instead of using the ticker.
SleepsAfterwards ==
    /\ pending > 0
    /\ pending' = pending - 1
    /\ sent' = IF is_cron_in_time(run_at, Minute(now)) THEN sent + 1 ELSE sent
    /\ due' = now + 1 + Slots
    /\ UNCHANGED <<now, late, run_at>>

\* SelectChains gets its connection: now() is the time of this statement.
SelectChains ==
    /\ pending > 0
    /\ pending' = pending - 1
    /\ sent' = IF is_cron_in_time(run_at, Minute(now)) THEN sent + 1 ELSE sent
    /\ UNCHANGED <<now, due, late, run_at>>

\* The loop has nothing to do but wait, so it never misses a tick.
Pass ==
    /\ now < Until /\ now < due
    /\ now' = now + 1
    /\ IF Minute(now') = Minute(now)
       THEN UNCHANGED <<sent, late>>
       ELSE sent' = 0 /\ late' = (pending > 0)
    /\ UNCHANGED <<due, pending, run_at>>

CronNext ==
    \/ Tick \/ SelectChains \/ Pass
    \/ now = Until /\ UNCHANGED cronVars

CronSpec == CronInit /\ [][CronNext]_cronVars

-----------------------------------------------------------------------------
(* Properties.                                                              *)

\* "Use ticker for strict intervals": a minute in which no query of an earlier one was waiting,
\* and whose own query did not have to wait for the next, retrieves the chain once if the
\* minute matches and otherwise not at all.
OncePerMatchingMinute ==
    [][/\ Minute(now') # Minute(now)
       /\ ~late /\ pending = 0
       => sent = IF is_cron_in_time(run_at, Minute(now)) THEN 1 ELSE 0]_cronVars

\* What the months ahead hold for is_cron_in_time.
Matches ==
    LET first == MonthIndex(DayOf(Minute(now)))
    IN  {m * Slots : m \in {n \in Minute(now) + 1..Sum[first + MonthsInYear] * MinutesInDay - 1 :
                                is_cron_in_time(run_at, n)}}

\* next_run and the scheduler mean the same times, up to a year ahead; but next_run knows
\* Sunday as 0 only.
NextRunAgrees ==
    run_at # NoCron /\ (7 \in Field(run_at, 5) => 0 \in Field(run_at, 5)) =>
        next_run(now, run_at) = Earliest(Matches)
=============================================================================
