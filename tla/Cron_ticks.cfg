SPECIFICATION CronSpec
CONSTANTS
    Slots = 2
    LastMinute = 1
    LastHour = 1
    MonthLengths <- MCMonthLengths
    MonthsInYear = 2
    FirstDow = 4
    Expressions <- MCExpressions
    NoCron = NoCron
    Until = 71
    MaxPending = 2
INVARIANTS
    NextRunAgrees
PROPERTIES
    OncePerMatchingMinute
