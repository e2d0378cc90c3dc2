SPECIFICATION PoolLiveSpec
CONSTANTS
    w1 = w1
    w2 = w2
    c1 = c1
    Main = Main
    Workers <- MCWorkers
    Clerks <- MCClerks
    MaxLeaks = 2
INVARIANTS
    NobodyWaitsInCircle
    FinalizeCutsNobody
PROPERTIES
    TransactionsEnd
    FinalizeEnds
