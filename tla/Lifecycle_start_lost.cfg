SPECIFICATION LiveSpec
CONSTANTS
    p1 = p1
    p2 = p2
    Procs <- MCProcs
    Asked <- MCAsked
    Migrations = 2
    MaxFaults = 0
PROPERTIES
    AcceptedIsSent
