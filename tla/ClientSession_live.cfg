SPECIFICATION LiveSpec
CONSTANTS
  None = None
  first = first
  second = second
  worker001 = worker001
  Clients = {first, second}
  Names = {worker001}
  ClientName <- MCClientName
  MaxConns = 2
  MaxPid = 2
  MaxFaults = 1
INVARIANTS
  OneClientPerName
  RowsAreOwn
PROPERTIES
  NameComesFree
  OrphansHaveNoClient
