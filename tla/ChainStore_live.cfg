SPECIFICATION LiveSpec
CONSTANTS
  replacer = replacer
  plain = plain
  worker1 = worker1
  users = users
  daily = daily
  Importers = {replacer, plain}
  Workers = {worker1}
  Names = {users, daily}
  UserChain = users
  Setups <- MCSetups
  Replace <- MCReplace
  Job <- MCJob
  MaxFaults = 1
CHECK_DEADLOCK FALSE
INVARIANTS
  ImportedIsComplete
  RunsPrefix
  RunsWhole
PROPERTIES
  MovesExchangeTwo
  ReplaceSucceeds
