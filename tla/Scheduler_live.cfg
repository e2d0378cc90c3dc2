SPECIFICATION LiveSpec
CONSTANTS
  None = None
  x = x
  n = n
  i = i
  w1 = w1
  w2 = w2
  v1 = v1
  Workers = {w1, v1}
  CronWorkers = {w1}
  IntervalWorkers = {v1}
  Chains = {x, i}
  IntervalChains = {i}
  Exclusive = {x}
  SelfDestruct = {}
  MaxInstances <- MCTwoInstances
  ChanCap = 1
  Signals = {"STOP", "TIMEOUT", "SHUTDOWN", "SIGTERM"}
  Failing = {"task", "output"}
PROPERTIES
  ExclusivePromise
  
  LockGranted
  ShutdownCompletes
