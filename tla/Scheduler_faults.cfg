SPECIFICATION Spec
CONSTANTS
  None = None
  x = x
  n = n
  i = i
  w1 = w1
  w2 = w2
  v1 = v1
  Workers = {w1, w2}
  CronWorkers = {w1, w2}
  IntervalWorkers = {}
  Chains = {n}
  IntervalChains = {}
  Exclusive = {}
  SelfDestruct = {n}
  MaxInstances <- MCOneInstance
  ChanCap = 2
  Signals = {"START", "STOP", "TIMEOUT", "SIGTERM"}
  Failing = {"insert", "begin", "elements", "task", "output", "remove", "delete"}
SYMMETRY MCSymmetry
INVARIANTS
  TypeOK
  EntriesAreCurrent
  RunStatusBounded
