SPECIFICATION Spec
CONSTANTS
  Tasks <- MCTasks
  MaxTasks = 3
  SetCounts = {0, 2}
  Events = {"chain_done", "task_done", "sql_error", "role_error", "commit_error"}
INVARIANTS
  CommittedIsComplete
  IgnoredFailureIsolated
  TaskRunsAsItsRole
  StoppedChainCommitsNothing
PROPERTIES
  ChainIsAtomic
