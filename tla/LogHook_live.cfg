SPECIFICATION LiveSpec
CONSTANTS
  None = None
  main = main
  hook = hook
  Loggers = {main}
  Poll = hook
  CacheLimit = 2
  MaxEntries <- MCMaxEntries
INVARIANTS
  StoredOnceInOrder
  EntriesAccountedFor
PROPERTIES
  EntriesFlushed
  FireReturns
