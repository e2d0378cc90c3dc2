SPECIFICATION LiveSpec
CONSTANTS
  None = None
  c1 = c1
  c2 = c2
  w1 = w1
  w2 = w2
  f1 = f1
  f2 = f2
  Chains = {c1}
  Workers = {w1, w2}
  Fetchers = {f1, f2}
  ChanCap = 1
  Edits = {"add", "change", "remove", "error"}
  MaxEdits = 2
INVARIANTS
  KnownChainHasToken
  OneTokenUntilRemoved
PROPERTIES
  KnownChainKeepsRunning
