SPECIFICATION LiveSpec
CONSTANTS
  None = None
  start = start
  junk = junk
  c1 = c1
  c2 = c2
  Contents = {start, junk}
  Valid = {start}
  Starts = {start}
  Conns = {c1, c2}
  Cap = 1
  NotifyTTL = 0
  MaxTime = 1
  MaxNotify = 3
INVARIANTS
  NothingLost
PROPERTIES
  HandledOnce
  AcceptedIsTaken
