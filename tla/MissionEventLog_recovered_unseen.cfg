SPECIFICATION FairSpec
CONSTANTS
  m1 = m1
  m2 = m2
  w1 = w1
  w2 = w2
  r1 = r1
  r2 = r2
  c1 = c1
  Missions = {m1}
  Writers = {w1, w2}
  Rebuilders = {r1}
  Readers = {c1}
  Legacy <- OldLogs
  Written = {"provider", "notify"}
  Batch = 1
  Limit = 1
  MaxWait = 2
  MaxEvents = 3
  None = None
INVARIANT
  EveryEventIsGiven
CHECK_DEADLOCK FALSE
