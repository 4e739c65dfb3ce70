SPECIFICATION FairSpec
CONSTANTS
  m1 = m1
  m2 = m2
  s1 = s1
  s2 = s2
  w1 = w1
  w2 = w2
  Missions = {m1}
  Sessions = {s1}
  Workers = {w1}
  OneShots = {}
  Commands = {"patch"}
  Modes = {"search_only"}
  MaxAttempts = 2
  ExpiresAt <- NeverExpires
  ClaimTimeout = 2
  RetryDelay <- Delays
  Limit = 1
  Crashable = {}
  MaxTime = 1
  MaxSeq = 1
  NoProc = NoProc
  NoMission = NoMission
PROPERTY
  DueIsClaimed
