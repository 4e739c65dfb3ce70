SPECIFICATION Spec
CONSTANTS
  m1 = m1
  m2 = m2
  s1 = s1
  s2 = s2
  w1 = w1
  w2 = w2
  Missions = {m1}
  Sessions = {}
  Workers = {w1, w2}
  OneShots = {}
  Commands = {"run"}
  Modes = {"search_only"}
  MaxAttempts = 2
  ExpiresAt <- NeverExpires
  ClaimTimeout = 1
  RetryDelay <- Delays
  Limit = 1
  Crashable = {}
  MaxTime = 1
  MaxSeq = 2
  NoProc = NoProc
  NoMission = NoMission
PROPERTY
  TerminalIsFinal
