SPECIFICATION Spec
CONSTANTS
  m1 = m1
  m2 = m2
  s1 = s1
  s2 = s2
  w1 = w1
  w2 = w2
  Missions = {m1}
  Sessions = {s1, s2}
  Workers = {}
  OneShots = {}
  Commands = {"run", "confirm", "cancel"}
  Modes = {"require_confirmation"}
  MaxAttempts = 1
  ExpiresAt <- NeverExpires
  ClaimTimeout = 1
  RetryDelay <- Delays
  Limit = 1
  Crashable = {}
  MaxTime = 0
  MaxSeq = 4
  NoProc = NoProc
  NoMission = NoMission
INVARIANT
  CompletedIsHeld
CHECK_DEADLOCK FALSE
