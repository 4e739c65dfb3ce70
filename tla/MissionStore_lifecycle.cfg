SPECIFICATION FairSpec
CONSTANTS
  m1 = m1
  m2 = m2
  s1 = s1
  s2 = s2
  w1 = w1
  w2 = w2
  Missions = {m1}
  Sessions = {s1}
  Workers = {w1, w2}
  OneShots = {w1}
  Commands = {"pause", "resume", "cancel", "confirm", "retry", "run"}
  Modes = {"search_only", "require_confirmation", "auto_purchase"}
  MaxAttempts = 2
  ExpiresAt <- NeverExpires
  ClaimTimeout = 3
  RetryDelay <- Delays
  Limit = 1
  Crashable = {w1}
  MaxTime = 2
  MaxSeq = 3
  NoProc = NoProc
  NoMission = NoMission
INVARIANTS
  ExclusiveClaim
  AuditMatchesClaims
PROPERTY
  FollowsLifecycle
  DueIsClaimed
