SPECIFICATION Spec
CONSTANTS
  m1 = m1
  m2 = m2
  s1 = s1
  s2 = s2
  w1 = w1
  w2 = w2
  Missions = {m1}
  Sessions = {s1, s2}
  Workers = {w1}
  OneShots = {}
  Commands = {"pause", "resume", "cancel", "confirm", "retry", "run", "schedule", "patch", "provider"}
  Modes = {"require_confirmation"}
  MaxAttempts = 2
  ExpiresAt <- ExpiresAt1
  ClaimTimeout = 1
  RetryDelay <- Delays
  Limit = 1
  Crashable = {s1, s2, w1}
  MaxTime = 2
  MaxSeq = 3
  NoProc = NoProc
  NoMission = NoMission
INVARIANTS
  TypeOK
  ClaimStamp
  ConfirmableIsReserved
  CancelledIsReleased
  CompletedIsConfirmed
PROPERTY
  VersionedWrites
SYMMETRY AllSessions
