SPECIFICATION Spec
CONSTANTS
  c1 = c1
  c2 = c2
  k1 = k1
  k2 = k2
  Clients = {c1, c2}
  Keys = {k1}
  CommandKeys = {k1, k2}
  MaxIdentities = 2
  MaxMissions = 2
  Ops = {"get", "change", "delete", "identity", "mission", "command"}
  MaxCalls = 3
  MaxTime = 1
  RequestLimit = 1
  Window = 1
  MaxClients = 1
  None = None
  Gone = Gone
INVARIANTS
  TypeOK
  OncePerKey
  ReceiptsAreBacked
  EtagIsHonest
  WindowIsKept
PROPERTY
  NoLostUpdate
SYMMETRY AllClients
CHECK_DEADLOCK FALSE
