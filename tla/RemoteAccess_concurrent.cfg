SPECIFICATION FairSpec
CONSTANTS
  Devices = {d1}
  Ports = {p1}
  LeaseIDs = {l1, l2}
  Conns = {c1}
  Run = Run
  Callers = {a1}
  MaxTTL = 1
  MaxConnections = 1
  CrashAllowed = FALSE
  None = None
INVARIANTS
  OneLeasePerDevice
  ConnectableIsListening
  ListeningIffLeased
  NothingOpenAfterClose
PROPERTIES
  OnlineIsExposed
  OfflineIsFrozen
  CloseTerminates
