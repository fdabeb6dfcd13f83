SPECIFICATION Spec
CONSTANTS
  Devices = {d1, d2}
  Ports = {p1, p2}
  LeaseIDs = {l1, l2, l3}
  Conns = {c1, c2}
  Run = Run
  Callers = {}
  MaxTTL = 1
  MaxConnections = 1
  CrashAllowed = TRUE
  None = None
SYMMETRY Symmetry
INVARIANTS
  GrantFollowsLease
  PortsDistinct
  StablePort
  NoOrphanListener
  NeverOvercounts
