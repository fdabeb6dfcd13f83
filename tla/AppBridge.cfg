SPECIFICATION FairSpec
CONSTANTS
  Channels = {c1}
  Sessions = {s1, s2}
  Commands = {k1, k2}
  Transfers = {t1, t2}
  MaxBytes = 2
  MaxAppBytes = 1
  None = None
CHECK_DEADLOCK FALSE
INVARIANTS
  PackageHasOwner
  OneCommand
  CleanAfterClose
PROPERTIES
  CommandEnds
