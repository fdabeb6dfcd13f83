SPECIFICATION Spec
CONSTANTS
  Channels = {c1}
  Transfers = {t1, t2}
  MaxBytes = 3
  MaxFileBytes = 2
  None = None
SYMMETRY Symmetry
CHECK_DEADLOCK FALSE
INVARIANTS
  QuotaExact
  NoOrphanTransfer
  NoTargetLost
  CleanAfterClose
