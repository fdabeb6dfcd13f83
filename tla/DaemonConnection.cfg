SPECIFICATION FairSpec
CONSTANTS
  Channels = {c1, c2}
  Sessions = {s1, s2}
  Streams = {u1, u2}
  MaxChannels = 1
  None = None
CHECK_DEADLOCK FALSE
INVARIANTS
  TargetsPaired
PROPERTIES
  EndIsTold
  ServesOrEnds
