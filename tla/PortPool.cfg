SPECIFICATION PoolSpec
CONSTANTS
  Ports = {1, 2, 3}
  Callers = {a, b}
  NoPort = NoPort
INVARIANTS
  Partition
  Exclusive
PROPERTIES
  ExhaustionIsReal
