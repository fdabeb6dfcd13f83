SPECIFICATION StoreSpec
CONSTANTS
  Snapshots = {s1, s2, s3}
  MaxFaults = 1
  Absent = Absent
  Torn = Torn
  Empty = Empty
  Failed = Failed
  None = None
PROPERTIES
  ImplementsSnapshotStore
