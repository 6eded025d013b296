CONSTANTS
  Quotes = {q1, q2}
  Snapshots = {s1}
  MaxPending = 1
  MaxBatch = 1
  RecycleAfter = 1
  PoolSize = 2
  DegradedAfter = 1
  DownAfter = 1
SPECIFICATION LiveTapeSpec
PROPERTIES
  RowsReachStore
