CONSTANTS
  Quotes = {q1, q2}
  Snapshots = {s1}
  MaxPending = 1
  MaxBatch = 1
  RecycleAfter = 2
  PoolSize = 3
  DegradedAfter = 2
  DownAfter = 1
SYMMETRY Symmetry
SPECIFICATION Spec
INVARIANTS
  TypeOK
  NothingLostSilently
  AbandonedBounded
PROPERTIES
  RequeueStaysBounded
  ReleaseOnlyWhenDegraded
