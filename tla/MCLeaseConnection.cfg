CONSTANTS
  Ops = {o1, o2}
  Sockets = {s1, s2, s3, s4}
  MaxFaults = 2
  None = None
SPECIFICATION LeaseFairSpec
INVARIANTS
  LeaseTypeOK
  OneOpening
PROPERTIES
  StrandedByLateConnect
  Recovers
