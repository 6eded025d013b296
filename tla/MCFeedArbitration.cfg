CONSTANTS
  Fyers = Fyers
  Upstox = Upstox
  None = None
  Unknown = Unknown
  Priority <- ByDefault
  Stale = 0
  Down = 2
  Ttl = 3
  Throttle = 1
  Settle = 5
  MaxFaults = 1
SPECIFICATION Spec
INVARIANTS
  SoleProducer
  PrimaryServes
  StandbyTakesOver
