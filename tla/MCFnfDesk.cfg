CONSTANTS
  Drivers = {d1, d2}
  Clients = {c1}
  Trades = {t1, t2}
  Instruments = {i1, i2}
  Outlays <- Premium
  Grosses <- Results
  Cost = 1
  Capitals <- Configured
  Ceilings <- Limits
  StopPct = 25
  RiskPct = 25
  MaxLossPct = 50
  MaxCrashes = 1
  None = None
SYMMETRY Symmetry
SPECIFICATION Spec
INVARIANTS
  OneOpenPerInstrument
  BookedOnce
  BooksBalance
