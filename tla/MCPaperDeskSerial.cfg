CONSTANTS
  Callers = {c1}
  Trades = {t1, t2, t3, t4}
  Instruments = {i1, i2, i3}
  Outlays <- Small
  Grosses <- Results
  Capitals <- Configured
  EntryCost = 1
  ExitCost = 1
  MaxOpen = 2
  MaxLossPct = 40
  MaxDrawdownPct = 60
  MaxCrashes = 0
  None = None
SYMMETRY Symmetry
SPECIFICATION Spec
INVARIANTS
  TypeOK
  BooksBalance
  PositionsMirrorTrades
  EntryRulesHold
PROPERTIES
  ExposureWithinCapital
  Implements
