CONSTANTS
  Callers = {c1, c2}
  Trades = {t1, t2, t3}
  Instruments = {i1, i2}
  Outlays <- One
  Grosses <- Loss
  Capitals <- Capital
  EntryCost = 0
  ExitCost = 0
  MaxOpen = 1
  MaxLossPct = 40
  MaxDrawdownPct = 60
  MaxCrashes = 1
  None = None
SYMMETRY Symmetry
SPECIFICATION Spec
INVARIANTS
  ExposureBound
  OrdersPrecedeRows
PROPERTIES
  ClosedStaysClosed
