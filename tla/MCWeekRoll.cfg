CONSTANTS
  Trades = {t1, t2}
  Instruments = {i1}
  Outlays <- Outlay
  Grosses <- Ruin
  Capitals <- Edits
  EntryCost = 1
  ExitCost = 1
  MaxOpen = 1
  MaxLossPct = 0
  MaxDrawdownPct = 0
  Rollers = {r1, r2}
  LastWeek = 1
  MinEquity = 1
  MaxCrashes = 1
SYMMETRY Symmetry
SPECIFICATION RollSpec
INVARIANTS
  TypeOK
  OneRollPerWeek
PROPERTIES
  FirstRollEarned
