CONSTANTS
  Tasks = {a1, a2}
  Instructions = {i1}
  Contracts = {k1}
  LastSession = 2
  Dates <- AnyDay
  MaxEntries = 2
  MaxEdits = 2
  MaxFaults = 1
SYMMETRY Symmetry
SPECIFICATION Spec
INVARIANTS
  OncePerSession
  ExecutionsWitnessed
PROPERTIES
  EntersAsOrdered
  ResultsKeepOrders
CHECK_DEADLOCK FALSE
