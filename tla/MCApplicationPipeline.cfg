CONSTANTS
  Leads = {l1}
  NoLead = NoLead
  Tasks = {t1, t2}
  MaxItems = 1
  MaxApps = 1
  MaxRetries = 2
  MaxFaults = 1
SYMMETRY Symmetry
SPECIFICATION Spec
INVARIANTS
  NeverReapply
  RetriesBounded
  SuccessIsTrue
PROPERTIES
  SendsHaveConsent
CHECK_DEADLOCK FALSE
