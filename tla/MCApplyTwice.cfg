CONSTANTS
  Leads = {l1}
  NoLead = NoLead
  Tasks = {t1}
  MaxItems = 2
  MaxApps = 2
  MaxRetries = 2
  MaxFaults = 0
SPECIFICATION Spec
INVARIANTS
  OneSubmission
CHECK_DEADLOCK FALSE
