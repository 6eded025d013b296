CONSTANTS
  Logins = {l1}
  MaxRows = 2
  Cooldown = 2
  MaxFailures = 2
  MaxLag = 2
  MaxBreaks = 1
SPECIFICATION TokenFairSpec
INVARIANTS TokenTypeOK RefreshesBounded LoginHolds
PROPERTY Renews
