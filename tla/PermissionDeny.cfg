SPECIFICATION PermSpec
CONSTANTS
  Requests <- MCRequests
  Specs <- MCSpecs
  MaxRules = 2
  MaxGrants = 2
INVARIANTS
  DenyWins
CHECK_DEADLOCK FALSE
