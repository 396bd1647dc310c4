SPECIFICATION FairSpec
CONSTANTS
  Id = {1, 2, 3}
  Sources = {"s"}
  Modes = {"passphrase"}
  ForgetPolicies <- MCForgetPolicies
  RetainPolicies <- MCRetainPolicies
  Foreign <- MCForeign
  Week = 1
  NinetyDays = 3
  Year = 6
  MaxTime = 1
  MaxRuns = 2
  MaxFaults = 1
INVARIANTS TypeOK  PrimeDirective
PROPERTIES KeptStayRestorable ImportConverges
CHECK_DEADLOCK FALSE
