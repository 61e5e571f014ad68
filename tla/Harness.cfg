SPECIFICATION Spec
CONSTANTS
  Test = {t1, t2}
  Prior = prior
  People = people
  OrgBefore <- MCOrgBefore
  FirstId = 3
  ByHelper = {"key"}
  ByCLI = {"connector", "chat"}
  SweepOrder <- MCSweepOrder
  MaxId = 5
  MaxCleanups = 2
  MaxFaults = 2
INVARIANTS
  TypeOK
  PassLeavesNothing
  KnownLeftoversAreLedgered
  NoFalseAlarm
  SweepReaps
  HandsOffTheWrongOrg
SYMMETRY TestSymmetry
PROPERTY
  PeopleKeepTheirs
CHECK_DEADLOCK FALSE
