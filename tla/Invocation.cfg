SPECIFICATION FairSpec
CONSTANTS
  p1 = p1
  p2 = p2
  Process = {p1, p2}
  Here = here
  There = there
  User <- MCUser
  MaxFaults = 1
  MaxLogins = 1
  LoginTokens = {0, 3}
INVARIANTS
  RootCauseReported
  ExitCodeIsHonest
  OneIdentity
  EffectIsTold
  NoSilentOrphan
PROPERTIES
  FailureEnds
CHECK_DEADLOCK FALSE
