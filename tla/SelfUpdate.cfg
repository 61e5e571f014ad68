SPECIFICATION Spec
CONSTANTS
  Updater = {u1, u2, u3}
  Nobody = nobody
  MaxVersion = 3
INVARIANTS
  AlwaysInstalled
  Recoverable
PROPERTY
  DowngradesOnlyUnderRace
CHECK_DEADLOCK FALSE
