SPECIFICATION Spec
CONSTANTS
  p1 = p1
  p2 = p2
  Process = {p1, p2}
  Before = before
  NoCommand = noCommand
  CommandsOf <- MCCommandsOf
  MaxFaults = 1
INVARIANTS
  TypeOK
  CreatedAsAsked
  ExitTellsTheEffect
PROPERTY
  UpdateDoesWhatWasAsked
CHECK_DEADLOCK FALSE
