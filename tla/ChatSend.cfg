SPECIFICATION FairSpec
CONSTANTS
  LastCell = 2
  Frame <- ChatFrame
INVARIANTS
  SuccessShowsWholeReply
  EarlyStopIsJustified
  MessageIsAccountedFor
PROPERTIES
  InterruptEnds
  StreamEndEnds
CHECK_DEADLOCK FALSE
