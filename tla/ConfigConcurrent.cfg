SPECIFICATION Spec
CONSTANTS
  Name <- MCName
  Default = 2
  Endpoint = {"app", "eu"}
  DefaultEndpoint = "app"
  Token = {"t0", "t1"}
  Org = {"acme"}
  Interval = {"off"}
  NoInode = NoInode
  Proc = {a, b}
  a = a
  b = b
  i1 = i1
  i2 = i2
  i3 = i3
  i4 = i4
  Inode = {i1, i2, i3, i4}
  Command <- AllCommand
  InitDocument <- MCInitDocument
  Concurrent = TRUE
SYMMETRY Symmetry
INVARIANTS
  ActiveIsNeverDangling
  TmpOutlivesOnlyAbnormalEnds
PROPERTIES
  IntervalSurvives
  SavePreservesOthers
CHECK_DEADLOCK FALSE
