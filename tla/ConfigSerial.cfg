SPECIFICATION Spec
CONSTANTS
  Name <- MCName
  Default = 2
  Endpoint = {"app", "eu"}
  DefaultEndpoint = "app"
  Token = {"t0", "t1"}
  Org = {"acme"}
  Interval = {"off"}
  NoInode = NoInode
  Proc = {a, b, c}
  a = a
  b = b
  c = c
  i1 = i1
  i2 = i2
  i3 = i3
  Inode = {i1, i2, i3}
  Command <- SerialCommand
  InitDocument <- MCInitDocument
  Concurrent = FALSE
SYMMETRY Symmetry
INVARIANTS
  AlwaysReadable
PROPERTIES
  ImplementsAtomicConfig
CHECK_DEADLOCK FALSE
