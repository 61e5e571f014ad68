SPECIFICATION Spec
CONSTANTS
  Proc = {p1, p2}
  Version <- MCVersion
  TagOf <- MCTagOf
  MaxRelease = 2
  MaxClock = 2
  TTL = 1
  Inode = {i1, i2, i3}
  NoInode = noInode
INVARIANTS
  StampIsConservative
  NewReleaseIsNoticed
  NudgeIsTrue
SYMMETRY Symmetry
