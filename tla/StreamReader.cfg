SPECIFICATION Spec
CONSTANTS
  Frame <- MCFrame
  MaxSent = 3
PROPERTIES
  ImplementsFrameReader
  CleanEndIsReal
