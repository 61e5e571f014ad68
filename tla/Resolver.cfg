SPECIFICATION Spec
CONSTANTS
  Group <- MCGroup
  Leaf <- MCLeaf
  Root = "root"
  Children <- MCChildren
  FlagsOf <- MCFlagsOf
  Update = "update"
  Word <- MCWord
  Flag <- MCFlag
  KindOf <- MCKindOf
  Dash = "-"
  HelpWord = "help"
  VersionWord = "version"
  VersionFlag = "version"
  ValueGlobal = {"profile"}
  MaxArgs = 4
INVARIANTS
  EveryTokenUsedOnce
  WalkAndParseAgree
  UpdateIsRecognized
  OneMessagePerFailure
CHECK_DEADLOCK FALSE
