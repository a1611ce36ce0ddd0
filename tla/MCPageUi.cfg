SPECIFICATION UiFairSpec
CONSTANTS
  Functions <- MCFunctions
  Flags <- MCFlags
  MaxClicks = 6
INVARIANTS
  UiTypeOK
  CodeFollowsClass
  FlagsFollowBoxes
PROPERTIES
  Settles
CHECK_DEADLOCK FALSE
