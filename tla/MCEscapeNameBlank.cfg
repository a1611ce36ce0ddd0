SPECIFICATION FairSpec
CONSTANTS
  Alnum <- MCAlnum
  Hex <- MCHex
  Other = {" "}
  Unprintable = {"SOH"}
  HexCode <- MCHexCode
  Names <- BlankNames
INVARIANTS
  EveryNameIsEscaped
CHECK_DEADLOCK FALSE
