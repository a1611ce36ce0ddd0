SPECIFICATION FairSpec
CONSTANTS
  Alnum <- MCAlnum
  Hex <- MCHex
  Other = {" "}
  Unprintable = {"SOH"}
  Names <- MCNames
INVARIANTS
  TypeOK
  DistinctIds
  PrefixFree
  WritesEscapedName
PROPERTIES
  EndsAsTheNameDemands
CHECK_DEADLOCK FALSE
