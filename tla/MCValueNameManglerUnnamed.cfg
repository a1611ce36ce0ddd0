SPECIFICATION Spec
CONSTANTS
  Alnum <- MCAlnum
  Hex <- MCHex
  Other = {" "}
  Unprintable = {"SOH"}
  HexCode <- MCHexCode
  Modules <- UnnamedModules
INVARIANTS
  UniqueIds
