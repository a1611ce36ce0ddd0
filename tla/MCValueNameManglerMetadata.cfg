SPECIFICATION Spec
CONSTANTS
  Alnum <- MCAlnum
  Hex <- MCHex
  Other = {" "}
  Unprintable = {"SOH"}
  HexCode <- MCHexCode
  Modules <- MetadataModules
INVARIANTS
  EveryValueIsRendered
