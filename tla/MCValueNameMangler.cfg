SPECIFICATION Spec
CONSTANTS
  Alnum <- MCAlnum
  Hex <- MCHex
  Other = {" "}
  Unprintable = {"SOH"}
  HexCode <- MCHexCode
  Modules <- NamedModules
INVARIANTS
  TypeOK
  UniqueIds
  LinksLeadHome
  EveryValueIsRendered
