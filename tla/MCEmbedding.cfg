SPECIFICATION FairSpec
CONSTANTS
  Printable <- MCPrintable
  HexDigit = {"1"}
  Named <- MCNamed
  Control = {"SOH"}
  Negative = {"xFF"}
  Files <- MixedFiles
  BufSize = 3
  Indent = 1
  SizeMax = 100
INVARIANTS
  TypeOK
  NothingLostOrDoubled
  OneLiteralPerLine
  RawLiteralsDedented
  PrintsItsLines
  OnlyTheEndsAreLost
PROPERTIES
  WritesAllLines
  IsPrinted
CHECK_DEADLOCK FALSE
