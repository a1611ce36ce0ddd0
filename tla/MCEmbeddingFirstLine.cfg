SPECIFICATION Spec
CONSTANTS
  Printable <- MCPrintable
  HexDigit = {"1"}
  Named <- MCNamed
  Control = {"SOH"}
  Negative = {"xFF"}
  Files <- LineFiles
  BufSize = 3
  Indent = 1
  SizeMax = 100
INVARIANTS
  EveryTextDedented
CHECK_DEADLOCK FALSE
