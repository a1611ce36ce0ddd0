SPECIFICATION FairSpec
CONSTANTS
  Jobs <- MCJobs
  MdOperands <- MCMdOperands
  StackMax = 8
  FLOW_STYLE = 255
  Unprintable = {"BEL"}
INVARIANTS
  PageReadsBack
  RowTells
  CellTellsExpression
PROPERTIES
  CellEnds
CHECK_DEADLOCK FALSE
