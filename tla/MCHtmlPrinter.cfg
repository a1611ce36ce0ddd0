SPECIFICATION ProgramFairSpec
CONSTANTS
  Modules <- MCModules
  Name <- MCName
  MAX_DEPTH = 1
  maxLoopDepth = 1
INVARIANTS
  TypeOK
  AnalysesMatch
  RowsFillTheLegend
  RowsAreStriped
  PageMatchesModule
  LinksResolve
  SuccessMeansPage
  NoHalfPage
PROPERTIES
  Finishes
CHECK_DEADLOCK FALSE
