CONSTANTS
  Node <- MCNode
  Stmt <- MCStmt
  Loop <- MCLoop
  Roots <- PopRoot
  Guarded = {}
  Names <- MCNames
  Assignable <- NoAssignable
  Start <- TextStart
  Programs <- PopProgram
  MaxTwice = 4
  HotThreshold = 8
  MaxLen = 12
SPECIFICATION LoopSpec
PROPERTY PopTakesOne
CHECK_DEADLOCK FALSE
