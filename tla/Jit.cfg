CONSTANTS
  Node <- MCNode
  Stmt <- MCStmt
  Loop <- MCLoop
  Roots <- MCRoots
  Guarded <- MCGuarded
  Names <- MCNames
  Assignable <- MCAssignable
  Start <- MCStart
  Programs <- MCPrograms
  MaxTwice = 4
  HotThreshold = 2
  MaxLen = 2
SPECIFICATION LoopSpec
CONSTRAINT ThreeStatements
INVARIANT LoopsAgree
INVARIANT MachineSound
PROPERTY ForLoopsEnd
CHECK_DEADLOCK FALSE
