CONSTANTS
  Params <- MCParams
  Methods <- MCMethods
  Memoized <- MCMemoized
  Sites <- CleanSites
  Statements <- CleanStatements
  Locals <- MCLocals
  Vals <- MCVals
  Start <- MCStart
  Error = Error
  Self = "self"
  MaxDepth = 3
  Idents = {"a", "b"}
  Parameter = "a"
  Programs <- SmallPrograms
  MaxObjects = 3
  MaxMade = 2
  MaxText = 2
  MaxLevels = 3
  Guarded = TRUE
  MaxSteps = 9
SPECIFICATION MCSpec
INVARIANT BindingsAgree
INVARIANT SameTexts
INVARIANT DestroyedIsGone
CHECK_DEADLOCK FALSE
