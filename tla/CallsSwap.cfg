CONSTANTS
  Params <- MCParams
  Methods <- MCMethods
  Memoized <- MCMemoized
  Sites <- SwapSites
  Statements <- SwapStatements
  Locals <- NoLocals
  Vals <- MCVals
  Start <- MCStart
  Error = Error
  Self = "self"
  MaxDepth = 3
SPECIFICATION Spec
INVARIANT BindingsAgree
CHECK_DEADLOCK FALSE
