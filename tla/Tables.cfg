CONSTANTS
  k1 = k1
  k2 = k2
  k3 = k3
  k4 = k4
  i1 = i1
  i2 = i2
  i3 = i3
  Keys <- MCKeys
  KeyId <- MCKeyId
  Vals = {v1, v2}
  None = None
  Error = Error
  Self = Self
  Definitions <- Programs
  Names <- ProgramNames
  Name <- NameOf
  Callee <- CalleeOf
  Base <- BaseOf
  Step <- StepOf
  WithFloat = {"k"}
  MaxArg = 1
  Alike = {}
  Redefined = {"h"}
  Reassigned = {}
  Copied = {"f"}
SPECIFICATION MCSpec
CONSTRAINT ThreeDefinitions
INVARIANT IndexExact
INVARIANT MemoInvisible
INVARIANT TablesAgree
PROPERTY ImplementsMap
CHECK_DEADLOCK FALSE
