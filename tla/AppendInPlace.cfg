CONSTANTS
  Idents = {"a", "b"}
  Parameter = "a"
  Programs <- SmallPrograms
  MaxObjects = 3
  MaxMade = 2
  MaxText = 2
  MaxLevels = 3
  Guarded = FALSE
  MaxSteps = 9
SPECIFICATION HoldersSmall
INVARIANT SameTexts
CHECK_DEADLOCK FALSE
