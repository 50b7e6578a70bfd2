\* Arrays get no floats after they are made, for-loops run, algorithms are
\* defined where the compiler remembers nothing, and a right operand of and, or
\* writes no slot back and takes nothing from an array in integer code.
CONSTANTS
  Names = {"x"}
  MaxValue = 3
  MaxCode = 3
  Variables = {x, a}
  MaxInt = 2
  MaxArrays = 1
  MaxSize = 2
  Floats = FALSE
  EmptyLoops = FALSE
  Algorithms = "plain"
  Effects = FALSE
SPECIFICATION MCSpec
SYMMETRY Interchangeable
INVARIANT UsedIsHeld
INVARIANT Balanced
INVARIANT KeepsOne
INVARIANT SameValues
INVARIANT PathFree
CHECK_DEADLOCK FALSE
