CONSTANTS
  Values = {p, q}
  Indices <- Asked
  None = None
  Error = Error
  Threshold = 1
  Members = {e1, e2, e3, e4}
  Nothing = Nothing
SPECIFICATION MCSpec
CONSTRAINT Bounded
SYMMETRY Interchangeable
INVARIANT WasteBounded
PROPERTY CopiesPaidFor
PROPERTY ImplementsDeque
INVARIANT RankRises
INVARIANT CountsRoots
INVARIANT RankLogarithmic
PROPERTY NeverGrowsBelow
PROPERTY ImplementsPartition
