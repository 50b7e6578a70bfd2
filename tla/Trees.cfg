CONSTANTS
  Values = {2, 3, 4, 5, 6, 7, 8}
  Looked = {2, 3, 4, 5, 6, 7, 8}
  Asked = {"left", "right"}
  Less <- IntLess
  Same <- IntSame
  None = 0
  BValues = {2, 3, 4, 5, 6, 7, 8, 9, 10, 11}
  BLooked = {2, 3, 4, 5, 6, 7, 8, 9, 10, 11}
  BAsked = {"min", "max", "height"}
  Order = 2
  Few = 3
  Many = 5
SPECIFICATION MCSpec
CONSTRAINT Bounded
INVARIANT RedBlack
INVARIANT Filling
PROPERTY IsSet
PROPERTY BTreeAnswers
PROPERTY Ends
