CONSTANTS
  Files = {r, a, b, c}
  Small = {r, a, b}
  Root = r
  Text = Text
  Missing = Missing
  Sources <- ProgramsAndGraphs
SPECIFICATION ImportSpec
INVARIANT ExpandsAsSpecified
INVARIANT LoadingIsStack
INVARIANT CycleIsReal
INVARIANT Complete
PROPERTY ImportsFirst
PROPERTY Terminates
CHECK_DEADLOCK FALSE
