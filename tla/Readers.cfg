SPECIFICATION MCSpec
CONSTANTS
    Programs <- MCPrograms
    Names = {"a", "c", "f", "m", "ADD"}
    Literals = {"1"}
    Builtins = {"self"}
    ReadAs <- MCReadAs
    Uris = {"one"}
    Texts <- MCTexts
    Crashing = {"huge"}
    Diagnosis <- MCDiagnosis
    Hover <- MCHover
    MaxId = 3
    Exact = 3
    Spacing = 2
    Window = 2
INVARIANT ReadsProgram
INVARIANT KeepsWords
INVARIANT AnswersFit
INVARIANT ShownIsCurrent
PROPERTY Stops
PROPERTY EveryRequestAnswered
CHECK_DEADLOCK FALSE
