SPECIFICATION Spec
CONSTANTS
    Programs <- MCPrograms
    Names = {"a", "c", "f", "m", "ADD"}
    Literals = {"1"}
    Builtins = {"self"}
    ReadAs <- MCReadAs
INVARIANT ReadsEveryProgram
CHECK_DEADLOCK FALSE
