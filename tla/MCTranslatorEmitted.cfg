SPECIFICATION Spec
CONSTANTS
    Files = {"transport", "community"}
    FileOps <- OpsByFile
    FileEvents <- EventsByFile
    CheckedReducers = {"single_row"}
    Reducers = {"single_row"}
    Jobs = {"created", "milestone", "influence"}
    Request <- Emitted
    MayFail = FALSE
    MaxLoads = 2
CHECK_DEADLOCK FALSE
INVARIANTS
    ParametersSuffice
