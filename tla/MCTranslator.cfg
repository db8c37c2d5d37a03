SPECIFICATION Spec
CONSTANTS
    Files = {"transport", "community", "store", "bad"}
    FileOps <- OpsByFile
    FileEvents <- EventsByFile
    CheckedReducers = {"single_row", "list_with_count"}
    Reducers = {"single_row", "passthrough"}
    Jobs = {"created", "batch", "levels", "track", "history", "bare"}
    Request <- Mixed
    MayFail = TRUE
    MaxLoads = 4
CHECK_DEADLOCK FALSE
INVARIANTS
    TypeOK
    OutcomeIsTrue
    PanicsHaveCause
