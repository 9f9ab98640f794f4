SPECIFICATION Spec
CONSTANTS
    N = 1
    RollbackFails = TRUE
INVARIANTS
    OldSurvives
CHECK_DEADLOCK FALSE
