CONSTANT N = 2
SPECIFICATION Spec
INVARIANTS StopErrorsAreIsolated
CHECK_DEADLOCK FALSE
