CONSTANTS
    w1 = w1
    w2 = w2
    Worker = {w1, w2}
    N = 3
    Cap = 1
    CallerCancels = TRUE
    StepsFail = FALSE
SPECIFICATION Spec
CHECK_DEADLOCK FALSE
INVARIANT SavedIsComplete
