CONSTANTS
    w1 = w1
    w2 = w2
    Worker = {w1, w2}
    N = 4
    Cap = 1
    CallerCancels = TRUE
    StepsFail = TRUE
SPECIFICATION Spec
CHECK_DEADLOCK FALSE
INVARIANTS TypeOK EntriesAscend NoGapUntilCancelled
PROPERTIES ImplementsOrderedBackup AllReturn
