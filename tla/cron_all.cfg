SPECIFICATION LiveSpec
CONSTANTS
    Procs = {p1, p2}
    Names = {n1}
    Exprs <- MCExprs
    Times <- MCTimes
    MaxRuns = 2
    None = None
INVARIANT RunsAreExclusive
PROPERTY DueTasksKeepRunning
CHECK_DEADLOCK FALSE
