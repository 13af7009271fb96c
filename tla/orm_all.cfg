SPECIFICATION Spec
CONSTANTS
    r1 = r1
    r2 = r2
    Runtimes = {r1, r2}
    Absent = Absent
    Unset = Unset
    Batches = {1, 2}
    Vals = {0, 1}
    MaxSteps = 6
SYMMETRY Symmetric
INVARIANT TransactionsAreReleased
INVARIANT CleanModelsAreCurrent
PROPERTY AllOrNothing
PROPERTY SavesOnlyWhatWasAssigned
CHECK_DEADLOCK FALSE
