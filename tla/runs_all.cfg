SPECIFICATION RunsSpec
CONSTANTS
    MinInt <- Least
    MaxInt = 7
    MaxExact = 4
    Numerals <- TheNumerals
    Programs <- AllPrograms
    t1 = t1
    t2 = t2
    mobile = mobile
    Nobody = Nobody
    Tasks = {t1, t2}
    Roots = {mobile}
    Governed = {mobile}
 
INVARIANT AcceptedRunsWell
INVARIANT CancelIsInherited
PROPERTY AwaitDelivers
PROPERTY TasksEnd
CHECK_DEADLOCK FALSE
