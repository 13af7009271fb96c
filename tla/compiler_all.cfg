SPECIFICATION Spec
CONSTANTS
    Names <- MCNames
    Methods <- MCMethods
    Programs <- MCPrograms
    Fuel = 600
INVARIANT PassesPreserve
INVARIANT SlotsPreserve
CHECK_DEADLOCK FALSE
