SPECIFICATION Spec
CONSTANTS
    Names <- MCNames
    Methods <- MCMethods
    Programs <- MCSwap
    Fuel = 600
INVARIANT NativeIsInterpreter
CHECK_DEADLOCK FALSE
