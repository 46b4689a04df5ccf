SPECIFICATION Spec
CONSTANTS
    N = 4
    Inputs <- MCInputs
    Basename <- MCBasename
INVARIANT NothingNearMissing
CHECK_DEADLOCK FALSE
