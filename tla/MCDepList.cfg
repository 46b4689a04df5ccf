SPECIFICATION Spec
CONSTANTS
    N = 4
    Inputs <- MCInputs
    Basename <- MCBasename
INVARIANTS Sorted Complete CyclesReported ChecksReported
PROPERTY Ends
CHECK_DEADLOCK FALSE
