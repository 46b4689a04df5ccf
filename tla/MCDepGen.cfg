SPECIFICATION Spec
CONSTANTS
    Calls <- MCCalls
    Macro <- MCMacro
    None = "none"
INVARIANTS NothingSkipped NothingMissed NothingForeign Buildable
CHECK_DEADLOCK FALSE
