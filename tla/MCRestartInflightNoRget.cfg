SPECIFICATION Spec
CONSTANTS
    NPE = 5
    MaxInflight = 3
    Builds <- WithoutRget
    MaxCalls = 3
INVARIANTS UnlockSucceeds
