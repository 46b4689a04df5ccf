SPECIFICATION Spec
CONSTANTS
    Suites <- AllSuites
    MonthLen = 2
    MaxAborts = 1
INVARIANTS InputsReady MonthComplete
PROPERTY Ends
CHECK_DEADLOCK FALSE
