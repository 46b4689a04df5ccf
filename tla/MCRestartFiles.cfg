SPECIFICATION Spec
CONSTANTS
    NDom = 3
    NServer = 2
    MaxDate = 4
    Parent <- MCParent
    DomStart <- MCDomStart
    DomEnd <- MCDomEnd
INVARIANT CompletedKept
PROPERTIES NoWorkLost CleanRestart
CHECK_DEADLOCK FALSE
