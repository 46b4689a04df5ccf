SPECIFICATION Spec
CONSTANTS
    NPE = 5
    MaxInflight = 3
    Builds <- BothBuilds
    MaxCalls = 3
INVARIANTS PoolInv EachPartOnce PoolDrained
PROPERTIES NoOverwrite
