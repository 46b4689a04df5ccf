SPECIFICATION Spec
CONSTANTS
    Builders <- MCBuilders
    Programs <- MCPrograms
    AllMembers <- MCAllMembers
    DefaultMembers <- MCDefaultMembers
    MaxFailures = 1
    NoCode = NoCode
INVARIANTS
    InOrder
    EnsembleFirst
    NoneForgotten
    StatusHonest
PROPERTY Finishes
CHECK_DEADLOCK FALSE
