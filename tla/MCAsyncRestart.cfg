SPECIFICATION FairSpec
CONSTANTS
    NWork = 4
    NRest = 2
    NDom = 4
    NSteps = 2
    CkptSteps <- SplitCkptSteps
    Parent <- SplitParent
    Owned <- SplitOwned
    Proc0 <- SplitProc0
    StartStep <- SplitStart
    EndStep <- SplitEnd
INVARIANTS TypeOK BatonInv ShutdownClean
    WindowRaceFree SnapshotConsistent CheckpointComplete MetadataAgreed
PROPERTIES Termination ServiceSpec NothingLost
