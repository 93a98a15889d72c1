SPECIFICATION FairSpec
CONSTANTS
    f1 = f1
    f2 = f2
    NoFrame = NoFrame
    Frames = {f1, f2}
    Size <- MCSize
    Mtus = {0, 2}
    FallbackMtu = 1
INVARIANTS
    OneInFlight
    NoByteTwice
    NoEmptyChunk
    NothingVanishes
    WorkerHasManager
    SessionHasWorker
    OrderOfUnrejected
PROPERTIES
    ShutdownOfSleeperEnds
    ImplementsChannel
