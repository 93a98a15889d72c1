SPECIFICATION FairSpec
CONSTANTS
    f1 = f1
    f2 = f2
    NoFrame = NoFrame
    Frames = {f1}
    Size <- MCSize
    Mtus = {2}
    FallbackMtu = 1
PROPERTIES
    ShutdownEnds
