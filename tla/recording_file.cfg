SPECIFICATION Spec
CONSTANTS
    Path = {p1}
    Frame <- Frames
    Marker = {m1}
    Stamp = {1, 2}
    NoTake = NoTake
    NoFile = NoFile
    Invalid = Invalid
    MaxFrames = 3
    MaxMarkers = 1
INVARIANTS
    FinishedReadsBack
    CutReadsAsPrefix
    CutIsDetectable
    IndexFollowsRead
