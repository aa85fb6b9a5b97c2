SPECIFICATION RecSpec
CONSTANTS
    Device = {d1, d2}
    Scene = {s1}
    Slot = {a}
    Layout <- FullOrEmpty
    NoScene = NoScene
    Never = Never
    NoTake = NoTake
    Timeout = 1
    Grace = 1
    MaxLag = 0
    MaxSkew = 0
    MaxMappings = 2
    Horizon = 1
    MaxTime = 1
    MaxMarkers = 5
    MaxFrames = 1
    MaxTakes = 1
SYMMETRY DeviceSymmetry
INVARIANTS
    TimelineCoversGraph
PROPERTIES
    FramesFollowTimeline
    SavedIsSelfContained
    RecordingFreezesGraph
    LockedIsKept
