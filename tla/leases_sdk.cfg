SPECIFICATION SdkSpec
CONSTANTS
    Device = {d1, d2}
    Scene = {s1}
    Slot = {a, b}
    Layout <- OnlyFull
    NoScene = NoScene
    Never = Never
    Timeout = 1
    Grace = 2
    MaxLag = 1
    MaxSkew = 1
    MaxMappings = 2
    Horizon = 2
    MaxTime = 4
INVARIANTS
    TypeOK
    ExclusiveOwner
PROPERTIES
    
    ImplementsOwnership
    AbandonedIsReleased
