SPECIFICATION SdkSpec
CONSTANTS
    Device = {d1, d2}
    Scene = {s1}
    Slot = {a, b}
    Layout <- OnlyFull
    NoScene = NoScene
    Never = Never
    Timeout = 1
    Grace = 2
    MaxLag = 0
    MaxSkew = 0
    MaxMappings = 2
    Horizon = 2
    MaxTime = 4
PROPERTIES
    GraceProtects
