SPECIFICATION Spec
CONSTANTS
    left = left
    right = right
    Scene = {s1}
    Attr <- Attributes
    Document <- Documents
    Output <- Outputs
    Sample <- Samples
    Mask <- Masks
    NoScene = NoScene
    NoMask = NoMask
    Bare = Bare
    Self = Self
    NormOverflows <- NormTooLarge
    IntMax = 2
    AlphaUnit = 2
    MaxBindings = 2
    MaxBatch = 2
    MaxAbs = 1
INVARIANTS
    RepeatIsHarmless
    LossLeavesNoTrace
    DirectionKept
PROPERTIES
    ClampConfines
    NewMappingStealsNothing
    RotationsStayProper
