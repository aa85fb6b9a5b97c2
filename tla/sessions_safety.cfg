SPECIFICATION Spec
CONSTANTS
    Peer = {p1, p2, p3}
    d1 = d1
    d2 = d2
    d3 = d3
    cam = cam
    padded = padded
    Device = {d1, d2, d3}
    Name = {cam, padded}
    Trim <- TrimNames
    Empty = Empty
    Hello <- Reconnecting
    NoHello = NoHello
    NoSession = NoSession
    MaxSessions = 2
    MaxBuffered = 1
CHECK_DEADLOCK FALSE
SYMMETRY PeerSymmetry
INVARIANTS
    TaskHasEntry
    ActiveIsConnected
    UniqueCanonicalNames
    LoneTaskKeepsSession
    OrphansLostTheirLink
    
