SPECIFICATION Spec
CONSTANTS
    Peer = {p1, p2}
    d1 = d1
    d2 = d2
    d3 = d3
    cam = cam
    padded = padded
    Device = {d1, d2, d3}
    Name = {cam, padded}
    Trim <- TrimNames
    Empty = Empty
    Hello <- GoodClients
    NoHello = NoHello
    NoSession = NoSession
    MaxSessions = 2
    MaxBuffered = 0
CHECK_DEADLOCK FALSE
SYMMETRY PeerSymmetry
PROPERTIES
    OthersDoNotCloseIt
