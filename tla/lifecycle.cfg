\* Two tasks call start() and stop() on one server with an ephemeral port.
CONSTANTS
    Caller = {c1, c2}
    Port = {p1, p2}
    AnyPort = AnyPort
    ConfigPort = AnyPort
    None = None
    MaxIncarnations = 3
    MaxConnections = 2

SPECIFICATION Spec

INVARIANTS
    ServedWhileRunning
    OnlyDroppedSurvive

PROPERTY
    CallsReturn
