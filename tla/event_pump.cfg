\* Two pumps, two clients, a mode and a value that change, a delegate that raises once.
CONSTANTS
    Device = {d1, d2}
    Signature = {s1, s2}
    ServerMode = {"idle", "live"}
    Attribute = {a1}
    Value = {v1, v2}
    None = None
    MaxThreads = 2
    MaxChanges = 2
    MaxRaises = 1

SPECIFICATION Spec

INVARIANT
    OnePump

PROPERTIES
    EventsAreNews
    DelegateCatchesUp
