\* One device with two connections, one with a single connection.
CONSTANTS
    t1 = t1
    t2 = t2
    t3 = t3
    a = a
    b = b
    Task = {t1, t2, t3}
    Device = {a, b}
    DeviceOf <- Devices
    Descriptor <- Descriptors
    Capability <- Capabilities
    NoDescriptor = NoDescriptor
    NoPeer = NoPeer
    MaxPeers = 2
    MaxSignals = 2
    MaxCalls <- Calls

SPECIFICATION Spec

\* Connections end, and bounds are reached.
CHECK_DEADLOCK FALSE

INVARIANTS
    TrackedOnce
    PeerGoesWithSession
    SignalsHandedOnce
    NegotiationIsSound
