\* An SDK client, a remote simulator or an embedded one.
CONSTANTS
    MaxRequests = 2
    MaxPings = 1

SPECIFICATION SimSpec

INVARIANTS
    NoTakeForgotten

PROPERTIES
    AnswerIsMine
    RequestReturns
    InterruptEnds

\* A simulator ends, and an SDK client may have nothing more to ask for.
CHECK_DEADLOCK FALSE
