CONSTANTS
    Channels = {"relay", "direct"}
    Seqs = {0, 1}
    Base = 2
    FlightSize = 1
    MaxTries = 1
    KaN = 0
    KaMaxRetries = 0
    MaxQueued = 1
    Eof = FALSE
    NumSlots = 1
    FailingSockets = {"secondaryUdp"}
    CloseFutures = {"f1"}
SPECIFICATION Spec
INVARIANTS NothingForgotten
PROPERTIES ConnectionEnds HandshakeEnds QueuedServed 
CHECK_DEADLOCK FALSE
