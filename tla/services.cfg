CONSTANTS
    MaxHandles = 1
    MaxServices = 2
    Peers = {"p1", "p2"}
    Requests = {1, 2}
    MaxTransmits = 1
    MaxTransmissions = 2
    MaxNotified = 4
SPECIFICATION Spec
INVARIANTS  TunnelSafe  EventsInOrder
PROPERTIES  RequestEnds
CHECK_DEADLOCK FALSE
