CONSTANTS
    EndpointRequests = {1, 2}
    MaxIps = 3
    MaxEndpoints = 4
    MaxStunSends = 2
    QueueLength = 2
    MaxPackets = 6
    MaxPipe = 2
    DnsRequests = {1, 2, 3}
    HostBytes = {"a", "b"}
    PortUsers = {"u1", "u2"}
    PortListeners = {1, 2}
    FixedPorts = {1}
    EphemeralPorts = {100, 101}
    MaxLive = 2
SPECIFICATION Spec
INVARIANTS RendezvousAllSent  PortsAndSegments
PROPERTIES EndpointsAnswered  SocketsComplete DnsAnswered MdnsStops
CHECK_DEADLOCK FALSE
