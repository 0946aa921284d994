SPECIFICATION CoordSpec
CONSTANTS
    a1 = a1
    a2 = a2
    a3 = a3
    Node <- MCNode
    Local <- MCLocal
    Ipv4 <- MCIpv4
    Ipv4Addr <- MCIpv4Addr
    RouteTable <- MCRouteTable
    Header <- MCHeader
    EnvEvent <- MCEnvEvent
    MaxReads = 3
    MaxPacketSize = 20
    MAX_PACKETS_IN_QUEUE = 2
    INTERMOD_CHANNEL_CAPACITY = 2
INVARIANTS
    CoordTypeOK
    BufferDiscipline
    OrderedPipe
PROPERTIES
    OutboundIsPipe
    InboundIsPipe
