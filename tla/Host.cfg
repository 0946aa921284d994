SPECIFICATION FairHostSpec
CONSTANTS
    a1 = a1
    a2 = a2
    Node <- MCNode
    Local <- MCLocal
    Ipv4 <- MCIpv4
    Ipv4Addr <- MCIpv4Addr
    RouteTable <- MCRouteTable
    Header <- MCHeader
    EnvEvent <- MCEnvEvent
    MaxReads = 1
    MaxTunErrors = 2
    MaxPacketSize = 20
    MAX_PACKETS_IN_QUEUE = 1
    INTERMOD_CHANNEL_CAPACITY = 1
INVARIANTS
    HostTypeOK
    OneGeneration
    NoOrphanJoin
    ImpossibleEvents
PROPERTIES
    CoordSpec
    Recovers
    ShutdownSpreads
