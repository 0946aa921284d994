SPECIFICATION MeshSpec
CONSTANTS
    a1 = a1
    a2 = a2
    a3 = a3
    Node <- MCNode
    Local <- MCLocal
    Ipv4 <- MCIpv4
    Ipv4Addr <- MCIpv4Addr
    RouteTable <- MCRouteTable
    Header <- MCHeader
    EnvAction <- MCEnvAction
    EnvEvent <- MCEnvEvent
    ConnId = {k1}
    MaxReads = 0
    MaxFaults = 0
    MaxPacketSize = 20
    MAX_PACKETS_IN_QUEUE = 1
    INTERMOD_CHANNEL_CAPACITY = 1
    CHANNEL_CAPACITY = 1
CHECK_DEADLOCK FALSE
INVARIANTS
    Whitelist
    Authentic
