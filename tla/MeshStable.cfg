SPECIFICATION MeshSpec
CONSTANTS
    a1 = a1
    a2 = a2
    Node <- MCNode
    Local <- MCLocal
    Ipv4 <- MCIpv4
    Ipv4Addr <- MCIpv4Addr
    RouteTable <- MCRouteTable
    Header <- MCHeader
    EnvAction <- MCEnvAction
    EnvEvent <- MCEnvEvent
    ConnId = {k1, k2}
    MaxReads = 0
    MaxFaults = 1
    MaxPacketSize = 20
    MAX_PACKETS_IN_QUEUE = 2
    INTERMOD_CHANNEL_CAPACITY = 2
    CHANNEL_CAPACITY = 2
SYMMETRY ConnIdSymmetry
CHECK_DEADLOCK FALSE
PROPERTIES
    StableTunnel
