SPECIFICATION IrohSpec
CONSTANTS
    a1 = a1
    a2 = a2
    Node <- MCNode
    Local <- MCLocal
    Ipv4 <- MCIpv4
    Ipv4Addr <- MCIpv4Addr
    RouteTable <- MCRouteTable
    Header <- MCHeader
    EnvAction <- MCEnvAction
    ConnId = {k1}
    MaxReads = 0
    MaxFaults = 1
    INTERMOD_CHANNEL_CAPACITY = 1
    CHANNEL_CAPACITY = 1
CHECK_DEADLOCK FALSE
INVARIANTS
    IrohTypeOK
    NoZombie
