------------------------------- MODULE MCHost -------------------------------
(***************************************************************************)
(* One node, 2, with one peer.  Its device produces packets for the peer,  *)
(* and the manager delivers packets for the device again and again.        *)
(***************************************************************************)
EXTENDS Host

CONSTANTS a1, a2

MCNode == {1, 2}
MCLocal == {2}
MCIpv4 == {a1, a2}
MCIpv4Addr == [n \in MCLocal |-> a2]
MCRouteTable == [n \in MCLocal |-> [a \in {a1} |-> 1]]
Valid(src, dest) == [len |-> 20, byte0 |-> 69, byte2 |-> 0, byte3 |-> 20, ttl |-> 1,
                     src_ip |-> src, dest_ip |-> dest]
MCHeader == {Valid(a2, a1), Valid(a1, a2)}
MCEnvEvent ==
    [type : {"ConnectedToPeer"}, peer : {1}]
    \cup [type : {"RecvPacketFrom"}, peer : {1},
          packet : [hdr : {Valid(a1, a2)}, origin : {1}, seq : {0}]]
=============================================================================
