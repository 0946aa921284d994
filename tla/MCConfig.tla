------------------------------ MODULE MCConfig ------------------------------
(***************************************************************************)
(* One site; its operator writes a good config and several bad ones.       *)
(***************************************************************************)
EXTENDS Config, TLC

CONSTANTS i1, k1, k2, k3, k4

Good == [in_subnet |-> TRUE, octet |-> 1]
Peer == [pub_key |-> k4, ipv4 |-> [in_subnet |-> TRUE, octet |-> 2]]
GoodText == [well_formed |-> TRUE, peers_given |-> TRUE, node_ipv4 |-> Good,
             log_level_known |-> TRUE, peers |-> <<Peer>>]

MCText ==
    {GoodText,
     [GoodText EXCEPT !.well_formed = FALSE],
     [GoodText EXCEPT !.peers_given = FALSE, !.peers = <<>>],
     [GoodText EXCEPT !.node_ipv4.in_subnet = FALSE],
     [GoodText EXCEPT !.log_level_known = FALSE],
     [GoodText EXCEPT !.peers = <<Peer, [Peer EXCEPT !.pub_key = BadKey]>>],
     [GoodText EXCEPT !.peers = <<Peer, [Peer EXCEPT !.ipv4.octet = MaxOctet + 1]>>]}

KeySymmetry == Permutations(SecretKey \ {k4})
=============================================================================
