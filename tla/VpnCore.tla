------------------------------ MODULE VpnCore -------------------------------
(***************************************************************************)
(* vpn_core.rs and packet/ipv4.rs: the sans-IO core.  process() turns one  *)
(* event into a list of actions; the list is the variable `actions', which *)
(* the coordinator then carries out.  NoAction(log) entries are left out:  *)
(* they are only logged.                                                   *)
(***************************************************************************)
EXTENDS Wiring

CONSTANTS
    MAX_PACKETS_IN_QUEUE,
    MaxPacketSize     \* max_packet_size, the MTU main.rs passes

ASSUME VpnCoreAssumption ==
    /\ MAX_PACKETS_IN_QUEUE \in Nat \ {0}
    /\ MaxPacketSize \in Nat

VARIABLES
    is_connected,   \* is_connected[n][p]: peers[p].is_connected
    packet_queue,   \* packet_queue[n][p]: peers[p].packet_queue
    actions         \* actions[n]: what process() returned and is not yet done

coreVars == <<is_connected, packet_queue, actions>>

\* vpn_core.rs: Action, without NoAction and the never produced ConnectToPeer
Action ==
    [type : {"DisconnectFromPeer"}, peer : Node]
    \cup [type : {"SendPacketTo"}, peer : Node, packet : Packet]
    \cup [type : {"WriteToTun"}, packet : Packet]

CoreTypeOK ==
    /\ is_connected \in [Local -> [Node -> BOOLEAN]]
    /\ packet_queue \in [Local -> [Node -> Seq(Packet)]]
    /\ actions \in [Local -> Seq(Action)]

CoreInit ==
    /\ is_connected = [n \in Local |-> [p \in Node |-> FALSE]]
    /\ packet_queue = [n \in Local |-> [p \in Node |-> <<>>]]
    /\ actions = [n \in Local |-> <<>>]

-----------------------------------------------------------------------------
\* Header checks.  len, byte0, ... are the bytes Ipv4Packet::new reads.

is_neighbour(n, p) == p \in Peers(n)

is_neighbour_ipv4(n, a) == a \in DOMAIN RouteTable[n]

\* Ipv4Packet::new succeeds: long enough, and the version nibble is 4.
Parses(h) == h.len >= 20 /\ h.byte0 \div 16 = 4

total_length(h) == h.byte2 * 256 + h.byte3

FitsAndComplete(h) == h.len <= MaxPacketSize /\ h.len >= total_length(h)

verify_send_packet(n, h) ==
    /\ Parses(h)
    /\ FitsAndComplete(h)
    /\ h.ttl # 0
    /\ h.src_ip = Ipv4Addr[n]
    /\ is_neighbour_ipv4(n, h.dest_ip)

\* Variant with a bug: the sender is not compared with the owner of the address.
verify_recv_packet_trusting(n, h, from) ==
    /\ Parses(h)
    /\ FitsAndComplete(h)
    /\ is_neighbour_ipv4(n, h.src_ip)
    /\ h.dest_ip = Ipv4Addr[n]

verify_recv_packet(n, h, from) ==
    /\ Parses(h)
    /\ FitsAndComplete(h)
    /\ is_neighbour_ipv4(n, h.src_ip)
    /\ h.dest_ip = Ipv4Addr[n]
    /\ RouteTable[n][h.src_ip] = from

-----------------------------------------------------------------------------
\* process(): one operator per handler, with its early returns as disjuncts.

Returns(n, list) == actions' = [actions EXCEPT ![n] = list]

\* Variant with a bug: the queue is emptied from its back.
on_peer_connected_lifo(n, p) ==
    /\ is_neighbour(n, p)
    /\ is_connected' = [is_connected EXCEPT ![n][p] = TRUE]
    /\ packet_queue' = [packet_queue EXCEPT ![n][p] = <<>>]
    /\ Returns(n, [i \in 1..Len(packet_queue[n][p]) |->
                     [type |-> "SendPacketTo", peer |-> p,
                      packet |-> packet_queue[n][p][Len(packet_queue[n][p]) + 1 - i]]])

\* Variant with a bug: the queue is copied instead of drained.
on_peer_connected_clone(n, p) ==
    /\ is_neighbour(n, p)
    /\ is_connected' = [is_connected EXCEPT ![n][p] = TRUE]
    /\ Returns(n, [i \in 1..Len(packet_queue[n][p]) |->
                     [type |-> "SendPacketTo", peer |-> p,
                      packet |-> packet_queue[n][p][i]]])
    /\ UNCHANGED packet_queue

on_peer_connected(n, p) ==
    \/ /\ ~is_neighbour(n, p)
       /\ Returns(n, <<[type |-> "DisconnectFromPeer", peer |-> p]>>)
       /\ UNCHANGED <<is_connected, packet_queue>>
    \/ /\ is_neighbour(n, p)
       /\ is_connected[n][p]
       /\ UNCHANGED coreVars
    \/ /\ is_neighbour(n, p)
       /\ ~is_connected[n][p]
       /\ is_connected' = [is_connected EXCEPT ![n][p] = TRUE]
       /\ packet_queue' = [packet_queue EXCEPT ![n][p] = <<>>]
       /\ Returns(n, [i \in 1..Len(packet_queue[n][p]) |->
                        [type |-> "SendPacketTo", peer |-> p,
                         packet |-> packet_queue[n][p][i]]])

\* An unknown or an already disconnected peer is only logged.
on_peer_disconnected(n, p) ==
    /\ is_connected' = [is_connected EXCEPT ![n][p] = FALSE]
    /\ UNCHANGED <<packet_queue, actions>>

\* Variant with a bug: the limit is tested one too late.
BufferedOffByOne(queue, packet) ==
    Append(IF Len(queue) > MAX_PACKETS_IN_QUEUE THEN Tail(queue) ELSE queue, packet)

\* A full queue loses its oldest packet to the new one.
Buffered(queue, packet) ==
    Append(IF Len(queue) >= MAX_PACKETS_IN_QUEUE THEN Tail(queue) ELSE queue, packet)

send_packet(n, packet) ==
    LET p == RouteTable[n][packet.hdr.dest_ip]
    IN \/ /\ ~verify_send_packet(n, packet.hdr)
          /\ UNCHANGED coreVars
       \/ /\ verify_send_packet(n, packet.hdr)
          /\ is_connected[n][p]
          /\ Returns(n, <<[type |-> "SendPacketTo", peer |-> p, packet |-> packet]>>)
          /\ UNCHANGED <<is_connected, packet_queue>>
       \/ /\ verify_send_packet(n, packet.hdr)
          /\ ~is_connected[n][p]
          /\ packet_queue' = [packet_queue EXCEPT ![n][p] = Buffered(@, packet)]
          /\ UNCHANGED <<is_connected, actions>>

recv_packet(n, packet, from) ==
    /\ actions' = [actions EXCEPT ![n] =
                     IF verify_recv_packet(n, packet.hdr, from)
                     THEN <<[type |-> "WriteToTun", packet |-> packet]>> ELSE <<>>]
    /\ UNCHANGED <<is_connected, packet_queue>>
=============================================================================
