---------------------------- MODULE NetworkProofs ---------------------------
(***************************************************************************)
(* What the nodes promise each other, for any number of nodes, peers,      *)
(* strangers, connections, packets and faults.                             *)
(*                                                                         *)
(* Whitelist and Authentic speak of the table and of the last channel; why *)
(* they hold is a matter of every place a packet or a key passes.          *)
(* AdmitInv says of each of them what may stand there.  ViewInv ties the   *)
(* core's view to the manager's table through the events between them, and *)
(* HeldInv says that a held connection is there: together they make a mesh *)
(* at rest a linked one.  OnceInv is about one packet at a time: it is in  *)
(* one place, once, and has been read.                                     *)
(***************************************************************************)
EXTENDS MeshProofs, FiniteSetTheorems

-----------------------------------------------------------------------------
\* What may stand where.

\* The packets produced at n.
PacketOf(n) == {packet \in Packet : packet.origin = n}

\* The packets n may write to its TUN device.
Deliverable(n) ==
    {packet \in Packet : /\ packet.hdr.dest_ip = Ipv4Addr[n]
                         /\ packet.hdr.src_ip \in DOMAIN RouteTable[n]
                         /\ RouteTable[n][packet.hdr.src_ip] = packet.origin}

\* What a manager may report: status of its peers, and packets they produced.
PeerEvent(n) ==
    [type : {"ConnectedToPeer", "DisconnectedFromPeer"}, peer : Peers(n)]
    \cup {e \in [type : {"RecvPacketFrom"}, peer : Peers(n), packet : Packet] :
             e.packet.origin = e.peer}

\* What a core may ask of its manager: to send the node's own packets.
SendOwn(n) == [type : {"SendPacketTo"}, peer : Node, packet : PacketOf(n)]

WriteGood(n) == [type : {"WriteToTun"}, packet : Deliverable(n)]

\* The channels and buffers of a node.
TrafficOf(n) ==
    /\ iroh_to_coord[n] \in Seq(PeerEvent(n))
    /\ coord_to_iroh[n] \in Seq(SendOwn(n))
    /\ actions[n] \in Seq(SendOwn(n) \cup WriteGood(n))
    /\ tun_to_coord[n] \in Seq(PacketOf(n))
    /\ coord_to_tun[n] \in Seq(Deliverable(n))
    /\ \A p \in Node : packet_queue[n][p] \in Seq(PacketOf(n))

NodeTraffic == \A n \in Local : TrafficOf(n)

\* The channels of the sessions, and what is on its way between the nodes.
ConnTraffic ==
    \A n \in Local, c \in Conn :
        /\ packet_channel[c][n] \in Seq(PacketOf(n))
        /\ n \in {c.from, c.to} => datagrams[c][n] \subseteq PacketOf(remote_id(c, n))

\* The manager deals with peers only, and with every one of them all the time.
AdmissionOf(n) ==
    /\ \A p \in Node :
          /\ state_table[n][p].type # "Disconnected"
          /\ p \notin Peers(n) => state_table[n][p].type = "Unknown"
          /\ p \in Peers(n) /\ running[n] => state_table[n][p].type # "Unknown"
    /\ manager[n].at = "ready" => remote_id(manager[n].conn, n) \in Peers(n)
    /\ manager[n].at = "lost" => manager[n].peer \in Peers(n)
    /\ manager[n].at # "drop"
    /\ \A c \in Conn : session[c][n] # "none" => remote_id(c, n) \in Peers(n)

Admission == \A n \in Local : AdmissionOf(n)

AdmitInv == NodeTraffic /\ ConnTraffic /\ Admission

\* A connection somebody holds is there.
HeldIsThere ==
    \A n \in Local, c \in Conn : Held(c, n) => ends[c][n] # "none"

-----------------------------------------------------------------------------
\* Helpers.

\* A node is not its own peer.
LEMMA PeersAreNodes ==
    ASSUME NEW n \in Local
    PROVE  Peers(n) \subseteq Node /\ n \notin Peers(n)
BY WiringAssumption DEF Peers

\* The buffers and channels of the other nodes are not touched.
LEMMA TrafficElsewhere ==
    ASSUME NodeTraffic, NEW n \in Local, TrafficOf(n)',
           \A m \in Local : m # n =>
              /\ iroh_to_coord'[m] = iroh_to_coord[m] /\ coord_to_iroh'[m] = coord_to_iroh[m]
              /\ actions'[m] = actions[m] /\ packet_queue'[m] = packet_queue[m]
              /\ tun_to_coord'[m] = tun_to_coord[m] /\ coord_to_tun'[m] = coord_to_tun[m]
    PROVE  NodeTraffic'
<1> SUFFICES ASSUME NEW m \in Local
             PROVE  TrafficOf(m)'
  BY DEF NodeTraffic
<1>1. CASE m = n
  BY <1>1
<1>2. CASE m # n
  BY <1>2 DEF NodeTraffic, TrafficOf
<1> QED
  BY <1>1, <1>2

\* try_send of something the channel may hold.
LEMMA TrySendType ==
    ASSUME NEW S, NEW s \in Seq(S), NEW e \in S
    PROVE  TrySend(s, e) \in Seq(S)
BY Put DEF TrySend

\* Buffering a packet the queue may hold.
LEMMA BufferedType ==
    ASSUME NEW S, NEW q \in Seq(S), NEW packet \in S
    PROVE  Buffered(q, packet) \in Seq(S)
<1>1. CASE Len(q) >= MAX_PACKETS_IN_QUEUE
  <2>1. Len(q) \in Nat /\ Len(q) # 0
    BY <1>1, LenProperties, VpnCoreAssumption
  <2>2. Tail(q) \in Seq(S)
    BY <2>1, EmptySeq, Receive
  <2> QED
    BY <1>1, <2>2, Put DEF Buffered
<1>2. CASE ~(Len(q) >= MAX_PACKETS_IN_QUEUE)
  BY <1>2, Put DEF Buffered
<1> QED
  BY <1>1, <1>2

\* The flush of a queue of own packets sends own packets.
LEMMA FlushIsOwn ==
    ASSUME NEW n \in Local, NEW p \in Node, NEW q \in Seq(PacketOf(n))
    PROVE  [i \in 1..Len(q) |-> [type |-> "SendPacketTo", peer |-> p, packet |-> q[i]]]
              \in Seq(SendOwn(n) \cup WriteGood(n))
<1> DEFINE S == SendOwn(n) \cup WriteGood(n)
           flush == [i \in 1..Len(q) |-> [type |-> "SendPacketTo", peer |-> p, packet |-> q[i]]]
<1>1. Len(q) \in Nat
  BY LenProperties
<1>2. \A i \in 1..Len(q) : [type |-> "SendPacketTo", peer |-> p, packet |-> q[i]] \in S
  BY ElementOfSeq DEF SendOwn
<1>3. flush \in [1..Len(q) -> S]
  BY <1>2
<1> QED
  BY <1>1, <1>3, SeqDef

-----------------------------------------------------------------------------
\* The core and the coordinator.

\* process(PeerConnected) of a peer never asks for a disconnect.
LEMMA OnPeerConnectedTraffic ==
    ASSUME CoreTypeOK, NEW n \in Local, TrafficOf(n), NEW p \in Peers(n), on_peer_connected(n, p)
    PROVE  /\ actions'[n] \in Seq(SendOwn(n) \cup WriteGood(n))
           /\ \A q \in Node : packet_queue'[n][q] \in Seq(PacketOf(n))
           /\ \A m \in Local : m # n => /\ actions'[m] = actions[m]
                                       /\ packet_queue'[m] = packet_queue[m]
<1>1. p \in Node /\ is_neighbour(n, p)
  BY PeersAreNodes DEF is_neighbour
<1>2. CASE is_connected[n][p]
  BY <1>1, <1>2 DEF on_peer_connected, coreVars, TrafficOf
<1>3. CASE ~is_connected[n][p]
  <2> DEFINE q == packet_queue[n][p]
             flush == [i \in 1..Len(q) |-> [type |-> "SendPacketTo", peer |-> p, packet |-> q[i]]]
  <2>1. /\ packet_queue' = [packet_queue EXCEPT ![n][p] = <<>>]
        /\ actions' = [actions EXCEPT ![n] = flush]
    BY <1>1, <1>3 DEF on_peer_connected, Returns
  <2>2. flush \in Seq(SendOwn(n) \cup WriteGood(n))
    BY <1>1, FlushIsOwn DEF TrafficOf
  <2>3. <<>> \in Seq(PacketOf(n))
    BY EmptySeq
  <2> QED
    BY <1>1, <2>1, <2>2, <2>3 DEF CoreTypeOK, TrafficOf
<1> QED
  BY <1>2, <1>3

\* process(PacketFromTun) of an own packet.
LEMMA SendPacketTraffic ==
    ASSUME CoreTypeOK, NEW n \in Local, TrafficOf(n), NEW packet \in PacketOf(n),
           send_packet(n, packet)
    PROVE  /\ actions'[n] \in Seq(SendOwn(n) \cup WriteGood(n))
           /\ \A q \in Node : packet_queue'[n][q] \in Seq(PacketOf(n))
           /\ \A m \in Local : m # n => /\ actions'[m] = actions[m]
                                       /\ packet_queue'[m] = packet_queue[m]
<1> DEFINE p == RouteTable[n][packet.hdr.dest_ip]
<1>1. CASE ~verify_send_packet(n, packet.hdr)
  BY <1>1 DEF send_packet, coreVars, TrafficOf
<1>2. CASE verify_send_packet(n, packet.hdr) /\ is_connected[n][p]
  <2>1. p \in Node
    BY <1>2, RouteIsNode DEF verify_send_packet, is_neighbour_ipv4
  <2>2. /\ actions' = [actions EXCEPT ![n] =
                         <<[type |-> "SendPacketTo", peer |-> p, packet |-> packet]>>]
        /\ UNCHANGED packet_queue
    BY <1>2 DEF send_packet, Returns
  <2>3. <<[type |-> "SendPacketTo", peer |-> p, packet |-> packet]>>
           \in Seq(SendOwn(n) \cup WriteGood(n))
    BY <2>1 DEF SendOwn
  <2> QED
    BY <2>2, <2>3 DEF CoreTypeOK, TrafficOf
<1>3. CASE verify_send_packet(n, packet.hdr) /\ ~is_connected[n][p]
  <2>1. p \in Node
    BY <1>3, RouteIsNode DEF verify_send_packet, is_neighbour_ipv4
  <2>2. /\ packet_queue' = [packet_queue EXCEPT ![n][p] = Buffered(@, packet)]
        /\ UNCHANGED actions
    BY <1>3 DEF send_packet
  <2>3. Buffered(packet_queue[n][p], packet) \in Seq(PacketOf(n))
    BY <2>1, BufferedType DEF TrafficOf
  <2> QED
    BY <2>1, <2>2, <2>3 DEF CoreTypeOK, TrafficOf
<1> QED
  BY <1>1, <1>2, <1>3

\* process(PacketFromIroh): only a packet of the owner of its address goes to the TUN.
LEMMA RecvPacketTraffic ==
    ASSUME CoreTypeOK, NEW n \in Local, TrafficOf(n), NEW packet \in Packet,
           recv_packet(n, packet, packet.origin)
    PROVE  /\ actions'[n] \in Seq(SendOwn(n) \cup WriteGood(n))
           /\ UNCHANGED packet_queue
           /\ \A m \in Local : m # n => actions'[m] = actions[m]
<1> DEFINE list == IF verify_recv_packet(n, packet.hdr, packet.origin)
                   THEN <<[type |-> "WriteToTun", packet |-> packet]>> ELSE <<>>
<1>1. CASE verify_recv_packet(n, packet.hdr, packet.origin)
  <2>1. packet \in Deliverable(n)
    BY <1>1 DEF verify_recv_packet, is_neighbour_ipv4, Deliverable
  <2>2. <<[type |-> "WriteToTun", packet |-> packet]>> \in Seq(SendOwn(n) \cup WriteGood(n))
    BY <2>1 DEF WriteGood
  <2> QED
    BY <1>1, <2>2 DEF recv_packet, CoreTypeOK
<1>2. CASE ~verify_recv_packet(n, packet.hdr, packet.origin)
  <2>1. <<>> \in Seq(SendOwn(n) \cup WriteGood(n))
    BY EmptySeq
  <2> QED
    BY <1>2, <2>1 DEF recv_packet, CoreTypeOK
<1> QED
  BY <1>1, <1>2

\* A packet from iroh becomes a write only under its sender's address; a flush
\* moves the node's own packets.
LEMMA HandleIrohEventTraffic ==
    ASSUME CoordTypeOK, NodeTraffic, NEW n \in Local, handle_iroh_event(n)
    PROVE  NodeTraffic'
<1> DEFINE event == Head(iroh_to_coord[n])
<1>1. TrafficOf(n) /\ CoreTypeOK
  BY DEF NodeTraffic, CoordTypeOK
<1>2. event \in PeerEvent(n) /\ Tail(iroh_to_coord[n]) \in Seq(PeerEvent(n))
  BY <1>1, Receive DEF TrafficOf, handle_iroh_event, process_iroh_event
<1>3. /\ event.peer \in Peers(n) /\ event.peer \in Node
      /\ event.type = "RecvPacketFrom" =>
            event.packet \in Packet /\ event.packet.origin = event.peer
  BY <1>2, PeersAreNodes DEF PeerEvent
<1>4. /\ actions'[n] \in Seq(SendOwn(n) \cup WriteGood(n))
      /\ \A q \in Node : packet_queue'[n][q] \in Seq(PacketOf(n))
      /\ \A m \in Local : m # n => /\ actions'[m] = actions[m]
                                  /\ packet_queue'[m] = packet_queue[m]
  <2>1. CASE event.type = "ConnectedToPeer" /\ on_peer_connected(n, event.peer)
    BY <1>1, <1>3, <2>1, OnPeerConnectedTraffic
  <2>2. CASE event.type = "DisconnectedFromPeer" /\ on_peer_disconnected(n, event.peer)
    BY <1>1, <2>2 DEF on_peer_disconnected, TrafficOf
  <2>3. CASE event.type = "RecvPacketFrom" /\ recv_packet(n, event.packet, event.peer)
    <3>1. recv_packet(n, event.packet, event.packet.origin)
      BY <1>3, <2>3
    <3> QED
      BY <1>1, <1>3, <2>3, <3>1, RecvPacketTraffic DEF TrafficOf
  <2> QED
    BY <2>1, <2>2, <2>3 DEF handle_iroh_event, process_iroh_event
<1>5. /\ UNCHANGED <<coord_to_iroh, tun_to_coord, coord_to_tun>>
      /\ iroh_to_coord' = [iroh_to_coord EXCEPT ![n] = Tail(@)]
  BY DEF handle_iroh_event, process_iroh_event
<1>6. iroh_to_coord'[n] = Tail(iroh_to_coord[n])
      /\ \A m \in Local : m # n => iroh_to_coord'[m] = iroh_to_coord[m]
  BY <1>5 DEF CoordTypeOK, WiringTypeOK
<1>7. TrafficOf(n)'
  BY <1>1, <1>2, <1>4, <1>5, <1>6 DEF TrafficOf
<1> QED
  BY <1>4, <1>5, <1>6, <1>7, TrafficElsewhere

\* A packet from TUN is the node's own wherever the core puts it.
LEMMA HandlePacketFromTunTraffic ==
    ASSUME CoordTypeOK, NodeTraffic, NEW n \in Local, handle_packet_from_tun(n)
    PROVE  NodeTraffic'
<1> DEFINE packet == Head(tun_to_coord[n])
<1>1. TrafficOf(n) /\ CoreTypeOK
  BY DEF NodeTraffic, CoordTypeOK
<1>2. packet \in PacketOf(n) /\ Tail(tun_to_coord[n]) \in Seq(PacketOf(n))
  BY <1>1, Receive DEF TrafficOf, handle_packet_from_tun
<1>3. /\ actions'[n] \in Seq(SendOwn(n) \cup WriteGood(n))
      /\ \A q \in Node : packet_queue'[n][q] \in Seq(PacketOf(n))
      /\ \A m \in Local : m # n => /\ actions'[m] = actions[m]
                                  /\ packet_queue'[m] = packet_queue[m]
  BY <1>1, <1>2, SendPacketTraffic DEF handle_packet_from_tun
<1>4. /\ UNCHANGED <<iroh_to_coord, coord_to_iroh, coord_to_tun>>
      /\ tun_to_coord' = [tun_to_coord EXCEPT ![n] = Tail(@)]
  BY DEF handle_packet_from_tun
<1>5. tun_to_coord'[n] = Tail(tun_to_coord[n])
      /\ \A m \in Local : m # n => tun_to_coord'[m] = tun_to_coord[m]
  BY <1>4 DEF CoordTypeOK
<1>6. TrafficOf(n)'
  BY <1>1, <1>2, <1>3, <1>4, <1>5 DEF TrafficOf
<1> QED
  BY <1>3, <1>4, <1>5, <1>6, TrafficElsewhere

\* An action is carried out on what it holds.
LEMMA HandleActionsTraffic ==
    ASSUME CoordTypeOK, NodeTraffic, NEW n \in Local, handle_actions(n)
    PROVE  NodeTraffic'
<1> DEFINE action == Head(actions[n])
<1>1. TrafficOf(n)
  BY DEF NodeTraffic
<1>2. /\ action \in SendOwn(n) \cup WriteGood(n)
      /\ Tail(actions[n]) \in Seq(SendOwn(n) \cup WriteGood(n))
  BY <1>1, Receive DEF TrafficOf, handle_actions
<1>3. action.type # "DisconnectFromPeer"
  BY <1>2 DEF SendOwn, WriteGood
<1>4. /\ UNCHANGED <<iroh_to_coord, tun_to_coord, packet_queue>>
      /\ actions' = [actions EXCEPT ![n] = Tail(@)]
  BY DEF handle_actions
<1>5. actions'[n] = Tail(actions[n])
      /\ \A m \in Local : m # n => actions'[m] = actions[m]
  BY <1>4 DEF CoordTypeOK, CoreTypeOK
<1>6. CASE action.type = "SendPacketTo"
  <2>1. action \in SendOwn(n)
    BY <1>2, <1>6 DEF WriteGood
  <2>2. /\ coord_to_iroh' = [coord_to_iroh EXCEPT ![n] = TrySend(@, action)]
        /\ UNCHANGED coord_to_tun
    BY <1>6 DEF handle_actions
  <2>3. TrySend(coord_to_iroh[n], action) \in Seq(SendOwn(n))
    BY <1>1, <2>1, TrySendType DEF TrafficOf
  <2>4. coord_to_iroh'[n] \in Seq(SendOwn(n))
        /\ \A m \in Local : m # n => coord_to_iroh'[m] = coord_to_iroh[m]
    BY <2>2, <2>3 DEF CoordTypeOK, WiringTypeOK
  <2>5. TrafficOf(n)'
    BY <1>1, <1>2, <1>4, <1>5, <2>2, <2>4 DEF TrafficOf
  <2> QED
    BY <1>4, <1>5, <2>2, <2>4, <2>5, TrafficElsewhere
<1>7. CASE action.type = "WriteToTun"
  <2>1. action.packet \in Deliverable(n)
    BY <1>2, <1>7 DEF WriteGood, SendOwn
  <2>2. /\ coord_to_tun' = [coord_to_tun EXCEPT ![n] = TrySend(@, action.packet)]
        /\ UNCHANGED coord_to_iroh
    BY <1>7 DEF handle_actions
  <2>3. TrySend(coord_to_tun[n], action.packet) \in Seq(Deliverable(n))
    BY <1>1, <2>1, TrySendType DEF TrafficOf
  <2>4. coord_to_tun'[n] \in Seq(Deliverable(n))
        /\ \A m \in Local : m # n => coord_to_tun'[m] = coord_to_tun[m]
    BY <2>2, <2>3 DEF CoordTypeOK
  <2>5. TrafficOf(n)'
    BY <1>1, <1>2, <1>4, <1>5, <2>2, <2>4 DEF TrafficOf
  <2> QED
    BY <1>4, <1>5, <2>2, <2>4, <2>5, TrafficElsewhere
<1> QED
  BY <1>3, <1>6, <1>7 DEF handle_actions

\* The device produces the node's own packets.
LEMMA TunStepTraffic ==
    ASSUME CoordTypeOK, NodeTraffic, NEW n \in Local, TunStep(n)
    PROVE  NodeTraffic'
<1>1. TrafficOf(n)
  BY DEF NodeTraffic
<1>2. CASE TunRead(n)
  <2>1. PICK h \in Header :
          tun_to_coord' = [tun_to_coord EXCEPT ![n] =
                             TrySend(@, [hdr |-> h, origin |-> n, seq |-> reads[n] + 1])]
    BY <1>2 DEF TunRead
  <2> DEFINE packet == [hdr |-> h, origin |-> n, seq |-> reads[n] + 1]
  <2>2. reads[n] \in 0..MaxReads /\ reads[n] < MaxReads
    BY <1>2 DEF TunRead, CoordTypeOK
  <2>3. reads[n] + 1 \in 0..MaxReads
    BY <2>2, WiringAssumption
  <2>4. packet \in PacketOf(n)
    BY <2>3, WiringAssumption DEF Packet, PacketOf
  <2>5. TrySend(tun_to_coord[n], packet) \in Seq(PacketOf(n))
    BY <1>1, <2>4, TrySendType DEF TrafficOf
  <2>6. tun_to_coord' = [tun_to_coord EXCEPT ![n] = TrySend(tun_to_coord[n], packet)]
    BY <2>1
  <2> HIDE DEF packet
  <2>7. tun_to_coord'[n] \in Seq(PacketOf(n))
        /\ \A m \in Local : m # n => tun_to_coord'[m] = tun_to_coord[m]
    BY <2>5, <2>6 DEF CoordTypeOK
  <2>8. UNCHANGED <<iroh_to_coord, coord_to_iroh, packet_queue, actions, coord_to_tun>>
    BY <1>2 DEF TunRead
  <2>9. TrafficOf(n)'
    BY <1>1, <2>7, <2>8 DEF TrafficOf
  <2> QED
    BY <2>7, <2>8, <2>9, TrafficElsewhere
<1>3. CASE TunWrite(n)
  <2>1. UNCHANGED <<iroh_to_coord, coord_to_iroh, packet_queue, actions, tun_to_coord>>
        /\ coord_to_tun' = [coord_to_tun EXCEPT ![n] = Tail(@)]
    BY <1>3 DEF TunWrite
  <2>2. Tail(coord_to_tun[n]) \in Seq(Deliverable(n))
    BY <1>1, <1>3, Receive DEF TrafficOf, TunWrite
  <2>3. coord_to_tun'[n] \in Seq(Deliverable(n))
        /\ \A m \in Local : m # n => coord_to_tun'[m] = coord_to_tun[m]
    BY <2>1, <2>2 DEF CoordTypeOK
  <2>4. TrafficOf(n)'
    BY <1>1, <2>1, <2>3 DEF TrafficOf
  <2> QED
    BY <2>1, <2>3, <2>4, TrafficElsewhere
<1> QED
  BY <1>2, <1>3 DEF TunStep

-----------------------------------------------------------------------------
\* The manager.

\* A status event about a peer.
LEMMA AnnounceTraffic ==
    ASSUME WiringTypeOK, NodeTraffic, NEW n \in Local, NEW p \in Peers(n),
           NEW t \in {"ConnectedToPeer", "DisconnectedFromPeer"}, Announce(n, t, p),
           UNCHANGED <<coord_to_iroh, coordOnlyVars>>
    PROVE  NodeTraffic'
<1> DEFINE e == [type |-> t, peer |-> p]
<1>1. TrafficOf(n) /\ e \in PeerEvent(n)
  BY DEF NodeTraffic, PeerEvent
<1>2. Append(iroh_to_coord[n], e) \in Seq(PeerEvent(n))
  BY <1>1, Put DEF TrafficOf
<1>3. iroh_to_coord' = [iroh_to_coord EXCEPT ![n] = Append(iroh_to_coord[n], e)]
  BY DEF Announce
<1> HIDE DEF e
<1>4. iroh_to_coord'[n] \in Seq(PeerEvent(n))
      /\ \A m \in Local : m # n => iroh_to_coord'[m] = iroh_to_coord[m]
  BY <1>2, <1>3 DEF WiringTypeOK
<1>5. TrafficOf(n)'
  BY <1>1, <1>4 DEF TrafficOf, coordOnlyVars
<1> QED
  BY <1>4, <1>5, TrafficElsewhere DEF coordOnlyVars

\* An action of the core: it is never anything but a packet to send.
LEMMA TakeActionTraffic ==
    ASSUME WiringTypeOK, NodeTraffic, NEW n \in Local, NEW t, TakeAction(n, t),
           UNCHANGED <<iroh_to_coord, coordOnlyVars>>
    PROVE  /\ NodeTraffic'
           /\ Head(coord_to_iroh[n]) \in SendOwn(n)
           /\ t = "SendPacketTo"
<1>1. TrafficOf(n)
  BY DEF NodeTraffic
<1>2. Head(coord_to_iroh[n]) \in SendOwn(n) /\ Tail(coord_to_iroh[n]) \in Seq(SendOwn(n))
  BY <1>1, Receive DEF TrafficOf, TakeAction
<1>3. coord_to_iroh'[n] \in Seq(SendOwn(n))
      /\ \A m \in Local : m # n => coord_to_iroh'[m] = coord_to_iroh[m]
  BY <1>2 DEF TakeAction, WiringTypeOK
<1>4. TrafficOf(n)'
  BY <1>1, <1>3 DEF TrafficOf, coordOnlyVars
<1>5. t = "SendPacketTo"
  BY <1>2 DEF TakeAction, SendOwn
<1> QED
  BY <1>2, <1>3, <1>4, <1>5, TrafficElsewhere DEF coordOnlyVars

\* Nothing between the coordinator and the manager moves.
LEMMA SameNodeTraffic ==
    ASSUME NodeTraffic, UNCHANGED <<iroh_to_coord, coord_to_iroh, coordOnlyVars>>
    PROVE  NodeTraffic'
BY DEF NodeTraffic, TrafficOf, coordOnlyVars

\* No packet is under way between nodes.
LEMMA SameConnTraffic ==
    ASSUME ConnTraffic, UNCHANGED <<packet_channel, datagrams>>
    PROVE  ConnTraffic'
BY DEF ConnTraffic

\* The tables and sessions of the other nodes are not touched.
LEMMA AdmissionElsewhere ==
    ASSUME Admission, NEW n \in Local, AdmissionOf(n)',
           \A m \in Local : m # n =>
              /\ running'[m] = running[m] /\ state_table'[m] = state_table[m]
              /\ manager'[m] = manager[m]
              /\ \A c \in Conn : session'[c][m] = session[c][m]
    PROVE  Admission'
<1> SUFFICES ASSUME NEW m \in Local
             PROVE  AdmissionOf(m)'
  BY DEF Admission
<1>1. CASE m = n
  BY <1>1
<1>2. CASE m # n
  <2>1. AdmissionOf(m)
    BY DEF Admission
  <2> QED
    BY <1>2, <2>1 DEF AdmissionOf
<1> QED
  BY <1>1, <1>2

\* A session that ends lets nobody in.
LEMMA FewerSessions ==
    ASSUME Admission, UNCHANGED <<running, state_table, manager>>,
           \A c \in Conn, m \in Local : session[c][m] = "none" => session'[c][m] = "none"
    PROVE  Admission'
BY DEF Admission, AdmissionOf

\* The manager's steps touch its own table only.
LEMMA TableIsLocal ==
    ASSUME IrohTypeOK, NEW n \in Local, ManagerStep(n)
    PROVE  \A m \in Local : m # n => state_table'[m] = state_table[m]
BY DEF IrohTypeOK, ManagerStep, OutgoingConnection, IncomingConnection, NewConnection,
       Disconnected, init_ready_connection, ReconnectAfterLoss, init_new_connection,
       SendPacketTo, ConnectToPeer, DisconnectFromPeer, DropConnected

\* An abort starts no session.
LEMMA AbortStartsNone ==
    ASSUME IrohTypeOK, NEW c, NEW n \in Node, Abort(c, n)
    PROVE  \A d \in Conn, m \in Node : session[d][m] = "none" => session'[d][m] = "none"
BY DEF Abort, IrohTypeOK

\* A new connection is taken from a peer only.
LEMMA NewConnectionAdmission ==
    ASSUME IrohInv, Admission, NEW n \in Local, NEW type,
           NEW expected \in {"Connecting", "WaitingIncomingConnection"},
           NewConnection(n, type, expected)
    PROVE  AdmissionOf(n)'
<1> DEFINE c  == Head(rx_from_tasks[n]).conn
           st == state_table[n][remote_id(c, n)]
<1>1. AdmissionOf(n) /\ IrohTypeOK /\ n \in Node
  BY NodeType DEF Admission, IrohInv
<1>2. c \in Conn /\ remote_id(c, n) \in Node
  <2>1. TakeEvent(n)
    BY DEF NewConnection
  <2> QED
    BY <1>1, <2>1, TakeRemoves, ConnType
<1>3. UNCHANGED <<running, state_table>>
  BY DEF NewConnection
<1>4. \A d \in Conn : session[d][n] = "none" => session'[d][n] = "none"
  BY <1>1, AbortStartsNone DEF NewConnection
<1>5. \/ manager'[n] = manager[n]
      \/ st.type # "Unknown" /\ manager'[n] = [at |-> "ready", conn |-> c]
  <2>1. \/ UNCHANGED manager
        \/ /\ st.type \in {expected, "Connected"}
           /\ manager' = [manager EXCEPT ![n] = [at |-> "ready", conn |-> c]]
    BY DEF NewConnection
  <2>2. manager \in [Local -> Manager]
    BY <1>1 DEF IrohTypeOK
  <2>3. st.type \in {expected, "Connected"} => st.type # "Unknown"
    OBVIOUS
  <2> HIDE DEF c, st
  <2>4. \A v : manager' = [manager EXCEPT ![n] = v] => manager'[n] = v
    BY <2>2
  <2> QED
    BY <2>1, <2>3, <2>4
<1>6. st.type # "Unknown" => remote_id(c, n) \in Peers(n)
  BY <1>1, <1>2 DEF AdmissionOf
<1> QED
  BY <1>1, <1>3, <1>4, <1>5, <1>6 DEF AdmissionOf

\* A ready connection, of a peer, is entered.
LEMMA InitReadyAdmission ==
    ASSUME IrohInv, Admission, NEW n \in Local, init_ready_connection(n)
    PROVE  AdmissionOf(n)' /\ remote_id(manager[n].conn, n) \in Peers(n)
<1> DEFINE c == manager[n].conn
           p == remote_id(c, n)
<1>1. AdmissionOf(n) /\ IrohTypeOK /\ n \in Node /\ manager[n].at = "ready"
  BY NodeType DEF Admission, IrohInv, init_ready_connection
<1>2. c \in Conn /\ p \in Node /\ p \in Peers(n)
  BY <1>1, ConnType DEF AdmissionOf, IrohTypeOK, Manager
<1>3. /\ manager' = [manager EXCEPT ![n] = [at |-> "select"]]
      /\ session' = [session EXCEPT ![c][n] = "running"]
      /\ state_table' = [state_table EXCEPT ![n][p] = [type |-> "Connected", conn |-> c]]
      /\ UNCHANGED running
  BY DEF init_ready_connection
<1> HIDE DEF p, c
<1>4. manager'[n].at = "select"
  BY <1>1, <1>3 DEF IrohTypeOK
<1>5. state_table'[n][p].type = "Connected"
      /\ \A q \in Node : q # p => state_table'[n][q] = state_table[n][q]
  BY <1>1, <1>2, <1>3 DEF IrohTypeOK
<1>6. \A d \in Conn : session'[d][n] # "none" => session[d][n] # "none" \/ d = c
  BY <1>1, <1>2, <1>3 DEF IrohTypeOK
<1>7. remote_id(c, n) \in Peers(n)
  BY <1>2 DEF p
<1> QED
  BY <1>1, <1>2, <1>3, <1>4, <1>5, <1>6, <1>7 DEF AdmissionOf, c

\* A lost peer is awaited or dialled again.
LEMMA ReconnectAdmission ==
    ASSUME IrohInv, Admission, NEW n \in Local, ReconnectAfterLoss(n)
    PROVE  AdmissionOf(n)' /\ manager[n].peer \in Peers(n)
<1> DEFINE p == manager[n].peer
<1>1. AdmissionOf(n) /\ IrohTypeOK /\ manager[n].at = "lost"
  BY DEF Admission, IrohInv, ReconnectAfterLoss
<1>2. p \in Peers(n) /\ p \in Node
  BY <1>1, PeersAreNodes DEF AdmissionOf
<1>3. /\ manager' = [manager EXCEPT ![n] = [at |-> "select"]]
      /\ UNCHANGED <<running, session>>
  BY DEF ReconnectAfterLoss
<1>4. \E e \in [type : {"WaitingIncomingConnection"}]
             \cup [type : {"Connecting"}, conn : Conn] :
         state_table' = [state_table EXCEPT ![n][p] = e]
  BY DEF ReconnectAfterLoss, init_new_connection
<1>5. state_table'[n][p].type \in {"WaitingIncomingConnection", "Connecting"}
      /\ \A q \in Node : q # p => state_table'[n][q] = state_table[n][q]
  BY <1>1, <1>2, <1>4 DEF IrohTypeOK
<1>6. manager'[n].at = "select"
  BY <1>1, <1>3 DEF IrohTypeOK
<1> QED
  BY <1>1, <1>2, <1>3, <1>5, <1>6 DEF AdmissionOf

\* A lost connection was one of a peer.
LEMMA DisconnectedAdmission ==
    ASSUME IrohInv, Admission, NEW n \in Local, Disconnected(n)
    PROVE  AdmissionOf(n)'
<1> DEFINE p == remote_id(Head(rx_from_tasks[n]).conn, n)
<1>1. AdmissionOf(n) /\ IrohTypeOK /\ n \in Node
  BY NodeType DEF Admission, IrohInv
<1>2. p \in Node
  <2>1. TakeEvent(n)
    BY DEF Disconnected
  <2> QED
    BY <1>1, <2>1, TakeRemoves, ConnType
<1>3. /\ UNCHANGED <<running, state_table, session>>
      /\ manager' = [manager EXCEPT ![n] =
                       IF state_table[n][p].type = "Connected"
                       THEN [at |-> "lost", peer |-> p] ELSE @]
  BY DEF Disconnected
<1> HIDE DEF p
<1>4. \/ manager'[n] = manager[n]
      \/ state_table[n][p].type = "Connected" /\ manager'[n] = [at |-> "lost", peer |-> p]
  BY <1>1, <1>3 DEF IrohTypeOK
<1>5. state_table[n][p].type = "Connected" => p \in Peers(n)
  BY <1>1, <1>2 DEF AdmissionOf
<1> QED
  BY <1>1, <1>3, <1>4, <1>5 DEF AdmissionOf

\* A packet goes to the session of its peer.
LEMMA SendPacketToTraffic ==
    ASSUME IrohInv, NodeTraffic, ConnTraffic, NEW n \in Local, SendPacketTo(n),
           UNCHANGED coordOnlyVars
    PROVE  NodeTraffic' /\ ConnTraffic'
<1>1. TakeAction(n, "SendPacketTo") /\ UNCHANGED <<iroh_to_coord, datagrams>>
  BY DEF SendPacketTo
<1>2. NodeTraffic' /\ Head(coord_to_iroh[n]) \in SendOwn(n)
  BY <1>1, TakeActionTraffic DEF IrohInv, IrohTypeOK
<1> DEFINE packet == Head(coord_to_iroh[n]).packet
           st == state_table[n][Head(coord_to_iroh[n]).peer]
           c  == st.conn
<1>3. packet \in PacketOf(n) /\ Head(coord_to_iroh[n]).peer \in Node /\ n \in Node
  BY <1>2, NodeType DEF SendOwn
<1>4. \/ UNCHANGED packet_channel
      \/ /\ st.type = "Connected"
         /\ packet_channel' = [packet_channel EXCEPT ![c][n] = Append(@, packet)]
  BY DEF SendPacketTo
<1>5. CASE UNCHANGED packet_channel
  BY <1>1, <1>2, <1>5, SameConnTraffic
<1>6. CASE /\ st.type = "Connected"
           /\ packet_channel' = [packet_channel EXCEPT ![c][n] = Append(@, packet)]
  <2>1. c \in Conn
    BY <1>3, <1>6, EntryShape DEF IrohInv
  <2>2. Append(packet_channel[c][n], packet) \in Seq(PacketOf(n))
    BY <1>3, <2>1, Put DEF ConnTraffic
  <2> HIDE DEF c, packet, st
  <2>3. ASSUME NEW m \in Local, NEW d \in Conn
        PROVE  packet_channel'[d][m] \in Seq(PacketOf(m))
    <3>1. packet_channel[d][m] \in Seq(PacketOf(m)) /\ m \in Node
      BY NodeType DEF ConnTraffic
    <3>2. packet_channel'[d][m] = IF d = c /\ m = n THEN Append(packet_channel[c][n], packet)
                                  ELSE packet_channel[d][m]
      BY <1>6, <1>3, <2>1, <3>1 DEF IrohInv, IrohTypeOK
    <3> QED
      BY <2>2, <3>1, <3>2
  <2> QED
    BY <1>1, <1>2, <2>3 DEF ConnTraffic
<1> QED
  BY <1>4, <1>5, <1>6

\* No handler of a manager makes an entry or a session for a stranger.
LEMMA ManagerAdmit ==
    ASSUME IrohInv, AdmitInv, NEW n \in Local, ManagerStep(n), UNCHANGED coordOnlyVars
    PROVE  AdmitInv'
<1> USE DEF AdmitInv
<1>1. WiringTypeOK /\ IrohTypeOK /\ NodeTraffic /\ ConnTraffic /\ AdmissionOf(n)
  BY DEF IrohInv, IrohTypeOK, Admission
<1>2. ASSUME AdmissionOf(n)'
      PROVE  Admission'
  <2>1. \A m \in Local : m # n => state_table'[m] = state_table[m]
    BY <1>1, TableIsLocal
  <2>2. ManagerIsLocalStep(n)
    BY ManagerIsLocal
  <2>3. \A m \in Local : m # n =>
              /\ running'[m] = running[m] /\ state_table'[m] = state_table[m]
              /\ manager'[m] = manager[m]
              /\ \A c \in Conn : session'[c][m] = session[c][m]
    BY <2>1, <2>2 DEF ManagerIsLocalStep
  <2> QED
    BY <1>2, <2>3, AdmissionElsewhere
<1>3. ASSUME NEW type, NEW expected \in {"Connecting", "WaitingIncomingConnection"},
             NewConnection(n, type, expected)
      PROVE  AdmitInv'
  <2>1. UNCHANGED <<iroh_to_coord, coord_to_iroh, packet_channel, datagrams>>
    BY <1>3 DEF NewConnection
  <2> QED
    BY <1>2, <1>3, <2>1, NewConnectionAdmission, SameNodeTraffic, SameConnTraffic
<1>4. CASE Disconnected(n)
  <2>1. UNCHANGED <<iroh_to_coord, coord_to_iroh, packet_channel, datagrams>>
    BY <1>4 DEF Disconnected
  <2> QED
    BY <1>2, <1>4, <2>1, DisconnectedAdmission, SameNodeTraffic, SameConnTraffic
<1>5. CASE init_ready_connection(n)
  <2>1. UNCHANGED <<coord_to_iroh, packet_channel, datagrams>>
        /\ Announce(n, "ConnectedToPeer", remote_id(manager[n].conn, n))
    BY <1>5 DEF init_ready_connection
  <2> QED
    BY <1>1, <1>2, <1>5, <2>1, InitReadyAdmission, AnnounceTraffic, SameConnTraffic
<1>6. CASE ReconnectAfterLoss(n)
  <2>1. UNCHANGED <<coord_to_iroh, packet_channel, datagrams>>
        /\ Announce(n, "DisconnectedFromPeer", manager[n].peer)
    BY <1>6 DEF ReconnectAfterLoss
  <2> QED
    BY <1>1, <1>2, <1>6, <2>1, ReconnectAdmission, AnnounceTraffic, SameConnTraffic
<1>7. CASE SendPacketTo(n)
  <2>1. UNCHANGED <<running, state_table, manager, session>>
    BY <1>7 DEF SendPacketTo
  <2>2. Admission'
    BY <2>1, FewerSessions
  <2> QED
    BY <1>7, <2>2, SendPacketToTraffic
<1>8. CASE ConnectToPeer(n) \/ DisconnectFromPeer(n)
  <2>1. PICK t \in {"ConnectToPeer", "DisconnectFromPeer"} :
           TakeAction(n, t) /\ UNCHANGED iroh_to_coord
    BY <1>8 DEF ConnectToPeer, DisconnectFromPeer
  <2> QED
    BY <1>1, <2>1, TakeActionTraffic
<1>9. CASE DropConnected(n)
  BY <1>1, <1>9 DEF DropConnected, AdmissionOf
<1> QED
  BY <1>3, <1>4, <1>5, <1>6, <1>7, <1>8, <1>9
  DEF ManagerStep, OutgoingConnection, IncomingConnection

\* A process starts with an entry for every peer and for nobody else.
LEMMA StartAdmit ==
    ASSUME MeshInv, AdmitInv, NEW n \in Local, Start(n), UNCHANGED coordOnlyVars
    PROVE  AdmitInv'
<1>1. UNCHANGED <<iroh_to_coord, coord_to_iroh, manager, session, packet_channel, datagrams>>
      /\ ~running[n]
  BY DEF Start
<1>2. IrohTypeOK /\ AdmissionOf(n) /\ DownIsEmpty
  BY DEF MeshInv, IrohInv, AdmitInv, Admission
<1>3. \A m \in Local : m # n => running'[m] = running[m] /\ state_table'[m] = state_table[m]
  BY <1>2 DEF Start, IrohTypeOK, WiringTypeOK
<1>4. \A p \in Node :
         /\ state_table'[n][p].type # "Disconnected"
         /\ p \notin Peers(n) => state_table'[n][p].type = "Unknown"
         /\ p \in Peers(n) => state_table'[n][p].type # "Unknown"
  BY <1>2 DEF Start, IrohTypeOK
<1>5. AdmissionOf(n)'
  BY <1>1, <1>2, <1>4 DEF AdmissionOf
<1>6. Admission'
  BY <1>1, <1>3, <1>5, AdmissionElsewhere DEF AdmitInv
<1> QED
  BY <1>1, <1>6, SameNodeTraffic, SameConnTraffic DEF AdmitInv

\* Of a process that ends nothing is left.
LEMMA CrashAdmit ==
    ASSUME MeshInv, AdmitInv, NEW n \in Local, Crash(n)
    PROVE  AdmitInv'
<1>1. IrohTypeOK /\ CoordTypeOK /\ n \in Node
  BY NodeType DEF MeshInv, IrohInv, CoordInv
<1>2. <<>> \in Seq(PeerEvent(n)) /\ <<>> \in Seq(SendOwn(n)) /\ <<>> \in Seq(PacketOf(n))
      /\ <<>> \in Seq(SendOwn(n) \cup WriteGood(n)) /\ <<>> \in Seq(Deliverable(n))
  BY EmptySeq
<1>3. /\ iroh_to_coord'[n] = <<>> /\ coord_to_iroh'[n] = <<>> /\ actions'[n] = <<>>
      /\ tun_to_coord'[n] = <<>> /\ coord_to_tun'[n] = <<>>
      /\ packet_queue'[n] = [p \in Node |-> <<>>]
  BY <1>1 DEF Crash, CoordReset, CoordTypeOK, CoreTypeOK, WiringTypeOK
<1>4. \A m \in Local : m # n =>
         /\ iroh_to_coord'[m] = iroh_to_coord[m] /\ coord_to_iroh'[m] = coord_to_iroh[m]
         /\ actions'[m] = actions[m] /\ packet_queue'[m] = packet_queue[m]
         /\ tun_to_coord'[m] = tun_to_coord[m] /\ coord_to_tun'[m] = coord_to_tun[m]
  BY <1>1 DEF Crash, CoordReset, CoordTypeOK, CoreTypeOK, WiringTypeOK
<1>5. TrafficOf(n)'
  BY <1>2, <1>3 DEF TrafficOf
<1>6. NodeTraffic'
  BY <1>4, <1>5, TrafficElsewhere DEF AdmitInv
<1>7. \A d \in Conn, m \in Node :
         /\ packet_channel'[d][m] = IF m = n THEN <<>> ELSE packet_channel[d][m]
         /\ datagrams'[d][m] = IF m = n THEN {} ELSE datagrams[d][m]
         /\ session'[d][m] = IF m = n THEN "none" ELSE session[d][m]
  BY <1>1 DEF Crash, IrohReset, IrohTypeOK
<1>8. ConnTraffic'
  <2> SUFFICES ASSUME NEW m \in Local, NEW d \in Conn
               PROVE  /\ packet_channel'[d][m] \in Seq(PacketOf(m))
                      /\ m \in {d.from, d.to} =>
                            datagrams'[d][m] \subseteq PacketOf(remote_id(d, m))
    BY DEF ConnTraffic, PacketOf, remote_id
  <2>1. m \in Node
    BY NodeType
  <2>2. CASE m = n
    BY <1>2, <1>7, <2>1, <2>2
  <2>3. CASE m # n
    BY <1>7, <2>1, <2>3 DEF AdmitInv, ConnTraffic
  <2> QED
    BY <2>2, <2>3
<1>9. /\ manager'[n].at = "select" /\ ~running'[n]
      /\ \A p \in Node : state_table'[n][p].type = "Unknown"
      /\ \A m \in Local : m # n => /\ running'[m] = running[m] /\ manager'[m] = manager[m]
                                  /\ state_table'[m] = state_table[m]
  BY <1>1 DEF Crash, IrohReset, IrohTypeOK, WiringTypeOK
<1>10. AdmissionOf(n)'
  BY <1>1, <1>7, <1>9 DEF AdmissionOf
<1>11. Admission'
  BY <1>7, <1>9, <1>10, NodeType, AdmissionElsewhere DEF AdmitInv
<1> QED
  BY <1>6, <1>8, <1>11 DEF AdmitInv

-----------------------------------------------------------------------------
\* The tasks and the network.

\* No task of a connection starts a session or writes to a table.
LEMMA TaskAdmission ==
    ASSUME IrohTypeOK, Admission, NEW c \in Conn, TaskStep(c)
    PROVE  Admission'
<1>1. UNCHANGED <<running, state_table, manager>>
  BY DEF TaskStep, ConnectOk, ConnectErr, ConnectRetry, ConnectDone,
         ConnectCancelled, AcceptOk, AcceptErr, SessionRead, SessionSend, SessionErr,
         SessionChannelClosed, SessionCancelled, SessionEnds, ConnectionLost, HandlesDropped,
         ForeignSend, ForeignConnect, connOnlyVars, managerVars
<1>2. UNCHANGED session \/ \E n \in Local : session' = [session EXCEPT ![c][n] = "none"]
  BY DEF TaskStep, ConnectOk, ConnectErr, ConnectRetry, ConnectDone,
         ConnectCancelled, AcceptOk, AcceptErr, SessionRead, SessionSend, SessionErr,
         SessionChannelClosed, SessionCancelled, SessionEnds, ConnectionLost, HandlesDropped,
         ForeignSend, ForeignConnect, connOnlyVars
<1>3. \A d \in Conn, m \in Local : session[d][m] = "none" => session'[d][m] = "none"
  <2>1. ASSUME NEW n \in Local, session' = [session EXCEPT ![c][n] = "none"],
               NEW d \in Conn, NEW m \in Local, session[d][m] = "none"
        PROVE  session'[d][m] = "none"
    <3>1. n \in Node /\ m \in Node /\ session \in [Conn -> [Node -> {"none", "running", "aborted"}]]
      BY NodeType DEF IrohTypeOK
    <3> QED
      BY <2>1, <3>1
  <2> QED
    BY <1>2, <2>1
<1> QED
  BY <1>1, <1>3, FewerSessions

\* A session reports a datagram with the key of the connection's other end.
LEMMA SessionReadTraffic ==
    ASSUME IrohTypeOK, AdmitInv, NEW c \in Conn, NEW n \in Local, n \in {c.from, c.to},
           SessionRead(c, n), UNCHANGED coordOnlyVars
    PROVE  NodeTraffic' /\ ConnTraffic'
<1> DEFINE p == remote_id(c, n)
<1>1. PICK packet \in datagrams[c][n] :
         /\ datagrams' = [datagrams EXCEPT ![c][n] = @ \ {packet}]
         /\ iroh_to_coord' = [iroh_to_coord EXCEPT ![n] =
               TrySend(@, [type |-> "RecvPacketFrom", peer |-> p, packet |-> packet])]
  BY DEF SessionRead
<1> DEFINE e == [type |-> "RecvPacketFrom", peer |-> p, packet |-> packet]
<1>2. p \in Peers(n)
  BY DEF SessionRead, AdmitInv, Admission, AdmissionOf
<1>3. packet \in Packet /\ packet.origin = p
  BY <1>1 DEF AdmitInv, ConnTraffic, PacketOf
<1>4. e \in PeerEvent(n)
  BY <1>2, <1>3 DEF PeerEvent
<1>5. TrafficOf(n)
  BY DEF AdmitInv, NodeTraffic
<1>6. TrySend(iroh_to_coord[n], e) \in Seq(PeerEvent(n))
  BY <1>4, <1>5, TrySendType DEF TrafficOf
<1>7. UNCHANGED <<coord_to_iroh, packet_channel>>
  BY DEF SessionRead
<1>8. iroh_to_coord' = [iroh_to_coord EXCEPT ![n] = TrySend(iroh_to_coord[n], e)]
  BY <1>1
<1> HIDE DEF e, p
<1>9. iroh_to_coord'[n] \in Seq(PeerEvent(n))
      /\ \A m \in Local : m # n => iroh_to_coord'[m] = iroh_to_coord[m]
  BY <1>6, <1>8 DEF IrohTypeOK, WiringTypeOK
<1>10. TrafficOf(n)'
  BY <1>5, <1>7, <1>9 DEF TrafficOf, coordOnlyVars
<1>11. NodeTraffic'
  BY <1>7, <1>9, <1>10, TrafficElsewhere DEF AdmitInv, coordOnlyVars
<1>12. \A d \in Conn, m \in Node : datagrams'[d][m] \subseteq datagrams[d][m]
  BY <1>1 DEF IrohTypeOK
<1>13. ConnTraffic'
  BY <1>7, <1>12, NodeType DEF AdmitInv, ConnTraffic
<1> QED
  BY <1>11, <1>13

\* What a node sends is its own.
LEMMA SessionSendTraffic ==
    ASSUME IrohTypeOK, ConnTraffic, NEW c \in Conn, NEW n \in Local, n \in {c.from, c.to},
           SessionSend(c, n)
    PROVE  ConnTraffic'
<1> DEFINE packet == Head(packet_channel[c][n])
           p == remote_id(c, n)
<1>1. /\ packet_channel' = [packet_channel EXCEPT ![c][n] = Tail(@)]
      /\ \/ datagrams' = [datagrams EXCEPT ![c][p] = @ \cup {packet}]
         \/ UNCHANGED datagrams
  BY DEF SessionSend
<1>2. packet \in PacketOf(n) /\ Tail(packet_channel[c][n]) \in Seq(PacketOf(n))
  BY Receive DEF SessionSend, ConnTraffic
<1>3. p \in Node /\ p \in {c.from, c.to} /\ n # p /\ remote_id(c, p) = n /\ n \in Node
  BY ConnType, NodeType DEF remote_id
<1> HIDE DEF packet, p
<1>4. \A m \in Local, d \in Conn :
         packet_channel'[d][m] = IF d = c /\ m = n THEN Tail(packet_channel[c][n])
                                 ELSE packet_channel[d][m]
  BY <1>1, <1>3, NodeType DEF IrohTypeOK
<1>5. \A m \in Node, d \in Conn :
         \/ datagrams'[d][m] = datagrams[d][m]
         \/ d = c /\ m = p /\ datagrams'[d][m] = datagrams[d][m] \cup {packet}
  BY <1>1, <1>3 DEF IrohTypeOK
<1>6. \A m \in Local, d \in Conn :
         m \in {d.from, d.to} => datagrams'[d][m] \subseteq PacketOf(remote_id(d, m))
  BY <1>2, <1>3, <1>5, NodeType DEF ConnTraffic
<1> QED
  BY <1>2, <1>4, <1>6 DEF ConnTraffic

\* A foreign node sends under its own key.
LEMMA ForeignSendTraffic ==
    ASSUME IrohTypeOK, ConnTraffic, NEW c \in Conn, NEW n \in Node, n \in {c.from, c.to},
           ForeignSend(c, n)
    PROVE  ConnTraffic'
<1> DEFINE p == remote_id(c, n)
<1>1. PICK h \in Header :
         datagrams' = [datagrams EXCEPT ![c][p] = @ \cup {[hdr |-> h, origin |-> n, seq |-> 0]}]
  BY DEF ForeignSend
<1> DEFINE packet == [hdr |-> h, origin |-> n, seq |-> 0]
<1>2. packet \in PacketOf(n)
  BY WiringAssumption DEF PacketOf, Packet
<1>3. p \in Node /\ n # p /\ remote_id(c, p) = n
  BY ConnType DEF remote_id
<1>4. datagrams' = [datagrams EXCEPT ![c][p] = @ \cup {packet}] /\ UNCHANGED packet_channel
  BY <1>1 DEF ForeignSend, connOnlyVars
<1> HIDE DEF packet, p
<1>5. \A m \in Node, d \in Conn :
         \/ datagrams'[d][m] = datagrams[d][m]
         \/ d = c /\ m = p /\ datagrams'[d][m] = datagrams[d][m] \cup {packet}
  BY <1>3, <1>4 DEF IrohTypeOK
<1>6. \A m \in Local, d \in Conn :
         m \in {d.from, d.to} => datagrams'[d][m] \subseteq PacketOf(remote_id(d, m))
  BY <1>2, <1>3, <1>5, NodeType DEF ConnTraffic
<1> QED
  BY <1>4, <1>6 DEF ConnTraffic

\* The end of a session and of a connection only lose packets.
LEMMA LosingTraffic ==
    ASSUME IrohTypeOK, ConnTraffic, NEW c \in Conn, NEW n \in Node,
           \/ SessionEnds(c, n)
           \/ HandlesDropped(c, n)
    PROVE  ConnTraffic'
<1>1. <<>> \in Seq(PacketOf(n))
  BY EmptySeq
<1>2. CASE SessionEnds(c, n)
  <2>1. /\ packet_channel' = [packet_channel EXCEPT ![c][n] = <<>>]
        /\ UNCHANGED datagrams
    BY <1>2 DEF SessionEnds
  <2>2. \A m \in Local, d \in Conn :
           packet_channel'[d][m] = IF d = c /\ m = n THEN <<>> ELSE packet_channel[d][m]
    BY <2>1, NodeType DEF IrohTypeOK
  <2> QED
    BY <1>1, <2>1, <2>2 DEF ConnTraffic
<1>3. CASE HandlesDropped(c, n)
  <2>1. /\ datagrams' = [datagrams EXCEPT ![c][n] = {}]
        /\ UNCHANGED packet_channel
    BY <1>3 DEF HandlesDropped, connOnlyVars
  <2>2. \A m \in Local, d \in Conn : datagrams'[d][m] \subseteq datagrams[d][m]
    BY <2>1, NodeType DEF IrohTypeOK
  <2> QED
    BY <2>1, <2>2 DEF ConnTraffic
<1> QED
  BY <1>2, <1>3

\* A task passes packets on unchanged, and a stranger's connection gets no
\* session.
LEMMA NetworkAdmit ==
    ASSUME IrohTypeOK, AdmitInv, NEW c \in Conn, Network(c)
    PROVE  AdmitInv'
<1>1. TaskStep(c) /\ UNCHANGED coordOnlyVars
  BY DEF Network
<1>2. Admission'
  BY <1>1, TaskAdmission DEF AdmitInv
<1>3. ASSUME NEW n \in Local, n \in {c.from, c.to}, SessionRead(c, n)
      PROVE  AdmitInv'
  BY <1>1, <1>2, <1>3, SessionReadTraffic DEF AdmitInv
<1>4. \/ \E n \in Local : n \in {c.from, c.to} /\ SessionRead(c, n)
      \/ UNCHANGED <<iroh_to_coord, coord_to_iroh>>
  BY <1>1 DEF TaskStep, ConnectOk, ConnectErr, ConnectRetry, ConnectDone,
         ConnectCancelled, AcceptOk, AcceptErr, SessionSend, SessionErr,
         SessionChannelClosed, SessionCancelled, SessionEnds, ConnectionLost, HandlesDropped,
         ForeignSend, ForeignConnect, connOnlyVars, managerVars
<1>5. ASSUME UNCHANGED <<iroh_to_coord, coord_to_iroh>>
      PROVE  NodeTraffic'
  BY <1>1, <1>5, SameNodeTraffic DEF AdmitInv
<1>6. \/ UNCHANGED <<packet_channel, datagrams>>
      \/ \E n \in {c.from, c.to} :
            \/ n \in Local /\ SessionRead(c, n)
            \/ n \in Local /\ SessionSend(c, n)
            \/ SessionEnds(c, n) \/ HandlesDropped(c, n)
            \/ ForeignSend(c, n)
  BY <1>1 DEF TaskStep, ConnectOk, ConnectErr, ConnectRetry, ConnectDone,
         ConnectCancelled, AcceptOk, AcceptErr, SessionErr,
         SessionChannelClosed, SessionCancelled, ConnectionLost,
         ForeignConnect, connOnlyVars
<1>7. c.from \in Node /\ c.to \in Node
  BY ConnType
<1>8. ConnTraffic'
  <2>1. CASE UNCHANGED <<packet_channel, datagrams>>
    BY <2>1, SameConnTraffic DEF AdmitInv
  <2>2. ASSUME NEW n \in {c.from, c.to}, n \in Local, SessionRead(c, n)
        PROVE  ConnTraffic'
    BY <1>1, <2>2, SessionReadTraffic
  <2>3. ASSUME NEW n \in {c.from, c.to}, n \in Local, SessionSend(c, n)
        PROVE  ConnTraffic'
    BY <2>3, SessionSendTraffic DEF AdmitInv
  <2>4. ASSUME NEW n \in {c.from, c.to},
               SessionEnds(c, n) \/ HandlesDropped(c, n) \/ ForeignSend(c, n)
        PROVE  ConnTraffic'
    BY <1>7, <2>4, LosingTraffic, ForeignSendTraffic DEF AdmitInv
  <2> QED
    BY <1>6, <2>1, <2>2, <2>3, <2>4
<1> QED
  BY <1>2, <1>3, <1>4, <1>5, <1>8 DEF AdmitInv

-----------------------------------------------------------------------------
\* The whitelist and the origin of packets.

\* At the start there is no traffic.
LEMMA AdmitStart == MeshInit => AdmitInv
<1> SUFFICES ASSUME MeshInit
             PROVE  AdmitInv
  OBVIOUS
<1>1. \A S : <<>> \in Seq(S)
  BY EmptySeq
<1>2. NodeTraffic
  BY <1>1, NodeType DEF MeshInit, CoordInit, WiringInit, CoreInit, NodeTraffic, TrafficOf
<1>3. ConnTraffic
  BY <1>1, NodeType DEF MeshInit, IrohInit, ConnTraffic
<1>4. Admission
  BY NodeType DEF MeshInit, IrohInit, WiringInit, Admission, AdmissionOf
<1> QED
  BY <1>2, <1>3, <1>4 DEF AdmitInv

\* Every step of the mesh keeps what may stand where.
LEMMA AdmitStep ==
    ASSUME MeshInv, AdmitInv, [MeshNext]_meshVars
    PROVE  AdmitInv'
<1>1. IrohInv /\ IrohTypeOK /\ CoordTypeOK /\ NodeTraffic /\ ConnTraffic /\ Admission
  BY DEF MeshInv, IrohInv, CoordInv, AdmitInv
<1>2. CASE UNCHANGED meshVars
  BY <1>1, <1>2, SameNodeTraffic, SameConnTraffic, FewerSessions
  DEF meshVars, coordOnlyVars, AdmitInv
<1>3. ASSUME NEW n \in Local, NodeCoord(n)
      PROVE  AdmitInv'
  <2>1. UNCHANGED <<packet_channel, datagrams, state_table, manager, session>>
    BY <1>3 DEF NodeCoord, irohOnlyVars
  <2>2. UNCHANGED running
    BY <1>3 DEF NodeCoord, CoordStep, TunStep, handle_iroh_event, process_iroh_event,
                handle_packet_from_tun,
                handle_actions, TunRead, TunWrite
  <2>3. NodeTraffic'
    BY <1>1, <1>3, HandleIrohEventTraffic, HandlePacketFromTunTraffic, HandleActionsTraffic,
       TunStepTraffic DEF NodeCoord, CoordStep
  <2> QED
    BY <1>1, <2>1, <2>2, <2>3, SameConnTraffic, FewerSessions DEF AdmitInv
<1>4. ASSUME NEW n \in Local, NodeIroh(n)
      PROVE  AdmitInv'
  BY <1>1, <1>4, ManagerAdmit, StartAdmit DEF NodeIroh
<1> QED
  BY <1>1, <1>2, <1>3, <1>4, CrashAdmit, NetworkAdmit DEF MeshNext

\* In the mesh every packet and every key is where it may be, always.
LEMMA AdmitInvariant ==
    ASSUME OpenEnvironments
    PROVE  MeshSpec => []AdmitInv
<1>1. MeshInv /\ AdmitInv /\ [MeshNext]_meshVars => AdmitInv'
  BY AdmitStep
<1> QED
  BY <1>1, AdmitStart, MeshInvariant, PTL DEF MeshSpec

\* A key that is not in the configuration gets no entry in the manager's table, no
\* session and no event to the coordinator, however many strangers connect.
THEOREM StrangersStayOut ==
    ASSUME OpenEnvironments
    PROVE  MeshSpec => []Whitelist
<1>1. AdmitInv => Whitelist
  <2> SUFFICES ASSUME AdmitInv, NEW n \in Local, NEW p \in Node \ Peers(n)
               PROVE  /\ state_table[n][p].type = "Unknown"
                      /\ \A i \in DOMAIN iroh_to_coord[n] : iroh_to_coord[n][i].peer # p
                      /\ \A c \in Conn : n \in {c.from, c.to} /\ remote_id(c, n) = p
                                            => session[c][n] = "none"
    BY DEF Whitelist
  <2>1. AdmissionOf(n) /\ TrafficOf(n)
    BY DEF AdmitInv, Admission, NodeTraffic
  <2>2. \A i \in DOMAIN iroh_to_coord[n] : iroh_to_coord[n][i] \in PeerEvent(n)
    BY <2>1, ElementOfSeq, LenProperties DEF TrafficOf
  <2>3. \A e \in PeerEvent(n) : e.peer # p
    BY DEF PeerEvent
  <2> QED
    BY <2>1, <2>2, <2>3 DEF AdmissionOf
<1> QED
  BY <1>1, AdmitInvariant, PTL

\* A packet that reaches the TUN device of n was produced by the node that n's
\* routing table names as the owner of its source address: verify_recv_packet
\* compares with the key of the connection, which its other end cannot choose.
THEOREM SourcesAreAuthentic ==
    ASSUME OpenEnvironments
    PROVE  MeshSpec => []Authentic
<1>1. AdmitInv => Authentic
  <2> SUFFICES ASSUME AdmitInv, NEW n \in Local, NEW i \in DOMAIN coord_to_tun[n]
               PROVE  coord_to_tun[n][i] \in Deliverable(n)
    BY DEF Authentic, Deliverable
  <2>1. coord_to_tun[n] \in Seq(Deliverable(n))
    BY DEF AdmitInv, NodeTraffic, TrafficOf
  <2> QED
    BY <2>1, ElementOfSeq, LenProperties
<1> QED
  BY <1>1, AdmitInvariant, PTL

-----------------------------------------------------------------------------
\* The core's view of a peer.

\* ViewAgreement without the greatest element: a channel s with news of p for a
\* core that believes b, whose manager has p in Connected iff k.
View(s, p, b, k) ==
    /\ (\A i \in DOMAIN s : ~IsNews(s[i], p)) => (b <=> k)
    /\ \A i \in DOMAIN s :
          (IsNews(s[i], p) /\ \A j \in DOMAIN s : i < j => ~IsNews(s[j], p))
             => (s[i].type = "ConnectedToPeer" <=> k)

\* Any news becomes the last news.
LEMMA ViewAfterNews ==
    ASSUME NEW S, NEW s \in Seq(S), NEW e \in S, NEW p, IsNews(e, p), NEW b \in BOOLEAN,
           NEW k \in BOOLEAN, k <=> e.type = "ConnectedToPeer"
    PROVE  View(Append(s, e), p, b, k)
<1>1. /\ Len(s) \in Nat /\ DOMAIN Append(s, e) = 1..(Len(s) + 1)
      /\ Append(s, e)[Len(s) + 1] = e
  BY AppendProperties, LenProperties
<1>2. Len(s) + 1 \in 1..(Len(s) + 1) /\ \A i \in 1..(Len(s) + 1) : i = Len(s) + 1 \/ i < Len(s) + 1
  BY <1>1
<1> QED
  BY <1>1, <1>2 DEF View

\* What is no news of p changes nothing, whether it comes or goes.
LEMMA ViewAfterOther ==
    ASSUME NEW S, NEW s \in Seq(S), NEW e \in S, NEW p, ~IsNews(e, p), NEW b \in BOOLEAN,
           NEW k \in BOOLEAN, View(s, p, b, k)
    PROVE  View(Append(s, e), p, b, k)
<1>1. /\ Len(s) \in Nat /\ DOMAIN s = 1..Len(s) /\ DOMAIN Append(s, e) = 1..(Len(s) + 1)
      /\ Append(s, e)[Len(s) + 1] = e
      /\ \A i \in 1..Len(s) : Append(s, e)[i] = s[i]
  BY AppendProperties, LenProperties
<1>2. \A i \in 1..(Len(s) + 1) : i \in 1..Len(s) \/ i = Len(s) + 1
  BY <1>1
<1>3. \A i \in 1..Len(s) : i \in 1..(Len(s) + 1)
  BY <1>1
<1> QED
  BY <1>1, <1>2, <1>3 DEF View

\* Taking an event that is no news of p changes nothing for p.
LEMMA ViewReadsOther ==
    ASSUME NEW S, NEW s \in Seq(S), s # <<>>, NEW p, ~IsNews(Head(s), p), NEW b \in BOOLEAN,
           NEW k \in BOOLEAN, View(s, p, b, k)
    PROVE  View(Tail(s), p, b, k)
<1>1. /\ Len(s) \in Nat \ {0} /\ DOMAIN s = 1..Len(s)
      /\ DOMAIN Tail(s) = 1..(Len(s) - 1)
      /\ \A i \in 1..(Len(s) - 1) : Tail(s)[i] = s[i + 1]
      /\ Head(s) = s[1]
  BY HeadTailProperties, LenProperties, EmptySeq
<1>2. \A i \in 1..(Len(s) - 1) : i + 1 \in 1..Len(s)
  BY <1>1
<1>3. \A i \in 1..Len(s) : i = 1 \/ (i - 1 \in 1..(Len(s) - 1) /\ s[i] = Tail(s)[i - 1])
  BY <1>1
<1>4. (\A i \in DOMAIN Tail(s) : ~IsNews(Tail(s)[i], p)) => (b <=> k)
  BY <1>1, <1>3 DEF View
<1>5. ASSUME NEW i \in DOMAIN Tail(s), IsNews(Tail(s)[i], p),
             \A j \in DOMAIN Tail(s) : i < j => ~IsNews(Tail(s)[j], p)
      PROVE  Tail(s)[i].type = "ConnectedToPeer" <=> k
  <2>1. i + 1 \in DOMAIN s /\ s[i + 1] = Tail(s)[i]
    BY <1>1, <1>2
  <2>2. ASSUME NEW j \in DOMAIN s, i + 1 < j
        PROVE  ~IsNews(s[j], p)
    <3>1. i \in Nat /\ j \in Nat /\ j # 1 /\ j \in 1..Len(s) /\ i < j - 1
      BY <1>1, <2>2
    <3>2. j - 1 \in DOMAIN Tail(s) /\ s[j] = Tail(s)[j - 1]
      BY <1>1, <1>3, <3>1
    <3> QED
      BY <1>5, <3>1, <3>2
  <2> QED
    BY <1>5, <2>1, <2>2 DEF View
<1> QED
  BY <1>4, <1>5 DEF View

\* Reading news of p makes it what the core believes.
LEMMA ViewReadsNews ==
    ASSUME NEW S, NEW s \in Seq(S), s # <<>>, NEW p, IsNews(Head(s), p), NEW b \in BOOLEAN,
           NEW k \in BOOLEAN, View(s, p, b, k), NEW b1 \in BOOLEAN,
           b1 <=> Head(s).type = "ConnectedToPeer"
    PROVE  View(Tail(s), p, b1, k)
<1>1. /\ Len(s) \in Nat \ {0} /\ DOMAIN s = 1..Len(s)
      /\ DOMAIN Tail(s) = 1..(Len(s) - 1)
      /\ \A i \in 1..(Len(s) - 1) : Tail(s)[i] = s[i + 1]
      /\ Head(s) = s[1]
  BY HeadTailProperties, LenProperties, EmptySeq
<1>2. \A i \in 1..(Len(s) - 1) : i + 1 \in 1..Len(s)
  BY <1>1
<1>3. \A i \in 1..Len(s) : i = 1 \/ (i - 1 \in 1..(Len(s) - 1) /\ s[i] = Tail(s)[i - 1])
  BY <1>1
<1>4. ASSUME \A i \in DOMAIN Tail(s) : ~IsNews(Tail(s)[i], p)
      PROVE  b1 <=> k
  <2>1. ASSUME NEW j \in DOMAIN s, 1 < j
        PROVE  ~IsNews(s[j], p)
    <3>1. j - 1 \in DOMAIN Tail(s) /\ s[j] = Tail(s)[j - 1]
      BY <1>1, <1>3, <2>1
    <3> QED
      BY <1>4, <3>1
  <2>2. 1 \in DOMAIN s
    BY <1>1
  <2>3. s[1].type = "ConnectedToPeer" <=> k
    BY <1>1, <2>1, <2>2 DEF View
  <2> QED
    BY <1>1, <2>3
<1>5. ASSUME NEW i \in DOMAIN Tail(s), IsNews(Tail(s)[i], p),
             \A j \in DOMAIN Tail(s) : i < j => ~IsNews(Tail(s)[j], p)
      PROVE  Tail(s)[i].type = "ConnectedToPeer" <=> k
  <2>1. i + 1 \in DOMAIN s /\ s[i + 1] = Tail(s)[i]
    BY <1>1, <1>2
  <2>2. ASSUME NEW j \in DOMAIN s, i + 1 < j
        PROVE  ~IsNews(s[j], p)
    <3>1. i \in Nat /\ j \in Nat /\ j # 1 /\ j \in 1..Len(s) /\ i < j - 1
      BY <1>1, <2>2
    <3>2. j - 1 \in DOMAIN Tail(s) /\ s[j] = Tail(s)[j - 1]
      BY <1>1, <1>3, <3>1
    <3> QED
      BY <1>5, <3>1, <3>2
  <2> QED
    BY <1>5, <2>1, <2>2 DEF View
<1> QED
  BY <1>4, <1>5 DEF View

\* Where the views agree in this sense, the last news agrees with the table.
LEMMA ViewOfLastNews ==
    ASSUME NEW n \in Local, NEW p \in Node, NEW S, iroh_to_coord[n] \in Seq(S),
           NEW k \in BOOLEAN, is_connected[n][p] \in BOOLEAN,
           View(iroh_to_coord[n], p, is_connected[n][p], k)
    PROVE  Announced(n, p) <=> k
<1> DEFINE s == iroh_to_coord[n]
<1>1. Len(s) \in Nat /\ DOMAIN s = 1..Len(s)
  BY LenProperties
<1>2. CASE News(n, p) = {}
  BY <1>2 DEF News, Announced, View
<1>3. CASE News(n, p) # {}
  <2>1. News(n, p) \in SUBSET (0..Len(s))
    BY <1>1 DEF News
  <2>2. PICK x \in News(n, p) : \A y \in News(n, p) : y <= x
    BY <1>1, <1>3, <2>1, GreatestNumber
  <2>3. s[x].type = "ConnectedToPeer" <=> k
    <3>1. x \in DOMAIN s /\ IsNews(s[x], p) /\ x \in Nat
      BY <1>1 DEF News
    <3>2. ASSUME NEW j \in DOMAIN s, x < j
          PROVE  ~IsNews(s[j], p)
      BY <1>1, <2>2, <3>1, <3>2 DEF News
    <3>3. \A j \in DOMAIN s : x < j => ~IsNews(s[j], p)
      BY <3>2
    <3>4. \A i \in DOMAIN s :
             (IsNews(s[i], p) /\ \A j \in DOMAIN s : i < j => ~IsNews(s[j], p))
                => (s[i].type = "ConnectedToPeer" <=> k)
      BY DEF View
    <3> HIDE DEF s
    <3> QED
      BY <3>1, <3>3, <3>4
  <2>4. \A last \in News(n, p) : (\A i \in News(n, p) : i <= last) => last = x
    BY <2>1, <2>2
  <2> QED
    BY <1>3, <2>2, <2>3, <2>4 DEF Announced
<1> QED
  BY <1>2, <1>3

\* The views of a node agree on every peer; a process that is down has no connections.
ViewOf(n) ==
    /\ \A p \in Node :
          View(iroh_to_coord[n], p, is_connected[n][p], state_table[n][p].type = "Connected")
    /\ ~running[n] => \A p \in Node : state_table[n][p].type # "Connected"

ViewInv == \A n \in Local : ViewOf(n)

\* The other nodes notice nothing.
LEMMA ViewElsewhere ==
    ASSUME ViewInv, NEW n \in Local, ViewOf(n)',
           \A m \in Local : m # n =>
              /\ running'[m] = running[m] /\ iroh_to_coord'[m] = iroh_to_coord[m]
              /\ is_connected'[m] = is_connected[m] /\ state_table'[m] = state_table[m]
    PROVE  ViewInv'
<1> SUFFICES ASSUME NEW m \in Local
             PROVE  ViewOf(m)'
  BY DEF ViewInv
<1>1. CASE m = n
  BY <1>1
<1>2. CASE m # n
  <2>1. ViewOf(m)
    BY DEF ViewInv
  <2> QED
    BY <1>2, <2>1 DEF ViewOf
<1> QED
  BY <1>1, <1>2

\* A step that moves no status leaves the views alone.
LEMMA SameView ==
    ASSUME ViewInv, UNCHANGED <<running, iroh_to_coord, is_connected, state_table>>
    PROVE  ViewInv'
BY DEF ViewInv, ViewOf

\* The core reads an event.
LEMMA HandleIrohEventView ==
    ASSUME CoordTypeOK, NodeTraffic, ViewInv, NEW n \in Local, handle_iroh_event(n),
           UNCHANGED state_table
    PROVE  ViewInv'
<1> DEFINE s == iroh_to_coord[n]
           event == Head(s)
<1>1. s \in Seq(PeerEvent(n)) /\ s # <<>> /\ ViewOf(n)
  BY DEF NodeTraffic, TrafficOf, handle_iroh_event, process_iroh_event, ViewInv
<1>2. event \in PeerEvent(n)
  BY <1>1, Receive
<1>3. event.peer \in Peers(n) /\ event.peer \in Node
  BY <1>2, PeersAreNodes DEF PeerEvent
<1>4. /\ UNCHANGED running
      /\ iroh_to_coord' = [iroh_to_coord EXCEPT ![n] = Tail(@)]
  BY DEF handle_iroh_event, process_iroh_event
<1>5. /\ iroh_to_coord'[n] = Tail(s)
      /\ \A m \in Local : m # n => iroh_to_coord'[m] = iroh_to_coord[m]
  BY <1>4 DEF CoordTypeOK, WiringTypeOK
<1>6. is_connected \in [Local -> [Node -> BOOLEAN]]
  BY DEF CoordTypeOK, CoreTypeOK
<1>7. /\ \A m \in Local : m # n => is_connected'[m] = is_connected[m]
      /\ \A q \in Node : IsNews(event, q) =>
            is_connected'[n][q] \in BOOLEAN
            /\ (is_connected'[n][q] <=> event.type = "ConnectedToPeer")
      /\ \A q \in Node : ~IsNews(event, q) => is_connected'[n][q] = is_connected[n][q]
  <2>1. CASE event.type = "ConnectedToPeer" /\ on_peer_connected(n, event.peer)
    <3>1. is_neighbour(n, event.peer)
      BY <1>3 DEF is_neighbour
    <3>2. \/ UNCHANGED is_connected /\ is_connected[n][event.peer]
          \/ is_connected' = [is_connected EXCEPT ![n][event.peer] = TRUE]
      BY <2>1, <3>1 DEF on_peer_connected, coreVars
    <3>3. /\ is_connected'[n][event.peer] = TRUE
          /\ \A q \in Node : q # event.peer => is_connected'[n][q] = is_connected[n][q]
          /\ \A m \in Local : m # n => is_connected'[m] = is_connected[m]
      BY <1>3, <1>6, <3>2
    <3> QED
      BY <2>1, <3>3 DEF IsNews
  <2>2. CASE event.type = "DisconnectedFromPeer" /\ on_peer_disconnected(n, event.peer)
    <3>1. is_connected' = [is_connected EXCEPT ![n][event.peer] = FALSE]
      BY <2>2 DEF on_peer_disconnected
    <3>2. /\ is_connected'[n][event.peer] = FALSE
          /\ \A q \in Node : q # event.peer => is_connected'[n][q] = is_connected[n][q]
          /\ \A m \in Local : m # n => is_connected'[m] = is_connected[m]
      BY <1>3, <1>6, <3>1
    <3> QED
      BY <2>2, <3>2 DEF IsNews
  <2>3. CASE event.type = "RecvPacketFrom" /\ recv_packet(n, event.packet, event.peer)
    BY <2>3 DEF recv_packet, IsNews
  <2> QED
    BY <2>1, <2>2, <2>3 DEF handle_iroh_event, process_iroh_event
<1>8. ASSUME NEW q \in Node
      PROVE  View(Tail(s), q, is_connected'[n][q], state_table[n][q].type = "Connected")
  <2> DEFINE k == state_table[n][q].type = "Connected"
  <2>1. View(s, q, is_connected[n][q], k)
    BY <1>1 DEF ViewOf
  <2>2. k \in BOOLEAN /\ is_connected[n][q] \in BOOLEAN
    BY <1>6
  <2> HIDE DEF k
  <2>3. ASSUME IsNews(event, q)
        PROVE  View(Tail(s), q, is_connected'[n][q], k)
    <3>1. /\ is_connected'[n][q] \in BOOLEAN
          /\ is_connected'[n][q] <=> event.type = "ConnectedToPeer"
      BY <1>7, <2>3
    <3> QED
      BY <1>1, <2>1, <2>2, <2>3, <3>1, ViewReadsNews
  <2>4. ASSUME ~IsNews(event, q)
        PROVE  View(Tail(s), q, is_connected'[n][q], k)
    <3>1. is_connected'[n][q] = is_connected[n][q]
      BY <1>7, <2>4
    <3>2. View(Tail(s), q, is_connected[n][q], k)
      BY <1>1, <2>1, <2>2, <2>4, ViewReadsOther
    <3> QED
      BY <3>1, <3>2
  <2>5. View(Tail(s), q, is_connected'[n][q], k)
    BY <2>3, <2>4
  <2> QED
    BY <2>5 DEF k
<1>9. ViewOf(n)'
  BY <1>1, <1>4, <1>5, <1>8 DEF ViewOf
<1> QED
  BY <1>4, <1>5, <1>7, <1>9, ViewElsewhere

\* The manager tells of the change it makes to its table.
LEMMA AnnounceView ==
    ASSUME IrohTypeOK, CoreTypeOK, ViewInv, NEW n \in Local, running[n], NEW p \in Node,
           NEW t \in {"ConnectedToPeer", "DisconnectedFromPeer"}, Announce(n, t, p),
           UNCHANGED <<running, is_connected>>,
           state_table'[n][p].type = "Connected" <=> t = "ConnectedToPeer",
           \A q \in Node : q # p => state_table'[n][q] = state_table[n][q],
           \A m \in Local : m # n => state_table'[m] = state_table[m]
    PROVE  ViewInv'
<1> DEFINE s == iroh_to_coord[n]
           e == [type |-> t, peer |-> p]
<1>1. s \in Seq(IrohEvent) /\ e \in IrohEvent /\ ViewOf(n)
  BY DEF IrohTypeOK, WiringTypeOK, IrohEvent, ViewInv
<1>2. iroh_to_coord' = [iroh_to_coord EXCEPT ![n] = Append(s, e)]
  BY DEF Announce
<1>3. /\ IsNews(e, p) /\ \A q : q # p => ~IsNews(e, q)
      /\ e.type = t
  BY DEF IsNews
<1> HIDE DEF e
<1>4. /\ iroh_to_coord'[n] = Append(s, e)
      /\ \A m \in Local : m # n => iroh_to_coord'[m] = iroh_to_coord[m]
  BY <1>2 DEF IrohTypeOK, WiringTypeOK
<1>5. ASSUME NEW q \in Node
      PROVE  View(Append(s, e), q, is_connected[n][q], state_table'[n][q].type = "Connected")
  <2> DEFINE k == state_table'[n][q].type = "Connected"
  <2>1. k \in BOOLEAN /\ is_connected[n][q] \in BOOLEAN
    BY DEF CoreTypeOK
  <2>2. CASE q = p
    <3>1. k <=> e.type = "ConnectedToPeer"
      BY <1>3, <2>2
    <3> HIDE DEF k
    <3>2. View(Append(s, e), q, is_connected[n][q], k)
      BY <1>1, <1>3, <2>1, <2>2, <3>1, ViewAfterNews
    <3> QED
      BY <3>2 DEF k
  <2>3. CASE q # p
    <3>1. View(s, q, is_connected[n][q], k)
      BY <1>1, <2>3 DEF ViewOf
    <3> HIDE DEF k
    <3>2. View(Append(s, e), q, is_connected[n][q], k)
      BY <1>1, <1>3, <2>1, <2>3, <3>1, ViewAfterOther
    <3> QED
      BY <3>2 DEF k
  <2> QED
    BY <2>2, <2>3
<1>6. ViewOf(n)'
  BY <1>4, <1>5 DEF ViewOf
<1> QED
  BY <1>4, <1>6, ViewElsewhere

\* A packet is no news.
LEMMA SessionReadView ==
    ASSUME IrohTypeOK, CoreTypeOK, ViewInv, NEW c \in Conn, NEW n \in Local, SessionRead(c, n),
           UNCHANGED is_connected
    PROVE  ViewInv'
<1> DEFINE s == iroh_to_coord[n]
<1>1. PICK packet \in datagrams[c][n] :
         iroh_to_coord' = [iroh_to_coord EXCEPT ![n] =
               TrySend(@, [type |-> "RecvPacketFrom", peer |-> remote_id(c, n),
                           packet |-> packet])]
  BY DEF SessionRead
<1> DEFINE e == [type |-> "RecvPacketFrom", peer |-> remote_id(c, n), packet |-> packet]
<1>2. s \in Seq(IrohEvent) /\ e \in IrohEvent /\ ViewOf(n)
  <2>1. n \in Node /\ remote_id(c, n) \in Node /\ packet \in Packet
    BY NodeType, ConnType DEF IrohTypeOK
  <2> QED
    BY <2>1 DEF IrohTypeOK, WiringTypeOK, IrohEvent, ViewInv
<1>3. \A q : ~IsNews(e, q)
  BY DEF IsNews
<1>4. UNCHANGED <<running, state_table>>
      /\ iroh_to_coord' = [iroh_to_coord EXCEPT ![n] = TrySend(s, e)]
  BY <1>1 DEF SessionRead
<1> HIDE DEF e
<1>5. /\ iroh_to_coord'[n] = TrySend(s, e)
      /\ \A m \in Local : m # n => iroh_to_coord'[m] = iroh_to_coord[m]
  BY <1>4 DEF IrohTypeOK, WiringTypeOK
<1>6. ASSUME NEW q \in Node
      PROVE  View(TrySend(s, e), q, is_connected[n][q], state_table[n][q].type = "Connected")
  <2> DEFINE k == state_table[n][q].type = "Connected"
  <2>1. View(s, q, is_connected[n][q], k)
    BY <1>2 DEF ViewOf
  <2>2. k \in BOOLEAN /\ is_connected[n][q] \in BOOLEAN
    BY DEF CoreTypeOK
  <2> HIDE DEF k
  <2>3. View(Append(s, e), q, is_connected[n][q], k)
    BY <1>2, <1>3, <2>1, <2>2, ViewAfterOther
  <2>4. View(TrySend(s, e), q, is_connected[n][q], k)
    BY <2>1, <2>3 DEF TrySend
  <2> QED
    BY <2>4 DEF k
<1>7. ViewOf(n)'
  BY <1>2, <1>4, <1>5, <1>6 DEF ViewOf
<1> QED
  BY <1>4, <1>5, <1>7, ViewElsewhere

\* The manager changes an entry and announces it in one step.
LEMMA ManagerView ==
    ASSUME MeshInv, AdmitInv, ViewInv, NEW n \in Local, ManagerStep(n), UNCHANGED coordOnlyVars
    PROVE  ViewInv'
<1>1. /\ IrohInv /\ IrohTypeOK /\ WiringTypeOK /\ CoreTypeOK /\ NodeTraffic /\ Admission
      /\ AdmissionOf(n) /\ n \in Node
  BY NodeType DEF MeshInv, IrohInv, IrohTypeOK, CoordInv, CoordTypeOK, AdmitInv, Admission
<1>2. running[n]
  BY ManagerRuns DEF MeshInv
<1>3. \A m \in Local : m # n => state_table'[m] = state_table[m]
  BY <1>1, TableIsLocal
<1>4. UNCHANGED <<running, is_connected>>
  BY <1>1, ManagerIsLocal DEF ManagerIsLocalStep, coordOnlyVars
<1>5. CASE \/ OutgoingConnection(n) \/ IncomingConnection(n) \/ Disconnected(n)
           \/ SendPacketTo(n)
  <2>1. UNCHANGED <<iroh_to_coord, state_table>>
    BY <1>5 DEF OutgoingConnection, IncomingConnection, NewConnection, Disconnected, SendPacketTo
  <2> QED
    BY <1>4, <2>1, SameView
<1>6. CASE init_ready_connection(n)
  <2> DEFINE c == manager[n].conn
             p == remote_id(c, n)
  <2>1. p \in Node
    BY <1>1, <1>6, InitReadyAdmission, PeersAreNodes
  <2>2. /\ Announce(n, "ConnectedToPeer", p)
        /\ state_table' = [state_table EXCEPT ![n][p] = [type |-> "Connected", conn |-> c]]
    BY <1>6 DEF init_ready_connection
  <2> HIDE DEF p, c
  <2>3. /\ state_table'[n][p].type = "Connected"
        /\ \A q \in Node : q # p => state_table'[n][q] = state_table[n][q]
    BY <1>1, <2>1, <2>2 DEF IrohTypeOK
  <2> QED
    BY <1>1, <1>2, <1>3, <1>4, <2>1, <2>2, <2>3, AnnounceView
<1>7. CASE ReconnectAfterLoss(n)
  <2> DEFINE p == manager[n].peer
  <2>1. p \in Node
    BY <1>1, <1>7, ReconnectAdmission, PeersAreNodes
  <2>2. /\ Announce(n, "DisconnectedFromPeer", p)
        /\ \E e \in [type : {"WaitingIncomingConnection"}]
                    \cup [type : {"Connecting"}, conn : Conn] :
              state_table' = [state_table EXCEPT ![n][p] = e]
    BY <1>7 DEF ReconnectAfterLoss, init_new_connection
  <2> HIDE DEF p
  <2>3. /\ state_table'[n][p].type # "Connected"
        /\ \A q \in Node : q # p => state_table'[n][q] = state_table[n][q]
    BY <1>1, <2>1, <2>2 DEF IrohTypeOK
  <2> QED
    BY <1>1, <1>2, <1>3, <1>4, <2>1, <2>2, <2>3, AnnounceView
<1>8. CASE ConnectToPeer(n) \/ DisconnectFromPeer(n)
  <2>1. PICK t \in {"ConnectToPeer", "DisconnectFromPeer"} :
           TakeAction(n, t) /\ UNCHANGED iroh_to_coord
    BY <1>8 DEF ConnectToPeer, DisconnectFromPeer
  <2> QED
    BY <1>1, <2>1, TakeActionTraffic
<1>9. CASE DropConnected(n)
  BY <1>1, <1>9 DEF DropConnected, AdmissionOf
<1> QED
  BY <1>5, <1>6, <1>7, <1>8, <1>9 DEF ManagerStep

\* A new process knows of no connection, in the core or in the table.
LEMMA StartView ==
    ASSUME IrohTypeOK, ViewInv, NEW n \in Local, Start(n), UNCHANGED coordOnlyVars
    PROVE  ViewInv'
<1>1. ViewOf(n) /\ ~running[n] /\ UNCHANGED <<iroh_to_coord, is_connected>>
  BY DEF ViewInv, Start, coordOnlyVars
<1>2. running'[n]
      /\ \A m \in Local : m # n => running'[m] = running[m] /\ state_table'[m] = state_table[m]
  BY DEF Start, IrohTypeOK, WiringTypeOK
<1>3. \A p \in Node : state_table'[n][p].type # "Connected"
  BY DEF Start, IrohTypeOK
<1>4. ViewOf(n)'
  BY <1>1, <1>2, <1>3 DEF ViewOf, View
<1> QED
  BY <1>1, <1>2, <1>4, ViewElsewhere

\* A crash clears both views and the channel between them.
LEMMA CrashView ==
    ASSUME MeshInv, ViewInv, NEW n \in Local, Crash(n)
    PROVE  ViewInv'
<1>1. IrohTypeOK /\ CoordTypeOK
  BY DEF MeshInv, IrohInv, CoordInv
<1>2. /\ iroh_to_coord'[n] = <<>> /\ ~running'[n]
      /\ \A p \in Node : ~is_connected'[n][p] /\ state_table'[n][p].type # "Connected"
  BY <1>1 DEF Crash, IrohReset, CoordReset, IrohTypeOK, CoordTypeOK, CoreTypeOK, WiringTypeOK
<1>3. \A m \in Local : m # n =>
         /\ running'[m] = running[m] /\ iroh_to_coord'[m] = iroh_to_coord[m]
         /\ is_connected'[m] = is_connected[m] /\ state_table'[m] = state_table[m]
  BY <1>1 DEF Crash, IrohReset, CoordReset, IrohTypeOK, CoordTypeOK, CoreTypeOK, WiringTypeOK
<1>4. DOMAIN <<>> = {}
  OBVIOUS
<1>5. ViewOf(n)'
  BY <1>2, <1>4 DEF ViewOf, View
<1> QED
  BY <1>3, <1>5, ViewElsewhere

\* A task sends packets to the coordinator, never status.
LEMMA NetworkView ==
    ASSUME IrohTypeOK, CoreTypeOK, ViewInv, NEW c \in Conn, Network(c)
    PROVE  ViewInv'
<1>1. UNCHANGED is_connected
  BY DEF Network, coordOnlyVars
<1>2. \/ \E n \in Local : SessionRead(c, n)
      \/ UNCHANGED <<running, iroh_to_coord, state_table>>
  BY DEF Network, TaskStep, ConnectOk, ConnectErr, ConnectRetry, ConnectDone,
         ConnectCancelled, AcceptOk, AcceptErr, SessionSend, SessionErr, SessionChannelClosed,
         SessionCancelled, SessionEnds, ConnectionLost, HandlesDropped, ForeignSend,
         ForeignConnect, connOnlyVars, managerVars
<1> QED
  BY <1>1, <1>2, SessionReadView, SameView

\* At the start nobody is connected.
LEMMA ViewStart == MeshInit => ViewInv
<1> SUFFICES ASSUME MeshInit, NEW n \in Local
             PROVE  ViewOf(n)
  BY DEF ViewInv
<1>1. /\ iroh_to_coord[n] = <<>>
      /\ \A p \in Node : ~is_connected[n][p] /\ state_table[n][p].type # "Connected"
  BY DEF MeshInit, CoordInit, IrohInit, WiringInit, CoreInit
<1>2. DOMAIN <<>> = {}
  OBVIOUS
<1> QED
  BY <1>1, <1>2 DEF ViewOf, View

\* Every step of the mesh keeps the views together.
LEMMA ViewStep ==
    ASSUME MeshInv, AdmitInv, ViewInv, [MeshNext]_meshVars
    PROVE  ViewInv'
<1>1. IrohTypeOK /\ CoordTypeOK /\ CoreTypeOK /\ NodeTraffic
  BY DEF MeshInv, IrohInv, CoordInv, CoordTypeOK, AdmitInv
<1>2. CASE UNCHANGED meshVars
  BY <1>2, SameView DEF meshVars
<1>3. ASSUME NEW n \in Local, NodeCoord(n)
      PROVE  ViewInv'
  <2>1. UNCHANGED state_table
    BY <1>3 DEF NodeCoord, irohOnlyVars
  <2>2. CASE handle_iroh_event(n)
    BY <1>1, <2>1, <2>2, HandleIrohEventView
  <2>3. CASE handle_packet_from_tun(n) \/ handle_actions(n) \/ TunStep(n)
    <3>1. UNCHANGED <<running, iroh_to_coord, is_connected>>
      BY <2>3 DEF handle_packet_from_tun, send_packet, coreVars, handle_actions, TunStep,
                  TunRead, TunWrite
    <3> QED
      BY <2>1, <3>1, SameView
  <2> QED
    BY <1>3, <2>2, <2>3 DEF NodeCoord, CoordStep
<1>4. ASSUME NEW n \in Local, NodeIroh(n)
      PROVE  ViewInv'
  BY <1>1, <1>4, ManagerView, StartView DEF NodeIroh
<1> QED
  BY <1>1, <1>2, <1>3, <1>4, CrashView, NetworkView DEF MeshNext

\* After the news still in its channel the core of every node believes a peer
\* connected exactly when the manager's table says so: no race of losses,
\* replacements and restarts leaves the two with different opinions.
THEOREM ViewsAgree ==
    ASSUME OpenEnvironments
    PROVE  MeshSpec => []ViewAgreement
<1>1. MeshInv /\ ViewInv => ViewAgreement
  <2> SUFFICES ASSUME MeshInv, ViewInv, NEW n \in Local, NEW p \in Node
               PROVE  Announced(n, p) <=> state_table[n][p].type = "Connected"
    BY DEF ViewAgreement
  <2> DEFINE k == state_table[n][p].type = "Connected"
  <2>1. /\ iroh_to_coord[n] \in Seq(IrohEvent) /\ k \in BOOLEAN
        /\ is_connected[n][p] \in BOOLEAN
        /\ View(iroh_to_coord[n], p, is_connected[n][p], k)
    BY DEF MeshInv, CoordInv, CoordTypeOK, WiringTypeOK, CoreTypeOK, ViewInv, ViewOf
  <2> HIDE DEF k
  <2>2. Announced(n, p) <=> k
    BY <2>1, ViewOfLastNews
  <2> QED
    BY <2>2 DEF k
<1>2. MeshInv /\ AdmitInv /\ ViewInv /\ [MeshNext]_meshVars => ViewInv'
  BY ViewStep
<1> QED
  BY <1>1, <1>2, ViewStart, MeshInvariant, AdmitInvariant, PTL DEF MeshSpec

-----------------------------------------------------------------------------
\* A connection somebody holds is there.

\* It is enough that a step gives nobody a handle of a connection that is not there
\* and takes none away that is held.
LEMMA HeldFrame ==
    ASSUME HeldIsThere,
           \A m \in Local, d \in Conn :
              Held(d, m)' => (Held(d, m) /\ (ends[d][m] # "none" => ends'[d][m] # "none"))
                             \/ ends'[d][m] # "none"
    PROVE  HeldIsThere'
BY DEF HeldIsThere

\* The manager moves handles it has.
LEMMA ManagerHeld ==
    ASSUME IrohInv, AdmitInv, HeldIsThere, NEW n \in Local, ManagerStep(n),
           UNCHANGED coordOnlyVars
    PROVE  HeldIsThere'
<1>1. /\ IrohTypeOK /\ WiringTypeOK /\ NodeTraffic /\ AdmissionOf(n) /\ n \in Node
      /\ manager \in [Local -> Manager]
  BY NodeType DEF IrohInv, IrohTypeOK, AdmitInv, Admission
<1>2. \A m \in Local : m # n => state_table'[m] = state_table[m]
  BY <1>1, TableIsLocal
<1>3. ManagerIsLocalStep(n)
  BY ManagerIsLocal
<1>4. ASSUME NEW m \in Local, m # n, NEW d \in Conn, UNCHANGED ends,
             dial'[d] = "connected" => dial[d] = "connected"
      PROVE  Held(d, m)' => Held(d, m)
  BY <1>2, <1>3, <1>4 DEF ManagerIsLocalStep, Held, Pending, IsConnected
<1>5. ASSUME NEW type, NEW expected, NewConnection(n, type, expected),
             type \in {"OutgoingConnection", "IncomingConnection"}
      PROVE  HeldIsThere'
  <2> DEFINE c  == Head(rx_from_tasks[n]).conn
             st == state_table[n][remote_id(c, n)]
  <2>1. /\ TakeEvent(n) /\ UNCHANGED <<dial, state_table>>
        /\ Head(rx_from_tasks[n]).type = type
    BY <1>5 DEF NewConnection
  <2>2. /\ Pending(n, type, c)
        /\ \A m \in Local : \A t, d : Pending(m, t, d)' => Pending(m, t, d)
    BY <1>1, <2>1, TakeRemoves
  <2>3. \A d \in Conn, m \in Node : session[d][m] = "none" => session'[d][m] = "none"
    BY <1>1, <1>5, AbortStartsNone DEF NewConnection
  <2>4. \A d \in Conn, m \in Node : ends[d][m] # "none" => ends'[d][m] # "none"
    <3>1. UNCHANGED ends \/ \E d : Close(d, n)
      BY <1>5 DEF NewConnection
    <3>2. CASE UNCHANGED ends
      BY <3>2
    <3>3. ASSUME NEW e, Close(e, n), NEW d \in Conn, NEW m \in Node, ends[d][m] # "none"
          PROVE  ends'[d][m] # "none"
      <4>1. ends' = [ends EXCEPT ![e][n] = IF @ = "open" THEN "closed" ELSE @]
        BY <3>3 DEF Close
      <4>2. /\ ends \in [Conn -> [Node -> {"none", "open", "closed"}]]
            /\ ends[d] \in [Node -> {"none", "open", "closed"}]
        BY <1>1 DEF IrohTypeOK
      <4>3. CASE d = e /\ m = n
        <5>1. ends'[d] = [ends[d] EXCEPT ![n] = IF @ = "open" THEN "closed" ELSE @]
          BY <4>1, <4>2, <4>3
        <5> QED
          BY <3>3, <4>2, <4>3, <5>1
      <4>4. CASE d # e \/ m # n
        BY <3>3, <4>1, <4>2, <4>4
      <4> QED
        BY <4>3, <4>4
    <3> QED
      BY <3>1, <3>2, <3>3
  <2>5. \/ UNCHANGED manager
        \/ manager' = [manager EXCEPT ![n] = [at |-> "ready", conn |-> c]]
    BY <1>5 DEF NewConnection
  <2> HIDE DEF c, st
  <2>6. \A m \in Local : \A d : manager'[m] = [at |-> "ready", conn |-> d] =>
           manager[m] = [at |-> "ready", conn |-> d] \/ (m = n /\ d = c)
    <3>1. [at |-> "ready", conn |-> c].conn = c /\ \A d : [at |-> "ready", conn |-> d].conn = d
      OBVIOUS
    <3> QED
      BY <1>1, <2>5, <3>1
  <2>7. Held(c, n)
    BY <1>5, <2>2 DEF Held
  <2>8. ASSUME NEW m \in Local, NEW d \in Conn, Held(d, m)'
        PROVE  Held(d, m)
    <3>1. m \in Node
      BY NodeType
    <3> QED
      BY <2>1, <2>2, <2>3, <2>6, <2>7, <2>8, <3>1 DEF Held, IsConnected
  <2> QED
    BY <2>4, <2>8, NodeType, HeldFrame
<1>6. CASE Disconnected(n)
  <2>1. TakeEvent(n) /\ UNCHANGED <<dial, session, state_table, ends>>
    BY <1>6 DEF Disconnected
  <2>2. \A m \in Local : \A t, d : Pending(m, t, d)' => Pending(m, t, d)
    BY <1>1, <2>1, TakeRemoves
  <2>3. \A m \in Local : manager'[m].at = "ready" => manager'[m] = manager[m]
    BY <1>1, <1>6 DEF Disconnected
  <2>4. \A d : [at |-> "ready", conn |-> d].at = "ready"
    OBVIOUS
  <2>5. ASSUME NEW m \in Local, NEW d \in Conn, Held(d, m)'
        PROVE  Held(d, m)
    BY <2>1, <2>2, <2>3, <2>4, <2>5 DEF Held, IsConnected
  <2> QED
    BY <2>1, <2>5, HeldFrame
<1>7. CASE init_ready_connection(n)
  <2> DEFINE c == manager[n].conn
             p == remote_id(c, n)
  <2>1. /\ manager' = [manager EXCEPT ![n] = [at |-> "select"]]
        /\ session' = [session EXCEPT ![c][n] = "running"]
        /\ state_table' = [state_table EXCEPT ![n][p] = [type |-> "Connected", conn |-> c]]
        /\ UNCHANGED <<dial, rx_from_tasks, ends>>
        /\ manager[n].at = "ready"
    BY <1>7 DEF init_ready_connection
  <2>2. c \in Conn /\ p \in Node /\ manager[n] = [at |-> "ready", conn |-> c]
    BY <1>1, <2>1, ConnType DEF Manager
  <2> HIDE DEF c, p
  <2>3. Held(c, n)
    BY <2>2 DEF Held
  <2>4. \A m, t, d : Pending(m, t, d)' <=> Pending(m, t, d)
    BY <2>1, SamePending
  <2>5. \A d \in Conn : session'[d][n] # "none" => session[d][n] # "none" \/ d = c
    BY <1>1, <2>1, <2>2 DEF IrohTypeOK
  <2>6. ASSUME NEW d \in Conn, NEW q \in Node, IsConnected(n, q, d)'
        PROVE  IsConnected(n, q, d) \/ d = c
    <3>1. \/ state_table'[n][q] = state_table[n][q]
          \/ state_table'[n][q] = [type |-> "Connected", conn |-> c]
      BY <1>1, <2>1, <2>2 DEF IrohTypeOK
    <3>2. /\ [type |-> "Connected", conn |-> c].conn = c
          /\ [type |-> "Connected", conn |-> d].conn = d
      OBVIOUS
    <3> QED
      BY <2>6, <3>1, <3>2 DEF IsConnected
  <2>7. \A d : manager'[n] # [at |-> "ready", conn |-> d]
    BY <1>1, <2>1
  <2>8. ASSUME NEW d \in Conn, Held(d, n)'
        PROVE  Held(d, n)
    <3>1. remote_id(d, n) \in Node
      BY <1>1, ConnType
    <3> QED
      BY <2>1, <2>3, <2>4, <2>5, <2>6, <2>7, <2>8, <3>1 DEF Held
  <2>9. ASSUME NEW m \in Local, NEW d \in Conn, Held(d, m)'
        PROVE  Held(d, m)
    BY <1>4, <2>1, <2>8, <2>9
  <2> QED
    BY <2>1, <2>9, HeldFrame
<1>8. CASE ReconnectAfterLoss(n)
  <2> DEFINE p == manager[n].peer
  <2>1. /\ manager' = [manager EXCEPT ![n] = [at |-> "select"]]
        /\ UNCHANGED <<rx_from_tasks, session, ends>>
        /\ \E e \in [type : {"WaitingIncomingConnection"}]
                    \cup [type : {"Connecting"}, conn : Conn] :
              state_table' = [state_table EXCEPT ![n][p] = e]
        /\ UNCHANGED dial \/ \E c \in Conn : dial' = [dial EXCEPT ![c] = "connecting"]
    BY <1>8 DEF ReconnectAfterLoss, init_new_connection
  <2>2. \A m, t, d : Pending(m, t, d)' <=> Pending(m, t, d)
    BY <2>1, SamePending
  <2>3. \A d \in Conn : dial'[d] = "connected" => dial[d] = "connected"
    BY <1>1, <2>1 DEF IrohTypeOK
  <2>4. \A d : manager'[n] # [at |-> "ready", conn |-> d]
    BY <1>1, <2>1
  <2>5. \A q \in Node : state_table'[n][q] = state_table[n][q] \/ state_table'[n][q].type # "Connected"
    BY <1>1, <2>1 DEF IrohTypeOK
  <2>6. ASSUME NEW d \in Conn, NEW q \in Node, IsConnected(n, q, d)'
        PROVE  IsConnected(n, q, d)
    BY <2>5, <2>6 DEF IsConnected
  <2>7. ASSUME NEW d \in Conn, Held(d, n)'
        PROVE  Held(d, n)
    <3>1. remote_id(d, n) \in Node
      BY <1>1, ConnType
    <3> QED
      BY <2>1, <2>2, <2>3, <2>4, <2>6, <2>7, <3>1 DEF Held
  <2>8. ASSUME NEW m \in Local, NEW d \in Conn, Held(d, m)'
        PROVE  Held(d, m)
    BY <1>4, <2>1, <2>3, <2>7, <2>8
  <2> QED
    BY <2>1, <2>8, HeldFrame
<1>9. CASE SendPacketTo(n)
  <2>1. UNCHANGED <<state_table, manager, rx_from_tasks, dial, ends, session>>
    BY <1>9 DEF SendPacketTo
  <2> QED
    BY <2>1, HeldFrame DEF Held, IsConnected, Pending
<1>10. CASE ConnectToPeer(n) \/ DisconnectFromPeer(n)
  <2>1. PICK t \in {"ConnectToPeer", "DisconnectFromPeer"} :
           TakeAction(n, t) /\ UNCHANGED iroh_to_coord
    BY <1>10 DEF ConnectToPeer, DisconnectFromPeer
  <2> QED
    BY <1>1, <2>1, TakeActionTraffic
<1>11. CASE DropConnected(n)
  BY <1>1, <1>11 DEF DropConnected, AdmissionOf
<1> QED
  BY <1>5, <1>6, <1>7, <1>8, <1>9, <1>10, <1>11
  DEF ManagerStep, OutgoingConnection, IncomingConnection

\* A new process holds no connection.
LEMMA StartHeld ==
    ASSUME IrohTypeOK, HeldIsThere, NEW n \in Local, Start(n)
    PROVE  HeldIsThere'
<1>1. UNCHANGED <<manager, rx_from_tasks, ends, session>>
  BY DEF Start
<1>2. \A d \in Conn : dial'[d] = "connected" => dial[d] = "connected"
  BY DEF Start
<1>3. \A m \in Local, q \in Node :
         state_table'[m][q] = state_table[m][q] \/ state_table'[m][q].type # "Connected"
  BY DEF Start, IrohTypeOK
<1>4. ASSUME NEW m \in Local, NEW d \in Conn, Held(d, m)'
      PROVE  Held(d, m)
  <2>1. remote_id(d, m) \in Node
    BY ConnType, NodeType
  <2>2. IsConnected(m, remote_id(d, m), d)' => IsConnected(m, remote_id(d, m), d)
    BY <1>3, <2>1 DEF IsConnected
  <2>3. \A t : Pending(m, t, d)' <=> Pending(m, t, d)
    BY <1>1, SamePending
  <2> QED
    BY <1>1, <1>2, <1>4, <2>2, <2>3 DEF Held
<1> QED
  BY <1>1, <1>4, HeldFrame

\* A dead process holds no connection.
LEMMA CrashHeld ==
    ASSUME IrohTypeOK, HeldIsThere, NEW n \in Local, Crash(n)
    PROVE  HeldIsThere'
<1>1. IrohReset(n) /\ n \in Node
  BY NodeType DEF Crash
<1>2. ASSUME NEW d \in Conn
      PROVE  ~Held(d, n)'
  <2>1. /\ d.from = n => dial'[d] # "connected"
        /\ session'[d][n] = "none"
        /\ rx_from_tasks'[n] = <<>>
        /\ manager'[n] = [at |-> "select"]
    BY <1>1 DEF IrohReset, IrohTypeOK
  <2>2. \A q \in Node : state_table'[n][q] = [type |-> "Unknown"]
    BY <1>1 DEF IrohReset, IrohTypeOK
  <2>3. remote_id(d, n) \in Node /\ DOMAIN <<>> = {}
    BY <1>1, ConnType
  <2>4. /\ [at |-> "select"] # [at |-> "ready", conn |-> d]
        /\ [type |-> "Unknown"] # [type |-> "Connected", conn |-> d]
    OBVIOUS
  <2> QED
    BY <2>1, <2>2, <2>3, <2>4 DEF Held, Pending, Has, IsConnected
<1>3. ASSUME NEW m \in Local, m # n, NEW d \in Conn, Held(d, m)'
      PROVE  Held(d, m) /\ ends'[d][m] = ends[d][m]
  <2>1. m \in Node /\ (d.from = m => dial'[d] = dial[d])
    BY <1>1, <1>3, NodeType DEF IrohReset
  <2>2. session'[d][m] = session[d][m] /\ ends'[d][m] = ends[d][m]
    BY <1>1, <1>3, <2>1 DEF IrohReset, IrohTypeOK
  <2>3. /\ manager'[m] = manager[m] /\ rx_from_tasks'[m] = rx_from_tasks[m]
        /\ state_table'[m] = state_table[m]
    BY <1>1, <1>3 DEF IrohReset, IrohTypeOK
  <2> QED
    BY <1>3, <2>1, <2>2, <2>3 DEF Held, Pending, IsConnected
<1> QED
  BY <1>2, <1>3, HeldFrame

\* The tasks pass their handle on, or take a new connection that is open.
LEMMA NetworkHeld ==
    ASSUME IrohInv, HeldIsThere, NEW c \in Conn, Network(c)
    PROVE  HeldIsThere'
<1>1. /\ IrohTypeOK /\ c.from \in Node /\ c.to \in Node
      /\ ends \in [Conn -> [Node -> {"none", "open", "closed"}]]
      /\ UNCHANGED <<state_table, manager>>
  BY ConnType DEF IrohInv, IrohTypeOK, Network, TaskStep, ConnectOk, ConnectErr, ConnectRetry,
     ConnectDone, ConnectCancelled, AcceptOk, AcceptErr, SessionRead, SessionSend, SessionErr,
     SessionChannelClosed, SessionCancelled, SessionEnds, ConnectionLost, HandlesDropped,
     ForeignSend, ForeignConnect, connOnlyVars, managerVars
<1>2. \A m \in Local, d \in Conn : Held(d, m) => ends[d][m] # "none"
  BY DEF HeldIsThere
<1>3. ASSUME NEW n \in Node, ends' = [ends EXCEPT ![c][n] = "open"],
             UNCHANGED session,
             \A m \in Local, d \in Conn :
                /\ dial'[d] = "connected" /\ d.from = m => Held(d, m) \/ (d = c /\ m = n)
                /\ \A t : Pending(m, t, d)' => Pending(m, t, d) \/ (d = c /\ m = n)
      PROVE  HeldIsThere'
  <2>1. ASSUME NEW m \in Local, NEW d \in Conn, Held(d, m)'
        PROVE  Held(d, m) \/ (d = c /\ m = n)
    BY <1>1, <1>3, <2>1 DEF Held, IsConnected
  <2>2. ends'[c][n] = "open"
    BY <1>1, <1>3
  <2>3. \A m \in Node, d \in Conn : ends[d][m] # "none" => ends'[d][m] # "none"
    BY <1>1, <1>3
  <2> QED
    BY <2>1, <2>2, <2>3, NodeType, HeldFrame
<1>4. ASSUME UNCHANGED <<rx_from_tasks, ends>>,
             \A d \in Conn : dial'[d] = "connected" => dial[d] = "connected",
             \A m \in Local, d \in Conn : session'[d][m] # "none" => session[d][m] # "none"
      PROVE  HeldIsThere'
  <2>1. \A m, t, d : Pending(m, t, d)' <=> Pending(m, t, d)
    BY <1>4, SamePending
  <2>2. ASSUME NEW m \in Local, NEW d \in Conn, Held(d, m)'
        PROVE  Held(d, m)
    BY <1>1, <1>4, <2>1, <2>2 DEF Held, IsConnected
  <2> QED
    BY <1>4, <2>2, HeldFrame
<1>5. CASE ConnectOk(c)
  <2>1. /\ dial' = [dial EXCEPT ![c] = "connected"]
        /\ ends' = [ends EXCEPT ![c][c.from] = "open"] /\ UNCHANGED <<rx_from_tasks, session>>
    BY <1>5 DEF ConnectOk
  <2>2. \A m, t, d : Pending(m, t, d)' <=> Pending(m, t, d)
    BY <2>1, SamePending
  <2>3. \A m \in Local, d \in Conn :
           dial'[d] = "connected" /\ d.from = m => Held(d, m) \/ (d = c /\ m = c.from)
    BY <1>1, <2>1 DEF IrohTypeOK, Held
  <2> QED
    BY <1>1, <1>3, <2>1, <2>2, <2>3
<1>6. CASE ConnectDone(c)
  <2>1. /\ dial[c] = "connected" /\ dial' = [dial EXCEPT ![c] = "none"]
        /\ Tell(c.from, [type |-> "OutgoingConnection", conn |-> c])
        /\ UNCHANGED <<session, ends>>
    BY <1>6 DEF ConnectDone
  <2>2. c.from \in Local /\ [type |-> "OutgoingConnection", conn |-> c] \in ConnectionEvent
    BY <2>1 DEF IrohInv, TasksOK, ConnectionEvent
  <2>3. Held(c, c.from)
    BY <2>1 DEF Held
  <2>4. ASSUME NEW m \in Local, NEW t, NEW d, Pending(m, t, d)'
        PROVE  Pending(m, t, d) \/ (m = c.from /\ d = c)
    <3>1. \/ Pending(m, t, d)
          \/ m = c.from /\ [type |-> "OutgoingConnection", conn |-> c] = [type |-> t, conn |-> d]
      BY <1>1, <2>1, <2>2, <2>4, TellAdds
    <3>2. [type |-> "OutgoingConnection", conn |-> c].conn = c /\ [type |-> t, conn |-> d].conn = d
      OBVIOUS
    <3> QED
      BY <3>1, <3>2
  <2>5. \A d \in Conn : dial'[d] = "connected" => dial[d] = "connected"
    BY <1>1, <2>1 DEF IrohTypeOK
  <2>6. ASSUME NEW m \in Local, NEW d \in Conn, Held(d, m)'
        PROVE  Held(d, m)
    BY <1>1, <2>1, <2>3, <2>4, <2>5, <2>6 DEF Held, IsConnected
  <2> QED
    BY <2>1, <2>6, HeldFrame
<1>7. CASE AcceptOk(c)
  <2>1. ends' = [ends EXCEPT ![c][c.to] = "open"] /\ UNCHANGED <<dial, session>>
    BY <1>7 DEF AcceptOk
  <2>2. ASSUME NEW m \in Local, NEW d \in Conn, NEW t, Pending(m, t, d)'
        PROVE  Pending(m, t, d) \/ (d = c /\ m = c.to)
    <3>1. CASE c.to \notin Local
      BY <1>7, <2>2, <3>1, SamePending DEF AcceptOk
    <3>2. CASE c.to \in Local
      <4>1. /\ [type |-> "IncomingConnection", conn |-> c] \in ConnectionEvent
            /\ Tell(c.to, [type |-> "IncomingConnection", conn |-> c])
        BY <1>7, <3>2 DEF AcceptOk, ConnectionEvent
      <4>2. \/ Pending(m, t, d)
            \/ m = c.to /\ [type |-> "IncomingConnection", conn |-> c] = [type |-> t, conn |-> d]
        BY <1>1, <2>2, <3>2, <4>1, TellAdds
      <4>3. /\ [type |-> "IncomingConnection", conn |-> c].conn = c
            /\ [type |-> t, conn |-> d].conn = d
        OBVIOUS
      <4> QED
        BY <4>2, <4>3
    <3> QED
      BY <3>1, <3>2
  <2>3. \A m \in Local, d \in Conn :
           dial'[d] = "connected" /\ d.from = m => Held(d, m) \/ (d = c /\ m = c.to)
    BY <2>1 DEF Held
  <2> QED
    BY <1>1, <1>3, <2>1, <2>2, <2>3
<1>8. CASE ForeignConnect(c)
  <2>1. ends' = [ends EXCEPT ![c][c.from] = "open"] /\ UNCHANGED <<dial, session, rx_from_tasks>>
    BY <1>8 DEF ForeignConnect
  <2>2. \A m, t, d : Pending(m, t, d)' <=> Pending(m, t, d)
    BY <2>1, SamePending
  <2>3. \A m \in Local, d \in Conn :
           dial'[d] = "connected" /\ d.from = m => Held(d, m) \/ (d = c /\ m = c.from)
    BY <2>1 DEF Held
  <2> QED
    BY <1>1, <1>3, <2>1, <2>2, <2>3
<1>9. CASE ConnectErr(c) \/ ConnectRetry(c) \/ ConnectCancelled(c) \/ AcceptErr(c)
  <2>1. UNCHANGED <<rx_from_tasks, ends, session>>
    BY <1>9 DEF ConnectErr, ConnectRetry, ConnectCancelled, AcceptErr
  <2>2. \A d \in Conn : dial'[d] = "connected" => dial[d] = "connected"
    BY <1>1, <1>9 DEF ConnectErr, ConnectRetry, ConnectCancelled, AcceptErr, IrohTypeOK
  <2> QED
    BY <1>4, <2>1, <2>2
<1>10. ASSUME NEW n \in Local,
              SessionRead(c, n) \/ SessionSend(c, n) \/ SessionChannelClosed(c, n)
              \/ SessionCancelled(c, n)
       PROVE  HeldIsThere'
  <2>1. UNCHANGED <<rx_from_tasks, ends, dial>>
    BY <1>10 DEF SessionRead, SessionSend, SessionChannelClosed, SessionCancelled, SessionEnds
  <2>2. UNCHANGED session \/ session' = [session EXCEPT ![c][n] = "none"]
    BY <1>10 DEF SessionRead, SessionSend, SessionChannelClosed, SessionCancelled, SessionEnds
  <2>3. \A m \in Node, d \in Conn : session'[d][m] # "none" => session[d][m] # "none"
    <3>1. session \in [Conn -> [Node -> {"none", "running", "aborted"}]] /\ n \in Node
      BY <1>1, NodeType DEF IrohTypeOK
    <3>2. CASE UNCHANGED session
      BY <3>2
    <3>3. CASE session' = [session EXCEPT ![c][n] = "none"]
      BY <3>1, <3>3
    <3> QED
      BY <2>2, <3>2, <3>3
  <2> QED
    BY <1>4, <2>1, <2>3, NodeType
<1>11. ASSUME NEW n \in Local, SessionErr(c, n)
       PROVE  HeldIsThere'
  <2>1. /\ Tell(n, [type |-> "Disconnected", conn |-> c])
        /\ session' = [session EXCEPT ![c][n] = "none"] /\ UNCHANGED <<ends, dial>>
    BY <1>11 DEF SessionErr, SessionEnds
  <2>2. [type |-> "Disconnected", conn |-> c] \in ConnectionEvent
    BY DEF ConnectionEvent
  <2>3. ASSUME NEW m \in Local, NEW t, NEW d, Pending(m, t, d)', t # "Disconnected"
        PROVE  Pending(m, t, d)
    <3>1. \/ Pending(m, t, d)
          \/ [type |-> "Disconnected", conn |-> c] = [type |-> t, conn |-> d]
      BY <1>1, <2>1, <2>2, <2>3, TellAdds
    <3>2. /\ [type |-> "Disconnected", conn |-> c].type = "Disconnected"
          /\ [type |-> t, conn |-> d].type = t
      OBVIOUS
    <3> QED
      BY <2>3, <3>1, <3>2
  <2>4. \A m \in Node, d \in Conn : session'[d][m] # "none" => session[d][m] # "none"
    BY <1>1, <2>1 DEF IrohTypeOK
  <2>5. ASSUME NEW m \in Local, NEW d \in Conn, Held(d, m)'
        PROVE  Held(d, m)
    <3>1. /\ Pending(m, "OutgoingConnection", d)' => Pending(m, "OutgoingConnection", d)
          /\ Pending(m, "IncomingConnection", d)' => Pending(m, "IncomingConnection", d)
          /\ m \in Node
      BY <2>3, NodeType
    <3> QED
      BY <1>1, <2>1, <2>4, <2>5, <3>1 DEF Held, IsConnected
  <2> QED
    BY <2>1, <2>5, HeldFrame
<1>12. ASSUME NEW n \in {c.from, c.to},
              ConnectionLost(c, n) \/ HandlesDropped(c, n) \/ ForeignSend(c, n)
       PROVE  HeldIsThere'
  <2>1. UNCHANGED <<state_table, manager, rx_from_tasks, dial, session>>
    BY <1>12 DEF ConnectionLost, HandlesDropped, ForeignSend, connOnlyVars, managerVars
  <2>2. \A m \in Local, d \in Conn : Held(d, m)' <=> Held(d, m)
    BY <2>1 DEF Held, Pending, IsConnected
  <2>3. \/ UNCHANGED ends
        \/ ends' = [ends EXCEPT ![c][n] = "closed"]
        \/ ends' = [ends EXCEPT ![c][n] = "none"] /\ (n \in Local => ~Held(c, n))
    BY <1>12 DEF ConnectionLost, HandlesDropped, ForeignSend
  <2>4. ASSUME NEW m \in Local, NEW d \in Conn, Held(d, m)
        PROVE  ends'[d][m] # "none"
    <3>1. n \in Node /\ m \in Node /\ ends[d][m] # "none" /\ ends[d][m] \in {"none", "open", "closed"}
      BY <1>1, <1>2, <2>4, NodeType
    <3>2. CASE d = c /\ m = n
      BY <1>1, <2>3, <2>4, <3>1, <3>2
    <3>3. CASE d # c \/ m # n
      BY <1>1, <2>3, <3>1, <3>3
    <3> QED
      BY <3>2, <3>3
  <2> QED
    BY <2>2, <2>4 DEF HeldIsThere
<1> QED
  BY <1>5, <1>6, <1>7, <1>8, <1>9, <1>10, <1>11, <1>12 DEF Network, TaskStep

\* A connection has no ends but its own.
EndsAreEnds ==
    \A c \in Conn, n \in Node : ends[c][n] # "none" => n \in {c.from, c.to}

HeldInv == HeldIsThere /\ EndsAreEnds

\* Only the two nodes of a connection ever have an end of it.
LEMMA EndsStep ==
    ASSUME IrohTypeOK, EndsAreEnds, [MeshNext]_meshVars
    PROVE  EndsAreEnds'
<1>1. ends \in [Conn -> [Node -> {"none", "open", "closed"}]]
  BY DEF IrohTypeOK
<1>2. \/ UNCHANGED ends
      \/ \E n \in Local : \/ \E e : Close(e, n)
                          \/ ends' = [c \in Conn |-> [ends[c] EXCEPT ![n] = "none"]]
      \/ \E c \in Conn : \E n \in {c.from, c.to} : \E x :
            ends' = [ends EXCEPT ![c][n] = x]
  <2>1. ASSUME NEW n \in Local, NodeIroh(n)
        PROVE  UNCHANGED ends \/ \E e : Close(e, n)
    BY <2>1 DEF NodeIroh, ManagerStep, OutgoingConnection, IncomingConnection, NewConnection,
       Disconnected, init_ready_connection, ReconnectAfterLoss, SendPacketTo, ConnectToPeer,
       DisconnectFromPeer, DropConnected, Start
  <2>2. ASSUME NEW n \in Local, NodeCoord(n)
        PROVE  UNCHANGED ends
    BY <2>2 DEF NodeCoord, irohOnlyVars
  <2>3. ASSUME NEW n \in Local, Crash(n)
        PROVE  ends' = [c \in Conn |-> [ends[c] EXCEPT ![n] = "none"]]
    BY <2>3 DEF Crash, IrohReset
  <2>4. ASSUME NEW c \in Conn, Network(c)
        PROVE  UNCHANGED ends \/ \E n \in {c.from, c.to} : \E x :
                  ends' = [ends EXCEPT ![c][n] = x]
    BY <2>4 DEF Network, TaskStep, ConnectOk, ConnectErr, ConnectRetry,
       ConnectDone, ConnectCancelled, AcceptOk, AcceptErr, SessionRead, SessionSend, SessionErr,
       SessionChannelClosed, SessionCancelled, SessionEnds, ConnectionLost, HandlesDropped,
       ForeignSend, ForeignConnect, connOnlyVars, managerVars
  <2> QED
    BY <2>1, <2>2, <2>3, <2>4 DEF MeshNext, meshVars
<1>3. ASSUME NEW n \in Node, NEW e, Close(e, n), NEW d \in Conn, NEW m \in Node,
             ends'[d][m] # "none"
      PROVE  ends[d][m] # "none"
  <2>1. ends' = [ends EXCEPT ![e][n] = IF @ = "open" THEN "closed" ELSE @]
    BY <1>3 DEF Close
  <2>2. CASE d = e /\ m = n
    <3>1. ends'[d] = [ends[d] EXCEPT ![n] = IF @ = "open" THEN "closed" ELSE @]
      BY <1>1, <2>1, <2>2
    <3>2. ends[d] \in [Node -> {"none", "open", "closed"}]
      BY <1>1
    <3> QED
      BY <1>3, <2>2, <3>1, <3>2
  <2>3. CASE d # e \/ m # n
    BY <1>1, <1>3, <2>1, <2>3
  <2> QED
    BY <2>2, <2>3
<1>4. ASSUME NEW n \in Local, ends' = [c \in Conn |-> [ends[c] EXCEPT ![n] = "none"]],
             NEW d \in Conn, NEW m \in Node, ends'[d][m] # "none"
      PROVE  ends[d][m] # "none"
  BY <1>1, <1>4
<1>5. ASSUME NEW c \in Conn, NEW n \in {c.from, c.to}, NEW x, ends' = [ends EXCEPT ![c][n] = x],
             NEW d \in Conn, NEW m \in Node, ends'[d][m] # "none"
      PROVE  ends[d][m] # "none" \/ m \in {d.from, d.to}
  BY <1>1, <1>5
<1>6. ASSUME NEW d \in Conn, NEW m \in Node, ends'[d][m] # "none"
      PROVE  ends[d][m] # "none" \/ m \in {d.from, d.to}
  BY <1>2, <1>3, <1>4, <1>5, <1>6, NodeType
<1> QED
  BY <1>6 DEF EndsAreEnds

\* At the start there are no connections.
LEMMA HeldStart == MeshInit => HeldInv
<1> SUFFICES ASSUME MeshInit
             PROVE  HeldInv
  OBVIOUS
<1>1. EndsAreEnds
  BY DEF MeshInit, IrohInit, EndsAreEnds
<1>2. ASSUME NEW n \in Local, NEW c \in Conn
      PROVE  ~Held(c, n)
  <2>1. /\ dial[c] = "none" /\ session[c][n] = "none" /\ rx_from_tasks[n] = <<>>
        /\ manager[n] = [at |-> "select"]
        /\ \A p \in Node : state_table[n][p] = [type |-> "Unknown"]
    BY NodeType DEF MeshInit, IrohInit
  <2>2. remote_id(c, n) \in Node /\ DOMAIN <<>> = {}
    BY ConnType, NodeType
  <2>3. /\ [at |-> "select"] # [at |-> "ready", conn |-> c]
        /\ [type |-> "Unknown"] # [type |-> "Connected", conn |-> c]
    OBVIOUS
  <2> QED
    BY <2>1, <2>2, <2>3 DEF Held, Pending, Has, IsConnected
<1> QED
  BY <1>1, <1>2 DEF HeldInv, HeldIsThere

\* Every step of the mesh keeps the held connections there.
LEMMA HeldStep ==
    ASSUME MeshInv, AdmitInv, HeldInv, [MeshNext]_meshVars
    PROVE  HeldInv'
<1>1. IrohInv /\ IrohTypeOK /\ HeldIsThere /\ EndsAreEnds
  BY DEF MeshInv, IrohInv, HeldInv
<1>2. EndsAreEnds'
  BY <1>1, EndsStep
<1>3. ASSUME UNCHANGED <<state_table, manager, rx_from_tasks, dial, ends, session>>
      PROVE  HeldIsThere'
  BY <1>1, <1>3 DEF HeldIsThere, Held, Pending, IsConnected
<1>4. UNCHANGED meshVars => HeldIsThere'
  BY <1>3 DEF meshVars
<1>5. ASSUME NEW n \in Local, NodeCoord(n)
      PROVE  HeldIsThere'
  BY <1>3, <1>5 DEF NodeCoord, irohOnlyVars
<1>6. ASSUME NEW n \in Local, NodeIroh(n)
      PROVE  HeldIsThere'
  BY <1>1, <1>6, ManagerHeld, StartHeld DEF NodeIroh
<1>7. HeldIsThere'
  BY <1>1, <1>4, <1>5, <1>6, CrashHeld, NetworkHeld DEF MeshNext
<1> QED
  BY <1>2, <1>7 DEF HeldInv

\* In the mesh a connection that somebody holds is there, always.
LEMMA HeldInvariant ==
    ASSUME OpenEnvironments
    PROVE  MeshSpec => []HeldInv
<1>1. MeshInv /\ AdmitInv /\ HeldInv /\ [MeshNext]_meshVars => HeldInv'
  BY HeldStep
<1> QED
  BY <1>1, HeldStart, MeshInvariant, AdmitInvariant, PTL DEF MeshSpec

\* Nobody waits in a network at rest: of two peers the higher key can neither be
\* waiting nor dialling, so it is connected.
LEMMA HigherIsConnected ==
    ASSUME MeshInv, AdmitInv, Quiet, NEW n \in Local, NEW m \in Local, n < m, n \in Peers(m)
    PROVE  \E c \in Conn : IsConnected(m, n, c)
<1> DEFINE st == state_table[m][n]
<1>1. n \in Node /\ m \in Node /\ n \in Nat /\ m \in Nat
  BY NodeType
<1>2. st \in ConnectionState /\ IrohInv
  BY <1>1 DEF MeshInv, IrohInv, IrohTypeOK
<1>3. running[m] /\ manager[m].at = "select" /\ rx_from_tasks[m] = <<>>
  BY DEF Quiet
<1>4. st.type \notin {"Unknown", "Disconnected"}
  BY <1>1, <1>3 DEF AdmitInv, Admission, AdmissionOf
<1>5. st.type # "WaitingIncomingConnection"
  <2>1. st.type = "WaitingIncomingConnection" => m < n
    BY <1>1, <1>2 DEF IrohInv, TableOK
  <2> QED
    BY <1>1, <2>1
<1>6. st.type # "Connecting"
  <2> SUFFICES ASSUME st.type = "Connecting"
               PROVE  FALSE
    OBVIOUS
  <2>1. st.conn \in Conn
    BY <1>2 DEF ConnectionState
  <2>2. \/ dial[st.conn] # "none"
        \/ Pending(m, "OutgoingConnection", st.conn)
        \/ manager[m].at = "ready"
    BY <1>1, <1>2 DEF IrohInv, NoZombie
  <2>3. dial[st.conn] = "none"
    BY <2>1 DEF Quiet
  <2>4. DOMAIN <<>> = {}
    OBVIOUS
  <2> QED
    BY <1>3, <2>2, <2>3, <2>4 DEF Pending, Has
<1>7. st.type = "Connected" /\ st.conn \in Conn /\ st = [type |-> "Connected", conn |-> st.conn]
  BY <1>2, <1>4, <1>5, <1>6 DEF ConnectionState
<1> QED
  BY <1>7 DEF IsConnected

\* A connection in a table has its session.
LEMMA ConnectedAtRest ==
    ASSUME MeshInv, ViewAgreement, Quiet, NEW n \in Local, NEW m \in Local, NEW c \in Conn,
           IsConnected(n, m, c)
    PROVE  session[c][n] = "running" /\ is_connected[n][m]
<1>1. n \in Node /\ m \in Node /\ IrohInv
  BY NodeType DEF MeshInv
<1>2. manager[n].at = "select" /\ rx_from_tasks[n] = <<>> /\ iroh_to_coord[n] = <<>>
  BY DEF Quiet
<1>3. state_table[n][m].type = "Connected" /\ state_table[n][m].conn = c
  BY DEF IsConnected
<1>4. DOMAIN <<>> = {}
  OBVIOUS
<1>5. session[c][n] = "running"
  BY <1>1, <1>2, <1>3, <1>4 DEF IrohInv, NoZombie, Pending, Has
<1>6. Announced(n, m)
  BY <1>1, <1>3 DEF ViewAgreement
<1>7. News(n, m) = {}
  BY <1>2, <1>4 DEF News
<1>8. is_connected[n][m]
  BY <1>6, <1>7 DEF Announced
<1> QED
  BY <1>5, <1>8

\* Two peers of a network at rest are connected to each other over one connection,
\* and both their cores know: no race of dials, losses, crashes and replacements
\* leaves one waiting for the other, or each on a connection of its own.
THEOREM RestMeansLinked ==
    ASSUME OpenEnvironments
    PROVE  MeshSpec => []RestIsLinked
<1>1. MeshInv /\ AdmitInv /\ HeldInv /\ ViewAgreement => RestIsLinked
  <2> SUFFICES ASSUME MeshInv, AdmitInv, HeldInv, ViewAgreement, Quiet,
                      NEW n \in Local, NEW m \in Local, n < m, m \in Peers(n), n \in Peers(m)
               PROVE  Linked(n, m)
    BY DEF RestIsLinked, Friends
  <2>1. n \in Node /\ m \in Node /\ n # m /\ IrohInv
    BY NodeType DEF MeshInv
  <2>2. PICK c \in Conn : IsConnected(m, n, c)
    BY HigherIsConnected
  <2>3. remote_id(c, m) = n
    BY <2>1, <2>2 DEF IrohInv, TableOK, IsConnected
  <2>4. Held(c, m)
    BY <2>2, <2>3 DEF Held
  <2>5. ends[c][m] # "none" /\ m \in {c.from, c.to}
    BY <2>1, <2>4 DEF HeldInv, HeldIsThere, EndsAreEnds
  <2>6. remote_id(c, n) = m /\ n \in {c.from, c.to}
    BY <2>1, <2>3, <2>5, ConnType DEF remote_id
  <2>7. ends[c][m] = "open" /\ ~PeerGone(c, m) /\ accept[c] = "none"
    BY <2>5 DEF Quiet
  <2>8. ends[c][n] = "open"
    BY <2>3, <2>7 DEF PeerGone
  <2>9. IsConnected(n, m, c)
    BY <2>6, <2>8 DEF Quiet
  <2>10. /\ session[c][n] = "running" /\ is_connected[n][m]
         /\ session[c][m] = "running" /\ is_connected[m][n]
    BY <2>2, <2>9, ConnectedAtRest
  <2> QED
    BY <2>2, <2>7, <2>8, <2>9, <2>10 DEF Linked, LinkedBy
<1> QED
  BY <1>1, MeshInvariant, AdmitInvariant, HeldInvariant, ViewsAgree, PTL

-----------------------------------------------------------------------------
\* No packet is in two places.  A place is the name of a channel or buffer and
\* its key; what is there is a sequence.

\* The element of a channel is the packet, or a message with the packet in it.
Carrying(e, pk) == e = pk \/ ("packet" \in DOMAIN e /\ e.packet = pk)

Occurs(s, pk) == \E i \in DOMAIN s : Carrying(s[i], pk)

Once(s, pk) ==
    \A i \in DOMAIN s, j \in DOMAIN s : Carrying(s[i], pk) /\ Carrying(s[j], pk) => i = j

\* A set of datagrams, as far as it matters to pk.
Mark(D, pk) == IF pk \in D THEN <<pk>> ELSE <<>>

NodePlace == {"tun_to_coord", "actions", "coord_to_iroh", "iroh_to_coord", "coord_to_tun"}

IsPlace(w, k) ==
    \/ w \in NodePlace /\ k \in Local
    \/ w = "packet_queue" /\ k \in Local \X Node
    \/ w \in {"packet_channel", "datagrams"} /\ k \in Conn \X Node

Content(pk, w, k) ==
    CASE w = "tun_to_coord" -> tun_to_coord[k]
      [] w = "actions" -> actions[k]
      [] w = "coord_to_iroh" -> coord_to_iroh[k]
      [] w = "iroh_to_coord" -> iroh_to_coord[k]
      [] w = "coord_to_tun" -> coord_to_tun[k]
      [] w = "packet_queue" -> packet_queue[k[1]][k[2]]
      [] w = "packet_channel" -> packet_channel[k[1]][k[2]]
      [] w = "datagrams" -> Mark(datagrams[k[1]][k[2]], pk)

At(pk, w, k) == IsPlace(w, k) /\ Occurs(Content(pk, w, k), pk)

\* The packets AtMostOnce is about.
Tracked(pk) == pk \in Packet /\ pk.origin \in Local /\ pk.seq > 0

\* pk is in one place at most, once, and only if its node has read that far: a
\* packet just read is nowhere else.
OneCopy(pk) ==
    /\ \A w, k, v, l : At(pk, w, k) /\ At(pk, v, l) => w = v /\ k = l
    /\ \A w, k : IsPlace(w, k) => Once(Content(pk, w, k), pk)
    /\ \A w, k : At(pk, w, k) => pk.seq <= reads[pk.origin]

OnceInv == \A pk : Tracked(pk) => OneCopy(pk)

\* A sequence that changes and gets no new copy.
Kept(pk, s, t) == /\ Occurs(t, pk) => Occurs(s, pk)
                  /\ Once(s, pk) => Once(t, pk)

\* The sequences s and t become s2 and t2: what is new in t has left s.
Passed(pk, s, t, s2, t2) ==
    Once(s, pk) /\ Once(t, pk) /\ ~(Occurs(s, pk) /\ Occurs(t, pk)) =>
        /\ Kept(pk, s, s2)
        /\ Once(t2, pk)
        /\ Occurs(t2, pk) => Occurs(t, pk) \/ (Occurs(s, pk) /\ ~Occurs(s2, pk))

KeptAt(pk, w, k) == Kept(pk, Content(pk, w, k), Content(pk, w, k)')

SameAt(pk, w, k) == Content(pk, w, k)' = Content(pk, w, k)

\* A place that does not change gets no copy.
LEMMA SameIsKept ==
    ASSUME NEW pk, NEW w, NEW k, SameAt(pk, w, k)
    PROVE  KeptAt(pk, w, k)
BY DEF SameAt, KeptAt, Kept

\* What the places hold, name by name.
LEMMA Contents ==
    ASSUME NEW pk, NEW k
    PROVE  /\ Content(pk, "tun_to_coord", k) = tun_to_coord[k]
           /\ Content(pk, "actions", k) = actions[k]
           /\ Content(pk, "coord_to_iroh", k) = coord_to_iroh[k]
           /\ Content(pk, "iroh_to_coord", k) = iroh_to_coord[k]
           /\ Content(pk, "coord_to_tun", k) = coord_to_tun[k]
           /\ Content(pk, "packet_queue", k) = packet_queue[k[1]][k[2]]
           /\ Content(pk, "packet_channel", k) = packet_channel[k[1]][k[2]]
           /\ Content(pk, "datagrams", k) = Mark(datagrams[k[1]][k[2]], pk)
BY DEF Content

\* What is in the places after a step.
LEMMA ContentsNext ==
    ASSUME NEW pk, NEW k
    PROVE  /\ Content(pk, "tun_to_coord", k)' = tun_to_coord'[k]
           /\ Content(pk, "actions", k)' = actions'[k]
           /\ Content(pk, "coord_to_iroh", k)' = coord_to_iroh'[k]
           /\ Content(pk, "iroh_to_coord", k)' = iroh_to_coord'[k]
           /\ Content(pk, "coord_to_tun", k)' = coord_to_tun'[k]
           /\ Content(pk, "packet_queue", k)' = packet_queue'[k[1]][k[2]]
           /\ Content(pk, "packet_channel", k)' = packet_channel'[k[1]][k[2]]
           /\ Content(pk, "datagrams", k)' = Mark(datagrams'[k[1]][k[2]], pk)
BY DEF Content

\* Places with a key of two parts.
LEMMA SameInPair ==
    ASSUME NEW pk, NEW k
    PROVE  /\ packet_queue'[k[1]][k[2]] = packet_queue[k[1]][k[2]] => SameAt(pk, "packet_queue", k)
           /\ packet_channel'[k[1]][k[2]] = packet_channel[k[1]][k[2]]
                 => SameAt(pk, "packet_channel", k)
           /\ datagrams'[k[1]][k[2]] = datagrams[k[1]][k[2]] => SameAt(pk, "datagrams", k)
<1> DEFINE C == Content(pk, "packet_channel", k)
           Q == Content(pk, "packet_queue", k)
           D == Content(pk, "datagrams", k)
<1>1. Q = packet_queue[k[1]][k[2]] /\ Q' = packet_queue'[k[1]][k[2]]
  BY Contents, ContentsNext
<1>2. C = packet_channel[k[1]][k[2]] /\ C' = packet_channel'[k[1]][k[2]]
  BY Contents, ContentsNext
<1>3. D = Mark(datagrams[k[1]][k[2]], pk) /\ D' = Mark(datagrams'[k[1]][k[2]], pk)
  BY Contents, ContentsNext
<1>4. packet_queue'[k[1]][k[2]] = packet_queue[k[1]][k[2]] => SameAt(pk, "packet_queue", k)
  BY <1>1, Zenon DEF SameAt
<1>5. packet_channel'[k[1]][k[2]] = packet_channel[k[1]][k[2]] => SameAt(pk, "packet_channel", k)
  BY <1>2, Zenon DEF SameAt
<1>6. datagrams'[k[1]][k[2]] = datagrams[k[1]][k[2]] => SameAt(pk, "datagrams", k)
  BY <1>3, Zenon DEF SameAt
<1> QED
  BY <1>4, <1>5, <1>6

-----------------------------------------------------------------------------
\* A step that moves pk at most from one place to another.

\* Every place keeps what it has, or loses it.
LEMMA KeepRead ==
    ASSUME NEW pk, Tracked(pk), OneCopy(pk),
           pk.seq <= reads[pk.origin] => pk.seq <= reads'[pk.origin],
           \A w, k : IsPlace(w, k) => KeptAt(pk, w, k)
    PROVE  OneCopy(pk)'
<1>1. \A w, k : At(pk, w, k)' => At(pk, w, k)
  BY DEF At, KeptAt, Kept, IsPlace
<1>2. \A w, k : IsPlace(w, k) => Once(Content(pk, w, k)', pk)
  BY DEF OneCopy, KeptAt, Kept
<1>3. \A w, k : IsPlace(w, k)' <=> IsPlace(w, k)
  BY DEF IsPlace
<1> QED
  BY <1>1, <1>2, <1>3 DEF OneCopy

\* A step after which no place holds more of pk than before makes no copy.
LEMMA KeepAll ==
    ASSUME NEW pk, Tracked(pk), OneCopy(pk), reads' = reads,
           \A w, k : IsPlace(w, k) => KeptAt(pk, w, k)
    PROVE  OneCopy(pk)'
BY KeepRead

\* The packet goes from the place v, l to the place x, y, if it moves at all.
LEMMA PassOn ==
    ASSUME NEW pk, Tracked(pk), OneCopy(pk), reads' = reads,
           NEW v, NEW l, IsPlace(v, l), NEW x, NEW y, IsPlace(x, y), v # x \/ l # y,
           Passed(pk, Content(pk, v, l), Content(pk, x, y), Content(pk, v, l)', Content(pk, x, y)'),
           \A w, k : /\ IsPlace(w, k)
                     /\ ~(w = v /\ k = l)
                     /\ ~(w = x /\ k = y)
                     => KeptAt(pk, w, k)
    PROVE  OneCopy(pk)'
<1> DEFINE s == Content(pk, v, l)  t == Content(pk, x, y)
<1>1. Once(s, pk) /\ Once(t, pk) /\ ~(Occurs(s, pk) /\ Occurs(t, pk))
  BY DEF OneCopy, At
<1>2. /\ Kept(pk, s, s') /\ Once(t', pk)
      /\ Occurs(t', pk) => Occurs(t, pk) \/ (Occurs(s, pk) /\ ~Occurs(s', pk))
  BY <1>1 DEF Passed
<1>3. \A w, k : IsPlace(w, k)' <=> IsPlace(w, k)
  BY DEF IsPlace
<1>4. ASSUME NEW w, NEW k, IsPlace(w, k), ~(w = x /\ k = y)
      PROVE  KeptAt(pk, w, k)
  BY <1>2, <1>4 DEF KeptAt
<1>5. ASSUME NEW w, NEW k, IsPlace(w, k)
      PROVE  Once(Content(pk, w, k)', pk)
  <2>1. CASE w = x /\ k = y
    BY <1>2, <2>1
  <2>2. CASE ~(w = x /\ k = y)
    BY <1>4, <1>5, <2>2 DEF KeptAt, Kept, OneCopy
  <2> QED
    BY <2>1, <2>2
<1>6. ASSUME NEW w, NEW k, At(pk, w, k)', ~(w = x /\ k = y)
      PROVE  At(pk, w, k)
  BY <1>3, <1>4, <1>6 DEF At, KeptAt, Kept
<1>7. ASSUME NEW w, NEW k, At(pk, w, k)', ~(w = x /\ k = y), At(pk, x, y)'
      PROVE  FALSE
  <2>1. At(pk, w, k)
    BY <1>6, <1>7
  <2>2. CASE Occurs(t, pk)
    <3>1. At(pk, x, y)
      BY <2>2 DEF At
    <3> QED
      BY <1>7, <2>1, <3>1 DEF OneCopy
  <2>3. CASE ~Occurs(t, pk)
    <3>1. Occurs(s, pk) /\ ~Occurs(s', pk)
      BY <1>2, <1>7, <2>3 DEF At
    <3>2. At(pk, v, l)
      BY <3>1 DEF At
    <3>3. w = v /\ k = l
      BY <2>1, <3>2 DEF OneCopy
    <3> QED
      BY <1>7, <3>1, <3>3 DEF At
  <2> QED
    BY <2>2, <2>3
<1>8. ASSUME NEW w, NEW k, At(pk, w, k)'
      PROVE  pk.seq <= reads[pk.origin]
  <2>1. CASE ~(w = x /\ k = y)
    BY <1>6, <1>8, <2>1 DEF OneCopy
  <2>2. CASE w = x /\ k = y
    <3>1. At(pk, x, y) \/ At(pk, v, l)
      BY <1>2, <1>8, <2>2 DEF At
    <3> QED
      BY <3>1 DEF OneCopy
  <2> QED
    BY <2>1, <2>2
<1>9. ASSUME NEW w, NEW k, NEW w2, NEW k2, At(pk, w, k)', At(pk, w2, k2)'
      PROVE  w = w2 /\ k = k2
  <2>1. CASE w = x /\ k = y
    BY <1>7, <1>9, <2>1
  <2>2. CASE ~(w = x /\ k = y)
    <3>1. ~(w2 = x /\ k2 = y)
      BY <1>7, <1>9, <2>2
    <3> QED
      BY <1>6, <1>9, <2>2, <3>1 DEF OneCopy
  <2> QED
    BY <2>1, <2>2
<1> QED
  BY <1>3, <1>5, <1>8, <1>9 DEF OneCopy

-----------------------------------------------------------------------------
\* Sequences: where a copy comes from.

\* An empty sequence holds nothing.
LEMMA NothingOccurs ==
    ASSUME NEW pk
    PROVE  ~Occurs(<<>>, pk) /\ Once(<<>>, pk)
BY DEF Occurs, Once

\* Emptying a place makes no copy.
LEMMA EmptyIsKept ==
    ASSUME NEW pk, NEW s
    PROVE  Kept(pk, s, <<>>)
BY NothingOccurs DEF Kept

\* A list of one.
LEMMA SingleOccurs ==
    ASSUME NEW pk, NEW e
    PROVE  (Occurs(<<e>>, pk) <=> Carrying(e, pk)) /\ Once(<<e>>, pk)
<1>1. DOMAIN <<e>> = {1} /\ <<e>>[1] = e
  OBVIOUS
<1> HIDE DEF Carrying
<1> QED
  BY <1>1 DEF Occurs, Once

\* Taking the first element.
LEMMA AfterTake ==
    ASSUME NEW pk, NEW S, NEW s \in Seq(S), s # <<>>
    PROVE  /\ Kept(pk, s, Tail(s))
           /\ Carrying(Head(s), pk) => Occurs(s, pk)
           /\ Carrying(Head(s), pk) /\ Once(s, pk) => ~Occurs(Tail(s), pk)
<1>1. /\ Len(s) \in Nat \ {0} /\ DOMAIN s = 1..Len(s)
      /\ DOMAIN Tail(s) = 1..(Len(s) - 1)
      /\ \A i \in 1..(Len(s) - 1) : Tail(s)[i] = s[i + 1]
      /\ Head(s) = s[1]
  BY HeadTailProperties, LenProperties, EmptySeq
<1>2. /\ 1 \in 1..Len(s)
      /\ \A i \in 1..(Len(s) - 1) : i + 1 \in 1..Len(s) /\ i + 1 # 1
      /\ \A i \in 1..(Len(s) - 1), j \in 1..(Len(s) - 1) : i + 1 = j + 1 => i = j
  BY <1>1
<1> DEFINE t == Tail(s)  h == Head(s)
<1>3. DOMAIN t = 1..(Len(s) - 1) /\ (\A i \in 1..(Len(s) - 1) : t[i] = s[i + 1]) /\ h = s[1]
  BY <1>1
<1> HIDE DEF t, h
<1>4. Occurs(t, pk) => Occurs(s, pk)
  BY <1>1, <1>2, <1>3 DEF Occurs
<1>5. Once(s, pk) => Once(t, pk)
  BY <1>1, <1>2, <1>3 DEF Once
<1>6. Carrying(h, pk) => Occurs(s, pk)
  BY <1>1, <1>2, <1>3 DEF Occurs
<1>7. Carrying(h, pk) /\ Once(s, pk) => ~Occurs(t, pk)
  BY <1>1, <1>2, <1>3 DEF Occurs, Once
<1> QED
  BY <1>4, <1>5, <1>6, <1>7 DEF Kept, t, h

\* Adding one at the end.
LEMMA AfterPut ==
    ASSUME NEW pk, NEW S, NEW s \in Seq(S), NEW e \in S
    PROVE  /\ Occurs(Append(s, e), pk) <=> Occurs(s, pk) \/ Carrying(e, pk)
           /\ Once(s, pk) /\ ~(Occurs(s, pk) /\ Carrying(e, pk)) => Once(Append(s, e), pk)
<1> DEFINE t == Append(s, e)
<1>1. /\ Len(s) \in Nat /\ DOMAIN s = 1..Len(s)
      /\ DOMAIN t = 1..(Len(s) + 1)
      /\ \A i \in 1..Len(s) : t[i] = s[i]
      /\ t[Len(s) + 1] = e
  BY AppendProperties, LenProperties
<1>2. /\ \A i \in 1..(Len(s) + 1) : i \in 1..Len(s) \/ i = Len(s) + 1
      /\ 1..Len(s) \subseteq 1..(Len(s) + 1) /\ Len(s) + 1 \in 1..(Len(s) + 1)
  BY <1>1
<1> HIDE DEF t
<1>3. Occurs(t, pk) <=> Occurs(s, pk) \/ Carrying(e, pk)
  BY <1>1, <1>2 DEF Occurs
<1>4. Once(s, pk) /\ ~(Occurs(s, pk) /\ Carrying(e, pk)) => Once(t, pk)
  BY <1>1, <1>2 DEF Occurs, Once
<1> QED
  BY <1>3, <1>4 DEF t

\* A message without the packet adds no copy.
LEMMA PutIsKept ==
    ASSUME NEW pk, NEW S, NEW s \in Seq(S), NEW e \in S, ~Carrying(e, pk)
    PROVE  Kept(pk, s, Append(s, e))
BY AfterPut DEF Kept

\* The first of one sequence goes to the end of another, or nowhere.
LEMMA HeadPasses ==
    ASSUME NEW pk, NEW S, NEW s \in Seq(S), s # <<>>, NEW R, NEW t \in Seq(R), NEW e \in R,
           Carrying(e, pk) => Carrying(Head(s), pk),
           NEW u \in Seq(R), Kept(pk, t, u), NEW t2, t2 = t \/ t2 = Append(u, e)
    PROVE  Passed(pk, s, t, Tail(s), t2)
<1> DEFINE r == Tail(s)  h == Head(s)
<1>1. /\ Kept(pk, s, r)
      /\ Carrying(h, pk) => Occurs(s, pk)
      /\ Carrying(h, pk) /\ Once(s, pk) => ~Occurs(r, pk)
  BY AfterTake
<1>2. /\ Occurs(Append(u, e), pk) <=> Occurs(u, pk) \/ Carrying(e, pk)
      /\ Once(u, pk) /\ ~(Occurs(u, pk) /\ Carrying(e, pk)) => Once(Append(u, e), pk)
  BY AfterPut
<1>3. Carrying(e, pk) => Carrying(h, pk)
  OBVIOUS
<1> HIDE DEF r, h
<1>4. CASE t2 = t
  BY <1>1, <1>4 DEF Passed, r
<1>5. CASE t2 = Append(u, e)
  <2> DEFINE a == Append(u, e)
  <2>1. /\ Occurs(a, pk) <=> Occurs(u, pk) \/ Carrying(e, pk)
        /\ Once(u, pk) /\ ~(Occurs(u, pk) /\ Carrying(e, pk)) => Once(a, pk)
    BY <1>2
  <2>2. t2 = a
    BY <1>5
  <2> HIDE DEF a
  <2>3. Passed(pk, s, t, r, t2)
    BY <1>1, <1>3, <2>1, <2>2 DEF Passed, Kept
  <2> QED
    BY <2>3 DEF r
<1> QED
  BY <1>4, <1>5

\* A queue is turned into a list of messages, one for each packet.
LEMMA QueuePasses ==
    ASSUME NEW pk \in Packet, NEW q \in Seq(Packet), NEW p
    PROVE  Passed(pk, q, <<>>, <<>>,
                  [i \in 1..Len(q) |-> [type |-> "SendPacketTo", peer |-> p, packet |-> q[i]]])
<1> DEFINE f == [i \in 1..Len(q) |-> [type |-> "SendPacketTo", peer |-> p, packet |-> q[i]]]
<1>1. Len(q) \in Nat /\ DOMAIN q = 1..Len(q) /\ \A i \in 1..Len(q) : q[i] \in Packet
  BY LenProperties, ElementOfSeq
<1>2. DOMAIN f = 1..Len(q)
  OBVIOUS
<1>3. ASSUME NEW i \in 1..Len(q), Carrying(f[i], pk)
      PROVE  Carrying(q[i], pk)
  <2> DEFINE m == [type |-> "SendPacketTo", peer |-> p, packet |-> q[i]]
  <2>1. f[i] = m /\ m.packet = q[i] /\ "type" \in DOMAIN m
    OBVIOUS
  <2>2. "type" \notin DOMAIN pk
    BY DEF Packet
  <2>3. m # pk
    BY <2>1, <2>2
  <2> QED
    BY <1>3, <2>1, <2>3 DEF Carrying
<1> HIDE DEF f
<1>4. Occurs(f, pk) => Occurs(q, pk)
  BY <1>1, <1>2, <1>3 DEF Occurs
<1>5. Once(q, pk) => Once(f, pk)
  BY <1>1, <1>2, <1>3 DEF Once
<1>6. Passed(pk, q, <<>>, <<>>, f)
  BY <1>4, <1>5, NothingOccurs, EmptyIsKept DEF Passed
<1> QED
  BY <1>6 DEF f

\* A datagram set holds pk or does not.
LEMMA MarkOccurs ==
    ASSUME NEW pk, NEW D
    PROVE  (Occurs(Mark(D, pk), pk) <=> pk \in D) /\ Once(Mark(D, pk), pk)
<1>1. Carrying(pk, pk)
  BY DEF Carrying
<1> QED
  BY <1>1, SingleOccurs, NothingOccurs DEF Mark

-----------------------------------------------------------------------------
\* The messages that carry no packet, and those that do.

\* A packet carries itself ...
LEMMA PacketCarries ==
    ASSUME NEW pk \in Packet, NEW x \in Packet
    PROVE  Carrying(x, pk) <=> x = pk
BY DEF Packet, Carrying

\* ... a status event carries none ...
LEMMA StatusCarriesNothing ==
    ASSUME NEW pk \in Packet, NEW t, NEW p
    PROVE  ~Carrying([type |-> t, peer |-> p], pk)
BY DEF Packet, Carrying

\* ... and a message the packet it names.
LEMMA MessageCarries ==
    ASSUME NEW pk \in Packet, NEW e, "packet" \in DOMAIN e, "type" \in DOMAIN e
    PROVE  Carrying(e, pk) <=> e.packet = pk
<1>1. "type" \notin DOMAIN pk
  BY DEF Packet
<1>2. e # pk
  BY <1>1
<1> QED
  BY <1>2 DEF Carrying

\* The two messages the coordinator's parts make of a packet.
LEMMA WrappedCarries ==
    ASSUME NEW pk \in Packet, NEW x \in Packet, NEW p
    PROVE  /\ Carrying([type |-> "SendPacketTo", peer |-> p, packet |-> x], pk) <=> x = pk
           /\ Carrying([type |-> "WriteToTun", packet |-> x], pk) <=> x = pk
           /\ Carrying([type |-> "RecvPacketFrom", peer |-> p, packet |-> x], pk) <=> x = pk
<1>1. /\ "packet" \in DOMAIN [type |-> "SendPacketTo", peer |-> p, packet |-> x]
      /\ "type" \in DOMAIN [type |-> "SendPacketTo", peer |-> p, packet |-> x]
      /\ [type |-> "SendPacketTo", peer |-> p, packet |-> x].packet = x
  OBVIOUS
<1>2. /\ "packet" \in DOMAIN [type |-> "WriteToTun", packet |-> x]
      /\ "type" \in DOMAIN [type |-> "WriteToTun", packet |-> x]
      /\ [type |-> "WriteToTun", packet |-> x].packet = x
  OBVIOUS
<1>3. /\ "packet" \in DOMAIN [type |-> "RecvPacketFrom", peer |-> p, packet |-> x]
      /\ "type" \in DOMAIN [type |-> "RecvPacketFrom", peer |-> p, packet |-> x]
      /\ [type |-> "RecvPacketFrom", peer |-> p, packet |-> x].packet = x
  OBVIOUS
<1>4. Carrying([type |-> "SendPacketTo", peer |-> p, packet |-> x], pk) <=> x = pk
  BY <1>1, MessageCarries
<1>5. Carrying([type |-> "WriteToTun", packet |-> x], pk) <=> x = pk
  BY <1>2, MessageCarries
<1>6. Carrying([type |-> "RecvPacketFrom", peer |-> p, packet |-> x], pk) <=> x = pk
  BY <1>3, MessageCarries
<1> QED
  BY <1>4, <1>5, <1>6

-----------------------------------------------------------------------------
\* The steps.

\* Nothing moves.
LEMMA OnceSame ==
    ASSUME NEW pk, Tracked(pk), OneCopy(pk),
           UNCHANGED <<tun_to_coord, actions, coord_to_iroh, iroh_to_coord, coord_to_tun,
                       packet_queue, packet_channel, datagrams, reads>>
    PROVE  OneCopy(pk)'
<1>1. \A w, k : IsPlace(w, k) => SameAt(pk, w, k)
  BY Contents, ContentsNext DEF IsPlace, NodePlace, SameAt
<1> QED
  BY <1>1, SameIsKept, KeepAll

\* Only the channel to the coordinator of n changes.
LEMMA OnceIrohToCoord ==
    ASSUME NEW pk, Tracked(pk), OneCopy(pk), NEW n \in Local,
           \A k \in Local \ {n} : iroh_to_coord'[k] = iroh_to_coord[k],
           Kept(pk, iroh_to_coord[n], iroh_to_coord'[n]),
           UNCHANGED <<tun_to_coord, actions, coord_to_iroh, coord_to_tun,
                       packet_queue, packet_channel, datagrams, reads>>
    PROVE  OneCopy(pk)'
<1>1. \A w, k : IsPlace(w, k) /\ ~(w = "iroh_to_coord" /\ k = n) => SameAt(pk, w, k)
  BY Contents, ContentsNext DEF IsPlace, NodePlace, SameAt
<1>2. KeptAt(pk, "iroh_to_coord", n)
  BY Contents, ContentsNext DEF KeptAt
<1> QED
  BY <1>1, <1>2, SameIsKept, KeepAll

\* Only the channel to the manager of n changes.
LEMMA OnceCoordToIroh ==
    ASSUME NEW pk, Tracked(pk), OneCopy(pk), NEW n \in Local,
           \A k \in Local \ {n} : coord_to_iroh'[k] = coord_to_iroh[k],
           Kept(pk, coord_to_iroh[n], coord_to_iroh'[n]),
           UNCHANGED <<tun_to_coord, actions, iroh_to_coord, coord_to_tun,
                       packet_queue, packet_channel, datagrams, reads>>
    PROVE  OneCopy(pk)'
<1>1. \A w, k : IsPlace(w, k) /\ ~(w = "coord_to_iroh" /\ k = n) => SameAt(pk, w, k)
  BY Contents, ContentsNext DEF IsPlace, NodePlace, SameAt
<1>2. KeptAt(pk, "coord_to_iroh", n)
  BY Contents, ContentsNext DEF KeptAt
<1> QED
  BY <1>1, <1>2, SameIsKept, KeepAll

\* Packet channels and datagrams only lose packets, or gain others.
LEMMA OnceConnections ==
    ASSUME NEW pk, Tracked(pk), OneCopy(pk),
           \A c \in Conn, n \in Node :
              /\ Kept(pk, packet_channel[c][n], packet_channel'[c][n])
              /\ pk \in datagrams'[c][n] => pk \in datagrams[c][n],
           UNCHANGED <<tun_to_coord, actions, iroh_to_coord, coord_to_iroh, coord_to_tun,
                       packet_queue, reads>>
    PROVE  OneCopy(pk)'
<1>1. \A w, k : IsPlace(w, k) /\ w \notin {"packet_channel", "datagrams"} => SameAt(pk, w, k)
  BY Contents, ContentsNext DEF IsPlace, NodePlace, SameAt
<1>2. ASSUME NEW k \in Conn \X Node
      PROVE  KeptAt(pk, "packet_channel", k) /\ KeptAt(pk, "datagrams", k)
  <2>1. k[1] \in Conn /\ k[2] \in Node
    OBVIOUS
  <2>2. KeptAt(pk, "packet_channel", k)
    BY <2>1, Contents, ContentsNext DEF KeptAt
  <2>3. Kept(pk, Mark(datagrams[k[1]][k[2]], pk), Mark(datagrams'[k[1]][k[2]], pk))
    BY <2>1, MarkOccurs DEF Kept
  <2>4. KeptAt(pk, "datagrams", k)
    BY <2>3, Contents, ContentsNext DEF KeptAt
  <2> QED
    BY <2>2, <2>4
<1>3. \A w, k : IsPlace(w, k) /\ w \in {"packet_channel", "datagrams"} => KeptAt(pk, w, k)
  BY <1>2 DEF IsPlace, NodePlace
<1> QED
  BY <1>1, <1>3, SameIsKept, KeepAll

-----------------------------------------------------------------------------
\* The managers.

\* Status events carry no packet.
LEMMA OnceAnnounce ==
    ASSUME MeshInv, NEW pk, Tracked(pk), OneCopy(pk), NEW n \in Local,
           NEW t \in {"ConnectedToPeer", "DisconnectedFromPeer"}, NEW p \in Node,
           Announce(n, t, p),
           UNCHANGED <<coord_to_iroh, packet_channel, datagrams, coordOnlyVars>>
    PROVE  OneCopy(pk)'
<1> DEFINE e == [type |-> t, peer |-> p]
<1>1. iroh_to_coord \in [Local -> Seq(IrohEvent)] /\ iroh_to_coord[n] \in Seq(IrohEvent)
  BY DEF MeshInv, CoordInv, CoordTypeOK, WiringTypeOK
<1>2. e \in IrohEvent
  BY DEF IrohEvent
<1>3. /\ iroh_to_coord'[n] = Append(iroh_to_coord[n], e)
      /\ \A k \in Local \ {n} : iroh_to_coord'[k] = iroh_to_coord[k]
  BY <1>1 DEF Announce
<1>4. ~Carrying(e, pk)
  BY StatusCarriesNothing DEF Tracked
<1> HIDE DEF e
<1>5. Kept(pk, iroh_to_coord[n], iroh_to_coord'[n])
  BY <1>1, <1>2, <1>3, <1>4, PutIsKept
<1> QED
  BY <1>3, <1>5, OnceIrohToCoord DEF coordOnlyVars

\* The manager takes an action that it does not pass on.
LEMMA OnceTakeAction ==
    ASSUME MeshInv, NEW pk, Tracked(pk), OneCopy(pk), NEW n \in Local, coord_to_iroh[n] # <<>>,
           coord_to_iroh' = [coord_to_iroh EXCEPT ![n] = Tail(coord_to_iroh[n])],
           UNCHANGED <<iroh_to_coord, packet_channel, datagrams, coordOnlyVars>>
    PROVE  OneCopy(pk)'
<1>1. coord_to_iroh \in [Local -> Seq(CoreAction)] /\ coord_to_iroh[n] \in Seq(CoreAction)
  BY DEF MeshInv, CoordInv, CoordTypeOK, WiringTypeOK
<1>2. /\ coord_to_iroh'[n] = Tail(coord_to_iroh[n])
      /\ \A k \in Local \ {n} : coord_to_iroh'[k] = coord_to_iroh[k]
  BY <1>1
<1>3. Kept(pk, coord_to_iroh[n], coord_to_iroh'[n])
  BY <1>1, <1>2, AfterTake
<1> QED
  BY <1>2, <1>3, OnceCoordToIroh DEF coordOnlyVars

\* A place of a connection is found by both parts of its key.
LEMMA PlaceOfConn ==
    ASSUME NEW c \in Conn, NEW n \in Node
    PROVE  /\ <<c, n>> \in Conn \X Node /\ <<c, n>>[1] = c /\ <<c, n>>[2] = n
           /\ \A k \in Conn \X Node : k # <<c, n>> => k[1] # c \/ k[2] # n
OBVIOUS

\* An action of the core becomes a packet in the channel of a session.
LEMMA OnceToSession ==
    ASSUME MeshInv, NEW pk, Tracked(pk), OneCopy(pk), NEW n \in Local, NEW c \in Conn,
           coord_to_iroh[n] # <<>>, "packet" \in DOMAIN Head(coord_to_iroh[n]),
           "type" \in DOMAIN Head(coord_to_iroh[n]), Head(coord_to_iroh[n]).packet \in Packet,
           coord_to_iroh' = [coord_to_iroh EXCEPT ![n] = Tail(coord_to_iroh[n])],
           packet_channel' = [packet_channel EXCEPT ![c][n] =
                                Append(packet_channel[c][n], Head(coord_to_iroh[n]).packet)],
           UNCHANGED <<iroh_to_coord, datagrams, coordOnlyVars>>
    PROVE  OneCopy(pk)'
<1> DEFINE a == Head(coord_to_iroh[n])
<1>1. /\ coord_to_iroh \in [Local -> Seq(CoreAction)] /\ coord_to_iroh[n] \in Seq(CoreAction)
      /\ packet_channel \in [Conn -> [Node -> Seq(Packet)]] /\ n \in Node
  BY NodeType DEF MeshInv, IrohInv, IrohTypeOK, WiringTypeOK
<1>2. /\ packet_channel[c][n] \in Seq(Packet)
      /\ packet_channel'[c][n] = Append(packet_channel[c][n], a.packet)
      /\ \A d \in Conn, m \in Node : d # c \/ m # n => packet_channel'[d][m] = packet_channel[d][m]
  BY <1>1
<1>3. Passed(pk, coord_to_iroh[n], packet_channel[c][n], Tail(coord_to_iroh[n]),
             packet_channel'[c][n])
  <2>1. Carrying(a.packet, pk) => Carrying(a, pk)
    BY PacketCarries, MessageCarries DEF Tracked
  <2>2. Kept(pk, packet_channel[c][n], packet_channel[c][n])
    BY DEF Kept
  <2> QED
    BY <1>1, <1>2, <2>1, <2>2, HeadPasses
<1>4. /\ coord_to_iroh'[n] = Tail(coord_to_iroh[n])
      /\ \A k \in Local \ {n} : coord_to_iroh'[k] = coord_to_iroh[k]
  BY <1>1
<1>l. PICK l \in Conn \X Node : l = <<c, n>>
  BY <1>1
<1>5. l[1] = c /\ l[2] = n
  BY <1>l
<1>6. \A k \in Conn \X Node : k # l => packet_channel'[k[1]][k[2]] = packet_channel[k[1]][k[2]]
  BY <1>1, <1>2, <1>l, PlaceOfConn
<1>7. IsPlace("coord_to_iroh", n) /\ IsPlace("packet_channel", l)
  BY <1>5 DEF IsPlace, NodePlace
<1>8. ASSUME NEW w, NEW k, IsPlace(w, k), ~(w = "coord_to_iroh" /\ k = n),
             ~(w = "packet_channel" /\ k = l)
      PROVE  SameAt(pk, w, k)
  <2>1. CASE w = "coord_to_iroh"
    <3>1. k \in Local \ {n}
      BY <1>8, <2>1 DEF IsPlace
    <3> QED
      BY <1>4, <2>1, <3>1, Contents, ContentsNext DEF SameAt
  <2>2. CASE w = "packet_channel"
    <3>1. k \in Conn \X Node /\ k # l
      BY <1>8, <2>2 DEF IsPlace, NodePlace
    <3>2. packet_channel'[k[1]][k[2]] = packet_channel[k[1]][k[2]]
      BY <1>6, <3>1
    <3> QED
      BY <2>2, <3>2, SameInPair
  <2>3. CASE w \notin {"coord_to_iroh", "packet_channel"}
    <3>1. w \in {"tun_to_coord", "actions", "iroh_to_coord", "coord_to_tun", "packet_queue",
                  "datagrams"}
      BY <1>8, <2>3 DEF IsPlace, NodePlace
    <3>2. UNCHANGED <<tun_to_coord, actions, iroh_to_coord, coord_to_tun, packet_queue, datagrams>>
      BY DEF coordOnlyVars
    <3> QED
      BY <3>1, <3>2, Contents, ContentsNext DEF SameAt
  <2> QED
    BY <2>1, <2>2, <2>3
<1>9. Passed(pk, Content(pk, "coord_to_iroh", n), Content(pk, "packet_channel", l),
             Content(pk, "coord_to_iroh", n)', Content(pk, "packet_channel", l)')
  <2>1. Content(pk, "packet_channel", l) = packet_channel[c][n]
    BY <1>5, Contents
  <2>2. Content(pk, "packet_channel", l)' = packet_channel'[c][n]
    BY <1>5, ContentsNext
  <2>3. Content(pk, "coord_to_iroh", n) = coord_to_iroh[n]
    BY Contents
  <2>4. Content(pk, "coord_to_iroh", n)' = coord_to_iroh'[n]
    BY ContentsNext
  <2> QED
    BY <1>3, <1>4, <2>1, <2>2, <2>3, <2>4, Zenon
<1>10. \A w, k : /\ IsPlace(w, k)
                 /\ ~(w = "coord_to_iroh" /\ k = n)
                 /\ ~(w = "packet_channel" /\ k = l)
                 => KeptAt(pk, w, k)
  BY <1>8, SameIsKept
<1>11. reads' = reads /\ "coord_to_iroh" # "packet_channel"
  BY DEF coordOnlyVars
<1> QED
  BY <1>7, <1>9, <1>10, <1>11, PassOn

\* SendPacketTo passes its packet to a session, or drops it.
LEMMA OnceSendPacketTo ==
    ASSUME MeshInv, NEW pk, Tracked(pk), OneCopy(pk), NEW n \in Local, SendPacketTo(n),
           UNCHANGED coordOnlyVars
    PROVE  OneCopy(pk)'
<1> DEFINE a == Head(coord_to_iroh[n])
<1>1. /\ coord_to_iroh[n] \in Seq(CoreAction)
      /\ coord_to_iroh[n] # <<>> /\ a.type = "SendPacketTo"
      /\ coord_to_iroh' = [coord_to_iroh EXCEPT ![n] = Tail(coord_to_iroh[n])]
      /\ UNCHANGED <<iroh_to_coord, datagrams>>
  BY DEF MeshInv, CoordInv, CoordTypeOK, WiringTypeOK, SendPacketTo, TakeAction
<1>2. a \in CoreAction
  BY <1>1, Receive
<1>3. a \in [type : {"SendPacketTo"}, peer : Node, packet : Packet]
  BY <1>1, <1>2 DEF CoreAction
<1>4. CASE UNCHANGED packet_channel
  BY <1>1, <1>4, OnceTakeAction
<1>5. CASE packet_channel' # packet_channel
  <2> DEFINE st == state_table[n][a.peer]
  <2>1. /\ st.type = "Connected"
        /\ packet_channel' = [packet_channel EXCEPT ![st.conn][n] =
                                Append(packet_channel[st.conn][n], a.packet)]
    BY <1>5 DEF SendPacketTo
  <2>2. st \in ConnectionState
    BY <1>3 DEF MeshInv, IrohInv, IrohTypeOK
  <2>3. PICK c \in Conn : c = st.conn
    BY <2>1, <2>2 DEF ConnectionState
  <2>4. "packet" \in DOMAIN a /\ "type" \in DOMAIN a /\ a.packet \in Packet
    BY <1>3
  <2>5. packet_channel' = [packet_channel EXCEPT ![c][n] = Append(packet_channel[c][n], a.packet)]
    BY <2>1, <2>3
  <2> QED
    BY <1>1, <2>4, <2>5, OnceToSession
<1> QED
  BY <1>4, <1>5

\* Every step of a manager, and the start of a process.
LEMMA OnceManager ==
    ASSUME MeshInv, NEW pk, Tracked(pk), OneCopy(pk), NEW n \in Local,
           ManagerStep(n) \/ Start(n), UNCHANGED coordOnlyVars
    PROVE  OneCopy(pk)'
<1>0. /\ manager[n] \in Manager
      /\ coord_to_iroh[n] \in Seq(CoreAction)
  BY DEF MeshInv, IrohInv, IrohTypeOK, WiringTypeOK
<1>1. CASE OutgoingConnection(n) \/ IncomingConnection(n) \/ Disconnected(n) \/ Start(n)
  <2>1. UNCHANGED <<iroh_to_coord, coord_to_iroh, packet_channel, datagrams>>
    BY <1>1 DEF OutgoingConnection, IncomingConnection, NewConnection, Disconnected, Start
  <2> QED
    BY <2>1, OnceSame DEF coordOnlyVars
<1>2. CASE init_ready_connection(n)
  <2>1. manager[n].conn \in Conn
    BY <1>0, <1>2 DEF init_ready_connection, Manager
  <2>2. remote_id(manager[n].conn, n) \in Node
    BY <2>1, ConnType DEF remote_id
  <2>3. /\ Announce(n, "ConnectedToPeer", remote_id(manager[n].conn, n))
        /\ UNCHANGED <<coord_to_iroh, packet_channel, datagrams>>
    BY <1>2 DEF init_ready_connection
  <2> QED
    BY <2>2, <2>3, OnceAnnounce
<1>3. CASE ReconnectAfterLoss(n) \/ DropConnected(n)
  <2>1. manager[n].peer \in Node
    BY <1>0, <1>3 DEF ReconnectAfterLoss, DropConnected, Manager
  <2>2. /\ Announce(n, "DisconnectedFromPeer", manager[n].peer)
        /\ UNCHANGED <<coord_to_iroh, packet_channel, datagrams>>
    BY <1>3 DEF ReconnectAfterLoss, DropConnected
  <2> QED
    BY <2>1, <2>2, OnceAnnounce
<1>4. CASE SendPacketTo(n)
  BY <1>4, OnceSendPacketTo
<1>5. CASE ConnectToPeer(n) \/ DisconnectFromPeer(n)
  <2>1. /\ coord_to_iroh[n] # <<>>
        /\ coord_to_iroh' = [coord_to_iroh EXCEPT ![n] = Tail(coord_to_iroh[n])]
        /\ UNCHANGED <<iroh_to_coord, packet_channel, datagrams>>
    BY <1>5 DEF ConnectToPeer, DisconnectFromPeer, TakeAction
  <2> QED
    BY <2>1, OnceTakeAction
<1> QED
  BY <1>1, <1>2, <1>3, <1>4, <1>5 DEF ManagerStep

-----------------------------------------------------------------------------
\* The sessions and the network.

\* Taking a datagram off the network, and handing it to a channel that may be full.
LEMMA DatagramPasses ==
    ASSUME NEW pk \in Packet, NEW D, NEW x \in Packet, x \in D, NEW p \in Node,
           NEW t \in Seq(IrohEvent),
           NEW t2, t2 = TrySend(t, [type |-> "RecvPacketFrom", peer |-> p, packet |-> x])
    PROVE  Passed(pk, Mark(D, pk), t, Mark(D \ {x}, pk), t2)
<1> DEFINE e == [type |-> "RecvPacketFrom", peer |-> p, packet |-> x]
           s == Mark(D, pk)
           r == Mark(D \ {x}, pk)
<1>1. e \in IrohEvent /\ (t2 = t \/ t2 = Append(t, e))
  BY DEF IrohEvent, TrySend
<1>2. Carrying(e, pk) <=> x = pk
  BY WrappedCarries
<1>3. /\ Occurs(s, pk) <=> pk \in D
      /\ Once(s, pk) /\ Once(r, pk)
      /\ Occurs(r, pk) <=> pk \in D /\ pk # x
  BY MarkOccurs
<1> DEFINE a == Append(t, e)
<1>4. /\ Occurs(a, pk) <=> Occurs(t, pk) \/ Carrying(e, pk)
      /\ Once(t, pk) /\ ~(Occurs(t, pk) /\ Carrying(e, pk)) => Once(a, pk)
  BY <1>1, AfterPut
<1>5. t2 = t \/ t2 = a
  BY <1>1
<1> HIDE DEF a, e, r, s
<1>6. Passed(pk, s, t, r, t2)
  BY <1>2, <1>3, <1>4, <1>5 DEF Passed, Kept
<1> QED
  BY <1>6 DEF r, s

\* A session takes a datagram off the connection and reports it, or drops it.
LEMMA OnceSessionRead ==
    ASSUME MeshInv, NEW pk, Tracked(pk), OneCopy(pk), NEW c \in Conn, NEW n \in Local,
           n \in {c.from, c.to}, SessionRead(c, n), UNCHANGED coordOnlyVars
    PROVE  OneCopy(pk)'
<1> DEFINE p == remote_id(c, n)
<1>1. /\ iroh_to_coord \in [Local -> Seq(IrohEvent)] /\ iroh_to_coord[n] \in Seq(IrohEvent)
      /\ datagrams \in [Conn -> [Node -> SUBSET Packet]] /\ n \in Node
  BY NodeType DEF MeshInv, IrohInv, IrohTypeOK, WiringTypeOK
<1>2. p \in Node
  BY <1>1, ConnType
<1>3. PICK x \in datagrams[c][n] :
        /\ datagrams' = [datagrams EXCEPT ![c][n] = datagrams[c][n] \ {x}]
        /\ iroh_to_coord' = [iroh_to_coord EXCEPT ![n] =
             TrySend(iroh_to_coord[n], [type |-> "RecvPacketFrom", peer |-> p, packet |-> x])]
  BY DEF SessionRead
<1>4. UNCHANGED <<coord_to_iroh, packet_channel>>
  BY DEF SessionRead
<1>5. /\ x \in Packet
      /\ datagrams'[c][n] = datagrams[c][n] \ {x}
      /\ \A d \in Conn, m \in Node : d # c \/ m # n => datagrams'[d][m] = datagrams[d][m]
  BY <1>1, <1>3
<1>6. /\ iroh_to_coord'[n] =
           TrySend(iroh_to_coord[n], [type |-> "RecvPacketFrom", peer |-> p, packet |-> x])
      /\ \A k \in Local \ {n} : iroh_to_coord'[k] = iroh_to_coord[k]
  BY <1>1, <1>3
<1>7. Passed(pk, Mark(datagrams[c][n], pk), iroh_to_coord[n], Mark(datagrams'[c][n], pk),
             iroh_to_coord'[n])
  BY <1>1, <1>2, <1>5, <1>6, DatagramPasses DEF Tracked
<1>l. PICK l \in Conn \X Node : l = <<c, n>>
  BY <1>1
<1>8. l[1] = c /\ l[2] = n
  BY <1>l
<1>9. \A k \in Conn \X Node : k # l => datagrams'[k[1]][k[2]] = datagrams[k[1]][k[2]]
  BY <1>1, <1>5, <1>l, PlaceOfConn
<1>10. IsPlace("iroh_to_coord", n) /\ IsPlace("datagrams", l)
  BY <1>l DEF IsPlace, NodePlace
<1>11. ASSUME NEW w, NEW k, IsPlace(w, k), ~(w = "datagrams" /\ k = l),
              ~(w = "iroh_to_coord" /\ k = n)
       PROVE  SameAt(pk, w, k)
  <2>1. CASE w = "iroh_to_coord"
    <3>1. k \in Local \ {n}
      BY <1>11, <2>1 DEF IsPlace
    <3> QED
      BY <1>6, <2>1, <3>1, Contents, ContentsNext DEF SameAt
  <2>2. CASE w = "datagrams"
    <3>1. k \in Conn \X Node /\ k # l
      BY <1>11, <2>2 DEF IsPlace, NodePlace
    <3>2. datagrams'[k[1]][k[2]] = datagrams[k[1]][k[2]]
      BY <1>9, <3>1
    <3> QED
      BY <2>2, <3>2, SameInPair
  <2>3. CASE w \notin {"iroh_to_coord", "datagrams"}
    <3>1. w \in {"tun_to_coord", "actions", "coord_to_iroh", "coord_to_tun", "packet_queue",
                  "packet_channel"}
      BY <1>11, <2>3 DEF IsPlace, NodePlace
    <3>2. UNCHANGED <<tun_to_coord, actions, coord_to_iroh, coord_to_tun, packet_queue,
                      packet_channel>>
      BY <1>4 DEF coordOnlyVars
    <3> QED
      BY <3>1, <3>2, Contents, ContentsNext DEF SameAt
  <2> QED
    BY <2>1, <2>2, <2>3
<1>12. Passed(pk, Content(pk, "datagrams", l), Content(pk, "iroh_to_coord", n),
              Content(pk, "datagrams", l)', Content(pk, "iroh_to_coord", n)')
  <2>1. Content(pk, "datagrams", l) = Mark(datagrams[c][n], pk)
    BY <1>8, Contents
  <2>2. Content(pk, "datagrams", l)' = Mark(datagrams'[c][n], pk)
    BY <1>8, ContentsNext
  <2>3. Content(pk, "iroh_to_coord", n) = iroh_to_coord[n]
    BY Contents
  <2>4. Content(pk, "iroh_to_coord", n)' = iroh_to_coord'[n]
    BY ContentsNext
  <2> QED
    BY <1>7, <2>1, <2>2, <2>3, <2>4, Zenon
<1>13. \A w, k : /\ IsPlace(w, k)
                 /\ ~(w = "datagrams" /\ k = l)
                 /\ ~(w = "iroh_to_coord" /\ k = n)
                 => KeptAt(pk, w, k)
  BY <1>11, SameIsKept
<1>14. reads' = reads /\ "iroh_to_coord" # "datagrams"
  BY DEF coordOnlyVars
<1> QED
  BY <1>10, <1>12, <1>13, <1>14, PassOn

\* The first packet of a session's channel joins the datagrams.
LEMMA SentPasses ==
    ASSUME NEW pk \in Packet, NEW s \in Seq(Packet), s # <<>>, NEW D
    PROVE  Passed(pk, s, Mark(D, pk), Tail(s), Mark(D \cup {Head(s)}, pk))
<1> DEFINE r == Tail(s)  h == Head(s)  t == Mark(D, pk)  t2 == Mark(D \cup {h}, pk)
<1>1. /\ Kept(pk, s, r)
      /\ Carrying(h, pk) => Occurs(s, pk)
      /\ Carrying(h, pk) /\ Once(s, pk) => ~Occurs(r, pk)
  BY AfterTake
<1>2. h \in Packet
  BY Receive
<1>3. Carrying(h, pk) <=> h = pk
  BY <1>2, PacketCarries
<1>4. /\ Occurs(t, pk) <=> pk \in D
      /\ Occurs(t2, pk) <=> pk \in D \/ pk = h
      /\ Once(t2, pk)
  BY MarkOccurs
<1> HIDE DEF r, h, t, t2
<1>5. Passed(pk, s, t, r, t2)
  BY <1>1, <1>3, <1>4 DEF Passed, Kept
<1> QED
  BY <1>5 DEF r, h, t, t2

\* A session takes a packet off its channel and sends it once, or drops it.
LEMMA OnceSessionSend ==
    ASSUME MeshInv, NEW pk, Tracked(pk), OneCopy(pk), NEW c \in Conn, NEW n \in Local,
           n \in {c.from, c.to}, SessionSend(c, n), UNCHANGED coordOnlyVars
    PROVE  OneCopy(pk)'
<1> DEFINE s == packet_channel[c][n]
<1>1. /\ packet_channel \in [Conn -> [Node -> Seq(Packet)]]
      /\ datagrams \in [Conn -> [Node -> SUBSET Packet]] /\ n \in Node
  BY NodeType DEF MeshInv, IrohInv, IrohTypeOK
<1>2. PICK r \in Node : r = remote_id(c, n)
  BY <1>1, ConnType
<1>3. /\ s \in Seq(Packet) /\ s # <<>>
      /\ packet_channel' = [packet_channel EXCEPT ![c][n] = Tail(s)]
      /\ UNCHANGED <<iroh_to_coord, coord_to_iroh>>
  BY <1>1 DEF SessionSend, managerVars
<1>4. /\ packet_channel'[c][n] = Tail(s)
      /\ \A d \in Conn, m \in Node : d # c \/ m # n => packet_channel'[d][m] = packet_channel[d][m]
  BY <1>1, <1>3
<1>5. CASE UNCHANGED datagrams
  <2>1. Kept(pk, s, Tail(s))
    BY <1>3, AfterTake
  <2>2. \A q : Kept(pk, q, q)
    BY DEF Kept
  <2>3. \A d \in Conn, m \in Node : Kept(pk, packet_channel[d][m], packet_channel'[d][m])
    BY <1>4, <2>1, <2>2
  <2> QED
    BY <1>3, <1>5, <2>3, OnceConnections DEF coordOnlyVars
<1>6. CASE datagrams' = [datagrams EXCEPT ![c][r] = datagrams[c][r] \cup {Head(s)}]
  <2>1. /\ datagrams'[c][r] = datagrams[c][r] \cup {Head(s)}
        /\ \A d \in Conn, m \in Node : d # c \/ m # r => datagrams'[d][m] = datagrams[d][m]
    BY <1>1, <1>6
  <2>2. Passed(pk, s, Mark(datagrams[c][r], pk), Tail(s), Mark(datagrams[c][r] \cup {Head(s)}, pk))
    BY <1>3, SentPasses DEF Tracked
  <2>3. Passed(pk, s, Mark(datagrams[c][r], pk), packet_channel'[c][n], Mark(datagrams'[c][r], pk))
    BY <1>4, <2>1, <2>2
  <2>4. PICK l \in Conn \X Node : l = <<c, n>>
    BY <1>1
  <2>5. PICK g \in Conn \X Node : g = <<c, r>>
    OBVIOUS
  <2>6. l[1] = c /\ l[2] = n /\ g[1] = c /\ g[2] = r
    BY <2>4, <2>5
  <2>7. \A k \in Conn \X Node : k # l => packet_channel'[k[1]][k[2]] = packet_channel[k[1]][k[2]]
    BY <1>1, <1>4, <2>4, PlaceOfConn
  <2>8. \A k \in Conn \X Node : k # g => datagrams'[k[1]][k[2]] = datagrams[k[1]][k[2]]
    BY <2>1, <2>5, PlaceOfConn
  <2>9. IsPlace("packet_channel", l) /\ IsPlace("datagrams", g)
    BY <2>4, <2>5 DEF IsPlace, NodePlace
  <2>10. ASSUME NEW w, NEW k, IsPlace(w, k), ~(w = "packet_channel" /\ k = l),
                ~(w = "datagrams" /\ k = g)
         PROVE  SameAt(pk, w, k)
    <3>1. CASE w = "packet_channel"
      <4>1. k \in Conn \X Node /\ k # l
        BY <2>10, <3>1 DEF IsPlace, NodePlace
      <4>2. packet_channel'[k[1]][k[2]] = packet_channel[k[1]][k[2]]
        BY <2>7, <4>1
      <4> QED
        BY <3>1, <4>2, SameInPair
    <3>2. CASE w = "datagrams"
      <4>1. k \in Conn \X Node /\ k # g
        BY <2>10, <3>2 DEF IsPlace, NodePlace
      <4>2. datagrams'[k[1]][k[2]] = datagrams[k[1]][k[2]]
        BY <2>8, <4>1
      <4> QED
        BY <3>2, <4>2, SameInPair
    <3>3. CASE w \notin {"packet_channel", "datagrams"}
      <4>1. w \in {"tun_to_coord", "actions", "coord_to_iroh", "iroh_to_coord", "coord_to_tun",
                   "packet_queue"}
        BY <2>10, <3>3 DEF IsPlace, NodePlace
      <4>2. UNCHANGED <<tun_to_coord, actions, coord_to_iroh, iroh_to_coord, coord_to_tun,
                        packet_queue>>
        BY <1>3 DEF coordOnlyVars
      <4> QED
        BY <4>1, <4>2, Contents, ContentsNext DEF SameAt
    <3> QED
      BY <3>1, <3>2, <3>3
  <2>11. Passed(pk, Content(pk, "packet_channel", l), Content(pk, "datagrams", g),
                Content(pk, "packet_channel", l)', Content(pk, "datagrams", g)')
    <3>1. Content(pk, "packet_channel", l) = packet_channel[c][n]
      BY <2>6, Contents
    <3>2. Content(pk, "packet_channel", l)' = packet_channel'[c][n]
      BY <2>6, ContentsNext
    <3>3. Content(pk, "datagrams", g) = Mark(datagrams[c][r], pk)
      BY <2>6, Contents
    <3>4. Content(pk, "datagrams", g)' = Mark(datagrams'[c][r], pk)
      BY <2>6, ContentsNext
    <3> QED
      BY <2>3, <3>1, <3>2, <3>3, <3>4, Zenon
  <2>12. \A w, k : /\ IsPlace(w, k)
                   /\ ~(w = "packet_channel" /\ k = l)
                   /\ ~(w = "datagrams" /\ k = g)
                   => KeptAt(pk, w, k)
    BY <2>10, SameIsKept
  <2>13. reads' = reads /\ "packet_channel" # "datagrams"
    BY DEF coordOnlyVars
  <2> QED
    BY <2>9, <2>11, <2>12, <2>13, PassOn
<1> QED
  BY <1>2, <1>5, <1>6 DEF SessionSend

\* A session that ends takes its packets along.
LEMMA OnceSessionEnds ==
    ASSUME MeshInv, NEW pk, Tracked(pk), OneCopy(pk), NEW c \in Conn, NEW n \in Local,
           SessionEnds(c, n), UNCHANGED coordOnlyVars
    PROVE  OneCopy(pk)'
<1>1. packet_channel \in [Conn -> [Node -> Seq(Packet)]] /\ n \in Node
  BY NodeType DEF MeshInv, IrohInv, IrohTypeOK
<1>2. /\ packet_channel' = [packet_channel EXCEPT ![c][n] = <<>>]
      /\ UNCHANGED <<iroh_to_coord, coord_to_iroh, datagrams>>
  BY DEF SessionEnds, managerVars
<1>3. \A d \in Conn, m \in Node :
        packet_channel'[d][m] = <<>> \/ packet_channel'[d][m] = packet_channel[d][m]
  BY <1>1, <1>2
<1>4. \A q : Kept(pk, q, q) /\ Kept(pk, q, <<>>)
  BY EmptyIsKept DEF Kept
<1>5. \A d \in Conn, m \in Node : Kept(pk, packet_channel[d][m], packet_channel'[d][m])
  BY <1>3, <1>4
<1> QED
  BY <1>2, <1>5, OnceConnections DEF coordOnlyVars

\* What a foreign node sends is never a packet that was read from a TUN device, and
\* the network forgets the datagrams of a connection that is gone.
LEMMA OnceNetwork ==
    ASSUME MeshInv, NEW pk, Tracked(pk), OneCopy(pk), NEW c \in Conn, NEW n \in Node,
           HandlesDropped(c, n) \/ ForeignSend(c, n), UNCHANGED coordOnlyVars
    PROVE  OneCopy(pk)'
<1>1. datagrams \in [Conn -> [Node -> SUBSET Packet]]
  BY DEF MeshInv, IrohInv, IrohTypeOK
<1>2. UNCHANGED <<iroh_to_coord, coord_to_iroh, packet_channel>>
  BY DEF HandlesDropped, ForeignSend, connOnlyVars, managerVars
<1>3. ASSUME NEW d \in Conn, NEW m \in Node, pk \in datagrams'[d][m]
      PROVE  pk \in datagrams[d][m]
  <2>1. CASE HandlesDropped(c, n)
    <3>1. datagrams' = [datagrams EXCEPT ![c][n] = {}]
      BY <2>1 DEF HandlesDropped
    <3> QED
      BY <1>1, <1>3, <3>1
  <2>2. CASE ForeignSend(c, n)
    <3>1. PICK r \in Node : r = remote_id(c, n)
      BY ConnType
    <3>2. PICK h \in Header :
            datagrams' = [datagrams EXCEPT ![c][r] =
                            datagrams[c][r] \cup {[hdr |-> h, origin |-> n, seq |-> 0]}]
      BY <2>2, <3>1 DEF ForeignSend
    <3>3. pk # [hdr |-> h, origin |-> n, seq |-> 0]
      BY DEF Tracked
    <3>4. \/ datagrams'[d][m] = datagrams[d][m]
          \/ datagrams'[d][m] = datagrams[d][m] \cup {[hdr |-> h, origin |-> n, seq |-> 0]}
      BY <1>1, <3>1, <3>2
    <3> QED
      BY <1>3, <3>3, <3>4, Zenon
  <2> QED
    BY <2>1, <2>2
<1>4. \A q : Kept(pk, q, q)
  BY DEF Kept
<1> QED
  BY <1>2, <1>3, <1>4, OnceConnections DEF coordOnlyVars

\* Every step of the tasks and of the network.
LEMMA OnceTasks ==
    ASSUME MeshInv, NEW pk, Tracked(pk), OneCopy(pk), NEW c \in Conn, TaskStep(c),
           UNCHANGED coordOnlyVars
    PROVE  OneCopy(pk)'
<1>1. CASE \/ ConnectOk(c) \/ ConnectErr(c) \/ ConnectRetry(c) \/ ConnectDone(c)
           \/ ConnectCancelled(c) \/ AcceptOk(c) \/ AcceptErr(c) \/ ForeignConnect(c)
  <2>1. UNCHANGED <<iroh_to_coord, coord_to_iroh, packet_channel, datagrams>>
    BY <1>1 DEF ConnectOk, ConnectErr, ConnectRetry, ConnectDone, ConnectCancelled, AcceptOk,
                AcceptErr, ForeignConnect, managerVars
  <2> QED
    BY <2>1, OnceSame DEF coordOnlyVars
<1>2. ASSUME NEW n \in {c.from, c.to}, n \in Local,
             \/ SessionRead(c, n) \/ SessionSend(c, n) \/ SessionErr(c, n)
             \/ SessionChannelClosed(c, n) \/ SessionCancelled(c, n)
      PROVE  OneCopy(pk)'
  <2>1. CASE SessionRead(c, n)
    BY <1>2, <2>1, OnceSessionRead
  <2>2. CASE SessionSend(c, n)
    BY <1>2, <2>2, OnceSessionSend
  <2>3. CASE SessionErr(c, n) \/ SessionChannelClosed(c, n) \/ SessionCancelled(c, n)
    <3>1. SessionEnds(c, n)
      BY <2>3 DEF SessionErr, SessionChannelClosed, SessionCancelled
    <3> QED
      BY <1>2, <3>1, OnceSessionEnds
  <2> QED
    BY <1>2, <2>1, <2>2, <2>3
<1>3. ASSUME NEW n \in {c.from, c.to}, ConnectionLost(c, n)
      PROVE  OneCopy(pk)'
  <2>1. UNCHANGED <<iroh_to_coord, coord_to_iroh, packet_channel, datagrams>>
    BY <1>3 DEF ConnectionLost, connOnlyVars, managerVars
  <2> QED
    BY <2>1, OnceSame DEF coordOnlyVars
<1>4. ASSUME NEW n \in {c.from, c.to}, HandlesDropped(c, n) \/ ForeignSend(c, n)
      PROVE  OneCopy(pk)'
  <2>1. n \in Node
    BY ConnType
  <2> QED
    BY <1>4, <2>1, OnceNetwork
<1> QED
  BY <1>1, <1>2, <1>3, <1>4 DEF TaskStep

-----------------------------------------------------------------------------
\* A process that ends takes its packets along.
LEMMA OnceCrash ==
    ASSUME MeshInv, NEW pk, Tracked(pk), OneCopy(pk), NEW n \in Local, Crash(n)
    PROVE  OneCopy(pk)'
<1>1. \A q : Kept(pk, q, q) /\ Kept(pk, q, <<>>)
  BY EmptyIsKept DEF Kept
<1>2. /\ tun_to_coord \in [Local -> Seq(Packet)] /\ actions \in [Local -> Seq(Action)]
      /\ coord_to_iroh \in [Local -> Seq(CoreAction)] /\ iroh_to_coord \in [Local -> Seq(IrohEvent)]
      /\ coord_to_tun \in [Local -> Seq(Packet)] /\ packet_queue \in [Local -> [Node -> Seq(Packet)]]
      /\ packet_channel \in [Conn -> [Node -> Seq(Packet)]]
      /\ datagrams \in [Conn -> [Node -> SUBSET Packet]]
  BY DEF MeshInv, CoordInv, CoordTypeOK, CoreTypeOK, WiringTypeOK, IrohInv, IrohTypeOK
<1>3. CoordReset(n) /\ IrohReset(n)
  BY DEF Crash
<1>4. \A k \in Local :
        /\ tun_to_coord'[k] = tun_to_coord[k] \/ tun_to_coord'[k] = <<>>
        /\ actions'[k] = actions[k] \/ actions'[k] = <<>>
        /\ coord_to_iroh'[k] = coord_to_iroh[k] \/ coord_to_iroh'[k] = <<>>
        /\ iroh_to_coord'[k] = iroh_to_coord[k] \/ iroh_to_coord'[k] = <<>>
        /\ coord_to_tun'[k] = coord_to_tun[k] \/ coord_to_tun'[k] = <<>>
  BY <1>2, <1>3 DEF CoordReset
<1>5. \A m \in Local, p \in Node :
        packet_queue'[m][p] = packet_queue[m][p] \/ packet_queue'[m][p] = <<>>
  BY <1>2, <1>3 DEF CoordReset
<1>6. \A c \in Conn, m \in Node :
        packet_channel'[c][m] = packet_channel[c][m] \/ packet_channel'[c][m] = <<>>
  BY <1>2, <1>3 DEF IrohReset
<1>7. \A c \in Conn, m \in Node : datagrams'[c][m] = datagrams[c][m] \/ datagrams'[c][m] = {}
  BY <1>2, <1>3 DEF IrohReset
<1>8. ASSUME NEW k \in Local, NEW w \in NodePlace
      PROVE  KeptAt(pk, w, k)
  <2>1. Content(pk, w, k)' = Content(pk, w, k) \/ Content(pk, w, k)' = <<>>
    BY <1>4, Contents, ContentsNext DEF NodePlace
  <2> QED
    BY <1>1, <2>1 DEF KeptAt
<1>9. ASSUME NEW k \in Local \X Node
      PROVE  KeptAt(pk, "packet_queue", k)
  <2>1. k[1] \in Local /\ k[2] \in Node
    OBVIOUS
  <2>2. packet_queue'[k[1]][k[2]] = packet_queue[k[1]][k[2]] \/ packet_queue'[k[1]][k[2]] = <<>>
    BY <1>5, <2>1
  <2>3. Kept(pk, packet_queue[k[1]][k[2]], packet_queue'[k[1]][k[2]])
    BY <1>1, <2>2
  <2> QED
    BY <2>3, Contents, ContentsNext DEF KeptAt
<1>10. ASSUME NEW k \in Conn \X Node
       PROVE  KeptAt(pk, "packet_channel", k) /\ KeptAt(pk, "datagrams", k)
  <2>1. k[1] \in Conn /\ k[2] \in Node
    OBVIOUS
  <2>2. /\ \/ packet_channel'[k[1]][k[2]] = packet_channel[k[1]][k[2]]
           \/ packet_channel'[k[1]][k[2]] = <<>>
        /\ datagrams'[k[1]][k[2]] = datagrams[k[1]][k[2]] \/ datagrams'[k[1]][k[2]] = {}
    BY <1>6, <1>7, <2>1
  <2>3. Kept(pk, packet_channel[k[1]][k[2]], packet_channel'[k[1]][k[2]])
    BY <1>1, <2>2
  <2>4. Kept(pk, Mark(datagrams[k[1]][k[2]], pk), Mark(datagrams'[k[1]][k[2]], pk))
    BY <2>2, MarkOccurs DEF Kept
  <2>5. KeptAt(pk, "packet_channel", k)
    BY <2>3, Contents, ContentsNext DEF KeptAt
  <2>6. KeptAt(pk, "datagrams", k)
    BY <2>4, Contents, ContentsNext DEF KeptAt
  <2> QED
    BY <2>5, <2>6
<1>11. \A w, k : IsPlace(w, k) => KeptAt(pk, w, k)
  BY <1>8, <1>9, <1>10 DEF IsPlace
<1>12. reads' = reads
  BY <1>3 DEF CoordReset
<1> QED
  BY <1>11, <1>12, KeepAll

-----------------------------------------------------------------------------
\* The coordinator and the TUN workers.

\* From one channel or list of a node to another.
LEMMA OnceNodeMove ==
    ASSUME NEW pk, Tracked(pk), OneCopy(pk), NEW n \in Local, NEW v \in NodePlace,
           NEW x \in NodePlace, v # x,
           \A w \in NodePlace, k \in Local :
              (w # v /\ w # x) \/ k # n => SameAt(pk, w, k),
           Passed(pk, Content(pk, v, n), Content(pk, x, n), Content(pk, v, n)', Content(pk, x, n)'),
           UNCHANGED <<packet_queue, packet_channel, datagrams, reads>>
    PROVE  OneCopy(pk)'
<1>1. IsPlace(v, n) /\ IsPlace(x, n)
  BY DEF IsPlace
<1>2. \A k : /\ SameAt(pk, "packet_queue", k) /\ SameAt(pk, "packet_channel", k)
             /\ SameAt(pk, "datagrams", k)
  BY SameInPair
<1>3. \A w, k : IsPlace(w, k) /\ ~(w = v /\ k = n) /\ ~(w = x /\ k = n) => SameAt(pk, w, k)
  BY <1>2 DEF IsPlace
<1>4. \A w, k : IsPlace(w, k) /\ ~(w = v /\ k = n) /\ ~(w = x /\ k = n) => KeptAt(pk, w, k)
  BY <1>3, SameIsKept
<1> QED
  BY <1>1, <1>4, PassOn

\* A packet for the TUN device is written.
LEMMA OnceTunWrite ==
    ASSUME MeshInv, NEW pk, Tracked(pk), OneCopy(pk), NEW n \in Local, TunWrite(n),
           UNCHANGED irohOnlyVars
    PROVE  OneCopy(pk)'
<1>1. coord_to_tun \in [Local -> Seq(Packet)] /\ coord_to_tun[n] # <<>>
  BY DEF MeshInv, CoordInv, CoordTypeOK, TunWrite
<1>2. /\ coord_to_tun'[n] = Tail(coord_to_tun[n])
      /\ \A k \in Local \ {n} : coord_to_tun'[k] = coord_to_tun[k]
      /\ UNCHANGED <<tun_to_coord, actions, coord_to_iroh, iroh_to_coord, packet_queue,
                     packet_channel, datagrams, reads>>
  BY <1>1 DEF TunWrite, irohOnlyVars
<1>3. Kept(pk, coord_to_tun[n], coord_to_tun'[n])
  BY <1>1, <1>2, AfterTake
<1>4. \A w, k : IsPlace(w, k) /\ ~(w = "coord_to_tun" /\ k = n) => SameAt(pk, w, k)
  BY <1>2, Contents, ContentsNext DEF IsPlace, NodePlace, SameAt
<1>5. KeptAt(pk, "coord_to_tun", n)
  BY <1>3, Contents, ContentsNext DEF KeptAt
<1> QED
  BY <1>2, <1>4, <1>5, SameIsKept, KeepAll

\* A packet that is read is new: no place has it yet.
LEMMA OnceTunRead ==
    ASSUME MeshInv, NEW pk, Tracked(pk), OneCopy(pk), NEW n \in Local, TunRead(n),
           UNCHANGED irohOnlyVars
    PROVE  OneCopy(pk)'
<1>1. /\ tun_to_coord \in [Local -> Seq(Packet)] /\ tun_to_coord[n] \in Seq(Packet)
      /\ reads \in [Local -> 0..MaxReads] /\ reads[n] \in Nat /\ MaxReads \in Nat
  BY WiringAssumption DEF MeshInv, CoordInv, CoordTypeOK
<1>2. PICK h \in Header :
        tun_to_coord' = [tun_to_coord EXCEPT ![n] =
           TrySend(tun_to_coord[n], [hdr |-> h, origin |-> n, seq |-> reads[n] + 1])]
  BY DEF TunRead
<1>e. PICK e : e = [hdr |-> h, origin |-> n, seq |-> reads[n] + 1]
  OBVIOUS
<1>3. /\ tun_to_coord'[n] = TrySend(tun_to_coord[n], e)
      /\ \A k \in Local \ {n} : tun_to_coord'[k] = tun_to_coord[k]
      /\ reads' = [reads EXCEPT ![n] = reads[n] + 1] /\ reads[n] < MaxReads
      /\ UNCHANGED <<coord_to_tun, actions, coord_to_iroh, iroh_to_coord, packet_queue,
                     packet_channel, datagrams>>
  BY <1>1, <1>2, <1>e DEF TunRead, irohOnlyVars
<1>4. e \in Packet /\ e.origin = n /\ e.seq = reads[n] + 1
  BY <1>1, <1>3, <1>e, NodeType DEF Packet
<1>5. Carrying(e, pk) <=> e = pk
  BY <1>4, PacketCarries DEF Tracked
<1>6. \A w, k : IsPlace(w, k) /\ ~(w = "tun_to_coord" /\ k = n) => SameAt(pk, w, k)
  BY <1>3, Contents, ContentsNext DEF IsPlace, NodePlace, SameAt
<1>7. pk.seq \in Nat /\ pk.origin \in Local
  BY <1>1 DEF Tracked, Packet
<1>8. pk.seq <= reads[pk.origin] => pk.seq <= reads'[pk.origin]
  BY <1>1, <1>3, <1>7
<1>9. CASE tun_to_coord'[n] = tun_to_coord[n] \/ e # pk
  <2>1. Kept(pk, tun_to_coord[n], tun_to_coord'[n])
    <3>1. CASE tun_to_coord'[n] = tun_to_coord[n]
      BY <3>1 DEF Kept
    <3>2. CASE tun_to_coord'[n] = Append(tun_to_coord[n], e) /\ e # pk
      BY <1>1, <1>4, <1>5, <3>2, PutIsKept
    <3> QED
      BY <1>3, <1>9, <3>1, <3>2 DEF TrySend
  <2>2. KeptAt(pk, "tun_to_coord", n)
    BY <2>1, Contents, ContentsNext DEF KeptAt
  <2> QED
    BY <1>6, <1>8, <2>2, SameIsKept, KeepRead
<1>10. CASE tun_to_coord'[n] = Append(tun_to_coord[n], e) /\ e = pk
  <2>1. \A w, k : ~At(pk, w, k)
    BY <1>1, <1>4, <1>10 DEF OneCopy
  <2>2. \A w, k : IsPlace(w, k)' <=> IsPlace(w, k)
    BY DEF IsPlace
  <2>3. ASSUME NEW w, NEW k, At(pk, w, k)'
        PROVE  w = "tun_to_coord" /\ k = n
    <3>1. SUFFICES ASSUME ~(w = "tun_to_coord" /\ k = n)
                   PROVE  FALSE
      OBVIOUS
    <3>2. IsPlace(w, k) /\ Occurs(Content(pk, w, k)', pk)
      BY <2>2, <2>3 DEF At
    <3>3. SameAt(pk, w, k)
      BY <1>6, <3>1, <3>2
    <3>4. At(pk, w, k)
      BY <3>2, <3>3 DEF SameAt, At
    <3> QED
      BY <2>1, <3>4
  <2>4. IsPlace("tun_to_coord", n)
    BY DEF IsPlace, NodePlace
  <2>5. ~Occurs(tun_to_coord[n], pk) /\ Once(tun_to_coord[n], pk)
    BY <2>1, <2>4, Contents DEF At, OneCopy
  <2>6. Once(tun_to_coord'[n], pk)
    BY <1>1, <1>4, <1>10, <2>5, AfterPut
  <2>7. ASSUME NEW w, NEW k, IsPlace(w, k)
        PROVE  Once(Content(pk, w, k)', pk)
    <3>1. CASE w = "tun_to_coord" /\ k = n
      BY <2>6, <3>1, ContentsNext
    <3>2. CASE ~(w = "tun_to_coord" /\ k = n)
      BY <1>6, <2>7, <3>2 DEF SameAt, OneCopy
    <3> QED
      BY <3>1, <3>2
  <2>8. pk.seq <= reads'[pk.origin]
    BY <1>1, <1>3, <1>4, <1>10
  <2> QED
    BY <2>2, <2>3, <2>7, <2>8 DEF OneCopy
<1> QED
  BY <1>3, <1>9, <1>10 DEF TrySend

\* The shapes of an action.
LEMMA ActionShapes ==
    ASSUME NEW a \in Action
    PROVE  /\ a.type = "DisconnectFromPeer" => a \in CoreAction
           /\ a.type = "SendPacketTo" => a \in CoreAction
           /\ a.type = "WriteToTun" =>
                 a.packet \in Packet /\ "packet" \in DOMAIN a /\ "type" \in DOMAIN a
BY DEF Action, CoreAction

\* handle_actions passes the packet of the first action on, or drops it.
LEMMA OnceHandleActions ==
    ASSUME MeshInv, NEW pk, Tracked(pk), OneCopy(pk), NEW n \in Local, handle_actions(n),
           UNCHANGED irohOnlyVars
    PROVE  OneCopy(pk)'
<1> DEFINE s == actions[n]
<1>1. /\ actions \in [Local -> Seq(Action)] /\ s \in Seq(Action) /\ s # <<>>
      /\ coord_to_iroh \in [Local -> Seq(CoreAction)] /\ coord_to_iroh[n] \in Seq(CoreAction)
      /\ coord_to_tun \in [Local -> Seq(Packet)] /\ coord_to_tun[n] \in Seq(Packet)
  BY DEF MeshInv, CoordInv, CoordTypeOK, CoreTypeOK, WiringTypeOK, handle_actions
<1>2. /\ actions'[n] = Tail(s)
      /\ \A k \in Local \ {n} : actions'[k] = actions[k]
      /\ UNCHANGED <<tun_to_coord, iroh_to_coord, packet_queue, packet_channel, datagrams, reads>>
  BY <1>1 DEF handle_actions, irohOnlyVars
<1>3. Head(s) \in Action
  BY <1>1, Receive
<1>4. \A q : Kept(pk, q, q)
  BY DEF Kept
<1>5. CASE Head(s).type \in {"DisconnectFromPeer", "SendPacketTo"}
  <2>1. Head(s) \in CoreAction
    BY <1>3, <1>5, ActionShapes
  <2>2. /\ UNCHANGED coord_to_tun
        /\ \/ coord_to_iroh' = [coord_to_iroh EXCEPT ![n] = coord_to_iroh[n]]
           \/ coord_to_iroh' = [coord_to_iroh EXCEPT ![n] = Append(coord_to_iroh[n], Head(s))]
    BY <1>5 DEF handle_actions, TrySend
  <2>3. /\ \/ coord_to_iroh'[n] = coord_to_iroh[n]
           \/ coord_to_iroh'[n] = Append(coord_to_iroh[n], Head(s))
        /\ \A k \in Local \ {n} : coord_to_iroh'[k] = coord_to_iroh[k]
    BY <1>1, <2>2
  <2>4. Passed(pk, s, coord_to_iroh[n], Tail(s), coord_to_iroh'[n])
    BY <1>1, <1>4, <2>1, <2>3, HeadPasses
  <2>5. Passed(pk, Content(pk, "actions", n), Content(pk, "coord_to_iroh", n),
               Content(pk, "actions", n)', Content(pk, "coord_to_iroh", n)')
    BY <1>2, <2>4, Contents, ContentsNext
  <2>6. \A w \in NodePlace, k \in Local :
           (w # "actions" /\ w # "coord_to_iroh") \/ k # n => SameAt(pk, w, k)
    BY <1>2, <2>2, <2>3, Contents, ContentsNext DEF NodePlace, SameAt
  <2>7. "actions" \in NodePlace /\ "coord_to_iroh" \in NodePlace /\ "actions" # "coord_to_iroh"
    BY DEF NodePlace
  <2> QED
    BY <1>2, <2>5, <2>6, <2>7, OnceNodeMove
<1>6. CASE Head(s).type = "WriteToTun"
  <2>1. /\ Head(s).packet \in Packet
        /\ "packet" \in DOMAIN Head(s) /\ "type" \in DOMAIN Head(s)
    BY <1>3, <1>6, ActionShapes
  <2>2. /\ UNCHANGED coord_to_iroh
        /\ \/ coord_to_tun' = [coord_to_tun EXCEPT ![n] = coord_to_tun[n]]
           \/ coord_to_tun' = [coord_to_tun EXCEPT ![n] = Append(coord_to_tun[n], Head(s).packet)]
    BY <1>6 DEF handle_actions, TrySend
  <2>3. /\ \/ coord_to_tun'[n] = coord_to_tun[n]
           \/ coord_to_tun'[n] = Append(coord_to_tun[n], Head(s).packet)
        /\ \A k \in Local \ {n} : coord_to_tun'[k] = coord_to_tun[k]
    BY <1>1, <2>2
  <2>4. Carrying(Head(s).packet, pk) => Carrying(Head(s), pk)
    BY <2>1, PacketCarries, MessageCarries DEF Tracked
  <2>5. Passed(pk, s, coord_to_tun[n], Tail(s), coord_to_tun'[n])
    BY <1>1, <1>4, <2>1, <2>3, <2>4, HeadPasses
  <2>6. Passed(pk, Content(pk, "actions", n), Content(pk, "coord_to_tun", n),
               Content(pk, "actions", n)', Content(pk, "coord_to_tun", n)')
    BY <1>2, <2>5, Contents, ContentsNext
  <2>7. \A w \in NodePlace, k \in Local :
           (w # "actions" /\ w # "coord_to_tun") \/ k # n => SameAt(pk, w, k)
    BY <1>2, <2>2, <2>3, Contents, ContentsNext DEF NodePlace, SameAt
  <2>8. "actions" \in NodePlace /\ "coord_to_tun" \in NodePlace /\ "actions" # "coord_to_tun"
    BY DEF NodePlace
  <2> QED
    BY <1>2, <2>6, <2>7, <2>8, OnceNodeMove
<1> QED
  BY <1>5, <1>6 DEF handle_actions

\* The first of a channel becomes the only action, or is dropped.
LEMMA OneActionPasses ==
    ASSUME NEW pk, NEW S, NEW s \in Seq(S), s # <<>>, NEW e \in Action,
           Carrying(e, pk) => Carrying(Head(s), pk), NEW t2, t2 = <<>> \/ t2 = <<e>>
    PROVE  Passed(pk, s, <<>>, Tail(s), t2)
<1>1. <<>> \in Seq(Action) /\ Append(<<>>, e) = <<e>>
  OBVIOUS
<1>2. Kept(pk, <<>>, <<>>)
  BY DEF Kept
<1> QED
  BY <1>1, <1>2, HeadPasses

\* An event of the manager that is answered by one action or none.
LEMMA OnceAnswered ==
    ASSUME MeshInv, NEW pk, Tracked(pk), OneCopy(pk), NEW n \in Local, handle_iroh_event(n),
           UNCHANGED <<packet_queue, irohOnlyVars>>,
           NEW e \in Action, Carrying(e, pk) => Carrying(Head(iroh_to_coord[n]), pk),
           \/ UNCHANGED actions
           \/ actions' = [actions EXCEPT ![n] = <<>>]
           \/ actions' = [actions EXCEPT ![n] = <<e>>]
    PROVE  OneCopy(pk)'
<1> DEFINE s == iroh_to_coord[n]
<1>1. /\ iroh_to_coord \in [Local -> Seq(IrohEvent)] /\ s \in Seq(IrohEvent) /\ s # <<>>
      /\ actions \in [Local -> Seq(Action)] /\ actions[n] = <<>>
  BY DEF MeshInv, CoordInv, CoordTypeOK, CoreTypeOK, WiringTypeOK, handle_iroh_event,
     process_iroh_event, Idle
<1>2. /\ iroh_to_coord'[n] = Tail(s)
      /\ \A k \in Local \ {n} : iroh_to_coord'[k] = iroh_to_coord[k]
      /\ UNCHANGED <<tun_to_coord, coord_to_iroh, coord_to_tun, packet_queue, packet_channel,
                     datagrams, reads>>
  BY <1>1 DEF handle_iroh_event, process_iroh_event, irohOnlyVars
<1>3. /\ actions'[n] = <<>> \/ actions'[n] = <<e>>
      /\ \A k \in Local \ {n} : actions'[k] = actions[k]
  BY <1>1
<1>4. Passed(pk, s, <<>>, Tail(s), actions'[n])
  BY <1>1, <1>3, OneActionPasses
<1>5. Passed(pk, Content(pk, "iroh_to_coord", n), Content(pk, "actions", n),
             Content(pk, "iroh_to_coord", n)', Content(pk, "actions", n)')
  <2>1. /\ Content(pk, "iroh_to_coord", n) = s /\ Content(pk, "iroh_to_coord", n)' = Tail(s)
        /\ Content(pk, "actions", n) = <<>> /\ Content(pk, "actions", n)' = actions'[n]
    BY <1>1, <1>2, Contents, ContentsNext
  <2> QED
    BY <1>4, <2>1, Zenon
<1>6. \A w \in NodePlace, k \in Local :
         (w # "iroh_to_coord" /\ w # "actions") \/ k # n => SameAt(pk, w, k)
  BY <1>2, <1>3, Contents, ContentsNext DEF NodePlace, SameAt
<1>7. "actions" \in NodePlace /\ "iroh_to_coord" \in NodePlace /\ "actions" # "iroh_to_coord"
  BY DEF NodePlace
<1> QED
  BY <1>2, <1>5, <1>6, <1>7, OnceNodeMove

\* The queue of a peer that is connected becomes the list of actions.
LEMMA OnceFlush ==
    ASSUME MeshInv, NEW pk, Tracked(pk), OneCopy(pk), NEW n \in Local, NEW p \in Node,
           handle_iroh_event(n), UNCHANGED irohOnlyVars,
           packet_queue' = [packet_queue EXCEPT ![n][p] = <<>>],
           actions' = [actions EXCEPT ![n] =
              [i \in 1..Len(packet_queue[n][p]) |->
                 [type |-> "SendPacketTo", peer |-> p, packet |-> packet_queue[n][p][i]]]]
    PROVE  OneCopy(pk)'
<1> DEFINE s == iroh_to_coord[n]
           q == packet_queue[n][p]
           f == [i \in 1..Len(q) |-> [type |-> "SendPacketTo", peer |-> p, packet |-> q[i]]]
<1>1. /\ iroh_to_coord \in [Local -> Seq(IrohEvent)] /\ s \in Seq(IrohEvent) /\ s # <<>>
      /\ actions \in [Local -> Seq(Action)] /\ actions[n] = <<>>
      /\ packet_queue \in [Local -> [Node -> Seq(Packet)]] /\ q \in Seq(Packet)
  BY DEF MeshInv, CoordInv, CoordTypeOK, CoreTypeOK, WiringTypeOK, handle_iroh_event,
     process_iroh_event, Idle
<1>2. /\ iroh_to_coord'[n] = Tail(s)
      /\ \A k \in Local \ {n} : iroh_to_coord'[k] = iroh_to_coord[k]
      /\ UNCHANGED <<tun_to_coord, coord_to_iroh, coord_to_tun, packet_channel, datagrams, reads>>
  BY <1>1 DEF handle_iroh_event, process_iroh_event, irohOnlyVars
<1>3. Passed(pk, q, <<>>, <<>>, f)
  BY <1>1, QueuePasses DEF Tracked
<1>4. /\ actions'[n] = f
      /\ \A k \in Local \ {n} : actions'[k] = actions[k]
  BY <1>1
<1>5. /\ packet_queue'[n][p] = <<>>
      /\ \A m \in Local, r \in Node : m # n \/ r # p => packet_queue'[m][r] = packet_queue[m][r]
  BY <1>1
<1> HIDE DEF f
<1>l. PICK l \in Local \X Node : l = <<n, p>>
  OBVIOUS
<1>6. l[1] = n /\ l[2] = p
  BY <1>l
<1>7. ASSUME NEW k \in Local \X Node, k # l
      PROVE  SameAt(pk, "packet_queue", k)
  <2>1. k[1] \in Local /\ k[2] \in Node /\ (k[1] # n \/ k[2] # p)
    BY <1>7, <1>l
  <2>2. packet_queue'[k[1]][k[2]] = packet_queue[k[1]][k[2]]
    BY <1>5, <2>1
  <2> QED
    BY <2>2, SameInPair
<1>8. KeptAt(pk, "iroh_to_coord", n)
  <2>1. Kept(pk, s, Tail(s))
    BY <1>1, AfterTake
  <2> QED
    BY <1>2, <2>1, Contents, ContentsNext DEF KeptAt
<1>9. ASSUME NEW w, NEW k, IsPlace(w, k), ~(w = "packet_queue" /\ k = l),
             ~(w = "actions" /\ k = n)
      PROVE  KeptAt(pk, w, k)
  <2>1. CASE w = "packet_queue"
    <3>1. k \in Local \X Node /\ k # l
      BY <1>9, <2>1 DEF IsPlace, NodePlace
    <3> QED
      BY <1>7, <2>1, <3>1, SameIsKept
  <2>2. CASE w = "iroh_to_coord" /\ k = n
    BY <1>8, <2>2
  <2>3. CASE w \in {"iroh_to_coord", "actions"} /\ k # n
    <3>1. k \in Local \ {n}
      BY <1>9, <2>3 DEF IsPlace
    <3>2. SameAt(pk, w, k)
      BY <1>2, <1>4, <2>3, <3>1, Contents, ContentsNext DEF SameAt
    <3> QED
      BY <3>2, SameIsKept
  <2>4. CASE w \notin {"packet_queue", "iroh_to_coord", "actions"}
    <3>1. w \in {"tun_to_coord", "coord_to_iroh", "coord_to_tun", "packet_channel", "datagrams"}
      BY <1>9, <2>4 DEF IsPlace, NodePlace
    <3>2. SameAt(pk, w, k)
      BY <1>2, <3>1, Contents, ContentsNext DEF SameAt
    <3> QED
      BY <3>2, SameIsKept
  <2> QED
    BY <1>9, <2>1, <2>2, <2>3, <2>4
<1>10. Passed(pk, Content(pk, "packet_queue", l), Content(pk, "actions", n),
              Content(pk, "packet_queue", l)', Content(pk, "actions", n)')
  <2>1. Content(pk, "packet_queue", l) = q
    BY <1>6, Contents
  <2>2. Content(pk, "packet_queue", l)' = <<>>
    BY <1>5, <1>6, ContentsNext
  <2>3. Content(pk, "actions", n) = <<>> /\ Content(pk, "actions", n)' = f
    <3>1. Content(pk, "actions", n) = actions[n]
      BY Contents
    <3>2. Content(pk, "actions", n)' = actions'[n]
      BY ContentsNext
    <3> QED
      BY <1>1, <1>4, <3>1, <3>2
  <2> QED
    BY <1>3, <2>1, <2>2, <2>3, Zenon
<1>11. IsPlace("packet_queue", l) /\ IsPlace("actions", n) /\ "packet_queue" # "actions"
  BY <1>l DEF IsPlace, NodePlace
<1>12. \A w, k : /\ IsPlace(w, k)
                 /\ ~(w = "packet_queue" /\ k = l)
                 /\ ~(w = "actions" /\ k = n)
                 => KeptAt(pk, w, k)
  BY <1>9
<1> QED
  BY <1>2, <1>10, <1>11, <1>12, PassOn

\* The shapes of an event.
LEMMA EventShapes ==
    ASSUME NEW e \in IrohEvent
    PROVE  /\ e.peer \in Node
           /\ e.type = "RecvPacketFrom" =>
                 e.packet \in Packet /\ "packet" \in DOMAIN e /\ "type" \in DOMAIN e
BY DEF IrohEvent

\* The coordinator passes a packet from iroh to its actions, or drops it; a
\* flush moves a buffer there and empties it.
LEMMA OnceHandleIrohEvent ==
    ASSUME MeshInv, NEW pk, Tracked(pk), OneCopy(pk), NEW n \in Local, handle_iroh_event(n),
           UNCHANGED irohOnlyVars
    PROVE  OneCopy(pk)'
<1>1. iroh_to_coord[n] \in Seq(IrohEvent) /\ iroh_to_coord[n] # <<>>
  BY DEF MeshInv, CoordInv, CoordTypeOK, WiringTypeOK, handle_iroh_event, process_iroh_event
<1>2. PICK event \in IrohEvent : event = Head(iroh_to_coord[n])
  BY <1>1, Receive
<1>3. event.peer \in Node
  BY EventShapes
<1>4. PICK e : e = [type |-> "DisconnectFromPeer", peer |-> event.peer]
  OBVIOUS
<1>5. e \in Action /\ ~Carrying(e, pk)
  BY <1>3, <1>4, StatusCarriesNothing DEF Action, Tracked
<1>6. CASE event.type = "ConnectedToPeer" /\ on_peer_connected(n, event.peer)
  <2>1. CASE ~is_neighbour(n, event.peer)
    <3>1. actions' = [actions EXCEPT ![n] = <<e>>] /\ UNCHANGED packet_queue
      BY <1>4, <1>6, <2>1 DEF on_peer_connected, Returns
    <3> QED
      BY <1>5, <3>1, OnceAnswered
  <2>2. CASE UNCHANGED coreVars
    BY <1>5, <2>2, OnceAnswered DEF coreVars
  <2>3. CASE is_neighbour(n, event.peer) /\ ~is_connected[n][event.peer]
    <3>1. /\ packet_queue' = [packet_queue EXCEPT ![n][event.peer] = <<>>]
          /\ actions' = [actions EXCEPT ![n] =
              [i \in 1..Len(packet_queue[n][event.peer]) |->
                 [type |-> "SendPacketTo", peer |-> event.peer,
                  packet |-> packet_queue[n][event.peer][i]]]]
      BY <1>6, <2>3 DEF on_peer_connected, Returns
    <3> QED
      BY <1>3, <3>1, OnceFlush
  <2> QED
    BY <1>6, <2>1, <2>2, <2>3 DEF on_peer_connected
<1>7. CASE event.type = "DisconnectedFromPeer" /\ on_peer_disconnected(n, event.peer)
  <2>1. UNCHANGED <<packet_queue, actions>>
    BY <1>7 DEF on_peer_disconnected
  <2> QED
    BY <1>5, <2>1, OnceAnswered
<1>8. CASE event.type = "RecvPacketFrom" /\ recv_packet(n, event.packet, event.peer)
  <2>1. event.packet \in Packet /\ "packet" \in DOMAIN event /\ "type" \in DOMAIN event
    BY <1>8, EventShapes
  <2>2. PICK w : w = [type |-> "WriteToTun", packet |-> event.packet]
    OBVIOUS
  <2>3. w \in Action
    BY <2>1, <2>2 DEF Action
  <2>4. Carrying(w, pk) => Carrying(Head(iroh_to_coord[n]), pk)
    BY <1>2, <2>1, <2>2, WrappedCarries, MessageCarries DEF Tracked
  <2>5. /\ UNCHANGED packet_queue
        /\ \/ actions' = [actions EXCEPT ![n] = <<>>]
           \/ actions' = [actions EXCEPT ![n] = <<w>>]
    BY <1>8, <2>2 DEF recv_packet
  <2> QED
    BY <2>3, <2>4, <2>5, OnceAnswered
<1> QED
  BY <1>2, <1>6, <1>7, <1>8 DEF handle_iroh_event, process_iroh_event

\* A packet of the TUN device goes to the actions, into a queue, or nowhere.
LEMMA OnceHandlePacketFromTun ==
    ASSUME MeshInv, NEW pk, Tracked(pk), OneCopy(pk), NEW n \in Local, handle_packet_from_tun(n),
           UNCHANGED irohOnlyVars
    PROVE  OneCopy(pk)'
<1> DEFINE s == tun_to_coord[n]
<1>1. /\ tun_to_coord \in [Local -> Seq(Packet)] /\ s \in Seq(Packet) /\ s # <<>>
      /\ actions \in [Local -> Seq(Action)] /\ actions[n] = <<>>
      /\ packet_queue \in [Local -> [Node -> Seq(Packet)]]
  BY DEF MeshInv, CoordInv, CoordTypeOK, CoreTypeOK, handle_packet_from_tun, Idle
<1>2. /\ tun_to_coord'[n] = Tail(s)
      /\ \A k \in Local \ {n} : tun_to_coord'[k] = tun_to_coord[k]
      /\ UNCHANGED <<iroh_to_coord, coord_to_iroh, coord_to_tun, packet_channel,
                     datagrams, reads>>
      /\ send_packet(n, Head(s))
  BY <1>1 DEF handle_packet_from_tun, irohOnlyVars
<1>3. PICK x \in Packet : x = Head(s)
  BY <1>1, Receive
<1>4. PICK p : p = RouteTable[n][x.hdr.dest_ip]
  OBVIOUS
<1>5. PICK e : e = [type |-> "SendPacketTo", peer |-> p, packet |-> x]
  OBVIOUS
<1>6. Carrying(e, pk) => Carrying(Head(s), pk)
  BY <1>3, <1>5, WrappedCarries, PacketCarries DEF Tracked
<1>7. verify_send_packet(n, x.hdr) => p \in Node
  BY <1>4, RouteIsNode DEF verify_send_packet, is_neighbour_ipv4
<1>8. CASE UNCHANGED packet_queue
  <2>1. \/ UNCHANGED actions
        \/ verify_send_packet(n, x.hdr) /\ actions' = [actions EXCEPT ![n] = <<e>>]
    BY <1>2, <1>3, <1>4, <1>5 DEF send_packet, Returns, coreVars
  <2>2. /\ actions'[n] = <<>> \/ (actions'[n] = <<e>> /\ p \in Node)
        /\ \A k \in Local \ {n} : actions'[k] = actions[k]
    BY <1>1, <1>7, <2>1
  <2>3. Passed(pk, s, <<>>, Tail(s), actions'[n])
    <3>1. CASE p \in Node
      <4>1. e \in Action
        BY <1>5, <3>1 DEF Action
      <4> QED
        BY <1>1, <1>6, <2>2, <4>1, OneActionPasses
    <3>2. CASE p \notin Node
      <4>1. [type |-> "DisconnectFromPeer", peer |-> n] \in Action
        BY NodeType DEF Action
      <4>2. ~Carrying([type |-> "DisconnectFromPeer", peer |-> n], pk)
        BY StatusCarriesNothing DEF Tracked
      <4> QED
        BY <1>1, <2>2, <3>2, <4>1, <4>2, OneActionPasses
    <3> QED
      BY <3>1, <3>2
  <2>4. Passed(pk, Content(pk, "tun_to_coord", n), Content(pk, "actions", n),
               Content(pk, "tun_to_coord", n)', Content(pk, "actions", n)')
    <3>1. /\ Content(pk, "tun_to_coord", n) = s /\ Content(pk, "tun_to_coord", n)' = Tail(s)
          /\ Content(pk, "actions", n) = <<>> /\ Content(pk, "actions", n)' = actions'[n]
      BY <1>1, <1>2, Contents, ContentsNext
    <3> QED
      BY <2>3, <3>1, Zenon
  <2>5. \A w \in NodePlace, k \in Local :
           (w # "tun_to_coord" /\ w # "actions") \/ k # n => SameAt(pk, w, k)
    BY <1>2, <2>2, Contents, ContentsNext DEF NodePlace, SameAt
  <2>6. "actions" \in NodePlace /\ "tun_to_coord" \in NodePlace /\ "actions" # "tun_to_coord"
    BY DEF NodePlace
  <2> QED
    BY <1>2, <1>8, <2>4, <2>5, <2>6, OnceNodeMove
<1>9. CASE packet_queue' # packet_queue
  <2>1. /\ verify_send_packet(n, x.hdr) /\ UNCHANGED actions
        /\ packet_queue' = [packet_queue EXCEPT ![n][p] = Buffered(packet_queue[n][p], x)]
    BY <1>2, <1>3, <1>4, <1>9 DEF send_packet, coreVars
  <2>2. p \in Node
    BY <1>7, <2>1
  <2> DEFINE t == packet_queue[n][p]
  <2>3. /\ t \in Seq(Packet)
        /\ packet_queue'[n][p] = Buffered(t, x)
        /\ \A m \in Local, r \in Node : m # n \/ r # p => packet_queue'[m][r] = packet_queue[m][r]
    BY <1>1, <2>1, <2>2
  <2>4. Passed(pk, s, t, Tail(s), packet_queue'[n][p])
    <3>1. PICK u : u = IF Len(t) >= MAX_PACKETS_IN_QUEUE THEN Tail(t) ELSE t
      OBVIOUS
    <3>2. u \in Seq(Packet) /\ Kept(pk, t, u)
      <4>1. CASE Len(t) >= MAX_PACKETS_IN_QUEUE
        <5>1. Len(t) # 0 /\ Len(t) \in Nat
          BY <2>3, <4>1, LenProperties, VpnCoreAssumption
        <5>2. t # <<>>
          BY <5>1, EmptySeq
        <5> QED
          BY <2>3, <3>1, <4>1, <5>2, Receive, AfterTake
      <4>2. CASE ~(Len(t) >= MAX_PACKETS_IN_QUEUE)
        BY <2>3, <3>1, <4>2 DEF Kept
      <4> QED
        BY <4>1, <4>2
    <3>3. packet_queue'[n][p] = Append(u, x)
      BY <2>3, <3>1 DEF Buffered
    <3> QED
      BY <1>1, <1>3, <2>3, <3>2, <3>3, HeadPasses
  <2>5. PICK l \in Local \X Node : l = <<n, p>>
    BY <2>2
  <2>6. l[1] = n /\ l[2] = p
    BY <2>5
  <2>7. ASSUME NEW k \in Local \X Node, k # l
        PROVE  SameAt(pk, "packet_queue", k)
    <3>1. k[1] \in Local /\ k[2] \in Node /\ (k[1] # n \/ k[2] # p)
      BY <2>5, <2>7
    <3>2. packet_queue'[k[1]][k[2]] = packet_queue[k[1]][k[2]]
      BY <2>3, <3>1
    <3> QED
      BY <3>2, SameInPair
  <2>8. ASSUME NEW w, NEW k, IsPlace(w, k), ~(w = "tun_to_coord" /\ k = n),
               ~(w = "packet_queue" /\ k = l)
        PROVE  SameAt(pk, w, k)
    <3>1. CASE w = "packet_queue"
      <4>1. k \in Local \X Node /\ k # l
        BY <2>8, <3>1 DEF IsPlace, NodePlace
      <4> QED
        BY <2>7, <3>1, <4>1
    <3>2. CASE w = "tun_to_coord"
      <4>1. k \in Local \ {n}
        BY <2>8, <3>2 DEF IsPlace
      <4> QED
        BY <1>2, <3>2, <4>1, Contents, ContentsNext DEF SameAt
    <3>3. CASE w \notin {"packet_queue", "tun_to_coord"}
      <4>1. w \in {"actions", "iroh_to_coord", "coord_to_iroh", "coord_to_tun", "packet_channel",
                   "datagrams"}
        BY <2>8, <3>3 DEF IsPlace, NodePlace
      <4> QED
        BY <1>2, <2>1, <4>1, Contents, ContentsNext DEF SameAt
    <3> QED
      BY <3>1, <3>2, <3>3
  <2>9. Passed(pk, Content(pk, "tun_to_coord", n), Content(pk, "packet_queue", l),
               Content(pk, "tun_to_coord", n)', Content(pk, "packet_queue", l)')
    <3>0. Content(pk, "tun_to_coord", n) = s
      BY Contents
    <3>1. Content(pk, "tun_to_coord", n)' = Tail(s)
      <4>1. Content(pk, "tun_to_coord", n)' = tun_to_coord'[n]
        BY ContentsNext
      <4> QED
        BY <1>2, <4>1
    <3>2. Content(pk, "packet_queue", l) = t
      BY <2>6, Contents
    <3>3. Content(pk, "packet_queue", l)' = packet_queue'[n][p]
      BY <2>6, ContentsNext
    <3> QED
      BY <2>4, <3>0, <3>1, <3>2, <3>3, Zenon
  <2>10. IsPlace("tun_to_coord", n) /\ IsPlace("packet_queue", l) /\ "tun_to_coord" # "packet_queue"
    BY <2>5 DEF IsPlace, NodePlace
  <2>11. \A w, k : /\ IsPlace(w, k)
                   /\ ~(w = "tun_to_coord" /\ k = n)
                   /\ ~(w = "packet_queue" /\ k = l)
                   => KeptAt(pk, w, k)
    BY <2>8, SameIsKept
  <2> QED
    BY <1>2, <2>9, <2>10, <2>11, PassOn
<1> QED
  BY <1>8, <1>9

-----------------------------------------------------------------------------
\* From one place to one copy.

\* In the beginning there are no packets.
LEMMA OnceStart ==
    ASSUME MeshInit
    PROVE  OnceInv
<1> SUFFICES ASSUME NEW pk, Tracked(pk)
             PROVE  OneCopy(pk)
  BY DEF OnceInv
<1>1. /\ \A n \in Local : /\ tun_to_coord[n] = <<>> /\ actions[n] = <<>> /\ coord_to_iroh[n] = <<>>
                          /\ iroh_to_coord[n] = <<>> /\ coord_to_tun[n] = <<>>
                          /\ \A p \in Node : packet_queue[n][p] = <<>>
      /\ \A c \in Conn, n \in Node : packet_channel[c][n] = <<>> /\ datagrams[c][n] = {}
  BY DEF MeshInit, CoordInit, WiringInit, CoreInit, IrohInit
<1>2. ASSUME NEW w, NEW k, IsPlace(w, k)
      PROVE  Content(pk, w, k) = <<>>
  <2>1. CASE w \in NodePlace /\ k \in Local
    BY <1>1, <2>1, Contents DEF NodePlace
  <2>2. CASE w = "packet_queue" /\ k \in Local \X Node
    BY <1>1, <2>2, Contents
  <2>3. CASE w \in {"packet_channel", "datagrams"} /\ k \in Conn \X Node
    <3>1. packet_channel[k[1]][k[2]] = <<>> /\ datagrams[k[1]][k[2]] = {}
      BY <1>1, <2>3
    <3>2. Mark(datagrams[k[1]][k[2]], pk) = <<>>
      BY <3>1 DEF Mark
    <3>3. Content(pk, "packet_channel", k) = packet_channel[k[1]][k[2]]
      BY Contents
    <3>4. Content(pk, "datagrams", k) = Mark(datagrams[k[1]][k[2]], pk)
      BY Contents
    <3> QED
      BY <2>3, <3>1, <3>2, <3>3, <3>4, Zenon
  <2> QED
    BY <1>2, <2>1, <2>2, <2>3 DEF IsPlace
<1> QED
  BY <1>2, NothingOccurs DEF OneCopy, At

\* No step of the mesh makes a second copy of a packet.
LEMMA OnceStep ==
    ASSUME MeshInv, OnceInv, [MeshNext]_meshVars
    PROVE  OnceInv'
<1> SUFFICES ASSUME NEW pk, Tracked(pk)
             PROVE  OneCopy(pk)'
  BY DEF OnceInv, Tracked
<1>0. OneCopy(pk)
  BY DEF OnceInv
<1>1. CASE UNCHANGED meshVars
  BY <1>0, <1>1, OnceSame DEF meshVars
<1>2. ASSUME NEW n \in Local, NodeCoord(n)
      PROVE  OneCopy(pk)'
  BY <1>0, <1>2, OnceHandleIrohEvent, OnceHandlePacketFromTun, OnceHandleActions, OnceTunRead,
     OnceTunWrite DEF NodeCoord, CoordStep, TunStep
<1>3. ASSUME NEW n \in Local, NodeIroh(n)
      PROVE  OneCopy(pk)'
  BY <1>0, <1>3, OnceManager DEF NodeIroh
<1>4. ASSUME NEW n \in Local, Crash(n)
      PROVE  OneCopy(pk)'
  BY <1>0, <1>4, OnceCrash
<1>5. ASSUME NEW c \in Conn, Network(c)
      PROVE  OneCopy(pk)'
  BY <1>0, <1>5, OnceTasks DEF Network
<1> QED
  BY <1>1, <1>2, <1>3, <1>4, <1>5 DEF MeshNext

\* A copy, as Copies names it, is an element of the sequence at a place.
IsCopy(pk, x, w, k, i) ==
    /\ IsPlace(w, k)
    /\ i \in DOMAIN Content(pk, w, k) /\ Carrying(Content(pk, w, k)[i], pk)
    /\ x = <<<<w, k>>, i>>

\* A spot of a place is a copy in the sense of the invariant ...
LEMMA SpotIsCopy ==
    ASSUME NEW pk, NEW w, NEW k, IsPlace(w, k), NEW s, s = Content(pk, w, k),
           NEW x \in Spots(<<w, k>>, s, pk)
    PROVE  \E v, l, i : IsCopy(pk, x, v, l, i)
<1>1. PICK i \in DOMAIN s : Carrying(s[i], pk) /\ x = <<<<w, k>>, i>>
  BY DEF Spots, Carrying
<1>2. IsCopy(pk, x, w, k, i)
  BY <1>1 DEF IsCopy
<1> QED
  BY <1>2

\* ... and all that Copies counts are such spots.
LEMMA CopyHasPlace ==
    ASSUME NEW pk, NEW x \in Copies(pk)
    PROVE  \E w, k, i : IsCopy(pk, x, w, k, i)
<1>1. ASSUME NEW n \in Local, x \in CopiesAt(n, pk)
      PROVE  \E w, k, i : IsCopy(pk, x, w, k, i)
  <2>1. IsPlace("tun_to_coord", n) /\ tun_to_coord[n] = Content(pk, "tun_to_coord", n)
    BY Contents DEF IsPlace, NodePlace
  <2>2. IsPlace("actions", n) /\ actions[n] = Content(pk, "actions", n)
    BY Contents DEF IsPlace, NodePlace
  <2>3. IsPlace("coord_to_iroh", n) /\ coord_to_iroh[n] = Content(pk, "coord_to_iroh", n)
    BY Contents DEF IsPlace, NodePlace
  <2>4. IsPlace("iroh_to_coord", n) /\ iroh_to_coord[n] = Content(pk, "iroh_to_coord", n)
    BY Contents DEF IsPlace, NodePlace
  <2>5. IsPlace("coord_to_tun", n) /\ coord_to_tun[n] = Content(pk, "coord_to_tun", n)
    BY Contents DEF IsPlace, NodePlace
  <2>6. CASE x \in Spots(<<"tun_to_coord", n>>, tun_to_coord[n], pk)
    BY <2>1, <2>6, SpotIsCopy
  <2>7. CASE x \in Spots(<<"actions", n>>, actions[n], pk)
    BY <2>2, <2>7, SpotIsCopy
  <2>8. CASE x \in Spots(<<"coord_to_iroh", n>>, coord_to_iroh[n], pk)
    BY <2>3, <2>8, SpotIsCopy
  <2>9. CASE x \in Spots(<<"iroh_to_coord", n>>, iroh_to_coord[n], pk)
    BY <2>4, <2>9, SpotIsCopy
  <2>10. CASE x \in Spots(<<"coord_to_tun", n>>, coord_to_tun[n], pk)
    BY <2>5, <2>10, SpotIsCopy
  <2> QED
    BY <1>1, <2>6, <2>7, <2>8, <2>9, <2>10, Zenon DEF CopiesAt
<1>2. ASSUME NEW l \in Local \X Node, x \in QueueCopies(l, pk)
      PROVE  \E w, k, i : IsCopy(pk, x, w, k, i)
  <2>1. IsPlace("packet_queue", l) /\ Content(pk, "packet_queue", l) = packet_queue[l[1]][l[2]]
    BY Contents DEF IsPlace
  <2> QED
    BY <1>2, <2>1, SpotIsCopy DEF QueueCopies
<1>3. ASSUME NEW l \in Conn \X Node, x \in ChannelCopies(l, pk)
      PROVE  \E w, k, i : IsCopy(pk, x, w, k, i)
  <2>1. IsPlace("packet_channel", l) /\ Content(pk, "packet_channel", l) = packet_channel[l[1]][l[2]]
    BY Contents DEF IsPlace
  <2> QED
    BY <1>3, <2>1, SpotIsCopy DEF ChannelCopies
<1>4. CASE x \in DatagramCopies(pk)
  <2>1. PICK l \in Conn \X Node :
          pk \in datagrams[l[1]][l[2]] /\ x = <<<<"datagrams", l>>, 1>>
    BY <1>4 DEF DatagramCopies
  <2>2. IsPlace("datagrams", l)
    BY DEF IsPlace
  <2>3. Content(pk, "datagrams", l) = <<pk>>
    <3>1. Mark(datagrams[l[1]][l[2]], pk) = <<pk>>
      BY <2>1 DEF Mark
    <3> QED
      BY <3>1, Contents
  <2>4. 1 \in DOMAIN <<pk>> /\ <<pk>>[1] = pk /\ Carrying(pk, pk)
    BY DEF Carrying
  <2>5. IsCopy(pk, x, "datagrams", l, 1)
    BY <2>1, <2>2, <2>3, <2>4 DEF IsCopy
  <2> QED
    BY <2>5
<1>5. \/ \E n \in Local : x \in CopiesAt(n, pk)
      \/ \E l \in Local \X Node : x \in QueueCopies(l, pk)
      \/ \E l \in Conn \X Node : x \in ChannelCopies(l, pk)
      \/ x \in DatagramCopies(pk)
  BY DEF Copies
<1> QED
  BY <1>1, <1>2, <1>3, <1>4, <1>5

\* Flushing a queue, replacing a connection, draining a forgotten session or dying
\* in the middle may lose a packet; no interleaving of them delivers it twice.
THEOREM NoPacketTwice ==
    ASSUME OpenEnvironments
    PROVE  MeshSpec => []AtMostOnce
<1>1. MeshInv /\ OnceInv /\ [MeshNext]_meshVars => OnceInv'
  BY OnceStep
<1>2. OnceInv => AtMostOnce
  <2> SUFFICES ASSUME OnceInv, NEW pk \in Packet, pk.origin \in Local, pk.seq > 0
               PROVE  Cardinality(Copies(pk)) <= 1
    BY DEF AtMostOnce
  <2>1. OneCopy(pk)
    BY DEF OnceInv, Tracked
  <2>2. ASSUME NEW x \in Copies(pk), NEW y \in Copies(pk)
        PROVE  x = y
    <3>1. PICK w, k, i : IsCopy(pk, x, w, k, i)
      BY CopyHasPlace
    <3>2. PICK v, l, j : IsCopy(pk, y, v, l, j)
      BY CopyHasPlace
    <3>3. At(pk, w, k) /\ At(pk, v, l)
      BY <3>1, <3>2 DEF IsCopy, At, Occurs
    <3>4. w = v /\ k = l
      BY <2>1, <3>3 DEF OneCopy
    <3>5. i = j
      BY <2>1, <3>1, <3>2, <3>4 DEF OneCopy, Once, IsCopy
    <3> QED
      BY <3>1, <3>2, <3>4, <3>5 DEF IsCopy
  <2>3. CASE Copies(pk) = {}
    BY <2>3, FS_EmptySet
  <2>4. CASE Copies(pk) # {}
    <3>1. PICK x \in Copies(pk) : TRUE
      BY <2>4
    <3>2. \A y \in Copies(pk) : y = x
      BY <2>2, <3>1
    <3>3. Copies(pk) = {x}
      BY <3>1, <3>2
    <3>4. Cardinality({x}) = 1
      BY FS_Singleton, Zenon
    <3>5. Cardinality(Copies(pk)) = 1
      BY <3>3, <3>4, Zenon
    <3> QED
      BY <3>5
  <2> QED
    BY <2>3, <2>4
<1> QED
  BY <1>1, <1>2, OnceStart, MeshInvariant, PTL DEF MeshSpec

-----------------------------------------------------------------------------
\* What the coordinator promises of its packets it promises in the mesh: whatever
\* managers, sessions and crashes do, each node's handlers and channels are pipes
\* that may lose packets and never reorder them, and on the way out they hold no
\* packet twice.
THEOREM MeshPipes ==
    ASSUME OpenEnvironments
    PROVE  MeshSpec => OutboundIsPipe /\ InboundIsPipe /\ []OrderedPipe
BY MeshImplementsCoordinator, OutboundIsLossyPipe, InboundIsLossyPipe, PacketsStayInOrder, PTL
=============================================================================
