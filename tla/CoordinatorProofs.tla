-------------------------- MODULE CoordinatorProofs -------------------------
(***************************************************************************)
(* The coordinator and its core, for every configuration and against any   *)
(* environment: the types are right, the channels and buffers keep their   *)
(* limits, and no packet is stranded in the buffer of a connected peer.    *)
(*                                                                         *)
(* The second half is about the way of the packets.  PacketsOf reads a     *)
(* channel through the messages that carry packets; what it gives for a    *)
(* longer channel is shown by counting up (CountUp of ChannelLemmas).      *)
(* With that, every step moves, loses or adds at most one packet of a      *)
(* pipe: the refinements of LossyPipe, and from the way out OrderedPipe.   *)
(***************************************************************************)
EXTENDS Coordinator, ChannelLemmas

-----------------------------------------------------------------------------
\* The core: what each handler of process() keeps.

\* A peer named by a routing table is a node.
LEMMA RouteIsNode ==
    ASSUME NEW n \in Local, NEW a \in DOMAIN RouteTable[n]
    PROVE  RouteTable[n][a] \in Node
BY WiringAssumption

\* Buffering keeps the limit, also when the queue is full.
LEMMA BufferedKeepsLimit ==
    ASSUME NEW q \in Seq(Packet), NEW packet \in Packet, Len(q) <= MAX_PACKETS_IN_QUEUE
    PROVE  /\ Buffered(q, packet) \in Seq(Packet)
           /\ Len(Buffered(q, packet)) <= MAX_PACKETS_IN_QUEUE
<1>1. CASE Len(q) >= MAX_PACKETS_IN_QUEUE
  <2>1. Len(q) \in Nat /\ Len(q) # 0
    BY <1>1, LenProperties, VpnCoreAssumption
  <2>2. q # <<>>
    BY <2>1, EmptySeq
  <2>3. /\ Tail(q) \in Seq(Packet)
        /\ Len(Tail(q)) = Len(q) - 1
    BY <2>2, Receive
  <2>4. /\ Append(Tail(q), packet) \in Seq(Packet)
        /\ Len(Append(Tail(q), packet)) = Len(Tail(q)) + 1
    BY <2>3, Put
  <2> QED
    BY <1>1, <2>1, <2>3, <2>4, VpnCoreAssumption DEF Buffered
<1>2. CASE ~(Len(q) >= MAX_PACKETS_IN_QUEUE)
  <2>1. /\ Append(q, packet) \in Seq(Packet)
        /\ Len(q) \in Nat
        /\ Len(Append(q, packet)) = Len(q) + 1
    BY Put
  <2> QED
    BY <1>2, <2>1, VpnCoreAssumption DEF Buffered
<1> QED
  BY <1>1, <1>2

\* The flush of a queue is a list of actions.
LEMMA FlushIsActions ==
    ASSUME NEW q \in Seq(Packet), NEW p \in Node
    PROVE  [i \in 1..Len(q) |-> [type |-> "SendPacketTo", peer |-> p, packet |-> q[i]]]
              \in Seq(Action)
<1> DEFINE flush == [i \in 1..Len(q) |-> [type |-> "SendPacketTo", peer |-> p, packet |-> q[i]]]
<1>1. Len(q) \in Nat
  BY LenProperties
<1>2. \A i \in 1..Len(q) : [type |-> "SendPacketTo", peer |-> p, packet |-> q[i]] \in Action
  BY ElementOfSeq DEF Action
<1>3. flush \in [1..Len(q) -> Action]
  BY <1>2
<1> QED
  BY <1>1, <1>3, SeqDef

\* PeerConnected keeps the core's invariant.
LEMMA OnPeerConnectedKeeps ==
    ASSUME CoreTypeOK, BufferDiscipline, NEW n \in Local, NEW p \in Node, on_peer_connected(n, p)
    PROVE  CoreTypeOK' /\ BufferDiscipline'
<1>1. CASE ~is_neighbour(n, p)
  <2>1. UNCHANGED <<is_connected, packet_queue>>
        /\ Returns(n, <<[type |-> "DisconnectFromPeer", peer |-> p]>>)
    BY <1>1 DEF on_peer_connected
  <2>2. <<[type |-> "DisconnectFromPeer", peer |-> p]>> \in Seq(Action)
    BY DEF Action
  <2> QED
    BY <2>1, <2>2 DEF CoreTypeOK, BufferDiscipline, Returns
<1>2. CASE is_neighbour(n, p) /\ is_connected[n][p]
  BY <1>2 DEF on_peer_connected, CoreTypeOK, BufferDiscipline, coreVars
<1>3. CASE is_neighbour(n, p) /\ ~is_connected[n][p]
  <2> DEFINE flush == [i \in 1..Len(packet_queue[n][p]) |->
                         [type |-> "SendPacketTo", peer |-> p,
                          packet |-> packet_queue[n][p][i]]]
  <2>1. /\ is_connected' = [is_connected EXCEPT ![n][p] = TRUE]
        /\ packet_queue' = [packet_queue EXCEPT ![n][p] = <<>>]
        /\ actions' = [actions EXCEPT ![n] = flush]
    BY <1>3 DEF on_peer_connected, Returns
  <2>2. packet_queue[n][p] \in Seq(Packet)
    BY DEF CoreTypeOK
  <2>3. flush \in Seq(Action)
    BY <2>2, FlushIsActions
  <2>4. actions' \in [Local -> Seq(Action)]
    BY <2>1, <2>3 DEF CoreTypeOK
  <2>5. /\ is_connected' \in [Local -> [Node -> BOOLEAN]]
        /\ packet_queue' \in [Local -> [Node -> Seq(Packet)]]
    BY <2>1, EmptySeq DEF CoreTypeOK
  <2>6. BufferDiscipline'
    BY <2>1, EmptySeq, VpnCoreAssumption DEF CoreTypeOK, BufferDiscipline
  <2> QED
    BY <2>4, <2>5, <2>6 DEF CoreTypeOK
<1> QED
  BY <1>1, <1>2, <1>3

\* PeerDisconnected keeps it.
LEMMA OnPeerDisconnectedKeeps ==
    ASSUME CoreTypeOK, BufferDiscipline, NEW n \in Local, NEW p \in Node,
           on_peer_disconnected(n, p)
    PROVE  CoreTypeOK' /\ BufferDiscipline'
BY DEF CoreTypeOK, BufferDiscipline, on_peer_disconnected

\* PacketFromTun keeps it.
LEMMA SendPacketKeeps ==
    ASSUME CoreTypeOK, BufferDiscipline, NEW n \in Local, NEW packet \in Packet,
           send_packet(n, packet)
    PROVE  CoreTypeOK' /\ BufferDiscipline'
<1> DEFINE p == RouteTable[n][packet.hdr.dest_ip]
<1>1. CASE ~verify_send_packet(n, packet.hdr)
  BY <1>1 DEF send_packet, CoreTypeOK, BufferDiscipline, coreVars
<1>2. ASSUME verify_send_packet(n, packet.hdr)
      PROVE  p \in Node
  BY <1>2, RouteIsNode DEF verify_send_packet, is_neighbour_ipv4
<1>3. CASE verify_send_packet(n, packet.hdr) /\ is_connected[n][p]
  <2>1. UNCHANGED <<is_connected, packet_queue>>
        /\ Returns(n, <<[type |-> "SendPacketTo", peer |-> p, packet |-> packet]>>)
    BY <1>3 DEF send_packet
  <2>2. <<[type |-> "SendPacketTo", peer |-> p, packet |-> packet]>> \in Seq(Action)
    BY <1>2, <1>3 DEF Action
  <2> QED
    BY <2>1, <2>2 DEF CoreTypeOK, BufferDiscipline, Returns
<1>4. CASE verify_send_packet(n, packet.hdr) /\ ~is_connected[n][p]
  <2>1. /\ packet_queue' = [packet_queue EXCEPT ![n][p] = Buffered(@, packet)]
        /\ UNCHANGED <<is_connected, actions>>
    BY <1>4 DEF send_packet
  <2>2. packet_queue[n][p] \in Seq(Packet) /\ Len(packet_queue[n][p]) <= MAX_PACKETS_IN_QUEUE
    BY <1>2, <1>4 DEF CoreTypeOK, BufferDiscipline
  <2>3. /\ Buffered(packet_queue[n][p], packet) \in Seq(Packet)
        /\ Len(Buffered(packet_queue[n][p], packet)) <= MAX_PACKETS_IN_QUEUE
    BY <2>2, BufferedKeepsLimit
  <2> QED
    BY <1>2, <1>4, <2>1, <2>3 DEF CoreTypeOK, BufferDiscipline
<1> QED
  BY <1>1, <1>3, <1>4

\* PacketFromIroh keeps it.
LEMMA RecvPacketKeeps ==
    ASSUME CoreTypeOK, BufferDiscipline, NEW n \in Local, NEW packet \in Packet, NEW p,
           recv_packet(n, packet, p)
    PROVE  CoreTypeOK' /\ BufferDiscipline'
<1>1. <<[type |-> "WriteToTun", packet |-> packet]>> \in Seq(Action)
  BY DEF Action
<1>2. <<>> \in Seq(Action)
  BY EmptySeq
<1> QED
  BY <1>1, <1>2 DEF recv_packet, CoreTypeOK, BufferDiscipline

-----------------------------------------------------------------------------
\* The coordinator: the invariant, and one lemma per kind of step.

CoordInv == CoordTypeOK /\ BufferDiscipline

\* An event of the iroh manager.
LEMMA HandleIrohEventKeeps ==
    ASSUME CoordInv, NEW n \in Local, handle_iroh_event(n)
    PROVE  CoordInv'
<1> DEFINE event == Head(iroh_to_coord[n])
<1>1. iroh_to_coord[n] \in Seq(IrohEvent) /\ iroh_to_coord[n] # <<>>
  BY DEF CoordInv, CoordTypeOK, WiringTypeOK, handle_iroh_event, process_iroh_event
<1>2. /\ event \in IrohEvent
      /\ Tail(iroh_to_coord[n]) \in Seq(IrohEvent)
      /\ Len(Tail(iroh_to_coord[n])) <= Len(iroh_to_coord[n])
      /\ Len(iroh_to_coord[n]) \in Nat /\ Len(Tail(iroh_to_coord[n])) \in Nat
  BY <1>1, Receive
<1>3. /\ event.peer \in Node
      /\ event.type = "RecvPacketFrom" => event.packet \in Packet
  BY <1>2 DEF IrohEvent
<1>4. CoreTypeOK' /\ BufferDiscipline'
  <2>1. CASE event.type = "ConnectedToPeer" /\ on_peer_connected(n, event.peer)
    BY <1>3, <2>1, OnPeerConnectedKeeps DEF CoordInv, CoordTypeOK
  <2>2. CASE event.type = "DisconnectedFromPeer" /\ on_peer_disconnected(n, event.peer)
    BY <1>3, <2>2, OnPeerDisconnectedKeeps DEF CoordInv, CoordTypeOK
  <2>3. CASE event.type = "RecvPacketFrom" /\ recv_packet(n, event.packet, event.peer)
    BY <1>3, <2>3, RecvPacketKeeps DEF CoordInv, CoordTypeOK
  <2> QED
    BY <2>1, <2>2, <2>3 DEF handle_iroh_event, process_iroh_event
<1>5. WiringTypeOK'
  BY <1>2, WiringAssumption DEF handle_iroh_event, process_iroh_event, CoordInv, CoordTypeOK,
     WiringTypeOK
<1> QED
  BY <1>4, <1>5 DEF handle_iroh_event, process_iroh_event, CoordInv, CoordTypeOK

\* A packet of the TUN reader.
LEMMA HandlePacketFromTunKeeps ==
    ASSUME CoordInv, NEW n \in Local, handle_packet_from_tun(n)
    PROVE  CoordInv'
<1>1. tun_to_coord[n] \in Seq(Packet) /\ tun_to_coord[n] # <<>>
  BY DEF CoordInv, CoordTypeOK, handle_packet_from_tun
<1>2. /\ Head(tun_to_coord[n]) \in Packet
      /\ Tail(tun_to_coord[n]) \in Seq(Packet)
      /\ Len(Tail(tun_to_coord[n])) <= Len(tun_to_coord[n])
      /\ Len(tun_to_coord[n]) \in Nat /\ Len(Tail(tun_to_coord[n])) \in Nat
  BY <1>1, Receive
<1>3. CoreTypeOK' /\ BufferDiscipline'
  BY <1>2, SendPacketKeeps DEF CoordInv, CoordTypeOK, handle_packet_from_tun
<1>4. WiringTypeOK'
  BY DEF handle_packet_from_tun, CoordInv, CoordTypeOK, WiringTypeOK
<1>5. /\ tun_to_coord' \in [Local -> Seq(Packet)]
      /\ \A m \in Local : Len(tun_to_coord'[m]) <= INTERMOD_CHANNEL_CAPACITY
  BY <1>2, WiringAssumption DEF handle_packet_from_tun, CoordInv, CoordTypeOK
<1> QED
  BY <1>3, <1>4, <1>5 DEF handle_packet_from_tun, CoordInv, CoordTypeOK

\* One action of the core.
LEMMA HandleActionsKeeps ==
    ASSUME CoordInv, NEW n \in Local, handle_actions(n)
    PROVE  CoordInv'
<1> DEFINE action == Head(actions[n])
<1>1. actions[n] \in Seq(Action) /\ actions[n] # <<>>
  BY DEF CoordInv, CoordTypeOK, CoreTypeOK, handle_actions
<1>2. action \in Action /\ Tail(actions[n]) \in Seq(Action)
  BY <1>1, Receive
<1>3. CoreTypeOK' /\ BufferDiscipline'
  BY <1>2 DEF handle_actions, CoordInv, CoordTypeOK, CoreTypeOK, BufferDiscipline
<1>4. /\ coord_to_iroh[n] \in Seq(CoreAction)
      /\ Len(coord_to_iroh[n]) <= INTERMOD_CHANNEL_CAPACITY
      /\ coord_to_tun[n] \in Seq(Packet)
      /\ Len(coord_to_tun[n]) <= INTERMOD_CHANNEL_CAPACITY
  BY DEF CoordInv, CoordTypeOK, WiringTypeOK
<1>5. CASE /\ action.type = "DisconnectFromPeer"
           /\ HasRoom(coord_to_iroh[n])
           /\ coord_to_iroh' = [coord_to_iroh EXCEPT ![n] = Append(@, action)]
           /\ UNCHANGED coord_to_tun
  <2>1. action \in CoreAction
    BY <1>2, <1>5 DEF Action, CoreAction
  <2>2. /\ Append(coord_to_iroh[n], action) \in Seq(CoreAction)
        /\ Len(Append(coord_to_iroh[n], action)) <= INTERMOD_CHANNEL_CAPACITY
    BY <1>4, <1>5, <2>1, PutInRoom
  <2>3. WiringTypeOK'
    BY <1>5, <2>2 DEF handle_actions, CoordInv, CoordTypeOK, WiringTypeOK
  <2> QED
    BY <1>3, <1>5, <2>3 DEF handle_actions, CoordInv, CoordTypeOK
<1>6. CASE /\ action.type = "SendPacketTo"
           /\ coord_to_iroh' = [coord_to_iroh EXCEPT ![n] = TrySend(@, action)]
           /\ UNCHANGED coord_to_tun
  <2>1. action \in CoreAction
    BY <1>2, <1>6 DEF Action, CoreAction
  <2>2. /\ TrySend(coord_to_iroh[n], action) \in Seq(CoreAction)
        /\ Len(TrySend(coord_to_iroh[n], action)) <= INTERMOD_CHANNEL_CAPACITY
    BY <1>4, <2>1, TrySendKeeps
  <2>3. WiringTypeOK'
    BY <1>6, <2>2 DEF handle_actions, CoordInv, CoordTypeOK, WiringTypeOK
  <2> QED
    BY <1>3, <1>6, <2>3 DEF handle_actions, CoordInv, CoordTypeOK
<1>7. CASE /\ action.type = "WriteToTun"
           /\ coord_to_tun' = [coord_to_tun EXCEPT ![n] = TrySend(@, action.packet)]
           /\ UNCHANGED coord_to_iroh
  <2>1. action.packet \in Packet
    BY <1>2, <1>7 DEF Action
  <2>2. /\ TrySend(coord_to_tun[n], action.packet) \in Seq(Packet)
        /\ Len(TrySend(coord_to_tun[n], action.packet)) <= INTERMOD_CHANNEL_CAPACITY
    BY <1>4, <2>1, TrySendKeeps
  <2>3. WiringTypeOK'
    BY <1>7 DEF handle_actions, CoordInv, CoordTypeOK, WiringTypeOK
  <2> QED
    BY <1>3, <1>7, <2>2, <2>3 DEF handle_actions, CoordInv, CoordTypeOK
<1> QED
  BY <1>5, <1>6, <1>7 DEF handle_actions

\* The TUN workers.
LEMMA TunStepKeeps ==
    ASSUME CoordInv, NEW n \in Local, TunStep(n)
    PROVE  CoordInv'
<1>1. CASE TunRead(n)
  <2>1. PICK h \in Header :
          tun_to_coord' = [tun_to_coord EXCEPT ![n] =
                             TrySend(@, [hdr |-> h, origin |-> n, seq |-> reads[n] + 1])]
    BY <1>1 DEF TunRead
  <2>2. reads[n] \in 0..MaxReads /\ reads[n] < MaxReads
    BY <1>1 DEF TunRead, CoordInv, CoordTypeOK
  <2>3. reads[n] + 1 \in 0..MaxReads
    BY <2>2, WiringAssumption
  <2>4. [hdr |-> h, origin |-> n, seq |-> reads[n] + 1] \in Packet
    BY <2>3, WiringAssumption DEF Packet
  <2>5. /\ tun_to_coord[n] \in Seq(Packet)
        /\ Len(tun_to_coord[n]) <= INTERMOD_CHANNEL_CAPACITY
    BY DEF CoordInv, CoordTypeOK
  <2> DEFINE channel == TrySend(tun_to_coord[n], [hdr |-> h, origin |-> n, seq |-> reads[n] + 1])
  <2>6. channel \in Seq(Packet) /\ Len(channel) <= INTERMOD_CHANNEL_CAPACITY
    BY <2>4, <2>5, TrySendKeeps
  <2>7. tun_to_coord' = [tun_to_coord EXCEPT ![n] = channel]
    BY <2>1
  <2> HIDE DEF channel
  <2>8. /\ WiringTypeOK' /\ CoreTypeOK' /\ BufferDiscipline'
        /\ reads' \in [Local -> 0..MaxReads]
    BY <1>1, <2>3 DEF TunRead, CoordInv, CoordTypeOK, WiringTypeOK, CoreTypeOK, BufferDiscipline
  <2> QED
    BY <1>1, <2>6, <2>7, <2>8 DEF TunRead, CoordInv, CoordTypeOK
<1>2. CASE TunWrite(n)
  <2>1. coord_to_tun[n] \in Seq(Packet) /\ coord_to_tun[n] # <<>>
    BY <1>2 DEF CoordInv, CoordTypeOK, TunWrite
  <2>2. /\ Tail(coord_to_tun[n]) \in Seq(Packet)
        /\ Len(Tail(coord_to_tun[n])) <= Len(coord_to_tun[n])
        /\ Len(coord_to_tun[n]) \in Nat /\ Len(Tail(coord_to_tun[n])) \in Nat
    BY <2>1, Receive
  <2>3. WiringTypeOK' /\ CoreTypeOK' /\ BufferDiscipline'
    BY <1>2 DEF TunWrite, CoordInv, CoordTypeOK, WiringTypeOK, CoreTypeOK, BufferDiscipline
  <2> QED
    BY <1>2, <2>2, <2>3, WiringAssumption DEF TunWrite, CoordInv, CoordTypeOK
<1> QED
  BY <1>1, <1>2 DEF TunStep

\* The end of a process.
LEMMA CoordResetKeeps ==
    ASSUME CoordInv, NEW n \in Local, CoordReset(n), running' \in [Local -> BOOLEAN]
    PROVE  CoordInv'
<1>1. /\ <<>> \in Seq(IrohEvent) /\ <<>> \in Seq(CoreAction) /\ <<>> \in Seq(Packet)
      /\ <<>> \in Seq(Action) /\ Len(<<>>) = 0
  BY EmptySeq
<1>2. WiringTypeOK'
  <2>1. 0 <= INTERMOD_CHANNEL_CAPACITY
    BY WiringAssumption
  <2>2. /\ iroh_to_coord' \in [Local -> Seq(IrohEvent)]
        /\ coord_to_iroh' \in [Local -> Seq(CoreAction)]
    BY <1>1 DEF CoordReset, CoordInv, CoordTypeOK, WiringTypeOK
  <2>3. ASSUME NEW m \in Local
        PROVE  /\ Len(iroh_to_coord'[m]) <= INTERMOD_CHANNEL_CAPACITY
               /\ Len(coord_to_iroh'[m]) <= INTERMOD_CHANNEL_CAPACITY
    BY <1>1, <2>1 DEF CoordReset, CoordInv, CoordTypeOK, WiringTypeOK
  <2> QED
    BY <2>2, <2>3 DEF WiringTypeOK
<1>3. CoreTypeOK'
  BY <1>1 DEF CoordReset, CoordInv, CoordTypeOK, CoreTypeOK
<1>4. BufferDiscipline'
  BY <1>1, VpnCoreAssumption DEF CoordReset, CoordInv, CoordTypeOK, CoreTypeOK, BufferDiscipline
<1> QED
  BY <1>1, <1>2, <1>3, <1>4, WiringAssumption DEF CoordReset, CoordInv, CoordTypeOK

\* The open environment.
LEMMA CoordEnvKeeps ==
    ASSUME CoordInv, NEW n \in Local, CoordEnv(n)
    PROVE  CoordInv'
<1>1. CASE /\ running' = [running EXCEPT ![n] = TRUE]
           /\ UNCHANGED <<iroh_to_coord, coord_to_iroh, is_connected, packet_queue, actions,
                          tun_to_coord, coord_to_tun, reads>>
  BY <1>1 DEF CoordInv, CoordTypeOK, WiringTypeOK, CoreTypeOK, BufferDiscipline
<1>2. CASE running' = [running EXCEPT ![n] = FALSE] /\ CoordReset(n)
  BY <1>2, CoordResetKeeps DEF CoordInv, CoordTypeOK, WiringTypeOK
<1>3. ASSUME NEW event \in EnvEvent, HasRoom(iroh_to_coord[n]),
             iroh_to_coord' = [iroh_to_coord EXCEPT ![n] = Append(@, event)],
             UNCHANGED <<running, coord_to_iroh, is_connected, packet_queue, actions,
                         tun_to_coord, coord_to_tun, reads>>
      PROVE  CoordInv'
  <2>1. iroh_to_coord[n] \in Seq(IrohEvent) /\ event \in IrohEvent
    BY EnvEventAssumption DEF CoordInv, CoordTypeOK, WiringTypeOK
  <2>2. /\ Append(iroh_to_coord[n], event) \in Seq(IrohEvent)
        /\ Len(Append(iroh_to_coord[n], event)) <= INTERMOD_CHANNEL_CAPACITY
    BY <1>3, <2>1, PutInRoom
  <2>3. WiringTypeOK'
    BY <1>3, <2>2 DEF CoordInv, CoordTypeOK, WiringTypeOK
  <2> QED
    BY <1>3, <2>3 DEF CoordInv, CoordTypeOK, CoreTypeOK, BufferDiscipline
<1>4. CASE /\ coord_to_iroh[n] # <<>>
           /\ coord_to_iroh' = [coord_to_iroh EXCEPT ![n] = Tail(@)]
           /\ UNCHANGED <<running, iroh_to_coord, is_connected, packet_queue, actions,
                          tun_to_coord, coord_to_tun, reads>>
  <2>1. coord_to_iroh[n] \in Seq(CoreAction)
    BY DEF CoordInv, CoordTypeOK, WiringTypeOK
  <2>2. /\ Tail(coord_to_iroh[n]) \in Seq(CoreAction)
        /\ Len(Tail(coord_to_iroh[n])) <= Len(coord_to_iroh[n])
        /\ Len(coord_to_iroh[n]) \in Nat /\ Len(Tail(coord_to_iroh[n])) \in Nat
    BY <1>4, <2>1, Receive
  <2>3. WiringTypeOK'
    BY <1>4, <2>2, WiringAssumption DEF CoordInv, CoordTypeOK, WiringTypeOK
  <2> QED
    BY <1>4, <2>3 DEF CoordInv, CoordTypeOK, CoreTypeOK, BufferDiscipline
<1> QED
  BY <1>1, <1>2, <1>3, <1>4 DEF CoordEnv, EnvSends, EnvTakes

-----------------------------------------------------------------------------
\* The invariant is inductive.

\* It holds when no process has started.
LEMMA CoordInitEstablishes ==
    ASSUME CoordInit
    PROVE  CoordInv
<1>1. /\ <<>> \in Seq(IrohEvent) /\ <<>> \in Seq(CoreAction) /\ <<>> \in Seq(Packet)
      /\ <<>> \in Seq(Action) /\ Len(<<>>) = 0
  BY EmptySeq
<1>2. WiringTypeOK
  BY <1>1, WiringAssumption DEF CoordInit, WiringInit, WiringTypeOK
<1>3. CoreTypeOK /\ BufferDiscipline
  BY <1>1, VpnCoreAssumption DEF CoordInit, CoreInit, CoreTypeOK, BufferDiscipline
<1> QED
  BY <1>1, <1>2, <1>3, WiringAssumption DEF CoordInit, CoordInv, CoordTypeOK

\* Every step keeps it.
LEMMA CoordNextKeeps ==
    ASSUME CoordInv, [CoordNext]_coordVars
    PROVE  CoordInv'
<1>1. CASE UNCHANGED coordVars
  BY <1>1 DEF coordVars, CoordInv, CoordTypeOK, WiringTypeOK, CoreTypeOK, BufferDiscipline
<1>2. ASSUME NEW n \in Local, CoordStep(n) \/ TunStep(n) \/ CoordEnv(n)
      PROVE  CoordInv'
  BY <1>2, HandleIrohEventKeeps, HandlePacketFromTunKeeps, HandleActionsKeeps, TunStepKeeps,
     CoordEnvKeeps DEF CoordStep
<1> QED
  BY <1>1, <1>2 DEF CoordNext

\* The coordinator keeps CoordInv, whatever the iroh manager sends it.
THEOREM CoordinatorInvariant == CoordSpec => []CoordInv
BY CoordInitEstablishes, CoordNextKeeps, PTL DEF CoordSpec

\* Types and capacities: no channel of the coordinator outgrows its bound.
THEOREM CoordinatorTypes == CoordSpec => []CoordTypeOK
BY CoordinatorInvariant, PTL DEF CoordInv

\* No packet is stranded in the buffer of a connected peer, and no buffer
\* outgrows MAX_PACKETS_IN_QUEUE.
THEOREM CoordinatorBuffers == CoordSpec => []BufferDiscipline
BY CoordinatorInvariant, PTL DEF CoordInv

-----------------------------------------------------------------------------
\* What PacketsOf computes.  Its recursive function is well defined, and follows
\* the messages one by one.

\* The messages of C carry a packet.
Carries(C) == \A e \in C : e.packet \in Packet

\* The value of the recursive function at i, given the function.
Gathered(f, s, C, i) ==
    IF i = 0 THEN <<>>
    ELSE IF s[i] \in C THEN Append(f[i - 1], s[i].packet)
    ELSE f[i - 1]

\* There is such a function up to every k: there is no least k without one.
LEMMA GatheringExists ==
    ASSUME NEW s, NEW C, NEW k \in Nat
    PROVE  \E f : f = [i \in 0..k |-> Gathered(f, s, C, i)]
<1> DEFINE G(f, j) == f = [i \in 0..j |-> Gathered(f, s, C, i)]
           T == {j \in Nat : ~\E f : G(f, j)}
<1> SUFFICES ASSUME T # {}
             PROVE  FALSE
  OBVIOUS
<1>1. PICK x \in T : \A y \in T : x <= y
  BY LeastNumber
<1>2. CASE x = 0
  <2>1. G([i \in 0..0 |-> <<>>], 0)
    BY DEF Gathered
  <2> QED
    BY <1>1, <1>2, <2>1
<1>3. CASE x # 0
  <2>1. x - 1 \in Nat /\ x - 1 \notin T
    BY <1>1, <1>3
  <2>2. PICK f : G(f, x - 1)
    BY <2>1
  <2> DEFINE g == [i \in 0..x |-> IF i = x THEN Gathered(f, s, C, x) ELSE f[i]]
  <2>3. ASSUME NEW i \in 0..x
        PROVE  g[i] = Gathered(g, s, C, i)
    <3>1. CASE i = x
      <4>1. x - 1 \in 0..x /\ x - 1 # x /\ g[x - 1] = f[x - 1]
        BY <1>1, <1>3
      <4> QED
        BY <1>3, <3>1, <4>1 DEF Gathered
    <3>2. CASE i # x
      <4>1. i \in 0..(x - 1) /\ g[i] = f[i]
        BY <1>1, <3>2
      <4>2. f[i] = Gathered(f, s, C, i)
        BY <2>2, <4>1
      <4>3. i # 0 => i - 1 \in 0..x /\ i - 1 # x /\ g[i - 1] = f[i - 1]
        BY <1>1, <3>2
      <4> QED
        BY <4>1, <4>2, <4>3 DEF Gathered
    <3> QED
      BY <3>1, <3>2
  <2>4. G(g, x)
    <3>1. g = [i \in 0..x |-> g[i]]
      OBVIOUS
    <3> HIDE DEF g
    <3> QED
      BY <2>3, <3>1
  <2> QED
    BY <1>1, <2>4
<1> QED
  BY <1>2, <1>3

\* PacketsUpTo follows its definition.
LEMMA UpToDef ==
    ASSUME NEW s, NEW C, Len(s) \in Nat
    PROVE  /\ PacketsUpTo(s, C)[0] = <<>>
           /\ \A i \in 1..Len(s) :
                 PacketsUpTo(s, C)[i] = IF s[i] \in C
                                        THEN Append(PacketsUpTo(s, C)[i - 1], s[i].packet)
                                        ELSE PacketsUpTo(s, C)[i - 1]
<1> DEFINE G(f) == f = [i \in 0..Len(s) |-> Gathered(f, s, C, i)]
           U == PacketsUpTo(s, C)
<1>1. U = CHOOSE f : G(f)
  BY DEF PacketsUpTo, Gathered
<1>2. \E f : G(f)
  BY GatheringExists
<1> HIDE DEF G, U
<1>3. G(CHOOSE f : G(f))
  BY <1>2
<1>4. U = [i \in 0..Len(s) |-> Gathered(U, s, C, i)]
  BY <1>1, <1>3 DEF G
<1>5. 0 \in 0..Len(s) /\ \A i \in 1..Len(s) : i \in 0..Len(s) /\ i # 0
  OBVIOUS
<1>6. U[0] = Gathered(U, s, C, 0) /\ \A i \in 1..Len(s) : U[i] = Gathered(U, s, C, i)
  BY <1>4, <1>5
<1> QED
  BY <1>5, <1>6 DEF Gathered, U

\* It yields sequences of packets.
LEMMA UpToType ==
    ASSUME NEW s, NEW C, Len(s) \in Nat, NEW X, \A e \in C : e.packet \in X
    PROVE  \A k \in 0..Len(s) : PacketsUpTo(s, C)[k] \in Seq(X)
<1> DEFINE U == PacketsUpTo(s, C)
           Good == {j \in 0..Len(s) : U[j] \in Seq(X)}
<1>1. /\ U[0] = <<>>
      /\ \A i \in 1..Len(s) :
            U[i] = IF s[i] \in C THEN Append(U[i - 1], s[i].packet) ELSE U[i - 1]
  BY UpToDef
<1> HIDE DEF U
<1>2. 0 \in Good
  <2>1. <<>> \in Seq(X) /\ 0 \in 0..Len(s)
    BY EmptySeq
  <2> QED
    BY <1>1, <2>1, Zenon
<1>3. ASSUME NEW i \in 1..Len(s), i - 1 \in Good
      PROVE  i \in Good
  <2>1. U[i - 1] \in Seq(X) /\ i \in 0..Len(s)
    BY <1>3
  <2>2. s[i] \in C => Append(U[i - 1], s[i].packet) \in Seq(X)
    BY <2>1, Put
  <2> QED
    BY <1>1, <2>1, <2>2
<1> HIDE DEF Good
<1>4. \A k \in 0..Len(s) : k \in Good
  BY <1>2, <1>3, CountUp
<1> QED
  BY <1>4 DEF Good, U

\* The packets of a sequence of messages are a sequence of packets.
LEMMA PacketsOfType ==
    ASSUME NEW S, NEW s \in Seq(S), NEW C, Carries(C)
    PROVE  PacketsOf(s, C) \in Seq(Packet)
<1>1. Len(s) \in Nat /\ Len(s) \in 0..Len(s)
  BY LenProperties
<1> QED
  BY <1>1, UpToType DEF PacketsOf, Carries

\* An empty channel carries no packet.
LEMMA PacketsOfNone ==
    ASSUME NEW C
    PROVE  PacketsOf(<<>>, C) = <<>>
<1>1. Len(<<>>) = 0 /\ 0 \in Nat
  BY EmptySeq
<1> QED
  BY <1>1, UpToDef DEF PacketsOf

\* What is appended to the last part is appended to the whole.
LEMMA AppendConcat ==
    ASSUME NEW X, NEW s \in Seq(X), NEW t \in Seq(X), NEW e \in X
    PROVE  s \o Append(t, e) = Append(s \o t, e)
<1>1. <<e>> \in Seq(X) /\ s \o t \in Seq(X)
  BY ConcatProperties
<1>2. (s \o t) \o <<e>> = s \o (t \o <<e>>)
  BY <1>1, ConcatAssociative
<1>3. Append(s \o t, e) = (s \o t) \o <<e>> /\ Append(t, e) = t \o <<e>>
  BY <1>1, AppendIsConcat
<1> QED
  BY <1>2, <1>3

\* The packets of two channels in a row.
LEMMA PacketsOfConcat ==
    ASSUME NEW S, NEW s \in Seq(S), NEW t \in Seq(S), NEW C, Carries(C)
    PROVE  PacketsOf(s \o t, C) = PacketsOf(s, C) \o PacketsOf(t, C)
<1> DEFINE r == s \o t
           U == PacketsUpTo(r, C)
           V == PacketsUpTo(s, C)
           W == PacketsUpTo(t, C)
<1>1. /\ Len(s) \in Nat /\ Len(t) \in Nat /\ Len(r) = Len(s) + Len(t)
      /\ \A i \in 1..(Len(s) + Len(t)) : r[i] = IF i <= Len(s) THEN s[i] ELSE t[i - Len(s)]
      /\ Len(r) \in Nat
  BY ConcatProperties, LenProperties
<1> HIDE DEF r
<1>2. /\ U[0] = <<>>
      /\ \A i \in 1..Len(r) :
            U[i] = IF r[i] \in C THEN Append(U[i - 1], r[i].packet) ELSE U[i - 1]
  BY <1>1, UpToDef
<1>2a. /\ V[0] = <<>>
      /\ \A i \in 1..Len(s) :
            V[i] = IF s[i] \in C THEN Append(V[i - 1], s[i].packet) ELSE V[i - 1]
  BY <1>1, UpToDef
<1>2b. /\ W[0] = <<>>
      /\ \A i \in 1..Len(t) :
            W[i] = IF t[i] \in C THEN Append(W[i - 1], t[i].packet) ELSE W[i - 1]
  BY <1>1, UpToDef
<1>2c. \A e \in C : e.packet \in Packet
  BY DEF Carries
<1>3. /\ \A i \in 0..Len(s) : V[i] \in Seq(Packet)
      /\ \A i \in 0..Len(t) : W[i] \in Seq(Packet)
  BY <1>1, <1>2c, UpToType
<1> HIDE DEF U, V, W
<1>4. \A k \in 0..Len(s) : U[k] = V[k]
  <2> DEFINE Good == {j \in 0..Len(s) : U[j] = V[j]}
  <2>1. 0 \in Good
    BY <1>1, <1>2, <1>2a
  <2>2. ASSUME NEW i \in 1..Len(s), i - 1 \in Good
        PROVE  i \in Good
    <3>1. i \in 1..Len(r) /\ i \in 0..Len(s) /\ r[i] = s[i] /\ U[i - 1] = V[i - 1]
      BY <1>1, <2>2
    <3> QED
      BY <1>2, <1>2a, <3>1
  <2> HIDE DEF Good
  <2>3. \A k \in 0..Len(s) : k \in Good
    BY <1>1, <2>1, <2>2, CountUp
  <2> QED
    BY <2>3 DEF Good
<1>5. \A k \in 0..Len(t) : U[Len(s) + k] = V[Len(s)] \o W[k]
  <2> DEFINE v == V[Len(s)]
             Good == {j \in 0..Len(t) : U[Len(s) + j] = v \o W[j]}
  <2>0. Len(s) \in 0..Len(s) /\ 0 \in 0..Len(t) /\ Len(s) + 0 = Len(s)
    BY <1>1
  <2>1. v \in Seq(Packet)
    BY <1>3, <2>0
  <2>2. 0 \in Good
    <3>1. U[Len(s) + 0] = v
      BY <1>4, <2>0
    <3>2. v \o W[0] = v
      BY <1>2b, <2>1, ConcatEmptySeq
    <3> QED
      BY <2>0, <3>1, <3>2, Zenon
  <2>3. ASSUME NEW x \in 1..Len(t), x - 1 \in Good
        PROVE  x \in Good
    <3>1. /\ x \in 0..Len(t) /\ x - 1 \in 0..Len(t)
          /\ Len(s) + x \in 1..Len(r) /\ r[Len(s) + x] = t[x]
          /\ (Len(s) + x) - 1 = Len(s) + (x - 1)
      BY <1>1
    <3>2. U[Len(s) + (x - 1)] = v \o W[x - 1]
      BY <2>3
    <3>3. U[Len(s) + x] = IF t[x] \in C THEN Append(v \o W[x - 1], t[x].packet)
                                        ELSE v \o W[x - 1]
      BY <1>2, <3>1, <3>2
    <3>4. W[x] = IF t[x] \in C THEN Append(W[x - 1], t[x].packet) ELSE W[x - 1]
      BY <1>2b
    <3>5. ASSUME t[x] \in C
          PROVE  Append(v \o W[x - 1], t[x].packet) = v \o Append(W[x - 1], t[x].packet)
      <4>1. t[x].packet \in Packet /\ W[x - 1] \in Seq(Packet)
        BY <1>2c, <1>3, <3>1, <3>5
      <4>2. ASSUME NEW y \in Packet, NEW w \in Seq(Packet), NEW z \in Seq(Packet)
            PROVE  z \o Append(w, y) = Append(z \o w, y)
        BY AppendConcat
      <4> QED
        BY <2>1, <4>1, <4>2
    <3> QED
      BY <3>1, <3>3, <3>4, <3>5
  <2> HIDE DEF Good
  <2>4. \A k \in 0..Len(t) : k \in Good
    BY <1>1, <2>2, <2>3, CountUp
  <2> QED
    BY <2>4 DEF Good
<1>6. U[Len(r)] = V[Len(s)] \o W[Len(t)]
  <2>1. Len(t) \in 0..Len(t)
    BY <1>1
  <2>2. U[Len(s) + Len(t)] = V[Len(s)] \o W[Len(t)]
    BY <1>5, <2>1, Zenon
  <2> QED
    BY <1>1, <2>2
<1> QED
  BY <1>6 DEF PacketsOf, U, V, W, r

\* A message alone in its channel contributes its packet or nothing.
LEMMA PacketsOfOne ==
    ASSUME NEW e, NEW C
    PROVE  PacketsOf(<<e>>, C) = IF e \in C THEN <<e.packet>> ELSE <<>>
<1> DEFINE s == <<e>>
           U == PacketsUpTo(s, C)
<1>1. Len(s) = 1 /\ s[1] = e /\ Len(s) \in Nat /\ 1 \in 1..Len(s) /\ 1 - 1 = 0
  OBVIOUS
<1> HIDE DEF s
<1>2. /\ U[0] = <<>>
      /\ \A i \in 1..Len(s) :
            U[i] = IF s[i] \in C THEN Append(U[i - 1], s[i].packet) ELSE U[i - 1]
  BY <1>1, UpToDef
<1> HIDE DEF U
<1>3. U[1] = IF e \in C THEN Append(<<>>, e.packet) ELSE <<>>
  BY <1>1, <1>2
<1>4. Append(<<>>, e.packet) = <<e.packet>>
  OBVIOUS
<1>5. U[1] = IF e \in C THEN <<e.packet>> ELSE <<>>
  BY <1>3, <1>4
<1> QED
  BY <1>1, <1>5 DEF PacketsOf, U, s

\* Sending a message adds its packet, if it carries one.
LEMMA PacketsOfAppend ==
    ASSUME NEW S, NEW s \in Seq(S), NEW e \in S, NEW C, Carries(C)
    PROVE  PacketsOf(Append(s, e), C) = PacketsOf(s, C) \o PacketsOf(<<e>>, C)
<1> DEFINE one == <<e>>
<1>1. one \in Seq(S) /\ Append(s, e) = s \o one
  BY AppendIsConcat
<1> HIDE DEF one
<1>2. PacketsOf(s \o one, C) = PacketsOf(s, C) \o PacketsOf(one, C)
  BY <1>1, PacketsOfConcat
<1> QED
  BY <1>1, <1>2 DEF one

\* A sequence is its head and its tail.
LEMMA HeadThenTail ==
    ASSUME NEW S, NEW s \in Seq(S), s # <<>>
    PROVE  s = <<Head(s)>> \o Tail(s)
<1>1. Len(s) \in Nat \ {0}
  BY EmptySeq
<1>2. SubSeq(s, 1, Len(s)) = <<s[1]>> \o SubSeq(s, 1 + 1, Len(s))
  BY <1>1, SubSeqRecursiveFirst
<1>3. SubSeq(s, 1, Len(s)) = s /\ Tail(s) = SubSeq(s, 2, Len(s)) /\ Head(s) = s[1]
  BY SubSeqFull, TailIsSubSeq
<1> QED
  BY <1>2, <1>3

\* Receiving a message takes its packet away, if it carries one.
LEMMA PacketsOfReceive ==
    ASSUME NEW S, NEW s \in Seq(S), s # <<>>, NEW C, Carries(C)
    PROVE  PacketsOf(s, C) = PacketsOf(<<Head(s)>>, C) \o PacketsOf(Tail(s), C)
<1>1. Head(s) \in S /\ Tail(s) \in Seq(S)
  BY Receive
<1> DEFINE one == <<Head(s)>>
           rest == Tail(s)
<1>2. one \in Seq(S) /\ rest \in Seq(S) /\ s = one \o rest
  BY <1>1, HeadThenTail
<1> HIDE DEF one, rest
<1>3. PacketsOf(one \o rest, C) = PacketsOf(one, C) \o PacketsOf(rest, C)
  BY <1>2, PacketsOfConcat
<1> QED
  BY <1>2, <1>3 DEF one, rest

\* Messages that all carry a packet.
LEMMA PacketsOfAll ==
    ASSUME NEW X, NEW q \in Seq(X), NEW s, NEW C, Len(s) = Len(q),
           \A i \in 1..Len(q) : s[i] \in C /\ s[i].packet = q[i]
    PROVE  PacketsOf(s, C) = q
<1> DEFINE U == PacketsUpTo(s, C)
           Good == {k \in 0..Len(q) : U[k] = SubSeq(q, 1, k)}
<1>1. Len(q) \in Nat /\ Len(s) \in Nat
  BY LenProperties
<1>2. /\ U[0] = <<>>
      /\ \A i \in 1..Len(s) :
            U[i] = IF s[i] \in C THEN Append(U[i - 1], s[i].packet) ELSE U[i - 1]
  BY <1>1, UpToDef
<1> HIDE DEF U
<1>3. 0 \in Good
  <2>1. SubSeq(q, 1, 0) = <<>> /\ 0 \in 0..Len(q)
    BY <1>1, SubSeqEmpty
  <2> QED
    BY <1>2, <2>1, Zenon
<1>4. ASSUME NEW k \in 1..Len(q), k - 1 \in Good
      PROVE  k \in Good
  <2>0. /\ U[k - 1] = SubSeq(q, 1, k - 1)
        /\ k \in 0..Len(q) /\ k \in 1..Len(s) /\ s[k] \in C /\ s[k].packet = q[k]
    BY <1>4
  <2>1. U[k] = Append(SubSeq(q, 1, k - 1), q[k]) /\ k \in 0..Len(q)
    BY <1>2, <2>0, Zenon
  <2>2. \A i \in 1..(k - 1) : q[i] \in X
    BY <1>1, ElementOfSeq
  <2>3. SubSeq(q, 1, k - 1) \in Seq(X) /\ q[k] \in X
    BY <1>1, <2>2, SubSeqProperties, ElementOfSeq
  <2>4. Append(SubSeq(q, 1, k - 1), q[k]) = SubSeq(q, 1, k - 1) \o <<q[k]>>
    BY <2>3, AppendIsConcat
  <2>5. SubSeq(q, 1, k) = SubSeq(q, 1, k - 1) \o <<q[k]>>
    <3>1. 1 \in 1..Len(q) /\ k \in 1..Len(q)
      BY <1>1
    <3> QED
      BY <3>1, SubSeqRecursiveSecond
  <2>6. U[k] = SubSeq(q, 1, k)
    BY <2>1, <2>4, <2>5, Zenon
  <2> QED
    BY <2>1, <2>6
<1> HIDE DEF Good
<1>5. Len(q) \in Good
  <2>1. \A k \in 0..Len(q) : k \in Good
    BY <1>1, <1>3, <1>4, CountUp
  <2> QED
    BY <1>1, <2>1
<1>6. U[Len(q)] = SubSeq(q, 1, Len(q))
  BY <1>5 DEF Good
<1>7. SubSeq(q, 1, Len(q)) = q
  BY SubSeqFull
<1>8. U[Len(q)] = q
  BY <1>6, <1>7
<1> QED
  BY <1>8 DEF PacketsOf, U

\* Messages of which none does.
LEMMA PacketsOfNobody ==
    ASSUME NEW s, NEW C, Len(s) \in Nat, \A i \in 1..Len(s) : s[i] \notin C
    PROVE  PacketsOf(s, C) = <<>>
<1> DEFINE U == PacketsUpTo(s, C)
           Good == {k \in 0..Len(s) : U[k] = <<>>}
<1>2. /\ U[0] = <<>>
      /\ \A i \in 1..Len(s) :
            U[i] = IF s[i] \in C THEN Append(U[i - 1], s[i].packet) ELSE U[i - 1]
  BY UpToDef
<1> HIDE DEF U
<1>3. 0 \in Good
  BY <1>2
<1>4. ASSUME NEW k \in 1..Len(s), k - 1 \in Good
      PROVE  k \in Good
  <2>1. U[k] = U[k - 1] /\ U[k - 1] = <<>> /\ k \in 0..Len(s)
    BY <1>2, <1>4
  <2> QED
    BY <2>1
<1> HIDE DEF Good
<1>5. Len(s) \in Good
  <2>1. \A k \in 0..Len(s) : k \in Good
    BY <1>3, <1>4, CountUp
  <2> QED
    BY <2>1
<1>6. U[Len(s)] = <<>>
  BY <1>5 DEF Good
<1> QED
  BY <1>6 DEF PacketsOf, U

-----------------------------------------------------------------------------
\* Pipes: sequences of packets that lose one packet, or gain one at their end.

Packets == Seq(Packet)

\* t is s without one of its packets.
Loses(s, t) ==
    \E a \in Packets, b \in Packets, x \in Packet : s = a \o (<<x>> \o b) /\ t = a \o b

\* t is s and then x.
Gains(s, t, x) == t = s \o <<x>>

\* A single packet is a sequence of packets ...
LEMMA OnePacket ==
    ASSUME NEW x \in Packet
    PROVE  <<x>> \in Packets
BY DEF Packets

\* ... and so is none.
LEMMA NoPacket == <<>> \in Packets
BY EmptySeq DEF Packets

\* Strung together, sequences of packets are a sequence of packets ...
LEMMA JoinType ==
    ASSUME NEW a \in Packets, NEW b \in Packets
    PROVE  a \o b \in Packets
BY ConcatProperties DEF Packets

\* ... in whichever order they are joined ...
LEMMA JoinAssoc ==
    ASSUME NEW a \in Packets, NEW b \in Packets, NEW c \in Packets
    PROVE  (a \o b) \o c = a \o (b \o c)
BY ConcatAssociative DEF Packets

\* ... and an empty stage does not count.
LEMMA JoinNothing ==
    ASSUME NEW a \in Packets
    PROVE  a \o <<>> = a /\ <<>> \o a = a
BY ConcatEmptySeq DEF Packets

\* Without its first packet a sequence has lost one packet.
LEMMA LosesFirst ==
    ASSUME NEW x \in Packet, NEW b \in Packets
    PROVE  Loses(<<x>> \o b, b)
<1> DEFINE one == <<x>>
           none == <<>>
<1>1. one \in Packets /\ none \in Packets /\ one \o b \in Packets
  BY OnePacket, NoPacket, JoinType
<1>2. none \o (one \o b) = one \o b /\ none \o b = b
  BY <1>1, JoinNothing
<1> HIDE DEF none
<1>3. Loses(one \o b, b)
  BY <1>1, <1>2 DEF Loses
<1> QED
  BY <1>3

\* A stage that loses a packet behind another one makes the whole lose it.
LEMMA LosesBehind ==
    ASSUME NEW c \in Packets, NEW s, NEW t, Loses(s, t)
    PROVE  Loses(c \o s, c \o t)
<1>1. PICK a \in Packets, b \in Packets, x \in Packet : s = a \o (<<x>> \o b) /\ t = a \o b
  BY DEF Loses
<1>2. <<x>> \o b \in Packets /\ c \o a \in Packets
  BY <1>1, OnePacket, JoinType
<1>3. (c \o a) \o (<<x>> \o b) = c \o (a \o (<<x>> \o b))
  BY <1>1, <1>2, JoinAssoc, SMTT(40)
<1>4. (c \o a) \o b = c \o (a \o b)
  BY <1>1, JoinAssoc, SMTT(40)
<1>5. c \o s = (c \o a) \o (<<x>> \o b) /\ c \o t = (c \o a) \o b
  BY <1>1, <1>3, <1>4, Zenon
<1> QED
  BY <1>1, <1>2, <1>5, Zenon DEF Loses

\* So does a stage that loses a packet before another one.
LEMMA LosesBefore ==
    ASSUME NEW c \in Packets, NEW s, NEW t, Loses(s, t)
    PROVE  Loses(s \o c, t \o c)
<1>1. PICK a \in Packets, b \in Packets, x \in Packet : s = a \o (<<x>> \o b) /\ t = a \o b
  BY DEF Loses
<1>2. <<x>> \in Packets /\ <<x>> \o b \in Packets /\ b \o c \in Packets
  BY <1>1, OnePacket, JoinType
<1>3. (a \o (<<x>> \o b)) \o c = a \o ((<<x>> \o b) \o c)
  BY <1>1, <1>2, JoinAssoc, SMTT(40)
<1>4. (<<x>> \o b) \o c = <<x>> \o (b \o c)
  BY <1>1, <1>2, JoinAssoc, SMTT(40)
<1>5. (a \o b) \o c = a \o (b \o c)
  BY <1>1, JoinAssoc, SMTT(40)
<1>6. s \o c = a \o (<<x>> \o (b \o c)) /\ t \o c = a \o (b \o c)
  BY <1>1, <1>3, <1>4, <1>5, Zenon
<1> QED
  BY <1>1, <1>2, <1>6, Zenon DEF Loses

\* In a pipe of stages a packet moves from the front of one to the end of the next.
LEMMA MoveOver ==
    ASSUME NEW a \in Packets, NEW b \in Packets, NEW x \in Packet
    PROVE  a \o (<<x>> \o b) = (a \o <<x>>) \o b
<1>1. <<x>> \in Packets
  BY OnePacket
<1>2. (a \o <<x>>) \o b = a \o (<<x>> \o b)
  BY <1>1, JoinAssoc, SMTT(40)
<1> QED
  BY <1>2

\* What moves from the front of one stage to the end of the next stays where
\* it is in the whole.
LEMMA JoinMoves ==
    ASSUME NEW c \in Packets, NEW e \in Packets, NEW b \in Packets, NEW a, NEW d,
           a = e \o b, d = c \o e
    PROVE  d \o b = c \o a
BY JoinAssoc, SMTT(40)

\* Where everything is in a sequence with a packet between two parts.
LEMMA LosesParts ==
    ASSUME NEW a \in Packets, NEW b \in Packets, NEW x \in Packet
    PROVE  LET s == a \o (<<x>> \o b)
           IN /\ Len(a) \in Nat /\ Len(b) \in Nat /\ Len(s) = Len(a) + Len(b) + 1
              /\ DOMAIN s = 1..(Len(a) + Len(b) + 1)
              /\ \A i \in 1..Len(a) : s[i] = a[i]
              /\ s[Len(a) + 1] = x
              /\ \A i \in 1..Len(b) : s[Len(a) + 1 + i] = b[i]
<1> DEFINE r == <<x>> \o b
           s == a \o r
<1>1. <<x>> \in Seq(Packet) /\ Len(<<x>>) = 1 /\ <<x>>[1] = x
  OBVIOUS
<1>2. Len(a) \in Nat /\ Len(b) \in Nat
  BY LenProperties DEF Packets
<1>3. /\ r \in Seq(Packet) /\ Len(r) = 1 + Len(b)
      /\ \A i \in 1..(1 + Len(b)) : r[i] = IF i <= 1 THEN <<x>>[i] ELSE b[i - 1]
  BY <1>1, ConcatProperties DEF Packets
<1>4. r[1] = x /\ \A i \in 1..Len(b) : r[i + 1] = b[i]
  <2>1. 1 \in 1..(1 + Len(b)) /\ \A i \in 1..Len(b) : i + 1 \in 1..(1 + Len(b)) /\ ~(i + 1 <= 1)
                                                     /\ (i + 1) - 1 = i
    BY <1>2
  <2> HIDE DEF r
  <2> QED
    BY <1>1, <1>3, <2>1
<1> HIDE DEF r
<1>5. /\ s \in Seq(Packet) /\ Len(s) = Len(a) + Len(r)
      /\ \A i \in 1..(Len(a) + Len(r)) : s[i] = IF i <= Len(a) THEN a[i] ELSE r[i - Len(a)]
  BY <1>3, ConcatProperties DEF Packets
<1>6. DOMAIN s = 1..Len(s)
  BY <1>5, LenProperties
<1> HIDE DEF s
<1>7. \A i \in 1..Len(a) : s[i] = a[i]
  BY <1>2, <1>3, <1>5
<1>8. s[Len(a) + 1] = x
  <2>1. /\ Len(a) + 1 \in 1..(Len(a) + Len(r)) /\ ~(Len(a) + 1 <= Len(a))
        /\ (Len(a) + 1) - Len(a) = 1
    BY <1>2, <1>3
  <2> QED
    BY <1>4, <1>5, <2>1
<1>9. ASSUME NEW i \in 1..Len(b)
      PROVE  s[Len(a) + 1 + i] = b[i]
  <2>1. /\ Len(a) + 1 + i \in 1..(Len(a) + Len(r)) /\ ~(Len(a) + 1 + i <= Len(a))
        /\ (Len(a) + 1 + i) - Len(a) = i + 1
    BY <1>2, <1>3
  <2> QED
    BY <1>4, <1>5, <2>1
<1>10. Len(s) = Len(a) + Len(b) + 1
  BY <1>2, <1>3, <1>5
<1> QED
  BY <1>2, <1>6, <1>7, <1>8, <1>9, <1>10 DEF s, r

\* Losing a packet is a step of the abstract pipe.
LEMMA LosesIsLoss ==
    ASSUME NEW s, NEW t, Loses(s, t)
    PROVE  \E i \in DOMAIN s : t = SubSeq(s, 1, i - 1) \o SubSeq(s, i + 1, Len(s))
<1>1. PICK a \in Packets, b \in Packets, x \in Packet : s = a \o (<<x>> \o b) /\ t = a \o b
  BY DEF Loses
<1>2. /\ Len(a) \in Nat /\ Len(b) \in Nat /\ Len(s) = Len(a) + Len(b) + 1
      /\ DOMAIN s = 1..(Len(a) + Len(b) + 1)
      /\ \A i \in 1..Len(a) : s[i] = a[i]
      /\ \A i \in 1..Len(b) : s[Len(a) + 1 + i] = b[i]
  BY <1>1, LosesParts
<1>3. /\ \A i \in 1..Len(a) : a[i] \in Packet
      /\ \A i \in 1..Len(b) : b[i] \in Packet
  BY ElementOfSeq DEF Packets
<1> DEFINE i == Len(a) + 1
           front == SubSeq(s, 1, i - 1)
           back == SubSeq(s, i + 1, Len(s))
<1>4. i \in DOMAIN s /\ i - 1 = Len(a) /\ i - 1 \in Int /\ i + 1 \in Int /\ Len(s) \in Int
  BY <1>2
<1>5. front = a
  <2>1. \A j \in 1..(i - 1) : s[j] \in Packet
    BY <1>2, <1>3, <1>4
  <2>2. /\ front \in Seq(Packet)
        /\ Len(front) = IF 1 <= i - 1 THEN (i - 1) - 1 + 1 ELSE 0
        /\ \A j \in 1..((i - 1) - 1 + 1) : front[j] = s[1 + j - 1]
    BY <1>4, <2>1, SubSeqProperties
  <2>3. Len(front) = Len(a) /\ \A j \in 1..Len(a) : front[j] = a[j]
    <3> HIDE DEF front
    <3>1. Len(front) = Len(a)
      BY <1>2, <1>4, <2>2
    <3>2. ASSUME NEW j \in 1..Len(a)
          PROVE  front[j] = a[j]
      <4>1. j \in 1..((i - 1) - 1 + 1) /\ 1 + j - 1 = j
        BY <1>2, <1>4
      <4> QED
        BY <1>2, <2>2, <4>1
    <3> QED
      BY <3>1, <3>2
  <2> HIDE DEF front
  <2> QED
    BY <2>2, <2>3, SeqEqual DEF Packets
<1>6. back = b
  <2>0. Len(s) - (i + 1) + 1 = Len(b) /\ (i + 1 <= Len(s) <=> 1 <= Len(b))
    BY <1>2
  <2>1. ASSUME NEW j \in (i + 1)..Len(s)
        PROVE  s[j] \in Packet
    <3>1. j - i \in 1..Len(b) /\ Len(a) + 1 + (j - i) = j
      BY <1>2
    <3> QED
      BY <1>2, <1>3, <3>1
  <2>2. /\ back \in Seq(Packet)
        /\ Len(back) = IF i + 1 <= Len(s) THEN Len(s) - (i + 1) + 1 ELSE 0
        /\ \A j \in 1..(Len(s) - (i + 1) + 1) : back[j] = s[(i + 1) + j - 1]
    BY <1>4, <2>1, SubSeqProperties
  <2>3. Len(back) = Len(b)
    BY <1>2, <2>0, <2>2
  <2>4. ASSUME NEW j \in 1..Len(b)
        PROVE  back[j] = b[j]
    <3>1. j \in 1..(Len(s) - (i + 1) + 1) /\ (i + 1) + j - 1 = Len(a) + 1 + j
      BY <1>2, <2>0
    <3> HIDE DEF back
    <3> QED
      BY <1>2, <2>2, <3>1
  <2> HIDE DEF back
  <2> QED
    BY <2>2, <2>3, <2>4, SeqEqual DEF Packets
<1> HIDE DEF front, back, i
<1>7. t = front \o back
  BY <1>1, <1>5, <1>6
<1> QED
  BY <1>4, <1>7 DEF front, back

\* So is gaining one at the end.
LEMMA GainIsPut ==
    ASSUME NEW s \in Packets, NEW x \in Packet
    PROVE  LET t == s \o <<x>>
           IN /\ Len(t) = Len(s) + 1 /\ s = SubSeq(t, 1, Len(s))
              /\ Len(s) \in Nat /\ DOMAIN t = 1..(Len(s) + 1) /\ t[Len(s) + 1] = x
              /\ \A i \in 1..Len(s) : t[i] = s[i]
<1> DEFINE t == Append(s, x)
           r == SubSeq(t, 1, Len(s))
<1>0. t = s \o <<x>> /\ s \in Seq(Packet)
  BY AppendIsConcat DEF Packets
<1>1. /\ t \in Seq(Packet) /\ Len(t) = Len(s) + 1
      /\ \A i \in 1..Len(s) : t[i] = s[i]
      /\ t[Len(s) + 1] = x
  BY <1>0, AppendProperties
<1>2. Len(s) \in Nat /\ Len(s) \in Int /\ DOMAIN t = 1..Len(t) /\ \A i \in 1..Len(s) : s[i] \in Packet
  BY <1>0, <1>1, LenProperties, ElementOfSeq
<1> HIDE DEF t
<1>3. /\ r \in Seq(Packet)
      /\ Len(r) = IF 1 <= Len(s) THEN Len(s) - 1 + 1 ELSE 0
      /\ \A i \in 1..(Len(s) - 1 + 1) : r[i] = t[1 + i - 1]
  <2>1. \A i \in 1..Len(s) : t[i] \in Packet
    BY <1>1, <1>2
  <2> QED
    BY <1>2, <2>1, SubSeqProperties
<1> HIDE DEF r
<1>4. Len(r) = Len(s) /\ \A i \in 1..Len(s) : r[i] = s[i]
  <2>1. Len(s) - 1 + 1 = Len(s) /\ \A i \in 1..Len(s) : 1 + i - 1 = i
    BY <1>2
  <2> QED
    BY <1>1, <1>2, <1>3, <2>1
<1>5. r = s
  BY <1>0, <1>3, <1>4, SeqEqual
<1>6. s = SubSeq(t, 1, Len(s)) /\ DOMAIN t = 1..(Len(s) + 1)
  BY <1>1, <1>2, <1>5 DEF r
<1> QED
  BY <1>0, <1>1, <1>2, <1>6

-----------------------------------------------------------------------------
\* The way out: what the coordinator's steps do to the packets for one peer.

\* The pipe to p, from its four stages.
PipeOf(c, a, q, t, p) == PacketsOf(c, SendTo(p)) \o PacketsOf(a, SendTo(p)) \o q \o t

\* The messages the stages of a pipe are read through do carry packets.
LEMMA Carriers ==
    Carries(WriteToTun) /\ Carries(RecvPacketFrom) /\ \A p : Carries(SendTo(p))
BY DEF Carries, WriteToTun, RecvPacketFrom, SendTo

\* A stage of the way out, read for one peer, is a sequence of packets.
LEMMA StageType ==
    ASSUME NEW S, NEW s \in Seq(S), NEW p
    PROVE  PacketsOf(s, SendTo(p)) \in Packets
BY PacketsOfType, Carriers DEF Packets

\* The manager takes a message: it takes its packet, too.
LEMMA PipeTake ==
    ASSUME NEW c \in Seq(CoreAction), c # <<>>, NEW a \in Seq(Action), NEW q \in Packets,
           NEW t \in Packets, NEW p
    PROVE  \/ PipeOf(Tail(c), a, q, t, p) = PipeOf(c, a, q, t, p)
           \/ Loses(PipeOf(c, a, q, t, p), PipeOf(Tail(c), a, q, t, p))
<1> DEFINE C == PacketsOf(Tail(c), SendTo(p))
           A == PacketsOf(a, SendTo(p))
           B == PacketsOf(c, SendTo(p))
           e == Head(c)
<1>1. Tail(c) \in Seq(CoreAction)
  BY Receive
<1>2. C \in Packets /\ A \in Packets /\ B \in Packets
  BY <1>1, StageType
<1>3. B = PacketsOf(<<e>>, SendTo(p)) \o C
  BY PacketsOfReceive, Carriers
<1>4. PacketsOf(<<e>>, SendTo(p)) = IF e \in SendTo(p) THEN <<e.packet>> ELSE <<>>
  BY PacketsOfOne
<1>5. PipeOf(c, a, q, t, p) = ((B \o A) \o q) \o t /\ PipeOf(Tail(c), a, q, t, p) = ((C \o A) \o q) \o t
  BY DEF PipeOf
<1>6. e \in SendTo(p) => e.packet \in Packet
  BY DEF SendTo
<1> HIDE DEF C, A, B, e
<1>7. CASE e \in SendTo(p)
  <2>1. Loses(B, C)
    BY <1>2, <1>3, <1>4, <1>6, <1>7, LosesFirst
  <2>2. Loses(B \o A, C \o A)
    BY <1>2, <2>1, LosesBefore
  <2>3. Loses((B \o A) \o q, (C \o A) \o q)
    BY <2>2, LosesBefore
  <2>4. Loses(((B \o A) \o q) \o t, ((C \o A) \o q) \o t)
    BY <2>3, LosesBefore
  <2> QED
    BY <1>5, <2>4
<1>8. CASE e \notin SendTo(p)
  <2>1. B = C
    BY <1>2, <1>3, <1>4, <1>8, JoinNothing
  <2> QED
    BY <1>5, <2>1
<1> QED
  BY <1>7, <1>8

\* The coordinator carries out an action: its packet moves over, or the channel
\* to the manager was full.
LEMMA PipeAct ==
    ASSUME NEW c \in Seq(CoreAction), NEW a \in Seq(Action), a # <<>>, NEW q \in Packets,
           NEW t \in Packets, NEW p, NEW d,
           \/ d = Append(c, Head(a)) /\ Head(a) \in CoreAction
           \/ d = c
    PROVE  \/ PipeOf(d, Tail(a), q, t, p) = PipeOf(c, a, q, t, p)
           \/ Loses(PipeOf(c, a, q, t, p), PipeOf(d, Tail(a), q, t, p))
<1> DEFINE C == PacketsOf(c, SendTo(p))
           D == PacketsOf(d, SendTo(p))
           A == PacketsOf(a, SendTo(p))
           B == PacketsOf(Tail(a), SendTo(p))
           e == Head(a)
           E == PacketsOf(<<Head(a)>>, SendTo(p))
<1>1. Tail(a) \in Seq(Action)
  BY Receive
<1>2. C \in Packets /\ A \in Packets /\ B \in Packets
  BY <1>1, StageType
<1>3. A = E \o B
  BY PacketsOfReceive, Carriers
<1>4. E = IF e \in SendTo(p) THEN <<e.packet>> ELSE <<>>
  BY PacketsOfOne
<1>5. /\ PipeOf(c, a, q, t, p) = ((C \o A) \o q) \o t
      /\ PipeOf(d, Tail(a), q, t, p) = ((D \o B) \o q) \o t
  BY DEF PipeOf
<1>6. e \in SendTo(p) => e.packet \in Packet
  BY DEF SendTo
<1>7. D = C \o E \/ D = C
  BY PacketsOfAppend, Carriers
<1>8. E \in Packets
  BY <1>4, <1>6, OnePacket, NoPacket
<1> HIDE DEF C, A, B, e, E, D
<1>9. CASE D = C \o E
  <2>2. D \o B = C \o A
    BY <1>2, <1>3, <1>8, <1>9, JoinMoves, SMTT(40)
  <2> QED
    BY <1>5, <2>2
<1>10. CASE D = C /\ e \in SendTo(p)
  <2>1. Loses(A, B)
    BY <1>2, <1>3, <1>4, <1>6, <1>10, LosesFirst
  <2>2. Loses(C \o A, D \o B)
    BY <1>2, <1>10, <2>1, LosesBehind
  <2>3. Loses((C \o A) \o q, (D \o B) \o q)
    BY <2>2, LosesBefore
  <2>4. Loses(((C \o A) \o q) \o t, ((D \o B) \o q) \o t)
    BY <2>3, LosesBefore
  <2> QED
    BY <1>5, <2>4
<1>11. CASE D = C /\ e \notin SendTo(p)
  <2>1. A = B
    BY <1>2, <1>3, <1>4, <1>11, JoinNothing
  <2> QED
    BY <1>5, <1>11, <2>1
<1> QED
  BY <1>7, <1>9, <1>10, <1>11

\* A list of actions that carries nothing to p.
LEMMA PipeOther ==
    ASSUME NEW a, Len(a) \in Nat, NEW p, \A i \in 1..Len(a) : a[i] \notin SendTo(p),
           NEW c, NEW q, NEW t
    PROVE  PipeOf(c, a, q, t, p) = PipeOf(c, <<>>, q, t, p)
<1>1. PacketsOf(a, SendTo(p)) = <<>> /\ PacketsOf(<<>>, SendTo(p)) = <<>>
  BY PacketsOfNobody, PacketsOfNone
<1> QED
  BY <1>1 DEF PipeOf

\* A flush moves the whole queue of p over.
LEMMA PipeFlush ==
    ASSUME NEW c \in Seq(CoreAction), NEW q \in Packets, NEW t, NEW p, NEW f, Len(f) = Len(q),
           \A i \in 1..Len(q) : f[i] \in SendTo(p) /\ f[i].packet = q[i]
    PROVE  PipeOf(c, f, <<>>, t, p) = PipeOf(c, <<>>, q, t, p)
<1> DEFINE C == PacketsOf(c, SendTo(p))
<1>1. PacketsOf(f, SendTo(p)) = q
  BY PacketsOfAll DEF Packets
<1>2. PacketsOf(<<>>, SendTo(p)) = <<>>
  BY PacketsOfNone
<1>3. C \in Packets /\ C \o q \in Packets
  BY StageType, JoinType
<1> HIDE DEF C
<1>4. (C \o q) \o <<>> = C \o q /\ (C \o <<>>) \o q = C \o q
  BY <1>3, JoinNothing
<1>5. PipeOf(c, f, <<>>, t, p) = ((C \o q) \o <<>>) \o t
  BY <1>1 DEF PipeOf, C
<1>6. PipeOf(c, <<>>, q, t, p) = ((C \o <<>>) \o q) \o t
  BY <1>2 DEF PipeOf, C
<1> QED
  BY <1>4, <1>5, <1>6

\* The four stages of the way out together are a sequence of packets.
LEMMA PipeType ==
    ASSUME NEW c \in Seq(CoreAction), NEW a \in Seq(Action), NEW q \in Packets, NEW t \in Packets,
           NEW p
    PROVE  PipeOf(c, a, q, t, p) \in Packets
<1>1. PacketsOf(c, SendTo(p)) \in Packets /\ PacketsOf(a, SendTo(p)) \in Packets
  BY StageType
<1>2. PacketsOf(c, SendTo(p)) \o PacketsOf(a, SendTo(p)) \in Packets
  BY <1>1, JoinType
<1>3. PacketsOf(c, SendTo(p)) \o PacketsOf(a, SendTo(p)) \o q \in Packets
  BY <1>2, JoinType
<1> QED
  BY <1>3, JoinType DEF PipeOf

\* The first packet of the last stage, and the rest.
LEMMA FirstOf ==
    ASSUME NEW t \in Packets, t # <<>>
    PROVE  Head(t) \in Packet /\ Tail(t) \in Packets /\ t = <<Head(t)>> \o Tail(t)
BY Receive, HeadThenTail DEF Packets

\* A packet of the TUN device is read.
LEMMA PipeRead ==
    ASSUME NEW c \in Seq(CoreAction), NEW a \in Seq(Action), NEW q \in Packets, NEW t \in Packets,
           NEW p, NEW x \in Packet, NEW u, u = Append(t, x)
    PROVE  Gains(PipeOf(c, a, q, t, p), PipeOf(c, a, q, u, p), x)
<1> DEFINE B == PacketsOf(c, SendTo(p)) \o PacketsOf(a, SendTo(p)) \o q
           one == <<x>>
<1>1. PacketsOf(c, SendTo(p)) \in Packets /\ PacketsOf(a, SendTo(p)) \in Packets
  BY StageType
<1>2. PacketsOf(c, SendTo(p)) \o PacketsOf(a, SendTo(p)) \in Packets
  BY <1>1, JoinType
<1>3. B \in Packets /\ one \in Packets
  BY <1>2, JoinType, OnePacket
<1>4. u = t \o one
  BY AppendIsConcat DEF Packets
<1>5. PipeOf(c, a, q, u, p) = B \o u /\ PipeOf(c, a, q, t, p) = B \o t
  BY DEF PipeOf
<1> HIDE DEF B, one
<1>6. (B \o t) \o one = B \o (t \o one)
  BY <1>3, JoinAssoc, SMTT(40)
<1>7. PipeOf(c, a, q, u, p) = PipeOf(c, a, q, t, p) \o one
  BY <1>4, <1>5, <1>6
<1> QED
  BY <1>7 DEF one, Gains

\* A packet of the TUN device is dropped, or goes elsewhere.
LEMMA PipeDrop ==
    ASSUME NEW c \in Seq(CoreAction), NEW a \in Seq(Action), NEW q \in Packets, NEW t \in Packets,
           t # <<>>, NEW p
    PROVE  Loses(PipeOf(c, a, q, t, p), PipeOf(c, a, q, Tail(t), p))
<1> DEFINE B == PacketsOf(c, SendTo(p)) \o PacketsOf(a, SendTo(p)) \o q
           r == Tail(t)
<1>1. PacketsOf(c, SendTo(p)) \in Packets /\ PacketsOf(a, SendTo(p)) \in Packets
  BY StageType
<1>2. PacketsOf(c, SendTo(p)) \o PacketsOf(a, SendTo(p)) \in Packets
  BY <1>1, JoinType
<1>3. B \in Packets
  BY <1>2, JoinType
<1>4. Head(t) \in Packet /\ r \in Packets /\ t = <<Head(t)>> \o r
  BY FirstOf
<1>5. PipeOf(c, a, q, t, p) = B \o t /\ PipeOf(c, a, q, Tail(t), p) = B \o r
  BY DEF PipeOf
<1> HIDE DEF B, r
<1>6. Loses(t, r)
  BY <1>4, LosesFirst
<1>7. Loses(B \o t, B \o r)
  BY <1>3, <1>6, LosesBehind
<1> QED
  BY <1>5, <1>7

\* A packet of the TUN device for a connected peer: nothing is queued before it.
LEMMA PipeSend ==
    ASSUME NEW c \in Seq(CoreAction), NEW t \in Packets, t # <<>>, NEW p, NEW e,
           e \in SendTo(p), e.packet = Head(t)
    PROVE  PipeOf(c, <<e>>, <<>>, Tail(t), p) = PipeOf(c, <<>>, <<>>, t, p)
<1> DEFINE C == PacketsOf(c, SendTo(p))
           r == Tail(t)
           one == <<Head(t)>>
<1>1. C \in Packets
  BY StageType
<1>2. one \in Packets /\ r \in Packets /\ t = one \o r
  BY FirstOf, OnePacket
<1>3. PacketsOf(<<e>>, SendTo(p)) = one /\ PacketsOf(<<>>, SendTo(p)) = <<>>
  BY PacketsOfOne, PacketsOfNone
<1>4. /\ PipeOf(c, <<e>>, <<>>, Tail(t), p) = ((C \o one) \o <<>>) \o r
      /\ PipeOf(c, <<>>, <<>>, t, p) = ((C \o <<>>) \o <<>>) \o t
  BY <1>3 DEF PipeOf
<1> HIDE DEF C, r, one
<1>5. C \o one \in Packets
  BY <1>1, <1>2, JoinType
<1>6. (C \o one) \o <<>> = C \o one /\ (C \o <<>>) \o <<>> = C
  BY <1>1, <1>5, JoinNothing
<1>7. (C \o one) \o r = C \o t
  BY <1>1, <1>2, JoinMoves, SMTT(40)
<1> QED
  BY <1>4, <1>6, <1>7

\* A packet of the TUN device is queued, and a full queue loses its first.
LEMMA PipeBuffer ==
    ASSUME NEW c \in Seq(CoreAction), NEW q \in Packets, NEW t \in Packets, t # <<>>, NEW p
    PROVE  \/ PipeOf(c, <<>>, Buffered(q, Head(t)), Tail(t), p) = PipeOf(c, <<>>, q, t, p)
           \/ Loses(PipeOf(c, <<>>, q, t, p), PipeOf(c, <<>>, Buffered(q, Head(t)), Tail(t), p))
<1> DEFINE C == PacketsOf(c, SendTo(p)) \o PacketsOf(<<>>, SendTo(p))
           r == Tail(t)
           x == Head(t)
           b == Buffered(q, Head(t))
<1>1. C \in Packets
  <2>1. PacketsOf(c, SendTo(p)) \in Packets /\ PacketsOf(<<>>, SendTo(p)) \in Packets
    BY StageType, PacketsOfNone, NoPacket
  <2> QED
    BY <2>1, JoinType
<1>2. x \in Packet /\ r \in Packets /\ t = <<x>> \o r
  BY FirstOf
<1>3. /\ PipeOf(c, <<>>, Buffered(q, Head(t)), Tail(t), p) = (C \o b) \o r
      /\ PipeOf(c, <<>>, q, t, p) = (C \o q) \o t
  BY DEF PipeOf
<1>4. \/ b = Append(q, x)
      \/ Len(q) >= MAX_PACKETS_IN_QUEUE /\ b = Append(Tail(q), x)
  BY DEF Buffered
<1> HIDE DEF C, r, x, b
<1>5. ASSUME NEW u \in Packets
      PROVE  (C \o Append(u, x)) \o r = (C \o u) \o t
  <2>1. <<x>> \in Packets /\ Append(u, x) = u \o <<x>>
    BY <1>2, OnePacket, AppendIsConcat DEF Packets
  <2>2. (C \o u) \o <<x>> = C \o (u \o <<x>>)
    BY <1>1, <2>1, JoinAssoc, SMTT(40)
  <2>3. C \o u \in Packets
    BY <1>1, JoinType
  <2>4. ((C \o u) \o <<x>>) \o r = (C \o u) \o t
    BY <1>2, <2>1, <2>3, JoinMoves, SMTT(40)
  <2> QED
    BY <2>1, <2>2, <2>4
<1>6. CASE b = Append(q, x)
  BY <1>3, <1>5, <1>6
<1>7. CASE Len(q) >= MAX_PACKETS_IN_QUEUE /\ b = Append(Tail(q), x)
  <2>1. Len(q) \in Nat /\ Len(q) # 0
    BY <1>7, LenProperties, VpnCoreAssumption DEF Packets
  <2>2. q # <<>>
    BY <2>1, EmptySeq
  <2> DEFINE u == Tail(q)
  <2>3. Head(q) \in Packet /\ u \in Packets /\ q = <<Head(q)>> \o u
    BY <2>2, FirstOf
  <2> HIDE DEF u
  <2>4. Loses(q, u)
    BY <2>3, LosesFirst
  <2>5. Loses(C \o q, C \o u)
    BY <1>1, <2>4, LosesBehind
  <2>6. <<x>> \o r \in Packets
    BY <1>2, OnePacket, JoinType
  <2>7. Loses((C \o q) \o t, (C \o u) \o t)
    BY <1>2, <2>5, <2>6, LosesBefore
  <2>8. (C \o b) \o r = (C \o u) \o t
    BY <1>5, <1>7, <2>3 DEF u
  <2> QED
    BY <1>3, <2>7, <2>8
<1> QED
  BY <1>4, <1>6, <1>7

\* What a step of the coordinator does to the way from the TUN of n out to p.
Moves(s, t) == t = s \/ Loses(s, t)

OutStep(n, p) ==
    \/ Moves(Pipe(n, p), Pipe(n, p)') /\ reads[n] <= reads'[n]
    \/ /\ \E x \in Packet : Gains(Pipe(n, p), Pipe(n, p)', x) /\ x.seq = reads[n] + 1
       /\ reads'[n] = reads[n] + 1
    \/ running[n] /\ ~running'[n] /\ Pipe(n, p)' = <<>> /\ reads'[n] = reads[n]

\* Pipe written as a function of its stages, before and after a step.
LEMMA Stages ==
    ASSUME NEW n, NEW p
    PROVE  /\ Pipe(n, p) = PipeOf(coord_to_iroh[n], actions[n], packet_queue[n][p],
                                  tun_to_coord[n], p)
           /\ Pipe(n, p)' = PipeOf(coord_to_iroh'[n], actions'[n], packet_queue'[n][p],
                                   tun_to_coord'[n], p)
BY DEF Pipe, PipeOf

\* What the type invariant says of the stages of the way out.
LEMMA StageTypes ==
    ASSUME CoordTypeOK, NEW n \in Local, NEW p \in Node
    PROVE  /\ coord_to_iroh[n] \in Seq(CoreAction)
           /\ actions[n] \in Seq(Action)
           /\ packet_queue[n][p] \in Packets
           /\ tun_to_coord[n] \in Packets
           /\ reads[n] \in Nat
BY WiringAssumption DEF CoordTypeOK, WiringTypeOK, CoreTypeOK, Packets

\* The way out to a peer holds packets only.
LEMMA PipeIsPackets ==
    ASSUME CoordTypeOK, NEW n \in Local, NEW p \in Node
    PROVE  Pipe(n, p) \in Packets
BY Stages, StageTypes, PipeType

\* Nothing happens to a way no stage of which changes.
LEMMA OutSame ==
    ASSUME CoordTypeOK, NEW n \in Local, NEW p \in Node,
           coord_to_iroh'[n] = coord_to_iroh[n], actions'[n] = actions[n],
           packet_queue'[n][p] = packet_queue[n][p], tun_to_coord'[n] = tun_to_coord[n],
           reads'[n] = reads[n]
    PROVE  OutStep(n, p)
<1>1. Pipe(n, p)' = Pipe(n, p)
  BY Stages
<1>2. reads[n] <= reads'[n]
  BY StageTypes
<1> QED
  BY <1>1, <1>2 DEF OutStep, Moves

\* The manager takes a message.
LEMMA OutEnvTakes ==
    ASSUME CoordTypeOK, NEW m \in Local, EnvTakes(m), NEW n \in Local, NEW p \in Node
    PROVE  OutStep(n, p)
<1>1. CASE n # m
  <2>1. coord_to_iroh'[n] = coord_to_iroh[n]
    BY <1>1 DEF EnvTakes, CoordTypeOK, WiringTypeOK
  <2> QED
    BY <2>1, OutSame DEF EnvTakes
<1>2. CASE n = m
  <2>1. coord_to_iroh[n] # <<>> /\ coord_to_iroh'[n] = Tail(coord_to_iroh[n])
    BY <1>2 DEF EnvTakes, CoordTypeOK, WiringTypeOK
  <2>2. /\ actions'[n] = actions[n] /\ packet_queue'[n][p] = packet_queue[n][p]
        /\ tun_to_coord'[n] = tun_to_coord[n] /\ reads'[n] = reads[n]
    BY DEF EnvTakes
  <2>3. Moves(Pipe(n, p), Pipe(n, p)')
    BY <2>1, <2>2, Stages, StageTypes, PipeTake DEF Moves
  <2> QED
    BY <2>2, <2>3, StageTypes DEF OutStep
<1> QED
  BY <1>1, <1>2

\* The TUN device is read.
LEMMA OutTunRead ==
    ASSUME CoordTypeOK, NEW m \in Local, TunRead(m), NEW n \in Local, NEW p \in Node
    PROVE  OutStep(n, p)
<1>0. /\ coord_to_iroh'[n] = coord_to_iroh[n] /\ actions'[n] = actions[n]
      /\ packet_queue'[n][p] = packet_queue[n][p]
  BY DEF TunRead
<1>1. CASE n # m
  <2>1. tun_to_coord'[n] = tun_to_coord[n] /\ reads'[n] = reads[n]
    BY <1>1 DEF TunRead, CoordTypeOK
  <2> QED
    BY <1>0, <2>1, OutSame
<1>2. CASE n = m
  <2>1. PICK h \in Header :
          tun_to_coord' = [tun_to_coord EXCEPT ![n] =
                             TrySend(@, [hdr |-> h, origin |-> n, seq |-> reads[n] + 1])]
    BY <1>2 DEF TunRead
  <2> DEFINE x == [hdr |-> h, origin |-> n, seq |-> reads[n] + 1]
  <2>2. reads[n] \in 0..MaxReads /\ reads[n] < MaxReads /\ reads'[n] = reads[n] + 1
    BY <1>2 DEF TunRead, CoordTypeOK
  <2>3. reads[n] + 1 \in 0..MaxReads
    BY <2>2, WiringAssumption
  <2>4. x \in Packet /\ x.seq = reads[n] + 1
    BY <2>3, WiringAssumption DEF Packet
  <2>5. tun_to_coord'[n] = TrySend(tun_to_coord[n], x)
    BY <2>1 DEF CoordTypeOK
  <2> HIDE DEF x
  <2>6. CASE tun_to_coord'[n] = tun_to_coord[n]
    <3>1. Pipe(n, p)' = Pipe(n, p)
      BY <1>0, <2>6, Stages
    <3>2. reads[n] <= reads'[n]
      BY <2>2, StageTypes
    <3> QED
      BY <3>1, <3>2 DEF OutStep, Moves
  <2>7. CASE tun_to_coord'[n] = Append(tun_to_coord[n], x)
    <3>0. /\ coord_to_iroh[n] \in Seq(CoreAction) /\ actions[n] \in Seq(Action)
          /\ packet_queue[n][p] \in Packets /\ tun_to_coord[n] \in Packets
      BY StageTypes
    <3>1. Gains(PipeOf(coord_to_iroh[n], actions[n], packet_queue[n][p], tun_to_coord[n], p),
                PipeOf(coord_to_iroh[n], actions[n], packet_queue[n][p], tun_to_coord'[n], p), x)
      BY <2>4, <2>7, <3>0, PipeRead
    <3>2. Gains(Pipe(n, p), Pipe(n, p)', x)
      BY <1>0, <3>1, Stages, Zenon
    <3> QED
      BY <2>2, <2>4, <3>2 DEF OutStep
  <2> QED
    BY <2>5, <2>6, <2>7 DEF TrySend
<1> QED
  BY <1>1, <1>2

\* An action is carried out.
LEMMA OutHandleActions ==
    ASSUME CoordTypeOK, NEW m \in Local, handle_actions(m), NEW n \in Local, NEW p \in Node
    PROVE  OutStep(n, p)
<1>0. /\ packet_queue'[n][p] = packet_queue[n][p] /\ tun_to_coord'[n] = tun_to_coord[n]
      /\ reads'[n] = reads[n]
  BY DEF handle_actions
<1>1. CASE n # m
  <2>1. coord_to_iroh'[n] = coord_to_iroh[n] /\ actions'[n] = actions[n]
    BY <1>1 DEF handle_actions, CoordTypeOK, WiringTypeOK, CoreTypeOK
  <2> QED
    BY <1>0, <2>1, OutSame
<1>2. CASE n = m
  <2>0. /\ coord_to_iroh[n] \in Seq(CoreAction) /\ actions[n] \in Seq(Action)
        /\ packet_queue[n][p] \in Packets /\ tun_to_coord[n] \in Packets
    BY StageTypes
  <2>1. actions[n] # <<>> /\ actions'[n] = Tail(actions[n])
    BY <1>2 DEF handle_actions, CoordTypeOK, CoreTypeOK
  <2>2. Head(actions[n]) \in Action
    BY <2>0, <2>1, Receive
  <2>3. Head(actions[n]).type # "WriteToTun" => Head(actions[n]) \in CoreAction
    BY <2>2 DEF Action, CoreAction
  <2>4. \/ coord_to_iroh'[n] = Append(coord_to_iroh[n], Head(actions[n]))
           /\ Head(actions[n]) \in CoreAction
        \/ coord_to_iroh'[n] = coord_to_iroh[n]
    BY <1>2, <2>3 DEF handle_actions, CoordTypeOK, WiringTypeOK, TrySend
  <2>5. Moves(PipeOf(coord_to_iroh[n], actions[n], packet_queue[n][p], tun_to_coord[n], p),
              PipeOf(coord_to_iroh'[n], Tail(actions[n]), packet_queue[n][p], tun_to_coord[n], p))
    BY <2>0, <2>1, <2>4, PipeAct DEF Moves
  <2>6. Moves(Pipe(n, p), Pipe(n, p)')
    BY <1>0, <2>1, <2>5, Stages, Zenon
  <2> QED
    BY <1>0, <2>6, StageTypes DEF OutStep
<1> QED
  BY <1>1, <1>2

\* A packet of the TUN device goes to its peer, into its peer's queue, or nowhere.
LEMMA OutHandlePacketFromTun ==
    ASSUME CoordInv, NEW m \in Local, handle_packet_from_tun(m), NEW n \in Local, NEW p \in Node
    PROVE  OutStep(n, p)
<1>0. CoordTypeOK /\ BufferDiscipline
  BY DEF CoordInv
<1>1. coord_to_iroh'[n] = coord_to_iroh[n] /\ reads'[n] = reads[n]
  BY DEF handle_packet_from_tun
<1>2. CASE n # m
  <2>1. /\ tun_to_coord'[n] = tun_to_coord[n] /\ actions'[n] = actions[n]
        /\ packet_queue'[n][p] = packet_queue[n][p]
    BY <1>0, <1>2 DEF handle_packet_from_tun, send_packet, Returns, coreVars, CoordTypeOK, CoreTypeOK
  <2> QED
    BY <1>0, <1>1, <2>1, OutSame
<1>3. CASE n = m
  <2> DEFINE c == coord_to_iroh[n]
             q == packet_queue[n][p]
             t == tun_to_coord[n]
             x == Head(t)
             r == RouteTable[n][x.hdr.dest_ip]
  <2>0. c \in Seq(CoreAction) /\ q \in Packets /\ t \in Packets
    BY <1>0, StageTypes
  <2>1. /\ actions[n] = <<>> /\ <<>> \in Seq(Action) /\ t # <<>> /\ tun_to_coord'[n] = Tail(t)
        /\ send_packet(n, x)
    BY <1>0, <1>3, EmptySeq DEF handle_packet_from_tun, Idle, CoordTypeOK
  <2>2. x \in Packet
    BY <2>0, <2>1, FirstOf
  <2>3. Loses(PipeOf(c, <<>>, q, t, p), PipeOf(c, <<>>, q, Tail(t), p))
    BY <2>0, <2>1, PipeDrop
  <2>4. /\ Pipe(n, p) = PipeOf(c, <<>>, q, t, p)
        /\ Pipe(n, p)' = PipeOf(c, actions'[n], packet_queue'[n][p], Tail(t), p)
    BY <1>1, <2>1, Stages
  <2>5. ASSUME actions'[n] = <<>>, packet_queue'[n][p] = q
        PROVE  Moves(Pipe(n, p), Pipe(n, p)')
    BY <2>3, <2>4, <2>5 DEF Moves
  <2>6. ASSUME ~verify_send_packet(n, x.hdr)
        PROVE  Moves(Pipe(n, p), Pipe(n, p)')
    BY <2>1, <2>5, <2>6 DEF send_packet, coreVars
  <2>7. ASSUME verify_send_packet(n, x.hdr)
        PROVE  r \in Node
    BY <2>7, RouteIsNode DEF verify_send_packet, is_neighbour_ipv4
  <2>8. ASSUME verify_send_packet(n, x.hdr), is_connected[n][r]
        PROVE  Moves(Pipe(n, p), Pipe(n, p)')
    <3> DEFINE e == [type |-> "SendPacketTo", peer |-> r, packet |-> x]
    <3>1. actions'[n] = <<e>> /\ packet_queue'[n][p] = q
      BY <1>0, <2>1, <2>8 DEF send_packet, Returns, CoordTypeOK, CoreTypeOK
    <3>2. e \in SendTo(r) /\ e.packet = x
      BY <2>2 DEF SendTo
    <3>3. CASE r = p
      <4>1. q = <<>>
        BY <1>0, <2>8, <3>3 DEF BufferDiscipline
      <4> HIDE DEF e
      <4>2. PipeOf(c, <<e>>, <<>>, Tail(t), p) = PipeOf(c, <<>>, <<>>, t, p)
        BY <2>0, <2>1, <3>2, <3>3, PipeSend
      <4> QED
        BY <2>4, <3>1, <4>1, <4>2 DEF Moves
    <3>4. CASE r # p
      <4>1. e \notin SendTo(p)
        BY <3>4 DEF SendTo
      <4> HIDE DEF e
      <4>2. Len(<<e>>) \in Nat /\ \A i \in 1..Len(<<e>>) : <<e>>[i] \notin SendTo(p)
        BY <4>1
      <4>3. PipeOf(c, <<e>>, q, Tail(t), p) = PipeOf(c, <<>>, q, Tail(t), p)
        BY <4>2, PipeOther
      <4> QED
        BY <2>3, <2>4, <3>1, <4>3 DEF Moves
    <3> QED
      BY <3>3, <3>4
  <2>9. ASSUME verify_send_packet(n, x.hdr), ~is_connected[n][r]
        PROVE  Moves(Pipe(n, p), Pipe(n, p)')
    <3>1. /\ actions'[n] = <<>>
          /\ packet_queue' = [packet_queue EXCEPT ![n][r] = Buffered(@, x)]
      BY <2>1, <2>9 DEF send_packet
    <3>2. CASE r = p
      <4>1. packet_queue'[n][p] = Buffered(q, x)
        BY <1>0, <3>1, <3>2 DEF CoordTypeOK, CoreTypeOK
      <4>2. Moves(PipeOf(c, <<>>, q, t, p), PipeOf(c, <<>>, Buffered(q, x), Tail(t), p))
        BY <2>0, <2>1, PipeBuffer DEF Moves
      <4> QED
        BY <2>4, <3>1, <4>1, <4>2
    <3>3. CASE r # p
      <4>1. packet_queue'[n][p] = q
        BY <1>0, <3>1, <3>3 DEF CoordTypeOK, CoreTypeOK
      <4> QED
        BY <2>5, <3>1, <4>1
    <3> QED
      BY <3>2, <3>3
  <2> QED
    BY <1>0, <1>1, <2>6, <2>8, <2>9, StageTypes DEF OutStep
<1> QED
  BY <1>2, <1>3

\* The core answers an event with actions that carry nothing to p.
LEMMA OutSilent ==
    ASSUME CoordTypeOK, NEW n \in Local, NEW p \in Node, actions[n] = <<>>,
           Len(actions'[n]) \in Nat, \A i \in 1..Len(actions'[n]) : actions'[n][i] \notin SendTo(p),
           coord_to_iroh'[n] = coord_to_iroh[n], packet_queue'[n][p] = packet_queue[n][p],
           tun_to_coord'[n] = tun_to_coord[n], reads'[n] = reads[n]
    PROVE  OutStep(n, p)
<1> DEFINE b == actions'[n]
           c == coord_to_iroh[n]
           q == packet_queue[n][p]
           t == tun_to_coord[n]
<1>1. PipeOf(c, b, q, t, p) = PipeOf(c, <<>>, q, t, p)
  BY PipeOther
<1>2. Pipe(n, p) = PipeOf(c, <<>>, q, t, p) /\ Pipe(n, p)' = PipeOf(c, b, q, t, p)
  BY Stages
<1>3. Moves(Pipe(n, p), Pipe(n, p)')
  BY <1>1, <1>2 DEF Moves
<1> QED
  BY <1>3, StageTypes DEF OutStep

\* An event of the iroh manager: a flush moves a queue over, and nothing else moves.
LEMMA OutHandleIrohEvent ==
    ASSUME CoordTypeOK, NEW m \in Local, handle_iroh_event(m), NEW n \in Local, NEW p \in Node
    PROVE  OutStep(n, p)
<1>1. /\ coord_to_iroh'[n] = coord_to_iroh[n] /\ tun_to_coord'[n] = tun_to_coord[n]
      /\ reads'[n] = reads[n]
  BY DEF handle_iroh_event, process_iroh_event
<1>2. CASE n # m
  <2>1. actions'[n] = actions[n] /\ packet_queue'[n][p] = packet_queue[n][p]
    BY <1>2 DEF handle_iroh_event, process_iroh_event, on_peer_connected, on_peer_disconnected,
                recv_packet, Returns,
                coreVars, CoordTypeOK, CoreTypeOK
  <2> QED
    BY <1>1, <2>1, OutSame
<1>3. CASE n = m
  <2> DEFINE c == coord_to_iroh[n]
             q == packet_queue[n][p]
             t == tun_to_coord[n]
             event == Head(iroh_to_coord[n])
  <2>0. c \in Seq(CoreAction) /\ q \in Packets /\ t \in Packets
    BY StageTypes
  <2>1. /\ actions[n] = <<>>
        /\ \/ on_peer_connected(n, event.peer)
           \/ on_peer_disconnected(n, event.peer)
           \/ recv_packet(n, event.packet, event.peer)
    BY <1>3 DEF handle_iroh_event, process_iroh_event, Idle
  <2>2. event.peer \in Node
    <3>1. iroh_to_coord[n] \in Seq(IrohEvent) /\ iroh_to_coord[n] # <<>>
      BY <1>3 DEF handle_iroh_event, process_iroh_event, CoordTypeOK, WiringTypeOK
    <3>2. event \in IrohEvent
      BY <3>1, Receive
    <3> QED
      BY <3>2 DEF IrohEvent
  <2> HIDE DEF event
  <2>3. ASSUME actions'[n] = <<>>, packet_queue'[n][p] = q
        PROVE  OutStep(n, p)
    BY <1>1, <2>1, <2>3, OutSame
  <2>4. ASSUME NEW e, e \notin SendTo(p), actions'[n] = <<e>>, packet_queue'[n][p] = q
        PROVE  OutStep(n, p)
    <3>1. Len(<<e>>) \in Nat /\ \A i \in 1..Len(<<e>>) : <<e>>[i] \notin SendTo(p)
      BY <2>4
    <3> QED
      BY <1>1, <2>1, <2>4, <3>1, OutSilent
  <2>5. CASE recv_packet(n, event.packet, event.peer)
    <3> DEFINE e == [type |-> "WriteToTun", packet |-> event.packet]
    <3>1. e \notin SendTo(p)
      BY DEF SendTo
    <3>2. packet_queue'[n][p] = q /\ (actions'[n] = <<e>> \/ actions'[n] = <<>>)
      BY <2>5 DEF recv_packet, CoordTypeOK, CoreTypeOK
    <3> HIDE DEF e
    <3> QED
      BY <2>3, <2>4, <3>1, <3>2
  <2>6. CASE on_peer_disconnected(n, event.peer)
    BY <2>1, <2>3, <2>6 DEF on_peer_disconnected
  <2>7. CASE on_peer_connected(n, event.peer) /\ ~is_neighbour(n, event.peer)
    <3> DEFINE e == [type |-> "DisconnectFromPeer", peer |-> event.peer]
    <3>1. e \notin SendTo(p)
      BY DEF SendTo
    <3>2. packet_queue'[n][p] = q /\ actions'[n] = <<e>>
      BY <2>7 DEF on_peer_connected, Returns, CoordTypeOK, CoreTypeOK
    <3> HIDE DEF e
    <3> QED
      BY <2>4, <3>1, <3>2
  <2>8. CASE /\ on_peer_connected(n, event.peer)
             /\ is_neighbour(n, event.peer) /\ is_connected[n][event.peer]
    BY <2>1, <2>3, <2>8 DEF on_peer_connected, coreVars
  <2>9. CASE /\ on_peer_connected(n, event.peer)
             /\ is_neighbour(n, event.peer) /\ ~is_connected[n][event.peer]
    <3> DEFINE r == event.peer
               f == [i \in 1..Len(packet_queue[n][r]) |->
                       [type |-> "SendPacketTo", peer |-> r, packet |-> packet_queue[n][r][i]]]
    <3>1. /\ packet_queue' = [packet_queue EXCEPT ![n][r] = <<>>]
          /\ actions' = [actions EXCEPT ![n] = f]
      BY <2>9 DEF on_peer_connected, Returns
    <3>2. actions'[n] = f
      BY <3>1 DEF CoordTypeOK, CoreTypeOK
    <3>3. packet_queue[n][r] \in Packets /\ Len(packet_queue[n][r]) \in Nat
      <4>1. packet_queue[n][r] \in Packets
        BY <2>2, StageTypes
      <4> QED
        BY <4>1, LenProperties DEF Packets
    <3>4. Len(f) = Len(packet_queue[n][r])
      BY <3>3
    <3>5. CASE r = p
      <4>1. packet_queue'[n][p] = <<>>
        BY <3>1, <3>5 DEF CoordTypeOK, CoreTypeOK
      <4>2. ASSUME NEW i \in 1..Len(q)
            PROVE  f[i] \in SendTo(p) /\ f[i].packet = q[i]
        <5>1. q[i] \in Packet
          BY <2>0, ElementOfSeq DEF Packets
        <5>2. f[i] = [type |-> "SendPacketTo", peer |-> p, packet |-> q[i]]
          BY <3>5
        <5> QED
          BY <5>1, <5>2 DEF SendTo
      <4>3. Len(f) = Len(q)
        BY <3>4, <3>5
      <4> HIDE DEF f
      <4>4. PipeOf(c, f, <<>>, t, p) = PipeOf(c, <<>>, q, t, p)
        BY <2>0, <4>2, <4>3, PipeFlush
      <4>5. Pipe(n, p)' = Pipe(n, p)
        BY <1>1, <2>1, <3>2, <4>1, <4>4, Stages
      <4> QED
        BY <1>1, <4>5, StageTypes DEF OutStep, Moves
    <3>6. CASE r # p
      <4>1. packet_queue'[n][p] = q
        BY <3>1, <3>6 DEF CoordTypeOK, CoreTypeOK
      <4>2. ASSUME NEW i \in 1..Len(f)
            PROVE  f[i] \notin SendTo(p)
        <5>1. f[i] = [type |-> "SendPacketTo", peer |-> r, packet |-> packet_queue[n][r][i]]
          BY <3>4
        <5> QED
          BY <3>6, <5>1 DEF SendTo
      <4> HIDE DEF f
      <4> QED
        BY <1>1, <2>1, <3>2, <3>3, <3>4, <4>1, <4>2, OutSilent
    <3> QED
      BY <3>5, <3>6
  <2> QED
    BY <2>1, <2>5, <2>6, <2>7, <2>8, <2>9 DEF on_peer_connected
<1> QED
  BY <1>2, <1>3

\* The process ends.
LEMMA OutReset ==
    ASSUME CoordTypeOK, NEW m \in Local, running[m], running' = [running EXCEPT ![m] = FALSE],
           CoordReset(m), NEW n \in Local, NEW p \in Node
    PROVE  OutStep(n, p)
<1>1. CASE n # m
  <2>1. /\ coord_to_iroh'[n] = coord_to_iroh[n] /\ actions'[n] = actions[n]
        /\ packet_queue'[n][p] = packet_queue[n][p] /\ tun_to_coord'[n] = tun_to_coord[n]
        /\ reads'[n] = reads[n]
    BY <1>1 DEF CoordReset, CoordTypeOK, WiringTypeOK, CoreTypeOK
  <2> QED
    BY <2>1, OutSame
<1>2. CASE n = m
  <2>1. /\ coord_to_iroh'[n] = <<>> /\ actions'[n] = <<>>
        /\ packet_queue'[n][p] = <<>> /\ tun_to_coord'[n] = <<>>
        /\ reads'[n] = reads[n] /\ running[n] /\ ~running'[n]
    BY <1>2 DEF CoordReset, CoordTypeOK, WiringTypeOK, CoreTypeOK
  <2>2. PipeOf(<<>>, <<>>, <<>>, <<>>, p) = <<>>
    <3>1. PacketsOf(<<>>, SendTo(p)) = <<>>
      BY PacketsOfNone
    <3>2. <<>> \o <<>> = <<>>
      BY NoPacket, JoinNothing
    <3> QED
      BY <3>1, <3>2, Zenon DEF PipeOf
  <2>3. Pipe(n, p)' = <<>>
    BY <2>1, <2>2, Stages
  <2> QED
    BY <2>1, <2>3 DEF OutStep
<1> QED
  BY <1>1, <1>2

\* Every step of the coordinator is a step of every way out.
LEMMA OutNext ==
    ASSUME CoordInv, [CoordNext]_coordVars, NEW n \in Local, NEW p \in Node
    PROVE  OutStep(n, p)
<1>0. CoordTypeOK
  BY DEF CoordInv
<1>1. ASSUME UNCHANGED <<coord_to_iroh, actions, packet_queue, tun_to_coord, reads>>
      PROVE  OutStep(n, p)
  BY <1>0, <1>1, OutSame
<1>2. ASSUME NEW m \in Local, CoordStep(m)
      PROVE  OutStep(n, p)
  BY <1>0, <1>2, OutHandleIrohEvent, OutHandlePacketFromTun, OutHandleActions DEF CoordStep
<1>3. ASSUME NEW m \in Local, TunStep(m)
      PROVE  OutStep(n, p)
  <2>1. CASE TunRead(m)
    BY <1>0, <2>1, OutTunRead
  <2>2. CASE TunWrite(m)
    BY <1>1, <2>2 DEF TunWrite
  <2> QED
    BY <1>3, <2>1, <2>2 DEF TunStep
<1>4. ASSUME NEW m \in Local, CoordEnv(m)
      PROVE  OutStep(n, p)
  BY <1>0, <1>1, <1>4, OutReset, OutEnvTakes DEF CoordEnv, EnvSends
<1> QED
  BY <1>1, <1>2, <1>3, <1>4 DEF CoordNext, coordVars

\* It is a step of the abstract pipe.
LEMMA OutIsPipeStep ==
    ASSUME NEW n \in Local, NEW p \in Node, Pipe(n, p) \in Packets, OutStep(n, p)
    PROVE  \/ Pipe(n, p) = Pipe(n, p)'
           \/ Outbound!Put(Pipe(n, p), Pipe(n, p)')
           \/ Outbound!TakeOrLose(Pipe(n, p), Pipe(n, p)')
           \/ running[n] /\ ~running'[n] /\ Pipe(n, p)' = <<>>
<1> DEFINE s == Pipe(n, p)
           t == Pipe(n, p)'
<1>1. CASE Loses(s, t)
  <2>1. \E i \in DOMAIN s : t = SubSeq(s, 1, i - 1) \o SubSeq(s, i + 1, Len(s))
    BY <1>1, LosesIsLoss
  <2> QED
    BY <2>1 DEF Outbound!TakeOrLose, Outbound!Without
<1>2. ASSUME NEW x \in Packet, Gains(s, t, x)
      PROVE  Outbound!Put(s, t)
  <2> HIDE DEF s, t
  <2>1. s \in Packets
    BY DEF s
  <2>2. t = s \o <<x>>
    BY <1>2 DEF Gains
  <2>3. Len(t) = Len(s) + 1 /\ s = SubSeq(t, 1, Len(s))
    BY <2>1, <2>2, GainIsPut
  <2> QED
    BY <2>3 DEF Outbound!Put
<1> QED
  BY <1>1, <1>2 DEF OutStep, Moves

\* OutboundIsPipe for every configuration: the way out is a lossy FIFO pipe.
THEOREM OutboundIsLossyPipe == CoordSpec => OutboundIsPipe
<1>1. CoordInit => Outbound!PipeInit
  <2> SUFFICES ASSUME CoordInit
               PROVE  Outbound!PipeInit
    OBVIOUS
  <2>1. ASSUME NEW l \in Local \X Node
        PROVE  Pipe(l[1], l[2]) = <<>> /\ running[l[1]] = FALSE
    <3>1. l[1] \in Local /\ l[2] \in Node
      OBVIOUS
    <3>2. /\ coord_to_iroh[l[1]] = <<>> /\ actions[l[1]] = <<>>
          /\ packet_queue[l[1]][l[2]] = <<>> /\ tun_to_coord[l[1]] = <<>>
          /\ running[l[1]] = FALSE
      BY <3>1 DEF CoordInit, WiringInit, CoreInit
    <3>3. PacketsOf(<<>>, SendTo(l[2])) = <<>>
      BY PacketsOfNone
    <3>4. <<>> \o <<>> = <<>>
      BY NoPacket, JoinNothing
    <3> QED
      BY <3>2, <3>3, <3>4, Zenon DEF Pipe
  <2> QED
    BY <2>1 DEF Outbound!PipeInit
<1>2. CoordInv /\ [CoordNext]_coordVars => [Outbound!PipeNext]_(Outbound!pipeVars)
  <2> SUFFICES ASSUME CoordInv, [CoordNext]_coordVars
               PROVE  Outbound!PipeNext
    OBVIOUS
  <2>1. ASSUME NEW l \in Local \X Node
        PROVE  \/ Pipe(l[1], l[2]) = Pipe(l[1], l[2])'
               \/ Outbound!Put(Pipe(l[1], l[2]), Pipe(l[1], l[2])')
               \/ Outbound!TakeOrLose(Pipe(l[1], l[2]), Pipe(l[1], l[2])')
               \/ running[l[1]] /\ ~running'[l[1]] /\ Pipe(l[1], l[2])' = <<>>
    <3>1. l[1] \in Local /\ l[2] \in Node
      OBVIOUS
    <3>2. Pipe(l[1], l[2]) \in Packets
      BY <3>1, PipeIsPackets DEF CoordInv
    <3>3. OutStep(l[1], l[2])
      BY <3>1, OutNext
    <3> QED
      BY <3>1, <3>2, <3>3, OutIsPipeStep
  <2> QED
    BY <2>1 DEF Outbound!PipeNext, Outbound!Clear
<1> QED
  BY <1>1, <1>2, CoordinatorInvariant, PTL DEF CoordSpec, OutboundIsPipe, Outbound!PipeSpec

-----------------------------------------------------------------------------
\* Packets in a pipe are in the order in which they were read.

Ordered(s) == \A i, j \in DOMAIN s : i < j => s[i].seq < s[j].seq

\* All of them were read: without this a packet read next might not be the last.
ReadBy(s, k) == \A i \in DOMAIN s : s[i].seq <= k

\* A loss leaves the rest in order: every packet of t is one of s, and in order.
LEMMA OrderAfterLoss ==
    ASSUME NEW s, NEW t, Loses(s, t), Ordered(s), NEW k, ReadBy(s, k)
    PROVE  Ordered(t) /\ ReadBy(t, k)
<1>1. PICK a \in Packets, b \in Packets, x \in Packet : s = a \o (<<x>> \o b) /\ t = a \o b
  BY DEF Loses
<1>2. /\ Len(a) \in Nat /\ Len(b) \in Nat
      /\ DOMAIN s = 1..(Len(a) + Len(b) + 1)
      /\ \A i \in 1..Len(a) : s[i] = a[i]
      /\ \A i \in 1..Len(b) : s[Len(a) + 1 + i] = b[i]
  BY <1>1, LosesParts
<1>3. /\ t \in Seq(Packet) /\ Len(t) = Len(a) + Len(b)
      /\ \A i \in 1..(Len(a) + Len(b)) : t[i] = IF i <= Len(a) THEN a[i] ELSE b[i - Len(a)]
  BY <1>1, ConcatProperties DEF Packets
<1>4. DOMAIN t = 1..(Len(a) + Len(b))
  BY <1>3, LenProperties
<1> DEFINE Old(i) == IF i <= Len(a) THEN i ELSE i + 1
<1>5. ASSUME NEW i \in DOMAIN t
      PROVE  Old(i) \in DOMAIN s /\ t[i] = s[Old(i)]
  <2>1. CASE i <= Len(a)
    <3>1. i \in 1..Len(a) /\ i \in DOMAIN s
      BY <1>2, <1>4, <2>1
    <3> QED
      BY <1>2, <1>3, <1>4, <2>1, <3>1
  <2>2. CASE ~(i <= Len(a))
    <3>1. i - Len(a) \in 1..Len(b) /\ Len(a) + 1 + (i - Len(a)) = i + 1 /\ i + 1 \in DOMAIN s
      BY <1>2, <1>4, <2>2
    <3>2. t[i] = b[i - Len(a)] /\ s[i + 1] = b[i - Len(a)]
      BY <1>2, <1>3, <1>4, <2>2, <3>1
    <3> QED
      BY <2>2, <3>1, <3>2
  <2> QED
    BY <2>1, <2>2
<1>6. ASSUME NEW i \in DOMAIN t, NEW j \in DOMAIN t, i < j
      PROVE  Old(i) < Old(j)
  BY <1>2, <1>4, <1>6
<1> HIDE DEF Old
<1>7. ReadBy(t, k)
  BY <1>5 DEF ReadBy
<1> QED
  BY <1>5, <1>6, <1>7 DEF Ordered

\* A packet that is read after all the others is the last.
LEMMA OrderAfterRead ==
    ASSUME NEW s \in Packets, NEW t, NEW x \in Packet, Gains(s, t, x), Ordered(s),
           NEW k \in Nat, ReadBy(s, k), x.seq = k + 1
    PROVE  Ordered(t) /\ ReadBy(t, k + 1)
<1>1. /\ Len(s) \in Nat /\ DOMAIN t = 1..(Len(s) + 1) /\ t[Len(s) + 1] = x
      /\ \A i \in 1..Len(s) : t[i] = s[i]
  <2>1. t = s \o <<x>>
    BY DEF Gains
  <2> QED
    BY <2>1, GainIsPut
<1>2. DOMAIN s = 1..Len(s)
  BY LenProperties DEF Packets
<1>3. ASSUME NEW i \in 1..Len(s)
      PROVE  t[i] = s[i] /\ t[i].seq \in Nat /\ t[i].seq <= k
  <2>1. s[i] \in Packet
    BY ElementOfSeq DEF Packets
  <2>2. s[i].seq \in Nat
    BY <2>1, WiringAssumption DEF Packet
  <2> QED
    BY <1>1, <1>2, <2>2 DEF ReadBy
<1>4. ASSUME NEW i \in DOMAIN t, NEW j \in DOMAIN t, i < j
      PROVE  t[i].seq < t[j].seq
  <2>1. i \in 1..Len(s)
    BY <1>1, <1>4
  <2>2. CASE j = Len(s) + 1
    BY <1>1, <1>3, <2>1, <2>2
  <2>3. CASE j # Len(s) + 1
    <3>1. j \in 1..Len(s)
      BY <1>1, <2>3
    <3> QED
      BY <1>2, <1>3, <1>4, <2>1, <3>1 DEF Ordered
  <2> QED
    BY <2>2, <2>3
<1>5. ASSUME NEW i \in DOMAIN t
      PROVE  t[i].seq <= k + 1
  <2>1. CASE i = Len(s) + 1
    BY <1>1, <2>1
  <2>2. CASE i # Len(s) + 1
    <3>1. i \in 1..Len(s)
      BY <1>1, <2>2
    <3> QED
      BY <1>3, <3>1
  <2> QED
    BY <2>1, <2>2
<1> QED
  BY <1>4, <1>5 DEF Ordered, ReadBy

\* An empty pipe is in order.
LEMMA OrderInNothing ==
    ASSUME NEW k
    PROVE  Ordered(<<>>) /\ ReadBy(<<>>, k)
BY DEF Ordered, ReadBy

\* The order is inductive together with the number of the last packet read.
OrderInv ==
    \A n \in Local, p \in Node : Ordered(Pipe(n, p)) /\ ReadBy(Pipe(n, p), reads[n])

\* Reading more packets does not make an old one too new.
LEMMA ReadByMore ==
    ASSUME NEW s \in Packets, NEW k \in Nat, NEW l \in Nat, ReadBy(s, k), k <= l
    PROVE  ReadBy(s, l)
<1> SUFFICES ASSUME NEW i \in DOMAIN s
             PROVE  s[i].seq <= l
  BY DEF ReadBy
<1>1. s[i] \in Packet
  <2>1. DOMAIN s = 1..Len(s)
    BY LenProperties DEF Packets
  <2> QED
    BY <2>1, ElementOfSeq DEF Packets
<1>2. s[i].seq \in Nat
  BY <1>1, WiringAssumption DEF Packet
<1> QED
  BY <1>2 DEF ReadBy

\* Every step keeps the packets for a peer in the order they were read.
LEMMA OrderNext ==
    ASSUME CoordInv, CoordInv', OrderInv, [CoordNext]_coordVars
    PROVE  OrderInv'
<1> SUFFICES ASSUME NEW n \in Local, NEW p \in Node
             PROVE  Ordered(Pipe(n, p)') /\ ReadBy(Pipe(n, p)', reads'[n])
  BY DEF OrderInv, Ordered, ReadBy
<1> DEFINE s == Pipe(n, p)
           t == Pipe(n, p)'
<1>0. s \in Packets /\ reads[n] \in Nat /\ reads'[n] \in Nat
  <2>1. CoordTypeOK /\ CoordTypeOK'
    BY DEF CoordInv
  <2>2. s \in Packets /\ reads[n] \in Nat
    BY <2>1, PipeIsPackets, StageTypes
  <2>3. reads'[n] \in Nat
    BY <2>1, WiringAssumption DEF CoordTypeOK
  <2> QED
    BY <2>2, <2>3
<1>1. OutStep(n, p)
  BY OutNext
<1>2. Ordered(s) /\ ReadBy(s, reads[n])
  BY DEF OrderInv
<1> HIDE DEF s, t
<1>3. ASSUME Moves(s, t), reads[n] <= reads'[n]
      PROVE  Ordered(t) /\ ReadBy(t, reads'[n])
  <2>1. ReadBy(s, reads'[n])
    BY <1>0, <1>2, <1>3, ReadByMore
  <2>2. CASE t = s
    BY <1>2, <2>1, <2>2
  <2>3. CASE Loses(s, t)
    BY <1>2, <2>1, <2>3, OrderAfterLoss
  <2> QED
    BY <1>3, <2>2, <2>3 DEF Moves
<1>4. ASSUME NEW x \in Packet, Gains(s, t, x), x.seq = reads[n] + 1, reads'[n] = reads[n] + 1
      PROVE  Ordered(t) /\ ReadBy(t, reads'[n])
  BY <1>0, <1>2, <1>4, OrderAfterRead
<1>5. ASSUME t = <<>>
      PROVE  Ordered(t) /\ ReadBy(t, reads'[n])
  BY <1>5, OrderInNothing
<1>6. \/ Moves(s, t) /\ reads[n] <= reads'[n]
      \/ \E x \in Packet : /\ Gains(s, t, x) /\ x.seq = reads[n] + 1
                           /\ reads'[n] = reads[n] + 1
      \/ t = <<>>
  BY <1>1 DEF OutStep, s, t
<1>7. Ordered(t) /\ ReadBy(t, reads'[n])
  BY <1>3, <1>4, <1>5, <1>6
<1> QED
  BY <1>7 DEF t

\* At the start every pipe is empty.
LEMMA OrderInit ==
    ASSUME CoordInit
    PROVE  OrderInv
<1> SUFFICES ASSUME NEW n \in Local, NEW p \in Node
             PROVE  Pipe(n, p) = <<>>
  BY OrderInNothing DEF OrderInv
<1>1. /\ coord_to_iroh[n] = <<>> /\ actions[n] = <<>>
      /\ packet_queue[n][p] = <<>> /\ tun_to_coord[n] = <<>>
  BY DEF CoordInit, WiringInit, CoreInit
<1>2. PacketsOf(<<>>, SendTo(p)) = <<>>
  BY PacketsOfNone
<1>3. <<>> \o <<>> = <<>>
  BY NoPacket, JoinNothing
<1> QED
  BY <1>1, <1>2, <1>3, Zenon DEF Pipe

\* OrderedPipe for every configuration: between the TUN reader and the iroh manager
\* packets for one peer never overtake each other and are never duplicated.
THEOREM PacketsStayInOrder == CoordSpec => []OrderedPipe
<1>1. OrderInv => OrderedPipe
  BY DEF OrderInv, OrderedPipe, Ordered
<1> QED
  BY <1>1, OrderInit, OrderNext, CoordinatorInvariant, PTL DEF CoordSpec

-----------------------------------------------------------------------------
\* The way in, for all peers together: the same argument over three stages.

InOf(w, a, e) == w \o PacketsOf(a, WriteToTun) \o PacketsOf(e, RecvPacketFrom)

InStep(n) ==
    \/ Moves(TunPipe(n), TunPipe(n)')
    \/ \E x \in Packet : Gains(TunPipe(n), TunPipe(n)', x)
    \/ running[n] /\ ~running'[n] /\ TunPipe(n)' = <<>>

\* TunPipe written as a function of its stages, before and after a step.
LEMMA InStages ==
    ASSUME NEW n
    PROVE  /\ TunPipe(n) = InOf(coord_to_tun[n], actions[n], iroh_to_coord[n])
           /\ TunPipe(n)' = InOf(coord_to_tun'[n], actions'[n], iroh_to_coord'[n])
BY DEF TunPipe, InOf

\* What the type invariant says of the stages of the way in.
LEMMA InStageTypes ==
    ASSUME CoordTypeOK, NEW n \in Local
    PROVE  /\ coord_to_tun[n] \in Packets
           /\ actions[n] \in Seq(Action)
           /\ iroh_to_coord[n] \in Seq(IrohEvent)
BY DEF CoordTypeOK, WiringTypeOK, CoreTypeOK, Packets

\* A stage of the way in is a sequence of packets.
LEMMA InStageType ==
    ASSUME NEW S, NEW s \in Seq(S)
    PROVE  PacketsOf(s, WriteToTun) \in Packets /\ PacketsOf(s, RecvPacketFrom) \in Packets
BY PacketsOfType, Carriers DEF Packets

\* The way in to the TUN device holds packets only.
LEMMA TunPipeIsPackets ==
    ASSUME CoordTypeOK, NEW n \in Local
    PROVE  TunPipe(n) \in Packets
<1> DEFINE A == PacketsOf(actions[n], WriteToTun)
           R == PacketsOf(iroh_to_coord[n], RecvPacketFrom)
           w == coord_to_tun[n]
<1>1. w \in Packets /\ A \in Packets /\ R \in Packets
  BY InStageTypes, InStageType
<1>2. w \o A \in Packets
  BY <1>1, JoinType
<1>3. (w \o A) \o R \in Packets
  BY <1>1, <1>2, JoinType
<1> QED
  BY <1>3 DEF TunPipe

\* The manager sends an event.
LEMMA InSend ==
    ASSUME NEW w \in Packets, NEW a \in Seq(Action), NEW e \in Seq(IrohEvent),
           NEW event \in IrohEvent, NEW f, f = Append(e, event)
    PROVE  \/ InOf(w, a, f) = InOf(w, a, e)
           \/ \E x \in Packet : Gains(InOf(w, a, e), InOf(w, a, f), x)
<1> DEFINE B == w \o PacketsOf(a, WriteToTun)
           R == PacketsOf(e, RecvPacketFrom)
           F == PacketsOf(f, RecvPacketFrom)
           E == PacketsOf(<<event>>, RecvPacketFrom)
<1>1. PacketsOf(a, WriteToTun) \in Packets /\ R \in Packets
  BY InStageType
<1>2. B \in Packets
  BY <1>1, JoinType
<1>3. F = R \o E
  BY PacketsOfAppend, Carriers
<1>4. E = IF event \in RecvPacketFrom THEN <<event.packet>> ELSE <<>>
  BY PacketsOfOne
<1>5. InOf(w, a, f) = B \o F /\ InOf(w, a, e) = B \o R
  BY DEF InOf
<1>6. event \in RecvPacketFrom => event.packet \in Packet
  BY DEF RecvPacketFrom
<1> HIDE DEF B, R, F, E
<1>7. CASE event \notin RecvPacketFrom
  <2>1. F = R
    BY <1>1, <1>3, <1>4, <1>7, JoinNothing
  <2> QED
    BY <1>5, <2>1
<1>8. CASE event \in RecvPacketFrom
  <2>1. E \in Packets
    BY <1>4, <1>6, <1>8, OnePacket
  <2>2. (B \o R) \o E = B \o (R \o E)
    BY <1>1, <1>2, <2>1, JoinAssoc, SMTT(40)
  <2>3. InOf(w, a, f) = InOf(w, a, e) \o E
    BY <1>3, <1>5, <2>2
  <2>4. E = <<event.packet>>
    BY <1>4, <1>8
  <2>5. Gains(InOf(w, a, e), InOf(w, a, f), event.packet)
    BY <2>3, <2>4, Zenon DEF Gains
  <2> QED
    BY <1>6, <1>8, <2>5
<1> QED
  BY <1>7, <1>8

\* The core takes an event: it passes the packet on, or drops it.
LEMMA InReceive ==
    ASSUME NEW w \in Packets, NEW e \in Seq(IrohEvent), e # <<>>, NEW b,
           \/ PacketsOf(b, WriteToTun) = PacketsOf(<<Head(e)>>, RecvPacketFrom)
           \/ PacketsOf(b, WriteToTun) = <<>>
    PROVE  Moves(InOf(w, <<>>, e), InOf(w, b, Tail(e)))
<1> DEFINE B == PacketsOf(b, WriteToTun)
           E == PacketsOf(<<Head(e)>>, RecvPacketFrom)
           R == PacketsOf(e, RecvPacketFrom)
           S == PacketsOf(Tail(e), RecvPacketFrom)
           h == Head(e)
<1>1. Tail(e) \in Seq(IrohEvent)
  BY Receive
<1>2. R \in Packets /\ S \in Packets
  BY <1>1, InStageType
<1>3. R = E \o S
  BY PacketsOfReceive, Carriers
<1>4. E = IF h \in RecvPacketFrom THEN <<h.packet>> ELSE <<>>
  BY PacketsOfOne
<1>5. h \in RecvPacketFrom => h.packet \in Packet
  BY DEF RecvPacketFrom
<1>6. E \in Packets
  BY <1>4, <1>5, OnePacket, NoPacket
<1>7. PacketsOf(<<>>, WriteToTun) = <<>> /\ w \o <<>> = w
  BY PacketsOfNone, JoinNothing
<1>8. InOf(w, <<>>, e) = w \o R /\ InOf(w, b, Tail(e)) = (w \o B) \o S
  BY <1>7 DEF InOf
<1>9. B = E \/ B = <<>>
  OBVIOUS
<1> HIDE DEF B, E, R, S, h
<1>10. CASE B = E
  <2> DEFINE D == w \o B
  <2>1. D \o S = w \o R
    BY <1>2, <1>3, <1>6, <1>10, JoinMoves, SMTT(40)
  <2> QED
    BY <1>8, <2>1 DEF Moves
<1>11. CASE B = <<>> /\ h \in RecvPacketFrom
  <2>1. Loses(R, S)
    BY <1>2, <1>3, <1>4, <1>5, <1>11, LosesFirst
  <2>2. Loses(w \o R, w \o S)
    BY <2>1, LosesBehind
  <2>3. (w \o B) \o S = w \o S
    BY <1>7, <1>11
  <2> QED
    BY <1>8, <2>2, <2>3 DEF Moves
<1>12. CASE B = <<>> /\ h \notin RecvPacketFrom
  BY <1>4, <1>10, <1>12
<1> QED
  BY <1>9, <1>10, <1>11, <1>12

\* An action is carried out: the packet goes to the TUN writer if it fits.
LEMMA InAct ==
    ASSUME NEW w \in Packets, NEW a \in Seq(Action), a # <<>>, NEW e \in Seq(IrohEvent), NEW v,
           IF Head(a) \in WriteToTun THEN v = w \/ v = Append(w, Head(a).packet) ELSE v = w
    PROVE  Moves(InOf(w, a, e), InOf(v, Tail(a), e))
<1> DEFINE A == PacketsOf(a, WriteToTun)
           B == PacketsOf(Tail(a), WriteToTun)
           E == PacketsOf(<<Head(a)>>, WriteToTun)
           R == PacketsOf(e, RecvPacketFrom)
           h == Head(a)
<1>1. Tail(a) \in Seq(Action)
  BY Receive
<1>2. A \in Packets /\ B \in Packets /\ R \in Packets
  BY <1>1, InStageType
<1>3. A = E \o B
  BY PacketsOfReceive, Carriers
<1>4. E = IF h \in WriteToTun THEN <<h.packet>> ELSE <<>>
  BY PacketsOfOne
<1>5. h \in WriteToTun => h.packet \in Packet
  BY DEF WriteToTun
<1>6. InOf(w, a, e) = (w \o A) \o R /\ InOf(v, Tail(a), e) = (v \o B) \o R
  BY DEF InOf
<1>7. \/ h \notin WriteToTun /\ v = w
      \/ h \in WriteToTun /\ v = w
      \/ h \in WriteToTun /\ v = Append(w, h.packet)
  OBVIOUS
<1> HIDE DEF A, B, E, R, h
<1>8. CASE h \notin WriteToTun /\ v = w
  <2>1. A = B
    BY <1>2, <1>3, <1>4, <1>8, JoinNothing
  <2> QED
    BY <1>6, <1>8, <2>1 DEF Moves
<1>9. CASE h \in WriteToTun /\ v = w
  <2>1. Loses(A, B)
    BY <1>2, <1>3, <1>4, <1>5, <1>9, LosesFirst
  <2>2. Loses(w \o A, w \o B)
    BY <2>1, LosesBehind
  <2>3. Loses((w \o A) \o R, (w \o B) \o R)
    BY <1>2, <2>2, LosesBefore
  <2> QED
    BY <1>6, <1>9, <2>3 DEF Moves
<1>10. CASE h \in WriteToTun /\ v = Append(w, h.packet)
  <2>1. E = <<h.packet>> /\ E \in Packets
    BY <1>4, <1>5, <1>10, OnePacket
  <2>2. v = w \o E
    BY <1>5, <1>10, <2>1, AppendIsConcat DEF Packets
  <2>3. v \o B = w \o A
    BY <1>2, <1>3, <2>1, <2>2, JoinMoves, SMTT(40)
  <2> QED
    BY <1>6, <2>3 DEF Moves
<1> QED
  BY <1>7, <1>8, <1>9, <1>10

\* The TUN writer takes a packet.
LEMMA InTake ==
    ASSUME NEW w \in Packets, w # <<>>, NEW a \in Seq(Action), NEW e \in Seq(IrohEvent)
    PROVE  Moves(InOf(w, a, e), InOf(Tail(w), a, e))
<1> DEFINE A == PacketsOf(a, WriteToTun)
           R == PacketsOf(e, RecvPacketFrom)
           r == Tail(w)
<1>1. A \in Packets /\ R \in Packets
  BY InStageType
<1>2. Head(w) \in Packet /\ r \in Packets /\ w = <<Head(w)>> \o r
  BY FirstOf
<1>3. InOf(w, a, e) = (w \o A) \o R /\ InOf(Tail(w), a, e) = (r \o A) \o R
  BY DEF InOf
<1> HIDE DEF A, R, r
<1>4. Loses(w, r)
  BY <1>2, LosesFirst
<1>5. Loses(w \o A, r \o A)
  BY <1>1, <1>4, LosesBefore
<1>6. Loses((w \o A) \o R, (r \o A) \o R)
  BY <1>1, <1>5, LosesBefore
<1> QED
  BY <1>3, <1>6 DEF Moves

\* Nothing happens to a way no stage of which changes.
LEMMA InSame ==
    ASSUME NEW n, coord_to_tun'[n] = coord_to_tun[n], actions'[n] = actions[n],
           iroh_to_coord'[n] = iroh_to_coord[n]
    PROVE  InStep(n)
<1>1. TunPipe(n)' = TunPipe(n)
  BY InStages
<1> QED
  BY <1>1 DEF InStep, Moves

\* The core answers with actions that carry nothing to the TUN device.
LEMMA InNothing ==
    ASSUME NEW b, Len(b) \in Nat, \A i \in 1..Len(b) : b[i] \notin WriteToTun
    PROVE  PacketsOf(b, WriteToTun) = <<>>
BY PacketsOfNobody

\* What the core returns for an event carries the event's packet, or nothing.
LEMMA AnswerOfCore ==
    ASSUME CoordTypeOK, NEW n \in Local, handle_iroh_event(n)
    PROVE  \/ PacketsOf(actions'[n], WriteToTun)
                = PacketsOf(<<Head(iroh_to_coord[n])>>, RecvPacketFrom)
           \/ PacketsOf(actions'[n], WriteToTun) = <<>>
<1> DEFINE event == Head(iroh_to_coord[n])
<1>1. event \in IrohEvent
  <2>1. iroh_to_coord[n] \in Seq(IrohEvent) /\ iroh_to_coord[n] # <<>>
    BY DEF handle_iroh_event, process_iroh_event, CoordTypeOK, WiringTypeOK
  <2> QED
    BY <2>1, Receive
<1>2. event.peer \in Node
  BY <1>1 DEF IrohEvent
<1>3. /\ actions[n] = <<>>
      /\ \/ on_peer_connected(n, event.peer)
         \/ on_peer_disconnected(n, event.peer)
         \/ event.type = "RecvPacketFrom" /\ recv_packet(n, event.packet, event.peer)
  BY DEF handle_iroh_event, process_iroh_event, Idle
<1> HIDE DEF event
<1>4. PacketsOf(<<>>, WriteToTun) = <<>>
  BY PacketsOfNone
<1>5. ASSUME NEW e, e \notin WriteToTun
      PROVE  PacketsOf(<<e>>, WriteToTun) = <<>>
  BY <1>5, PacketsOfOne
<1>6. CASE on_peer_disconnected(n, event.peer)
  BY <1>3, <1>4, <1>6 DEF on_peer_disconnected
<1>7. CASE on_peer_connected(n, event.peer) /\ ~is_neighbour(n, event.peer)
  <2> DEFINE e == [type |-> "DisconnectFromPeer", peer |-> event.peer]
  <2>1. e \notin WriteToTun
    BY DEF WriteToTun
  <2>2. actions'[n] = <<e>>
    BY <1>7 DEF on_peer_connected, Returns, CoordTypeOK, CoreTypeOK
  <2> HIDE DEF e
  <2> QED
    BY <1>5, <2>1, <2>2
<1>8. CASE /\ on_peer_connected(n, event.peer)
           /\ is_neighbour(n, event.peer) /\ is_connected[n][event.peer]
  BY <1>3, <1>4, <1>8 DEF on_peer_connected, coreVars
<1>9. CASE /\ on_peer_connected(n, event.peer)
           /\ is_neighbour(n, event.peer) /\ ~is_connected[n][event.peer]
  <2> DEFINE r == event.peer
             f == [i \in 1..Len(packet_queue[n][r]) |->
                     [type |-> "SendPacketTo", peer |-> r, packet |-> packet_queue[n][r][i]]]
  <2>1. actions' = [actions EXCEPT ![n] = f]
    BY <1>9 DEF on_peer_connected, Returns
  <2>2. actions'[n] = f
    BY <2>1 DEF CoordTypeOK, CoreTypeOK
  <2>3. Len(packet_queue[n][r]) \in Nat
    BY <1>2, LenProperties DEF CoordTypeOK, CoreTypeOK
  <2>4. Len(f) = Len(packet_queue[n][r])
    BY <2>3
  <2>5. ASSUME NEW i \in 1..Len(f)
        PROVE  f[i] \notin WriteToTun
    <3>1. f[i] = [type |-> "SendPacketTo", peer |-> r, packet |-> packet_queue[n][r][i]]
      BY <2>4
    <3> QED
      BY <3>1 DEF WriteToTun
  <2> HIDE DEF f
  <2> QED
    BY <2>2, <2>3, <2>4, <2>5, InNothing
<1>10. CASE event.type = "RecvPacketFrom" /\ recv_packet(n, event.packet, event.peer)
  <2> DEFINE e == [type |-> "WriteToTun", packet |-> event.packet]
  <2>1. event \in RecvPacketFrom /\ event.packet \in Packet
    BY <1>1, <1>10 DEF IrohEvent, RecvPacketFrom
  <2>2. e \in WriteToTun /\ e.packet = event.packet
    BY <2>1 DEF WriteToTun
  <2>3. actions'[n] = <<e>> \/ actions'[n] = <<>>
    BY <1>10 DEF recv_packet, CoordTypeOK, CoreTypeOK
  <2> HIDE DEF e
  <2>4. /\ PacketsOf(<<e>>, WriteToTun) = <<event.packet>>
        /\ PacketsOf(<<event>>, RecvPacketFrom) = <<event.packet>>
    BY <2>1, <2>2, PacketsOfOne
  <2> QED
    BY <1>4, <2>3, <2>4 DEF event
<1> QED
  BY <1>3, <1>6, <1>7, <1>8, <1>9, <1>10 DEF on_peer_connected

\* An event of the iroh manager.
LEMMA InHandleIrohEvent ==
    ASSUME CoordTypeOK, NEW m \in Local, handle_iroh_event(m), NEW n \in Local
    PROVE  InStep(n)
<1>1. coord_to_tun'[n] = coord_to_tun[n]
  BY DEF handle_iroh_event, process_iroh_event
<1>2. CASE n # m
  <2>1. actions'[n] = actions[n] /\ iroh_to_coord'[n] = iroh_to_coord[n]
    BY <1>2 DEF handle_iroh_event, process_iroh_event, on_peer_connected, on_peer_disconnected,
                recv_packet, Returns,
                coreVars, CoordTypeOK, CoreTypeOK, WiringTypeOK
  <2> QED
    BY <1>1, <2>1, InSame
<1>3. CASE n = m
  <2>1. /\ actions[n] = <<>> /\ iroh_to_coord[n] # <<>>
        /\ iroh_to_coord'[n] = Tail(iroh_to_coord[n])
    BY <1>3 DEF handle_iroh_event, process_iroh_event, Idle, CoordTypeOK, WiringTypeOK
  <2>2. coord_to_tun[n] \in Packets /\ iroh_to_coord[n] \in Seq(IrohEvent)
    BY InStageTypes
  <2>3. \/ PacketsOf(actions'[n], WriteToTun)
             = PacketsOf(<<Head(iroh_to_coord[n])>>, RecvPacketFrom)
        \/ PacketsOf(actions'[n], WriteToTun) = <<>>
    BY <1>3, AnswerOfCore
  <2>4. Moves(InOf(coord_to_tun[n], <<>>, iroh_to_coord[n]),
              InOf(coord_to_tun[n], actions'[n], Tail(iroh_to_coord[n])))
    BY <2>1, <2>2, <2>3, InReceive
  <2>5. Moves(TunPipe(n), TunPipe(n)')
    BY <1>1, <2>1, <2>4, InStages, Zenon
  <2> QED
    BY <2>5 DEF InStep
<1> QED
  BY <1>2, <1>3

\* A packet of the TUN device does not come back.
LEMMA InHandlePacketFromTun ==
    ASSUME CoordTypeOK, NEW m \in Local, handle_packet_from_tun(m), NEW n \in Local
    PROVE  InStep(n)
<1>1. coord_to_tun'[n] = coord_to_tun[n] /\ iroh_to_coord'[n] = iroh_to_coord[n]
  BY DEF handle_packet_from_tun
<1> DEFINE r == RouteTable[m][Head(tun_to_coord[m]).hdr.dest_ip]
           e == [type |-> "SendPacketTo", peer |-> r, packet |-> Head(tun_to_coord[m])]
<1>2. \/ actions'[n] = actions[n]
      \/ n = m /\ actions[n] = <<>> /\ actions'[n] = <<e>>
  BY DEF handle_packet_from_tun, Idle, send_packet, Returns, coreVars, CoordTypeOK, CoreTypeOK
<1>3. e \notin WriteToTun
  BY DEF WriteToTun
<1> HIDE DEF e
<1>4. CASE actions'[n] = actions[n]
  BY <1>1, <1>4, InSame
<1>5. CASE actions[n] = <<>> /\ actions'[n] = <<e>>
  <2>1. PacketsOf(<<e>>, WriteToTun) = <<>> /\ PacketsOf(<<>>, WriteToTun) = <<>>
    BY <1>3, PacketsOfOne, PacketsOfNone
  <2>2. TunPipe(n)' = TunPipe(n)
    BY <1>1, <1>5, <2>1, InStages, Zenon DEF InOf
  <2> QED
    BY <2>2 DEF InStep, Moves
<1> QED
  BY <1>2, <1>4, <1>5

\* An action is carried out.
LEMMA InHandleActions ==
    ASSUME CoordTypeOK, NEW m \in Local, handle_actions(m), NEW n \in Local
    PROVE  InStep(n)
<1>1. iroh_to_coord'[n] = iroh_to_coord[n]
  BY DEF handle_actions
<1>2. CASE n # m
  <2>1. actions'[n] = actions[n] /\ coord_to_tun'[n] = coord_to_tun[n]
    BY <1>2 DEF handle_actions, CoordTypeOK, CoreTypeOK
  <2> QED
    BY <1>1, <2>1, InSame
<1>3. CASE n = m
  <2>0. /\ coord_to_tun[n] \in Packets /\ actions[n] \in Seq(Action)
        /\ iroh_to_coord[n] \in Seq(IrohEvent)
    BY InStageTypes
  <2>1. actions[n] # <<>> /\ actions'[n] = Tail(actions[n])
    BY <1>3 DEF handle_actions, CoordTypeOK, CoreTypeOK
  <2>2. Head(actions[n]) \in Action
    BY <2>0, <2>1, Receive
  <2>3. Head(actions[n]) \in WriteToTun <=> Head(actions[n]).type = "WriteToTun"
    BY <2>2 DEF Action, WriteToTun
  <2>4. IF Head(actions[n]) \in WriteToTun
        THEN \/ coord_to_tun'[n] = coord_to_tun[n]
             \/ coord_to_tun'[n] = Append(coord_to_tun[n], Head(actions[n]).packet)
        ELSE coord_to_tun'[n] = coord_to_tun[n]
    BY <1>3, <2>3 DEF handle_actions, CoordTypeOK, TrySend
  <2>5. Moves(InOf(coord_to_tun[n], actions[n], iroh_to_coord[n]),
              InOf(coord_to_tun'[n], Tail(actions[n]), iroh_to_coord[n]))
    BY <2>0, <2>1, <2>4, InAct
  <2>6. Moves(TunPipe(n), TunPipe(n)')
    BY <1>1, <2>1, <2>5, InStages, Zenon
  <2> QED
    BY <2>6 DEF InStep
<1> QED
  BY <1>2, <1>3

\* The TUN writer takes a packet.
LEMMA InTunWrite ==
    ASSUME CoordTypeOK, NEW m \in Local, TunWrite(m), NEW n \in Local
    PROVE  InStep(n)
<1>1. iroh_to_coord'[n] = iroh_to_coord[n] /\ actions'[n] = actions[n]
  BY DEF TunWrite
<1>2. CASE n # m
  <2>1. coord_to_tun'[n] = coord_to_tun[n]
    BY <1>2 DEF TunWrite, CoordTypeOK
  <2> QED
    BY <1>1, <2>1, InSame
<1>3. CASE n = m
  <2>0. /\ coord_to_tun[n] \in Packets /\ actions[n] \in Seq(Action)
        /\ iroh_to_coord[n] \in Seq(IrohEvent)
    BY InStageTypes
  <2>1. coord_to_tun[n] # <<>> /\ coord_to_tun'[n] = Tail(coord_to_tun[n])
    BY <1>3 DEF TunWrite, CoordTypeOK
  <2>2. Moves(InOf(coord_to_tun[n], actions[n], iroh_to_coord[n]),
              InOf(Tail(coord_to_tun[n]), actions[n], iroh_to_coord[n]))
    BY <2>0, <2>1, InTake
  <2>3. Moves(TunPipe(n), TunPipe(n)')
    BY <1>1, <2>1, <2>2, InStages, Zenon
  <2> QED
    BY <2>3 DEF InStep
<1> QED
  BY <1>2, <1>3

\* The manager sends an event.
LEMMA InEnvSends ==
    ASSUME CoordTypeOK, NEW m \in Local, EnvSends(m), NEW n \in Local
    PROVE  InStep(n)
<1>1. coord_to_tun'[n] = coord_to_tun[n] /\ actions'[n] = actions[n]
  BY DEF EnvSends
<1>2. CASE n # m
  <2>1. iroh_to_coord'[n] = iroh_to_coord[n]
    BY <1>2 DEF EnvSends, CoordTypeOK, WiringTypeOK
  <2> QED
    BY <1>1, <2>1, InSame
<1>3. CASE n = m
  <2>0. /\ coord_to_tun[n] \in Packets /\ actions[n] \in Seq(Action)
        /\ iroh_to_coord[n] \in Seq(IrohEvent)
    BY InStageTypes
  <2>1. PICK event \in EnvEvent : iroh_to_coord'[n] = Append(iroh_to_coord[n], event)
    BY <1>3 DEF EnvSends, CoordTypeOK, WiringTypeOK
  <2>2. event \in IrohEvent
    BY EnvEventAssumption
  <2>3. \/ InOf(coord_to_tun[n], actions[n], iroh_to_coord'[n])
             = InOf(coord_to_tun[n], actions[n], iroh_to_coord[n])
        \/ \E x \in Packet : Gains(InOf(coord_to_tun[n], actions[n], iroh_to_coord[n]),
                                   InOf(coord_to_tun[n], actions[n], iroh_to_coord'[n]), x)
    BY <2>0, <2>1, <2>2, InSend
  <2>4. /\ TunPipe(n) = InOf(coord_to_tun[n], actions[n], iroh_to_coord[n])
        /\ TunPipe(n)' = InOf(coord_to_tun[n], actions[n], iroh_to_coord'[n])
    BY <1>1, InStages
  <2> QED
    BY <2>3, <2>4 DEF InStep, Moves
<1> QED
  BY <1>2, <1>3

\* The process ends.
LEMMA InReset ==
    ASSUME CoordTypeOK, NEW m \in Local, running[m], running' = [running EXCEPT ![m] = FALSE],
           CoordReset(m), NEW n \in Local
    PROVE  InStep(n)
<1>1. CASE n # m
  <2>1. /\ coord_to_tun'[n] = coord_to_tun[n] /\ actions'[n] = actions[n]
        /\ iroh_to_coord'[n] = iroh_to_coord[n]
    BY <1>1 DEF CoordReset, CoordTypeOK, WiringTypeOK, CoreTypeOK
  <2> QED
    BY <2>1, InSame
<1>2. CASE n = m
  <2>1. /\ coord_to_tun'[n] = <<>> /\ actions'[n] = <<>> /\ iroh_to_coord'[n] = <<>>
        /\ running[n] /\ ~running'[n]
    BY <1>2 DEF CoordReset, CoordTypeOK, WiringTypeOK, CoreTypeOK
  <2>2. InOf(<<>>, <<>>, <<>>) = <<>>
    <3>1. PacketsOf(<<>>, WriteToTun) = <<>> /\ PacketsOf(<<>>, RecvPacketFrom) = <<>>
      BY PacketsOfNone
    <3>2. <<>> \o <<>> = <<>>
      BY NoPacket, JoinNothing
    <3> QED
      BY <3>1, <3>2, Zenon DEF InOf
  <2>3. TunPipe(n)' = <<>>
    BY <2>1, <2>2, InStages
  <2> QED
    BY <2>1, <2>3 DEF InStep
<1> QED
  BY <1>1, <1>2

\* Every step of the coordinator is a step of every way in.
LEMMA InNext ==
    ASSUME CoordTypeOK, [CoordNext]_coordVars, NEW n \in Local
    PROVE  InStep(n)
<1>1. ASSUME UNCHANGED <<coord_to_tun, actions, iroh_to_coord>>
      PROVE  InStep(n)
  BY <1>1, InSame
<1>2. ASSUME NEW m \in Local, CoordStep(m)
      PROVE  InStep(n)
  BY <1>2, InHandleIrohEvent, InHandlePacketFromTun, InHandleActions DEF CoordStep
<1>3. ASSUME NEW m \in Local, TunStep(m)
      PROVE  InStep(n)
  BY <1>1, <1>3, InTunWrite DEF TunStep, TunRead
<1>4. ASSUME NEW m \in Local, CoordEnv(m)
      PROVE  InStep(n)
  BY <1>1, <1>4, InReset, InEnvSends DEF CoordEnv, EnvTakes
<1> QED
  BY <1>1, <1>2, <1>3, <1>4 DEF CoordNext, coordVars

\* It is a step of the abstract pipe.
LEMMA InIsPipeStep ==
    ASSUME NEW n \in Local, TunPipe(n) \in Packets, InStep(n)
    PROVE  \/ TunPipe(n) = TunPipe(n)'
           \/ Inbound!Put(TunPipe(n), TunPipe(n)')
           \/ Inbound!TakeOrLose(TunPipe(n), TunPipe(n)')
           \/ running[n] /\ ~running'[n] /\ TunPipe(n)' = <<>>
<1> DEFINE s == TunPipe(n)
           t == TunPipe(n)'
<1>1. CASE Loses(s, t)
  <2>1. \E i \in DOMAIN s : t = SubSeq(s, 1, i - 1) \o SubSeq(s, i + 1, Len(s))
    BY <1>1, LosesIsLoss
  <2> QED
    BY <2>1 DEF Inbound!TakeOrLose, Inbound!Without
<1>2. ASSUME NEW x \in Packet, Gains(s, t, x)
      PROVE  Inbound!Put(s, t)
  <2> HIDE DEF s, t
  <2>1. s \in Packets
    BY DEF s
  <2>2. t = s \o <<x>>
    BY <1>2 DEF Gains
  <2>3. Len(t) = Len(s) + 1 /\ s = SubSeq(t, 1, Len(s))
    BY <2>1, <2>2, GainIsPut
  <2> QED
    BY <2>3 DEF Inbound!Put
<1> QED
  BY <1>1, <1>2 DEF InStep, Moves

\* InboundIsPipe for every configuration: the way in is a lossy FIFO pipe, too.
THEOREM InboundIsLossyPipe == CoordSpec => InboundIsPipe
<1>1. CoordInit => Inbound!PipeInit
  <2> SUFFICES ASSUME CoordInit
               PROVE  Inbound!PipeInit
    OBVIOUS
  <2>1. ASSUME NEW n \in Local
        PROVE  TunPipe(n) = <<>> /\ running[n] = FALSE
    <3>1. /\ coord_to_tun[n] = <<>> /\ actions[n] = <<>> /\ iroh_to_coord[n] = <<>>
          /\ running[n] = FALSE
      BY DEF CoordInit, WiringInit, CoreInit
    <3>2. PacketsOf(<<>>, WriteToTun) = <<>> /\ PacketsOf(<<>>, RecvPacketFrom) = <<>>
      BY PacketsOfNone
    <3>3. <<>> \o <<>> = <<>>
      BY NoPacket, JoinNothing
    <3> QED
      BY <3>1, <3>2, <3>3, Zenon DEF TunPipe
  <2>2. running = [n \in Local |-> FALSE]
    BY DEF CoordInit, WiringInit
  <2> QED
    BY <2>1, <2>2 DEF Inbound!PipeInit
<1>2. CoordInv /\ [CoordNext]_coordVars => [Inbound!PipeNext]_(Inbound!pipeVars)
  <2> SUFFICES ASSUME CoordInv, [CoordNext]_coordVars
               PROVE  Inbound!PipeNext
    OBVIOUS
  <2>0. CoordTypeOK
    BY DEF CoordInv
  <2>1. ASSUME NEW n \in Local
        PROVE  \/ TunPipe(n) = TunPipe(n)'
               \/ Inbound!Put(TunPipe(n), TunPipe(n)')
               \/ Inbound!TakeOrLose(TunPipe(n), TunPipe(n)')
               \/ running[n] /\ ~running'[n] /\ TunPipe(n)' = <<>>
    BY <2>0, TunPipeIsPackets, InNext, InIsPipeStep
  <2> QED
    BY <2>1 DEF Inbound!PipeNext, Inbound!Clear
<1> QED
  BY <1>1, <1>2, CoordinatorInvariant, PTL DEF CoordSpec, InboundIsPipe, Inbound!PipeSpec
=============================================================================
