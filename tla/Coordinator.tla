---------------------------- MODULE Coordinator -----------------------------
(***************************************************************************)
(* coord.rs: the actor that owns the core, between the iroh manager and    *)
(* the TUN actor.  It takes one event, hands it to the core and carries    *)
(* out every action the core returns before it takes the next event; the   *)
(* other actors run between any two of those actions.                      *)
(*                                                                         *)
(* CoordSpec is the coordinator in an open environment: any event may      *)
(* come out of the iroh manager at any time.                               *)
(***************************************************************************)
EXTENDS VpnCore

CONSTANT EnvEvent   \* the events the open environment may send

ASSUME EnvEventAssumption == EnvEvent \subseteq IrohEvent

VARIABLES
    tun_to_coord,   \* tun_to_coord[n]: packets read from the TUN device
    coord_to_tun,   \* coord_to_tun[n]: packets to write to it
    reads           \* reads[n]: packets the TUN device of n produced so far

coordVars == <<running, iroh_to_coord, coord_to_iroh, is_connected, packet_queue,
               actions, tun_to_coord, coord_to_tun, reads>>

CoordTypeOK ==
    /\ WiringTypeOK
    /\ CoreTypeOK
    /\ tun_to_coord \in [Local -> Seq(Packet)]
    /\ coord_to_tun \in [Local -> Seq(Packet)]
    /\ reads \in [Local -> 0..MaxReads]
    /\ \A n \in Local : /\ Len(tun_to_coord[n]) <= INTERMOD_CHANNEL_CAPACITY
                       /\ Len(coord_to_tun[n]) <= INTERMOD_CHANNEL_CAPACITY

CoordInit ==
    /\ WiringInit
    /\ CoreInit
    /\ tun_to_coord = [n \in Local |-> <<>>]
    /\ coord_to_tun = [n \in Local |-> <<>>]
    /\ reads = [n \in Local |-> 0]

-----------------------------------------------------------------------------
\* run(): an event is taken only when the previous one is fully handled.
Idle(n) == running[n] /\ actions[n] = <<>>

\* map_iroh_event_to_core_event, and the match of process() on its result.
process_iroh_event(n, event) ==
    \/ event.type = "ConnectedToPeer" /\ on_peer_connected(n, event.peer)
    \/ event.type = "DisconnectedFromPeer" /\ on_peer_disconnected(n, event.peer)
    \/ event.type = "RecvPacketFrom" /\ recv_packet(n, event.packet, event.peer)

\* Variant with a bug: the rest of the channel is thrown away with the event.
handle_iroh_event_draining(n) ==
    /\ Idle(n)
    /\ iroh_to_coord[n] # <<>>
    /\ iroh_to_coord' = [iroh_to_coord EXCEPT ![n] = <<>>]
    /\ UNCHANGED <<running, coord_to_iroh, is_connected, packet_queue, actions,
                   tun_to_coord, coord_to_tun, reads>>

handle_iroh_event(n) ==
    /\ Idle(n)
    /\ iroh_to_coord[n] # <<>>
    /\ iroh_to_coord' = [iroh_to_coord EXCEPT ![n] = Tail(@)]
    /\ process_iroh_event(n, Head(iroh_to_coord[n]))
    /\ UNCHANGED <<running, coord_to_iroh, tun_to_coord, coord_to_tun, reads>>

handle_packet_from_tun(n) ==
    /\ Idle(n)
    /\ tun_to_coord[n] # <<>>
    /\ tun_to_coord' = [tun_to_coord EXCEPT ![n] = Tail(@)]
    /\ send_packet(n, Head(tun_to_coord[n]))
    /\ UNCHANGED <<running, iroh_to_coord, coord_to_iroh, coord_to_tun, reads>>

\* Variant with a bug: the actions are popped off the end of the list.
handle_actions_pop(n) ==
    /\ actions[n] # <<>>
    /\ actions' = [actions EXCEPT ![n] = SubSeq(@, 1, Len(@) - 1)]
    /\ LET action == actions[n][Len(actions[n])]
       IN \/ /\ action.type # "WriteToTun"
             /\ coord_to_iroh' = [coord_to_iroh EXCEPT ![n] = TrySend(@, action)]
             /\ UNCHANGED coord_to_tun
          \/ /\ action.type = "WriteToTun"
             /\ coord_to_tun' = [coord_to_tun EXCEPT ![n] = TrySend(@, action.packet)]
             /\ UNCHANGED coord_to_iroh
    /\ UNCHANGED <<running, iroh_to_coord, is_connected, packet_queue, tun_to_coord, reads>>

\* One turn of the loop over the actions.
handle_actions(n) ==
    /\ actions[n] # <<>>
    /\ actions' = [actions EXCEPT ![n] = Tail(@)]
    /\ LET action == Head(actions[n])
       IN \/ /\ action.type = "DisconnectFromPeer"   \* send().await
             /\ HasRoom(coord_to_iroh[n])
             /\ coord_to_iroh' = [coord_to_iroh EXCEPT ![n] = Append(@, action)]
             /\ UNCHANGED coord_to_tun
          \/ /\ action.type = "SendPacketTo"
             /\ coord_to_iroh' = [coord_to_iroh EXCEPT ![n] = TrySend(@, action)]
             /\ UNCHANGED coord_to_tun
          \/ /\ action.type = "WriteToTun"
             /\ coord_to_tun' = [coord_to_tun EXCEPT ![n] = TrySend(@, action.packet)]
             /\ UNCHANGED coord_to_iroh
    /\ UNCHANGED <<running, iroh_to_coord, is_connected, packet_queue, tun_to_coord, reads>>

-----------------------------------------------------------------------------
\* The TUN workers as the coordinator sees them.

\* Variant with a bug: the reader keeps what the full channel refuses.
TunReadUnbounded(n) ==
    /\ running[n]
    /\ reads[n] < MaxReads
    /\ reads' = [reads EXCEPT ![n] = @ + 1]
    /\ \E h \in Header :
          tun_to_coord' = [tun_to_coord EXCEPT ![n] =
                             Append(@, [hdr |-> h, origin |-> n, seq |-> reads[n] + 1])]
    /\ UNCHANGED <<running, iroh_to_coord, coord_to_iroh, is_connected, packet_queue,
                   actions, coord_to_tun>>

\* worker_tun_reader: a packet of the device is try_sent to the coordinator.
TunRead(n) ==
    /\ running[n]
    /\ reads[n] < MaxReads
    /\ reads' = [reads EXCEPT ![n] = @ + 1]
    /\ \E h \in Header :
          tun_to_coord' = [tun_to_coord EXCEPT ![n] =
                             TrySend(@, [hdr |-> h, origin |-> n, seq |-> reads[n] + 1])]
    /\ UNCHANGED <<running, iroh_to_coord, coord_to_iroh, is_connected, packet_queue,
                   actions, coord_to_tun>>

\* Variant with a bug: a packet the device does not take is queued again.
TunWriteRequeues(n) ==
    /\ coord_to_tun[n] # <<>>
    /\ \/ coord_to_tun' = [coord_to_tun EXCEPT ![n] = Tail(@)]
       \/ coord_to_tun' = [coord_to_tun EXCEPT ![n] = Append(Tail(@), Head(@))]
    /\ UNCHANGED <<running, iroh_to_coord, coord_to_iroh, is_connected, packet_queue,
                   actions, tun_to_coord, reads>>

\* worker_tun_writer: the next packet goes to the device.
TunWrite(n) ==
    /\ coord_to_tun[n] # <<>>
    /\ coord_to_tun' = [coord_to_tun EXCEPT ![n] = Tail(@)]
    /\ UNCHANGED <<running, iroh_to_coord, coord_to_iroh, is_connected, packet_queue,
                   actions, tun_to_coord, reads>>

CoordStep(n) == handle_iroh_event(n) \/ handle_packet_from_tun(n) \/ handle_actions(n)

TunStep(n) == TunRead(n) \/ TunWrite(n)

-----------------------------------------------------------------------------
\* The process of n ends (whatever the reason): the core and the channels go.
CoordReset(n) ==
    /\ iroh_to_coord' = [iroh_to_coord EXCEPT ![n] = <<>>]
    /\ coord_to_iroh' = [coord_to_iroh EXCEPT ![n] = <<>>]
    /\ is_connected' = [is_connected EXCEPT ![n] = [p \in Node |-> FALSE]]
    /\ packet_queue' = [packet_queue EXCEPT ![n] = [p \in Node |-> <<>>]]
    /\ actions' = [actions EXCEPT ![n] = <<>>]
    /\ tun_to_coord' = [tun_to_coord EXCEPT ![n] = <<>>]
    /\ coord_to_tun' = [coord_to_tun EXCEPT ![n] = <<>>]
    /\ UNCHANGED reads

\* The iroh manager, as an open environment: any event at any time, and it
\* takes what it is sent.
EnvSends(n) ==
    /\ running[n]
    /\ HasRoom(iroh_to_coord[n])
    /\ \E event \in EnvEvent :
          iroh_to_coord' = [iroh_to_coord EXCEPT ![n] = Append(@, event)]
    /\ UNCHANGED <<running, coord_to_iroh, is_connected, packet_queue, actions,
                   tun_to_coord, coord_to_tun, reads>>

EnvTakes(n) ==
    /\ coord_to_iroh[n] # <<>>
    /\ coord_to_iroh' = [coord_to_iroh EXCEPT ![n] = Tail(@)]
    /\ UNCHANGED <<running, iroh_to_coord, is_connected, packet_queue, actions,
                   tun_to_coord, coord_to_tun, reads>>

\* The open environment: the process's life and the iroh manager.
CoordEnv(n) ==
    \/ /\ ~running[n]
       /\ running' = [running EXCEPT ![n] = TRUE]
       /\ UNCHANGED <<iroh_to_coord, coord_to_iroh, is_connected, packet_queue, actions,
                      tun_to_coord, coord_to_tun, reads>>
    \/ /\ running[n]
       /\ running' = [running EXCEPT ![n] = FALSE]
       /\ CoordReset(n)
    \/ EnvSends(n)
    \/ EnvTakes(n)

CoordNext == \E n \in Local : CoordStep(n) \/ TunStep(n) \/ CoordEnv(n)

CoordSpec == CoordInit /\ [][CoordNext]_coordVars

-----------------------------------------------------------------------------
\* Properties.

(***************************************************************************)
(* send_packet queues a packet only while its peer is down, and            *)
(* on_peer_connected drains the queue: no packet is left behind in the     *)
(* queue of a peer that is up, where nothing would ever flush it, and the  *)
(* queue never outgrows MAX_PACKETS_IN_QUEUE however long a peer is away.  *)
(***************************************************************************)
BufferDiscipline ==
    \A n \in Local, p \in Node :
        /\ is_connected[n][p] => packet_queue[n][p] = <<>>
        /\ Len(packet_queue[n][p]) <= MAX_PACKETS_IN_QUEUE

\* The packets of the first i messages that are in Carrier, in their order.
PacketsUpTo(messages, Carrier) ==
    LET upto[i \in 0..Len(messages)] ==
            IF i = 0 THEN <<>>
            ELSE IF messages[i] \in Carrier THEN Append(upto[i - 1], messages[i].packet)
            ELSE upto[i - 1]
    IN upto

PacketsOf(messages, Carrier) == PacketsUpTo(messages, Carrier)[Len(messages)]

\* The messages that carry a packet: to p, to the TUN device, from the network.
SendTo(p) == [type : {"SendPacketTo"}, peer : {p}, packet : Packet]

WriteToTun == [type : {"WriteToTun"}, packet : Packet]

RecvPacketFrom == [type : {"RecvPacketFrom"}, peer : Node, packet : Packet]

\* The packets for p on their way through n, the one furthest ahead first.
Pipe(n, p) ==
    PacketsOf(coord_to_iroh[n], SendTo(p)) \o PacketsOf(actions[n], SendTo(p))
    \o packet_queue[n][p] \o tun_to_coord[n]

\* The packets on their way to the TUN device of n, the one furthest ahead first.
TunPipe(n) ==
    coord_to_tun[n] \o PacketsOf(actions[n], WriteToTun)
    \o PacketsOf(iroh_to_coord[n], RecvPacketFrom)

(***************************************************************************)
(* Between the TUN reader and the iroh manager packets for one peer never  *)
(* overtake each other and are never duplicated, whatever mixture of       *)
(* buffering, overflow, reconnection, flush and full channels they meet.   *)
(***************************************************************************)
OrderedPipe ==
    \A n \in Local, p \in Node :
        LET packets == Pipe(n, p)
        IN \A i, j \in DOMAIN packets : i < j => packets[i].seq < packets[j].seq

Outbound == INSTANCE LossyPipe
                WITH Lane <- Local \X Node,
                     pipe <- [l \in Local \X Node |-> Pipe(l[1], l[2])],
                     up <- [l \in Local \X Node |-> running[l[1]]]

Inbound == INSTANCE LossyPipe
                WITH Lane <- Local,
                     pipe <- [n \in Local |-> TunPipe(n)],
                     up <- running

(***************************************************************************)
(* What a node promises its own traffic: the way from the TUN reader       *)
(* through channel, buffer, action list and channel to the iroh manager    *)
(* is, for every peer, one lossy FIFO pipe.  However a peer comes and goes *)
(* in the middle of it, a step loses at most one packet (only the end of   *)
(* the process loses more), and flushing a buffer is no visible step.      *)
(***************************************************************************)
OutboundIsPipe == Outbound!PipeSpec

(***************************************************************************)
(* The same of the way in: from the manager's RecvPacketFrom through the   *)
(* core's checks to the TUN writer, for all peers together.                *)
(***************************************************************************)
InboundIsPipe == Inbound!PipeSpec
=============================================================================
