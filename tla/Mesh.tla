-------------------------------- MODULE Mesh --------------------------------
(***************************************************************************)
(* The whole network: on every node of Local the coordinator and the iroh  *)
(* manager run concurrently over the channels main.rs gives them, and the  *)
(* managers of different nodes meet through QUIC.                          *)
(***************************************************************************)
EXTENDS Iroh, Coordinator

meshVars == <<running, iroh_to_coord, coord_to_iroh,
              is_connected, packet_queue, actions, tun_to_coord, coord_to_tun, reads,
              state_table, manager, rx_from_tasks, dial, dial_abort, accept, ends, session,
              packet_channel, datagrams, faults>>

irohOnlyVars == <<state_table, manager, rx_from_tasks, dial, dial_abort, accept, ends, session,
                  packet_channel, datagrams, faults>>

coordOnlyVars == <<is_connected, packet_queue, actions, tun_to_coord, coord_to_tun, reads>>

MeshInit == CoordInit /\ IrohInit

\* The coordinator and the TUN workers of n.
NodeCoord(n) == (CoordStep(n) \/ TunStep(n)) /\ UNCHANGED irohOnlyVars

\* The manager of n, or the operator starting the process.
NodeIroh(n) == (ManagerStep(n) \/ Start(n)) /\ UNCHANGED coordOnlyVars

\* Variant with a bug: the core outlives the process.
CrashKeepsCore(n) ==
    /\ IrohReset(n)
    /\ iroh_to_coord' = [iroh_to_coord EXCEPT ![n] = <<>>]
    /\ coord_to_iroh' = [coord_to_iroh EXCEPT ![n] = <<>>]
    /\ UNCHANGED coordOnlyVars

\* The process of n ends, for whatever reason; its peers see silence.
Crash(n) == IrohReset(n) /\ CoordReset(n)

Network(c) == TaskStep(c) /\ UNCHANGED coordOnlyVars

MeshNext ==
    \/ \E n \in Local : NodeCoord(n) \/ NodeIroh(n) \/ Crash(n)
    \/ \E c \in Conn : Network(c)

MeshSpec == MeshInit /\ [][MeshNext]_meshVars

\* What the tasks and the endpoints of c do when nothing goes wrong.
ConnProgress(c) ==
    \/ ConnectRetry(c) \/ ConnectDone(c) \/ AcceptOk(c)
    \/ \E n \in {c.from, c.to} \cap Local :
          \/ ends[c][n] = "closed" /\ SessionErr(c, n)
          \/ SessionChannelClosed(c, n) \/ SessionCancelled(c, n)
          \/ PeerGone(c, n) /\ ConnectionLost(c, n)
          \/ HandlesDropped(c, n)

(***************************************************************************)
(* Fairness.  Tokio polls every task that is ready and its select! picks   *)
(* branches at random, a channel with room wakes its sender, QUIC notices  *)
(* a silent peer, the operator starts a stopped node: weak fairness.  An   *)
(* attempt to connect may fail whenever it is made; that it cannot fail    *)
(* for ever is strong fairness.  Only connections from a higher key to a   *)
(* lower one are ever made (KeyOrder), so only those need it.              *)
(***************************************************************************)
Fairness ==
    /\ \A n \in Local :
          /\ WF_meshVars(CoordStep(n) /\ UNCHANGED irohOnlyVars)
          /\ WF_meshVars(ManagerStep(n) /\ UNCHANGED coordOnlyVars)
          /\ WF_meshVars(Start(n) /\ UNCHANGED coordOnlyVars)
    /\ \A c \in {d \in Conn : d.from > d.to} :
          /\ SF_meshVars(ConnectOk(c) /\ UNCHANGED coordOnlyVars)
          /\ WF_meshVars(ConnProgress(c) /\ UNCHANGED coordOnlyVars)

FairMeshSpec == MeshSpec /\ Fairness

-----------------------------------------------------------------------------
\* Properties.

\* The event tells the coordinator whether p is connected.
IsNews(event, p) == event.peer = p /\ event.type # "RecvPacketFrom"

\* The places of the coordinator's channel that hold news of p.
News(n, p) == {i \in DOMAIN iroh_to_coord[n] : IsNews(iroh_to_coord[n][i], p)}

\* What the coordinator of n will believe of p once it has read its channel:
\* the last news, or what it believes now.
Announced(n, p) ==
    \/ News(n, p) = {} /\ is_connected[n][p]
    \/ \E last \in News(n, p) :
          /\ \A i \in News(n, p) : i <= last
          /\ iroh_to_coord[n][last].type = "ConnectedToPeer"

(***************************************************************************)
(* The core's view of a peer follows the manager's: after the status       *)
(* events still in the channel the core believes p connected exactly when  *)
(* the manager's table says Connected.  A replaced connection announces    *)
(* ConnectedToPeer twice and a lost one DisconnectedFromPeer once; were    *)
(* one missing the core would queue, or send into nothing, for ever.       *)
(***************************************************************************)
ViewAgreement ==
    \A n \in Local, p \in Node :
        Announced(n, p) <=> state_table[n][p].type = "Connected"

\* n and m talk over c, and everyone on both nodes knows.
LinkedBy(n, m, c) ==
    /\ IsConnected(n, m, c) /\ IsConnected(m, n, c)
    /\ ends[c][n] = "open" /\ ends[c][m] = "open"
    /\ session[c][n] = "running" /\ session[c][m] = "running"
    /\ is_connected[n][m] /\ is_connected[m][n]

Linked(n, m) == \E c \in Conn : LinkedBy(n, m, c)

Friends ==
    {f \in Local \X Local : f[1] < f[2] /\ f[2] \in Peers(f[1]) /\ f[1] \in Peers(f[2])}

\* Nothing is in flight: every task that is left waits for somebody else.
Quiet ==
    /\ \A n \in Local :
          /\ running[n] /\ manager[n].at = "select"
          /\ rx_from_tasks[n] = <<>> /\ iroh_to_coord[n] = <<>> /\ coord_to_iroh[n] = <<>>
          /\ actions[n] = <<>>
    /\ \A c \in Conn :
          /\ dial[c] = "none" /\ accept[c] = "none"
          /\ \A n \in {c.from, c.to} :
                ends[c][n] # "none" =>
                    ends[c][n] = "open" /\ ~PeerGone(c, n) /\ IsConnected(n, remote_id(c, n), c)

(***************************************************************************)
(* The only state two peers can come to rest in is the good one: if        *)
(* nothing is in flight they are connected to each other, over one and     *)
(* the same connection, and both cores know.  No race of dials, losses,    *)
(* crashes, replacements and stale events leaves one waiting for the       *)
(* other, or each on a connection of its own.                              *)
(***************************************************************************)
RestIsLinked == Quiet => \A f \in Friends : Linked(f[1], f[2])

(***************************************************************************)
(* A key that is not in the config gets nowhere: the accept task lets      *)
(* everyone in, but no stranger gets an entry in the table, a session, or  *)
(* an event to the coordinator.  It hinges on the core never asking for a  *)
(* disconnect: DisconnectFromPeer enters unknown keys into the table.      *)
(***************************************************************************)
Whitelist ==
    \A n \in Local : \A p \in Node \ Peers(n) :
        /\ state_table[n][p].type = "Unknown"
        /\ \A i \in DOMAIN iroh_to_coord[n] : iroh_to_coord[n][i].peer # p
        /\ \A c \in Conn : n \in {c.from, c.to} /\ remote_id(c, n) = p => session[c][n] = "none"

(***************************************************************************)
(* A packet that reaches the TUN device of n was produced by the node that *)
(* n's routing table names as owner of its source address, whatever        *)
(* packets other nodes, peers included, send.                              *)
(***************************************************************************)
Authentic ==
    \A n \in Local : \A i \in DOMAIN coord_to_tun[n] :
        LET packet == coord_to_tun[n][i]
        IN /\ packet.hdr.dest_ip = Ipv4Addr[n]
           /\ packet.hdr.src_ip \in DOMAIN RouteTable[n]
           /\ RouteTable[n][packet.hdr.src_ip] = packet.origin

\* The places of a channel that hold the packet, as it is or in a message.
Spots(place, channel, packet) ==
    {<<place, i>> : i \in {j \in DOMAIN channel :
        \/ channel[j] = packet
        \/ "packet" \in DOMAIN channel[j] /\ channel[j].packet = packet}}

\* In the channels and lists of n.
CopiesAt(n, packet) ==
    UNION {Spots(<<"tun_to_coord", n>>, tun_to_coord[n], packet),
           Spots(<<"actions", n>>, actions[n], packet),
           Spots(<<"coord_to_iroh", n>>, coord_to_iroh[n], packet),
           Spots(<<"iroh_to_coord", n>>, iroh_to_coord[n], packet),
           Spots(<<"coord_to_tun", n>>, coord_to_tun[n], packet)}

\* In a node's buffer for a peer, in the channel of a session, on the way between nodes.
QueueCopies(a, packet) == Spots(<<"packet_queue", a>>, packet_queue[a[1]][a[2]], packet)

ChannelCopies(a, packet) == Spots(<<"packet_channel", a>>, packet_channel[a[1]][a[2]], packet)

DatagramCopies(packet) ==
    {<<<<"datagrams", at>>, 1>> : at \in {a \in Conn \X Node : packet \in datagrams[a[1]][a[2]]}}

\* Everywhere the packet is.
Copies(packet) ==
    (UNION {CopiesAt(n, packet) : n \in Local})
    \cup (UNION {QueueCopies(a, packet) : a \in Local \X Node})
    \cup (UNION {ChannelCopies(a, packet) : a \in Conn \X Node})
    \cup DatagramCopies(packet)

(***************************************************************************)
(* A packet read from a TUN device is in one place at most, from there to  *)
(* the TUN device of its destination: flushing a queue, replacing a        *)
(* connection, a session that drains its channel after the manager forgot  *)
(* it, may lose a packet but never deliver it twice.                       *)
(***************************************************************************)
AtMostOnce ==
    \A packet \in Packet :
        packet.origin \in Local /\ packet.seq > 0 => Cardinality(Copies(packet)) <= 1

(***************************************************************************)
(* README.md, line 174: "the connection logic correctly resolves           *)
(* connection race conditions.  [...] the system consistently establishes  *)
(* a single, stable P2P tunnel per peer pair".  As a step: a tunnel        *)
(* that works, with both tables on the same open connection, is given up   *)
(* only by a fault.  Violated: a Disconnected event of the previous        *)
(* connection carries nothing but the peer's key, and handle_conn_event    *)
(* tears down the new connection for it.                                   *)
(***************************************************************************)
StableTunnel ==
    [][\A f \in Friends, c \in Conn :
          LinkedBy(f[1], f[2], c) /\ faults' = faults =>
             IsConnected(f[1], f[2], c)' /\ IsConnected(f[2], f[1], c)']_meshVars

(***************************************************************************)
(* However connections are lost and processes crash, as long as that       *)
(* stops, two peers are connected again and again.                         *)
(***************************************************************************)
LinkedAgain == \A f \in Friends : []<>Linked(f[1], f[2])

(***************************************************************************)
(* A session task that the manager no longer has in its table ends: the    *)
(* replaced, aborted or detached sessions do not pile up.                  *)
(***************************************************************************)
NoSessionLeak ==
    \A c \in Conn : \A n \in {c.from, c.to} \cap Local :
        (session[c][n] # "none" /\ ~IsConnected(n, remote_id(c, n), c))
            ~> session[c][n] = "none"
=============================================================================
