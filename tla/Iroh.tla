-------------------------------- MODULE Iroh --------------------------------
(***************************************************************************)
(* iroh.rs: the connection manager of every node, the tasks it spawns and  *)
(* the QUIC connections between them.                                      *)
(*                                                                         *)
(* The manager is one actor per node.  A handler that awaits the channel   *)
(* to the coordinator is cut there: its first half leaves a value in       *)
(* `manager', its second half needs room in the channel.  Dial tasks       *)
(* (connect_to_peer), accept tasks and session tasks (on_peer_connected)   *)
(* are identified by the connection they work on.                          *)
(*                                                                         *)
(* Two facts about the libraries shape the model.  JoinHandle::abort is a  *)
(* request: a task that is being polled goes on until it yields, so an     *)
(* aborted task may still take steps before it is gone.  And a Connection  *)
(* is a shared handle: the connection is closed when its last handle is    *)
(* dropped, and dropping a JoinHandle leaves its task running.             *)
(*                                                                         *)
(* IrohSpec is the manager in an open environment: the coordinator may     *)
(* send any CoreAction at any time.                                        *)
(***************************************************************************)
EXTENDS Wiring

CONSTANTS
    ConnId,            \* bound: connections that exist at once per dialler and target
    EnvAction,         \* EnvAction[n]: the core actions the open environment may send to n
    MaxFaults,         \* bound: crashes, broken connections and failed handshakes
    CHANNEL_CAPACITY   \* capacity of rx_from_tasks and of a session's packet channel

ASSUME IrohAssumption ==
    /\ EnvAction \in [Local -> SUBSET CoreAction]
    /\ MaxFaults \in Nat
    /\ CHANNEL_CAPACITY \in Nat \ {0}

\* A connection, and the dial task that makes it.
Conn == {c \in [from : Node, to : Node, id : ConnId] :
            c.from # c.to /\ (c.from \in Local \/ c.to \in Local)}

remote_id(c, n) == IF c.from = n THEN c.to ELSE c.from

\* "Unknown" stands for a key that has no entry in the table.
ConnectionState ==
    [type : {"Unknown", "Disconnected", "WaitingIncomingConnection"}]
    \cup [type : {"Connecting", "Connected"}, conn : Conn]

\* Disconnected carries only a key in the code: the program cannot tell which
\* connection was lost, and nothing but properties reads conn of that event.
ConnectionEvent ==
    [type : {"OutgoingConnection", "IncomingConnection", "Disconnected"}, conn : Conn]

\* Where the manager is: in its select loop, or at the await of
\* init_ready_connection, of the Disconnected handler, of DisconnectFromPeer.
Manager ==
    [at : {"select"}] \cup [at : {"ready"}, conn : Conn]
    \cup [at : {"lost", "drop"}, peer : Node]

VARIABLES
    state_table,     \* state_table[n][p]
    manager,         \* manager[n]
    rx_from_tasks,   \* rx_from_tasks[n]: channel of ConnectionEvent
    dial,            \* dial[c]: the task connect_to_peer of c.from
    dial_abort,      \* the dial tasks that were told to abort
    accept,          \* accept[c]: the task of accept_connections of c.to
    ends,            \* ends[c][n]: the connection as n's endpoint has it
    session,         \* session[c][n]: the task on_peer_connected of n
    packet_channel,  \* packet_channel[c][n]: from the manager to that task
    datagrams,       \* datagrams[c][n]: on their way to n
    faults           \* faults so far

irohVars == <<running, iroh_to_coord, coord_to_iroh, state_table, manager, rx_from_tasks,
              dial, dial_abort, accept, ends, session, packet_channel, datagrams, faults>>

IrohTypeOK ==
    /\ WiringTypeOK
    /\ state_table \in [Local -> [Node -> ConnectionState]]
    /\ manager \in [Local -> Manager]
    /\ rx_from_tasks \in [Local -> Seq(ConnectionEvent)]
    /\ dial \in [Conn -> {"none", "connecting", "connected", "sleeping"}]
    /\ dial_abort \subseteq Conn
    /\ accept \in [Conn -> {"none", "running"}]
    /\ ends \in [Conn -> [Node -> {"none", "open", "closed"}]]
    /\ session \in [Conn -> [Node -> {"none", "running", "aborted"}]]
    /\ packet_channel \in [Conn -> [Node -> Seq(Packet)]]
    /\ datagrams \in [Conn -> [Node -> SUBSET Packet]]
    /\ faults \in 0..MaxFaults
    /\ \A n \in Local : Len(rx_from_tasks[n]) <= CHANNEL_CAPACITY
    /\ \A c \in Conn, n \in Node : Len(packet_channel[c][n]) <= CHANNEL_CAPACITY

IrohInit ==
    /\ WiringInit
    /\ state_table = [n \in Local |-> [p \in Node |-> [type |-> "Unknown"]]]
    /\ manager = [n \in Local |-> [at |-> "select"]]
    /\ rx_from_tasks = [n \in Local |-> <<>>]
    /\ dial = [c \in Conn |-> "none"]
    /\ dial_abort = {}
    /\ accept = [c \in Conn |-> "none"]
    /\ ends = [c \in Conn |-> [n \in Node |-> "none"]]
    /\ session = [c \in Conn |-> [n \in Node |-> "none"]]
    /\ packet_channel = [c \in Conn |-> [n \in Node |-> <<>>]]
    /\ datagrams = [c \in Conn |-> [n \in Node |-> {}]]
    /\ faults = 0

-----------------------------------------------------------------------------
\* Helpers.

IsConnected(n, p, c) == state_table[n][p] = [type |-> "Connected", conn |-> c]

\* An event about c is on its way to the manager of n.
Pending(n, type, c) == Has(rx_from_tasks[n], [type |-> type, conn |-> c])

\* Somebody at n has a handle of c.
Held(c, n) ==
    \/ dial[c] = "connected" /\ c.from = n
    \/ session[c][n] # "none"
    \/ Pending(n, "OutgoingConnection", c)
    \/ Pending(n, "IncomingConnection", c)
    \/ manager[n] = [at |-> "ready", conn |-> c]
    \/ IsConnected(n, remote_id(c, n), c)

\* The name of c can be used for a new connection: nothing of the old one is left.
Free(c) ==
    /\ dial[c] = "none"
    /\ accept[c] = "none"
    /\ \A n \in Node : ends[c][n] = "none"
    /\ \A n \in Local : ~Pending(n, "Disconnected", c)

\* Connection::close
Close(c, n) == ends' = [ends EXCEPT ![c][n] = IF @ = "open" THEN "closed" ELSE @]

\* JoinHandle::abort on a session task
Abort(c, n) == session' = [session EXCEPT ![c][n] = IF @ = "running" THEN "aborted" ELSE @]

\* Variant with a bug: the sender does not wait for room.
TellUnbounded(n, event) ==
    rx_from_tasks' = [rx_from_tasks EXCEPT ![n] = Append(@, event)]

\* tx_to_manager.send(..).await
Tell(n, event) ==
    /\ Len(rx_from_tasks[n]) < CHANNEL_CAPACITY
    /\ rx_from_tasks' = [rx_from_tasks EXCEPT ![n] = Append(@, event)]

\* tx_to_coord.send(..).await
Announce(n, type, p) ==
    /\ HasRoom(iroh_to_coord[n])
    /\ iroh_to_coord' = [iroh_to_coord EXCEPT ![n] = Append(@, [type |-> type, peer |-> p])]

\* Variant with a bug: the keys are compared the other way round.
init_new_connection_flipped(n, p) ==
    \/ /\ n > p
       /\ state_table' = [state_table EXCEPT ![n][p] = [type |-> "WaitingIncomingConnection"]]
       /\ UNCHANGED dial
    \/ /\ ~(n > p)
       /\ \E c \in Conn :
             /\ c.from = n /\ c.to = p /\ Free(c)
             /\ dial' = [dial EXCEPT ![c] = "connecting"]
             /\ state_table' = [state_table EXCEPT ![n][p] = [type |-> "Connecting", conn |-> c]]

\* Variant with a bug: both sides wait.
init_new_connection_waiting(n, p) ==
    /\ state_table' = [state_table EXCEPT ![n][p] = [type |-> "WaitingIncomingConnection"]]
    /\ UNCHANGED dial

\* The lower key waits, the higher key dials.
init_new_connection(n, p) ==
    \/ /\ n < p
       /\ state_table' = [state_table EXCEPT ![n][p] = [type |-> "WaitingIncomingConnection"]]
       /\ UNCHANGED dial
    \/ /\ ~(n < p)
       /\ \E c \in Conn :
             /\ c.from = n /\ c.to = p /\ Free(c)
             /\ dial' = [dial EXCEPT ![c] = "connecting"]
             /\ state_table' = [state_table EXCEPT ![n][p] = [type |-> "Connecting", conn |-> c]]

-----------------------------------------------------------------------------
\* The life of a process.

\* Iroh::new and init: every peer is awaited or dialled.
Start(n) ==
    /\ ~running[n]
    /\ running' = [running EXCEPT ![n] = TRUE]
    /\ \E slot \in [{p \in Peers(n) : ~(p > n)} -> Conn] :
          /\ \A p \in DOMAIN slot : slot[p].from = n /\ slot[p].to = p /\ Free(slot[p])
          /\ dial' = [c \in Conn |-> IF \E p \in DOMAIN slot : slot[p] = c
                                     THEN "connecting" ELSE dial[c]]
          /\ state_table' = [state_table EXCEPT ![n] =
                [p \in Node |->
                   IF p \notin Peers(n) THEN [type |-> "Unknown"]
                   ELSE IF p > n THEN [type |-> "WaitingIncomingConnection"]
                   ELSE [type |-> "Connecting", conn |-> slot[p]]]]
    /\ UNCHANGED <<iroh_to_coord, coord_to_iroh, manager, rx_from_tasks, dial_abort, accept,
                   ends, session, packet_channel, datagrams, faults>>

\* The process of n is gone, with its tasks and its handles.
IrohReset(n) ==
    /\ running[n]
    /\ faults < MaxFaults
    /\ faults' = faults + 1
    /\ running' = [running EXCEPT ![n] = FALSE]
    /\ state_table' = [state_table EXCEPT ![n] = [p \in Node |-> [type |-> "Unknown"]]]
    /\ manager' = [manager EXCEPT ![n] = [at |-> "select"]]
    /\ rx_from_tasks' = [rx_from_tasks EXCEPT ![n] = <<>>]
    /\ dial' = [c \in Conn |-> IF c.from = n THEN "none" ELSE dial[c]]
    /\ dial_abort' = {c \in dial_abort : c.from # n}
    /\ accept' = [c \in Conn |-> IF c.to = n THEN "none" ELSE accept[c]]
    /\ ends' = [c \in Conn |-> [ends[c] EXCEPT ![n] = "none"]]
    /\ session' = [c \in Conn |-> [session[c] EXCEPT ![n] = "none"]]
    /\ packet_channel' = [c \in Conn |-> [packet_channel[c] EXCEPT ![n] = <<>>]]
    /\ datagrams' = [c \in Conn |-> [datagrams[c] EXCEPT ![n] = {}]]

-----------------------------------------------------------------------------
\* The manager: handle_conn_event.

\* The manager of n takes the next event of its tasks.
TakeEvent(n) ==
    /\ manager[n].at = "select"
    /\ rx_from_tasks[n] # <<>>
    /\ rx_from_tasks' = [rx_from_tasks EXCEPT ![n] = Tail(@)]

\* Variant with a bug: a connection is taken in every state.
NewConnectionTrusting(n, type, expected) ==
    LET c  == Head(rx_from_tasks[n]).conn
    IN /\ TakeEvent(n)
       /\ Head(rx_from_tasks[n]).type = type
       /\ manager' = [manager EXCEPT ![n] = [at |-> "ready", conn |-> c]]
       /\ UNCHANGED <<running, iroh_to_coord, coord_to_iroh, state_table, dial, dial_abort,
                      accept, ends, session, packet_channel, datagrams, faults>>

\* Variant with a bug: a second connection is refused, after the first was given up.
NewConnectionRefusesLate(n, type, expected) ==
    LET c  == Head(rx_from_tasks[n]).conn
        st == state_table[n][remote_id(c, n)]
    IN /\ TakeEvent(n)
       /\ Head(rx_from_tasks[n]).type = type
       /\ \/ /\ st.type = expected
             /\ manager' = [manager EXCEPT ![n] = [at |-> "ready", conn |-> c]]
             /\ UNCHANGED session
          \/ /\ st.type = "Connected"
             /\ Abort(st.conn, n)
             /\ UNCHANGED manager
       /\ UNCHANGED <<running, iroh_to_coord, coord_to_iroh, state_table, dial, dial_abort,
                      accept, ends, packet_channel, datagrams, faults>>

\* A new connection is taken in the state that expects it, and in Connected,
\* where it replaces the old one; in any other state it is closed.
NewConnection(n, type, expected) ==
    LET c  == Head(rx_from_tasks[n]).conn
        st == state_table[n][remote_id(c, n)]
    IN /\ TakeEvent(n)
       /\ Head(rx_from_tasks[n]).type = type
       /\ \/ /\ st.type = expected
             /\ manager' = [manager EXCEPT ![n] = [at |-> "ready", conn |-> c]]
             /\ UNCHANGED <<ends, session>>
          \/ /\ st.type = "Connected"
             /\ Abort(st.conn, n)
             /\ Close(st.conn, n)
             /\ manager' = [manager EXCEPT ![n] = [at |-> "ready", conn |-> c]]
          \/ /\ st.type \notin {expected, "Connected"}
             /\ Close(c, n)
             /\ UNCHANGED <<manager, session>>
       /\ UNCHANGED <<running, iroh_to_coord, coord_to_iroh, state_table, dial, dial_abort,
                      accept, packet_channel, datagrams, faults>>

OutgoingConnection(n) == NewConnection(n, "OutgoingConnection", "Connecting")

IncomingConnection(n) == NewConnection(n, "IncomingConnection", "WaitingIncomingConnection")

\* A session reported its end: acted on in Connected, ignored elsewhere.
Disconnected(n) ==
    LET p == remote_id(Head(rx_from_tasks[n]).conn, n)
    IN /\ TakeEvent(n)
       /\ Head(rx_from_tasks[n]).type = "Disconnected"
       /\ manager' = [manager EXCEPT ![n] =
                        IF state_table[n][p].type = "Connected"
                        THEN [at |-> "lost", peer |-> p] ELSE @]
       /\ UNCHANGED <<running, iroh_to_coord, coord_to_iroh, state_table, dial, dial_abort,
                      accept, ends, session, packet_channel, datagrams, faults>>

\* init_ready_connection: announce, spawn the session, enter Connected.
init_ready_connection(n) ==
    /\ manager[n].at = "ready"
    /\ manager' = [manager EXCEPT ![n] = [at |-> "select"]]
    /\ LET c == manager[n].conn
           p == remote_id(c, n)
       IN /\ Announce(n, "ConnectedToPeer", p)
          /\ session' = [session EXCEPT ![c][n] = "running"]
          /\ state_table' = [state_table EXCEPT ![n][p] = [type |-> "Connected", conn |-> c]]
    /\ UNCHANGED <<running, coord_to_iroh, rx_from_tasks, dial, dial_abort, accept, ends,
                   packet_channel, datagrams, faults>>

\* Variant with a bug: the coordinator is not told.
ReconnectAfterLossSilent(n) ==
    /\ manager[n].at = "lost"
    /\ manager' = [manager EXCEPT ![n] = [at |-> "select"]]
    /\ init_new_connection(n, manager[n].peer)
    /\ UNCHANGED <<running, iroh_to_coord, coord_to_iroh, rx_from_tasks, dial_abort, accept,
                   ends, session, packet_channel, datagrams, faults>>

\* The rest of the Disconnected handler: announce, start over.
ReconnectAfterLoss(n) ==
    /\ manager[n].at = "lost"
    /\ manager' = [manager EXCEPT ![n] = [at |-> "select"]]
    /\ Announce(n, "DisconnectedFromPeer", manager[n].peer)
    /\ init_new_connection(n, manager[n].peer)
    /\ UNCHANGED <<running, coord_to_iroh, rx_from_tasks, dial_abort, accept, ends, session,
                   packet_channel, datagrams, faults>>

-----------------------------------------------------------------------------
\* The manager: handle_core_event.

TakeAction(n, type) ==
    /\ manager[n].at = "select"
    /\ coord_to_iroh[n] # <<>>
    /\ Head(coord_to_iroh[n]).type = type
    /\ coord_to_iroh' = [coord_to_iroh EXCEPT ![n] = Tail(@)]

\* try_send to the session of a connected peer; dropped in every other case:
\* no connection, a full channel, a session that has already returned.
SendPacketTo(n) ==
    /\ TakeAction(n, "SendPacketTo")
    /\ LET st == state_table[n][Head(coord_to_iroh[n]).peer]
           c  == st.conn
       IN IF /\ st.type = "Connected"
             /\ session[c][n] # "none"
             /\ Len(packet_channel[c][n]) < CHANNEL_CAPACITY
          THEN packet_channel' = [packet_channel EXCEPT ![c][n] =
                                    Append(@, Head(coord_to_iroh[n]).packet)]
          ELSE UNCHANGED packet_channel
    /\ UNCHANGED <<running, iroh_to_coord, state_table, manager, rx_from_tasks, dial,
                   dial_abort, accept, ends, session, datagrams, faults>>

ConnectToPeer(n) ==
    LET p == Head(coord_to_iroh[n]).peer
    IN /\ TakeAction(n, "ConnectToPeer")
       /\ \/ /\ state_table[n][p].type = "Disconnected"
             /\ init_new_connection(n, p)
          \/ /\ state_table[n][p].type # "Disconnected"
             /\ UNCHANGED <<state_table, dial>>
       /\ UNCHANGED <<running, iroh_to_coord, manager, rx_from_tasks, dial_abort, accept, ends,
                      session, packet_channel, datagrams, faults>>

\* Variant with a bug: a dial task is aborted and its entry stays.
DisconnectFromPeerStale(n) ==
    LET st == state_table[n][Head(coord_to_iroh[n]).peer]
    IN /\ TakeAction(n, "DisconnectFromPeer")
       /\ st.type = "Connecting"
       /\ dial_abort' = dial_abort \cup ({st.conn} \cap {c \in Conn : dial[c] # "none"})
       /\ UNCHANGED <<running, iroh_to_coord, state_table, manager, rx_from_tasks, dial, accept,
                      ends, session, packet_channel, datagrams, faults>>

\* Every state, and even an unknown key, ends up Disconnected.
DisconnectFromPeer(n) ==
    LET p  == Head(coord_to_iroh[n]).peer
        st == state_table[n][p]
    IN /\ TakeAction(n, "DisconnectFromPeer")
       /\ \/ /\ st.type = "Connected"
             /\ Abort(st.conn, n)
             /\ Close(st.conn, n)
             /\ manager' = [manager EXCEPT ![n] = [at |-> "drop", peer |-> p]]
             /\ UNCHANGED <<state_table, dial_abort>>
          \/ /\ st.type # "Connected"
             /\ dial_abort' = IF st.type = "Connecting"
                              THEN dial_abort \cup ({st.conn} \cap {c \in Conn : dial[c] # "none"})
                              ELSE dial_abort
             /\ state_table' = [state_table EXCEPT ![n][p] = [type |-> "Disconnected"]]
             /\ UNCHANGED <<ends, session, manager>>
       /\ UNCHANGED <<running, iroh_to_coord, rx_from_tasks, dial, accept, packet_channel,
                      datagrams, faults>>

\* The rest of DisconnectFromPeer for a connected peer.
DropConnected(n) ==
    /\ manager[n].at = "drop"
    /\ manager' = [manager EXCEPT ![n] = [at |-> "select"]]
    /\ Announce(n, "DisconnectedFromPeer", manager[n].peer)
    /\ state_table' = [state_table EXCEPT ![n][manager[n].peer] = [type |-> "Disconnected"]]
    /\ UNCHANGED <<running, coord_to_iroh, rx_from_tasks, dial, dial_abort, accept, ends,
                   session, packet_channel, datagrams, faults>>

ManagerStep(n) ==
    \/ OutgoingConnection(n) \/ IncomingConnection(n) \/ Disconnected(n)
    \/ init_ready_connection(n) \/ ReconnectAfterLoss(n)
    \/ SendPacketTo(n) \/ ConnectToPeer(n) \/ DisconnectFromPeer(n) \/ DropConnected(n)

-----------------------------------------------------------------------------
\* connect_to_peer and accept_connections.  The client end of a handshake is
\* done first; the server end follows, or fails.

managerVars == <<running, iroh_to_coord, coord_to_iroh, state_table, manager>>

\* endpoint.connect succeeds; the target's accept loop has spawned a task.
ConnectOk(c) ==
    /\ dial[c] = "connecting"
    /\ c.to \in Local => running[c.to]
    /\ dial' = [dial EXCEPT ![c] = "connected"]
    /\ accept' = [accept EXCEPT ![c] = "running"]
    /\ ends' = [ends EXCEPT ![c][c.from] = "open"]
    /\ UNCHANGED <<managerVars, rx_from_tasks, dial_abort, session, packet_channel, datagrams,
                   faults>>

\* Variant with a bug: the task gives up after a failure.
ConnectErrGivesUp(c) ==
    /\ dial[c] = "connecting"
    /\ dial' = [dial EXCEPT ![c] = "none"]
    /\ UNCHANGED <<managerVars, rx_from_tasks, dial_abort, accept, ends, session,
                   packet_channel, datagrams, faults>>

\* endpoint.connect fails, at any time and for any reason: sleep and retry.
ConnectErr(c) ==
    /\ dial[c] = "connecting"
    /\ dial' = [dial EXCEPT ![c] = "sleeping"]
    /\ UNCHANGED <<managerVars, rx_from_tasks, dial_abort, accept, ends, session,
                   packet_channel, datagrams, faults>>

ConnectRetry(c) ==
    /\ dial[c] = "sleeping"
    /\ dial' = [dial EXCEPT ![c] = "connecting"]
    /\ UNCHANGED <<managerVars, rx_from_tasks, dial_abort, accept, ends, session,
                   packet_channel, datagrams, faults>>

\* The dial task hands its connection to the manager and returns.
ConnectDone(c) ==
    /\ dial[c] = "connected"
    /\ Tell(c.from, [type |-> "OutgoingConnection", conn |-> c])
    /\ dial' = [dial EXCEPT ![c] = "none"]
    /\ dial_abort' = dial_abort \ {c}
    /\ UNCHANGED <<managerVars, accept, ends, session, packet_channel, datagrams, faults>>

\* An abort takes effect.
ConnectCancelled(c) ==
    /\ c \in dial_abort
    /\ dial' = [dial EXCEPT ![c] = "none"]
    /\ dial_abort' = dial_abort \ {c}
    /\ UNCHANGED <<managerVars, rx_from_tasks, accept, ends, session, packet_channel,
                   datagrams, faults>>

\* The server end of the handshake is done; whoever the client is, the manager is told.
AcceptOk(c) ==
    /\ accept[c] = "running"
    /\ accept' = [accept EXCEPT ![c] = "none"]
    /\ ends' = [ends EXCEPT ![c][c.to] = "open"]
    /\ IF c.to \in Local THEN Tell(c.to, [type |-> "IncomingConnection", conn |-> c])
                         ELSE UNCHANGED rx_from_tasks
    /\ UNCHANGED <<managerVars, dial, dial_abort, session, packet_channel, datagrams, faults>>

\* The server end fails because the client is gone, or by a fault.
AcceptErr(c) ==
    /\ accept[c] = "running"
    /\ accept' = [accept EXCEPT ![c] = "none"]
    /\ \/ ends[c][c.from] # "open" /\ UNCHANGED faults
       \/ ends[c][c.from] = "open" /\ faults < MaxFaults /\ faults' = faults + 1
    /\ UNCHANGED <<managerVars, rx_from_tasks, dial, dial_abort, ends, session,
                   packet_channel, datagrams>>

-----------------------------------------------------------------------------
\* on_peer_connected: the session task of c at n.

\* A datagram goes to the coordinator by try_send.
SessionRead(c, n) ==
    /\ session[c][n] # "none"
    /\ \E packet \in datagrams[c][n] :
          /\ datagrams' = [datagrams EXCEPT ![c][n] = @ \ {packet}]
          /\ iroh_to_coord' = [iroh_to_coord EXCEPT ![n] =
                TrySend(@, [type |-> "RecvPacketFrom", peer |-> remote_id(c, n),
                            packet |-> packet])]
    /\ UNCHANGED <<running, coord_to_iroh, state_table, manager, rx_from_tasks, dial,
                   dial_abort, accept, ends, session, packet_channel, faults>>

\* A packet of the manager goes to the network, which may lose it (as does
\* SendDatagramError::TooLarge).
SessionSend(c, n) ==
    /\ session[c][n] # "none"
    /\ ends[c][n] = "open"
    /\ packet_channel[c][n] # <<>>
    /\ packet_channel' = [packet_channel EXCEPT ![c][n] = Tail(@)]
    /\ \/ datagrams' = [datagrams EXCEPT ![c][remote_id(c, n)] =
                          @ \cup {Head(packet_channel[c][n])}]
       \/ UNCHANGED datagrams
    /\ UNCHANGED <<managerVars, rx_from_tasks, dial, dial_abort, accept, ends, session, faults>>

\* The task returns, and with it its end of the packet channel goes.
SessionEnds(c, n) ==
    /\ session' = [session EXCEPT ![c][n] = "none"]
    /\ packet_channel' = [packet_channel EXCEPT ![c][n] = <<>>]
    /\ UNCHANGED <<managerVars, dial, dial_abort, accept, ends, datagrams, faults>>

\* The connection fails the task: it is closed, or send_datagram refuses a packet
\* because the other end, which a foreign program may be, takes no datagrams.
ConnectionFails(c, n) ==
    \/ ends[c][n] = "closed"
    \/ remote_id(c, n) \notin Local /\ packet_channel[c][n] # <<>>

\* Variant with a bug: the task returns without telling the manager.
SessionErrSilent(c, n) ==
    /\ session[c][n] # "none"
    /\ ConnectionFails(c, n)
    /\ SessionEnds(c, n)
    /\ UNCHANGED rx_from_tasks

\* Reading or sending failed: the manager is told, and the task returns.
SessionErr(c, n) ==
    /\ session[c][n] # "none"
    /\ ConnectionFails(c, n)
    /\ Tell(n, [type |-> "Disconnected", conn |-> c])
    /\ SessionEnds(c, n)

\* Variant with a bug: the task goes on after recv() returned None.
SessionChannelClosedIgnored(c, n) == FALSE

\* The manager dropped its end of the packet channel, and it is drained.
SessionChannelClosed(c, n) ==
    /\ session[c][n] # "none"
    /\ ~IsConnected(n, remote_id(c, n), c)
    /\ packet_channel[c][n] = <<>>
    /\ SessionEnds(c, n)
    /\ UNCHANGED rx_from_tasks

SessionCancelled(c, n) ==
    /\ session[c][n] = "aborted"
    /\ SessionEnds(c, n)
    /\ UNCHANGED rx_from_tasks

-----------------------------------------------------------------------------
\* QUIC.

connOnlyVars == <<managerVars, rx_from_tasks, dial, dial_abort, accept, session, packet_channel>>

\* The other end of c is closed or gone.
PeerGone(c, n) == ends[c][remote_id(c, n)] # "open" /\ accept[c] = "none"

\* n finds the connection closed: by the other end, by its silence, or by a fault.
ConnectionLost(c, n) ==
    /\ ends[c][n] = "open"
    /\ ends' = [ends EXCEPT ![c][n] = "closed"]
    /\ \/ PeerGone(c, n) /\ UNCHANGED faults
       \/ ~PeerGone(c, n) /\ faults < MaxFaults /\ faults' = faults + 1
    /\ UNCHANGED <<connOnlyVars, datagrams>>

\* The last handle is dropped.  A foreign node drops its handles when it likes.
HandlesDropped(c, n) ==
    /\ ends[c][n] # "none"
    /\ n \in Local => ~Held(c, n)
    /\ ends' = [ends EXCEPT ![c][n] = "none"]
    /\ datagrams' = [datagrams EXCEPT ![c][n] = {}]
    /\ UNCHANGED <<connOnlyVars, faults>>

\* A foreign node dials, whatever the order of the keys.
ForeignConnect(c) ==
    /\ c.from \notin Local /\ c.to \in Local
    /\ running[c.to]
    /\ Free(c)
    /\ ends' = [ends EXCEPT ![c][c.from] = "open"]
    /\ accept' = [accept EXCEPT ![c] = "running"]
    /\ UNCHANGED <<managerVars, rx_from_tasks, dial, dial_abort, session, packet_channel,
                   datagrams, faults>>

\* A foreign node sends any packet.
ForeignSend(c, n) ==
    /\ n \notin Local
    /\ ends[c][n] = "open"
    /\ \E h \in Header :
          datagrams' = [datagrams EXCEPT ![c][remote_id(c, n)] =
                          @ \cup {[hdr |-> h, origin |-> n, seq |-> 0]}]
    /\ UNCHANGED <<connOnlyVars, ends, faults>>

TaskStep(c) ==
    \/ ConnectOk(c) \/ ConnectErr(c) \/ ConnectRetry(c) \/ ConnectDone(c) \/ ConnectCancelled(c)
    \/ AcceptOk(c) \/ AcceptErr(c)
    \/ \E n \in {c.from, c.to} :
          \/ n \in Local /\ (\/ SessionRead(c, n) \/ SessionSend(c, n) \/ SessionErr(c, n)
                             \/ SessionChannelClosed(c, n) \/ SessionCancelled(c, n))
          \/ ConnectionLost(c, n) \/ HandlesDropped(c, n) \/ ForeignSend(c, n)
    \/ ForeignConnect(c)

-----------------------------------------------------------------------------
\* The open environment: the coordinator and the process's life.

tasksAndConns == <<manager, rx_from_tasks, dial_abort, accept, ends, session, packet_channel,
                  datagrams, faults>>

IrohEnv(n) ==
    \/ Start(n)
    \/ /\ IrohReset(n)
       /\ iroh_to_coord' = [iroh_to_coord EXCEPT ![n] = <<>>]
       /\ coord_to_iroh' = [coord_to_iroh EXCEPT ![n] = <<>>]
    \/ /\ running[n]
       /\ HasRoom(coord_to_iroh[n])
       /\ \E action \in EnvAction[n] :
             coord_to_iroh' = [coord_to_iroh EXCEPT ![n] = Append(@, action)]
       /\ UNCHANGED <<running, iroh_to_coord, state_table, dial, tasksAndConns>>
    \/ /\ iroh_to_coord[n] # <<>>
       /\ iroh_to_coord' = [iroh_to_coord EXCEPT ![n] = Tail(@)]
       /\ UNCHANGED <<running, coord_to_iroh, state_table, dial, tasksAndConns>>

IrohNext ==
    \/ \E n \in Local : ManagerStep(n) \/ IrohEnv(n)
    \/ \E c \in Conn : TaskStep(c)

IrohSpec == IrohInit /\ [][IrohNext]_irohVars

-----------------------------------------------------------------------------
\* Properties.

(***************************************************************************)
(* The manager never waits for a task that is no longer there.  A peer in  *)
(* Connecting has its dial task, or that task's connection is on its way   *)
(* to the manager; a peer in Connected has a session that still runs, or   *)
(* the news of the session's end is on its way, or the manager is already  *)
(* acting on it.                                                           *)
(***************************************************************************)
NoZombie ==
    \A n \in Local, p \in Node :
        LET st == state_table[n][p]
        IN /\ st.type = "Connecting" =>
                \/ dial[st.conn] # "none" /\ st.conn \notin dial_abort
                \/ Pending(n, "OutgoingConnection", st.conn)
                \/ manager[n].at = "ready" /\ remote_id(manager[n].conn, n) = p
           /\ st.type = "Connected" =>
                \/ session[st.conn][n] = "running"
                \/ \E c \in Conn : Pending(n, "Disconnected", c) /\ remote_id(c, n) = p
                \/ manager[n].at = "ready" /\ remote_id(manager[n].conn, n) = p
                \/ manager[n].at \in {"lost", "drop"} /\ manager[n].peer = p

(***************************************************************************)
(* Between two nodes that both run this program only the higher key        *)
(* dials: connections never cross, and the branches of handle_conn_event   *)
(* that blame the peer for violating the key order are dead code.          *)
(***************************************************************************)
KeyOrder ==
    \A n \in Local, p \in Local :
        /\ state_table[n][p].type = "WaitingIncomingConnection" => n < p
        /\ state_table[n][p].type = "Connecting" => n > p
        /\ \A c \in Conn :
              /\ Pending(n, "OutgoingConnection", c) => n > remote_id(c, n)
              /\ Pending(n, "IncomingConnection", c) /\ remote_id(c, n) \in Local
                    => n < remote_id(c, n)
=============================================================================
