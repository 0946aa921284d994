----------------------------- MODULE MeshProofs -----------------------------
(***************************************************************************)
(* The mesh implements the open specifications of its parts, for any       *)
(* number of nodes, connections, packets and faults.  What CoordSpec and   *)
(* IrohSpec guarantee against any environment therefore holds of the parts *)
(* as main.rs wires them.                                                  *)
(*                                                                         *)
(* The open environments act on a running process only.  That the mesh     *)
(* obeys this needs an invariant of its own: nothing is left of a process  *)
(* that is down.                                                           *)
(***************************************************************************)
EXTENDS Mesh, CoordinatorProofs, IrohProofs

\* The environments of the open specifications are not restricted.
OpenEnvironments ==
    /\ EnvEvent = IrohEvent
    /\ \A n \in Local : EnvAction[n] = CoreAction

\* A process that is down has no tasks, no handshakes, nothing in its channels.
DownIsEmpty ==
    \A n \in Local : ~running[n] =>
        /\ manager[n].at = "select"
        /\ rx_from_tasks[n] = <<>>
        /\ coord_to_iroh[n] = <<>>
        /\ actions[n] = <<>>
        /\ \A c \in Conn : /\ dial[c] # "none" => c.from # n
                           /\ accept[c] = "running" => c.to # n
                           /\ session[c][n] = "none"

MeshInv == CoordInv /\ IrohInv /\ DownIsEmpty

-----------------------------------------------------------------------------
\* Nothing is left of a process that is down.

\* A step that only node n, which is up afterwards, takes part in.
LEMMA StepOfOne ==
    ASSUME DownIsEmpty, NEW n \in Local, running'[n],
           \A m \in Local \ {n} :
              /\ running'[m] = running[m]
              /\ manager'[m] = manager[m]
              /\ rx_from_tasks'[m] = rx_from_tasks[m]
              /\ coord_to_iroh'[m] = coord_to_iroh[m]
              /\ actions'[m] = actions[m]
              /\ \A c \in Conn : session'[c][m] = session[c][m],
           \A c \in Conn : /\ dial'[c] # "none" => dial[c] # "none" \/ c.from = n
                           /\ accept'[c] = "running" => accept[c] = "running" \/ c.to = n
    PROVE  DownIsEmpty'
BY DEF DownIsEmpty

\* A step that no process or task notices.
LEMMA StepOfNone ==
    ASSUME DownIsEmpty,
           UNCHANGED <<running, manager, rx_from_tasks, coord_to_iroh, actions>>,
           \A c \in Conn : /\ dial'[c] # "none" => dial[c] # "none"
                           /\ accept'[c] = "running" => accept[c] = "running"
                           /\ \A m \in Local : session[c][m] = "none" => session'[c][m] = "none"
    PROVE  DownIsEmpty'
BY DEF DownIsEmpty

\* The core writes only the actions of its own node.
LEMMA CoreIsLocal ==
    ASSUME CoordInv, NEW n \in Local,
           handle_iroh_event(n) \/ handle_packet_from_tun(n) \/ handle_actions(n)
    PROVE  /\ \A m \in Local \ {n} : /\ actions'[m] = actions[m]
                                     /\ coord_to_iroh'[m] = coord_to_iroh[m]
           /\ UNCHANGED running
<1>1. CASE handle_iroh_event(n)
  BY <1>1 DEF handle_iroh_event, process_iroh_event, on_peer_connected, on_peer_disconnected,
              recv_packet, Returns,
              coreVars, CoordInv, CoordTypeOK, CoreTypeOK
<1>2. CASE handle_packet_from_tun(n)
  BY <1>2 DEF handle_packet_from_tun, send_packet, Returns, coreVars, CoordInv, CoordTypeOK,
              CoreTypeOK
<1>3. CASE handle_actions(n)
  BY <1>3 DEF handle_actions, CoordInv, CoordTypeOK, CoreTypeOK, WiringTypeOK
<1> QED
  BY <1>1, <1>2, <1>3

\* A coordinator runs on a running node only.
LEMMA NodeCoordDown ==
    ASSUME MeshInv, NEW n \in Local, NodeCoord(n)
    PROVE  DownIsEmpty'
<1>1. UNCHANGED <<manager, rx_from_tasks, dial, accept, session>>
  BY DEF NodeCoord, irohOnlyVars
<1>2. CASE TunStep(n)
  <2>1. UNCHANGED <<running, coord_to_iroh, actions>>
    BY <1>2 DEF TunStep, TunRead, TunWrite
  <2> QED
    BY <1>1, <2>1, StepOfNone DEF MeshInv
<1>3. CASE CoordStep(n)
  <2>1. running[n]
    BY <1>3 DEF CoordStep, handle_iroh_event, process_iroh_event, handle_packet_from_tun,
                handle_actions, Idle,
                MeshInv, DownIsEmpty
  <2>2. /\ \A m \in Local \ {n} : /\ actions'[m] = actions[m]
                                  /\ coord_to_iroh'[m] = coord_to_iroh[m]
        /\ UNCHANGED running
    BY <1>3, CoreIsLocal DEF CoordStep, MeshInv
  <2> QED
    BY <1>1, <2>1, <2>2, StepOfOne DEF MeshInv
<1> QED
  BY <1>2, <1>3 DEF NodeCoord

\* The manager's steps are steps of a running process.
LEMMA ManagerRuns ==
    ASSUME DownIsEmpty, NEW n \in Local, ManagerStep(n)
    PROVE  running[n]
BY DEF DownIsEmpty, ManagerStep, OutgoingConnection, IncomingConnection, NewConnection,
       Disconnected, TakeEvent, init_ready_connection, ReconnectAfterLoss, SendPacketTo,
       ConnectToPeer, DisconnectFromPeer, TakeAction, DropConnected

\* A write to the sessions of n is no write to those of m.
LEMMA SessionIsLocal ==
    ASSUME IrohTypeOK, NEW c, NEW n, NEW v, session' = [session EXCEPT ![c][n] = v]
    PROVE  \A m \in Local \ {n} : \A d \in Conn : session'[d][m] = session[d][m]
BY NodeType DEF IrohTypeOK

\* A manager aborts its own sessions only.
LEMMA AbortIsLocal ==
    ASSUME IrohTypeOK, NEW c, NEW n, Abort(c, n)
    PROVE  \A m \in Local \ {n} : \A d \in Conn : session'[d][m] = session[d][m]
BY SessionIsLocal DEF Abort

\* They touch the manager's own node only.
ManagerIsLocalStep(n) ==
    /\ UNCHANGED <<running, accept>>
    /\ \A m \in Local \ {n} : /\ manager'[m] = manager[m]
                              /\ rx_from_tasks'[m] = rx_from_tasks[m]
                              /\ coord_to_iroh'[m] = coord_to_iroh[m]
                              /\ \A c \in Conn : session'[c][m] = session[c][m]
    /\ \A c \in Conn : dial'[c] # "none" => dial[c] # "none" \/ c.from = n

\* A manager touches nothing of another node but the network between them.
LEMMA ManagerIsLocal ==
    ASSUME IrohInv, NEW n \in Local, ManagerStep(n)
    PROVE  ManagerIsLocalStep(n)
<1> USE DEF IrohInv, IrohTypeOK, WiringTypeOK, ManagerIsLocalStep
<1>1. ASSUME NEW type, NEW expected, NewConnection(n, type, expected)
      PROVE  ManagerIsLocalStep(n)
  <2> DEFINE st == state_table[n][remote_id(Head(rx_from_tasks[n]).conn, n)]
  <2>1. UNCHANGED session \/ Abort(st.conn, n)
    BY <1>1 DEF NewConnection
  <2>2. \A m \in Local \ {n} : \A d \in Conn : session'[d][m] = session[d][m]
    BY <2>1, AbortIsLocal
  <2>3. \A m \in Local \ {n} : manager'[m] = manager[m]
    BY <1>1 DEF NewConnection
  <2>4. \A m \in Local \ {n} : rx_from_tasks'[m] = rx_from_tasks[m]
    BY <1>1 DEF NewConnection, TakeEvent
  <2>5. UNCHANGED <<running, accept, dial, coord_to_iroh>>
    BY <1>1 DEF NewConnection
  <2> QED
    BY <2>2, <2>3, <2>4, <2>5
<1>2. CASE Disconnected(n)
  BY <1>2 DEF Disconnected, TakeEvent
<1>3. CASE init_ready_connection(n)
  BY <1>3 DEF init_ready_connection
<1>4. CASE ReconnectAfterLoss(n)
  BY <1>4 DEF ReconnectAfterLoss, init_new_connection
<1>5. CASE SendPacketTo(n)
  BY <1>5 DEF SendPacketTo, TakeAction
<1>6. CASE ConnectToPeer(n)
  BY <1>6 DEF ConnectToPeer, TakeAction, init_new_connection
<1>7. CASE DisconnectFromPeer(n)
  <2>1. UNCHANGED session \/ Abort(state_table[n][Head(coord_to_iroh[n]).peer].conn, n)
    BY <1>7 DEF DisconnectFromPeer
  <2>2. \A m \in Local \ {n} : \A d \in Conn : session'[d][m] = session[d][m]
    BY <2>1, AbortIsLocal
  <2>3. \A m \in Local \ {n} : manager'[m] = manager[m]
    BY <1>7 DEF DisconnectFromPeer
  <2>4. \A m \in Local \ {n} : coord_to_iroh'[m] = coord_to_iroh[m]
    BY <1>7 DEF DisconnectFromPeer, TakeAction
  <2>5. UNCHANGED <<running, accept, dial, rx_from_tasks>>
    BY <1>7 DEF DisconnectFromPeer
  <2> QED
    BY <2>2, <2>3, <2>4, <2>5
<1>8. CASE DropConnected(n)
  BY <1>8 DEF DropConnected
<1> QED
  BY <1>1, <1>2, <1>3, <1>4, <1>5, <1>6, <1>7, <1>8
  DEF ManagerStep, OutgoingConnection, IncomingConnection

\* A manager runs on a running node only.
LEMMA NodeIrohDown ==
    ASSUME MeshInv, NEW n \in Local, NodeIroh(n)
    PROVE  DownIsEmpty'
<1>1. UNCHANGED actions
  BY DEF NodeIroh, coordOnlyVars
<1>2. CASE ManagerStep(n)
  <2>1. running[n]
    BY <1>2, ManagerRuns DEF MeshInv
  <2>2. ManagerIsLocalStep(n)
    BY <1>2, ManagerIsLocal DEF MeshInv
  <2> QED
    BY <1>1, <2>1, <2>2, StepOfOne DEF MeshInv, ManagerIsLocalStep
<1>3. CASE Start(n)
  <2>1. running'[n] /\ \A m \in Local \ {n} : running'[m] = running[m]
    BY <1>3 DEF Start, MeshInv, IrohInv, IrohTypeOK, WiringTypeOK
  <2>2. \A c \in Conn : dial'[c] # "none" => dial[c] # "none" \/ c.from = n
    BY <1>3 DEF Start
  <2>3. UNCHANGED <<manager, rx_from_tasks, coord_to_iroh, accept, session>>
    BY <1>3 DEF Start
  <2> QED
    BY <1>1, <2>1, <2>2, <2>3, StepOfOne DEF MeshInv
<1> QED
  BY <1>2, <1>3 DEF NodeIroh

\* A crash leaves nothing of the process.
LEMMA CrashDown ==
    ASSUME MeshInv, NEW n \in Local, Crash(n)
    PROVE  DownIsEmpty'
<1>1. n \in Node
  BY NodeType
<1>2. ASSUME NEW m \in Local, m # n
      PROVE  /\ running'[m] = running[m] /\ manager'[m] = manager[m]
             /\ rx_from_tasks'[m] = rx_from_tasks[m]
             /\ coord_to_iroh'[m] = coord_to_iroh[m] /\ actions'[m] = actions[m]
             /\ \A c \in Conn : session'[c][m] = session[c][m]
  BY <1>2, NodeType DEF Crash, IrohReset, CoordReset, MeshInv, CoordInv, CoordTypeOK,
     CoreTypeOK, WiringTypeOK, IrohInv, IrohTypeOK
<1>3. /\ manager'[n].at = "select" /\ rx_from_tasks'[n] = <<>>
      /\ coord_to_iroh'[n] = <<>> /\ actions'[n] = <<>>
      /\ \A c \in Conn : session'[c][n] = "none"
  BY <1>1 DEF Crash, IrohReset, CoordReset, MeshInv, CoordInv, CoordTypeOK, CoreTypeOK,
              WiringTypeOK, IrohInv, IrohTypeOK
<1>4. \A c \in Conn : /\ dial'[c] # "none" => dial[c] # "none" /\ c.from # n
                      /\ accept'[c] = "running" => accept[c] = "running" /\ c.to # n
  BY DEF Crash, IrohReset
<1> QED
  BY <1>2, <1>3, <1>4 DEF MeshInv, DownIsEmpty

\* Tasks and endpoints of a node that is down do nothing.
LEMMA NetworkDown ==
    ASSUME MeshInv, NEW c \in Conn, Network(c)
    PROVE  DownIsEmpty'
<1>1. UNCHANGED <<running, actions, manager, coord_to_iroh>>
  BY DEF Network, coordOnlyVars, TaskStep, ConnectOk, ConnectErr, ConnectRetry, ConnectDone,
         ConnectCancelled, AcceptOk, AcceptErr, SessionRead, SessionSend, SessionErr,
         SessionChannelClosed, SessionCancelled, SessionEnds, ConnectionLost, HandlesDropped,
         ForeignSend, ForeignConnect, connOnlyVars, managerVars
<1> USE <1>1 DEF MeshInv, IrohInv, IrohTypeOK
<1>2. CASE ConnectOk(c) \/ ForeignConnect(c)
  <2>1. UNCHANGED <<rx_from_tasks, session>> /\ (c.to \in Local => running[c.to])
        /\ \A d \in Conn : /\ dial'[d] # "none" => dial[d] # "none"
                           /\ accept'[d] = "running" => accept[d] = "running" \/ d = c
    BY <1>2 DEF ConnectOk, ForeignConnect
  <2> QED
    BY <2>1 DEF DownIsEmpty
<1>3. CASE ConnectErr(c) \/ ConnectRetry(c) \/ ConnectCancelled(c) \/ AcceptErr(c)
  <2>1. UNCHANGED <<rx_from_tasks, session>>
        /\ \A d \in Conn : /\ dial'[d] # "none" => dial[d] # "none"
                           /\ accept'[d] = "running" => accept[d] = "running"
    BY <1>3 DEF ConnectErr, ConnectRetry, ConnectCancelled, AcceptErr
  <2> QED
    BY <2>1, StepOfNone
<1>4. CASE ConnectDone(c)
  <2>1. c.from \in Local /\ running[c.from]
    BY <1>4 DEF ConnectDone, TasksOK, DownIsEmpty
  <2>2. /\ \A m \in Local \ {c.from} : rx_from_tasks'[m] = rx_from_tasks[m]
        /\ UNCHANGED <<session, accept>>
        /\ \A d \in Conn : dial'[d] # "none" => dial[d] # "none"
    BY <1>4 DEF ConnectDone, Tell
  <2> QED
    BY <2>1, <2>2, StepOfOne
<1>5. CASE AcceptOk(c)
  <2>1. UNCHANGED <<session, dial>>
        /\ \A d \in Conn : accept'[d] = "running" => accept[d] = "running"
    BY <1>5 DEF AcceptOk
  <2>2. CASE c.to \in Local
    <3>1. running[c.to]
      BY <1>5, <2>2 DEF AcceptOk, DownIsEmpty
    <3>2. \A m \in Local \ {c.to} : rx_from_tasks'[m] = rx_from_tasks[m]
      BY <1>5, <2>2 DEF AcceptOk, Tell
    <3> QED
      BY <2>1, <2>2, <3>1, <3>2, StepOfOne
  <2>3. CASE c.to \notin Local
    <3>1. UNCHANGED rx_from_tasks
      BY <1>5, <2>3 DEF AcceptOk
    <3> QED
      BY <2>1, <3>1, StepOfNone
  <2> QED
    BY <2>2, <2>3
<1>6. ASSUME NEW n \in {c.from, c.to},
             \/ SessionRead(c, n) \/ SessionSend(c, n)
             \/ ConnectionLost(c, n) \/ HandlesDropped(c, n) \/ ForeignSend(c, n)
      PROVE  DownIsEmpty'
  <2>1. UNCHANGED <<rx_from_tasks, session, dial, accept>>
    BY <1>6 DEF SessionRead, SessionSend, ConnectionLost, HandlesDropped, ForeignSend,
                connOnlyVars
  <2> QED
    BY <2>1, StepOfNone
<1>7. ASSUME NEW n \in Local,
             SessionErr(c, n) \/ SessionChannelClosed(c, n) \/ SessionCancelled(c, n)
      PROVE  DownIsEmpty'
  <2>1. running[n] /\ n \in Node
    BY <1>7, NodeType DEF SessionErr, SessionChannelClosed, SessionCancelled, DownIsEmpty
  <2>2. \A m \in Local \ {n} : rx_from_tasks'[m] = rx_from_tasks[m]
    BY <1>7 DEF SessionErr, SessionChannelClosed, SessionCancelled, Tell
  <2>3. SessionEnds(c, n)
    BY <1>7 DEF SessionErr, SessionChannelClosed, SessionCancelled
  <2>4. UNCHANGED <<dial, accept>> /\ session' = [session EXCEPT ![c][n] = "none"]
    BY <2>3 DEF SessionEnds
  <2>5. \A m \in Local \ {n} : \A d \in Conn : session'[d][m] = session[d][m]
    BY <2>4, SessionIsLocal
  <2> QED
    BY <2>1, <2>2, <2>4, <2>5, StepOfOne
<1> QED
  BY <1>2, <1>3, <1>4, <1>5, <1>6, <1>7 DEF Network, TaskStep

\* No step leaves anything of a process that is down.
LEMMA MeshStepDown ==
    ASSUME MeshInv, [MeshNext]_meshVars
    PROVE  DownIsEmpty'
<1>1. CASE UNCHANGED meshVars
  BY <1>1, StepOfNone DEF meshVars, MeshInv
<1> QED
  BY <1>1, NodeCoordDown, NodeIrohDown, CrashDown, NetworkDown DEF MeshNext

-----------------------------------------------------------------------------
\* Every step of the mesh is a step of each part.

\* A step of a coordinator is one of CoordSpec, and to IrohSpec one of its
\* environment.
LEMMA NodeCoordRefines ==
    ASSUME OpenEnvironments, MeshInv, NEW n \in Local, NodeCoord(n)
    PROVE  [CoordNext]_coordVars /\ [IrohNext]_irohVars
<1>1. CoordNext
  BY DEF NodeCoord, CoordNext
<1>2. UNCHANGED irohOnlyVars
  BY DEF NodeCoord
<1>3. CASE handle_iroh_event(n)
  <2>1. IrohEnv(n)
    BY <1>2, <1>3 DEF handle_iroh_event, process_iroh_event, irohOnlyVars, tasksAndConns, IrohEnv
  <2> QED
    BY <1>1, <2>1 DEF IrohNext
<1>4. CASE handle_packet_from_tun(n) \/ TunStep(n)
  BY <1>1, <1>2, <1>4 DEF handle_packet_from_tun, TunStep, TunRead, TunWrite, irohOnlyVars,
     irohVars
<1>5. CASE handle_actions(n)
  <2> DEFINE action == Head(actions[n])
  <2>1. running[n]
    BY <1>5 DEF handle_actions, MeshInv, DownIsEmpty
  <2>2. action \in Action
    BY <1>5, Receive DEF handle_actions, MeshInv, CoordInv, CoordTypeOK, CoreTypeOK
  <2>3. CASE UNCHANGED coord_to_iroh
    BY <1>1, <1>2, <1>5, <2>3 DEF handle_actions, irohOnlyVars, irohVars
  <2>4. CASE /\ action.type \in {"DisconnectFromPeer", "SendPacketTo"}
             /\ HasRoom(coord_to_iroh[n])
             /\ coord_to_iroh' = [coord_to_iroh EXCEPT ![n] = Append(@, action)]
    <3>1. action \in EnvAction[n]
      BY <2>2, <2>4 DEF Action, CoreAction, OpenEnvironments
    <3>2. IrohEnv(n)
      BY <1>2, <1>5, <2>1, <2>4, <3>1 DEF handle_actions, irohOnlyVars, tasksAndConns, IrohEnv
    <3> QED
      BY <1>1, <3>2 DEF IrohNext
  <2>5. coord_to_iroh \in [Local -> Seq(CoreAction)]
    BY DEF MeshInv, CoordInv, CoordTypeOK, WiringTypeOK
  <2>6. \/ UNCHANGED coord_to_iroh
        \/ /\ action.type \in {"DisconnectFromPeer", "SendPacketTo"}
           /\ HasRoom(coord_to_iroh[n])
           /\ coord_to_iroh' = [coord_to_iroh EXCEPT ![n] = Append(@, action)]
    BY <1>5, <2>5 DEF handle_actions, TrySend
  <2> QED
    BY <2>3, <2>4, <2>6
<1> QED
  BY <1>3, <1>4, <1>5 DEF NodeCoord, CoordStep

\* A status event goes to a coordinator that is up.
LEMMA AnnounceRefines ==
    ASSUME OpenEnvironments, MeshInv, NEW n \in Local, running[n], NEW p \in Node,
           NEW t \in {"ConnectedToPeer", "DisconnectedFromPeer"}, Announce(n, t, p),
           UNCHANGED <<running, coord_to_iroh, coordOnlyVars>>
    PROVE  CoordNext
<1>1. [type |-> t, peer |-> p] \in EnvEvent
  BY DEF OpenEnvironments, IrohEvent
<1>2. CoordEnv(n)
  BY <1>1 DEF Announce, CoordEnv, EnvSends, EnvTakes, coordOnlyVars
<1> QED
  BY <1>2 DEF CoordNext

\* A step of a manager is one of IrohSpec, and to CoordSpec one of its
\* environment.
LEMMA NodeIrohRefines ==
    ASSUME OpenEnvironments, MeshInv, NEW n \in Local, NodeIroh(n)
    PROVE  [CoordNext]_coordVars /\ [IrohNext]_irohVars
<1>1. IrohNext
  BY DEF NodeIroh, IrohNext, IrohEnv
<1>2. UNCHANGED coordOnlyVars
  BY DEF NodeIroh
<1>3. CASE Start(n)
  <2>1. CoordEnv(n)
    BY <1>2, <1>3 DEF Start, CoordEnv, EnvSends, EnvTakes, coordOnlyVars
  <2> QED
    BY <1>1, <2>1 DEF CoordNext
<1>4. CASE OutgoingConnection(n) \/ IncomingConnection(n) \/ Disconnected(n)
  BY <1>1, <1>2, <1>4 DEF OutgoingConnection, IncomingConnection, NewConnection, Disconnected,
     coordOnlyVars, coordVars
<1>5. CASE init_ready_connection(n) \/ ReconnectAfterLoss(n) \/ DropConnected(n)
  <2>1. running[n]
    BY <1>5, ManagerRuns DEF ManagerStep, MeshInv
  <2>2. UNCHANGED <<running, coord_to_iroh, coordOnlyVars>>
    BY <1>2, <1>5 DEF init_ready_connection, ReconnectAfterLoss, DropConnected
  <2>3. manager[n] \in Manager /\ n \in Node
    BY NodeType DEF MeshInv, IrohInv, IrohTypeOK
  <2>4. PICK p \in Node, t \in {"ConnectedToPeer", "DisconnectedFromPeer"} : Announce(n, t, p)
    <3>1. CASE init_ready_connection(n)
      <4>1. remote_id(manager[n].conn, n) \in Node
        BY <2>3, <3>1, ConnType DEF init_ready_connection, Manager
      <4> QED
        BY <3>1, <4>1 DEF init_ready_connection
    <3>2. CASE ReconnectAfterLoss(n) \/ DropConnected(n)
      <4>1. manager[n].peer \in Node
        BY <2>3, <3>2 DEF ReconnectAfterLoss, DropConnected, Manager
      <4> QED
        BY <3>2, <4>1 DEF ReconnectAfterLoss, DropConnected
    <3> QED
      BY <1>5, <3>1, <3>2
  <2> QED
    BY <1>1, <2>1, <2>2, <2>4, AnnounceRefines
<1>6. CASE SendPacketTo(n) \/ ConnectToPeer(n) \/ DisconnectFromPeer(n)
  <2>1. CoordEnv(n)
    BY <1>2, <1>6 DEF SendPacketTo, ConnectToPeer, DisconnectFromPeer, TakeAction, CoordEnv, EnvSends, EnvTakes,
       coordOnlyVars
  <2> QED
    BY <1>1, <2>1 DEF CoordNext
<1> QED
  BY <1>3, <1>4, <1>5, <1>6 DEF NodeIroh, ManagerStep

\* Both open specifications have crashes.
LEMMA CrashRefines ==
    ASSUME NEW n \in Local, Crash(n)
    PROVE  [CoordNext]_coordVars /\ [IrohNext]_irohVars
<1>1. IrohEnv(n)
  BY DEF Crash, CoordReset, IrohEnv
<1>2. CoordEnv(n)
  BY DEF Crash, IrohReset, CoordEnv, EnvSends, EnvTakes
<1> QED
  BY <1>1, <1>2 DEF CoordNext, IrohNext

\* A step of a task is one of IrohSpec; the packets and events it passes on
\* are the environment of CoordSpec.
LEMMA NetworkRefines ==
    ASSUME OpenEnvironments, MeshInv, NEW c \in Conn, Network(c)
    PROVE  [CoordNext]_coordVars /\ [IrohNext]_irohVars
<1>1. IrohNext
  BY DEF Network, IrohNext
<1>2. UNCHANGED coordOnlyVars
  BY DEF Network
<1>3. ASSUME NEW n \in Local, SessionRead(c, n)
      PROVE  [CoordNext]_coordVars
  <2>1. PICK packet \in datagrams[c][n] :
           iroh_to_coord' = [iroh_to_coord EXCEPT ![n] =
               TrySend(@, [type |-> "RecvPacketFrom", peer |-> remote_id(c, n),
                           packet |-> packet])]
    BY <1>3 DEF SessionRead
  <2> DEFINE e == [type |-> "RecvPacketFrom", peer |-> remote_id(c, n), packet |-> packet]
  <2>2. packet \in Packet /\ n \in Node /\ remote_id(c, n) \in Node
    BY <2>1, NodeType, ConnType DEF MeshInv, IrohInv, IrohTypeOK
  <2>3. e \in EnvEvent
    BY <2>2 DEF OpenEnvironments, IrohEvent
  <2>4. running[n] /\ UNCHANGED <<running, coord_to_iroh>>
    BY <1>3 DEF SessionRead, MeshInv, DownIsEmpty
  <2>5. CASE HasRoom(iroh_to_coord[n])
    <3>1. iroh_to_coord' = [iroh_to_coord EXCEPT ![n] = Append(@, e)]
      BY <2>1, <2>5 DEF TrySend
    <3>2. CoordEnv(n)
      BY <1>2, <2>3, <2>4, <2>5, <3>1 DEF CoordEnv, EnvSends, EnvTakes, coordOnlyVars
    <3> QED
      BY <3>2 DEF CoordNext
  <2>6. CASE ~HasRoom(iroh_to_coord[n])
    <3>1. UNCHANGED iroh_to_coord
      BY <2>1, <2>6 DEF TrySend, MeshInv, IrohInv, IrohTypeOK, WiringTypeOK
    <3> QED
      BY <1>2, <2>4, <3>1 DEF coordOnlyVars, coordVars
  <2> QED
    BY <2>5, <2>6
<1>4. \/ \E n \in Local : SessionRead(c, n)
      \/ UNCHANGED <<running, iroh_to_coord, coord_to_iroh>>
  BY DEF Network, TaskStep, ConnectOk, ConnectErr, ConnectRetry, ConnectDone,
         ConnectCancelled, AcceptOk, AcceptErr, SessionSend, SessionErr, SessionChannelClosed,
         SessionCancelled, SessionEnds, ConnectionLost, HandlesDropped, ForeignSend,
         ForeignConnect, connOnlyVars, managerVars
<1>5. CASE UNCHANGED <<running, iroh_to_coord, coord_to_iroh>>
  BY <1>1, <1>2, <1>5 DEF coordOnlyVars, coordVars
<1> QED
  BY <1>1, <1>3, <1>4, <1>5

\* Every step of the mesh is a step of both open specifications.
LEMMA MeshStepRefines ==
    ASSUME OpenEnvironments, MeshInv, [MeshNext]_meshVars
    PROVE  [CoordNext]_coordVars /\ [IrohNext]_irohVars
<1>1. CASE UNCHANGED meshVars
  BY <1>1 DEF meshVars, coordVars, irohVars
<1> QED
  BY <1>1, NodeCoordRefines, NodeIrohRefines, CrashRefines, NetworkRefines DEF MeshNext

\* At the start every process is down and empty.
LEMMA MeshStart == MeshInit => MeshInv
<1> SUFFICES ASSUME MeshInit
             PROVE  MeshInv
  OBVIOUS
<1>1. CoordInv
  BY CoordInitEstablishes DEF MeshInit
<1>2. IrohInv
  BY IrohStart DEF MeshInit
<1>3. DownIsEmpty
  BY NodeType DEF MeshInit, WiringInit, CoordInit, CoreInit, IrohInit, DownIsEmpty
<1> QED
  BY <1>1, <1>2, <1>3 DEF MeshInv

\* Every step of the mesh keeps the invariants of its parts.
LEMMA MeshStepKeeps ==
    ASSUME OpenEnvironments, MeshInv, [MeshNext]_meshVars
    PROVE  MeshInv'
<1>1. [CoordNext]_coordVars /\ [IrohNext]_irohVars
  BY MeshStepRefines
<1>2. CoordInv'
  BY <1>1, CoordNextKeeps DEF MeshInv
<1>3. IrohInv'
  BY <1>1, IrohStep DEF MeshInv
<1> QED
  BY <1>2, <1>3, MeshStepDown DEF MeshInv

-----------------------------------------------------------------------------
\* The invariants of both parts hold in the mesh, and nothing is left of a process
\* that is down: no message of a former life of main.rs reaches the next.
THEOREM MeshInvariant ==
    ASSUME OpenEnvironments
    PROVE  MeshSpec => []MeshInv
<1>1. MeshInv /\ [MeshNext]_meshVars => MeshInv'
  BY MeshStepKeeps
<1> QED
  BY <1>1, MeshStart, PTL DEF MeshSpec

\* The coordinator in the mesh is the coordinator of the open specification: the
\* real manager and its tasks do nothing CoordSpec does not expect.
THEOREM MeshImplementsCoordinator ==
    ASSUME OpenEnvironments
    PROVE  MeshSpec => CoordSpec
<1>1. MeshInit => CoordInit
  BY DEF MeshInit
<1>2. MeshInv /\ [MeshNext]_meshVars => [CoordNext]_coordVars
  BY MeshStepRefines
<1> QED
  BY <1>1, <1>2, MeshInvariant, PTL DEF MeshSpec, CoordSpec

\* The managers in the mesh are those of the open specification: the real
\* coordinators do nothing IrohSpec does not expect.
THEOREM MeshImplementsIroh ==
    ASSUME OpenEnvironments
    PROVE  MeshSpec => IrohSpec
<1>1. MeshInit => IrohInit
  BY DEF MeshInit
<1>2. MeshInv /\ [MeshNext]_meshVars => [IrohNext]_irohVars
  BY MeshStepRefines
<1> QED
  BY <1>1, <1>2, MeshInvariant, PTL DEF MeshSpec, IrohSpec

\* So in the mesh no manager waits for a task that is gone, only the higher key
\* of two nodes dials, and no packet is stranded in the buffer of a connected peer.
THEOREM MeshSafety ==
    ASSUME OpenEnvironments
    PROVE  MeshSpec => [](NoZombie /\ KeyOrder /\ BufferDiscipline)
BY MeshImplementsCoordinator, MeshImplementsIroh, CoordinatorBuffers,
   ManagerNeverWaitsForZombie, KeysDecideWhoDials, PTL
=============================================================================
