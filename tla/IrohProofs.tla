----------------------------- MODULE IrohProofs -----------------------------
(***************************************************************************)
(* The connection managers, for any number of nodes, connections and       *)
(* faults, against any coordinator and any foreign node.                   *)
(*                                                                         *)
(* NoZombie and KeyOrder are not inductive by themselves.  The invariant   *)
(* adds who may dial whom, in the tasks, in the handshakes and in the      *)
(* events under way, and which entry of the table a connection belongs to. *)
(***************************************************************************)
EXTENDS Iroh, ChannelLemmas

\* Dial tasks follow the order of the keys, and so do the handshakes they start.
TasksOK ==
    \A c \in Conn :
        /\ dial[c] # "none" => c.from \in Local /\ c.from > c.to
        /\ accept[c] = "running" /\ c.from \in Local => c.from > c.to
        /\ c \in dial_abort => dial[c] # "none"

\* So do the connections on their way to a manager.
EventsOK ==
    \A n \in Local, c \in Conn :
        /\ Pending(n, "OutgoingConnection", c) => c.from = n /\ n > c.to
        /\ Pending(n, "IncomingConnection", c) => c.to = n /\ (c.from \in Local => c.from > n)

\* A connection stands in the entry of its own peer; an aborted dial in none.
TableOK ==
    \A n \in Local, p \in Node :
        LET st == state_table[n][p]
        IN /\ st.type = "WaitingIncomingConnection" => n < p
           /\ st.type = "Connecting" =>
                 st.conn.from = n /\ st.conn.to = p /\ n > p /\ st.conn \notin dial_abort
           /\ st.type = "Connected" => remote_id(st.conn, n) = p

IrohInv == IrohTypeOK /\ TasksOK /\ EventsOK /\ TableOK /\ NoZombie

-----------------------------------------------------------------------------
\* Helpers.

\* Nodes are numbers, so keys can be compared.
LEMMA ConnType ==
    ASSUME NEW c \in Conn
    PROVE  /\ c.from \in Node /\ c.to \in Node /\ c.from # c.to
           /\ c.from \in Nat /\ c.to \in Nat
           /\ \A n \in Node : remote_id(c, n) \in Node
           /\ remote_id(c, c.from) = c.to /\ remote_id(c, c.to) = c.from
<1>1. c.from \in Node /\ c.to \in Node /\ c.from # c.to
  BY DEF Conn
<1>2. c.from \in Nat /\ c.to \in Nat
  BY <1>1, WiringAssumption
<1> QED
  BY <1>1, <1>2 DEF remote_id

\* Nodes are keys, and keys are numbers.
LEMMA NodeType == Local \subseteq Node /\ Node \subseteq Nat
BY WiringAssumption

\* Telling the manager adds the event and nothing else.
LEMMA TellAdds ==
    ASSUME IrohTypeOK, NEW n \in Local, NEW e \in ConnectionEvent, Tell(n, e)
    PROVE  /\ rx_from_tasks' \in [Local -> Seq(ConnectionEvent)]
           /\ \A m \in Local : Len(rx_from_tasks'[m]) <= CHANNEL_CAPACITY
           /\ \A m \in Local : \A t, c :
                 Pending(m, t, c)' <=> Pending(m, t, c) \/ (m = n /\ e = [type |-> t, conn |-> c])
<1>1. rx_from_tasks[n] \in Seq(ConnectionEvent)
  BY DEF IrohTypeOK
<1>2. /\ Append(rx_from_tasks[n], e) \in Seq(ConnectionEvent)
      /\ Len(rx_from_tasks[n]) \in Nat
      /\ Len(Append(rx_from_tasks[n], e)) = Len(rx_from_tasks[n]) + 1
  BY <1>1, Put
<1>3. Len(Append(rx_from_tasks[n], e)) <= CHANNEL_CAPACITY
  BY <1>2, IrohAssumption DEF Tell
<1>4. ASSUME NEW m \in Local, NEW t, NEW c
      PROVE  Pending(m, t, c)' <=> Pending(m, t, c) \/ (m = n /\ e = [type |-> t, conn |-> c])
  <2>1. Has(Append(rx_from_tasks[n], e), [type |-> t, conn |-> c])
           <=> Has(rx_from_tasks[n], [type |-> t, conn |-> c]) \/ e = [type |-> t, conn |-> c]
    BY <1>1, HasAfterPut
  <2>2. rx_from_tasks'[m] = IF m = n THEN Append(rx_from_tasks[n], e) ELSE rx_from_tasks[m]
    BY DEF Tell, IrohTypeOK
  <2> QED
    BY <2>1, <2>2 DEF Pending
<1> QED
  BY <1>2, <1>3, <1>4 DEF Tell, IrohTypeOK

\* Taking an event removes that event and nothing else.
LEMMA TakeRemoves ==
    ASSUME IrohTypeOK, NEW n \in Local, TakeEvent(n)
    PROVE  /\ rx_from_tasks' \in [Local -> Seq(ConnectionEvent)]
           /\ \A m \in Local : Len(rx_from_tasks'[m]) <= CHANNEL_CAPACITY
           /\ Head(rx_from_tasks[n]) \in ConnectionEvent
           /\ Head(rx_from_tasks[n]).conn \in Conn
           /\ Pending(n, Head(rx_from_tasks[n]).type, Head(rx_from_tasks[n]).conn)
           /\ \A m \in Local : \A t, c :
                 /\ Pending(m, t, c)' => Pending(m, t, c)
                 /\ Pending(m, t, c) => \/ Pending(m, t, c)'
                                        \/ /\ m = n
                                           /\ t = Head(rx_from_tasks[n]).type
                                           /\ c = Head(rx_from_tasks[n]).conn
<1> DEFINE s == rx_from_tasks[n]
<1>1. s \in Seq(ConnectionEvent) /\ s # <<>> /\ Len(s) <= CHANNEL_CAPACITY
  BY DEF IrohTypeOK, TakeEvent
<1>2. /\ Head(s) \in ConnectionEvent /\ Tail(s) \in Seq(ConnectionEvent)
      /\ Len(s) \in Nat /\ Len(Tail(s)) \in Nat /\ Len(Tail(s)) <= Len(s)
  BY <1>1, Receive
<1>3. Len(Tail(s)) <= CHANNEL_CAPACITY
  BY <1>1, <1>2, IrohAssumption
<1>4. Head(s).conn \in Conn /\ Head(s) = [type |-> Head(s).type, conn |-> Head(s).conn]
  BY <1>2 DEF ConnectionEvent
<1>5. Pending(n, Head(s).type, Head(s).conn)
  BY <1>1, <1>4, HasAfterReceive DEF Pending
<1>6. ASSUME NEW m \in Local, NEW t, NEW c
      PROVE  /\ Pending(m, t, c)' => Pending(m, t, c)
             /\ Pending(m, t, c) => \/ Pending(m, t, c)'
                                    \/ m = n /\ t = Head(s).type /\ c = Head(s).conn
  <2> DEFINE x == [type |-> t, conn |-> c]
  <2>1. /\ Has(Tail(s), x) => Has(s, x)
        /\ Has(s, x) => Has(Tail(s), x) \/ x = Head(s)
    BY <1>1, HasAfterReceive
  <2>2. x.type = t /\ x.conn = c
    OBVIOUS
  <2>3. rx_from_tasks'[m] = IF m = n THEN Tail(s) ELSE rx_from_tasks[m]
    BY DEF TakeEvent, IrohTypeOK
  <2> QED
    BY <2>1, <2>2, <2>3 DEF Pending
<1>7. /\ rx_from_tasks' \in [Local -> Seq(ConnectionEvent)]
      /\ \A m \in Local : Len(rx_from_tasks'[m]) <= CHANNEL_CAPACITY
  BY <1>2, <1>3 DEF TakeEvent, IrohTypeOK
<1> QED
  BY <1>2, <1>4, <1>5, <1>6, <1>7

\* If no event moves, what is pending stays.
LEMMA SamePending ==
    ASSUME UNCHANGED rx_from_tasks
    PROVE  \A m, t, c : Pending(m, t, c)' <=> Pending(m, t, c)
BY DEF Pending

\* Telling the coordinator keeps the channel's type and capacity.
LEMMA AnnounceKeeps ==
    ASSUME WiringTypeOK, NEW n \in Local, NEW p \in Node,
           NEW t \in {"ConnectedToPeer", "DisconnectedFromPeer"}, Announce(n, t, p),
           UNCHANGED <<running, coord_to_iroh>>
    PROVE  WiringTypeOK'
<1>1. iroh_to_coord[n] \in Seq(IrohEvent) /\ [type |-> t, peer |-> p] \in IrohEvent
  BY DEF WiringTypeOK, IrohEvent
<1>2. /\ Append(iroh_to_coord[n], [type |-> t, peer |-> p]) \in Seq(IrohEvent)
      /\ Len(Append(iroh_to_coord[n], [type |-> t, peer |-> p])) <= INTERMOD_CHANNEL_CAPACITY
  BY <1>1, PutInRoom DEF Announce
<1> QED
  BY <1>2 DEF Announce, WiringTypeOK

\* Taking an action of the coordinator.
LEMMA TakeActionKeeps ==
    ASSUME WiringTypeOK, NEW n \in Local, NEW t, TakeAction(n, t),
           UNCHANGED <<running, iroh_to_coord>>
    PROVE  /\ WiringTypeOK'
           /\ Head(coord_to_iroh[n]) \in CoreAction
           /\ Head(coord_to_iroh[n]).peer \in Node
<1>1. coord_to_iroh[n] \in Seq(CoreAction) /\ coord_to_iroh[n] # <<>>
      /\ Len(coord_to_iroh[n]) <= INTERMOD_CHANNEL_CAPACITY
  BY DEF WiringTypeOK, TakeAction
<1>2. /\ Head(coord_to_iroh[n]) \in CoreAction
      /\ Tail(coord_to_iroh[n]) \in Seq(CoreAction)
      /\ Len(Tail(coord_to_iroh[n])) <= Len(coord_to_iroh[n])
      /\ Len(coord_to_iroh[n]) \in Nat /\ Len(Tail(coord_to_iroh[n])) \in Nat
  BY <1>1, Receive
<1>3. Len(Tail(coord_to_iroh[n])) <= INTERMOD_CHANNEL_CAPACITY
  BY <1>1, <1>2, WiringAssumption
<1>4. Head(coord_to_iroh[n]).peer \in Node
  BY <1>2 DEF CoreAction
<1> QED
  BY <1>2, <1>3, <1>4 DEF TakeAction, WiringTypeOK

\* The shape of an entry that has a connection.
LEMMA EntryShape ==
    ASSUME IrohTypeOK, NEW n \in Local, NEW p \in Node
    PROVE  /\ state_table[n][p].type \in {"Connecting", "Connected"} =>
                 state_table[n][p].conn \in Conn
           /\ state_table[n][p].type = "Connected" => IsConnected(n, p, state_table[n][p].conn)
<1>1. state_table[n][p] \in ConnectionState
  BY DEF IrohTypeOK
<1> QED
  BY <1>1 DEF ConnectionState, IsConnected

\* The end of a session keeps the types.
LEMMA SessionEndsTypes ==
    ASSUME IrohTypeOK, NEW c \in Conn, NEW n \in Local, SessionEnds(c, n),
           rx_from_tasks' \in [Local -> Seq(ConnectionEvent)],
           \A m \in Local : Len(rx_from_tasks'[m]) <= CHANNEL_CAPACITY
    PROVE  IrohTypeOK'
<1>1. <<>> \in Seq(Packet) /\ Len(<<>>) = 0 /\ 0 <= CHANNEL_CAPACITY
  BY EmptySeq, IrohAssumption
<1>2. session' \in [Conn -> [Node -> {"none", "running", "aborted"}]]
  BY DEF SessionEnds, IrohTypeOK
<1>3. packet_channel' \in [Conn -> [Node -> Seq(Packet)]]
  BY <1>1 DEF SessionEnds, IrohTypeOK
<1>4. ASSUME NEW d \in Conn, NEW m \in Node
      PROVE  Len(packet_channel'[d][m]) <= CHANNEL_CAPACITY
  BY <1>1 DEF SessionEnds, IrohTypeOK
<1>5. WiringTypeOK'
  BY DEF SessionEnds, managerVars, IrohTypeOK, WiringTypeOK
<1> QED
  BY <1>2, <1>3, <1>4, <1>5 DEF SessionEnds, managerVars, IrohTypeOK

\* A step that moves no event, ends no task, and touches no entry of a table.
LEMMA QuietStep ==
    ASSUME IrohInv, IrohTypeOK', TasksOK',
           UNCHANGED <<state_table, manager, rx_from_tasks, dial_abort, session>>,
           \A c \in Conn : dial[c] # "none" => dial'[c] # "none"
    PROVE  IrohInv'
<1>1. \A m, t, d : Pending(m, t, d)' <=> Pending(m, t, d)
  BY SamePending
<1>2. EventsOK'
  BY <1>1 DEF IrohInv, EventsOK
<1>3. TableOK'
  BY DEF IrohInv, TableOK
<1>4. NoZombie'
  BY <1>1, EntryShape DEF IrohInv, NoZombie
<1> QED
  BY <1>2, <1>3, <1>4 DEF IrohInv

-----------------------------------------------------------------------------
\* The tasks.

\* The client end of a handshake.
LEMMA ConnectOkKeeps ==
    ASSUME IrohInv, NEW c \in Conn, ConnectOk(c)
    PROVE  IrohInv'
<1>1. IrohTypeOK'
  BY ConnType, NodeType
  DEF ConnectOk, managerVars, IrohInv, IrohTypeOK, WiringTypeOK
<1>2. TasksOK'
  BY ConnType DEF ConnectOk, IrohInv, IrohTypeOK, TasksOK
<1> QED
  BY <1>1, <1>2, QuietStep DEF ConnectOk, managerVars, IrohInv, IrohTypeOK

\* A failed attempt.
LEMMA ConnectErrKeeps ==
    ASSUME IrohInv, NEW c \in Conn, ConnectErr(c)
    PROVE  IrohInv'
<1>1. IrohTypeOK'
  BY ConnType, NodeType
  DEF ConnectErr, managerVars, IrohInv, IrohTypeOK, WiringTypeOK
<1>2. TasksOK'
  BY ConnType DEF ConnectErr, IrohInv, IrohTypeOK, TasksOK
<1> QED
  BY <1>1, <1>2, QuietStep DEF ConnectErr, managerVars, IrohInv, IrohTypeOK

\* The next attempt.
LEMMA ConnectRetryKeeps ==
    ASSUME IrohInv, NEW c \in Conn, ConnectRetry(c)
    PROVE  IrohInv'
<1>1. IrohTypeOK'
  BY ConnType, NodeType
  DEF ConnectRetry, managerVars, IrohInv, IrohTypeOK, WiringTypeOK
<1>2. TasksOK'
  BY ConnType DEF ConnectRetry, IrohInv, IrohTypeOK, TasksOK
<1> QED
  BY <1>1, <1>2, QuietStep DEF ConnectRetry, managerVars, IrohInv, IrohTypeOK

\* A failed server end.
LEMMA AcceptErrKeeps ==
    ASSUME IrohInv, NEW c \in Conn, AcceptErr(c)
    PROVE  IrohInv'
<1>1. IrohTypeOK'
  BY ConnType, NodeType, IrohAssumption
  DEF AcceptErr, managerVars, IrohInv, IrohTypeOK, WiringTypeOK
<1>2. TasksOK'
  BY ConnType DEF AcceptErr, IrohInv, IrohTypeOK, TasksOK
<1> QED
  BY <1>1, <1>2, QuietStep DEF AcceptErr, managerVars, IrohInv, IrohTypeOK

\* A connection breaks.
LEMMA ConnectionLostKeeps ==
    ASSUME IrohInv, NEW c \in Conn, NEW n \in Node, ConnectionLost(c, n)
    PROVE  IrohInv'
<1>1. UNCHANGED <<connOnlyVars, datagrams>>
  BY DEF ConnectionLost
<1>2. ends' \in [Conn -> [Node -> {"none", "open", "closed"}]]
  BY DEF ConnectionLost, IrohInv, IrohTypeOK
<1>3. faults' \in 0..MaxFaults
  BY IrohAssumption DEF ConnectionLost, IrohInv, IrohTypeOK
<1>4. IrohTypeOK'
  BY <1>1, <1>2, <1>3 DEF connOnlyVars, managerVars, IrohInv, IrohTypeOK, WiringTypeOK
<1>5. TasksOK'
  BY <1>1 DEF connOnlyVars, IrohInv, TasksOK
<1> QED
  BY <1>1, <1>4, <1>5, QuietStep DEF connOnlyVars, managerVars

\* The last handle is dropped.
LEMMA HandlesDroppedKeeps ==
    ASSUME IrohInv, NEW c \in Conn, NEW n \in Node, HandlesDropped(c, n)
    PROVE  IrohInv'
<1>1. IrohTypeOK'
  BY ConnType, NodeType
  DEF HandlesDropped, connOnlyVars, managerVars, IrohInv, IrohTypeOK, WiringTypeOK
<1>2. TasksOK'
  BY ConnType DEF HandlesDropped, connOnlyVars, IrohInv, IrohTypeOK, TasksOK
<1> QED
  BY <1>1, <1>2, QuietStep DEF HandlesDropped, connOnlyVars, managerVars, IrohInv, IrohTypeOK

\* A foreign node dials.
LEMMA ForeignConnectKeeps ==
    ASSUME IrohInv, NEW c \in Conn, ForeignConnect(c)
    PROVE  IrohInv'
<1>1. IrohTypeOK'
  BY ConnType, NodeType
  DEF ForeignConnect, managerVars, IrohInv, IrohTypeOK, WiringTypeOK
<1>2. TasksOK'
  BY ConnType DEF ForeignConnect, IrohInv, IrohTypeOK, TasksOK
<1> QED
  BY <1>1, <1>2, QuietStep DEF ForeignConnect, managerVars, IrohInv, IrohTypeOK

\* An aborted dial task is gone: no entry of the table relies on it.
LEMMA ConnectCancelledKeeps ==
    ASSUME IrohInv, NEW c \in Conn, ConnectCancelled(c)
    PROVE  IrohInv'
<1>1. \A m, t, d : Pending(m, t, d)' <=> Pending(m, t, d)
  BY SamePending DEF ConnectCancelled
<1>2. IrohTypeOK'
  BY ConnType, NodeType DEF ConnectCancelled, IrohInv, IrohTypeOK, WiringTypeOK, managerVars
<1>3. TasksOK'
  BY ConnType DEF ConnectCancelled, IrohInv, IrohTypeOK, TasksOK
<1>4. EventsOK'
  BY <1>1 DEF IrohInv, EventsOK
<1>5. TableOK'
  BY DEF ConnectCancelled, IrohInv, IrohTypeOK, TableOK, managerVars
<1>6. NoZombie'
  BY <1>1
  DEF ConnectCancelled, managerVars, IrohInv, IrohTypeOK, TasksOK, TableOK, NoZombie
<1> QED
  BY <1>2, <1>3, <1>4, <1>5, <1>6 DEF IrohInv

\* A session ends because the manager dropped its sender: it is in no entry.
LEMMA SessionChannelClosedKeeps ==
    ASSUME IrohInv, NEW c \in Conn, NEW n \in Local, SessionChannelClosed(c, n)
    PROVE  IrohInv'
<1>1. \A m, t, d : Pending(m, t, d)' <=> Pending(m, t, d)
  BY SamePending DEF SessionChannelClosed
<1>2. IrohTypeOK'
  BY SessionEndsTypes DEF SessionChannelClosed, IrohInv, IrohTypeOK
<1>3. TasksOK' /\ TableOK'
  BY DEF SessionChannelClosed, SessionEnds, managerVars, IrohInv, TasksOK, TableOK
<1>4. EventsOK'
  BY <1>1 DEF IrohInv, EventsOK
<1>5. ASSUME NEW m \in Local, NEW p \in Node, state_table[m][p].type = "Connected"
      PROVE  session[state_table[m][p].conn][m] = "running"
                => session'[state_table[m][p].conn][m] = "running"
  BY <1>5, EntryShape DEF SessionChannelClosed, SessionEnds, IrohInv, IrohTypeOK, TableOK
<1>6. NoZombie'
  BY <1>1, <1>5 DEF SessionChannelClosed, SessionEnds, managerVars, IrohInv, NoZombie
<1> QED
  BY <1>2, <1>3, <1>4, <1>6 DEF IrohInv

\* An aborted session is gone: its entry relies on something else already.
LEMMA SessionCancelledKeeps ==
    ASSUME IrohInv, NEW c \in Conn, NEW n \in Local, SessionCancelled(c, n)
    PROVE  IrohInv'
<1>1. \A m, t, d : Pending(m, t, d)' <=> Pending(m, t, d)
  BY SamePending DEF SessionCancelled
<1>2. IrohTypeOK'
  BY SessionEndsTypes DEF SessionCancelled, IrohInv, IrohTypeOK
<1>3. TasksOK' /\ TableOK'
  BY DEF SessionCancelled, SessionEnds, managerVars, IrohInv, TasksOK, TableOK
<1>4. EventsOK'
  BY <1>1 DEF IrohInv, EventsOK
<1>5. ASSUME NEW m \in Local, NEW p \in Node, state_table[m][p].type = "Connected"
      PROVE  session[state_table[m][p].conn][m] = "running"
                => session'[state_table[m][p].conn][m] = "running"
  BY <1>5, EntryShape DEF SessionCancelled, SessionEnds, IrohInv, IrohTypeOK, TableOK
<1>6. NoZombie'
  BY <1>1, <1>5 DEF SessionCancelled, SessionEnds, managerVars, IrohInv, NoZombie
<1> QED
  BY <1>2, <1>3, <1>4, <1>6 DEF IrohInv

\* The dial task's connection is on its way to the manager before the task ends.
LEMMA ConnectDoneKeeps ==
    ASSUME IrohInv, NEW c \in Conn, ConnectDone(c)
    PROVE  IrohInv'
<1> DEFINE n == c.from
<1>1. n \in Local /\ [type |-> "OutgoingConnection", conn |-> c] \in ConnectionEvent
  BY DEF IrohInv, TasksOK, ConnectDone, ConnectionEvent
<1>2. /\ rx_from_tasks' \in [Local -> Seq(ConnectionEvent)]
      /\ \A m \in Local : Len(rx_from_tasks'[m]) <= CHANNEL_CAPACITY
      /\ \A m \in Local : \A t, d :
            Pending(m, t, d)' <=> \/ Pending(m, t, d)
                                  \/ m = n /\ t = "OutgoingConnection" /\ d = c
  BY <1>1, TellAdds DEF IrohInv, ConnectDone
<1>3. IrohTypeOK'
  BY <1>2 DEF IrohInv, ConnectDone, managerVars, IrohTypeOK, WiringTypeOK
<1>4. TasksOK'
  BY DEF IrohInv, ConnectDone, IrohTypeOK, TasksOK
<1>5. EventsOK'
  BY <1>2, ConnType DEF IrohInv, ConnectDone, EventsOK, TasksOK
<1>6. TableOK'
  BY DEF IrohInv, ConnectDone, managerVars, TableOK
<1>7. NoZombie'
  BY <1>2 DEF IrohInv, ConnectDone, managerVars, NoZombie, TableOK, IrohTypeOK
<1> QED
  BY <1>3, <1>4, <1>5, <1>6, <1>7 DEF IrohInv

\* The server end of a handshake: the manager is told of connections to it only.
LEMMA AcceptOkKeeps ==
    ASSUME IrohInv, NEW c \in Conn, AcceptOk(c)
    PROVE  IrohInv'
<1> DEFINE n == c.to
<1>1. [type |-> "IncomingConnection", conn |-> c] \in ConnectionEvent
  BY DEF ConnectionEvent
<1>2. /\ rx_from_tasks' \in [Local -> Seq(ConnectionEvent)]
      /\ \A m \in Local : Len(rx_from_tasks'[m]) <= CHANNEL_CAPACITY
      /\ \A m \in Local : \A t, d :
            Pending(m, t, d)' <=> \/ Pending(m, t, d)
                                  \/ m = n /\ t = "IncomingConnection" /\ d = c
  <2>1. CASE n \in Local
    BY <1>1, <2>1, TellAdds DEF IrohInv, AcceptOk
  <2>2. CASE n \notin Local
    BY <2>2, SamePending DEF IrohInv, IrohTypeOK, AcceptOk
  <2> QED
    BY <2>1, <2>2
<1>3. IrohTypeOK'
  BY <1>2, ConnType DEF IrohInv, AcceptOk, managerVars, IrohTypeOK, WiringTypeOK
<1>4. TasksOK'
  BY DEF IrohInv, AcceptOk, IrohTypeOK, TasksOK
<1>5. EventsOK'
  BY <1>2, ConnType DEF IrohInv, AcceptOk, EventsOK, TasksOK
<1>6. TableOK'
  BY DEF IrohInv, AcceptOk, managerVars, TableOK
<1>7. NoZombie'
  BY <1>2, EntryShape DEF IrohInv, AcceptOk, managerVars, NoZombie
<1> QED
  BY <1>3, <1>4, <1>5, <1>6, <1>7 DEF IrohInv

\* A datagram goes to the coordinator.
LEMMA SessionReadKeeps ==
    ASSUME IrohInv, NEW c \in Conn, NEW n \in Local, SessionRead(c, n)
    PROVE  IrohInv'
<1>1. PICK packet \in datagrams[c][n] :
         /\ datagrams' = [datagrams EXCEPT ![c][n] = @ \ {packet}]
         /\ iroh_to_coord' = [iroh_to_coord EXCEPT ![n] =
               TrySend(@, [type |-> "RecvPacketFrom", peer |-> remote_id(c, n),
                           packet |-> packet])]
  BY DEF SessionRead
<1> DEFINE e == [type |-> "RecvPacketFrom", peer |-> remote_id(c, n), packet |-> packet]
<1>2. packet \in Packet /\ n \in Node
  BY <1>1, NodeType DEF IrohInv, IrohTypeOK
<1>3. e \in IrohEvent
  BY <1>2, ConnType DEF IrohEvent
<1>4. /\ TrySend(iroh_to_coord[n], e) \in Seq(IrohEvent)
      /\ Len(TrySend(iroh_to_coord[n], e)) <= INTERMOD_CHANNEL_CAPACITY
  BY <1>3, TrySendKeeps DEF IrohInv, IrohTypeOK, WiringTypeOK
<1>5. WiringTypeOK'
  BY <1>1, <1>4 DEF IrohInv, IrohTypeOK, SessionRead, WiringTypeOK
<1>6. datagrams' \in [Conn -> [Node -> SUBSET Packet]]
  BY <1>1, <1>2 DEF IrohInv, IrohTypeOK
<1>7. IrohTypeOK'
  BY <1>5, <1>6 DEF IrohInv, IrohTypeOK, SessionRead
<1>8. TasksOK'
  BY DEF SessionRead, IrohInv, TasksOK
<1> QED
  BY <1>7, <1>8, QuietStep DEF SessionRead

\* A packet goes to the network.
LEMMA SessionSendKeeps ==
    ASSUME IrohInv, NEW c \in Conn, NEW n \in Local, SessionSend(c, n)
    PROVE  IrohInv'
<1> DEFINE s == packet_channel[c][n]
<1>1. /\ s \in Seq(Packet) /\ s # <<>> /\ Len(s) <= CHANNEL_CAPACITY
      /\ n \in Node /\ remote_id(c, n) \in Node
  BY NodeType, ConnType DEF IrohInv, IrohTypeOK, SessionSend
<1>2. /\ Head(s) \in Packet /\ Tail(s) \in Seq(Packet)
      /\ Len(s) \in Nat /\ Len(Tail(s)) \in Nat /\ Len(Tail(s)) <= Len(s)
  BY <1>1, Receive
<1>3. Len(Tail(s)) <= CHANNEL_CAPACITY
  BY <1>1, <1>2, IrohAssumption
<1>4. /\ packet_channel' \in [Conn -> [Node -> Seq(Packet)]]
      /\ \A d \in Conn, m \in Node : Len(packet_channel'[d][m]) <= CHANNEL_CAPACITY
  BY <1>2, <1>3 DEF IrohInv, IrohTypeOK, SessionSend
<1>5. datagrams' \in [Conn -> [Node -> SUBSET Packet]]
  <2>1. datagrams[c][remote_id(c, n)] \cup {Head(s)} \subseteq Packet
    BY <1>1, <1>2 DEF IrohInv, IrohTypeOK
  <2>2. datagrams \in [Conn -> [Node -> SUBSET Packet]]
    BY DEF IrohInv, IrohTypeOK
  <2> QED
    BY <1>1, <2>1, <2>2 DEF SessionSend
<1>6. IrohTypeOK'
  BY <1>4, <1>5 DEF IrohInv, IrohTypeOK, SessionSend, managerVars, WiringTypeOK
<1>7. TasksOK'
  BY DEF SessionSend, IrohInv, TasksOK
<1> QED
  BY <1>6, <1>7, QuietStep DEF SessionSend, managerVars

\* A foreign node sends a packet.
LEMMA ForeignSendKeeps ==
    ASSUME IrohInv, NEW c \in Conn, NEW n \in Node, ForeignSend(c, n)
    PROVE  IrohInv'
<1>1. PICK h \in Header :
         datagrams' = [datagrams EXCEPT ![c][remote_id(c, n)] =
                         @ \cup {[hdr |-> h, origin |-> n, seq |-> 0]}]
  BY DEF ForeignSend
<1>2. [hdr |-> h, origin |-> n, seq |-> 0] \in Packet /\ remote_id(c, n) \in Node
  BY WiringAssumption, ConnType DEF Packet
<1>3. datagrams' \in [Conn -> [Node -> SUBSET Packet]]
  BY <1>1, <1>2 DEF IrohInv, IrohTypeOK
<1>4. IrohTypeOK'
  BY <1>3 DEF IrohInv, IrohTypeOK, ForeignSend, connOnlyVars, managerVars, WiringTypeOK
<1>5. TasksOK'
  BY DEF ForeignSend, connOnlyVars, IrohInv, TasksOK
<1> QED
  BY <1>4, <1>5, QuietStep DEF ForeignSend, connOnlyVars, managerVars

\* A session fails: the news is on its way before the task ends.
LEMMA SessionErrKeeps ==
    ASSUME IrohInv, NEW c \in Conn, NEW n \in Local, SessionErr(c, n)
    PROVE  IrohInv'
<1>1. [type |-> "Disconnected", conn |-> c] \in ConnectionEvent
  BY DEF ConnectionEvent
<1>2. /\ rx_from_tasks' \in [Local -> Seq(ConnectionEvent)]
      /\ \A m \in Local : Len(rx_from_tasks'[m]) <= CHANNEL_CAPACITY
      /\ \A m \in Local : \A t, d :
            Pending(m, t, d)' <=> \/ Pending(m, t, d)
                                  \/ m = n /\ t = "Disconnected" /\ d = c
  BY <1>1, TellAdds DEF IrohInv, SessionErr
<1>3. IrohTypeOK'
  BY <1>2, SessionEndsTypes DEF SessionErr, IrohInv
<1>4. TasksOK' /\ TableOK'
  BY DEF SessionErr, SessionEnds, managerVars, IrohInv, TasksOK, TableOK
<1>5. EventsOK'
  BY <1>2 DEF IrohInv, EventsOK
<1>6. ASSUME NEW m \in Local, NEW p \in Node, state_table[m][p].type = "Connected",
             session[state_table[m][p].conn][m] = "running"
      PROVE  \/ session'[state_table[m][p].conn][m] = "running"
             \/ Pending(m, "Disconnected", c)' /\ remote_id(c, m) = p
  BY <1>2, <1>6, EntryShape DEF SessionErr, SessionEnds, IrohInv, IrohTypeOK, TableOK
<1>7. NoZombie'
  BY <1>2, <1>6 DEF SessionErr, SessionEnds, managerVars, IrohInv, NoZombie
<1> QED
  BY <1>3, <1>4, <1>5, <1>7 DEF IrohInv

-----------------------------------------------------------------------------
\* The manager.

\* An aborted and closed connection keeps the types.
LEMMA AbortCloseTypes ==
    ASSUME IrohTypeOK, NEW c \in Conn, NEW n \in Local, Abort(c, n), Close(c, n)
    PROVE  /\ session' \in [Conn -> [Node -> {"none", "running", "aborted"}]]
           /\ ends' \in [Conn -> [Node -> {"none", "open", "closed"}]]
           /\ \A d \in Conn, m \in Node :
                 d # c \/ m # n => session'[d][m] = session[d][m]
BY NodeType DEF IrohTypeOK, Abort, Close

\* A new connection is taken, replaces another, or is closed.
LEMMA NewConnectionKeeps ==
    ASSUME IrohInv, NEW n \in Local,
           NEW type \in {"OutgoingConnection", "IncomingConnection"},
           NEW expected \in {"Connecting", "WaitingIncomingConnection"},
           type = "OutgoingConnection" => expected = "Connecting",
           NewConnection(n, type, expected)
    PROVE  IrohInv'
<1> DEFINE c == Head(rx_from_tasks[n]).conn
           p == remote_id(c, n)
           st == state_table[n][p]
<1>1. /\ rx_from_tasks' \in [Local -> Seq(ConnectionEvent)]
      /\ \A m \in Local : Len(rx_from_tasks'[m]) <= CHANNEL_CAPACITY
      /\ c \in Conn
      /\ Pending(n, type, c)
      /\ \A m \in Local : \A t, d :
            /\ Pending(m, t, d)' => Pending(m, t, d)
            /\ Pending(m, t, d) => Pending(m, t, d)' \/ (m = n /\ t = type /\ d = c)
  BY TakeRemoves DEF NewConnection, IrohInv
<1>2. manager[n].at = "select" /\ n \in Node /\ p \in Node
  BY <1>1, NodeType, ConnType DEF NewConnection, TakeEvent
<1>3. /\ manager' \in [Local -> Manager]
      /\ \A m \in Local : m # n => manager'[m] = manager[m]
  <2>1. [at |-> "ready", conn |-> c] \in Manager /\ manager \in [Local -> Manager]
    BY <1>1 DEF Manager, IrohInv, IrohTypeOK
  <2>2. \/ manager' = [manager EXCEPT ![n] = [at |-> "ready", conn |-> c]]
        \/ manager' = manager
    BY DEF NewConnection
  <2> QED
    BY <2>1, <2>2
<1>4. /\ session' \in [Conn -> [Node -> {"none", "running", "aborted"}]]
      /\ ends' \in [Conn -> [Node -> {"none", "open", "closed"}]]
      /\ \/ session' = session
         \/ /\ st.type = "Connected" /\ st.conn \in Conn
            /\ manager'[n] = [at |-> "ready", conn |-> c]
            /\ \A d \in Conn, m \in Node :
                  d # st.conn \/ m # n => session'[d][m] = session[d][m]
  <2>1. CASE st.type = "Connected" /\ Abort(st.conn, n) /\ Close(st.conn, n)
             /\ manager' = [manager EXCEPT ![n] = [at |-> "ready", conn |-> c]]
    <3>1. st.conn \in Conn
      BY <1>2, <2>1, EntryShape DEF IrohInv
    <3>2. manager'[n] = [at |-> "ready", conn |-> c]
      BY <2>1 DEF IrohInv, IrohTypeOK
    <3> QED
      BY <2>1, <3>1, <3>2, AbortCloseTypes DEF IrohInv
  <2>2. CASE UNCHANGED <<ends, session>>
    BY <2>2 DEF IrohInv, IrohTypeOK
  <2>3. CASE Close(c, n) /\ UNCHANGED session
    BY <1>1, <1>2, <2>3 DEF IrohInv, IrohTypeOK, Close
  <2> QED
    BY <2>1, <2>2, <2>3 DEF NewConnection
<1>5. IrohTypeOK'
  <2>1. UNCHANGED <<running, iroh_to_coord, coord_to_iroh, state_table, dial, dial_abort,
                    accept, packet_channel, datagrams, faults>>
    BY DEF NewConnection
  <2>2. WiringTypeOK'
    BY <2>1 DEF IrohInv, IrohTypeOK, WiringTypeOK
  <2> QED
    BY <1>1, <1>3, <1>4, <2>1, <2>2 DEF IrohInv, IrohTypeOK
<1>6. TasksOK' /\ TableOK'
  <2>1. UNCHANGED <<state_table, dial, dial_abort, accept>>
    BY DEF NewConnection
  <2> QED
    BY <2>1 DEF IrohInv, TasksOK, TableOK
<1>7. EventsOK'
  BY <1>1 DEF IrohInv, EventsOK
<1>8. ASSUME NEW m \in Local, NEW q \in Node, NEW x,
             state_table[m][q].type = "Connecting", x = state_table[m][q].conn
      PROVE  \/ dial'[x] # "none" /\ x \notin dial_abort'
             \/ Pending(m, "OutgoingConnection", x)'
             \/ manager'[m].at = "ready" /\ remote_id(manager'[m].conn, m) = q
  <2>1. x \in Conn /\ x.from = m /\ x.to = q /\ remote_id(x, m) = q
    BY <1>8, EntryShape DEF IrohInv, TableOK, remote_id
  <2>2. CASE dial[x] # "none" /\ x \notin dial_abort
    BY <2>2 DEF NewConnection
  <2>3. CASE manager[m].at = "ready" /\ remote_id(manager[m].conn, m) = q
    BY <1>2, <1>3, <2>3
  <2>4. CASE Pending(m, "OutgoingConnection", x)
    <3>1. CASE m = n /\ type = "OutgoingConnection" /\ x = c
      <4>1. q = p /\ st.type = expected
        BY <1>8, <2>1, <3>1
      <4>2. manager' = [manager EXCEPT ![n] = [at |-> "ready", conn |-> c]]
        BY <4>1 DEF NewConnection
      <4>3. manager'[n] = [at |-> "ready", conn |-> c]
        BY <4>2 DEF IrohInv, IrohTypeOK
      <4> QED
        BY <3>1, <4>1, <4>3
    <3>2. CASE Pending(m, "OutgoingConnection", x)'
      BY <3>2
    <3>3. \/ Pending(m, "OutgoingConnection", x)'
          \/ m = n /\ type = "OutgoingConnection" /\ x = c
      BY <1>1, <2>4
    <3> QED
      BY <3>1, <3>2, <3>3
  <2> QED
    BY <1>8, <2>2, <2>3, <2>4 DEF IrohInv, NoZombie
<1>9. ASSUME NEW m \in Local, NEW q \in Node, NEW x,
             state_table[m][q].type = "Connected", x = state_table[m][q].conn
      PROVE  \/ session'[x][m] = "running"
             \/ \E d \in Conn : Pending(m, "Disconnected", d)' /\ remote_id(d, m) = q
             \/ manager'[m].at = "ready" /\ remote_id(manager'[m].conn, m) = q
             \/ manager'[m].at \in {"lost", "drop"} /\ manager'[m].peer = q
  <2>1. x \in Conn /\ m \in Node /\ remote_id(x, m) = q
    BY <1>9, EntryShape, NodeType DEF IrohInv, TableOK
  <2>2. CASE session[x][m] = "running"
    <3>1. CASE session' = session
      BY <2>2, <3>1
    <3>2. CASE st.type = "Connected" /\ st.conn \in Conn
               /\ manager'[n] = [at |-> "ready", conn |-> c]
               /\ \A d \in Conn, k \in Node :
                     d # st.conn \/ k # n => session'[d][k] = session[d][k]
      <4>1. remote_id(st.conn, n) = p
        BY <1>2, <3>2 DEF IrohInv, TableOK
      <4>2. CASE x = st.conn /\ m = n
        <5>1. q = p
          BY <2>1, <4>1, <4>2
        <5>2. manager'[m].at = "ready" /\ manager'[m].conn = c
          BY <3>2, <4>2
        <5> QED
          BY <4>2, <5>1, <5>2
      <4> QED
        BY <2>1, <2>2, <3>2, <4>2
    <3> QED
      BY <1>4, <3>1, <3>2
  <2>3. CASE \E d \in Conn : Pending(m, "Disconnected", d) /\ remote_id(d, m) = q
    BY <1>1, <2>3
  <2>4. CASE manager[m].at \in {"ready", "lost", "drop"} /\ m # n
    BY <1>3, <1>9, <2>2, <2>3, <2>4 DEF IrohInv, NoZombie
  <2> QED
    BY <1>2, <1>9, <2>2, <2>3, <2>4 DEF IrohInv, NoZombie
<1>10. NoZombie'
  <2>1. state_table' = state_table
    BY DEF NewConnection
  <2> QED
    BY <1>8, <1>9, <2>1 DEF NoZombie
<1> QED
  BY <1>5, <1>6, <1>7, <1>10 DEF IrohInv

\* The news of a session's end: the manager acts on it if the entry needs it.
LEMMA DisconnectedKeeps ==
    ASSUME IrohInv, NEW n \in Local, Disconnected(n)
    PROVE  IrohInv'
<1> DEFINE c == Head(rx_from_tasks[n]).conn
           p == remote_id(c, n)
<1>1. /\ rx_from_tasks' \in [Local -> Seq(ConnectionEvent)]
      /\ \A m \in Local : Len(rx_from_tasks'[m]) <= CHANNEL_CAPACITY
      /\ c \in Conn
      /\ \A m \in Local : \A t, d :
            /\ Pending(m, t, d)' => Pending(m, t, d)
            /\ Pending(m, t, d) => \/ Pending(m, t, d)'
                                   \/ m = n /\ t = "Disconnected" /\ d = c
  BY TakeRemoves DEF Disconnected, IrohInv
<1>2. manager[n].at = "select" /\ p \in Node
  BY <1>1, NodeType, ConnType DEF Disconnected, TakeEvent
<1>3. /\ manager' \in [Local -> Manager]
      /\ \A m \in Local : m # n => manager'[m] = manager[m]
      /\ state_table[n][p].type = "Connected" => manager'[n] = [at |-> "lost", peer |-> p]
  BY <1>2 DEF Disconnected, IrohInv, IrohTypeOK, Manager
<1>4. IrohTypeOK'
  BY <1>1, <1>3 DEF Disconnected, IrohInv, IrohTypeOK, WiringTypeOK
<1>5. TasksOK' /\ TableOK'
  BY DEF Disconnected, IrohInv, TasksOK, TableOK
<1>6. EventsOK'
  BY <1>1 DEF IrohInv, EventsOK
<1>7. NoZombie'
  <2>1. UNCHANGED <<state_table, dial, dial_abort, session>>
    BY DEF Disconnected
  <2>2. \A m \in Local : \A x : Pending(m, "OutgoingConnection", x) =>
                              Pending(m, "OutgoingConnection", x)'
    BY <1>1
  <2>3. \A m \in Local, q \in Node :
           (\E d \in Conn : Pending(m, "Disconnected", d) /\ remote_id(d, m) = q) =>
               \/ \E d \in Conn : Pending(m, "Disconnected", d)' /\ remote_id(d, m) = q
               \/ m = n /\ q = p
    BY <1>1
  <2> QED
    BY <1>2, <1>3, <2>1, <2>2, <2>3 DEF IrohInv, NoZombie
<1> QED
  BY <1>4, <1>5, <1>6, <1>7 DEF IrohInv

\* The session is spawned and its entry made in one step.
LEMMA InitReadyConnectionKeeps ==
    ASSUME IrohInv, NEW n \in Local, init_ready_connection(n)
    PROVE  IrohInv'
<1> DEFINE c == manager[n].conn
           p == remote_id(c, n)
<1>1. c \in Conn /\ n \in Node /\ p \in Node /\ [type |-> "Connected", conn |-> c] \in ConnectionState
  <2>1. c \in Conn
    BY DEF init_ready_connection, IrohInv, IrohTypeOK, Manager
  <2> QED
    BY <2>1, NodeType, ConnType DEF ConnectionState
<1>2. WiringTypeOK'
  BY <1>1, AnnounceKeeps DEF init_ready_connection, IrohInv, IrohTypeOK
<1>3. \A m, t, d : Pending(m, t, d)' <=> Pending(m, t, d)
  BY SamePending DEF init_ready_connection
<1>4. /\ state_table' \in [Local -> [Node -> ConnectionState]]
      /\ state_table'[n][p] = [type |-> "Connected", conn |-> c]
      /\ \A m \in Local, q \in Node :
            m # n \/ q # p => state_table'[m][q] = state_table[m][q]
  BY <1>1 DEF init_ready_connection, IrohInv, IrohTypeOK
<1>5. /\ session' \in [Conn -> [Node -> {"none", "running", "aborted"}]]
      /\ session'[c][n] = "running"
      /\ \A d \in Conn, m \in Node : session[d][m] = "running" => session'[d][m] = "running"
  BY <1>1 DEF init_ready_connection, IrohInv, IrohTypeOK
<1>6. /\ manager' \in [Local -> Manager]
      /\ manager[n].at = "ready"
      /\ \A m \in Local : m # n => manager'[m] = manager[m]
  BY DEF init_ready_connection, IrohInv, IrohTypeOK, Manager
<1>7. UNCHANGED <<rx_from_tasks, dial, dial_abort, accept, ends, packet_channel, datagrams,
                  faults>>
  BY DEF init_ready_connection
<1>8. IrohTypeOK'
  BY <1>2, <1>4, <1>5, <1>6, <1>7 DEF IrohInv, IrohTypeOK
<1>9. TasksOK' /\ EventsOK'
  BY <1>3, <1>7 DEF IrohInv, TasksOK, EventsOK
<1>10. TableOK'
  BY <1>4, <1>7 DEF IrohInv, TableOK
<1>11. NoZombie'
  <2> SUFFICES ASSUME NEW m \in Local, NEW q \in Node, m # n \/ q # p
               PROVE  NoZombie!(m, q)'
    BY <1>4, <1>5 DEF NoZombie
  <2> QED
    BY <1>3, <1>4, <1>5, <1>6, <1>7, EntryShape, NodeType DEF IrohInv, NoZombie
<1> QED
  BY <1>8, <1>9, <1>10, <1>11 DEF IrohInv

\* What init_new_connection leaves behind: one new entry, and the dial task it needs.
FreshEntry(n, p) ==
    /\ state_table' \in [Local -> [Node -> ConnectionState]]
    /\ dial' \in [Conn -> {"none", "connecting", "connected", "sleeping"}]
    /\ \A m \in Local, q \in Node : m # n \/ q # p => state_table'[m][q] = state_table[m][q]
    /\ \A d \in Conn : dial[d] # "none" => dial'[d] # "none"
    /\ \A d \in Conn : dial'[d] # "none" => dial[d] # "none" \/ (d.from = n /\ n > d.to)
    /\ LET st == state_table'[n][p]
       IN \/ st.type = "WaitingIncomingConnection" /\ n < p
          \/ /\ st.type = "Connecting" /\ st.conn \in Conn
             /\ st.conn.from = n /\ st.conn.to = p /\ n > p
             /\ dial'[st.conn] # "none" /\ st.conn \notin dial_abort

\* init_new_connection() makes an entry start over.
LEMMA InitNewConnection ==
    ASSUME IrohInv, NEW n \in Local, NEW p \in Node, init_new_connection(n, p)
    PROVE  FreshEntry(n, p)
<1>1. n \in Nat /\ p \in Nat /\ n \in Node
  BY NodeType
<1>2. CASE /\ n < p
           /\ state_table' = [state_table EXCEPT
                                 ![n][p] = [type |-> "WaitingIncomingConnection"]]
           /\ UNCHANGED dial
  <2>1. [type |-> "WaitingIncomingConnection"] \in ConnectionState
    BY DEF ConnectionState
  <2> QED
    BY <1>2, <2>1 DEF FreshEntry, IrohInv, IrohTypeOK
<1>3. ASSUME ~(n < p), NEW c \in Conn, c.from = n, c.to = p, Free(c),
             dial' = [dial EXCEPT ![c] = "connecting"],
             state_table' = [state_table EXCEPT ![n][p] = [type |-> "Connecting", conn |-> c]]
      PROVE  FreshEntry(n, p)
  <2>1. [type |-> "Connecting", conn |-> c] \in ConnectionState
    BY DEF ConnectionState
  <2>2. n > p /\ c \notin dial_abort
    BY <1>1, <1>3, ConnType DEF IrohInv, TasksOK, Free
  <2> QED
    BY <1>3, <2>1, <2>2 DEF FreshEntry, IrohInv, IrohTypeOK
<1> QED
  BY <1>2, <1>3 DEF init_new_connection

\* A step that starts over with one peer, and leaves the awaits of other peers alone.
LEMMA FreshEntryKeeps ==
    ASSUME IrohInv, IrohTypeOK', NEW n \in Local, NEW p \in Node, FreshEntry(n, p),
           UNCHANGED <<rx_from_tasks, dial_abort, accept, session>>,
           \A m \in Local : m # n => manager'[m] = manager[m],
           \/ manager'[n] = manager[n]
           \/ manager[n].at \in {"lost", "drop"} /\ manager[n].peer = p
    PROVE  IrohInv'
<1>1. \A m, t, d : Pending(m, t, d)' <=> Pending(m, t, d)
  BY SamePending
<1>2. TasksOK'
  BY DEF FreshEntry, IrohInv, TasksOK
<1>3. EventsOK'
  BY <1>1 DEF IrohInv, EventsOK
<1>4. TableOK'
  BY DEF FreshEntry, IrohInv, TableOK
<1>5. ASSUME NEW m \in Local, NEW q \in Node
      PROVE  NoZombie!(m, q)'
  <2>1. CASE m = n /\ q = p
    BY <2>1 DEF FreshEntry
  <2>2. CASE m # n \/ q # p
    <3>1. state_table'[m][q] = state_table[m][q]
      BY <2>2 DEF FreshEntry
    <3>2. ASSUME NEW x, x = state_table[m][q].conn, state_table[m][q].type = "Connecting",
                 dial[x] # "none"
          PROVE  dial'[x] # "none"
      BY <3>2, EntryShape DEF FreshEntry, IrohInv
    <3> QED
      BY <1>1, <2>2, <3>1, <3>2 DEF IrohInv, NoZombie
  <2> QED
    BY <2>1, <2>2
<1> QED
  BY <1>2, <1>3, <1>4, <1>5 DEF IrohInv, NoZombie

\* The second half of Disconnected: the entry starts over.
LEMMA ReconnectAfterLossKeeps ==
    ASSUME IrohInv, NEW n \in Local, ReconnectAfterLoss(n)
    PROVE  IrohInv'
<1> DEFINE p == manager[n].peer
<1>1. p \in Node /\ manager[n].at = "lost"
  BY DEF ReconnectAfterLoss, IrohInv, IrohTypeOK, Manager
<1>2. WiringTypeOK'
  BY <1>1, AnnounceKeeps DEF ReconnectAfterLoss, IrohInv, IrohTypeOK
<1>3. FreshEntry(n, p)
  BY <1>1, InitNewConnection DEF ReconnectAfterLoss
<1>4. /\ manager' \in [Local -> Manager]
      /\ \A m \in Local : m # n => manager'[m] = manager[m]
  BY DEF ReconnectAfterLoss, IrohInv, IrohTypeOK, Manager
<1>5. IrohTypeOK'
  BY <1>2, <1>3, <1>4 DEF ReconnectAfterLoss, FreshEntry, IrohInv, IrohTypeOK
<1>6. UNCHANGED <<rx_from_tasks, dial_abort, accept, session>>
  BY DEF ReconnectAfterLoss
<1> QED
  BY <1>1, <1>3, <1>4, <1>5, <1>6, FreshEntryKeeps

\* ConnectToPeer makes an entry start over, or does nothing.
LEMMA ConnectToPeerKeeps ==
    ASSUME IrohInv, NEW n \in Local, ConnectToPeer(n)
    PROVE  IrohInv'
<1> DEFINE p == Head(coord_to_iroh[n]).peer
<1>1. WiringTypeOK' /\ p \in Node
  BY TakeActionKeeps DEF ConnectToPeer, IrohInv, IrohTypeOK
<1>2. UNCHANGED <<manager, rx_from_tasks, dial_abort, accept, ends, session, packet_channel,
                  datagrams, faults>>
  BY DEF ConnectToPeer
<1>3. CASE init_new_connection(n, p)
  <2>1. FreshEntry(n, p)
    BY <1>1, <1>3, InitNewConnection
  <2>2. IrohTypeOK'
    BY <1>1, <1>2, <2>1 DEF FreshEntry, IrohInv, IrohTypeOK
  <2> QED
    BY <1>1, <1>2, <2>1, <2>2, FreshEntryKeeps
<1>4. CASE UNCHANGED <<state_table, dial>>
  <2>1. IrohTypeOK' /\ TasksOK'
    BY <1>1, <1>2, <1>4 DEF IrohInv, IrohTypeOK, TasksOK
  <2> QED
    BY <1>2, <1>4, <2>1, QuietStep
<1> QED
  BY <1>3, <1>4 DEF ConnectToPeer

\* A packet for a session.
LEMMA SendPacketToKeeps ==
    ASSUME IrohInv, NEW n \in Local, SendPacketTo(n)
    PROVE  IrohInv'
<1> DEFINE a == Head(coord_to_iroh[n])
           st == state_table[n][a.peer]
           s == packet_channel[st.conn][n]
<1>1. WiringTypeOK' /\ a \in CoreAction /\ a.peer \in Node /\ n \in Node
  BY TakeActionKeeps, NodeType DEF SendPacketTo, IrohInv, IrohTypeOK
<1>2. a.packet \in Packet
  BY <1>1 DEF SendPacketTo, TakeAction, CoreAction
<1>3. /\ packet_channel' \in [Conn -> [Node -> Seq(Packet)]]
      /\ \A d \in Conn, m \in Node : Len(packet_channel'[d][m]) <= CHANNEL_CAPACITY
  <2>1. CASE /\ st.type = "Connected"
             /\ Len(s) < CHANNEL_CAPACITY
             /\ packet_channel' = [packet_channel EXCEPT ![st.conn][n] = Append(@, a.packet)]
    <3>1. st.conn \in Conn /\ s \in Seq(Packet)
      BY <1>1, <2>1, EntryShape DEF IrohInv, IrohTypeOK
    <3>2. Len(s) < CHANNEL_CAPACITY /\ CHANNEL_CAPACITY \in Nat
      BY <2>1, IrohAssumption
    <3>3. Append(s, a.packet) \in Seq(Packet) /\ Len(Append(s, a.packet)) <= CHANNEL_CAPACITY
      BY <1>2, <3>1, <3>2, PutBelow
    <3> QED
      BY <2>1, <3>1, <3>3 DEF IrohInv, IrohTypeOK
  <2>2. CASE UNCHANGED packet_channel
    BY <2>2 DEF IrohInv, IrohTypeOK
  <2> QED
    BY <2>1, <2>2 DEF SendPacketTo
<1>4. IrohTypeOK'
  BY <1>1, <1>3 DEF SendPacketTo, IrohInv, IrohTypeOK
<1>5. TasksOK'
  BY DEF SendPacketTo, IrohInv, TasksOK
<1> QED
  BY <1>4, <1>5, QuietStep DEF SendPacketTo

\* The first half of DisconnectFromPeer.
LEMMA DisconnectFromPeerKeeps ==
    ASSUME IrohInv, NEW n \in Local, DisconnectFromPeer(n)
    PROVE  IrohInv'
<1> DEFINE p == Head(coord_to_iroh[n]).peer
           st == state_table[n][p]
<1>1. WiringTypeOK' /\ p \in Node /\ n \in Node /\ manager[n].at = "select"
  BY TakeActionKeeps, NodeType DEF DisconnectFromPeer, IrohInv, IrohTypeOK, TakeAction
<1>2. \A m, t, d : Pending(m, t, d)' <=> Pending(m, t, d)
  BY SamePending DEF DisconnectFromPeer
<1>3. EventsOK'
  BY <1>2 DEF IrohInv, EventsOK
<1>4. UNCHANGED <<rx_from_tasks, dial, accept, packet_channel, datagrams, faults>>
  BY DEF DisconnectFromPeer
<1>5. CASE /\ st.type = "Connected"
           /\ Abort(st.conn, n)
           /\ Close(st.conn, n)
           /\ manager' = [manager EXCEPT ![n] = [at |-> "drop", peer |-> p]]
           /\ UNCHANGED <<state_table, dial_abort>>
  <2>1. st.conn \in Conn
    BY <1>1, <1>5, EntryShape DEF IrohInv
  <2>2. /\ session' \in [Conn -> [Node -> {"none", "running", "aborted"}]]
        /\ ends' \in [Conn -> [Node -> {"none", "open", "closed"}]]
        /\ \A d \in Conn, m \in Node :
              d # st.conn \/ m # n => session'[d][m] = session[d][m]
    BY <1>5, <2>1, AbortCloseTypes DEF IrohInv
  <2>3. /\ manager' \in [Local -> Manager]
        /\ manager'[n] = [at |-> "drop", peer |-> p]
        /\ \A m \in Local : m # n => manager'[m] = manager[m]
    BY <1>1, <1>5 DEF IrohInv, IrohTypeOK, Manager
  <2>4. IrohTypeOK'
    BY <1>1, <1>4, <1>5, <2>2, <2>3 DEF IrohInv, IrohTypeOK
  <2>5. TasksOK' /\ TableOK'
    <3>1. UNCHANGED <<state_table, dial, dial_abort, accept>>
      BY <1>4, <1>5
    <3> QED
      BY <3>1 DEF IrohInv, TasksOK, TableOK
  <2>6. ASSUME NEW m \in Local, NEW q \in Node
        PROVE  NoZombie!(m, q)'
    <3>1. CASE m = n /\ q = p
      BY <1>5, <2>3, <3>1
    <3>2. CASE m # n \/ q # p
      <4>1. ASSUME NEW x, x = state_table[m][q].conn, state_table[m][q].type = "Connected"
            PROVE  session'[x][m] = session[x][m]
        <5>1. x \in Conn /\ m \in Node /\ remote_id(x, m) = q
          BY <4>1, EntryShape, NodeType DEF IrohInv, TableOK
        <5>2. remote_id(st.conn, n) = p
          BY <1>1, <1>5 DEF IrohInv, TableOK
        <5>3. x # st.conn \/ m # n
          BY <3>2, <5>1, <5>2
        <5> QED
          BY <2>2, <5>1, <5>3
      <4>2. UNCHANGED <<state_table, dial, dial_abort>>
        BY <1>4, <1>5
      <4>3. CASE m # n
        <5>1. manager'[m] = manager[m]
          BY <2>3, <4>3
        <5> QED
          BY <1>2, <4>1, <4>2, <5>1 DEF IrohInv, NoZombie
      <4>4. CASE m = n
        <5>1. manager[m].at = "select"
          BY <1>1, <4>4
        <5> QED
          BY <1>2, <4>1, <4>2, <5>1 DEF IrohInv, NoZombie
      <4> QED
        BY <4>3, <4>4
    <3> QED
      BY <3>1, <3>2
  <2> QED
    BY <1>3, <2>4, <2>5, <2>6 DEF IrohInv, NoZombie
<1>6. CASE /\ st.type # "Connected"
           /\ dial_abort' = IF st.type = "Connecting"
                            THEN dial_abort \cup ({st.conn} \cap {c \in Conn : dial[c] # "none"})
                            ELSE dial_abort
           /\ state_table' = [state_table EXCEPT ![n][p] = [type |-> "Disconnected"]]
           /\ UNCHANGED <<ends, session, manager>>
  <2>1. [type |-> "Disconnected"] \in ConnectionState
    BY DEF ConnectionState
  <2>2. /\ state_table' \in [Local -> [Node -> ConnectionState]]
        /\ state_table'[n][p].type = "Disconnected"
        /\ \A m \in Local, q \in Node :
              m # n \/ q # p => state_table'[m][q] = state_table[m][q]
    BY <1>1, <1>6, <2>1 DEF IrohInv, IrohTypeOK
  <2>3. /\ dial_abort' \subseteq Conn
        /\ \A d \in dial_abort' : \/ d \in dial_abort
                                  \/ dial[d] # "none" /\ d.from = n /\ d.to = p
    <3>1. dial_abort \subseteq Conn
      BY DEF IrohInv, IrohTypeOK
    <3>2. CASE st.type = "Connecting"
      <4>1. st.conn.from = n /\ st.conn.to = p
        BY <1>1, <3>2 DEF IrohInv, TableOK
      <4> QED
        BY <1>6, <3>1, <3>2, <4>1
    <3>3. CASE st.type # "Connecting"
      BY <1>6, <3>1, <3>3
    <3> QED
      BY <3>2, <3>3
  <2>4. IrohTypeOK'
    BY <1>1, <1>4, <1>6, <2>2, <2>3 DEF IrohInv, IrohTypeOK
  <2>5. TasksOK'
    BY <1>4, <2>3 DEF IrohInv, TasksOK
  <2>6. TableOK'
    BY <2>2, <2>3 DEF IrohInv, TableOK
  <2>7. ASSUME NEW m \in Local, NEW q \in Node
        PROVE  NoZombie!(m, q)'
    <3>1. CASE m = n /\ q = p
      BY <2>2, <3>1
    <3>2. CASE m # n \/ q # p
      <4>1. ASSUME NEW x, x = state_table[m][q].conn, state_table[m][q].type = "Connecting",
                   x \notin dial_abort
            PROVE  x \notin dial_abort'
        BY <2>3, <3>2, <4>1 DEF IrohInv, TableOK
      <4>2. state_table'[m][q] = state_table[m][q]
        BY <2>2, <3>2
      <4>3. UNCHANGED <<dial, session, manager>>
        BY <1>4, <1>6
      <4> QED
        BY <1>2, <4>1, <4>2, <4>3 DEF IrohInv, NoZombie
    <3> QED
      BY <3>1, <3>2
  <2> QED
    BY <1>3, <2>4, <2>5, <2>6, <2>7 DEF IrohInv, NoZombie
<1> QED
  BY <1>5, <1>6 DEF DisconnectFromPeer

\* The second half of DisconnectFromPeer.
LEMMA DropConnectedKeeps ==
    ASSUME IrohInv, NEW n \in Local, DropConnected(n)
    PROVE  IrohInv'
<1> DEFINE p == manager[n].peer
<1>1. p \in Node /\ manager[n].at = "drop"
  BY DEF DropConnected, IrohInv, IrohTypeOK, Manager
<1>2. WiringTypeOK'
  BY <1>1, AnnounceKeeps DEF DropConnected, IrohInv, IrohTypeOK
<1>3. \A m, t, d : Pending(m, t, d)' <=> Pending(m, t, d)
  BY SamePending DEF DropConnected
<1>4. /\ manager' \in [Local -> Manager]
      /\ \A m \in Local : m # n => manager'[m] = manager[m]
  BY DEF DropConnected, IrohInv, IrohTypeOK, Manager
<1>5. [type |-> "Disconnected"] \in ConnectionState
  BY DEF ConnectionState
<1>6. /\ state_table' \in [Local -> [Node -> ConnectionState]]
      /\ state_table'[n][p].type = "Disconnected"
      /\ \A m \in Local, q \in Node :
            m # n \/ q # p => state_table'[m][q] = state_table[m][q]
  BY <1>1, <1>5 DEF DropConnected, IrohInv, IrohTypeOK
<1>7. UNCHANGED <<rx_from_tasks, dial, dial_abort, accept, ends, session, packet_channel,
                  datagrams, faults>>
  BY DEF DropConnected
<1>8. IrohTypeOK'
  BY <1>2, <1>4, <1>6, <1>7 DEF IrohInv, IrohTypeOK
<1>9. TasksOK' /\ EventsOK'
  BY <1>3, <1>7 DEF IrohInv, TasksOK, EventsOK
<1>10. TableOK'
  BY <1>6, <1>7 DEF IrohInv, TableOK
<1>11. ASSUME NEW m \in Local, NEW q \in Node
       PROVE  NoZombie!(m, q)'
  <2>1. CASE m = n /\ q = p
    BY <1>6, <2>1
  <2>2. CASE m # n \/ q # p
    BY <1>1, <1>3, <1>4, <1>6, <1>7, <2>2 DEF IrohInv, NoZombie
  <2> QED
    BY <2>1, <2>2
<1> QED
  BY <1>8, <1>9, <1>10, <1>11 DEF IrohInv, NoZombie

-----------------------------------------------------------------------------
\* The life of a process, and the open environment.

\* A process starts: its entries are fresh and each has the dial task it needs.
LEMMA StartKeeps ==
    ASSUME IrohInv, NEW n \in Local, Start(n)
    PROVE  IrohInv'
<1>1. \A m, t, d : Pending(m, t, d)' <=> Pending(m, t, d)
  BY SamePending DEF Start
<1>2. PICK slot \in [{p \in Peers(n) : ~(p > n)} -> Conn] :
         /\ \A p \in DOMAIN slot : slot[p].from = n /\ slot[p].to = p /\ Free(slot[p])
         /\ dial' = [c \in Conn |-> IF \E p \in DOMAIN slot : slot[p] = c
                                    THEN "connecting" ELSE dial[c]]
         /\ state_table' = [state_table EXCEPT ![n] =
               [p \in Node |->
                  IF p \notin Peers(n) THEN [type |-> "Unknown"]
                  ELSE IF p > n THEN [type |-> "WaitingIncomingConnection"]
                  ELSE [type |-> "Connecting", conn |-> slot[p]]]]
  BY DEF Start
<1>3. n \in Nat /\ n \in Node /\ Peers(n) \subseteq Node \ {n} /\ Node \subseteq Nat
  BY NodeType, WiringAssumption DEF Peers
<1>4. \A p \in Peers(n) : ~(p > n) =>
         /\ slot[p] \in Conn /\ slot[p].from = n /\ slot[p].to = p /\ n > p
         /\ slot[p] \notin dial_abort /\ dial'[slot[p]] = "connecting"
  <2> SUFFICES ASSUME NEW p \in Peers(n), ~(p > n)
               PROVE  /\ slot[p] \in Conn /\ slot[p].from = n /\ slot[p].to = p /\ n > p
                      /\ slot[p] \notin dial_abort /\ dial'[slot[p]] = "connecting"
    OBVIOUS
  <2>1. p \in DOMAIN slot /\ slot[p] \in Conn
    BY <1>2
  <2>2. slot[p].from = n /\ slot[p].to = p /\ Free(slot[p])
    BY <1>2, <2>1
  <2>3. n > p
    <3>1. p \in Nat /\ p # n
      BY <1>3
    <3> QED
      BY <1>3, <3>1
  <2>4. slot[p] \notin dial_abort
    BY <2>1, <2>2 DEF Free, IrohInv, TasksOK
  <2>5. dial'[slot[p]] = "connecting"
    BY <1>2, <2>1
  <2> QED
    BY <2>1, <2>2, <2>3, <2>4, <2>5
<1>5. \A d \in Conn : /\ dial'[d] \in {"none", "connecting", "connected", "sleeping"}
                      /\ dial[d] # "none" => dial'[d] # "none"
                      /\ dial'[d] # "none" => dial[d] # "none" \/ (d.from = n /\ n > d.to)
  <2>1. \A p \in DOMAIN slot : slot[p].from = n /\ n > slot[p].to
    BY <1>2, <1>4
  <2> QED
    BY <1>2, <2>1 DEF IrohInv, IrohTypeOK
<1>6. /\ \A m \in Local : m # n => state_table'[m] = state_table[m]
      /\ \A p \in Node : state_table'[n][p] = IF p \notin Peers(n) THEN [type |-> "Unknown"]
                            ELSE IF p > n THEN [type |-> "WaitingIncomingConnection"]
                            ELSE [type |-> "Connecting", conn |-> slot[p]]
  BY <1>2 DEF IrohInv, IrohTypeOK
<1>7. ASSUME NEW p \in Node
      PROVE  LET st == state_table'[n][p]
             IN \/ st.type = "Unknown"
                \/ st.type = "WaitingIncomingConnection" /\ n < p
                \/ /\ st.type = "Connecting"
                   /\ st.conn.from = n /\ st.conn.to = p /\ n > p
                   /\ st.conn \notin dial_abort /\ dial'[st.conn] = "connecting"
  <2>1. CASE p \notin Peers(n)
    <3>1. state_table'[n][p] = [type |-> "Unknown"]
      BY <1>6, <2>1
    <3> QED
      BY <3>1
  <2>2. CASE p \in Peers(n) /\ p > n
    <3>1. n < p
      BY <1>3, <2>2
    <3>2. state_table'[n][p] = [type |-> "WaitingIncomingConnection"]
      BY <1>6, <2>2
    <3> QED
      BY <3>1, <3>2
  <2>3. CASE p \in Peers(n) /\ ~(p > n)
    <3>1. state_table'[n][p] = [type |-> "Connecting", conn |-> slot[p]]
      BY <1>6, <2>3
    <3> QED
      BY <1>4, <2>3, <3>1
  <2> QED
    BY <2>1, <2>2, <2>3
<1>8. UNCHANGED <<iroh_to_coord, coord_to_iroh, manager, rx_from_tasks, dial_abort, accept,
                  ends, session, packet_channel, datagrams, faults>>
  BY DEF Start
<1>9. IrohTypeOK'
  <2>1. running' \in [Local -> BOOLEAN]
    BY DEF Start, IrohInv, IrohTypeOK, WiringTypeOK
  <2>2. dial' \in [Conn -> {"none", "connecting", "connected", "sleeping"}]
    BY <1>2, <1>5
  <2>3. [p \in Node |-> IF p \notin Peers(n) THEN [type |-> "Unknown"]
                        ELSE IF p > n THEN [type |-> "WaitingIncomingConnection"]
                        ELSE [type |-> "Connecting", conn |-> slot[p]]]
           \in [Node -> ConnectionState]
    BY <1>4 DEF ConnectionState
  <2>4. state_table' \in [Local -> [Node -> ConnectionState]]
    BY <1>2, <2>3 DEF IrohInv, IrohTypeOK
  <2> QED
    BY <1>8, <2>1, <2>2, <2>4 DEF IrohInv, IrohTypeOK, WiringTypeOK
<1>10. TasksOK' /\ EventsOK'
  BY <1>1, <1>5, <1>8 DEF IrohInv, TasksOK, EventsOK
<1>11. TableOK'
  <2> SUFFICES ASSUME NEW m \in Local, NEW q \in Node
               PROVE  TableOK!(m, q)'
    BY DEF TableOK
  <2>1. CASE m = n
    BY <1>8, <1>7, <2>1
  <2>2. CASE m # n
    BY <1>6, <1>8, <2>2 DEF IrohInv, TableOK
  <2> QED
    BY <2>1, <2>2
<1>12. ASSUME NEW m \in Local, NEW q \in Node
       PROVE  NoZombie!(m, q)'
  <2>1. CASE m = n
    BY <1>8, <1>7, <2>1
  <2>2. CASE m # n
    <3>1. ASSUME NEW x, x = state_table[m][q].conn, state_table[m][q].type = "Connecting",
                 dial[x] # "none"
          PROVE  dial'[x] # "none"
      BY <1>5, <3>1, EntryShape DEF IrohInv
    <3> QED
      BY <1>1, <1>6, <1>8, <2>2, <3>1 DEF IrohInv, NoZombie
  <2> QED
    BY <2>1, <2>2
<1> QED
  BY <1>9, <1>10, <1>11, <1>12 DEF IrohInv, NoZombie

\* A process is gone: nothing of it is left that an entry elsewhere relies on.
LEMMA IrohResetKeeps ==
    ASSUME IrohInv, NEW n \in Local, IrohReset(n), WiringTypeOK'
    PROVE  IrohInv'
<1>1. n \in Node /\ <<>> \in Seq(ConnectionEvent) /\ <<>> \in Seq(Packet) /\ Len(<<>>) = 0
      /\ 0 <= CHANNEL_CAPACITY
  BY NodeType, EmptySeq, IrohAssumption
<1>2. /\ \A m \in Local : m # n => /\ rx_from_tasks'[m] = rx_from_tasks[m]
                                   /\ state_table'[m] = state_table[m]
                                   /\ manager'[m] = manager[m]
      /\ rx_from_tasks'[n] = <<>>
      /\ \A p \in Node : state_table'[n][p] = [type |-> "Unknown"]
  BY DEF IrohReset, IrohInv, IrohTypeOK
<1>3. \A m \in Local : \A t, d : Pending(m, t, d)' <=> m # n /\ Pending(m, t, d)
  <2>1. \A x : ~Has(<<>>, x)
    BY DEF Has
  <2> QED
    BY <1>2, <2>1 DEF Pending
<1>4. IrohTypeOK'
  <2>1. state_table' \in [Local -> [Node -> ConnectionState]]
    BY DEF IrohReset, IrohInv, IrohTypeOK, ConnectionState
  <2>2. /\ manager' \in [Local -> Manager]
        /\ rx_from_tasks' \in [Local -> Seq(ConnectionEvent)]
        /\ \A m \in Local : Len(rx_from_tasks'[m]) <= CHANNEL_CAPACITY
    BY <1>1 DEF IrohReset, IrohInv, IrohTypeOK, Manager
  <2>3. /\ dial' \in [Conn -> {"none", "connecting", "connected", "sleeping"}]
        /\ dial_abort' \subseteq Conn
        /\ accept' \in [Conn -> {"none", "running"}]
    BY DEF IrohReset, IrohInv, IrohTypeOK
  <2>4. /\ ends' \in [Conn -> [Node -> {"none", "open", "closed"}]]
        /\ session' \in [Conn -> [Node -> {"none", "running", "aborted"}]]
        /\ datagrams' \in [Conn -> [Node -> SUBSET Packet]]
    BY DEF IrohReset, IrohInv, IrohTypeOK
  <2>5. packet_channel' \in [Conn -> [Node -> Seq(Packet)]]
    BY <1>1 DEF IrohReset, IrohInv, IrohTypeOK
  <2>6. ASSUME NEW d \in Conn, NEW m \in Node
        PROVE  Len(packet_channel'[d][m]) <= CHANNEL_CAPACITY
    BY <1>1 DEF IrohReset, IrohInv, IrohTypeOK
  <2>7. faults' \in 0..MaxFaults
    BY IrohAssumption DEF IrohReset, IrohInv, IrohTypeOK
  <2> QED
    BY <2>1, <2>2, <2>3, <2>4, <2>5, <2>6, <2>7 DEF IrohTypeOK
<1>5. TasksOK'
  BY DEF IrohReset, IrohInv, IrohTypeOK, TasksOK
<1>6. EventsOK'
  BY <1>3 DEF IrohInv, EventsOK
<1>7. TableOK'
  BY <1>2 DEF IrohReset, IrohInv, TableOK
<1>8. ASSUME NEW m \in Local, NEW q \in Node
      PROVE  NoZombie!(m, q)'
  <2>1. CASE m = n
    BY <1>2, <2>1
  <2>2. CASE m # n
    <3>1. ASSUME NEW x, x = state_table[m][q].conn, state_table[m][q].type = "Connecting"
          PROVE  dial'[x] = dial[x] /\ (x \in dial_abort' <=> x \in dial_abort)
      BY <2>2, <3>1, EntryShape DEF IrohReset, IrohInv, TableOK
    <3>2. ASSUME NEW x, x = state_table[m][q].conn, state_table[m][q].type = "Connected"
          PROVE  session'[x][m] = session[x][m]
      BY <2>2, <3>2, EntryShape, NodeType DEF IrohReset, IrohInv, IrohTypeOK
    <3> QED
      BY <1>2, <1>3, <2>2, <3>1, <3>2 DEF IrohInv, NoZombie
  <2> QED
    BY <2>1, <2>2
<1> QED
  BY <1>4, <1>5, <1>6, <1>7, <1>8 DEF IrohInv, NoZombie

\* The environment: a start, a crash, an action of the coordinator, a received event.
LEMMA IrohEnvKeeps ==
    ASSUME IrohInv, NEW n \in Local, IrohEnv(n)
    PROVE  IrohInv'
<1>1. CASE Start(n)
  BY <1>1, StartKeeps
<1>2. CASE /\ IrohReset(n)
           /\ iroh_to_coord' = [iroh_to_coord EXCEPT ![n] = <<>>]
           /\ coord_to_iroh' = [coord_to_iroh EXCEPT ![n] = <<>>]
  <2>1. /\ <<>> \in Seq(IrohEvent) /\ <<>> \in Seq(CoreAction)
        /\ Len(<<>>) = 0 /\ 0 <= INTERMOD_CHANNEL_CAPACITY
    BY EmptySeq, WiringAssumption
  <2>2. running' \in [Local -> BOOLEAN]
    BY <1>2 DEF IrohReset, IrohInv, IrohTypeOK, WiringTypeOK
  <2>3. WiringTypeOK'
    BY <1>2, <2>1, <2>2 DEF IrohInv, IrohTypeOK, WiringTypeOK
  <2> QED
    BY <1>2, <2>3, IrohResetKeeps
<1>3. ASSUME NEW action \in EnvAction[n],
             HasRoom(coord_to_iroh[n]),
             coord_to_iroh' = [coord_to_iroh EXCEPT ![n] = Append(@, action)],
             UNCHANGED <<running, iroh_to_coord, state_table, dial, tasksAndConns>>
      PROVE  IrohInv'
  <2>1. action \in CoreAction /\ coord_to_iroh[n] \in Seq(CoreAction)
    BY IrohAssumption DEF IrohInv, IrohTypeOK, WiringTypeOK
  <2>2. /\ Append(coord_to_iroh[n], action) \in Seq(CoreAction)
        /\ Len(Append(coord_to_iroh[n], action)) <= INTERMOD_CHANNEL_CAPACITY
    BY <1>3, <2>1, PutInRoom
  <2>3. WiringTypeOK'
    BY <1>3, <2>2 DEF IrohInv, IrohTypeOK, WiringTypeOK
  <2>4. IrohTypeOK' /\ TasksOK'
    BY <1>3, <2>3 DEF tasksAndConns, IrohInv, IrohTypeOK, TasksOK
  <2> QED
    BY <1>3, <2>4, QuietStep DEF tasksAndConns
<1>4. CASE /\ iroh_to_coord[n] # <<>>
           /\ iroh_to_coord' = [iroh_to_coord EXCEPT ![n] = Tail(@)]
           /\ UNCHANGED <<running, coord_to_iroh, state_table, dial, tasksAndConns>>
  <2> DEFINE s == iroh_to_coord[n]
  <2>1. s \in Seq(IrohEvent) /\ s # <<>> /\ Len(s) <= INTERMOD_CHANNEL_CAPACITY
    BY <1>4 DEF IrohInv, IrohTypeOK, WiringTypeOK
  <2>2. Tail(s) \in Seq(IrohEvent) /\ Len(s) \in Nat /\ Len(Tail(s)) \in Nat
        /\ Len(Tail(s)) <= Len(s)
    BY <2>1, Receive
  <2>3. Len(Tail(s)) <= INTERMOD_CHANNEL_CAPACITY
    BY <2>1, <2>2, WiringAssumption
  <2>4. WiringTypeOK'
    BY <1>4, <2>2, <2>3 DEF IrohInv, IrohTypeOK, WiringTypeOK
  <2>5. IrohTypeOK' /\ TasksOK'
    BY <1>4, <2>4 DEF tasksAndConns, IrohInv, IrohTypeOK, TasksOK
  <2> QED
    BY <1>4, <2>5, QuietStep DEF tasksAndConns
<1> QED
  BY <1>1, <1>2, <1>3, <1>4 DEF IrohEnv

-----------------------------------------------------------------------------
\* Every step.

\* Every handler of a manager keeps the invariant.
LEMMA ManagerStepKeeps ==
    ASSUME IrohInv, NEW n \in Local, ManagerStep(n)
    PROVE  IrohInv'
<1>1. CASE OutgoingConnection(n)
  BY <1>1, NewConnectionKeeps DEF OutgoingConnection
<1>2. CASE IncomingConnection(n)
  BY <1>2, NewConnectionKeeps DEF IncomingConnection
<1>3. CASE Disconnected(n)
  BY <1>3, DisconnectedKeeps
<1>4. CASE init_ready_connection(n)
  BY <1>4, InitReadyConnectionKeeps
<1>5. CASE ReconnectAfterLoss(n)
  BY <1>5, ReconnectAfterLossKeeps
<1>6. CASE SendPacketTo(n)
  BY <1>6, SendPacketToKeeps
<1>7. CASE ConnectToPeer(n)
  BY <1>7, ConnectToPeerKeeps
<1>8. CASE DisconnectFromPeer(n)
  BY <1>8, DisconnectFromPeerKeeps
<1>9. CASE DropConnected(n)
  BY <1>9, DropConnectedKeeps
<1> QED
  BY <1>1, <1>2, <1>3, <1>4, <1>5, <1>6, <1>7, <1>8, <1>9 DEF ManagerStep

\* Every step of a task or an endpoint keeps the invariant.
LEMMA TaskStepKeeps ==
    ASSUME IrohInv, NEW c \in Conn, TaskStep(c)
    PROVE  IrohInv'
<1>1. CASE ConnectOk(c) \/ ConnectErr(c) \/ ConnectRetry(c)
  BY <1>1, ConnectOkKeeps, ConnectErrKeeps, ConnectRetryKeeps
<1>2. CASE ConnectDone(c) \/ ConnectCancelled(c)
  BY <1>2, ConnectDoneKeeps, ConnectCancelledKeeps
<1>3. CASE AcceptOk(c) \/ AcceptErr(c) \/ ForeignConnect(c)
  BY <1>3, AcceptOkKeeps, AcceptErrKeeps, ForeignConnectKeeps
<1>4. ASSUME NEW n \in {c.from, c.to}
      PROVE  n \in Node
  BY ConnType
<1>5. ASSUME NEW n \in {c.from, c.to}, n \in Local,
             \/ SessionRead(c, n) \/ SessionSend(c, n) \/ SessionErr(c, n)
             \/ SessionChannelClosed(c, n) \/ SessionCancelled(c, n)
      PROVE  IrohInv'
  BY <1>5, SessionReadKeeps, SessionSendKeeps, SessionErrKeeps, SessionChannelClosedKeeps,
     SessionCancelledKeeps
<1>6. ASSUME NEW n \in {c.from, c.to},
             ConnectionLost(c, n) \/ HandlesDropped(c, n) \/ ForeignSend(c, n)
      PROVE  IrohInv'
  BY <1>4, <1>6, ConnectionLostKeeps, HandlesDroppedKeeps, ForeignSendKeeps
<1> QED
  BY <1>1, <1>2, <1>3, <1>5, <1>6 DEF TaskStep

\* Every step keeps the invariant, those of coordinators and foreign nodes too.
LEMMA IrohStep == IrohInv /\ [IrohNext]_irohVars => IrohInv'
<1> SUFFICES ASSUME IrohInv, [IrohNext]_irohVars
             PROVE  IrohInv'
  OBVIOUS
<1>1. ASSUME NEW n \in Local, ManagerStep(n) \/ IrohEnv(n)
      PROVE  IrohInv'
  BY <1>1, ManagerStepKeeps, IrohEnvKeeps
<1>2. ASSUME NEW c \in Conn, TaskStep(c)
      PROVE  IrohInv'
  BY <1>2, TaskStepKeeps
<1>3. CASE UNCHANGED irohVars
  <2>1. IrohTypeOK' /\ TasksOK'
    BY <1>3 DEF irohVars, IrohInv, IrohTypeOK, WiringTypeOK, TasksOK
  <2> QED
    BY <1>3, <2>1, QuietStep DEF irohVars
<1> QED
  BY <1>1, <1>2, <1>3 DEF IrohNext

\* At the start there are neither tasks nor connections.
LEMMA IrohStart == IrohInit => IrohInv
<1> SUFFICES ASSUME IrohInit
             PROVE  IrohInv
  OBVIOUS
<1>1. /\ <<>> \in Seq(IrohEvent) /\ <<>> \in Seq(CoreAction) /\ <<>> \in Seq(ConnectionEvent)
      /\ <<>> \in Seq(Packet) /\ Len(<<>>) = 0
      /\ 0 <= INTERMOD_CHANNEL_CAPACITY /\ 0 <= CHANNEL_CAPACITY /\ 0 \in 0..MaxFaults
  BY EmptySeq, WiringAssumption, IrohAssumption
<1>2. WiringTypeOK
  BY <1>1 DEF IrohInit, WiringInit, WiringTypeOK
<1>3. /\ [type |-> "Unknown"] \in ConnectionState
      /\ [at |-> "select"] \in Manager
  BY DEF ConnectionState, Manager
<1>4. IrohTypeOK
  BY <1>1, <1>2, <1>3 DEF IrohInit, IrohTypeOK
<1>5. \A m \in Local : \A t, d : ~Pending(m, t, d)
  BY DEF IrohInit, Pending, Has
<1>6. TasksOK /\ EventsOK
  BY <1>5 DEF IrohInit, TasksOK, EventsOK
<1>7. TableOK /\ NoZombie
  BY NodeType DEF IrohInit, TableOK, NoZombie
<1> QED
  BY <1>4, <1>6, <1>7 DEF IrohInv

\* The inductive invariant holds in every state of the managers, their tasks and
\* their connections, whatever the coordinators ask for and foreign nodes do.
THEOREM IrohInvariant == IrohSpec => []IrohInv
BY IrohStart, IrohStep, PTL DEF IrohSpec

\* The table of handle_conn_event, the awaits, the tasks and the bounded channels
\* of iroh.rs keep their types and capacities.
THEOREM IrohTypes == IrohSpec => []IrohTypeOK
<1>1. IrohInv => IrohTypeOK
  BY DEF IrohInv
<1> QED
  BY <1>1, IrohInvariant, PTL

\* The manager never waits for a dial task or a session that is no longer there:
\* every task that ends leaves its news behind first.
THEOREM ManagerNeverWaitsForZombie == IrohSpec => []NoZombie
<1>1. IrohInv => NoZombie
  BY DEF IrohInv
<1> QED
  BY <1>1, IrohInvariant, PTL

\* Between two nodes that run this program only the higher key dials.
THEOREM KeysDecideWhoDials == IrohSpec => []KeyOrder
<1>1. IrohInv => KeyOrder
  <2> SUFFICES ASSUME IrohInv, NEW n \in Local, NEW p \in Local
               PROVE  KeyOrder!(n, p)
    BY DEF KeyOrder
  <2>1. p \in Node
    BY NodeType
  <2>2. /\ state_table[n][p].type = "WaitingIncomingConnection" => n < p
        /\ state_table[n][p].type = "Connecting" => n > p
    BY <2>1 DEF IrohInv, TableOK
  <2>3. ASSUME NEW c \in Conn, Pending(n, "OutgoingConnection", c)
        PROVE  n > remote_id(c, n)
    BY <2>3 DEF IrohInv, EventsOK, remote_id
  <2>4. ASSUME NEW c \in Conn, Pending(n, "IncomingConnection", c), remote_id(c, n) \in Local
        PROVE  n < remote_id(c, n)
    <3>1. c.to = n /\ c.from # n /\ remote_id(c, n) = c.from /\ c.from > n
      BY <2>4, ConnType DEF IrohInv, EventsOK, remote_id
    <3> QED
      BY <3>1, ConnType
  <2> QED
    BY <2>2, <2>3, <2>4
<1> QED
  BY <1>1, IrohInvariant, PTL
=============================================================================
