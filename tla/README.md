# Verification of the mesh VPN

TLA+ specifications of the peer-to-peer mesh VPN in `src/`, the TLC instances
that check them, and TLAPS proofs. Paths below are relative to the repository.

## 1. The system

Every node runs one process. `main.rs` reads the config, creates four bounded
channels and starts three actors, which run until the first of them ends:

```
   TUN device                                        other nodes
       |                                                  |
   +-------+  tun_to_coord   +-------------+  coord_to_iroh  +------------+
   |  Tun  | --------------> | Coordinator | --------------> |    Iroh    |
   | actor | <-------------- |  + VpnCore  | <-------------- |  manager   |
   +-------+  coord_to_tun   +-------------+  iroh_to_coord  +------------+
                                                               | spawns
                                        dial, accept and session tasks
                                        --> rx_from_tasks --> manager
```

### Inventory

| Component | State | Operations | Correct when |
|---|---|---|---|
| VPN core `vpn_core.rs` | per peer: `is_connected`, `packet_queue`; the routing table | `process`: peer connected, peer disconnected, packet from TUN, packet from iroh | buffers are bounded, flushed completely and in order; no packet is stranded; nobody's address can be used by somebody else |
| IPv4 header `packet/ipv4.rs` | none | `Ipv4Packet::new` | rejects what is too short or not IPv4 |
| Coordinator `coord.rs` | the core, the actions not yet carried out | takes one event, carries out every action the core returns | keeps the order of packets; drops packets but no status events |
| Iroh manager `iroh.rs` | `state_table` (`Disconnected`, `WaitingIncomingConnection`, `Connecting`, `Connected`), `rx_from_tasks` | `handle_conn_event`, `handle_core_event`, `init` | one dialler per pair; never waits for a task that is gone; two peers always find each other again |
| Dial task `connect_to_peer` | its attempt | connect, retry every 2 s, hand over the connection | ends only with a connection, or aborted |
| Accept loop `accept_connections` | one task per handshake | accept anyone | strangers get nowhere |
| Session task `on_peer_connected` | the connection, its packet channel | read and send datagrams, report the end | its end is always noticed; it does not outlive its use |
| TUN actor `tun.rs` | where `run()` is, the device's two halves, two workers, their stop signals and reports | create, select, join, restart; read, write, classify errors, stop | one generation of workers at a time; every restart gets through; its end, or the coordinator's, reaches the other |
| Config `config.rs`, start of `main.rs` | the key file, the config file | read the config, read or create the key, validate, bind | the identity survives failed starts and crashes |
| Generator `bin/gen_configs.rs` | key files and configs of n nodes | write all keys, then all configs | what it leaves when it is done is a full mesh `from_file` accepts |
| `custom_transport.rs`, logger | | | not modelled, see section 8 |

### How the parts interact

* Actors talk only through the channels of `main.rs`. Packets are sent with
  `try_send` (a full channel drops them); status events and
  `DisconnectFromPeer` with `send().await` (the sender waits).
* The tasks of the manager report through `rx_from_tasks`, which waits when
  full.
* `run()` of the TUN actor and its two workers talk through oneshot channels:
  a stop signal to each worker, a report from each.
* When an actor ends, its ends of the channels are dropped and the others find
  them closed; `main` ends the process at the first one.
* The generator and the program share only files.
* Nodes meet through QUIC: the higher key dials, the lower key waits.

### What is hard

* **Interleavings.** Two tables, two cores and any number of tasks on two nodes
  decide about one link. Every `await` of the manager is a point where
  everything else moves.
* **Stale news.** `ConnectionEvent::Disconnected` names a peer, not a
  connection.
* **Cancellation.** `JoinHandle::abort` is a request; dropping a `JoinHandle`
  detaches the task; dropping the last `Connection` handle closes it.
* **Restarts inside a process.** Both TUN workers can fail at once, report in
  either order, and hold their half of the device a little longer than `run()`
  thinks.
* **Files.** A file is created and filled in two steps; a process can be killed
  between them.
* **Failure.** Processes crash and restart, connections break, handshakes
  succeed on one side only, datagrams get lost or reordered.

`PROJECT.json` lists every hazard at its line with the properties that cover it.

## 2. Modules

| Module | Models | Extends |
|---|---|---|
| `Wiring` | configuration, packets, messages, the channels between coordinator and manager | |
| `VpnCore` | `vpn_core.rs`, `packet/ipv4.rs` | `Wiring` |
| `Coordinator` | `coord.rs`, and the workers of `tun.rs` as it sees them; open specification `CoordSpec` | `VpnCore` |
| `LossyPipe` | abstract: a FIFO pipe for each lane that may lose packets | |
| `Tun` | `tun.rs` in full: `run()` and its two workers | `Coordinator` |
| `Host` | one process: coordinator, TUN actor, the end of either; iroh is an open environment | `Tun` |
| `ConfigFile` | the two files of a node and how `config.rs` reads them | |
| `Config` | `from_file` and the start of `main`, step by step, with crashes | `ConfigFile` |
| `GenConfigs` | `bin/gen_configs.rs` | `ConfigFile` |
| `Iroh` | `iroh.rs`: managers, tasks, QUIC; open specification `IrohSpec` | `Wiring` |
| `Mesh` | all actors of all nodes together, `MeshSpec` and `FairMeshSpec` | `Iroh`, `Coordinator` |
| `MC*` | instances for TLC | |
| `ChannelLemmas`, `CoordinatorProofs`, `IrohProofs`, `MeshProofs`, `HostProofs`, `ConfigProofs`, `GenProofs`, `NetworkProofs` | lemmas and theorems | |

`Mesh` composes the nodes and keeps the TUN actor down to its packets; `Host`
composes one process and keeps the iroh manager down to its messages. Both
implement `CoordSpec`, which is where they meet.

An operator called "Variant with a bug" in a module is a plausible mistake. No
specification uses it; it is there so that one can substitute it for the
definition that follows and see the property fail which guards against it.

### From code to model

* **Nodes.** A node is its public key, a natural number, since the program
  compares keys. `Local` are the nodes that run this program; the others are
  *foreign*: they dial whom they like, hang up when they like, send any packet
  of `Header` (`ForeignConnect`, `ForeignSend`) and may refuse datagrams
  (`ConnectionFails`).
* **Core.** `process()` runs without an await, so taking an event and computing
  its actions is one step. The resulting list is the variable `actions`;
  `handle_actions` carries out its head. `NoAction` only carries log text.
* **Manager.** A handler that awaits the channel to the coordinator is two
  actions. The variable `manager` says where the handler waits: `ready` (in
  `init_ready_connection`), `lost` (`Disconnected` in `Connected`), `drop`
  (`DisconnectFromPeer` in `Connected`).

  | Code | Actions |
  |---|---|
  | `handle_conn_event`, `OutgoingConnection` / `IncomingConnection` | `OutgoingConnection`, `IncomingConnection` (both `NewConnection`), then `init_ready_connection` |
  | `handle_conn_event`, `Disconnected` | `Disconnected`, then `ReconnectAfterLoss` |
  | `handle_core_event` | `SendPacketTo`, `ConnectToPeer`, `DisconnectFromPeer`, then `DropConnected` |
  | `Iroh::new`, `init` | `Start` |
  | `connect_to_peer` | `ConnectOk`, `ConnectErr`, `ConnectRetry`, `ConnectDone` |
  | `accept_connections` | `AcceptOk`, `AcceptErr` |
  | `on_peer_connected` | `SessionRead`, `SessionSend`, `SessionErr`, `SessionChannelClosed` |
  | tokio, QUIC | `ConnectCancelled`, `SessionCancelled`, `ConnectionLost`, `HandlesDropped` |

* **Connections.** A connection is named by its dialler, its target and a name
  from `ConnId`. A name is used again once nothing of the old connection is
  left (`Free`). `ends[c][n]` is what node `n`'s endpoint knows of it.
* **Abort.** An aborted session is `"aborted"`: it may still take any step of a
  session until `SessionCancelled`. An aborted dial task is in `dial_abort`.
* **History.** `conn` of a `Disconnected` event, and `origin` and `seq` of a
  packet, do not exist in the program. No action of the program reads them;
  they are there for properties (and `Free`).
* **The end of a process.** An actor that returns ends `main`, whatever the
  reason (a closed channel, `InternalError`, a panic of the others); together
  with a kill this is the one action `Crash` of `Mesh`. Its peers see silence.
* **TUN actor.** `tun[n].at` is where `run()` is: `create`, `sleep` (the two
  seconds), `select`, `join` (awaiting the second report), `ended`. The arms
  of `select!` mirror each other, so the worker is a parameter.

  | Code | Actions |
  |---|---|
  | `run`, creation | `CreateErr`, `Wake`, `CreateOk` |
  | `run`, `select!` | `SelectEnds`, then `Joined`, which returns or starts over |
  | both workers | `WorkerStops`, `WorkerFails` (with `classify_tun_error`), `WorkerReturns` |
  | `worker_tun_reader` | `ReaderReads`, `ReaderClosed` |
  | `worker_tun_writer` | `WriterTakes`, `WriteDone`, `WriterClosed` |

  A worker reports first and drops its half of the device when it returns
  (`WorkerReturns`). The kernel does not give out a name twice, so `CreateOk`
  needs both halves dropped; until then `run()` fails and sleeps. The errors
  that only drop a packet are no steps (reader) or `WriteDone` (writer).
* **Closed channels.** `closed` says that the coordinator has returned.
  `CoordReturns` is its discovery that the TUN actor is gone: `try_send` of a
  packet, or `recv`, says so. `CoordFails` is its return because of iroh.
  Variables of channels are not cleared when their reader goes: nobody looks.
* **Files.** A key file is absent, short (created and not filled, or truncated)
  or whole. `get_secret_key` reads it, `gen_secret_key` creates it and
  `WriteSecretKey` fills it; `Stop` may come before, between and after. A
  config is a record of what the checks ask of it. An address is "in the
  subnet or not" and its last octet *as written*; whether the text parses is
  `ParsesAddr`. The operator may rewrite the config at any time and remove a
  key file the program refuses; nobody removes a good one.
* **Generator.** Its loop variables are in `gen`. It writes unbuffered, so a
  kill leaves any prefix of a config: `Die` keeps some of the peers, the last
  of them perhaps cut off. It can be run again for another number of nodes.

## 3. Runs

| Run | Instance | Checks |
|---|---|---|
| `coordinator` | one node, one peer, a stranger; 3 packets from TUN and two from iroh, queue limit 2, channels of 2, restarts | `CoordTypeOK`, `BufferDiscipline`, `OrderedPipe`, `OutboundIsPipe`, `InboundIsPipe` |
| `iroh` | two managers, the dialler's coordinator connects and disconnects at will | `NoZombie`, `KeyOrder` |
| `iroh_foreign` | one manager and a foreign peer that dials against the order of the keys and while connected; 1 fault, channels of 1 | `IrohTypeOK`, `NoZombie` |
| `mesh` | two complete nodes, 2 faults | `ViewAgreement`, `NoZombie`, `RestIsLinked`, `CoordSpec`, `IrohSpec` |
| `mesh_live` | two complete nodes, 1 fault, fairness | `LinkedAgain`, `NoSessionLeak` |
| `foreign` | one node, two foreign peers, a stranger | `Whitelist`, `Authentic` |
| `traffic` | two complete nodes, 1 fault, a packet | `AtMostOnce` |
| `stable_tunnel` | two complete nodes, 1 fault | `StableTunnel`, violated |
| `host` | one process with its TUN actor, device errors, fairness | `HostTypeOK`, `OneGeneration`, `NoOrphanJoin`, `ImpossibleEvents`, `CoordSpec`, `Recovers`, `ShutdownSpreads` |
| `startup` | one site, four keys, a good config and six bad ones | `ConfigTypeOK`, `RunsWithSavedKey`, `OneIdentity`, `KeyKept` |
| `generator` | runs for several numbers of nodes, one after the other | `ReadyIsMesh`, `KeysFirst` |
| `generator_limit` | one node more than an octet can count | `GeneratedIsUsable`, violated |

* `BufferDiscipline`: the buffer of a peer that is up is empty (nothing would
  ever flush it) and no buffer exceeds its limit.
* `OrderedPipe`: from the TUN reader to the manager packets for one peer keep
  their order and are not duplicated.
* `OutboundIsPipe`, `InboundIsPipe`: for every peer the way from the TUN reader
  to the manager, and the way back for all peers together, implement
  `LossyPipe`. The mapping strings the channel, the action list, the buffer and
  the other channel together; a flush is then no visible step, and each other
  step may lose at most one packet. `LossyPipe` leaves open which packets go
  in: that none goes in twice on the way out is `OrderedPipe`.
* `NoZombie`: an entry `Connecting` or `Connected` has a living task, or the
  news of the task's end is on its way.
* `KeyOrder`: only the higher key dials; the branches of `handle_conn_event`
  that close a connection because "peer violated public keys invariant" are
  dead code between two nodes that run this program.
* `ViewAgreement`: the core's view, after the events still in the channel,
  equals the manager's table.
* `RestIsLinked`: when nothing is in flight, two peers share one connection and
  both cores know.
* `Whitelist`, `Authentic`: a stranger gets no entry, session or event; no
  packet reaches the TUN device under somebody else's address.
* `AtMostOnce`: a packet is in at most one place.
* `LinkedAgain`, `NoSessionLeak`: peers find each other again and again;
  sessions the manager has forgotten end.
* `CoordSpec`, `IrohSpec` as properties of the mesh: the open specifications
  over-approximate the environments `main.rs` wires the parts to, so what holds
  (and is proved) of them holds in the mesh.
* `OneGeneration`, `NoOrphanJoin`, `ImpossibleEvents`: the restart protocol of
  the TUN actor. No worker of an old device serves when the next is created,
  `run()` never waits for a report that cannot come, and the events marked
  `// impossible` are.
* `Recovers`: `run()` gets out of every restart, although the stop signal
  competes with packets and the writer looks at it only between two of them.
* `ShutdownSpreads`: the end of the coordinator or of the TUN actor reaches the
  other, although the second worker's report is thrown away. A `FatalError`
  lost that way costs a detour over a new device, whose writer finds the
  channel closed at once.
* `RunsWithSavedKey`, `KeyKept`, `OneIdentity`: a node that ran once keeps the
  key that its peers have in their whitelists.
* `ReadyIsMesh`, `KeysFirst`: the generator's files are a full mesh when it is
  done, and at no time does a config stand without its key file.

### The findings

`generator_limit` fails. The node's number is the last octet of its address
(`gen_configs.rs:27`). From 256 nodes on the generator still says "Everything
is ready!", but the address 10.67.1.256 stands in every config, and `from_file`
refuses them all; `src/README.md:104-106` promises N usable configs for any N.
The run has a smaller largest octet, `MaxOctet`.

`stable_tunnel` fails. Node 1 is connected to node 2 over k1; 2 crashes and
returns; its new connection k2 reaches 1. If the old session of 1 noticed the
silence in time, its `Disconnected` is queued behind `IncomingConnection(k2)`.
The manager replaces k1 by k2, both sides are up, then takes `Disconnected`,
which names only the peer, and drops k2 (`iroh.rs:247`). The README
(`src/README.md:174`) speaks of "a single, stable P2P tunnel per peer pair".
The pair recovers, as `mesh_live` shows: the cost is a reconnection and the
packets in between. The violation does not hinge on the aborted session's last
poll; it is still found when aborted sessions are not allowed to report.

### Bounds

* Two nodes: a link is a matter of two tables, and the manager handles the
  entries of different peers independently. The proofs have no bound.
* `ConnId`: two names suffice for one connection to replace another while
  events of the first are pending.
* `MaxFaults` bounds crashes, broken connections and half-failed handshakes.
  Failed attempts to connect, and losses that follow from the other end's
  closing, are not counted and occur any number of times.
* No core asks for a disconnect, so `DisconnectFromPeer` does not occur in the
  runs of `Mesh`. What the manager makes of it is checked in `iroh` and
  `iroh_foreign`, whose coordinator is an open environment.
* `mesh_live` has no packets: `NoSessionLeak` is checked there for sessions with
  an empty packet channel. In `iroh_foreign` forgotten sessions hold packets,
  but nothing is checked of their end.
* `MaxReads` bounds packets from a TUN device. Channel capacities are 1 or 2
  (100 and more in the code), so that full channels occur.
* `iroh` has no faults: aborts, reconnects and crossing events come from the
  coordinator's actions there; crashes and losses are in the `mesh` runs and in
  `iroh_foreign`. The latter has one name per direction: the peer's connection
  replaces the one the manager dialled, and the other way round.
* Symmetry: the names in `ConnId` are interchangeable; not used for liveness.
* `MaxTunErrors` bounds the errors of the device that end a worker: two, so that
  both workers of one device, or two devices in a row, can fail. Failed
  creations are not counted. Channels of capacity 1 are full after one packet.
* `startup`: enough keys that a new one can appear after each of several
  crashes; all but the one in the configs are interchangeable. Sites do not share anything.
* `MaxOctet` stands for 255. `Sizes` are on both sides of what is special: no
  peers, one peer, more; a second run with another size finds files of the
  first.
* `CHECK_DEADLOCK FALSE` in the runs of `Iroh` and `Mesh`: a healthy mesh without
  traffic has nothing to do, and comes to rest when the faults are used up.
  That it can rest only there is `RestIsLinked`.

### Fairness

Weak fairness for every actor, task and endpoint: tokio polls what is ready,
`select!` picks branches at random, a channel with room wakes its sender, QUIC
notices a silent peer, and a stopped node is started again. Strong fairness for
a successful `connect`: the code retries for ever, and an attempt cannot fail
for ever between two live nodes. Nothing is assumed of packets or of faults,
except that the faults are finitely many.

`FairHostSpec` assumes that `write()` on a TUN device returns, that a device
which can be created is created at some attempt (strong fairness; `run()`
tries for ever), that errors of the device are finitely many, and that
`select!`, which picks among ready branches at random, does not pass over a
branch that is ready again and again: strong fairness for the stop signals,
for the packets from TUN in the coordinator and for its discovery of a closed
channel. Packets from the device and from iroh, and `main` itself, are free.

## 4. What is proved

For every configuration that satisfies `WiringAssumption`, `VpnCoreAssumption`,
`IrohAssumption`, `EnvEventAssumption`, `TunAssumption`, `ConfigAssumption`,
`TextAssumption` and `GenAssumption`: any number of nodes, addresses,
connections, packets, faults, and any positive capacities.

* `CoordinatorProofs`: `CoordSpec` implies `CoordTypeOK` and
  `BufferDiscipline` always. The invariant `CoordInv` is their conjunction: a
  queue's limit needs the type of the queue, and the emptiness of a connected
  peer's queue needs that `on_peer_connected` drains it.

  It also implies `OutboundIsPipe`, `InboundIsPipe` and `OrderedPipe`. A pipe is
  made of stages (`PipeOf`, `InOf`), each the packets of one channel, and
  `PacketsOf` is a recursive function over a channel. What it gives after an
  `Append`, a `Tail`, or for the actions of a flushed buffer are lemmas. A step
  then is one of few things to a pipe: a packet passes from the front of a
  stage to the end of the next and nothing is visible (`JoinMoves`), a packet
  is lost (`Loses`), one enters behind, one leaves in front, or all is gone with
  the process. `OrderedPipe` is not inductive: a packet that is read must be
  newer than all in the pipe, so `OrderInv` adds that none has a number above
  `reads`.
* `IrohProofs`: `IrohSpec` implies `IrohTypeOK`, `NoZombie` and `KeyOrder`
  always, against any coordinator and any foreign nodes. `NoZombie` is not
  inductive. When an aborted dial task goes away, one must know that no entry
  relies on it; when a session ends or a connection is replaced, that the entry
  it stands in is that of its own peer; when an `OutgoingConnection` is taken,
  that it belongs to the node that takes it. `IrohInv` adds this:
  * `TasksOK`: dial tasks, and the handshakes they start, follow the order of
    the keys; only living tasks are marked for abortion;
  * `EventsOK`: so do the connections on their way to a manager;
  * `TableOK`: an entry's connection is one with that entry's peer, and an
    aborted dial stands in no entry.

  Each action has its lemma. Most actions are instances of two frame lemmas:
  `QuietStep` (no event moves, no task ends, no entry changes) and
  `FreshEntryKeeps` (one entry starts over).
* `MeshProofs`: `MeshSpec` implements `CoordSpec` and `IrohSpec`, so each part
  keeps its promises in the composition (`MeshSafety`: `NoZombie`, `KeyOrder`
  and `BufferDiscipline`). The refinement mapping is the identity. A step of
  one part is a step of the other's environment, which is only true of running
  processes: the coordinator's specification gives a stopped node nothing to
  do. The invariant `MeshInv` therefore adds `DownIsEmpty` to those of the
  parts: of a process that is down no message, handler, task or pending action
  is left. The assumption `OpenEnvironments` says that the environments of the
  open specifications may send every message of the two channels, as in
  `MCMesh`; an environment that sent less would not cover the real one.

* `HostProofs`: `HostSpec` implements `CoordSpec` (the mapping is the identity:
  what restarts, errors and signals of the TUN actor do to the coordinator is
  `TunRead`, `TunWrite` or nothing), and implies `HostTypeOK`, `OneGeneration`,
  `NoOrphanJoin` and `ImpossibleEvents` always. They are not inductive: that an
  `Info` never decides needs that nobody has been told to stop while `run()`
  waits for the first report (`SelectOK`), and that no worker is left when the
  next device is created needs that the one that reported first is gone while
  `run()` waits for the other (`JoinOK`).
* `ConfigProofs`: `ConfigSpec` implies `ConfigTypeOK`, `RunsWithSavedKey` and
  `OneIdentity` always, and `KeyKept`. `FileOK` ties every place of the process
  to a state of its key file (nothing whole is there while a key is made), and
  every key the node ever ran under to the key in the file.
* `GenProofs`: `GenSpec` implies `KeysFirst` always, for any number of nodes:
  the loop over the keys is over before the first config is touched. It also
  implies `ReadyIsMesh`: `FilesInv` says how far both loops have come, which
  keys are in their files and which configs are complete, so that what earlier
  runs left has been overwritten when the loops are over.
* `NetworkProofs`: `MeshSpec`, under `OpenEnvironments`, implies the invariants
  that span several nodes.
  * `Whitelist` and `Authentic` follow from `AdmitInv`, which says of every
    place in the mesh what may stand there: in the channels and buffers of a
    node its own packets on the way out, and packets of the peer they came from
    on the way in; in tables, handlers and sessions no stranger. That no entry
    is ever `Disconnected` belongs to it: `DisconnectFromPeer` would enter any
    key, and no core asks for it.
  * `ViewAgreement` compares the core with the table after *all* pending news,
    so a step in the middle says nothing about it; `ViewInv` states it by the
    last news for a peer (`View`), which an `Append` replaces and a `Tail`
    leaves alone, and adds that a stopped node is connected to nobody.
  * `RestIsLinked` needs, besides those and `NoZombie`, that a connection which
    somebody holds still has its end at that node (`HeldIsThere`), and that a
    connection has no other ends (`EndsAreEnds`): `HeldInv`.
  * `AtMostOnce` counts copies in eight kinds of places. `OnceInv` says it for
    one packet at a time without counting (`OneCopy`): it is in one place, once
    in it, and its number is at most its origin's `reads`. The last part is
    what makes a packet new that is read now. Every action either adds nothing
    anywhere (`KeepAll`) or passes a packet from one place to another
    (`PassOn`); the step to `Cardinality` comes at the very end.
  * `MeshPipes`, and `HostPipes` of `HostProofs`: both compositions implement
    `CoordSpec`, so the pipes and `OrderedPipe` hold in them.

The library's induction theorems cannot be used with the provers at hand. Where
a proof goes along a sequence, it uses `LeastNumber` of `ChannelLemmas` (a set
of naturals that is not empty has a least element, from the well-foundedness
of `<`) or `CountUp` (a set that has 0 and with each number the next one has
them all). Both are about sets, so nothing has to be instantiated.

`OpenEnvironments` holds in `MCMesh` and its like; it constrains the constants
`EnvEvent` and `EnvAction`, which the mesh itself does not use.

## 5. Only model-checked

Every invariant of the runs that pass has a theorem, and so has every action
property and refinement. `LinkedAgain`, `NoSessionLeak`, `Recovers` and
`ShutdownSpreads` are liveness under fairness, out of the prover's reach. The
two violations, `StableTunnel` and `GeneratedIsUsable`, are counterexamples of
TLC.

## 6. Checking

```
tlc -workers 2 -config Mesh.cfg MCMesh
tlapm NetworkProofs.tla     # six minutes from nothing, IrohProofs five; the others take less
```

## 7. Plan

1. Done: all modules and runs above, and a theorem for every property of theirs
   that is not liveness.
2. Left: action properties between the steps of the mesh that would shorten the
   arguments for `LinkedAgain` and `NoSessionLeak` (what a step may never undo),
   which could be proved although the liveness itself cannot. First of them: a
   session the manager has forgotten is never taken back, and its packet channel
   only shrinks; this is what `mesh_live` does not exercise.

## 8. Not modelled

* `custom_transport.rs`: a constant congestion window; numbers for the library.
* The logger, and the wording of logs and close reasons.
* Ports, interface names, paths, and the option `mtu`, which `from_file` reads
  and `main.rs:35` does not use.
* Two processes with one key file: both could find it missing and generate a
  key. The program takes no lock; one process per key file is assumed.
* A config may name peers outside the subnet, or the node itself: `get_peers`
  checks neither. The composed models assume (`WiringAssumption`) that a node's
  own key is not among its peers.
* The generator for one node: the config lacks the field `peers` that
  `from_file` demands. `ReadyIsMesh` speaks of two nodes and more.
* IPv6, DNS, relays and NAT traversal inside iroh: a connection attempt
  succeeds or fails.
* Time: timeouts are events that may happen once their cause is there.
