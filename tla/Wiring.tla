------------------------------- MODULE Wiring -------------------------------
(***************************************************************************)
(* What the parts of a node share: the configuration a process is started  *)
(* with, the packets, the messages of the channels main.rs creates, and    *)
(* the two channels between the coordinator and the iroh manager.          *)
(*                                                                         *)
(* A node is named by its public key.  Keys are naturals because the       *)
(* program compares them (PublicKey: Ord) to decide who dials.             *)
(***************************************************************************)
EXTENDS Naturals, Sequences, FiniteSets

CONSTANTS
    Node,        \* the public keys of everyone who can reach the network
    Local,       \* the nodes that run this program; the others do as they like
    Ipv4,        \* tunnel addresses
    Ipv4Addr,    \* Ipv4Addr[n]: config.node_ipv4 of n
    RouteTable,  \* RouteTable[n]: config.peers of n, a map from addresses to keys
    Header,      \* the packet headers that occur, see Packet
    MaxReads,    \* bound: packets each TUN device hands to its node
    INTERMOD_CHANNEL_CAPACITY  \* capacity of each channel of main.rs

(***************************************************************************)
(* A process is configured with at least the keys of its peers, and its    *)
(* own key is not one of them: iroh refuses a connection to oneself, so    *)
(* such an entry is only retried for ever.                                 *)
(***************************************************************************)
ASSUME WiringAssumption ==
    /\ Node \subseteq Nat
    /\ Local \subseteq Node
    /\ Ipv4Addr \in [Local -> Ipv4]
    /\ DOMAIN RouteTable = Local
    /\ \A n \in Local :
          /\ DOMAIN RouteTable[n] \subseteq Ipv4
          /\ \A a \in DOMAIN RouteTable[n] : RouteTable[n][a] \in Node \ {n}
    /\ Header \subseteq [len : Nat, byte0 : 0..255, byte2 : 0..255, byte3 : 0..255,
                         ttl : 0..255, src_ip : Ipv4, dest_ip : Ipv4]
    /\ MaxReads \in Nat
    /\ INTERMOD_CHANNEL_CAPACITY \in Nat \ {0}

\* main.rs: the key set handed to Iroh::new; VpnCore::new derives the same set.
Peers(n) == {RouteTable[n][a] : a \in DOMAIN RouteTable[n]}

(***************************************************************************)
(* A packet: the header bytes the program looks at, and two history        *)
(* fields the program does not have: the node whose TUN device (or whose   *)
(* foreign process) produced it, and its place in that node's sequence of  *)
(* reads.                                                                  *)
(***************************************************************************)
Packet == [hdr : Header, origin : Node, seq : 0..MaxReads]

\* iroh.rs: IrohEvent
IrohEvent ==
    [type : {"ConnectedToPeer", "DisconnectedFromPeer"}, peer : Node]
    \cup [type : {"RecvPacketFrom"}, peer : Node, packet : Packet]

\* iroh.rs: CoreAction
CoreAction ==
    [type : {"ConnectToPeer", "DisconnectFromPeer"}, peer : Node]
    \cup [type : {"SendPacketTo"}, peer : Node, packet : Packet]

VARIABLES
    running,        \* running[n]: the process of n is up
    iroh_to_coord,  \* iroh_to_coord[n]: channel of IrohEvent
    coord_to_iroh   \* coord_to_iroh[n]: channel of CoreAction

wiringVars == <<running, iroh_to_coord, coord_to_iroh>>

WiringTypeOK ==
    /\ running \in [Local -> BOOLEAN]
    /\ iroh_to_coord \in [Local -> Seq(IrohEvent)]
    /\ coord_to_iroh \in [Local -> Seq(CoreAction)]
    /\ \A n \in Local : /\ Len(iroh_to_coord[n]) <= INTERMOD_CHANNEL_CAPACITY
                       /\ Len(coord_to_iroh[n]) <= INTERMOD_CHANNEL_CAPACITY

WiringInit ==
    /\ running = [n \in Local |-> FALSE]
    /\ iroh_to_coord = [n \in Local |-> <<>>]
    /\ coord_to_iroh = [n \in Local |-> <<>>]

\* The message is somewhere in the channel.
Has(channel, msg) == \E i \in DOMAIN channel : channel[i] = msg

\* tokio mpsc: a channel that holds fewer messages than its capacity has room.
HasRoom(channel) == Len(channel) < INTERMOD_CHANNEL_CAPACITY

\* try_send: a full channel drops the message.
TrySend(channel, msg) == IF HasRoom(channel) THEN Append(channel, msg) ELSE channel
=============================================================================
