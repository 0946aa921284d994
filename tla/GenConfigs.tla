----------------------------- MODULE GenConfigs -----------------------------
(***************************************************************************)
(* bin/gen_configs.rs: the generator of a full mesh.  It makes a key and   *)
(* an address for each of n nodes and writes the key files, then writes    *)
(* the configs, each with all the other nodes as peers.  It stops at the   *)
(* first error, can be killed anywhere, and can be run again on what is    *)
(* there.  The files are those of ConfigFile, and are read by its rules.   *)
(***************************************************************************)
EXTENDS ConfigFile

CONSTANT Sizes   \* the numbers of nodes an operator asks for

ASSUME GenAssumption ==
    /\ Sizes \subseteq Nat
    /\ \A n \in Sizes : 1..n \subseteq Site

VARIABLE gen   \* the generator: where it is, for how many nodes, at which file, its keys

genVars == <<key_file, config_file, used, gen>>

\* format!("10.67.1.{}", i)
Ip(i) == [in_subnet |-> TRUE, octet |-> i]

\* A config file that is missing, or not (yet) toml.
NoConfig == [well_formed |-> FALSE, peers_given |-> FALSE, node_ipv4 |-> Ip(0),
             log_level_known |-> FALSE, peers |-> <<>>]

GenInit ==
    /\ key_file = [i \in Site |-> Absent]
    /\ config_file = [i \in Site |-> NoConfig]
    /\ used = {}
    /\ gen = [at |-> "off", n |-> 0, i |-> 0, keys |-> <<>>]

\* main is called with the number of nodes.
Generate(n) ==
    /\ gen.at \in {"off", "ready"}
    /\ gen' = [at |-> "keys", n |-> n, i |-> 1, keys |-> <<>>]
    /\ UNCHANGED <<key_file, config_file, used>>

\* Variant with a bug: an error of fs::write is ignored.
CreateKeyFileUnchecked ==
    /\ gen.at = "keys"
    /\ gen.i <= gen.n
    /\ \E key \in SecretKey \ used :
          /\ used' = used \cup {key}
          /\ gen' = [gen EXCEPT !.i = @ + 1, !.keys = Append(@, key)]
    /\ UNCHANGED <<key_file, config_file>>

\* fs::write creates or empties the key file of node i ...
CreateKeyFile ==
    /\ gen.at = "keys"
    /\ gen.i <= gen.n
    /\ \E key \in SecretKey \ used :
          /\ used' = used \cup {key}
          /\ gen' = [gen EXCEPT !.at = "fill", !.keys = Append(@, key)]
    /\ key_file' = [key_file EXCEPT ![gen.i] = Short]
    /\ UNCHANGED config_file

\* ... and fills it.
FillKeyFile ==
    /\ gen.at = "fill"
    /\ key_file' = [key_file EXCEPT ![gen.i] = Whole(gen.keys[gen.i])]
    /\ gen' = [gen EXCEPT !.at = "keys", !.i = @ + 1]
    /\ UNCHANGED <<config_file, used>>

KeysDone ==
    /\ gen.at = "keys"
    /\ gen.i > gen.n
    /\ gen' = [gen EXCEPT !.at = "configs", !.i = 1]
    /\ UNCHANGED <<key_file, config_file, used>>

\* File::create empties the config of node i, ...
CreateConfig ==
    /\ gen.at = "configs"
    /\ gen.i <= gen.n
    /\ config_file' = [config_file EXCEPT ![gen.i] = NoConfig]
    /\ gen' = [gen EXCEPT !.at = "header"]
    /\ UNCHANGED <<key_file, used>>

\* ... the settings of the node are written, ...
WriteHeader ==
    /\ gen.at = "header"
    /\ config_file' = [config_file EXCEPT ![gen.i] =
                          [well_formed |-> TRUE, peers_given |-> FALSE, node_ipv4 |-> Ip(gen.i),
                           log_level_known |-> TRUE, peers |-> <<>>]]
    /\ gen' = [gen EXCEPT !.at = "peers"]
    /\ UNCHANGED <<key_file, used>>

\* The inner loop over the nodes skips i: the m-th node it writes.
OtherNode(i, m) == IF m < i THEN m ELSE m + 1

\* The peers of node i among the first j nodes.
PeerList(i, j) ==
    [m \in 1..(IF i <= j THEN j - 1 ELSE j) |->
        [pub_key |-> gen.keys[OtherNode(i, m)], ipv4 |-> Ip(OtherNode(i, m))]]

\* Variant with a bug: the node itself is not skipped.
WritePeersAll ==
    /\ gen.at = "peers"
    /\ config_file' = [config_file EXCEPT
                          ![gen.i].peers_given = TRUE,
                          ![gen.i].peers = [k \in 1..gen.n |->
                             [pub_key |-> gen.keys[k], ipv4 |-> Ip(k)]]]
    /\ gen' = [gen EXCEPT !.at = "configs", !.i = @ + 1]
    /\ UNCHANGED <<key_file, used>>

\* ... and then one block [[peers]] for every other node.
WritePeers ==
    /\ gen.at = "peers"
    /\ config_file' = [config_file EXCEPT
                          ![gen.i].peers_given = PeerList(gen.i, gen.n) # <<>>,
                          ![gen.i].peers = PeerList(gen.i, gen.n)]
    /\ gen' = [gen EXCEPT !.at = "configs", !.i = @ + 1]
    /\ UNCHANGED <<key_file, used>>

\* "Everything is ready!"
Ready ==
    /\ gen.at = "configs"
    /\ gen.i > gen.n
    /\ gen' = [gen EXCEPT !.at = "ready"]
    /\ UNCHANGED <<key_file, config_file, used>>

\* The generator is killed, or an operation on a file fails.  Of the blocks of
\* a config some may have been written, the last one perhaps not to its end.
Die ==
    /\ gen.at \notin {"off", "ready"}
    /\ gen' = [gen EXCEPT !.at = "off"]
    /\ \/ UNCHANGED config_file
       \/ /\ gen.at = "peers"
          /\ \E j \in 1..gen.n, whole \in BOOLEAN :
                config_file' = [config_file EXCEPT
                                  ![gen.i].well_formed = whole,
                                  ![gen.i].peers_given = PeerList(gen.i, j) # <<>>,
                                  ![gen.i].peers = PeerList(gen.i, j)]
    /\ UNCHANGED <<key_file, used>>

GenNext ==
    \/ \E n \in Sizes : Generate(n)
    \/ CreateKeyFile \/ FillKeyFile \/ KeysDone
    \/ CreateConfig \/ WriteHeader \/ WritePeers \/ Ready \/ Die

GenSpec == GenInit /\ [][GenNext]_genVars

-----------------------------------------------------------------------------
\* Properties.

\* The files of node i are what a full mesh of the first n nodes needs.
MemberOK(i, n) ==
    /\ Accepted(config_file[i])
    /\ config_file[i].node_ipv4 = Ip(i)
    /\ key_file[i].state = "whole"
    /\ get_peers(config_file[i]) =
          [a \in {Ip(j) : j \in (1..n) \ {i}} |-> key_file[a.octet].key]

(***************************************************************************)
(* When the generator says that everything is ready, the files are a full  *)
(* mesh, whatever earlier and interrupted runs left behind: from_file      *)
(* accepts every config, and it maps the address of every other node, and  *)
(* no other address, to the key in that node's key file.  For 2 to 255     *)
(* nodes: an address has one octet for the node's number, and a config     *)
(* without peers lacks a field that from_file demands.                     *)
(***************************************************************************)
ReadyIsMesh ==
    gen.at = "ready" /\ gen.n \in 2..MaxOctet => \A i \in 1..gen.n : MemberOK(i, gen.n)

(***************************************************************************)
(* A node that is started while the generator is still at work, or after   *)
(* it died, never makes up a key of its own (get_secret_key does so when   *)
(* the file is missing): a config that from_file can read always has its   *)
(* key file, if only a short one, which from_file refuses.                 *)
(***************************************************************************)
KeysFirst ==
    \A i \in Site : ParsesToml(config_file[i]) => key_file[i].state # "absent"

(***************************************************************************)
(* README.md, line 106: "Once the script finishes its work you will        *)
(* receive N configs and N Secret Keys for your network", where N is "the  *)
(* total number of nodes you wish to include".  Violated for more nodes    *)
(* than an octet can count: the address "10.67.1.256" is written into      *)
(* every config, and from_file refuses them all.                           *)
(***************************************************************************)
GeneratedIsUsable ==
    gen.at = "ready" => \A i \in 1..gen.n : Accepted(config_file[i])
=============================================================================
