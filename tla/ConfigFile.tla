----------------------------- MODULE ConfigFile -----------------------------
(***************************************************************************)
(* The two files of a node and how config.rs reads them.  Ports, names,    *)
(* paths, the mtu and the texts of errors are left out.  An address is     *)
(* what the checks ask of it: whether it lies in the subnet, and its last  *)
(* octet as written; a text that is no address is one whose octet is too   *)
(* large.  A public key is named like its secret key.                      *)
(***************************************************************************)
EXTENDS Naturals, Sequences

CONSTANTS
    Site,        \* the places where the program is installed, each with its own files
    SecretKey,   \* the keys SecretKey::generate may come up with
    BadKey,      \* no key: what is in a short key file, or malformed in a config
    MaxOctet     \* the largest number an octet of an address can hold

AddrText == [in_subnet : BOOLEAN, octet : Nat]

\* ConfigToml and Peer.  well_formed: toml::from_slice finds toml with the
\* required fields other than peers; peers_given: the field peers is there.
ConfigToml == [well_formed : BOOLEAN, peers_given : BOOLEAN, node_ipv4 : AddrText,
               log_level_known : BOOLEAN,
               peers : Seq([pub_key : SecretKey \cup {BadKey}, ipv4 : AddrText])]

ASSUME ConfigAssumption ==
    /\ BadKey \notin SecretKey
    /\ MaxOctet \in Nat

VARIABLES
    key_file,     \* key_file[i]: absent, short, or whole with a key
    config_file,  \* config_file[i]: the config, as ConfigToml
    used          \* the keys generate() has returned so far

KeyFile == [state : {"absent", "short"}, key : {BadKey}] \cup [state : {"whole"}, key : SecretKey]

Absent == [state |-> "absent", key |-> BadKey]

Short == [state |-> "short", key |-> BadKey]

Whole(key) == [state |-> "whole", key |-> key]

FileTypeOK ==
    /\ key_file \in [Site -> KeyFile]
    /\ config_file \in [Site -> ConfigToml]
    /\ used \subseteq SecretKey

-----------------------------------------------------------------------------
\* Ipv4Addr::from_str
ParsesAddr(addr) == addr.octet <= MaxOctet

\* toml::from_slice: peers is the one field a config without peers can miss.
ParsesToml(text) == text.well_formed /\ text.peers_given

\* get_peers: every entry must parse.
PeersOK(text) ==
    \A j \in DOMAIN text.peers :
        ParsesAddr(text.peers[j].ipv4) /\ text.peers[j].pub_key # BadKey

\* get_peers: the map; of two entries for one address the later one wins.
get_peers(text) ==
    LET Addr == {text.peers[j].ipv4 : j \in DOMAIN text.peers}
        LastOf(a) == CHOOSE j \in DOMAIN text.peers :
                        /\ text.peers[j].ipv4 = a
                        /\ \A k \in DOMAIN text.peers : text.peers[k].ipv4 = a => k <= j
    IN [a \in Addr |-> text.peers[LastOf(a)].pub_key]

\* The checks that follow the key: peers, own address, subnet, log level.
ChecksPass(text) ==
    /\ PeersOK(text)
    /\ ParsesAddr(text.node_ipv4)
    /\ text.node_ipv4.in_subnet
    /\ text.log_level_known

\* from_file accepts a config whose key file is readable.
Accepted(text) == ParsesToml(text) /\ ChecksPass(text)
=============================================================================
