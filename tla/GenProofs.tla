----------------------------- MODULE GenProofs ------------------------------
(***************************************************************************)
(* The generator for any number of nodes: a config never exists without    *)
(* its key file, and when the generator is done its files are a full mesh. *)
(***************************************************************************)
EXTENDS GenConfigs, TLAPS

\* Once the configs are being written, all n key files exist; before that,
\* those of the nodes already done.
GenInv ==
    /\ \A j \in Site : ParsesToml(config_file[j]) => key_file[j].state # "absent"
    /\ DOMAIN key_file = Site /\ DOMAIN config_file = Site
    /\ gen \in [at : {"off", "keys", "fill", "configs", "header", "peers", "ready"},
               n : Nat, i : Nat, keys : Seq(SecretKey)]
    /\ 1..gen.n \subseteq Site
    /\ gen.at \in {"keys", "fill"} =>
          /\ gen.i >= 1
          /\ \A j \in 1..gen.n : j < gen.i => key_file[j].state # "absent"
    /\ gen.at = "fill" => gen.i <= gen.n
    /\ gen.at \in {"configs", "header", "peers"} =>
          /\ gen.i >= 1
          /\ \A j \in 1..gen.n : key_file[j].state # "absent"
    /\ gen.at \in {"header", "peers"} => gen.i <= gen.n

\* A file that was created exists, and an empty config does not parse.
LEMMA FileStates ==
    Short.state # "absent" /\ (\A k : Whole(k).state # "absent") /\ ~ParsesToml(NoConfig)
BY DEF Short, Whole, ParsesToml, NoConfig

\* At first there are no files.
LEMMA GenInitEstablishes ==
    ASSUME GenInit
    PROVE  GenInv
BY FileStates DEF GenInit, GenInv

\* All that a step of the loop over the configs does to them.
LEMMA OneConfigWritten ==
    ASSUME GenInv, WriteHeader \/ WritePeers \/ (Die /\ gen.at = "peers")
    PROVE  /\ DOMAIN config_file' = Site
           /\ \A j \in Site : j # gen.i => config_file'[j] = config_file[j]
<1>1. CASE WriteHeader
  BY <1>1 DEF GenInv, WriteHeader
<1>2. CASE WritePeers
  BY <1>2 DEF GenInv, WritePeers
<1>3. CASE Die /\ gen.at = "peers"
  BY <1>3 DEF GenInv, Die
<1> QED
  BY <1>1, <1>2, <1>3

\* The loop over the keys keeps the invariant.
LEMMA KeyStepsKeep ==
    ASSUME GenInv, CreateKeyFile \/ FillKeyFile \/ KeysDone
    PROVE  GenInv'
<1> USE DEF GenInv
<1>1. CASE CreateKeyFile
  <2>1. PICK key \in SecretKey \ used :
          gen' = [gen EXCEPT !.at = "fill", !.keys = Append(gen.keys, key)]
    BY <1>1 DEF CreateKeyFile
  <2>2. gen' = [at |-> "fill", n |-> gen.n, i |-> gen.i, keys |-> Append(gen.keys, key)]
    BY <2>1
  <2>3. gen' \in [at : {"off", "keys", "fill", "configs", "header", "peers", "ready"},
                  n : Nat, i : Nat, keys : Seq(SecretKey)]
    BY <2>1, <2>2
  <2>4. gen.at = "keys" /\ gen.i <= gen.n /\ config_file' = config_file
    BY <1>1 DEF CreateKeyFile
  <2>5. /\ DOMAIN key_file' = Site
        /\ \A j \in Site : key_file[j].state # "absent" => key_file'[j].state # "absent"
    BY <1>1, FileStates DEF CreateKeyFile
  <2> QED
    BY <2>2, <2>3, <2>4, <2>5
<1>2. CASE FillKeyFile
  <2>1. gen' = [at |-> "keys", n |-> gen.n, i |-> gen.i + 1, keys |-> gen.keys]
    BY <1>2 DEF FillKeyFile
  <2> QED
    BY <1>2, <2>1, FileStates DEF FillKeyFile
<1>3. CASE KeysDone
  <2>1. gen' = [at |-> "configs", n |-> gen.n, i |-> 1, keys |-> gen.keys]
    BY <1>3 DEF KeysDone
  <2> QED
    BY <1>3, <2>1 DEF KeysDone
<1> QED
  BY <1>1, <1>2, <1>3

\* The loop over the configs keeps the invariant, also if it is cut off.
LEMMA ConfigStepsKeep ==
    ASSUME GenInv, CreateConfig \/ WriteHeader \/ WritePeers \/ Ready \/ Die
    PROVE  GenInv'
<1> USE DEF GenInv
<1>1. CASE CreateConfig
  <2>1. gen' = [at |-> "header", n |-> gen.n, i |-> gen.i, keys |-> gen.keys]
    BY <1>1 DEF CreateConfig
  <2> QED
    BY <1>1, <2>1, FileStates DEF CreateConfig
<1>2. CASE WriteHeader
  <2>1. gen' = [at |-> "peers", n |-> gen.n, i |-> gen.i, keys |-> gen.keys]
    BY <1>2 DEF WriteHeader
  <2> QED
    BY <1>2, <2>1, OneConfigWritten DEF WriteHeader
<1>3. CASE WritePeers
  <2>1. gen' = [at |-> "configs", n |-> gen.n, i |-> gen.i + 1, keys |-> gen.keys]
    BY <1>3 DEF WritePeers
  <2>2. gen.at = "peers" /\ key_file' = key_file
    BY <1>3 DEF WritePeers
  <2> QED
    BY <1>3, <2>1, <2>2, OneConfigWritten
<1>4. CASE Ready
  <2>1. gen' = [at |-> "ready", n |-> gen.n, i |-> gen.i, keys |-> gen.keys]
    BY <1>4 DEF Ready
  <2> QED
    BY <1>4, <2>1 DEF Ready
<1>5. CASE Die
  <2>1. gen' = [at |-> "off", n |-> gen.n, i |-> gen.i, keys |-> gen.keys] /\ key_file' = key_file
    BY <1>5 DEF Die
  <2>2. CASE config_file' = config_file
    BY <2>1, <2>2
  <2>3. CASE gen.at = "peers"
    BY <1>5, <2>1, <2>3, OneConfigWritten
  <2> QED
    BY <1>5, <2>2, <2>3 DEF Die
<1> QED
  BY <1>1, <1>2, <1>3, <1>4, <1>5

\* Every step of the generator keeps GenInv.
LEMMA GenNextKeeps ==
    ASSUME GenInv, [GenNext]_genVars
    PROVE  GenInv'
<1>1. CASE UNCHANGED genVars
  BY <1>1 DEF genVars, GenInv
<1>2. ASSUME NEW n \in Sizes, Generate(n) PROVE GenInv'
  BY <1>2, GenAssumption DEF Generate, GenInv
<1> QED
  BY <1>1, <1>2, KeyStepsKeep, ConfigStepsKeep DEF GenNext

\* However the generator is interrupted and run again, a config that can be
\* read has its key file, so no node makes up a key of its own.
THEOREM KeyBeforeConfig == GenSpec => []KeysFirst
<1>1. GenSpec => []GenInv
  BY GenInitEstablishes, GenNextKeeps, PTL DEF GenSpec
<1>2. GenInv => KeysFirst
  BY DEF GenInv, KeysFirst
<1> QED
  BY <1>1, <1>2, PTL

-----------------------------------------------------------------------------
\* What the generator has written so far, and with which keys.

\* The complete config of node j, with the keys of this run.
ConfigOf(j) ==
    [well_formed |-> TRUE, peers_given |-> PeerList(j, gen.n) # <<>>, node_ipv4 |-> Ip(j),
     log_level_known |-> TRUE, peers |-> PeerList(j, gen.n)]

\* The key file of node j holds the key of this run.
KeyWritten(j) == key_file[j] = Whole(gen.keys[j])

\* The files of the nodes the loops are done with, whatever was there before.
FilesInv ==
    /\ gen.at = "keys" =>
          /\ gen.i <= gen.n + 1 /\ Len(gen.keys) = gen.i - 1
          /\ \A j \in 1..gen.n : j < gen.i => KeyWritten(j)
    /\ gen.at = "fill" =>
          /\ Len(gen.keys) = gen.i
          /\ \A j \in 1..gen.n : j < gen.i => KeyWritten(j)
    /\ gen.at \in {"configs", "header", "peers", "ready"} =>
          /\ Len(gen.keys) = gen.n
          /\ \A j \in 1..gen.n : KeyWritten(j)
          /\ \A j \in 1..gen.n : j < gen.i => config_file[j] = ConfigOf(j)
    /\ gen.at = "peers" =>
          config_file[gen.i] = [well_formed |-> TRUE, peers_given |-> FALSE,
                                node_ipv4 |-> Ip(gen.i), log_level_known |-> TRUE,
                                peers |-> <<>>]
    /\ gen.at = "ready" => gen.i > gen.n

\* The configs that are written depend on the keys and the number of nodes only.
LEMMA ConfigOfSame ==
    ASSUME gen'.keys = gen.keys, gen'.n = gen.n, NEW j
    PROVE  ConfigOf(j)' = ConfigOf(j)
BY DEF ConfigOf, PeerList, Ip, OtherNode

\* The loop over the keys.
LEMMA KeyStepsWrite ==
    ASSUME GenInv, FilesInv, CreateKeyFile \/ FillKeyFile \/ KeysDone
    PROVE  FilesInv'
<1>0. gen.i \in Nat /\ gen.n \in Nat /\ gen.keys \in Seq(SecretKey) /\ DOMAIN key_file = Site
      /\ 1..gen.n \subseteq Site
  BY DEF GenInv
<1>1. CASE CreateKeyFile
  <2>1. PICK key \in SecretKey \ used :
          gen' = [gen EXCEPT !.at = "fill", !.keys = Append(gen.keys, key)]
    BY <1>1 DEF CreateKeyFile
  <2>2. gen' = [at |-> "fill", n |-> gen.n, i |-> gen.i, keys |-> Append(gen.keys, key)]
    BY <2>1 DEF GenInv
  <2>3. /\ gen.at = "keys" /\ gen.i <= gen.n /\ gen.i >= 1
        /\ key_file' = [key_file EXCEPT ![gen.i] = Short]
    BY <1>1 DEF CreateKeyFile, GenInv
  <2>4. Len(gen.keys) = gen.i - 1 /\ \A j \in 1..gen.n : j < gen.i => KeyWritten(j)
    BY <2>3 DEF FilesInv
  <2>5. /\ Len(Append(gen.keys, key)) = gen.i
        /\ \A j \in 1..(gen.i - 1) : Append(gen.keys, key)[j] = gen.keys[j]
    BY <1>0, <2>3, <2>4
  <2>6. ASSUME NEW j \in 1..gen.n, j < gen.i
        PROVE  KeyWritten(j)'
    <3>1. j \in 1..(gen.i - 1) /\ j # gen.i
      BY <1>0, <2>6
    <3>2. key_file'[j] = key_file[j] /\ gen'.keys[j] = gen.keys[j]
      BY <1>0, <2>2, <2>3, <2>5, <3>1
    <3> QED
      BY <2>4, <2>6, <3>2 DEF KeyWritten, Whole
  <2> QED
    BY <2>2, <2>5, <2>6 DEF FilesInv
<1>2. CASE FillKeyFile
  <2>1. gen' = [at |-> "keys", n |-> gen.n, i |-> gen.i + 1, keys |-> gen.keys]
    BY <1>2 DEF FillKeyFile, GenInv
  <2>2. /\ gen.at = "fill" /\ gen.i <= gen.n /\ gen.i >= 1
        /\ key_file' = [key_file EXCEPT ![gen.i] = Whole(gen.keys[gen.i])]
    BY <1>2 DEF FillKeyFile, GenInv
  <2>3. Len(gen.keys) = gen.i /\ \A j \in 1..gen.n : j < gen.i => KeyWritten(j)
    BY <2>2 DEF FilesInv
  <2>4. ASSUME NEW j \in 1..gen.n, j < gen.i + 1
        PROVE  KeyWritten(j)'
    <3>1. CASE j = gen.i
      BY <1>0, <2>1, <2>2, <3>1 DEF KeyWritten, Whole
    <3>2. CASE j # gen.i
      <4>1. j < gen.i /\ key_file'[j] = key_file[j]
        BY <1>0, <2>2, <2>4, <3>2
      <4> QED
        BY <2>1, <2>3, <4>1 DEF KeyWritten, Whole
    <3> QED
      BY <3>1, <3>2
  <2>5. gen.i + 1 <= gen.n + 1 /\ Len(gen.keys) = (gen.i + 1) - 1
    BY <1>0, <2>2, <2>3
  <2> QED
    BY <2>1, <2>4, <2>5 DEF FilesInv
<1>3. CASE KeysDone
  <2>1. gen' = [at |-> "configs", n |-> gen.n, i |-> 1, keys |-> gen.keys]
    BY <1>3 DEF KeysDone, GenInv
  <2>2. gen.at = "keys" /\ gen.i > gen.n /\ UNCHANGED <<key_file, config_file>>
    BY <1>3 DEF KeysDone
  <2>3. /\ gen.i <= gen.n + 1 /\ Len(gen.keys) = gen.i - 1
        /\ \A j \in 1..gen.n : j < gen.i => KeyWritten(j)
    BY <2>2 DEF FilesInv
  <2>4. Len(gen.keys) = gen.n /\ \A j \in 1..gen.n : KeyWritten(j)
    BY <1>0, <2>2, <2>3
  <2>5. \A j \in 1..gen.n : ~(j < 1)
    BY <1>0
  <2> QED
    BY <2>1, <2>2, <2>4, <2>5 DEF FilesInv, KeyWritten
<1> QED
  BY <1>1, <1>2, <1>3

\* The loop over the configs.
LEMMA ConfigStepsWrite ==
    ASSUME GenInv, FilesInv, CreateConfig \/ WriteHeader \/ WritePeers \/ Ready \/ Die
    PROVE  FilesInv'
<1>0. /\ gen.i \in Nat /\ gen.n \in Nat /\ DOMAIN config_file = Site /\ 1..gen.n \subseteq Site
      /\ key_file' = key_file
  BY DEF GenInv, CreateConfig, WriteHeader, WritePeers, Ready, Die
<1>1. ASSUME gen.at \in {"configs", "header", "peers"}, gen'.keys = gen.keys, gen'.n = gen.n,
             gen'.at \in {"configs", "header", "peers", "ready"},
             \A j \in 1..gen.n : j < gen.i => config_file'[j] = config_file[j],
             gen'.i = gen.i \/ (gen'.i = gen.i + 1 /\ gen.i \in 1..gen.n
                                /\ config_file'[gen.i] = ConfigOf(gen.i)),
             gen'.at = "peers" =>
                config_file'[gen'.i] = [well_formed |-> TRUE, peers_given |-> FALSE,
                                        node_ipv4 |-> Ip(gen'.i), log_level_known |-> TRUE,
                                        peers |-> <<>>],
             gen'.at = "ready" => gen'.i > gen'.n
      PROVE  FilesInv'
  <2>1. /\ Len(gen.keys) = gen.n /\ \A j \in 1..gen.n : KeyWritten(j)
        /\ \A j \in 1..gen.n : j < gen.i => config_file[j] = ConfigOf(j)
    BY <1>1 DEF FilesInv
  <2>2. ASSUME NEW j \in 1..gen.n, j < gen'.i
        PROVE  config_file'[j] = ConfigOf(j)'
    <3>1. ConfigOf(j)' = ConfigOf(j)
      BY <1>1, ConfigOfSame
    <3>2. j < gen.i \/ (j = gen.i /\ config_file'[j] = ConfigOf(j))
      BY <1>0, <1>1, <2>2
    <3> QED
      BY <1>1, <2>1, <3>1, <3>2
  <2>3. \A j \in 1..gen.n : KeyWritten(j)'
    BY <1>0, <1>1, <2>1 DEF KeyWritten
  <2>4. gen'.at \notin {"keys", "fill"}
    BY <1>1
  <2>5. Ip(gen.i)' = Ip(gen'.i)
    BY DEF Ip
  <2> QED
    BY <1>1, <2>1, <2>2, <2>3, <2>4, <2>5 DEF FilesInv
<1>2. CASE CreateConfig
  <2>1. gen' = [at |-> "header", n |-> gen.n, i |-> gen.i, keys |-> gen.keys]
    BY <1>2 DEF CreateConfig, GenInv
  <2>2. \A j \in 1..gen.n : j < gen.i => config_file'[j] = config_file[j]
    BY <1>0, <1>2 DEF CreateConfig
  <2> QED
    BY <1>1, <1>2, <2>1, <2>2 DEF CreateConfig
<1>3. CASE WriteHeader
  <2>1. gen' = [at |-> "peers", n |-> gen.n, i |-> gen.i, keys |-> gen.keys]
    BY <1>3 DEF WriteHeader, GenInv
  <2>2. gen.i \in 1..gen.n /\ gen.i \in Site
    BY <1>0, <1>3 DEF WriteHeader, GenInv
  <2>3. /\ \A j \in 1..gen.n : j < gen.i => config_file'[j] = config_file[j]
        /\ config_file'[gen.i] = [well_formed |-> TRUE, peers_given |-> FALSE,
                                  node_ipv4 |-> Ip(gen.i), log_level_known |-> TRUE,
                                  peers |-> <<>>]
    BY <1>0, <1>3, <2>2 DEF WriteHeader
  <2> QED
    BY <1>1, <1>3, <2>1, <2>3 DEF WriteHeader
<1>4. CASE WritePeers
  <2>1. gen' = [at |-> "configs", n |-> gen.n, i |-> gen.i + 1, keys |-> gen.keys]
    BY <1>4 DEF WritePeers, GenInv
  <2>2. gen.at = "peers" /\ gen.i \in 1..gen.n /\ gen.i \in Site
    BY <1>0, <1>4 DEF WritePeers, GenInv
  <2>3. \A j \in 1..gen.n : j < gen.i => config_file'[j] = config_file[j]
    BY <1>0, <1>4 DEF WritePeers
  <2> DEFINE L == PeerList(gen.i, gen.n)
             given == L # <<>>
             yes == TRUE
             no == FALSE
             f == [config_file EXCEPT ![gen.i].peers_given = given]
  <2>4. config_file' = [f EXCEPT ![gen.i].peers = L]
    BY <1>4 DEF WritePeers
  <2>5. config_file[gen.i] = [well_formed |-> yes, peers_given |-> no,
                              node_ipv4 |-> Ip(gen.i), log_level_known |-> yes, peers |-> <<>>]
    BY <2>2 DEF FilesInv
  <2> HIDE DEF L, given, yes, no
  <2>6. config_file'[gen.i] = [well_formed |-> yes, peers_given |-> given,
                               node_ipv4 |-> Ip(gen.i), log_level_known |-> yes, peers |-> L]
    <3>1. /\ DOMAIN f = Site
          /\ f[gen.i] = [config_file[gen.i] EXCEPT !.peers_given = given]
      BY <1>0, <2>2
    <3>2. f[gen.i] = [well_formed |-> yes, peers_given |-> given,
                      node_ipv4 |-> Ip(gen.i), log_level_known |-> yes, peers |-> <<>>]
      BY <2>5, <3>1
    <3> HIDE DEF f
    <3>3. config_file'[gen.i] = [f[gen.i] EXCEPT !.peers = L]
      BY <2>2, <2>4, <3>1
    <3> QED
      BY <3>2, <3>3
  <2>7. config_file'[gen.i] = ConfigOf(gen.i)
    BY <2>6 DEF ConfigOf, L, given, yes, no
  <2> QED
    BY <1>1, <2>1, <2>2, <2>3, <2>7
<1>5. CASE Ready
  <2>1. gen' = [at |-> "ready", n |-> gen.n, i |-> gen.i, keys |-> gen.keys]
    BY <1>5 DEF Ready, GenInv
  <2> QED
    BY <1>1, <1>5, <2>1 DEF Ready
<1>6. CASE Die
  <2>1. gen'.at = "off"
    BY <1>6 DEF Die, GenInv
  <2> QED
    BY <2>1 DEF FilesInv
<1> QED
  BY <1>2, <1>3, <1>4, <1>5, <1>6

\* Every step of the generator keeps FilesInv.
LEMMA FilesNext ==
    ASSUME GenInv, FilesInv, [GenNext]_genVars
    PROVE  FilesInv'
<1>1. CASE UNCHANGED genVars
  <2>1. gen' = gen /\ key_file' = key_file /\ config_file' = config_file
    BY <1>1 DEF genVars
  <2>2. /\ \A j : KeyWritten(j)' = KeyWritten(j)
        /\ \A j : ConfigOf(j)' = ConfigOf(j)
    BY <2>1 DEF KeyWritten, ConfigOf, PeerList, Ip, OtherNode
  <2>3. \A j : Ip(j)' = Ip(j)
    BY DEF Ip
  <2> QED
    BY <2>1, <2>2, <2>3 DEF FilesInv
<1>2. ASSUME NEW n \in Sizes, Generate(n)
      PROVE  FilesInv'
  <2>1. gen' = [at |-> "keys", n |-> n, i |-> 1, keys |-> <<>>] /\ n \in Nat
    BY <1>2, GenAssumption DEF Generate
  <2>2. 1 <= n + 1 /\ Len(<<>>) = 1 - 1 /\ \A j \in 1..n : ~(j < 1)
    BY <2>1
  <2> QED
    BY <2>1, <2>2 DEF FilesInv
<1> QED
  BY <1>1, <1>2, KeyStepsWrite, ConfigStepsWrite DEF GenNext

-----------------------------------------------------------------------------
\* What from_file makes of the files.

\* The inner loop reaches every other node once.
LEMMA OthersOf ==
    ASSUME NEW n \in Nat, NEW i \in 1..n
    PROVE  /\ \A m \in 1..(n - 1) : OtherNode(i, m) \in (1..n) \ {i}
           /\ \A j \in (1..n) \ {i} : \E m \in 1..(n - 1) : OtherNode(i, m) = j
           /\ \A m, k \in 1..(n - 1) : OtherNode(i, m) = OtherNode(i, k) => m = k
<1>1. ASSUME NEW m \in 1..(n - 1)
      PROVE  OtherNode(i, m) \in (1..n) \ {i}
  BY DEF OtherNode
<1>2. ASSUME NEW j \in (1..n) \ {i}
      PROVE  \E m \in 1..(n - 1) : OtherNode(i, m) = j
  <2>1. CASE j < i
    <3>1. j \in 1..(n - 1) /\ OtherNode(i, j) = j
      BY <2>1 DEF OtherNode
    <3> QED
      BY <3>1
  <2>2. CASE ~(j < i)
    <3>1. j - 1 \in 1..(n - 1) /\ OtherNode(i, j - 1) = j
      BY <2>2 DEF OtherNode
    <3> QED
      BY <3>1
  <2> QED
    BY <2>1, <2>2
<1>3. \A m, k \in 1..(n - 1) : OtherNode(i, m) = OtherNode(i, k) => m = k
  BY DEF OtherNode
<1> QED
  BY <1>1, <1>2, <1>3

\* Addresses differ when the nodes do.
LEMMA IpOfNode ==
    ASSUME NEW i, NEW j
    PROVE  /\ Ip(i).octet = i /\ Ip(i).in_subnet = TRUE
           /\ Ip(i) = Ip(j) => i = j
<1>1. Ip(i).octet = i /\ Ip(j).octet = j /\ Ip(i).in_subnet = TRUE
  BY DEF Ip
<1> QED
  BY <1>1

\* get_peers on a list without two entries for one address: the map of its entries.
LEMMA PeersOfDistinct ==
    ASSUME NEW text, NEW k \in Nat, DOMAIN text.peers = 1..k,
           \A m, l \in 1..k : text.peers[m].ipv4 = text.peers[l].ipv4 => m = l
    PROVE  /\ DOMAIN get_peers(text) = {text.peers[m].ipv4 : m \in 1..k}
           /\ \A m \in 1..k : get_peers(text)[text.peers[m].ipv4] = text.peers[m].pub_key
           /\ get_peers(text) = [a \in {text.peers[m].ipv4 : m \in 1..k} |-> get_peers(text)[a]]
<1> DEFINE Addr == {text.peers[m].ipv4 : m \in 1..k}
           Last(a, j) == /\ text.peers[j].ipv4 = a
                         /\ \A l \in DOMAIN text.peers : text.peers[l].ipv4 = a => l <= j
           LastOf(a) == CHOOSE j \in DOMAIN text.peers : Last(a, j)
<1>1. get_peers(text) = [a \in Addr |-> text.peers[LastOf(a)].pub_key]
  BY DEF get_peers
<1>2. ASSUME NEW m \in 1..k
      PROVE  LastOf(text.peers[m].ipv4) = m
  <2> DEFINE a == text.peers[m].ipv4
  <2>1. m \in DOMAIN text.peers /\ Last(a, m)
    OBVIOUS
  <2>2. \A j \in DOMAIN text.peers : Last(a, j) => j = m
    OBVIOUS
  <2> HIDE DEF Last, a
  <2>3. LastOf(a) \in DOMAIN text.peers /\ Last(a, LastOf(a))
    BY <2>1
  <2>4. LastOf(a) = m
    BY <2>2, <2>3
  <2> QED
    BY <2>4 DEF a
<1> HIDE DEF LastOf
<1>3. \A m \in 1..k : text.peers[m].ipv4 \in Addr
  OBVIOUS
<1> HIDE DEF Addr
<1>4. DOMAIN get_peers(text) = Addr /\ get_peers(text) = [a \in Addr |-> get_peers(text)[a]]
  BY <1>1
<1>5. ASSUME NEW m \in 1..k
      PROVE  get_peers(text)[text.peers[m].ipv4] = text.peers[m].pub_key
  BY <1>1, <1>2, <1>3
<1> QED
  BY <1>4, <1>5 DEF Addr

\* A key file the generator has filled holds the key it remembers.
LEMMA KeyInFile ==
    ASSUME NEW j, KeyWritten(j)
    PROVE  key_file[j].state = "whole" /\ key_file[j].key = gen.keys[j]
<1>1. \A k : Whole(k).state = "whole" /\ Whole(k).key = k
  BY DEF Whole
<1>2. key_file[j] = Whole(gen.keys[j])
  BY DEF KeyWritten
<1> QED
  BY <1>1, <1>2, Zenon

\* A node whose files, and whose peers' key files, are those of a finished run.
LEMMA WrittenIsMember ==
    ASSUME GenInv, NEW n \in 2..MaxOctet, gen.n = n, Len(gen.keys) = n, NEW i \in 1..n,
           \A j \in 1..n : KeyWritten(j), config_file[i] = ConfigOf(i)
    PROVE  MemberOK(i, n)
<1> DEFINE c == ConfigOf(i)
           L == PeerList(i, n)
<1>0. n \in Nat /\ n - 1 \in Nat /\ gen.keys \in Seq(SecretKey) /\ i <= n /\ MaxOctet \in Nat
  BY ConfigAssumption DEF GenInv
<1>1. ASSUME NEW j \in 1..n
      PROVE  gen.keys[j] \in SecretKey /\ gen.keys[j] # BadKey
  BY <1>0, ConfigAssumption
<1>2. /\ DOMAIN L = 1..(n - 1)
      /\ \A m \in 1..(n - 1) : /\ L[m].pub_key = gen.keys[OtherNode(i, m)]
                               /\ L[m].ipv4 = Ip(OtherNode(i, m))
  BY <1>0 DEF PeerList
<1>3. /\ c.well_formed = TRUE /\ c.peers_given = (L # <<>>) /\ c.node_ipv4 = Ip(i)
      /\ c.log_level_known = TRUE /\ c.peers = L
  BY DEF ConfigOf
<1>4. /\ \A m \in 1..(n - 1) : OtherNode(i, m) \in (1..n) \ {i}
      /\ \A j \in (1..n) \ {i} : \E m \in 1..(n - 1) : OtherNode(i, m) = j
      /\ \A m, k \in 1..(n - 1) : OtherNode(i, m) = OtherNode(i, k) => m = k
  BY <1>0, OthersOf
<1> HIDE DEF c, L
<1>5. L # <<>>
  <2>1. 1 \in DOMAIN L
    BY <1>0, <1>2
  <2> QED
    BY <2>1
<1>6. Accepted(c)
  <2>1. PeersOK(c)
    <3> SUFFICES ASSUME NEW m \in 1..(n - 1)
                 PROVE  ParsesAddr(L[m].ipv4) /\ L[m].pub_key # BadKey
      BY <1>2, <1>3 DEF PeersOK
    <3>1. OtherNode(i, m) \in 1..n
      BY <1>4
    <3>2. OtherNode(i, m) <= MaxOctet
      BY <1>0, <3>1
    <3>3. L[m].ipv4.octet = OtherNode(i, m)
      BY <1>2, IpOfNode, Zenon
    <3> QED
      BY <1>1, <1>2, <3>1, <3>2, <3>3 DEF ParsesAddr
  <2>2. i <= MaxOctet
    BY <1>0
  <2>3. ParsesAddr(c.node_ipv4) /\ c.node_ipv4.in_subnet
    BY <1>3, <2>2, IpOfNode DEF ParsesAddr
  <2> QED
    BY <1>3, <1>5, <2>1, <2>3 DEF Accepted, ParsesToml, ChecksPass
<1>7. get_peers(c) = [a \in {Ip(j) : j \in (1..n) \ {i}} |-> key_file[a.octet].key]
  <2> DEFINE A == {c.peers[m].ipv4 : m \in 1..(n - 1)}
             B == {Ip(j) : j \in (1..n) \ {i}}
  <2>1. DOMAIN c.peers = 1..(n - 1)
    BY <1>2, <1>3
  <2>2. ASSUME NEW m \in 1..(n - 1), NEW l \in 1..(n - 1), c.peers[m].ipv4 = c.peers[l].ipv4
        PROVE  m = l
    <3>1. Ip(OtherNode(i, m)) = Ip(OtherNode(i, l))
      BY <1>2, <1>3, <2>2
    <3>2. OtherNode(i, m) = OtherNode(i, l)
      BY <3>1, IpOfNode, Zenon
    <3> QED
      BY <1>4, <3>2
  <2>3. /\ \A m \in 1..(n - 1) : get_peers(c)[c.peers[m].ipv4] = c.peers[m].pub_key
        /\ get_peers(c) = [a \in A |-> get_peers(c)[a]]
    BY <1>0, <2>1, <2>2, PeersOfDistinct
  <2>4. A = B
    <3>1. ASSUME NEW a \in A
          PROVE  a \in B
      BY <1>2, <1>3, <1>4
    <3>2. ASSUME NEW j \in (1..n) \ {i}
          PROVE  Ip(j) \in A
      <4>1. PICK m \in 1..(n - 1) : OtherNode(i, m) = j
        BY <1>4
      <4> QED
        BY <1>2, <1>3, <4>1
    <3> QED
      BY <3>1, <3>2
  <2>5. ASSUME NEW a \in A
        PROVE  get_peers(c)[a] = key_file[a.octet].key
    <3>1. PICK m \in 1..(n - 1) : a = c.peers[m].ipv4
      OBVIOUS
    <3> DEFINE j == OtherNode(i, m)
    <3>2. j \in 1..n /\ a = Ip(j) /\ c.peers[m].pub_key = gen.keys[j]
      BY <1>2, <1>3, <1>4, <3>1
    <3> HIDE DEF j
    <3>3. a.octet = j
      BY <3>2, IpOfNode
    <3>4. key_file[j].key = gen.keys[j]
      BY <3>2, KeyInFile
    <3> QED
      BY <2>3, <3>1, <3>2, <3>3, <3>4
  <2> HIDE DEF A, B
  <2>6. get_peers(c) = [a \in B |-> key_file[a.octet].key]
    BY <2>3, <2>4, <2>5
  <2> QED
    BY <2>6 DEF B
<1>8. key_file[i].state = "whole"
  BY KeyInFile
<1> QED
  BY <1>3, <1>6, <1>7, <1>8 DEF MemberOK, c

\* Whatever earlier and interrupted runs left behind, when the generator says that
\* everything is ready the files are a full mesh: from_file accepts every config, and
\* maps the address of every other node to the key in that node's file.
THEOREM GeneratedFilesAreMesh == GenSpec => []ReadyIsMesh
<1>1. GenInit => GenInv /\ FilesInv
  BY GenInitEstablishes DEF GenInit, FilesInv
<1>2. GenInv /\ FilesInv /\ [GenNext]_genVars => GenInv' /\ FilesInv'
  BY GenNextKeeps, FilesNext
<1>3. GenInv /\ FilesInv => ReadyIsMesh
  <2> SUFFICES ASSUME GenInv, FilesInv, gen.at = "ready", gen.n \in 2..MaxOctet,
                      NEW i \in 1..gen.n
               PROVE  MemberOK(i, gen.n)
    BY DEF ReadyIsMesh
  <2>1. /\ Len(gen.keys) = gen.n /\ \A j \in 1..gen.n : KeyWritten(j) /\ gen.i > gen.n
        /\ \A j \in 1..gen.n : j < gen.i => config_file[j] = ConfigOf(j)
    BY DEF FilesInv
  <2>2. i < gen.i
    BY <2>1 DEF GenInv
  <2> QED
    BY <2>1, <2>2, WrittenIsMember
<1> QED
  BY <1>1, <1>2, <1>3, PTL DEF GenSpec
=============================================================================
