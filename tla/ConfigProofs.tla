---------------------------- MODULE ConfigProofs ----------------------------
(***************************************************************************)
(* A node keeps its identity, for any number of sites, keys and configs:   *)
(* the invariant ties the place of the process to the state of its key     *)
(* file, and every key it ever ran under to the key in that file.          *)
(***************************************************************************)
EXTENDS Config, TLAPS

ProcessType == [at : Place, key : SecretKey \cup {BadKey}, text : ConfigToml]

\* What a place of the process says about its key file.
FileOK(i) ==
    /\ At(i, "gen_secret_key") => key_file[i] = Absent
    /\ At(i, "write_secret_key") => key_file[i] = Short /\ process[i].key \in SecretKey
    /\ process[i].at \in {"checks", "bind", "running"} => key_file[i] = Whole(process[i].key)
    /\ \A k \in ran[i] : key_file[i] = Whole(k)

ConfigInv == ConfigTypeOK /\ \A i \in Site : FileOK(i)

\* The three states of a key file exclude each other, and a whole file
\* gives back the key that was written to it.
LEMMA KeyFileFacts ==
    /\ Absent \in KeyFile /\ Short \in KeyFile /\ Absent # Short
    /\ \A k \in SecretKey : /\ Whole(k) \in KeyFile
                            /\ Whole(k) # Absent /\ Whole(k) # Short
    /\ \A k, l : Whole(k) = Whole(l) => k = l
    /\ \A f \in KeyFile : /\ f.state = "absent" => f = Absent
                          /\ f.state = "short" => f = Short
                          /\ f.state = "whole" => f.key \in SecretKey /\ f = Whole(f.key)
    /\ Absent.state = "absent" /\ Short.state = "short"
<1>1. /\ Absent \in KeyFile /\ Short \in KeyFile /\ Absent # Short
      /\ Absent.state = "absent" /\ Short.state = "short"
  BY DEF KeyFile, Absent, Short
<1>2. \A k \in SecretKey : Whole(k) \in KeyFile
  BY DEF KeyFile, Whole
<1>3. \A k : Whole(k).state = "whole" /\ Whole(k).key = k
  BY DEF Whole
<1>4. \A k : Whole(k) # Absent /\ Whole(k) # Short
  BY <1>1, <1>3
<1>5. ASSUME NEW f \in KeyFile
      PROVE  /\ f.state = "absent" => f = Absent
             /\ f.state = "short" => f = Short
             /\ f.state = "whole" => f.key \in SecretKey /\ f = Whole(f.key)
  BY DEF KeyFile, Absent, Short, Whole
<1>6. \A k, l : Whole(k) = Whole(l) => k = l
  BY <1>3
<1> QED
  BY <1>1, <1>2, <1>4, <1>5, <1>6

\* A step of i changes the state of no other site.
LEMMA OtherSites ==
    ASSUME NEW j, FileOK(j), process'[j] = process[j], key_file'[j] = key_file[j],
           ran'[j] = ran[j]
    PROVE  FileOK(j)'
BY DEF FileOK, At

\* A site that moves to its next place leaves the other sites alone.
LEMMA BecomesFacts ==
    ASSUME ConfigTypeOK, NEW i \in Site, NEW place \in Place,
           NEW key \in SecretKey \cup {BadKey}, Becomes(i, place, key)
    PROVE  /\ process' \in [Site -> ProcessType]
           /\ process'[i].at = place /\ process'[i].key = key
           /\ \A j \in Site : j # i => process'[j] = process[j]
<1>1. process \in [Site -> ProcessType]
  BY DEF ConfigTypeOK, ProcessType
<1>2. process' = [process EXCEPT ![i] = [at |-> place, key |-> key, text |-> process[i].text]]
  BY <1>1 DEF Becomes
<1>3. [at |-> place, key |-> key, text |-> process[i].text] \in ProcessType
  BY <1>1 DEF ProcessType
<1>4. /\ process'[i] = [at |-> place, key |-> key, text |-> process[i].text]
      /\ \A j \in Site : j # i => process'[j] = process[j]
      /\ process' \in [Site -> ProcessType]
  BY <1>1, <1>2, <1>3
<1> QED
  BY <1>4

\* Before the first start there is nothing to keep.
LEMMA ConfigInitEstablishes ==
    ASSUME ConfigInit
    PROVE  ConfigInv
<1>1. config_file \in [Site -> ConfigToml]
  BY TextAssumption DEF ConfigInit
<1>2. ConfigTypeOK
  BY <1>1, KeyFileFacts DEF ConfigInit, ConfigTypeOK, FileTypeOK, Place
<1>3. ASSUME NEW i \in Site PROVE FileOK(i)
  BY DEF ConfigInit, FileOK, At
<1> QED
  BY <1>2, <1>3 DEF ConfigInv

\* The process gives up: nothing is said about the key file any more.
LEMMA GivesUpKeeps ==
    ASSUME ConfigInv, NEW i \in Site, GivesUp(i), UNCHANGED <<key_file, config_file, used, ran>>
    PROVE  ConfigInv'
<1>1. /\ process' \in [Site -> ProcessType] /\ process'[i].at = "off"
      /\ \A j \in Site : j # i => process'[j] = process[j]
  BY BecomesFacts DEF GivesUp, Place, ConfigInv
<1>2. ConfigTypeOK'
  BY <1>1 DEF ConfigInv, ConfigTypeOK, FileTypeOK, ProcessType
<1>3. FileOK(i)'
  BY <1>1 DEF ConfigInv, FileOK, At
<1> QED
  BY <1>1, <1>2, <1>3, OtherSites DEF ConfigInv

\* It moves on without touching the files.
LEMMA MovesOnKeeps ==
    ASSUME ConfigInv, NEW i \in Site, NEW place \in Place, NEW key \in SecretKey \cup {BadKey},
           Becomes(i, place, key), UNCHANGED <<key_file, config_file, used>>,
           place = "gen_secret_key" => key_file[i] = Absent,
           place # "write_secret_key",
           place \in {"checks", "bind", "running"} => key_file[i] = Whole(key),
           ran' \in [Site -> SUBSET SecretKey],
           \A j \in Site : j # i => ran'[j] = ran[j],
           ran'[i] = ran[i] \/ (ran'[i] = ran[i] \cup {key} /\ key_file[i] = Whole(key))
    PROVE  ConfigInv'
<1>1. /\ process' \in [Site -> ProcessType] /\ process'[i].at = place /\ process'[i].key = key
      /\ \A j \in Site : j # i => process'[j] = process[j]
  BY BecomesFacts DEF ConfigInv
<1>2. ConfigTypeOK'
  BY <1>1 DEF ConfigInv, ConfigTypeOK, FileTypeOK, ProcessType
<1>3. FileOK(i)'
  BY <1>1 DEF ConfigInv, FileOK, At
<1> QED
  BY <1>1, <1>2, <1>3, OtherSites DEF ConfigInv

\* The key file of i is replaced while the process moves on.
LEMMA FileWrittenKeeps ==
    ASSUME ConfigInv, NEW i \in Site, NEW place \in Place, NEW key \in SecretKey, NEW file \in KeyFile,
           Becomes(i, place, key), key_file' = [key_file EXCEPT ![i] = file],
           UNCHANGED <<config_file, ran>>, used' \subseteq SecretKey,
           key_file[i] = Absent \/ key_file[i] = Short,
           \/ place = "write_secret_key" /\ file = Short
           \/ place = "checks" /\ file = Whole(key)
    PROVE  ConfigInv'
<1>1. /\ process' \in [Site -> ProcessType] /\ process'[i].at = place /\ process'[i].key = key
      /\ \A j \in Site : j # i => process'[j] = process[j]
  BY BecomesFacts DEF ConfigInv
<1>2. key_file' \in [Site -> KeyFile] /\ key_file'[i] = file
      /\ \A j \in Site : j # i => key_file'[j] = key_file[j]
  BY DEF ConfigInv, ConfigTypeOK, FileTypeOK
<1>3. ConfigTypeOK'
  BY <1>1, <1>2 DEF ConfigInv, ConfigTypeOK, FileTypeOK, ProcessType
<1>4. ran[i] = {} /\ ran'[i] = {}
  BY KeyFileFacts DEF ConfigInv, ConfigTypeOK, FileOK
<1>5. FileOK(i)'
  BY <1>1, <1>2, <1>4 DEF FileOK, At
<1> QED
  BY <1>1, <1>2, <1>3, <1>5, OtherSites DEF ConfigInv

\* Every step of a start, a crash or an operator keeps the invariant.
LEMMA ConfigNextKeeps ==
    ASSUME ConfigInv, [ConfigNext]_configVars
    PROVE  ConfigInv'
<1>0. ConfigTypeOK /\ \A i \in Site : FileOK(i)
  BY DEF ConfigInv
<1>1. CASE UNCHANGED configVars
  BY <1>0, <1>1, OtherSites DEF configVars, ConfigInv, ConfigTypeOK, FileTypeOK
<1>2. ASSUME NEW i \in Site, ReadConfig(i) PROVE ConfigInv'
  <2> DEFINE new == [at |-> "get_secret_key", key |-> BadKey, text |-> config_file[i]]
  <2>1. new \in ProcessType
    BY <1>0 DEF ConfigTypeOK, FileTypeOK, ProcessType, Place
  <2>2. process' = [process EXCEPT ![i] = new]
    BY <1>2 DEF ReadConfig
  <2>3. new.at = "get_secret_key"
    OBVIOUS
  <2> HIDE DEF new
  <2>4. /\ process' \in [Site -> ProcessType] /\ process'[i] = new
        /\ \A j \in Site : j # i => process'[j] = process[j]
    BY <1>0, <2>1, <2>2 DEF ConfigTypeOK, ProcessType
  <2>5. ConfigTypeOK'
    BY <1>0, <1>2, <2>4 DEF ReadConfig, ConfigTypeOK, FileTypeOK, ProcessType
  <2>6. FileOK(i)'
    BY <1>0, <1>2, <2>3, <2>4 DEF ReadConfig, FileOK, At
  <2> QED
    BY <1>0, <1>2, <2>4, <2>5, <2>6, OtherSites DEF ReadConfig, ConfigInv
<1>3. ASSUME NEW i \in Site, get_secret_key(i) PROVE ConfigInv'
  <2>0. key_file[i] \in KeyFile /\ ran \in [Site -> SUBSET SecretKey]
    BY <1>0 DEF ConfigTypeOK, FileTypeOK
  <2>1. CASE key_file[i].state = "absent" /\ Becomes(i, "gen_secret_key", BadKey)
    BY <1>3, <2>0, <2>1, KeyFileFacts, MovesOnKeeps DEF get_secret_key, Place
  <2>2. CASE key_file[i].state = "whole" /\ Becomes(i, "checks", key_file[i].key)
    BY <1>3, <2>0, <2>2, KeyFileFacts, MovesOnKeeps DEF get_secret_key, Place
  <2>3. CASE GivesUp(i)
    BY <1>3, <2>3, GivesUpKeeps DEF get_secret_key
  <2> QED
    BY <1>3, <2>1, <2>2, <2>3 DEF get_secret_key
<1>4. ASSUME NEW i \in Site, gen_secret_key(i) PROVE ConfigInv'
  <2>0. key_file[i] = Absent /\ used \subseteq SecretKey
    BY <1>0, <1>4 DEF gen_secret_key, FileOK, ConfigTypeOK, FileTypeOK
  <2>1. ASSUME NEW key \in SecretKey \ used, used' = used \cup {key},
               key_file' = [key_file EXCEPT ![i] = Short], Becomes(i, "write_secret_key", key)
        PROVE  ConfigInv'
    BY <1>4, <2>0, <2>1, KeyFileFacts, FileWrittenKeeps DEF gen_secret_key, Place
  <2>2. CASE GivesUp(i) /\ UNCHANGED <<key_file, used>>
    BY <1>4, <2>2, GivesUpKeeps DEF gen_secret_key
  <2> QED
    BY <1>4, <2>1, <2>2 DEF gen_secret_key
<1>5. ASSUME NEW i \in Site, WriteSecretKey(i) PROVE ConfigInv'
  <2>0. key_file[i] = Short /\ process[i].key \in SecretKey /\ used \subseteq SecretKey
    BY <1>0, <1>5 DEF WriteSecretKey, FileOK, ConfigTypeOK, FileTypeOK
  <2>1. CASE key_file' = [key_file EXCEPT ![i] = Whole(process[i].key)]
             /\ Becomes(i, "checks", process[i].key)
    BY <1>5, <2>0, <2>1, KeyFileFacts, FileWrittenKeeps DEF WriteSecretKey, Place
  <2>2. CASE GivesUp(i) /\ UNCHANGED key_file
    BY <1>5, <2>2, GivesUpKeeps DEF WriteSecretKey
  <2> QED
    BY <1>5, <2>1, <2>2 DEF WriteSecretKey
<1>6. ASSUME NEW i \in Site, Check(i) PROVE ConfigInv'
  <2>0. /\ key_file[i] = Whole(process[i].key) /\ process[i].key \in SecretKey \cup {BadKey}
        /\ ran \in [Site -> SUBSET SecretKey]
    BY <1>0, <1>6 DEF Check, FileOK, At, ConfigTypeOK
  <2>1. CASE Becomes(i, "bind", process[i].key)
    BY <1>6, <2>0, <2>1, MovesOnKeeps DEF Check, Place
  <2>2. CASE GivesUp(i)
    BY <1>6, <2>2, GivesUpKeeps DEF Check
  <2> QED
    BY <1>6, <2>1, <2>2 DEF Check
<1>7. ASSUME NEW i \in Site, Bind(i) PROVE ConfigInv'
  <2>0. /\ key_file[i] = Whole(process[i].key) /\ key_file[i] \in KeyFile
        /\ process[i].key \in SecretKey \cup {BadKey}
        /\ ran \in [Site -> SUBSET SecretKey]
    BY <1>0, <1>7 DEF Bind, FileOK, At, ConfigTypeOK, FileTypeOK
  <2>1. CASE Becomes(i, "running", process[i].key)
             /\ ran' = [ran EXCEPT ![i] = ran[i] \cup {process[i].key}]
    <3>1. process[i].key \in SecretKey
      BY <2>0 DEF KeyFile, Whole
    <3>2. /\ ran' \in [Site -> SUBSET SecretKey] /\ ran'[i] = ran[i] \cup {process[i].key}
          /\ \A j \in Site : j # i => ran'[j] = ran[j]
      BY <2>0, <2>1, <3>1
    <3> QED
      BY <1>7, <2>0, <2>1, <3>2, MovesOnKeeps DEF Bind, Place
  <2>2. CASE GivesUp(i) /\ UNCHANGED ran
    BY <1>7, <2>2, GivesUpKeeps DEF Bind
  <2> QED
    BY <1>7, <2>1, <2>2 DEF Bind
<1>8. ASSUME NEW i \in Site, Stop(i) PROVE ConfigInv'
  BY <1>8, GivesUpKeeps DEF Stop
<1>9. ASSUME NEW i \in Site, EditConfig(i) PROVE ConfigInv'
  <2>1. config_file' \in [Site -> ConfigToml]
    BY <1>0, <1>9, TextAssumption DEF EditConfig, ConfigTypeOK, FileTypeOK
  <2> QED
    BY <1>0, <1>9, <2>1, OtherSites DEF EditConfig, ConfigInv, ConfigTypeOK, FileTypeOK
<1>10. ASSUME NEW i \in Site, RemoveKey(i) PROVE ConfigInv'
  <2>1. /\ key_file' \in [Site -> KeyFile] /\ key_file'[i] = Absent
        /\ \A j \in Site : j # i => key_file'[j] = key_file[j]
    BY <1>0, <1>10, KeyFileFacts DEF RemoveKey, ConfigTypeOK, FileTypeOK
  <2>2. ran[i] = {}
    BY <1>0, <1>10, KeyFileFacts DEF RemoveKey, FileOK, ConfigTypeOK
  <2>3. FileOK(i)'
    BY <1>10, <2>1, <2>2 DEF RemoveKey, FileOK, At
  <2> QED
    BY <1>0, <1>10, <2>1, <2>3, OtherSites DEF RemoveKey, ConfigInv, ConfigTypeOK, FileTypeOK
<1> QED
  BY <1>1, <1>2, <1>3, <1>4, <1>5, <1>6, <1>7, <1>8, <1>9, <1>10 DEF ConfigNext, ConfigStep

\* The type invariant and the tie between the process and its key file.
THEOREM ConfigInvariant == ConfigSpec => []ConfigInv
BY ConfigInitEstablishes, ConfigNextKeeps, PTL DEF ConfigSpec

\* Places, keys, configs and files keep their types: what a crash left of a
\* key file never becomes the key of a process that runs.
THEOREM ConfigTypes == ConfigSpec => []ConfigTypeOK
<1>1. ConfigInv => ConfigTypeOK
  BY DEF ConfigInv
<1> QED
  BY <1>1, ConfigInvariant, PTL

\* A process works only with the key that is whole in its file.
THEOREM SavedKey == ConfigSpec => []RunsWithSavedKey
<1>1. ConfigInv => RunsWithSavedKey
  BY DEF ConfigInv, FileOK, RunsWithSavedKey
<1> QED
  BY <1>1, ConfigInvariant, PTL

\* However starts fail, crash or are repeated, a node runs under one key.
THEOREM NodeKeepsIdentity == ConfigSpec => []OneIdentity
<1>1. ConfigInv => OneIdentity
  BY KeyFileFacts DEF ConfigInv, FileOK, OneIdentity, ConfigTypeOK
<1> QED
  BY <1>1, ConfigInvariant, PTL

\* No step of the program replaces or removes a key that is whole.
THEOREM WholeKeyIsKept == ConfigSpec => KeyKept
<1>1. ASSUME ConfigInv, [ConfigNext]_configVars
      PROVE  [\A i \in Site : key_file[i].state = "whole" => key_file'[i] = key_file[i]]_configVars
  <2>0. ConfigTypeOK /\ \A i \in Site : FileOK(i)
    BY <1>1 DEF ConfigInv
  <2>1. CASE UNCHANGED key_file
    BY <2>1
  <2>2. ASSUME NEW i \in Site, gen_secret_key(i) \/ WriteSecretKey(i) \/ RemoveKey(i),
               key_file' # key_file
        PROVE  \A j \in Site : key_file[j].state = "whole" => key_file'[j] = key_file[j]
    <3>1. key_file[i] = Absent \/ key_file[i] = Short
      BY <2>0, <2>2 DEF gen_secret_key, WriteSecretKey, RemoveKey, FileOK
    <3>2. key_file[i].state # "whole"
      BY <3>1, KeyFileFacts
    <3>3. \A j \in Site : j # i => key_file'[j] = key_file[j]
      BY <2>0, <2>2 DEF gen_secret_key, WriteSecretKey, RemoveKey, ConfigTypeOK, FileTypeOK
    <3> QED
      BY <3>2, <3>3
  <2>3. ASSUME NEW i \in Site, ReadConfig(i) \/ get_secret_key(i) \/ Check(i) \/ Bind(i)
                                \/ Stop(i) \/ EditConfig(i)
        PROVE  UNCHANGED key_file
    BY <2>3 DEF ReadConfig, get_secret_key, Check, Bind, Stop, EditConfig
  <2> QED
    BY <1>1, <2>1, <2>2, <2>3 DEF ConfigNext, ConfigStep, configVars
<1> QED
  BY <1>1, ConfigInvariant, PTL DEF ConfigSpec, KeyKept
=============================================================================
