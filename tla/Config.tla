------------------------------- MODULE Config -------------------------------
(***************************************************************************)
(* config.rs and the first half of main.rs: how a process gets from its    *)
(* two files to a running node.  from_file reads the config, gets the      *)
(* secret key or makes one, and only then checks the rest; a process may   *)
(* be killed between any two operations on the files, and is started again *)
(* on what is left.                                                        *)
(***************************************************************************)
EXTENDS ConfigFile

CONSTANT Text   \* what an operator may write into a config file

ASSUME TextAssumption == Text \subseteq ConfigToml

VARIABLES
    process,      \* process[i]: where the process is, its key, the config it has read
    ran           \* history: ran[i], the keys under which i has been running

configVars == <<key_file, config_file, used, process, ran>>

Place == {"off", "get_secret_key", "gen_secret_key", "write_secret_key", "checks", "bind", "running"}

ConfigTypeOK ==
    /\ FileTypeOK
    /\ process \in [Site -> [at : Place, key : SecretKey \cup {BadKey}, text : ConfigToml]]
    /\ ran \in [Site -> SUBSET SecretKey]

ConfigInit ==
    /\ key_file = [i \in Site |-> Absent]
    /\ config_file \in [Site -> Text]
    /\ process = [i \in Site |-> [at |-> "off", key |-> BadKey, text |-> config_file[i]]]
    /\ used = {}
    /\ ran = [i \in Site |-> {}]

-----------------------------------------------------------------------------
\* One start of the process, operation by operation.

At(i, place) == process[i].at = place

Becomes(i, place, key) ==
    process' = [process EXCEPT ![i] = [at |-> place, key |-> key, text |-> @.text]]

\* main prints the error and returns.
GivesUp(i) == Becomes(i, "off", BadKey)

\* from_file reads and parses the config; an error ends main at once.
ReadConfig(i) ==
    /\ At(i, "off")
    /\ ParsesToml(config_file[i])
    /\ process' = [process EXCEPT ![i] =
                     [at |-> "get_secret_key", key |-> BadKey, text |-> config_file[i]]]
    /\ UNCHANGED <<key_file, config_file, used, ran>>

\* Variant with a bug: whatever is wrong with the key file, make a new one.
get_secret_key_always(i) ==
    /\ At(i, "get_secret_key")
    /\ \/ Becomes(i, "gen_secret_key", BadKey)
       \/ /\ key_file[i].state = "whole"
          /\ Becomes(i, "checks", key_file[i].key)
    /\ UNCHANGED <<key_file, config_file, used, ran>>

\* Variant with a bug: the length of the key is not checked.
get_secret_key_any_length(i) ==
    /\ At(i, "get_secret_key")
    /\ \/ key_file[i].state = "absent" /\ Becomes(i, "gen_secret_key", BadKey)
       \/ key_file[i].state # "absent" /\ Becomes(i, "checks", key_file[i].key)
    /\ UNCHANGED <<key_file, config_file, used, ran>>

\* A missing file leads to a new key, a file of the wrong length (or one that
\* cannot be read) to an error.
get_secret_key(i) ==
    /\ At(i, "get_secret_key")
    /\ \/ key_file[i].state = "absent" /\ Becomes(i, "gen_secret_key", BadKey)
       \/ key_file[i].state = "whole" /\ Becomes(i, "checks", key_file[i].key)
       \/ GivesUp(i)
    /\ UNCHANGED <<key_file, config_file, used, ran>>

\* SecretKey::generate returns a key nobody has; fs::write creates the file.
gen_secret_key(i) ==
    /\ At(i, "gen_secret_key")
    /\ \/ \E key \in SecretKey \ used :
             /\ used' = used \cup {key}
             /\ key_file' = [key_file EXCEPT ![i] = Short]
             /\ Becomes(i, "write_secret_key", key)
       \/ GivesUp(i) /\ UNCHANGED <<key_file, used>>
    /\ UNCHANGED <<config_file, ran>>

\* Variant with a bug: an error of fs::write is ignored.
WriteSecretKeyUnchecked(i) ==
    /\ At(i, "write_secret_key")
    /\ Becomes(i, "checks", process[i].key)
    /\ \/ key_file' = [key_file EXCEPT ![i] = Whole(process[i].key)]
       \/ UNCHANGED key_file
    /\ UNCHANGED <<config_file, used, ran>>

\* ... and fills it, or fails (no space) and leaves it as it is.
WriteSecretKey(i) ==
    /\ At(i, "write_secret_key")
    /\ \/ /\ key_file' = [key_file EXCEPT ![i] = Whole(process[i].key)]
          /\ Becomes(i, "checks", process[i].key)
       \/ GivesUp(i) /\ UNCHANGED key_file
    /\ UNCHANGED <<config_file, used, ran>>

\* The rest of from_file, on the config read at the start.
Check(i) ==
    /\ At(i, "checks")
    /\ IF ChecksPass(process[i].text) THEN Becomes(i, "bind", process[i].key) ELSE GivesUp(i)
    /\ UNCHANGED <<key_file, config_file, used, ran>>

\* main: Iroh::new binds its socket, or fails; then the actors run.
Bind(i) ==
    /\ At(i, "bind")
    /\ \/ /\ Becomes(i, "running", process[i].key)
          /\ ran' = [ran EXCEPT ![i] = @ \cup {process[i].key}]
       \/ GivesUp(i) /\ UNCHANGED ran
    /\ UNCHANGED <<key_file, config_file, used>>

\* The process is killed, or ends.
Stop(i) ==
    /\ ~At(i, "off")
    /\ GivesUp(i)
    /\ UNCHANGED <<key_file, config_file, used, ran>>

\* The operator rewrites the config at any time, ...
EditConfig(i) ==
    /\ \E text \in Text : config_file' = [config_file EXCEPT ![i] = text]
    /\ UNCHANGED <<key_file, process, used, ran>>

\* ... and removes a key file that the program refuses.
RemoveKey(i) ==
    /\ At(i, "off")
    /\ key_file[i] = Short
    /\ key_file' = [key_file EXCEPT ![i] = Absent]
    /\ UNCHANGED <<config_file, process, used, ran>>

ConfigStep(i) ==
    \/ ReadConfig(i) \/ get_secret_key(i) \/ gen_secret_key(i) \/ WriteSecretKey(i)
    \/ Check(i) \/ Bind(i) \/ Stop(i)

ConfigNext == \E i \in Site : ConfigStep(i) \/ EditConfig(i) \/ RemoveKey(i)

ConfigSpec == ConfigInit /\ [][ConfigNext]_configVars

-----------------------------------------------------------------------------
\* Properties.

(***************************************************************************)
(* From the moment it has a key, a process works with the key that is in   *)
(* its file: a key that get_secret_key made up but could not save is never *)
(* used, and what a crash left of a file is never taken for a key.         *)
(***************************************************************************)
RunsWithSavedKey ==
    \A i \in Site :
        process[i].at \in {"checks", "bind", "running"} => key_file[i] = Whole(process[i].key)

(***************************************************************************)
(* A key that was saved completely is never replaced or removed by the     *)
(* program: not by a start that fails later on, not by one that cannot     *)
(* read the file.                                                          *)
(***************************************************************************)
KeyKept ==
    [][\A i \in Site : key_file[i].state = "whole" => key_file'[i] = key_file[i]]_configVars

(***************************************************************************)
(* Peers know a node by the public key it printed when it first ran, and   *)
(* write it into their whitelists.  However starts fail, crash half-way    *)
(* through writing the key, or are repeated with another config, a node    *)
(* that has run once never runs under another key.                         *)
(***************************************************************************)
OneIdentity == \A i \in Site : \A k, l \in ran[i] : k = l
=============================================================================
