------------------------------ MODULE ConfigDir ------------------------------
(***************************************************************************)
(* validate ... --config-dir (__main__.py, store_config_dir): one file for *)
(* each table of the list, in a directory that is found empty first; and   *)
(* the commands that list such a directory and read its files (cli_tools.py*)
(* list_validations, get_validation).                                      *)
(*                                                                         *)
(* A file name is a tuple: <<t>> for s.t.yaml, <<t, 1>> for s.t_1.yaml,    *)
(* which is also the name of the file of a table called t_1.               *)
(***************************************************************************)
EXTENDS Integers, Sequences, FiniteSets, SequencesExt

CONSTANTS Proc, None

VARIABLES
  place,     \* where the directory is: "local", "gs://dir/" or "gs://dir"
  command,   \* what each process was called with; tables: the list of base names
  pc,
  yamls,     \* the files of the directory: name -> who wrote it and for which table
  ind,       \* the table store_config_dir is at
  found,     \* the files that were there when a process looked for them
  loaded     \* the configurations a process has read

dirVars == <<yamls, ind, found, loaded>>

Tables(p) == command[p].tables

Config(p, i) == [by |-> p, table |-> i]
\* A file that was opened and not written yet: yaml.safe_load returns None.
Empty(p, i) == [by |-> p, table |-> 0]

\* seen_names: how often the base name of table i came before it.
SeenBefore(p, i) == Cardinality({j \in 1..(i - 1) : Tables(p)[j] = Tables(p)[i]})

\* A slip: the number of a repeated table is left out.
FileNameBare(p, i) == Tables(p)[i]

FileName(p, i) ==
  IF SeenBefore(p, i) = 0 THEN Tables(p)[i] ELSE Append(Tables(p)[i], SeenBefore(p, i))

InitDir ==
  /\ yamls = [n \in {} |-> None]
  /\ ind = [p \in Proc |-> 1]
  /\ found = [p \in Proc |-> {}]
  /\ loaded = [p \in Proc |-> {}]

\* list_gcs_directory(config_dir) and os.listdir(config_dir); see ListedNames of
\* ConnectionStore about the final slash.
Listing == IF place = "gs://dir" THEN {} ELSE DOMAIN yamls

\* "Enforce empty directory to prevent accidental overwrites (Abort and Fail)"
EnforceEmpty(p) ==
  /\ pc[p] = "ready" /\ command[p].cmd = "store"
  /\ found' = [found EXCEPT ![p] = DOMAIN yamls]
  /\ pc' = [pc EXCEPT ![p] = IF Listing = {} THEN "storing" ELSE "raised"]
  /\ UNCHANGED <<place, command, yamls, ind, loaded>>

\* A slip: the directory is emptied for each file.
PutAlone(name, config) == yamls' = [n \in {name} |-> config]

Put(name, config) ==
  yamls' = [n \in DOMAIN yamls \cup {name} |-> IF n = name THEN config ELSE yamls[n]]

\* store_validation: a local file is truncated and then written.
OpenConfig(p) ==
  /\ pc[p] = "storing" /\ ind[p] <= Len(Tables(p)) /\ place = "local"
  /\ Put(FileName(p, ind[p]), Empty(p, ind[p]))
  /\ pc' = [pc EXCEPT ![p] = "writing config"]
  /\ UNCHANGED <<place, command, ind, found, loaded>>

WriteConfig(p) ==
  /\ \/ pc[p] = "writing config"
     \/ pc[p] = "storing" /\ ind[p] <= Len(Tables(p)) /\ place # "local"
  /\ Put(FileName(p, ind[p]), Config(p, ind[p]))
  /\ ind' = [ind EXCEPT ![p] = @ + 1]
  /\ pc' = [pc EXCEPT ![p] = "storing"]
  /\ UNCHANGED <<place, command, found, loaded>>

StoredAll(p) ==
  /\ pc[p] = "storing" /\ ind[p] > Len(Tables(p))
  /\ pc' = [pc EXCEPT ![p] = "done"]
  /\ UNCHANGED <<place, command, dirVars>>

\* configs run --config-dir: list_validations adds the slash that store_config_dir leaves
\* out, so it sees what is there.
ListValidations(p) ==
  /\ pc[p] = "start" /\ command[p].cmd = "run configs"
  /\ found' = [found EXCEPT ![p] = DOMAIN yamls]
  /\ pc' = [pc EXCEPT ![p] = "loading"]
  /\ UNCHANGED <<place, command, yamls, ind, loaded>>

\* get_validation: an empty file loads as None, which has no validations.
GetValidation(p) ==
  /\ pc[p] = "loading"
  /\ \E n \in found[p] :
       IF yamls[n].table # 0
       THEN /\ found' = [found EXCEPT ![p] = @ \ {n}]
            /\ loaded' = [loaded EXCEPT ![p] = @ \cup {yamls[n]}]
            /\ UNCHANGED pc
       ELSE pc' = [pc EXCEPT ![p] = "raised"] /\ UNCHANGED <<found, loaded>>
  /\ UNCHANGED <<place, command, yamls, ind>>

LoadedAll(p) ==
  /\ pc[p] = "loading" /\ found[p] = {}
  /\ pc' = [pc EXCEPT ![p] = "done"]
  /\ UNCHANGED <<place, command, dirVars>>

DirStep(p) ==
  \/ EnforceEmpty(p) \/ OpenConfig(p) \/ WriteConfig(p) \/ StoredAll(p)
  \/ ListValidations(p) \/ GetValidation(p) \/ LoadedAll(p)
=============================================================================
