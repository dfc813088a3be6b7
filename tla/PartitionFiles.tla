--------------------------- MODULE PartitionFiles ---------------------------
(***************************************************************************)
(* generate-table-partitions after the filters are known: chunking them,   *)
(* collecting them in one folder for each source table and writing the     *)
(* YAML files (partition_builder.py, _add_partition_filters and            *)
(* _store_partitions; write_file in gcs_helper.py).                        *)
(*                                                                         *)
(* The command may be run again on the same directory, may raise, and its  *)
(* process may be killed while it writes.  A partition is named by the run *)
(* that made it, its table pair and its place in the list of filters.      *)
(***************************************************************************)
EXTENDS Integers, Sequences, FiniteSets, SequencesExt

CONSTANTS
  Folders,         \* Folders[i]: full_source_table of the i-th table pair
  PartCounts,      \* how many filters _get_partition_key_filters may return
  parts_per_file,  \* --parts-per-file
  GCS,             \* TRUE: --config-dir is in a bucket, an upload is atomic
  MaxRuns          \* bound on the runs of the command

ASSUME FoldersAssumption == Folders \in Seq(STRING) /\ Folders # <<>>
ASSUME PartCountsAssumption == PartCounts \subseteq Nat \ {0, 1}
ASSUME PartsPerFileAssumption == parts_per_file \in Nat \ {0}
ASSUME GCSAssumption == GCS \in BOOLEAN
ASSUME MaxRunsAssumption == MaxRuns \in Nat

VARIABLES
  run,                \* runs of the command so far
  stage,              \* where the present run is
  partition_filters,  \* for each pair, its partitions
  yaml_configs_list,  \* for each folder in use, its files in order
  ind,                \* the table pair _add_partition_filters is at
  at,                 \* where the two loops of _store_partitions are
  disk                \* what the directory holds

vars == <<run, stage, partition_filters, yaml_configs_list, ind, at, disk>>

Pairs == 1..Len(Folders)

\* The first file of the first folder.
FirstFile == [table |-> 1, yaml_file |-> 1]

\* A file that was opened for writing and not written is empty; one that was cut within
\* its first validation can as little be loaded.
Truncated == <<>>

Partition(r, pair, n) == [run |-> r, pair |-> pair, part |-> n]

\* A slip: files numbered from one.
FileNameFromOne(folder, i) == [folder |-> folder, index |-> i]

\* The YAML files of one folder are numbered from zero.
FileName(folder, i) == [folder |-> folder, index |-> i - 1]

-----------------------------------------------------------------------------
(* util.py: list_to_sublists                                               *)

SmallerOf(a, b) == IF a < b THEN a ELSE b

\* A slip: range(0, len(id_list) - max_size, max_size), without the rest.
full_sublists(id_list, max_size) ==
  [i \in 1..(Len(id_list) \div max_size) |->
     SubSeq(id_list, (i - 1) * max_size + 1, i * max_size)]

list_to_sublists(id_list, max_size) ==
  [i \in 1..((Len(id_list) + max_size - 1) \div max_size) |->
     SubSeq(id_list, (i - 1) * max_size + 1,
                     SmallerOf(i * max_size, Len(id_list)))]

-----------------------------------------------------------------------------
Init ==
  /\ run = 0
  /\ stage = "idle"
  /\ partition_filters = <<>>
  /\ yaml_configs_list = <<>>
  /\ ind = 1
  /\ at = FirstFile
  /\ disk = [name \in {} |-> <<>>]

\* A new run of the command; the tables may have changed since the last one, and
\* between the queries for one pair and for the next.
GetPartitionKeyFilters ==
  /\ stage \in {"idle", "done", "raised"}
  /\ run < MaxRuns
  /\ run' = run + 1
  /\ \E count \in [Pairs -> PartCounts] :
       partition_filters' =
         [pair \in Pairs |-> [n \in 1..count[pair] |-> Partition(run', pair, n)]]
  /\ yaml_configs_list' = <<>>
  /\ ind' = 1
  /\ at' = FirstFile
  /\ stage' = "adding"
  /\ UNCHANGED disk

\* A database error, or a table of fewer than two rows.
GetPartitionKeyFiltersRaises ==
  /\ stage \in {"idle", "done", "raised"}
  /\ run < MaxRuns
  /\ run' = run + 1
  /\ stage' = "raised"
  /\ UNCHANGED <<partition_filters, yaml_configs_list, ind, at, disk>>

Sublists(pair) == list_to_sublists(partition_filters[pair], parts_per_file)

\* src_config_dict: the place of a folder in yaml_configs_list.
PlacesOf(folder) ==
  {i \in 1..Len(yaml_configs_list) : yaml_configs_list[i].folder = folder}

AddNewFolder ==
  /\ stage = "adding"
  /\ ind \in Pairs
  /\ PlacesOf(Folders[ind]) = {}
  /\ yaml_configs_list' =
       Append(yaml_configs_list, [folder |-> Folders[ind], yaml_files |-> Sublists(ind)])
  /\ ind' = ind + 1
  /\ UNCHANGED <<run, stage, partition_filters, at, disk>>

\* The validations that a repeated source table adds to file i of its folder.
Extended(yaml_files, sublists) ==
  [i \in 1..Len(yaml_files) |->
     IF i <= Len(sublists) THEN yaml_files[i] \o sublists[i] ELSE yaml_files[i]]

ExtendFolder ==
  /\ stage = "adding"
  /\ ind \in Pairs
  /\ \E place \in PlacesOf(Folders[ind]) :
       /\ Len(Sublists(ind)) <= Len(yaml_configs_list[place].yaml_files)
       /\ yaml_configs_list' =
            [yaml_configs_list EXCEPT ![place].yaml_files = Extended(@, Sublists(ind))]
  /\ ind' = ind + 1
  /\ UNCHANGED <<run, stage, partition_filters, at, disk>>

\* yaml_files[i] of a file that the first pair with this source table did not need.
ExtendFolderRaises ==
  /\ stage = "adding"
  /\ ind \in Pairs
  /\ \E place \in PlacesOf(Folders[ind]) :
       Len(Sublists(ind)) > Len(yaml_configs_list[place].yaml_files)
  /\ stage' = "raised"
  /\ UNCHANGED <<run, partition_filters, yaml_configs_list, ind, at, disk>>

StorePartitions ==
  /\ stage = "adding"
  /\ ind > Len(Folders)
  /\ at' = FirstFile
  /\ stage' = "storing"
  /\ UNCHANGED <<run, partition_filters, yaml_configs_list, ind, disk>>

\* for table in yaml_configs_list: for yaml_file in table["yaml_files"]; a table has at
\* least one file.
AllStored == at.table > Len(yaml_configs_list)
table == yaml_configs_list[at.table]
target_file == FileName(table.folder, at.yaml_file)
yaml_config == table.yaml_files[at.yaml_file]

NextFile ==
  IF at.yaml_file < Len(table.yaml_files)
  THEN [at EXCEPT !.yaml_file = @ + 1]
  ELSE [table |-> at.table + 1, yaml_file |-> 1]

Put(name, content) ==
  disk' = [n \in DOMAIN disk \cup {name} |-> IF n = name THEN content ELSE disk[n]]

\* A slip: a file that exists is taken for one that this run has written.
OpenMissingFile ==
  /\ stage = "storing"
  /\ ~GCS
  /\ ~AllStored
  /\ IF target_file \in DOMAIN disk
     THEN at' = NextFile /\ UNCHANGED <<stage, disk>>
     ELSE Put(target_file, Truncated) /\ stage' = "writing" /\ UNCHANGED at
  /\ UNCHANGED <<run, partition_filters, yaml_configs_list, ind>>

\* open(file_path, "w") empties a local file before the text is written.
OpenFile ==
  /\ stage = "storing"
  /\ ~GCS
  /\ ~AllStored
  /\ Put(target_file, Truncated)
  /\ stage' = "writing"
  /\ UNCHANGED <<run, partition_filters, yaml_configs_list, ind, at>>

\* file.write and close put the text of a local file into it bit by bit: if the process is
\* killed or the disk is full, the file keeps the validations it has so far.
WriteSome ==
  /\ stage = "writing"
  /\ \E n \in 0..(Len(yaml_config) - 1) : Put(target_file, SubSeq(yaml_config, 1, n))
  /\ UNCHANGED <<run, stage, partition_filters, yaml_configs_list, ind, at>>

\* The rest of the text; the whole of it for an upload to a bucket.
WriteFile ==
  /\ stage = "writing" \/ (GCS /\ stage = "storing" /\ ~AllStored)
  /\ Put(target_file, yaml_config)
  /\ at' = NextFile
  /\ stage' = "storing"
  /\ UNCHANGED <<run, partition_filters, yaml_configs_list, ind>>

\* A slip: success is reported before the last file is written.
PartitionsWrittenEarly ==
  /\ stage = "storing"
  /\ stage' = "done"
  /\ UNCHANGED <<run, partition_filters, yaml_configs_list, ind, at, disk>>

\* "Success! Table partition configs written to directory"
PartitionsWritten ==
  /\ stage = "storing"
  /\ AllStored
  /\ stage' = "done"
  /\ UNCHANGED <<run, partition_filters, yaml_configs_list, ind, at, disk>>

\* The process is killed, or a write fails.
Killed ==
  /\ stage \in {"adding", "storing", "writing"}
  /\ stage' = "raised"
  /\ UNCHANGED <<run, partition_filters, yaml_configs_list, ind, at, disk>>

Generate ==
  \/ GetPartitionKeyFilters
  \/ GetPartitionKeyFiltersRaises
  \/ AddNewFolder
  \/ ExtendFolder
  \/ ExtendFolderRaises
  \/ StorePartitions
  \/ OpenFile
  \/ WriteSome
  \/ WriteFile
  \/ PartitionsWritten
  \/ Killed

NoMoreRuns ==
  /\ stage \in {"idle", "done", "raised"}
  /\ run = MaxRuns
  /\ UNCHANGED vars

Next == Generate \/ NoMoreRuns

Spec == Init /\ [][Next]_vars

-----------------------------------------------------------------------------
(* Properties.                                                             *)

\* The partitions of the present run.
Partitions == UNION {{partition_filters[pair][n] : n \in 1..Len(partition_filters[pair])} :
                       pair \in 1..Len(partition_filters)}

Readable == {name \in DOMAIN disk : disk[name] # Truncated}
Holding(p) == {name \in Readable : \E i \in 1..Len(disk[name]) : disk[name][i] = p}

TypeOK ==
  /\ run \in 0..MaxRuns
  /\ stage \in {"idle", "adding", "storing", "writing", "done", "raised"}
  /\ ind \in 1..(Len(Folders) + 1)
  /\ at.table \in 1..(Len(yaml_configs_list) + 1) /\ at.yaml_file \in Nat \ {0}
  /\ stage = "adding" => at = FirstFile
  /\ stage = "done" => AllStored
  /\ \A p \in Partitions : p.run \in 1..run /\ p.pair \in Pairs
  /\ \A name \in DOMAIN disk : name.folder \in ToSet(Folders) /\ name.index \in Nat

\* When the command reports success, each partition of the run is in exactly one file,
\* once, in the folder of its source table, whatever was in the directory before and
\* however the pairs share folders.
EveryPartitionInOneFile ==
  stage = "done" =>
    \A p \in Partitions :
      \E name \in Readable :
        /\ Holding(p) = {name}
        /\ name.folder = Folders[p.pair]
        /\ Cardinality({i \in 1..Len(disk[name]) : disk[name][i] = p}) = 1

\* A file has at most parts_per_file validations of one pair, and only the last file of
\* a pair has fewer (README, Generate Partitions), so file numbers mean ranges of keys.
FilesAreFull ==
  stage = "done" =>
    \A p \in Partitions, name \in Readable :
      name \in Holding(p) => name.index = (p.part - 1) \div parts_per_file

\* At any time, also after a kill in the middle of a file, the partitions of the present
\* run that can be loaded are the first ones of each pair: a run that was interrupted
\* leaves no hole behind a partition it stored, whatever files were there before
\* (_store_partitions, write_file).
StoredPartitionsAreFirst ==
  \A p, q \in Partitions :
    p.run = run /\ q.pair = p.pair /\ q.part < p.part /\ Holding(p) # {} => Holding(q) # {}
=============================================================================
