---------------------------- MODULE PartitionJob ----------------------------
(***************************************************************************)
(* A large table validated by an indexed job, from end to end: somebody    *)
(* runs generate-table-partitions, once or again, and when it has reported *)
(* success creates a job with one task for each of partition_num           *)
(* partitions, each of which runs the YAML file with its index (README,    *)
(* Scaling DVT).                                                           *)
(***************************************************************************)
EXTENDS PartitionFiles

CONSTANTS Tasks, MaxAttempts, MaxFailures

ASSUME TasksAssumption == Tasks \in Nat \ {0}

VARIABLES kube_completions, pc, attempt, files, validations, errors, tried, results, failures

jobVars == <<kube_completions, pc, attempt, files, validations, errors, tried, results, failures>>

\* The folder given to the job as --config-dir.
folder == Folders[1]

FileNumbers == {name.index : name \in {n \in DOMAIN disk : n.folder = folder}}
config_dir == [i \in FileNumbers |-> disk[[folder |-> folder, index |-> i]]]

Job == INSTANCE ConfigRunner WITH ConfigDirs <- {}

JobInit == Init /\ Job!InitTasks /\ kube_completions = TRUE

JobHasStarted == \E t \in 0..(Tasks - 1) : attempt[t] > 0

GenerateFiles == ~JobHasStarted /\ Generate /\ UNCHANGED jobVars

RunJob == stage = "done" /\ UNCHANGED vars /\ Job!Run

JobIsOver ==
  /\ \A t \in 0..(Tasks - 1) : Job!Ended(t)
  /\ UNCHANGED <<vars, jobVars>>

NeverDone == ~JobHasStarted /\ stage # "done" /\ NoMoreRuns /\ UNCHANGED jobVars

JobNext == GenerateFiles \/ RunJob \/ JobIsOver \/ NeverDone

JobSpec == JobInit /\ [][JobNext]_<<vars, jobVars>>

-----------------------------------------------------------------------------
(* Properties.                                                             *)

JobSucceeded == \A t \in 0..(Tasks - 1) : pc[t] = "succeeded"

\* The partitions of the table the job is about.
Wanted == {p \in Partitions : Folders[p.pair] = folder}

Validated(p) == \E r \in results : r.validation = p

\* When every task succeeded and there are no more files than tasks, every partition
\* of the last generation has been validated, even if earlier generations left files
\* behind or tasks were killed and run again.
JobCoversTable ==
  JobSucceeded /\ Cardinality(FileNumbers) <= Tasks => \A p \in Wanted : Validated(p)

\* The tasks only write results of the files they found: a half-written generation is
\* never mixed with the one the job runs, except for files it left behind.
OldPartitionsOnlyFromOldFiles ==
  \A r \in results : r.validation.run # run =>
    \A p \in Wanted : (p.part - 1) \div parts_per_file # r.task
=============================================================================
