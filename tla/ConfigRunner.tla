---------------------------- MODULE ConfigRunner ----------------------------
(***************************************************************************)
(* configs run --config-dir (__main__.py, config_runner): the validations  *)
(* of a directory of YAML files, run by one process after another or by    *)
(* the tasks of an indexed Kubernetes or Cloud Run job, each of which runs *)
(* the file with its number.  A task that fails is started again by the    *)
(* orchestrator.  Results are appended to a results table.                 *)
(***************************************************************************)
EXTENDS Integers, Sequences, FiniteSets, SequencesExt

CONSTANTS
  Tasks,             \* completions of the job; 1 without an orchestrator
  MaxAttempts,       \* how often the orchestrator starts a task
  MaxFailures,       \* bound on the calls that fail and tasks that are killed
  ConfigDirs         \* the directories to start from: file number -> validations

ASSUME TasksAssumption == Tasks \in Nat \ {0}
ASSUME MaxAttemptsAssumption == MaxAttempts \in Nat \ {0}
ASSUME MaxFailuresAssumption == MaxFailures \in Nat

\* A file is a sequence of validations.  A validation is an entry of a file, not its text:
\* no entry is in two files.
ASSUME ConfigDirsAssumption ==
  \A dir \in ConfigDirs :
    /\ IsFiniteSet(DOMAIN dir)
    /\ \A f \in DOMAIN dir : dir[f] \in Seq(ToSet(dir[f]))
    /\ \A f, g \in DOMAIN dir : f # g => ToSet(dir[f]) \cap ToSet(dir[g]) = {}

VARIABLES
  kube_completions, \* --kube-completions: the tasks are those of an indexed job
  config_dir,   \* the YAML files, numbered; an empty one cannot be loaded
  pc,           \* where each task is
  attempt,      \* the starts of each task
  files,        \* the files a task has yet to run
  validations,  \* the validations left in the file a task is running
  errors,       \* the flag of config_runner
  tried,        \* the files a task has started on in this attempt
  results,      \* the results table: one entry for each stored validation
  failures

arguments == <<kube_completions, config_dir>>
vars == <<arguments, pc, attempt, files, validations, errors, tried, results, failures>>

Task == 0..(Tasks - 1)

Stored(t, v) == [task |-> t, attempt |-> attempt[t], validation |-> v]

-----------------------------------------------------------------------------
InitTasks ==
  /\ pc = [t \in Task |-> "idle"]
  /\ attempt = [t \in Task |-> 0]
  /\ files = [t \in Task |-> {}]
  /\ validations = [t \in Task |-> <<>>]
  /\ errors = [t \in Task |-> FALSE]
  /\ tried = [t \in Task |-> {}]
  /\ results = {}
  /\ failures = 0

Init == InitTasks /\ kube_completions \in BOOLEAN /\ config_dir \in ConfigDirs

Goto(t, place) == pc' = [pc EXCEPT ![t] = place]

MayFail == failures < MaxFailures /\ failures' = failures + 1

\* A slip: a task of an indexed job runs every file.
AllFiles(t) == DOMAIN config_dir

\* list_validations, or the file with the task's index whether it exists or not.
FilesOf(t) == IF kube_completions THEN {t} ELSE DOMAIN config_dir

\* A slip: the attempts are not counted.
StartUncounted(t) ==
  /\ pc[t] \in {"idle", "failed"}
  /\ attempt[t] < MaxAttempts
  /\ files' = [files EXCEPT ![t] = FilesOf(t)]
  /\ validations' = [validations EXCEPT ![t] = <<>>]
  /\ errors' = [errors EXCEPT ![t] = FALSE]
  /\ tried' = [tried EXCEPT ![t] = {}]
  /\ Goto(t, "next file")
  /\ UNCHANGED <<arguments, attempt, results, failures>>

\* A process starts: the first time, or again after it failed.
Start(t) ==
  /\ pc[t] \in {"idle", "failed"}
  /\ attempt[t] < MaxAttempts
  /\ attempt' = [attempt EXCEPT ![t] = @ + 1]
  /\ files' = [files EXCEPT ![t] = FilesOf(t)]
  /\ validations' = [validations EXCEPT ![t] = <<>>]
  /\ errors' = [errors EXCEPT ![t] = FALSE]
  /\ tried' = [tried EXCEPT ![t] = {}]
  /\ Goto(t, "next file")
  /\ UNCHANGED <<arguments, results, failures>>

Loads(f) == f \in DOMAIN config_dir /\ config_dir[f] # <<>>

BuildConfigManagers(t, f) ==
  /\ pc[t] = "next file"
  /\ f \in files[t]
  /\ Loads(f)
  /\ files' = [files EXCEPT ![t] = @ \ {f}]
  /\ tried' = [tried EXCEPT ![t] = @ \cup {f}]
  /\ validations' = [validations EXCEPT ![t] = config_dir[f]]
  /\ Goto(t, "running")
  /\ UNCHANGED <<arguments, attempt, errors, results, failures>>

\* A slip: a file that cannot be loaded is waited for.
BuildConfigManagersWaits(t, f) ==
  /\ pc[t] = "next file"
  /\ f \in files[t]
  /\ Loads(f) /\ MayFail
  /\ tried' = [tried EXCEPT ![t] = @ \cup {f}]
  /\ Goto(t, "failed")
  /\ UNCHANGED <<arguments, attempt, files, validations, errors, results>>

\* The file is missing or empty, a connection file is missing, or a client does not
\* connect.  Nothing catches this, not even between two files of a directory.
BuildConfigManagersRaises(t, f) ==
  /\ pc[t] = "next file"
  /\ f \in files[t]
  /\ IF Loads(f) THEN MayFail ELSE UNCHANGED failures
  /\ tried' = [tried EXCEPT ![t] = @ \cup {f}]
  /\ Goto(t, "failed")
  /\ UNCHANGED <<arguments, attempt, files, validations, errors, results>>

\* One validation of the file: it stores its result.
RunValidation(t) ==
  /\ pc[t] = "running"
  /\ validations[t] # <<>>
  /\ results' = results \cup {Stored(t, Head(validations[t]))}
  /\ validations' = [validations EXCEPT ![t] = Tail(@)]
  /\ UNCHANGED <<arguments, pc, attempt, files, errors, tried, failures>>

\* A slip: the exception is caught everywhere and not remembered.
RunValidationRaisesQuietly(t) ==
  /\ pc[t] = "running"
  /\ validations[t] # <<>>
  /\ MayFail
  /\ results' \in {results, results \cup {Stored(t, Head(validations[t]))}}
  /\ validations' = [validations EXCEPT ![t] = <<>>]
  /\ Goto(t, "next file")
  /\ UNCHANGED <<arguments, attempt, files, errors, tried>>

\* A slip: the exception is caught outside the loop over the files.
RunValidationRaisesOutOfLoop(t) ==
  /\ pc[t] = "running"
  /\ validations[t] # <<>>
  /\ MayFail
  /\ results' \in {results, results \cup {Stored(t, Head(validations[t]))}}
  /\ validations' = [validations EXCEPT ![t] = <<>>]
  /\ files' = [files EXCEPT ![t] = {}]
  /\ errors' = [errors EXCEPT ![t] = TRUE]
  /\ Goto(t, "next file")
  /\ UNCHANGED <<arguments, attempt, tried>>

\* One validation raises, before or after its result is stored: the rest of the file is
\* skipped.  In an indexed task the exception ends the process.
RunValidationRaises(t) ==
  /\ pc[t] = "running"
  /\ validations[t] # <<>>
  /\ MayFail
  /\ results' \in {results, results \cup {Stored(t, Head(validations[t]))}}
  /\ validations' = [validations EXCEPT ![t] = <<>>]
  /\ IF kube_completions
     THEN Goto(t, "failed") /\ UNCHANGED errors
     ELSE Goto(t, "next file") /\ errors' = [errors EXCEPT ![t] = TRUE]
  /\ UNCHANGED <<arguments, attempt, files, tried>>

FileDone(t) ==
  /\ pc[t] = "running"
  /\ validations[t] = <<>>
  /\ Goto(t, "next file")
  /\ UNCHANGED <<arguments, attempt, files, validations, errors, tried, results, failures>>

\* "Some of the validations raised an exception"
Finish(t) ==
  /\ pc[t] = "next file"
  /\ files[t] = {}
  /\ Goto(t, IF errors[t] THEN "failed" ELSE "succeeded")
  /\ UNCHANGED <<arguments, attempt, files, validations, errors, tried, results, failures>>

\* The container is evicted or runs out of memory.
Killed(t) ==
  /\ pc[t] \in {"next file", "running"}
  /\ MayFail
  /\ Goto(t, "failed")
  /\ UNCHANGED <<arguments, attempt, files, validations, errors, tried, results>>

Work(t) ==
  \/ \E f \in files[t] : BuildConfigManagers(t, f) \/ BuildConfigManagersRaises(t, f)
  \/ RunValidation(t)
  \/ RunValidationRaises(t)
  \/ FileDone(t)
  \/ Finish(t)

Ended(t) == pc[t] = "succeeded" \/ (pc[t] = "failed" /\ attempt[t] = MaxAttempts)

JobEnded == (\A t \in Task : Ended(t)) /\ UNCHANGED vars

Run == \E t \in Task : Start(t) \/ Work(t) \/ Killed(t)

Next == Run \/ JobEnded

Spec == Init /\ [][Next]_vars

\* A started process runs on, and the orchestrator starts what may be started.
FairSpec == Spec /\ \A t \in Task : WF_vars(Start(t)) /\ WF_vars(Work(t))

-----------------------------------------------------------------------------
(* Properties.                                                             *)

Validations(f) == ToSet(config_dir[f])

TypeOK ==
  /\ pc \in [Task -> {"idle", "next file", "running", "failed", "succeeded"}]
  /\ attempt \in [Task -> 0..MaxAttempts]
  /\ failures \in 0..MaxFailures
  /\ \A t \in Task :
       /\ files[t] \cap tried[t] = {} \/ pc[t] = "failed"
       /\ \A f \in tried[t] : f \in FilesOf(t)
  /\ \A r \in results :
       /\ r.task \in Task /\ r.attempt \in 1..attempt[r.task]
       /\ \E f \in FilesOf(r.task) : r.validation \in Validations(f)

\* A process that exits normally has stored, in this attempt, every validation of the
\* files it was given: no exception of any file got lost.
SuccessMeansStored ==
  \A t \in Task : pc[t] = "succeeded" =>
    \A f \in FilesOf(t) : \A v \in Validations(f) : Stored(t, v) \in results

\* In an indexed job a validation is stored twice only if its task was started
\* twice: no two tasks run the same file, whatever files are missing.
DuplicatesComeFromRetries ==
  kube_completions =>
    \A r, s \in results :
      r.validation = s.validation => r.task = s.task

\* The files a process is past without having stored all of their results.
Lost(t) ==
  {f \in FilesOf(t) \ files[t] : \E v \in Validations(f) : Stored(t, v) \notin results}

\* An exception costs the rest of its own file and nothing else: whenever a process is
\* between two files or has ended, each file it is past without all of its results is
\* paid for by a failure of its own (the try inside the loop of config_runner).
FailureCostsOneFile ==
  \A t \in Task : pc[t] \in {"next file", "failed", "succeeded"} =>
    Cardinality(Lost(t)) <= failures

\* Every task ends: it succeeds, or it has used up its attempts.
JobEnds == \A t \in Task : <>Ended(t)
=============================================================================
