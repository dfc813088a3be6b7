------------------------- MODULE ConfigRunnerProofs -------------------------
(***************************************************************************)
(* Proofs about ConfigRunner, for any number of tasks, files, validations, *)
(* attempts and failures: its types, that a task which succeeds has stored *)
(* every validation of its files, that no two tasks of an indexed job      *)
(* store the same validation, and that a failure costs the rest of one     *)
(* file.                                                                   *)
(***************************************************************************)
EXTENDS ConfigRunner, ListLemmas, FiniteSetTheorems, TLAPS

(***************************************************************************)
(* The inductive invariant.                                                *)
(***************************************************************************)

\* What a file number can be, and what can be run at all.
FileNumbers == Task \cup DOMAIN config_dir
AllValidations == UNION {Validations(f) : f \in DOMAIN config_dir}

Places == {"idle", "next file", "running", "failed", "succeeded"}

Typed ==
  /\ kube_completions \in BOOLEAN
  /\ config_dir \in ConfigDirs
  /\ pc \in [Task -> Places]
  /\ attempt \in [Task -> 0..MaxAttempts]
  /\ files \in [Task -> SUBSET FileNumbers]
  /\ validations \in [Task -> Seq(AllValidations)]
  /\ errors \in [Task -> BOOLEAN]
  /\ tried \in [Task -> SUBSET FileNumbers]
  /\ failures \in 0..MaxFailures

\* The files of a task are those it has tried and those it has yet to run; a file it
\* got past could be loaded.
FilesSplit(t) ==
  /\ files[t] \subseteq FilesOf(t)
  /\ tried[t] \subseteq FilesOf(t)
  /\ pc[t] # "failed" => files[t] \cap tried[t] = {}
  /\ pc[t] \in {"next file", "running", "succeeded"} =>
       /\ FilesOf(t) \subseteq files[t] \cup tried[t]
       /\ tried[t] \subseteq DOMAIN config_dir
       /\ attempt[t] >= 1

\* The validations a task still has to run are those of one of its files.
OfOneFile(t) ==
  pc[t] = "running" =>
    \E f \in tried[t] : ToSet(validations[t]) \subseteq Validations(f)

\* A validation that is due and neither stored nor left to run is remembered as an error.
Accounted(t) ==
  pc[t] \in {"next file", "running", "succeeded"} /\ ~errors[t] =>
    \A f \in tried[t] : \A v \in Validations(f) :
      \/ Stored(t, v) \in results
      \/ pc[t] = "running" /\ v \in ToSet(validations[t])

SucceededClean(t) == pc[t] = "succeeded" => files[t] = {} /\ ~errors[t]

ResultOfAFile(r) ==
  /\ r.task \in Task /\ r.attempt \in 1..attempt[r.task]
  /\ \E f \in FilesOf(r.task) \cap DOMAIN config_dir : r.validation \in Validations(f)

TaskInv(t) == FilesSplit(t) /\ OfOneFile(t) /\ Accounted(t) /\ SucceededClean(t)

IInv ==
  /\ Typed
  /\ \A t \in Task : TaskInv(t)
  /\ \A r \in results : ResultOfAFile(r)

-----------------------------------------------------------------------------
\* A file is a sequence of its validations (ConfigDirsAssumption for the directory of
\* the run).
LEMMA FileIsASequence ==
  ASSUME Typed, NEW f \in DOMAIN config_dir
  PROVE  config_dir[f] \in Seq(AllValidations) /\ Validations(f) \subseteq AllValidations
<1>1. config_dir[f] \in Seq(Validations(f))
  BY ConfigDirsAssumption DEF Typed, Validations
<1>2. Validations(f) \subseteq AllValidations
  BY DEF AllValidations
<1> QED BY <1>1, <1>2

\* A step that leaves a task alone and only adds results leaves its invariant alone.
LEMMA OtherTasks ==
  ASSUME NEW t \in Task, TaskInv(t), UNCHANGED arguments, results \subseteq results',
         pc'[t] = pc[t], attempt'[t] = attempt[t], files'[t] = files[t],
         validations'[t] = validations[t], errors'[t] = errors[t], tried'[t] = tried[t]
  PROVE  TaskInv(t)'
BY DEF TaskInv, FilesSplit, OfOneFile, Accounted, SucceededClean, FilesOf, Validations,
       Stored, arguments

\* A result stays one of a file: attempts only grow.
LEMMA ResultsKept ==
  ASSUME NEW r, ResultOfAFile(r), Typed, Typed', UNCHANGED arguments,
         \A t \in Task : attempt[t] <= attempt'[t]
  PROVE  ResultOfAFile(r)'
<1>1. attempt[r.task] \in Nat /\ attempt'[r.task] \in Nat /\ attempt[r.task] <= attempt'[r.task]
  BY MaxAttemptsAssumption DEF ResultOfAFile, Typed
<1>2. 1..attempt[r.task] \subseteq 1..attempt'[r.task]
  BY <1>1
<1> QED BY <1>2 DEF ResultOfAFile, FilesOf, Validations, arguments

\* What a validation that runs may add to the results belongs to a file of its task.
LEMMA ResultAdded ==
  ASSUME IInv, NEW t \in Task, pc[t] = "running", validations[t] # <<>>
  PROVE  ResultOfAFile(Stored(t, Head(validations[t])))
<1> DEFINE v == Head(validations[t])
<1>1. TaskInv(t) /\ Typed
  BY DEF IInv
<1>2. PICK f \in tried[t] : ToSet(validations[t]) \subseteq Validations(f)
  BY <1>1 DEF TaskInv, OfOneFile
<1>3. v \in Validations(f)
  BY <1>1, <1>2, HeadAndTail DEF Typed
<1>4. f \in FilesOf(t) \cap DOMAIN config_dir
  BY <1>1 DEF TaskInv, FilesSplit
<1>5. attempt[t] \in 1..attempt[t]
  BY <1>1, MaxAttemptsAssumption DEF TaskInv, FilesSplit, Typed
<1> QED BY <1>3, <1>4, <1>5 DEF ResultOfAFile, Stored

-----------------------------------------------------------------------------
(* One lemma for each action.                                              *)

\* What a task is given to run are numbers of files.
LEMMA FilesOfTyped == ASSUME NEW t \in Task PROVE FilesOf(t) \subseteq FileNumbers
BY DEF FilesOf, FileNumbers

\* The variables keep their types if each of them does: the directory does not change.
LEMMA StillTyped ==
  ASSUME Typed, UNCHANGED arguments, pc' \in [Task -> Places],
         attempt' \in [Task -> 0..MaxAttempts], files' \in [Task -> SUBSET FileNumbers],
         validations' \in [Task -> Seq(AllValidations)], errors' \in [Task -> BOOLEAN],
         tried' \in [Task -> SUBSET FileNumbers], failures' \in 0..MaxFailures
  PROVE  Typed'
BY DEF Typed, FileNumbers, AllValidations, Validations, arguments

\* The calls that fail stay within their bound.
LEMMA MayFailTyped == ASSUME Typed, MayFail PROVE failures' \in 0..MaxFailures
BY MaxFailuresAssumption DEF Typed, MayFail

\* The parts of IInv for a step of t that leaves the attempts alone.
LEMMA StepOfTask ==
  ASSUME IInv, NEW t \in Task, UNCHANGED <<arguments, attempt>>, Typed', TaskInv(t)',
         results \subseteq results', \A r \in results' \ results : ResultOfAFile(r),
         \A s \in Task \ {t} :
           /\ pc'[s] = pc[s] /\ files'[s] = files[s] /\ validations'[s] = validations[s]
           /\ errors'[s] = errors[s] /\ tried'[s] = tried[s]
  PROVE  IInv'
<1>1. \A s \in Task : attempt'[s] = attempt[s] /\ attempt[s] <= attempt'[s]
  BY MaxAttemptsAssumption DEF IInv, Typed
<1>2. \A r \in results' : ResultOfAFile(r)'
  BY <1>1, ResultsKept DEF IInv
<1>3. ASSUME NEW s \in Task \ {t} PROVE TaskInv(s)'
  BY <1>1, <1>3, OtherTasks DEF IInv
<1> QED BY <1>2, <1>3 DEF IInv

\* Start empties what an earlier attempt left; its results stay.
LEMMA StartIInv == ASSUME IInv, NEW t \in Task, Start(t) PROVE IInv'
<1>1. Typed /\ attempt[t] \in 0..MaxAttempts
  BY DEF IInv, Typed
<1>2. /\ attempt[t] + 1 \in 0..MaxAttempts /\ attempt[t] + 1 >= 1
      /\ attempt' = [attempt EXCEPT ![t] = attempt[t] + 1]
  <2>1. attempt[t] < MaxAttempts /\ attempt' = [attempt EXCEPT ![t] = attempt[t] + 1]
    BY DEF Start
  <2> QED BY <1>1, <2>1, MaxAttemptsAssumption
<1>3. \A s \in Task : attempt[s] <= attempt'[s]
  BY <1>1, <1>2, MaxAttemptsAssumption DEF Typed
<1>4. Typed'
  <2>1. pc' \in [Task -> Places]
    BY <1>1 DEF Typed, Start, Goto, Places
  <2>2. attempt' \in [Task -> 0..MaxAttempts]
    BY <1>1, <1>2 DEF Typed
  <2>3. files' \in [Task -> SUBSET FileNumbers] /\ tried' \in [Task -> SUBSET FileNumbers]
    BY <1>1, FilesOfTyped DEF Typed, Start
  <2>4. validations' \in [Task -> Seq(AllValidations)]
    <3>1. <<>> \in Seq(AllValidations)
      OBVIOUS
    <3>2. validations' = [validations EXCEPT ![t] = <<>>]
      BY DEF Start
    <3> QED BY <1>1, <3>1, <3>2 DEF Typed
  <2>5. errors' \in [Task -> BOOLEAN]
    BY <1>1 DEF Typed, Start
  <2>6. UNCHANGED arguments /\ failures' \in 0..MaxFailures
    BY <1>1 DEF Start, Typed
  <2> QED BY <1>1, <2>1, <2>2, <2>3, <2>4, <2>5, <2>6, StillTyped
<1>5. TaskInv(t)'
  <2>1. pc'[t] = "next file" /\ files'[t] = FilesOf(t) /\ tried'[t] = {} /\ attempt'[t] >= 1
    BY <1>1, <1>2 DEF Typed, Start, Goto
  <2> QED BY <2>1 DEF TaskInv, FilesSplit, OfOneFile, Accounted, SucceededClean, FilesOf,
                      Start, arguments
<1>6. ASSUME NEW s \in Task, s # t PROVE TaskInv(s)'
  BY <1>1, <1>6, OtherTasks DEF Start, Goto, IInv, Typed
<1>7. \A r \in results' : ResultOfAFile(r)'
  BY <1>1, <1>3, <1>4, ResultsKept DEF Start, IInv
<1> QED BY <1>4, <1>5, <1>6, <1>7 DEF IInv

\* A file that is loaded goes from those to run to those tried.
LEMMA BuildConfigManagersIInv ==
  ASSUME IInv, NEW t \in Task, NEW f \in files[t], BuildConfigManagers(t, f)
  PROVE  IInv'
<1>1. Typed /\ TaskInv(t) /\ f \in DOMAIN config_dir /\ f \in FilesOf(t)
  BY DEF IInv, BuildConfigManagers, Loads, TaskInv, FilesSplit
<1>2. f \in FileNumbers /\ config_dir[f] \in Seq(AllValidations)
  BY <1>1, FilesOfTyped, FileIsASequence
<1>3. Typed'
  <2>1. pc' \in [Task -> Places]
    BY <1>1 DEF Typed, BuildConfigManagers, Goto, Places
  <2>2. files' \in [Task -> SUBSET FileNumbers] /\ tried' \in [Task -> SUBSET FileNumbers]
    BY <1>1, <1>2 DEF Typed, BuildConfigManagers
  <2>3. validations' \in [Task -> Seq(AllValidations)]
    BY <1>1, <1>2 DEF Typed, BuildConfigManagers
  <2>4. UNCHANGED <<arguments, attempt, errors, failures>>
    BY DEF BuildConfigManagers
  <2> QED BY <1>1, <2>1, <2>2, <2>3, <2>4, StillTyped DEF Typed
<1>4. /\ pc[t] = "next file" /\ pc'[t] = "running"
      /\ files'[t] = files[t] \ {f} /\ tried'[t] = tried[t] \cup {f}
      /\ validations'[t] = config_dir[f]
      /\ UNCHANGED <<arguments, attempt, errors, results>>
  BY <1>1 DEF Typed, BuildConfigManagers, Goto
<1>5. TaskInv(t)'
  <2>1. FilesSplit(t)' /\ SucceededClean(t)'
    BY <1>1, <1>4 DEF TaskInv, FilesSplit, SucceededClean, FilesOf, arguments
  <2>2. OfOneFile(t)'
    BY <1>4 DEF OfOneFile, Validations, arguments
  <2>3. Accounted(t)'
    BY <1>1, <1>4 DEF TaskInv, Accounted, Validations, Stored, arguments
  <2> QED BY <2>1, <2>2, <2>3 DEF TaskInv
<1>6. \A s \in Task \ {t} :
        /\ pc'[s] = pc[s] /\ files'[s] = files[s] /\ validations'[s] = validations[s]
        /\ errors'[s] = errors[s] /\ tried'[s] = tried[s]
  BY <1>1 DEF Typed, BuildConfigManagers, Goto
<1> QED BY <1>3, <1>4, <1>5, <1>6, StepOfTask

\* A file that cannot be loaded ends the process.
LEMMA BuildConfigManagersRaisesIInv ==
  ASSUME IInv, NEW t \in Task, NEW f \in files[t], BuildConfigManagersRaises(t, f)
  PROVE  IInv'
<1>1. Typed /\ TaskInv(t) /\ f \in FilesOf(t) /\ f \in FileNumbers
  BY FilesOfTyped DEF IInv, TaskInv, FilesSplit
<1>2. Typed'
  <2>1. pc' \in [Task -> Places]
    BY <1>1 DEF Typed, BuildConfigManagersRaises, Goto, Places
  <2>2. tried' \in [Task -> SUBSET FileNumbers]
    BY <1>1 DEF Typed, BuildConfigManagersRaises
  <2>3. UNCHANGED <<arguments, attempt, files, validations, errors>>
    BY DEF BuildConfigManagersRaises
  <2>4. failures' \in 0..MaxFailures
    BY <1>1, MayFailTyped DEF BuildConfigManagersRaises, Typed
  <2> QED BY <1>1, <2>1, <2>2, <2>3, <2>4, StillTyped DEF Typed
<1>3. /\ pc'[t] = "failed" /\ tried'[t] = tried[t] \cup {f}
      /\ UNCHANGED <<arguments, attempt, files, validations, errors, results>>
  BY <1>1 DEF Typed, BuildConfigManagersRaises, Goto
<1>4. TaskInv(t)'
  BY <1>1, <1>3 DEF TaskInv, FilesSplit, OfOneFile, Accounted, SucceededClean, FilesOf, arguments
<1>5. \A s \in Task \ {t} :
        /\ pc'[s] = pc[s] /\ files'[s] = files[s] /\ validations'[s] = validations[s]
        /\ errors'[s] = errors[s] /\ tried'[s] = tried[s]
  BY <1>1 DEF Typed, BuildConfigManagersRaises, Goto
<1> QED BY <1>2, <1>3, <1>4, <1>5, StepOfTask

\* A validation that stores its result is no longer left to run.
LEMMA RunValidationIInv == ASSUME IInv, NEW t \in Task, RunValidation(t) PROVE IInv'
<1> DEFINE v == Head(validations[t])
<1>1. /\ Typed /\ TaskInv(t) /\ pc[t] = "running" /\ validations[t] # <<>>
      /\ validations[t] \in Seq(AllValidations)
  BY DEF IInv, RunValidation, Typed
<1>2. /\ Tail(validations[t]) \in Seq(AllValidations)
      /\ ToSet(validations[t]) = {v} \cup ToSet(Tail(validations[t]))
  BY <1>1, HeadAndTail
<1>3. /\ results' = results \cup {Stored(t, v)}
      /\ validations' = [validations EXCEPT ![t] = Tail(validations[t])]
      /\ UNCHANGED <<arguments, pc, attempt, files, errors, tried, failures>>
  BY DEF RunValidation
<1>4. validations' \in [Task -> Seq(AllValidations)] /\ validations'[t] = Tail(validations[t])
  BY <1>1, <1>2, <1>3 DEF Typed
<1>5. Typed'
  BY <1>1, <1>3, <1>4, StillTyped DEF Typed
<1>6. TaskInv(t)'
  <2>1. FilesSplit(t)' /\ SucceededClean(t)'
    BY <1>1, <1>3 DEF TaskInv, FilesSplit, SucceededClean, FilesOf, arguments
  <2>2. OfOneFile(t)'
    BY <1>1, <1>2, <1>3, <1>4 DEF TaskInv, OfOneFile, Validations, arguments
  <2>3. Accounted(t)'
    BY <1>1, <1>2, <1>3, <1>4 DEF TaskInv, Accounted, Validations, Stored, arguments
  <2> QED BY <2>1, <2>2, <2>3 DEF TaskInv
<1>7. \A r \in results' \ results : ResultOfAFile(r)
  BY <1>1, <1>3, ResultAdded
<1>8. \A s \in Task \ {t} : validations'[s] = validations[s]
  BY <1>1, <1>3 DEF Typed
<1> QED BY <1>3, <1>5, <1>6, <1>7, <1>8, StepOfTask

\* A validation that raises is remembered by the flag or ends the process.
LEMMA RunValidationRaisesIInv ==
  ASSUME IInv, NEW t \in Task, RunValidationRaises(t) PROVE IInv'
<1> DEFINE v == Head(validations[t])
<1>1. Typed /\ TaskInv(t) /\ pc[t] = "running" /\ validations[t] # <<>>
  BY DEF IInv, RunValidationRaises
<1>2. /\ results \subseteq results' /\ results' \subseteq results \cup {Stored(t, v)}
      /\ UNCHANGED <<arguments, attempt, files, tried>>
      /\ validations' = [validations EXCEPT ![t] = <<>>]
  BY DEF RunValidationRaises
<1>3. \/ pc'[t] = "failed"
      \/ pc'[t] = "next file" /\ errors'[t] = TRUE
  BY <1>1 DEF RunValidationRaises, Goto, Typed
<1>4. Typed'
  <2>1. pc' \in [Task -> Places] /\ errors' \in [Task -> BOOLEAN]
    BY <1>1 DEF RunValidationRaises, Goto, Typed, Places
  <2>2. <<>> \in Seq(AllValidations)
    OBVIOUS
  <2>3. validations' \in [Task -> Seq(AllValidations)]
    BY <1>1, <1>2, <2>2 DEF Typed
  <2>4. failures' \in 0..MaxFailures
    BY <1>1, MayFailTyped DEF RunValidationRaises
  <2> QED BY <1>1, <1>2, <2>1, <2>3, <2>4, StillTyped DEF Typed
<1>5. TaskInv(t)'
  BY <1>1, <1>2, <1>3 DEF TaskInv, FilesSplit, OfOneFile, Accounted, SucceededClean, FilesOf,
       arguments
<1>6. \A r \in results' \ results : ResultOfAFile(r)
  BY <1>1, <1>2, ResultAdded
<1>7. \A s \in Task \ {t} :
        pc'[s] = pc[s] /\ validations'[s] = validations[s] /\ errors'[s] = errors[s]
  BY <1>1 DEF RunValidationRaises, Goto, Typed
<1> QED BY <1>2, <1>4, <1>5, <1>6, <1>7, StepOfTask

\* A file is done when none of its validations is left.
LEMMA FileDoneIInv == ASSUME IInv, NEW t \in Task, FileDone(t) PROVE IInv'
<1>1. Typed /\ TaskInv(t) /\ pc[t] = "running" /\ validations[t] = <<>>
  BY DEF IInv, FileDone
<1>2. UNCHANGED <<arguments, attempt, files, validations, errors, tried, results, failures>>
  BY DEF FileDone
<1>3. pc' \in [Task -> Places] /\ pc'[t] = "next file" /\ \A s \in Task \ {t} : pc'[s] = pc[s]
  BY <1>1 DEF FileDone, Goto, Typed, Places
<1>4. Typed'
  BY <1>1, <1>2, <1>3, StillTyped DEF Typed
<1>5. TaskInv(t)'
  <2>1. ToSet(validations[t]) = {}
    BY <1>1 DEF ToSet
  <2> QED BY <1>1, <1>2, <1>3, <2>1 DEF TaskInv, FilesSplit, OfOneFile, Accounted,
          SucceededClean, FilesOf, Validations, Stored, arguments
<1> QED BY <1>2, <1>3, <1>4, <1>5, StepOfTask

\* A process succeeds with all of its files tried and no error remembered.
LEMMA FinishIInv == ASSUME IInv, NEW t \in Task, Finish(t) PROVE IInv'
<1>1. Typed /\ TaskInv(t) /\ pc[t] = "next file" /\ files[t] = {}
  BY DEF IInv, Finish
<1>2. UNCHANGED <<arguments, attempt, files, validations, errors, tried, results, failures>>
  BY DEF Finish
<1>3. /\ pc' \in [Task -> Places] /\ \A s \in Task \ {t} : pc'[s] = pc[s]
      /\ pc'[t] = "failed" \/ (pc'[t] = "succeeded" /\ ~errors[t])
  BY <1>1 DEF Finish, Goto, Typed, Places
<1>4. Typed'
  BY <1>1, <1>2, <1>3, StillTyped DEF Typed
<1>5. TaskInv(t)'
  BY <1>1, <1>2, <1>3 DEF TaskInv, FilesSplit, OfOneFile, Accounted, SucceededClean, FilesOf,
       Validations, Stored, arguments
<1> QED BY <1>2, <1>3, <1>4, <1>5, StepOfTask

\* A killed process does not succeed.
LEMMA KilledIInv == ASSUME IInv, NEW t \in Task, Killed(t) PROVE IInv'
<1>1. Typed /\ TaskInv(t)
  BY DEF IInv
<1>2. UNCHANGED <<arguments, attempt, files, validations, errors, tried, results>>
  BY DEF Killed
<1>3. pc' \in [Task -> Places] /\ pc'[t] = "failed" /\ \A s \in Task \ {t} : pc'[s] = pc[s]
  BY <1>1 DEF Killed, Goto, Typed, Places
<1>4. Typed'
  BY <1>1, <1>2, <1>3, StillTyped, MayFailTyped DEF Typed, Killed
<1>5. TaskInv(t)'
  BY <1>1, <1>2, <1>3 DEF TaskInv, FilesSplit, OfOneFile, Accounted, SucceededClean, FilesOf,
       arguments
<1> QED BY <1>2, <1>3, <1>4, <1>5, StepOfTask

-----------------------------------------------------------------------------
\* The invariant holds before any process is started.
THEOREM InitIInv == Init => IInv
<1> SUFFICES ASSUME Init PROVE IInv
  OBVIOUS
<1>1. Typed
  <2>1. <<>> \in Seq(AllValidations) /\ 0 \in 0..MaxAttempts /\ 0 \in 0..MaxFailures
    BY MaxAttemptsAssumption, MaxFailuresAssumption
  <2> QED BY <2>1 DEF Init, InitTasks, Typed, Places
<1> QED BY <1>1 DEF Init, InitTasks, IInv, TaskInv, FilesSplit, OfOneFile, Accounted, SucceededClean

\* Every step of every task keeps the invariant.
THEOREM NextIInv == IInv /\ [Next]_vars => IInv'
<1> SUFFICES ASSUME IInv, [Next]_vars PROVE IInv'
  OBVIOUS
<1>1. CASE UNCHANGED vars
  <2>1. UNCHANGED <<arguments, pc, attempt, files, validations, errors, tried, results, failures>>
    BY <1>1 DEF vars
  <2>2. Typed'
    BY <2>1, StillTyped DEF IInv, Typed
  <2>3. \A t \in Task : TaskInv(t)'
    BY <2>1, OtherTasks DEF IInv
  <2>4. \A r \in results' : ResultOfAFile(r)'
    BY <2>1 DEF IInv, ResultOfAFile, FilesOf, Validations, arguments
  <2> QED BY <2>2, <2>3, <2>4 DEF IInv
<1>2. ASSUME NEW t \in Task, Start(t) \/ Work(t) \/ Killed(t) PROVE IInv'
  BY <1>2, StartIInv, BuildConfigManagersIInv, BuildConfigManagersRaisesIInv, RunValidationIInv,
     RunValidationRaisesIInv, FileDoneIInv, FinishIInv, KilledIInv DEF Work
<1> QED BY <1>1, <1>2 DEF Next, Run, JobEnded

\* The invariant holds in every reachable state, with any number of tasks.
LEMMA AlwaysIInv == Spec => []IInv
BY InitIInv, NextIInv, PTL DEF Spec

\* The types of ConfigRunner: every result comes from a started attempt of a task and from
\* a file of that task (run_config of config_runner).
THEOREM TypeCorrect == Spec => []TypeOK
<1>1. IInv => TypeOK
  BY DEF IInv, Typed, TaskInv, FilesSplit, ResultOfAFile, TypeOK, Places
<1> QED BY <1>1, AlwaysIInv, PTL

\* A process that exits with code 0 has stored the result of every validation of its
\* files: the flag of config_runner forgets no exception, whatever fails or is killed.
THEOREM SuccessIsStored == Spec => []SuccessMeansStored
<1>1. IInv => SuccessMeansStored
  BY DEF IInv, TaskInv, FilesSplit, Accounted, SucceededClean, SuccessMeansStored
<1> QED BY <1>1, AlwaysIInv, PTL

\* Two tasks of an indexed job never store results of the same validation: only a task
\* that was started again stores one twice.
THEOREM NoFileTwice == Spec => []DuplicatesComeFromRetries
<1>1. IInv => DuplicatesComeFromRetries
  <2> SUFFICES ASSUME IInv, kube_completions, NEW r \in results, NEW s \in results,
                      r.validation = s.validation
               PROVE  r.task = s.task
    BY DEF DuplicatesComeFromRetries
  <2>1. /\ r.task \in DOMAIN config_dir /\ r.validation \in Validations(r.task)
        /\ s.task \in DOMAIN config_dir /\ r.validation \in Validations(s.task)
    BY DEF IInv, ResultOfAFile, FilesOf
  <2> QED BY <2>1, ConfigDirsAssumption DEF IInv, Typed, Validations
<1> QED BY <1>1, AlwaysIInv, PTL

-----------------------------------------------------------------------------
(* What a failure costs.                                                   *)

\* Each file a task is past without all of its results is paid for by a failure, the one
\* it is running apart: of that the rest is left to run.
Paid(t) ==
  /\ pc[t] \in {"next file", "failed", "succeeded"} => Cardinality(Lost(t)) <= failures
  /\ pc[t] = "running" =>
       \E f \in FilesOf(t) :
         /\ Cardinality(Lost(t) \ {f}) <= failures
         /\ \A v \in Validations(f) : Stored(t, v) \in results \/ v \in ToSet(validations[t])

AllPaid == \A t \in Task : Paid(t)

\* A task has finitely many files, and so has lost finitely many.
LEMMA LostFinite ==
  ASSUME IInv, NEW t \in Task PROVE IsFiniteSet(FilesOf(t)) /\ IsFiniteSet(Lost(t))
<1>1. IsFiniteSet(DOMAIN config_dir)
  BY ConfigDirsAssumption DEF IInv, Typed
<1>2. IsFiniteSet({t})
  BY FS_Singleton
<1>3. IsFiniteSet(FilesOf(t))
  BY <1>1, <1>2 DEF FilesOf
<1>4. Lost(t) \subseteq FilesOf(t)
  BY DEF Lost
<1> QED BY <1>3, <1>4, FS_Subset

\* Failures are counted.
LEMMA FailuresCounted == IInv => failures \in Nat
BY MaxFailuresAssumption DEF IInv, Typed

\* Failures are counted, after a step.
LEMMA StillCounted == IInv' => failures' \in Nat
BY MaxFailuresAssumption DEF IInv, Typed

\* Only more failures are counted.
LEMMA FailuresGrow ==
  ASSUME IInv, failures' = failures \/ MayFail PROVE failures <= failures'
<1>1. failures \in Nat
  BY FailuresCounted
<1> QED BY <1>1 DEF MayFail

\* A number and the next.
LEMMA OneMore ==
  ASSUME NEW n \in Nat, NEW m, m = n + 1 PROVE n + 1 \in Nat /\ m \in Nat /\ n + 1 <= m
OBVIOUS

\* Fewer files for as many failures or more.
LEMMA FewerLost ==
  ASSUME NEW S, IsFiniteSet(S), NEW T \in SUBSET S, NEW n \in Nat, NEW m \in Nat, n <= m,
         Cardinality(S) <= n
  PROVE  Cardinality(T) <= m
<1>1. IsFiniteSet(T) /\ Cardinality(T) <= Cardinality(S)
  BY FS_Subset
<1>2. Cardinality(T) \in Nat /\ Cardinality(S) \in Nat
  BY <1>1, FS_CardinalityType
<1> QED BY <1>1, <1>2

\* One file more for one failure more.
LEMMA OneMoreLost ==
  ASSUME NEW S, IsFiniteSet(S), NEW f, NEW n \in Nat, Cardinality(S \ {f}) <= n
  PROVE  Cardinality(S) <= n + 1
<1>1. CASE f \in S
  <2>1. Cardinality(S \ {f}) = Cardinality(S) - 1
    BY <1>1, FS_RemoveElement
  <2>2. Cardinality(S) \in Nat
    BY FS_CardinalityType
  <2> QED BY <2>1, <2>2
<1>2. CASE f \notin S
  <2>1. S \ {f} = S
    BY <1>2
  <2>2. Cardinality(S) \in Nat
    BY FS_CardinalityType
  <2> QED BY <2>1, <2>2
<1> QED BY <1>1, <1>2

\* Results only come: what a task is past in both states it has not lost anew.
LEMMA LostLess ==
  ASSUME NEW t \in Task, UNCHANGED arguments, results \subseteq results',
         attempt'[t] = attempt[t], files'[t] = files[t]
  PROVE  Lost(t)' \subseteq Lost(t)
BY DEF Lost, FilesOf, Validations, Stored, arguments

\* A task that does not move keeps its account.
LEMMA OthersPaid ==
  ASSUME IInv, IInv', NEW t \in Task, Paid(t), UNCHANGED arguments, results \subseteq results',
         failures <= failures', pc'[t] = pc[t], attempt'[t] = attempt[t], files'[t] = files[t],
         validations'[t] = validations[t]
  PROVE  Paid(t)'
<1>1. failures \in Nat /\ failures' \in Nat
  BY FailuresCounted, StillCounted
<1>2. Lost(t)' \subseteq Lost(t) /\ IsFiniteSet(Lost(t))
  BY LostLess, LostFinite
<1>3. CASE pc[t] \in {"next file", "failed", "succeeded"}
  <2>1. Cardinality(Lost(t)') <= failures'
    BY <1>1, <1>2, <1>3, FewerLost DEF Paid
  <2> QED BY <1>3, <2>1 DEF Paid
<1>4. CASE pc[t] = "running"
  <2>1. PICK f \in FilesOf(t) :
          /\ Cardinality(Lost(t) \ {f}) <= failures
          /\ \A v \in Validations(f) : Stored(t, v) \in results \/ v \in ToSet(validations[t])
    BY <1>4 DEF Paid
  <2>2. IsFiniteSet(Lost(t) \ {f}) /\ Lost(t)' \ {f} \in SUBSET (Lost(t) \ {f})
    BY <1>2, FS_Subset
  <2>3. Cardinality(Lost(t)' \ {f}) <= failures'
    BY <1>1, <2>1, <2>2, FewerLost
  <2>4. f \in FilesOf(t)'
    BY DEF FilesOf, arguments
  <2>5. \A v \in Validations(f)' :
          Stored(t, v)' \in results' \/ v \in ToSet(validations'[t])
    BY <2>1 DEF Validations, Stored, arguments
  <2> QED BY <1>4, <2>3, <2>4, <2>5 DEF Paid
<1> QED BY <1>3, <1>4 DEF Paid

\* The account of the task that moves; that of the others follows.
LEMMA StepPaid ==
  ASSUME IInv, IInv', AllPaid, NEW t \in Task, Start(t) \/ Work(t) \/ Killed(t), Paid(t)'
  PROVE  AllPaid'
<1>1. UNCHANGED arguments /\ results \subseteq results'
  BY DEF Start, Work, BuildConfigManagers, BuildConfigManagersRaises, RunValidation,
         RunValidationRaises, FileDone, Finish, Killed
<1>2. failures <= failures'
  <2>1. failures' = failures \/ MayFail
    BY DEF Start, Work, BuildConfigManagers, BuildConfigManagersRaises, RunValidation,
           RunValidationRaises, FileDone, Finish, Killed
  <2> QED BY <2>1, FailuresGrow
<1>3. \A s \in Task \ {t} :
        /\ pc'[s] = pc[s] /\ attempt'[s] = attempt[s]
        /\ files'[s] = files[s] /\ validations'[s] = validations[s]
  BY DEF IInv, Typed, Goto, Start, Work, BuildConfigManagers, BuildConfigManagersRaises,
         RunValidation, RunValidationRaises, FileDone, Finish, Killed
<1>4. ASSUME NEW s \in Task PROVE Paid(s)'
  BY <1>1, <1>2, <1>3, OthersPaid DEF AllPaid
<1> QED BY <1>4 DEF AllPaid

\* A process that starts has lost nothing.
LEMMA StartPaid == ASSUME IInv, IInv', NEW t \in Task, Start(t) PROVE Paid(t)'
<1>1. pc'[t] = "next file" /\ files'[t] = FilesOf(t) /\ UNCHANGED arguments
  BY DEF Start, Goto, IInv, Typed
<1>2. Lost(t)' = {}
  BY <1>1 DEF Lost, FilesOf, arguments
<1>3. Cardinality(Lost(t)') <= failures'
  <2>1. Cardinality(Lost(t)') = 0
    BY <1>2, FS_EmptySet
  <2> QED BY <2>1, StillCounted
<1> QED BY <1>1, <1>3 DEF Paid

\* A file that is loaded is all left to run.
LEMMA BuildConfigManagersPaid ==
  ASSUME IInv, IInv', NEW t \in Task, Paid(t), NEW f \in files[t], BuildConfigManagers(t, f)
  PROVE  Paid(t)'
<1>1. /\ pc[t] = "next file" /\ pc'[t] = "running" /\ files'[t] = files[t] \ {f}
      /\ validations'[t] = config_dir[f] /\ f \in FilesOf(t)
      /\ UNCHANGED <<arguments, attempt, results, failures>>
  <2>1. DOMAIN pc = Task /\ DOMAIN files = Task /\ DOMAIN validations = Task
    BY DEF IInv, Typed
  <2>2. f \in FilesOf(t)
    BY DEF IInv, TaskInv, FilesSplit
  <2> QED BY <2>1, <2>2 DEF BuildConfigManagers, Goto
<1>2. IsFiniteSet(Lost(t)) /\ Lost(t)' \ {f} \in SUBSET Lost(t)
  <2>1. IsFiniteSet(Lost(t))
    BY LostFinite
  <2>2. Lost(t)' \ {f} \subseteq Lost(t)
    BY <1>1 DEF Lost, FilesOf, Validations, Stored, arguments
  <2> QED BY <2>1, <2>2
<1>3. Cardinality(Lost(t)) <= failures
  BY <1>1 DEF Paid
<1>4. failures \in Nat /\ failures' \in Nat /\ failures <= failures'
  BY <1>1, FailuresCounted, FailuresGrow, StillCounted
<1>5. Cardinality(Lost(t)' \ {f}) <= failures'
  BY <1>2, <1>3, <1>4, FewerLost
<1>6. f \in FilesOf(t)' /\ Validations(f)' = ToSet(validations'[t])
  BY <1>1 DEF FilesOf, Validations, arguments
<1> QED BY <1>1, <1>5, <1>6 DEF Paid

\* A process that is past a file, or ended between two, has lost no more than before.
LEMMA BetweenFilesPaid ==
  ASSUME IInv, IInv', NEW t \in Task, Paid(t), UNCHANGED <<arguments, attempt, files>>,
         results \subseteq results', failures <= failures',
         pc[t] = "next file", pc'[t] \in {"next file", "failed", "succeeded"}
  PROVE  Paid(t)'
<1>1. failures \in Nat /\ failures' \in Nat
  BY FailuresCounted, StillCounted
<1>2. Lost(t)' \subseteq Lost(t) /\ IsFiniteSet(Lost(t))
  BY LostLess, LostFinite
<1>3. Cardinality(Lost(t)') <= failures'
  BY <1>1, <1>2, FewerLost DEF Paid
<1> QED BY <1>3 DEF Paid

\* A process that leaves a file with validations to run has lost that file at most, and a
\* failure is what made it.
LEMMA LeavesFilePaid ==
  ASSUME IInv, IInv', NEW t \in Task, Paid(t), UNCHANGED <<arguments, attempt, files>>,
         results \subseteq results', failures' = failures + 1,
         pc[t] = "running", pc'[t] \in {"next file", "failed"}
  PROVE  Paid(t)'
<1>1. failures \in Nat
  BY FailuresCounted
<1>2. PICK f \in FilesOf(t) : Cardinality(Lost(t) \ {f}) <= failures
  BY DEF Paid
<1>3. Lost(t)' \subseteq Lost(t) /\ IsFiniteSet(Lost(t))
  BY LostLess, LostFinite
<1>4. Cardinality(Lost(t)) <= failures + 1
  BY <1>1, <1>2, <1>3, OneMoreLost
<1>5. failures + 1 \in Nat /\ failures' \in Nat /\ failures + 1 <= failures'
  BY <1>1, OneMore
<1>6. Cardinality(Lost(t)') <= failures'
  BY <1>3, <1>4, <1>5, FewerLost
<1> QED BY <1>6 DEF Paid

\* A validation that stores its result is no longer left to run.
LEMMA RunValidationPaid ==
  ASSUME IInv, IInv', NEW t \in Task, Paid(t), RunValidation(t) PROVE Paid(t)'
<1> DEFINE v == Head(validations[t])
<1>1. /\ pc[t] = "running" /\ pc' = pc /\ validations[t] # <<>>
      /\ results' = results \cup {Stored(t, v)} /\ validations'[t] = Tail(validations[t])
      /\ UNCHANGED <<arguments, attempt, files, failures>>
  BY DEF RunValidation, IInv, Typed
<1>2. ToSet(validations[t]) = {v} \cup ToSet(Tail(validations[t]))
  BY <1>1, HeadAndTail DEF IInv, Typed
<1>3. PICK f \in FilesOf(t) :
        /\ Cardinality(Lost(t) \ {f}) <= failures
        /\ \A w \in Validations(f) : Stored(t, w) \in results \/ w \in ToSet(validations[t])
  BY <1>1 DEF Paid
<1>4. Lost(t)' \subseteq Lost(t) /\ IsFiniteSet(Lost(t))
  BY <1>1, LostLess, LostFinite
<1>5. IsFiniteSet(Lost(t) \ {f}) /\ Lost(t)' \ {f} \in SUBSET (Lost(t) \ {f})
  BY <1>4, FS_Subset
<1>6. failures \in Nat /\ failures' \in Nat /\ failures <= failures'
  BY <1>1, FailuresCounted
<1>7. Cardinality(Lost(t)' \ {f}) <= failures'
  BY <1>1, <1>3, <1>5, <1>6, FewerLost
<1>8. \A w \in Validations(f)' : Stored(t, w)' \in results' \/ w \in ToSet(validations'[t])
  BY <1>1, <1>2, <1>3 DEF Validations, Stored, arguments
<1>9. f \in FilesOf(t)'
  BY <1>1 DEF FilesOf, arguments
<1> QED BY <1>1, <1>7, <1>8, <1>9 DEF Paid

\* A file that is done is not lost.
LEMMA FileDonePaid ==
  ASSUME IInv, IInv', NEW t \in Task, Paid(t), FileDone(t) PROVE Paid(t)'
<1>1. /\ pc[t] = "running" /\ pc'[t] = "next file" /\ validations[t] = <<>>
      /\ UNCHANGED <<arguments, attempt, files, results, failures>>
  BY DEF FileDone, Goto, IInv, Typed
<1>2. PICK f \in FilesOf(t) :
        /\ Cardinality(Lost(t) \ {f}) <= failures
        /\ \A v \in Validations(f) : Stored(t, v) \in results \/ v \in ToSet(validations[t])
  BY <1>1 DEF Paid
<1>3. Lost(t) \ {f} = Lost(t)
  BY <1>1, <1>2, EmptyList DEF Lost
<1>4. Lost(t)' = Lost(t)
  BY <1>1 DEF Lost, FilesOf, Validations, Stored, arguments
<1> QED BY <1>1, <1>2, <1>3, <1>4 DEF Paid

\* Every step of a task keeps its account.
LEMMA NextPaid == IInv /\ AllPaid /\ [Next]_vars => AllPaid'
<1> SUFFICES ASSUME IInv, AllPaid, [Next]_vars PROVE AllPaid'
  OBVIOUS
<1>1. IInv'
  BY NextIInv
<1>2. CASE UNCHANGED vars
  <2>1. UNCHANGED <<arguments, pc, attempt, files, validations, results, failures>>
    BY <1>2 DEF vars
  <2>2. failures <= failures'
    BY <2>1, FailuresGrow
  <2> QED BY <1>1, <2>1, <2>2, OthersPaid DEF AllPaid
<1>3. ASSUME NEW t \in Task, Start(t) \/ Work(t) \/ Killed(t) PROVE AllPaid'
  <2>1. Paid(t) /\ pc \in [Task -> Places]
    BY DEF AllPaid, IInv, Typed
  <2>2. CASE Start(t)
    BY <1>1, <1>3, <2>2, StartPaid, StepPaid
  <2>3. ASSUME NEW f \in files[t], BuildConfigManagers(t, f) PROVE AllPaid'
    BY <1>1, <1>3, <2>1, <2>3, BuildConfigManagersPaid, StepPaid
  <2>4. ASSUME NEW f \in files[t], BuildConfigManagersRaises(t, f) PROVE AllPaid'
    <3>1. /\ pc[t] = "next file" /\ pc'[t] = "failed"
          /\ UNCHANGED <<arguments, attempt, files, results>>
      BY <2>1, <2>4 DEF BuildConfigManagersRaises, Goto
    <3>2. failures <= failures'
      BY <2>4, FailuresGrow DEF BuildConfigManagersRaises
    <3> QED BY <1>1, <1>3, <2>1, <2>4, <3>1, <3>2, BetweenFilesPaid, StepPaid
  <2>5. CASE RunValidation(t)
    BY <1>1, <1>3, <2>1, <2>5, RunValidationPaid, StepPaid
  <2>6. CASE RunValidationRaises(t)
    <3>1. /\ pc[t] = "running" /\ pc'[t] \in {"next file", "failed"}
          /\ failures' = failures + 1 /\ results \subseteq results'
          /\ UNCHANGED <<arguments, attempt, files>>
      BY <2>1, <2>6 DEF RunValidationRaises, Goto, MayFail
    <3> QED BY <1>1, <1>3, <2>1, <3>1, LeavesFilePaid, StepPaid
  <2>7. CASE FileDone(t)
    BY <1>1, <1>3, <2>1, <2>7, FileDonePaid, StepPaid
  <2>8. CASE Finish(t)
    <3>1. /\ pc[t] = "next file" /\ pc'[t] \in {"failed", "succeeded"}
          /\ UNCHANGED <<arguments, attempt, files, results, failures>>
      BY <2>1, <2>8 DEF Finish, Goto
    <3>2. failures <= failures'
      BY <3>1, FailuresGrow
    <3> QED BY <1>1, <1>3, <2>1, <3>1, <3>2, BetweenFilesPaid, StepPaid
  <2>9. CASE Killed(t)
    <3>1. /\ pc[t] \in {"next file", "running"} /\ pc'[t] = "failed"
          /\ failures' = failures + 1
          /\ UNCHANGED <<arguments, attempt, files, results>>
      BY <2>1, <2>9 DEF Killed, Goto, MayFail
    <3>2. failures <= failures'
      BY <2>9, FailuresGrow DEF Killed
    <3>3. Paid(t)'
      BY <1>1, <2>1, <3>1, <3>2, BetweenFilesPaid, LeavesFilePaid
    <3> QED BY <1>1, <1>3, <3>3, StepPaid
  <2> QED BY <1>3, <2>2, <2>3, <2>4, <2>5, <2>6, <2>7, <2>8, <2>9 DEF Work
<1> QED BY <1>2, <1>3 DEF Next, Run, JobEnded

\* An exception costs the rest of its own file and nothing else, and so do a kill and a
\* file that cannot be loaded between two others: whatever a process is past without all of
\* its results, a failure of its own has paid for (config_runner).
THEOREM FailureCosts == Spec => []FailureCostsOneFile
<1>1. Init => AllPaid
  BY DEF Init, InitTasks, AllPaid, Paid
<1>2. AllPaid => FailureCostsOneFile
  BY DEF AllPaid, Paid, FailureCostsOneFile
<1> QED BY <1>1, <1>2, NextPaid, AlwaysIInv, PTL DEF Spec
=============================================================================
