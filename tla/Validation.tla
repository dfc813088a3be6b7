----------------------------- MODULE Validation -----------------------------
(***************************************************************************)
(* One call of DataValidation.execute for a row or a column validation:    *)
(* the optional random row filter, the two queries submitted together to a *)
(* thread pool, the combiner working slice by slice, and the result        *)
(* handler.  The source and the target are live tables: nothing in the     *)
(* program makes the reads of one run belong to one moment, so writers may *)
(* change either table before, between and after them.                     *)
(***************************************************************************)
EXTENDS Combiner, FiniteSetsExt

CONSTANTS
  Keys,            \* values of the primary key, or of the grouped columns
  Copies,          \* Copies[k]: the rows that may share key k, {1} when it is unique
  Columns,         \* the validation columns, in the order of run_metadata
  Cells,           \* Cells[k][f]: what a column may hold in a row with key k
  BatchSize,       \* random_row_batch_size, or NULL without --use-random-row
  StatusList,      \* the statuses the result handler keeps
  MaxWrites        \* bound on the writes made to the tables during the run

Fields == {Columns[i] : i \in 1..Len(Columns)}

ASSUME KeysAssumption == IsFiniteSet(Keys)
ASSUME CopiesAssumption ==
  DOMAIN Copies = Keys /\ \A k \in Keys : Copies[k] \subseteq Nat /\ IsFiniteSet(Copies[k])
ASSUME ColumnsAssumption == Columns \in Seq(STRING) /\ Len(Columns) > 0

\* A cell of a join column is a part of the key.  Only the keys of a row validation are
\* validation columns too: no aggregate has the name of a grouped column.
ASSUME CellsAssumption ==
  /\ DOMAIN Cells = Keys
  /\ \A k \in Keys : /\ DOMAIN Cells[k] = Fields
                     /\ \A f \in Fields : Cells[k][f] \ {NULL} \subseteq Int
  /\ \A k \in Keys : \A f \in Fields \cap JoinFields :
       \A u, v \in Cells[k][f] : u = v
ASSUME JoinFieldsAssumption == Fields \cap JoinFields # {} => ValueComparison

\* The rows of a data frame.
Rows == {r \in [key : Keys, copy : Nat, val : [Fields -> Int \cup {NULL}]] :
           \A f \in Fields \cap JoinFields : r.val[f] \in Cells[r.key][f]}

\* The rows of a slice of the report and of the report.  `from` names the rows of the
\* frames that a row comes from, and in the report the slice too.
Origins == ((Nat \cup {NULL}) \X ((Nat \X Nat) \cup {NULL}) \cup {NULL}) \X (Nat \cup {NULL})
RowsFrom(origins) ==
  [field : Fields, key : Keys,
   source_agg_value : Int \cup {NULL}, target_agg_value : Int \cup {NULL},
   validation_status : {Success, Fail}, from : origins]
SliceRows == RowsFrom(Origins)
ReportRows == RowsFrom(Nat \X Origins)

\* NULL is no number and no status.
ASSUME NullAssumption == NULL \notin Int /\ NULL \notin {Success, Fail}

ASSUME BatchSizeAssumption == BatchSize = NULL \/ BatchSize \in Nat \ {0}
ASSUME SamplingAssumption == BatchSize # NULL => ValueComparison
ASSUME StatusListAssumption == StatusList \subseteq {Success, Fail}
ASSUME MaxWritesAssumption == MaxWrites \in Nat

VARIABLES
  sourceTable, targetTable,  \* the live tables
  writes,                    \* writes so far
  touched,                   \* keys some write has touched since the run began
  pc,                        \* where execute() is
  sample,                    \* keys of the random row filter, NULL: no filter
  sourceFuture, targetFuture,\* the two entries of futures
  sliceStart,                \* the next slice threshold to process
  result,                    \* result_df
  stored                     \* what the result handler wrote

vars == <<sourceTable, targetTable, writes, touched, pc, sample,
          sourceFuture, targetFuture, sliceStart, result, stored>>

environment == <<sourceTable, targetTable, writes, touched>>

-----------------------------------------------------------------------------
Slots == UNION {{k} \X Copies[k] : k \in Keys}
Contents(k) == {v \in [Fields -> UNION {Cells[k][f] : f \in Fields}] :
                  \A f \in Fields : v[f] \in Cells[k][f]}
RowAt(slot, v) == [key |-> slot[1], copy |-> slot[2], val |-> v]

\* A table holds at most one row for each key and copy.
PossibleRows == UNION {{RowAt(slot, v) : v \in Contents(slot[1])} : slot \in Slots}
OnePerSlot(t) == \A r, q \in t : r.key = q.key /\ r.copy = q.copy => r = q
Tables == {t \in SUBSET PossibleRows : OnePerSlot(t)}

KeysOf(df) == {r.key : r \in df}

\* SUM over the rows of a group: NULLs are skipped, no value at all gives NULL.
SumOf(rows, f) ==
  LET present == {r \in rows : r.val[f] # NULL} IN
  IF present = {} THEN NULL
  ELSE MapThenSumSet(LAMBDA r : r.val[f], present)

\* What a query returns of a table under the random row filter.  A row validation
\* compares values and joins on the primary key; a column validation groups by
\* the key and aggregates, so that a group has one row.
FilterRows(table) == {r \in table : sample = NULL \/ r.key \in sample}

Query(table) ==
  IF ValueComparison THEN FilterRows(table)
  ELSE {[key |-> k, copy |-> 1,
         val |-> [f \in Fields |->
                    SumOf({r \in FilterRows(table) : r.key = k}, f)]] :
         k \in KeysOf(FilterRows(table))}

Pending == [state |-> "pending", df |-> {}]
Done(df) == [state |-> "done", df |-> df]
Failed  == [state |-> "failed", df |-> {}]
Idle    == [state |-> "idle", df |-> {}]

sourceDf == sourceFuture.df
targetDf == targetFuture.df

-----------------------------------------------------------------------------
Init ==
  /\ sourceTable \in Tables
  /\ targetTable \in Tables
  /\ writes = 0
  /\ touched = {}
  /\ pc = "start"
  /\ sample = NULL
  /\ sourceFuture = Idle
  /\ targetFuture = Idle
  /\ sliceStart = 0
  /\ result = {}
  /\ stored = {}

(* The environment: other sessions insert, delete or update a row.         *)

Overwritten(table, k, c) ==
  LET others == {r \in table : ~(r.key = k /\ r.copy = c)}
  IN {others} \cup {others \cup {RowAt(<<k, c>>, v)} : v \in Contents(k)}

CanWrite(k) ==
  /\ pc \notin {"reported", "raised"}
  /\ writes < MaxWrites
  /\ writes' = writes + 1
  /\ touched' = touched \cup {k}
  /\ UNCHANGED <<pc, sample, sourceFuture, targetFuture, sliceStart, result, stored>>

WriteSource(k, c) ==
  /\ CanWrite(k)
  /\ sourceTable' \in Overwritten(sourceTable, k, c) \ {sourceTable}
  /\ UNCHANGED targetTable

WriteTarget(k, c) ==
  /\ CanWrite(k)
  /\ targetTable' \in Overwritten(targetTable, k, c) \ {targetTable}
  /\ UNCHANGED sourceTable

(* _add_random_row_filter: keys sampled from the source.  An empty sample  *)
(* returns before any filter is added.  NULL keys do not occur here.       *)

AddRandomRowFilter ==
  /\ pc = "start"
  /\ BatchSize # NULL
  /\ \E picked \in SUBSET sourceTable :
       /\ Cardinality(picked) =
            IF Cardinality(sourceTable) < BatchSize
            THEN Cardinality(sourceTable) ELSE BatchSize
       /\ sample' = IF picked = {} THEN NULL ELSE KeysOf(picked)
  /\ pc' = "sampled"
  /\ UNCHANGED <<environment, sourceFuture, targetFuture, sliceStart, result, stored>>

RandomRowQueryFails ==
  /\ pc = "start"
  /\ BatchSize # NULL
  /\ pc' = "raised"
  /\ UNCHANGED <<environment, sample, sourceFuture, targetFuture, sliceStart, result, stored>>

(* _execute_validation: both queries are submitted before either is awaited. *)

SubmitQueries ==
  /\ pc = IF BatchSize = NULL THEN "start" ELSE "sampled"
  /\ pc' = "querying"
  /\ sourceFuture' = Pending
  /\ targetFuture' = Pending
  /\ UNCHANGED <<environment, sample, sliceStart, result, stored>>

SourceQuery(outcome) ==
  /\ pc = "querying"
  /\ sourceFuture = Pending
  /\ sourceFuture' = outcome
  /\ UNCHANGED <<environment, pc, sample, targetFuture, sliceStart, result, stored>>

TargetQuery(outcome) ==
  /\ pc = "querying"
  /\ targetFuture = Pending
  /\ targetFuture' = outcome
  /\ UNCHANGED <<environment, pc, sample, sourceFuture, sliceStart, result, stored>>

SourceQueryReturns == SourceQuery(Done(Query(sourceTable)))
SourceQueryFails   == SourceQuery(Failed)

\* A slip: the random row filter is added to the source builder only.
TargetQueryUnfiltered == TargetQuery(Done(targetTable))

TargetQueryReturns == TargetQuery(Done(Query(targetTable)))
TargetQueryFails   == TargetQuery(Failed)

\* A slip: a failed query is not recognised and its result awaited for ever.
GatherOnlySuccesses ==
  /\ pc = "querying"
  /\ sourceFuture.state = "done"
  /\ targetFuture.state = "done"
  /\ pc' = "combining"
  /\ UNCHANGED <<environment, sample, sourceFuture, targetFuture, sliceStart, result, stored>>

\* Leaving the executor's with block waits for both threads, whichever raised.
GatherResults ==
  /\ pc = "querying"
  /\ sourceFuture # Pending
  /\ targetFuture # Pending
  /\ pc' = IF "failed" \in {sourceFuture.state, targetFuture.state}
           THEN "raised" ELSE "combining"
  /\ UNCHANGED <<environment, sample, sourceFuture, targetFuture, sliceStart, result, stored>>

(* generate_report: one slice of columns at a time.                        *)

LastThreshold == (NumberOfSlices(Len(Columns)) - 1) * Width

CombineSlice ==
  /\ pc = "combining"
  /\ sliceStart <= LastThreshold
  /\ ~SliceRaises(Slice(Columns, sliceStart))
  /\ result' = result \cup
       InSlice(sliceStart,
               GenerateReportSlice(sourceDf, targetDf, Slice(Columns, sliceStart)))
  /\ sliceStart' = sliceStart + Width
  /\ UNCHANGED <<environment, pc, sample, sourceFuture, targetFuture, stored>>

\* A slice may raise for other reasons too, such as types that do not compare.
CombineSliceRaises ==
  /\ pc = "combining"
  /\ sliceStart <= LastThreshold
  /\ pc' = "raised"
  /\ UNCHANGED <<environment, sample, sourceFuture, targetFuture, sliceStart, result, stored>>

FinishReport ==
  /\ pc = "combining"
  /\ sliceStart > LastThreshold
  /\ pc' = "handling"
  /\ UNCHANGED <<environment, sample, sourceFuture, targetFuture, sliceStart, result, stored>>

(* result_handler.execute                                                  *)

FilterByStatusList(report) ==
  {r \in report : r.validation_status \in StatusList}

HandleResults ==
  /\ pc = "handling"
  /\ stored' = FilterByStatusList(result)
  /\ pc' = "reported"
  /\ UNCHANGED <<environment, sample, sourceFuture, targetFuture, sliceStart, result>>

\* A slip: the rows are in the results table when the handler raises.
HandlerFailsAfterWriting ==
  /\ pc = "handling"
  /\ pc' = "raised"
  /\ stored' = FilterByStatusList(result)
  /\ UNCHANGED <<environment, sample, sourceFuture, targetFuture, sliceStart, result>>

HandlerFails ==
  /\ pc = "handling"
  /\ pc' = "raised"
  /\ UNCHANGED <<environment, sample, sourceFuture, targetFuture, sliceStart, result, stored>>

-----------------------------------------------------------------------------
Execute ==
  \/ AddRandomRowFilter
  \/ RandomRowQueryFails
  \/ SubmitQueries
  \/ SourceQueryReturns
  \/ SourceQueryFails
  \/ TargetQueryReturns
  \/ TargetQueryFails
  \/ GatherResults
  \/ CombineSlice
  \/ CombineSliceRaises
  \/ FinishReport
  \/ HandleResults
  \/ HandlerFails

Write == \E slot \in Slots :
           WriteSource(slot[1], slot[2]) \/ WriteTarget(slot[1], slot[2])

Terminated ==
  /\ pc \in {"reported", "raised"}
  /\ UNCHANGED vars

Next == Execute \/ Write \/ Terminated

Spec == Init /\ [][Next]_vars

\* The program runs on, and a database call eventually answers or fails; which
\* of the two is not promised, and writers need not write.
FairSpec ==
  /\ Spec
  /\ WF_vars(AddRandomRowFilter \/ RandomRowQueryFails)
  /\ WF_vars(SubmitQueries)
  /\ WF_vars(SourceQueryReturns \/ SourceQueryFails)
  /\ WF_vars(TargetQueryReturns \/ TargetQueryFails)
  /\ WF_vars(GatherResults \/ CombineSlice \/ CombineSliceRaises \/ FinishReport)
  /\ WF_vars(HandleResults \/ HandlerFails)

-----------------------------------------------------------------------------
(* Properties.                                                             *)

Frames == [state : {"idle", "pending", "done", "failed"}, df : SUBSET Rows]

\* Every variable has the shape the code gives it; a run that has not reached the
\* end has written nothing.
TypeOK ==
  /\ sourceTable \in Tables
  /\ targetTable \in Tables
  /\ writes \in 0..MaxWrites
  /\ touched \subseteq Keys
  /\ pc \in {"start", "sampled", "querying", "combining", "handling", "reported", "raised"}
  /\ sample = NULL \/ sample \subseteq Keys
  /\ sourceFuture \in Frames
  /\ targetFuture \in Frames
  /\ sliceStart \in Nat
  /\ result \subseteq ReportRows
  /\ stored \subseteq result
  /\ stored # {} => pc = "reported"

Compared == PivotedFields(Fields)

\* The rows of a table, as the query would return them without a random row filter.
View(table) ==
  IF ValueComparison THEN table
  ELSE {[key |-> k, copy |-> 1,
         val |-> [f \in Fields |-> SumOf({r \in table : r.key = k}, f)]] :
         k \in KeysOf(table)}

Taken(future) == IF future.state = "done" THEN {future.df} ELSE {}

VerdictsIn(report) ==
  {[field |-> r.field, key |-> r.key, status |-> r.validation_status] : r \in report}

Promise == INSTANCE ComparisonPromise WITH
  KeyColumns  <- Fields \ Compared,
  Wanted      <- StatusList,
  source      <- View(sourceTable),
  target      <- View(targetTable),
  scope       <- IF sample = NULL THEN Keys ELSE sample,
  sourceFrame <- Taken(sourceFuture),
  targetFrame <- Taken(targetFuture),
  ending      <- CASE pc = "reported" -> "published"
                   [] pc = "raised"   -> "aborted"
                   [] OTHER           -> "none",
  verdict     <- VerdictsIn(stored)

\* Slices, outer joins, futures and the status filter together implement the
\* comparison of two frames (data_validation.py _execute_validation with
\* combiner.py generate_report).
KeepsPromise == Promise!Spec

\* A key that no session touched during the run, and that the run looked at, gets
\* exactly the verdict its rows deserve, however the writes to other keys and the
\* two queries interleave (the reads of one run share no snapshot).
QuietKeysJudgedRight ==
  pc = "handling" =>
    \A k \in Keys \ touched :
      (sample = NULL \/ k \in sample) =>
        {v \in VerdictsIn(result) : v.key = k} =
        {v \in Promise!Verdicts(View(sourceTable), View(targetTable)) : v.key = k}

\* A sampled run compares keys it has just read from the source, so a key it
\* reports as missing in the source was changed by somebody after it was sampled.
SampledKeyMissingOnlyIfTouched ==
  BatchSize # NULL /\ sample # NULL /\ pc = "handling" =>
    \A r \in result :
      (\A s \in sourceDf : s.key # r.key) => r.key \in touched

\* When every row of the report succeeded, each key of either frame is in both
\* and all its rows hold the same values, also when keys are not unique and the
\* joins multiply rows.
CleanReportMeansEqualRows ==
  /\ ValueComparison
  /\ pc = "handling"
  /\ \A r \in result : r.validation_status = Success
  => \A f \in Compared :
       /\ KeysOf(sourceDf) = KeysOf(targetDf)
       /\ \A s \in sourceDf, t \in targetDf : s.key = t.key => s.val[f] = t.val[f]

\* The fair scheduling of the threads is enough for every run to end.
RunsEnd == <>(pc \in {"reported", "raised"})

\* The failed rows of the summary's three kinds are the failed rows of the report but
\* for the rows of one table that hold NULL; none is counted twice.  (With duplicated
\* keys the joins pair a NULL with the status of another row.)
SummaryAccountsForFailures ==
  LET summary == RowValidationSummary(result)
      Unique(df) == \A r, q \in df : r.key = q.key => r = q
      OnOneSide(k) == (k \in KeysOf(sourceDf)) # (k \in KeysOf(targetDf))
  IN pc = "handling" /\ Unique(sourceDf) /\ Unique(targetDf) =>
       summary.fail =
         summary.sourceNotInTarget + summary.targetNotInSource + summary.inBoth +
         Cardinality({r \in result : /\ OnOneSide(r.key)
                                     /\ r.source_agg_value = NULL
                                     /\ r.target_agg_value = NULL})
=============================================================================
