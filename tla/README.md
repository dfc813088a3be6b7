# TLA+ models of the Data Validation Tool

The Data Validation Tool (DVT, `data_validation/`) compares a table in one
database with a table in another and reports, row by row or aggregate by
aggregate, where they differ. It also cuts a large table into partitions that a
set of worker processes validate side by side. This directory holds TLA+
specifications of the parts of DVT whose correctness is not visible in one
function: what a run says about tables that change under it, whether the two
queries of a run ask the same question, whether the partitions of a table are the
table, whether a distributed job that succeeded has validated everything, and what
commands that share files and results tables do to each other.

- [1. The system](#1-the-system)
- [2. The modules](#2-the-modules)
- [3. The runs](#3-the-runs)
- [4. Fairness](#4-fairness)
- [5. What disagrees](#5-what-disagrees)
- [6. Proofs](#6-proofs)
- [7. What is left out](#7-what-is-left-out)
- [8. Plan](#8-plan)

## 1. The system

DVT is a command-line program without a server. A command reads its arguments
or YAML files, opens one connection to each database, runs and ends. State that
outlives a command is in the databases, in a directory of YAML files, in
connection files and in a results table. Concurrency comes from five places: the
two query threads of one run, other sessions writing to the validated tables,
worker processes of one job that share a directory and a results table, an
orchestrator (Kubernetes, Cloud Run) that kills and restarts them, and commands of
several users or scripts on the same connection files and directories.

| Component | State it keeps | Operations | What makes it correct |
|---|---|---|---|
| Validation run (`data_validation.py`, `metadata.py`) | the filters of the query builders, two futures, the report | `execute`: random row filter, two concurrent queries, report, result handler | what is reported is what two frames, one of each table, call for; keys nobody touched are judged right; a failed run reports nothing; every run ends |
| Combiner (`combiner.py`) | none (data frames) | `generate_report`: slices of columns, differences, two pivots, two outer joins; summary for the log | a row that only one side has survives both joins; duplicates do not hide a difference; each column is in one slice |
| Partition key filters (`partition_builder.py`) | counts, first rows, two lists of WHERE clauses | count, number the rows, build the chain of ranges | the ranges cover the table, do not overlap, are of nearly equal size |
| Partition files (`partition_builder.py`, `util.py`, `gcs_helper.py`) | folders and their YAML files, in memory and on disk | chunk, collect by source table, write | each partition in exactly one file, where the job looks for it |
| Config runner (`__main__.py`) | the files and validations left, the error flag | run one file, a directory, or the file with the index of the task | exit code 0 means everything was stored; one bad file does not stop the rest |
| Writing configs to a directory (`__main__.py` 609-658) | names given so far | check for emptiness, name, open, write; list, load | a file for each table; no validation lost to another's name |
| Result handlers (`result_handlers/`) | a results table | filter by status, create table, append | a run that ends well stored its rows, all of them, in one place |
| Connection store (`state_manager.py`, `gcs_helper.py`) | connection files | create, read, list, delete | what was added stays; a reader sees a whole connection or fails |
| Matching of tables (`find_tables.py`, `jellyfish_distance.py`) | two maps of lower-cased names | `get_mapped_table_configs` | a table is matched with its namesake |
| Schema validation (`schema_validation.py`) | none | `schema_validation_matching` | each column judged once; a type is accepted only where it loses nothing |
| Configuration (`config_manager.py`, `__main__.py`) | one dictionary for each validation | split columns, build keys, groups, calculated fields, aggregates | what was asked for is compared, once |
| Query construction (`validation_builder.py`, `query_builder/`) | two lists of fields | add fields, compile level by level | both queries compute the same thing |
| Command line (`cli_tools.py`, `app.py`) | none | parse, dispatch | |
| Recursive validation (`data_validation.py` 311-418) | a stack of grouped fields and filters | descend into the groups that differ | no differing group is skipped |
| Clients (`clients.py`, `secret_manager.py`, `raw_query.py`), dialects (`third_party/ibis`) | connections | connect; SQL for eighteen engines | outside this project |

How they meet. `__main__.config_runner` loads a file into `ConfigManager`s and
gives each to a `DataValidation`, whose `execute` calls the query builders, the
clients, the combiner and the result handler, in that order.
`generate-table-partitions` builds the same `ConfigManager`s, runs two queries on
each source and writes YAML files; a job runs those files later, in other
processes, against tables that have moved on. Between the generator and the job
there is nothing but the directory: no lock, no generation number, no count of
the files that should be there.

The behaviours that are hard, and that PROJECT.json lists line by line under
"hazards", follow from that: reads without a common snapshot; a row count that is
stale when the rows are numbered; a sample that is stale when it is used; files
left by an earlier generation or by a killed one; retries that append what was
already appended; loops whose error handling starts one statement late; files that
are truncated, written and removed without a lock; requests of which some are
refused; names that are looked up by case on one side and by position on the other;
SQL NULL in comparisons, joins and counts; boundary cases of integer division.

## 2. The modules

```
 Combiner <---- Validation ----implements----> ComparisonPromise
                    ^ MCValidation, ValidationProofs

 PartitionBuilder <---- MCPartitionBuilder, PartitionBuilderProofs

 PartitionFiles <---- PartitionJob <---- MCPartitionJob, PartitionJobProofs
                          | (INSTANCE)
                          v
                     ConfigRunner <---- MCConfigRunner, ConfigRunnerProofs

 ConnectionStore  ConfigDir  ResultStore
        ^             ^          ^           (INSTANCE, over shared variables)
        +-------- Commands ------+ <---- MCCommands, CommandsProofs

 TableColumns <-- RowConfig, AggregateConfig, QueryCompile
                        ^
                   BuildConfig <---- MCBuildConfig, BuildConfigProofs

 FindTables, SchemaValidation <---- Matching <---- MCMatching, MatchingProofs

 Lists: the filter that the loops of FindTables and TableColumns share
 ListLemmas: facts about lists, for the modules of proofs that need them
```

The definitions carry the names of the functions they translate where there is
one. Some modules also hold operators whose comment says *slip*: what a plausible
mistake in one of its definitions would look like. They take no part in the
specification; each is there to show that some property would notice.

**Combiner** translates `combiner.py` as operators on data frames. A frame is a
set of rows `[key, copy, val]`; `copy` tells apart rows that share a key, so that
sets can stand for SQL's bags. `CalculateDifferences` is the inner join of
`_calculate_differences`, `PivotResult` is `_pivot_result`, `JoinPivots` the two
outer joins of `_join_pivots`, `Slice` and `NumberOfSlices` the cutting of the
columns in `generate_report`, and `GenerateReportSlice` puts them together. A join
column that is a validation as well is in every slice (`JoinColumns`). Its differences are
computed but, unless `hash__all` is one of the join columns, it is not pivoted
(`PivotedFields`), so that the first outer join keeps a row that only the differences have:
a success without values for each pair of rows with one key. A report row remembers in `from` the
slice and the pairs it comes from, so that rows the joins multiply and rows that every
slice repeats stay apart (`InSlice`).

**Validation** is one call of `DataValidation.execute` for a row validation
(`ValueComparison`) or a column validation with groups. Its actions are the steps
between which something else may happen: the sampling query, submitting both
queries, each query's answer or failure, leaving the executor, one slice of the
report, the result handler. `WriteSource` and `WriteTarget` are other sessions.
A query reads its table at one moment, which is what every engine grants one
statement; nothing relates the two moments.

**ComparisonPromise** is the abstract specification: take a frame of each side,
each at one moment, judge keys by a definition without joins, pivots or slices
(`Verdicts`), publish at most once, or abort and publish nothing. A frame is a set
that is empty until the frame is taken and then holds it alone. `Compared` columns are
judged by their cells, `KeyColumns`, the join columns that are compared but not pivoted,
agree where both sides have the key and are not reported elsewhere. `Validation`
implements it under the refinement mapping `Promise`: the rows of a table seen
through the query of the run, a future with an answer as a frame (`Taken`), the key
and status of the stored report rows as the verdict.

**PartitionBuilder** is `_get_partition_key_filters` for one pair of tables.
`CountRows` and `QueryFirstElements` are the two statements, and `WriteSource` may
happen between. Keys are tuples of cells; each engine has its own order of
values, and NULL compares as SQL has it. `less_than_value` and `geq_value` unfold
the recursion of the functions of that name; `less_than_nested` and `geq_nested` are
the nested functions themselves, column by column, and `UnfoldingIsRecursion` says that
both forms are one, NULLs included. The remainder condition of line 249 is
`StartsPartition`, with the code's floor and subtraction.

**PartitionFiles** continues from the filters to the disk: `list_to_sublists`, the
folder for each source table, the extension of the files of a folder when a source
table is repeated (with the `IndexError` of a folder that is too short),
`_store_partitions` and `write_file`, which replaces an object in a bucket at once but
truncates a local file (`OpenFile`) and then fills it bit by bit: `WriteSome` leaves any
prefix of its validations, for a kill or a full disk to stop at, `WriteFile` all of them.
The two loops of
`_store_partitions` are a cursor, `at`: the folder and the file they are at. The
command may be run again and may be killed anywhere.

**ConfigRunner** is `configs run --config-dir`, by one process (`kube_completions`
FALSE) or by the tasks of an indexed job. The orchestrator is `Start`, which also
restarts a failed task; `Killed` evicts one. A validation is atomic here except
that it may fail before or after its result is stored. The try inside the loop of
`config_runner` confines an exception to its file, which `FailureCostsOneFile` states of what
is missing in the results table: as many files at most as there were failures.

**PartitionJob** composes the last two: the directory a job finds is what
generations of the generator, finished or killed, have left on disk. It shows
properties neither half has.

**ConnectionStore** is what the connection commands and `--result-handler` do with
the connection files. A local file is a name for an inode: `OpenToWrite` truncates the
inode, `WriteAndClose` lays the text over whatever is there by then, `DeleteRemoves`
takes the name away. In a bucket an object is replaced at once. A result handler
resolves its name (`ResolveHandler`: what is no connection is a BigQuery project),
reads the type (`ReadHandlerType`) and reads the file again to connect
(`OpenHandlerClient`); the three are steps because other processes come between.

**ConfigDir** is `store_config_dir` and the commands that list and load what it wrote.
File names are tuples, so that the name of the second table `t` and of a table called
`t_1` are the same name, as they are in the code.

**ResultStore** is what the PostgreSQL and the BigQuery handlers do with a report:
`FindTable`, `CreateTable` and `CopyRows`, the last one a single transaction; or
`SendChunk` for each request, taken or refused as a whole, and `CheckErrors`. `Kept` is
the set of the rows of the report whose status the handler keeps, and `Place` numbers
them from one, which decides the request a row goes into.

**Commands** composes the three. A process is called with a command and runs through
the steps of the modules; processes share the connection files, one directory and the
results tables, and may be killed between any two steps. The name of a table is a
sequence of `Words`, to which `ConfigDir` may append a number.

**TableColumns**, **RowConfig** and **AggregateConfig** are the operators of
`ConfigManager`. A table is a sequence of columns with a name as its engine spells it,
a casefolded key, an ibis type and a raw type. A name is a sequence of words: a calculated
field of a column is named by its operation and the column's name, or by a number
(`Numeral`) where that is too long for an engine. `DependentAliases` builds the levels of
calculated fields of `--hash` and `--concat`, `OfSupportedType` is the filter that zips
the columns of the two tables, `WithAggregates` adds the aggregates of one type and the
calculated fields they share by name. The calculated fields of a configuration are a set,
as the queries are built from them depth by depth and those of one depth do not see each
other.

**QueryCompile** is `ValidationBuilder` and `QueryBuilder`: `Query` gives for every
column of a query the expression it is of the table's columns, through the levels of
calculated fields (`CalculatedEnv`). An expression is the operations applied, and the set of
the columns it reads.

**BuildConfig** is the command that uses them: `get_pre_build_configs` splits the
columns, `build_config_from_args` fills one ConfigManager after another, part by part,
an aggregation at a time (`unaggregated` has those to come), and a ValidationBuilder
compiles each. An exception anywhere ends the command (`Raise`).

**FindTables** and **SchemaValidation** are the algorithms of `find_tables.py` and
`schema_validation.py` over names with a case and types with a precision. **Matching** is the
command that uses them: list, match one table after another, validate each schema.

| State in the model | In the code |
|---|---|
| `Validation!sample` | the filter fields added at `data_validation.py` 299-302, NULL: none |
| `sourceFuture`, `targetFuture` | `futures[0]`, `futures[1]` |
| `sliceStart`, `result` | the loop over `slice_thresholds`, the concatenated report |
| `stored` | the report rows the result handler has written; none until it has run |
| `PartitionBuilder!first_elements` | the data frame of the second query |
| `filters` | `source_where_list` and `target_where_list`: one range, read by either side |
| `PartitionFiles!yaml_configs_list`, `ind` | the variables of `_add_partition_filters` |
| `at` | `table` and `yaml_file`, the variables of the loops of `_store_partitions` |
| `disk` | the config directory; an empty file is the empty sequence, one written in part a prefix |
| `ConfigRunner!errors`, `files`, `validations` | the flag, the remaining files and the remaining config managers of `config_runner` |
| `results` | the results table, one entry for each stored validation and attempt |
| `ConnectionStore!dir`, `content`, `handle` | the directory of connections, the files behind its names, the file a process has open |
| `listed`, `conn` | what `os.listdir` returned, the connection dictionary in hand |
| `ConfigDir!yamls`, `ind` | the config directory, the position in the loop over `config_managers` |
| `ResultStore!tables`, `stored`, `refused` | the results table of each database and its rows, `chunk_errors` |
| `BuildConfig!pending`, `config`, `managers` | `pre_build_configs_list`, `config_manager`, `configs` |
| `unaggregated` | the `if args.<aggregate>` statements of `build_config_from_args` still to come |
| `queries` | what `get_source_query` and `get_target_query` return |
| `Matching!sources`, `targets`, `configs` | the two table maps, `table_configs` |

## 3. The runs

Each run takes from a second to about two minutes. Why the bounds suffice is in the last
column.

| Run | Question | Bounds and why |
|---|---|---|
| `validation_rows` | are keys nobody touched judged right, and do joins, slices and futures implement the promise, with writers at every point? | 2 keys, one with up to 2 rows (4 joined rows); 4 columns in 2 slices, one a join column that is a validation too and so in both slices, one nullable; only failures kept; 2 writes: one to each table between the two reads is the shortest anomaly |
| `validation_groups` | and a column validation with a threshold? | sums of 0, 2, 3 and NULL; threshold 50%: zero bases, equal, below and above the threshold |
| `validation_sample` | can a sampled run report a key missing in the source that nobody touched? does every run end? | 3 keys, sample of 1, one write, all outcomes of all queries |
| `partition_filters` | is the comparison lexicographic; do the parts cover both sides, are they disjoint, as many and as equal as asked for? | every table of up to 5 rows with 2 key columns of 3 values or NULL, 3 parts (remainders 0, 1, 2), NULLs first; a target that does not tell two values apart; one write |
| `partition_job` | is each partition in exactly one file when success is reported; what does an interrupted generation leave; does a job that succeeded cover the table? | 3 pairs, 2 with one source table, 2 or 5 partitions, 2 to a file, two generations, kills between and in the middle of files; 3 tasks, 2 attempts, 1 failure |
| `config_runner` | does exit code 0 mean everything was stored; who stores what twice; what does a failure cost; does the job end? | 2 processes, indexed or not, 2 starts, 2 failures, a missing and an empty file |
| `commands` | what do commands do to each other's connections, files and results? | 3 processes with any of 9 command lines, one of which may be killed; one connection name (collisions are the question), three types, two texts of one length; a report of 4 rows in requests of 2; a list t, t, t_1; a local directory and a bucket with and without a final slash |
| `build_config` | do the two queries agree and name no column twice, is every column asked for compared once, are aggregates of their own columns? | a key and two columns with names too long to prefix on Oracle, upper case in the source and lower case in the target, in the same order, in another, or one missing; plain, padded and large-object storage; 4 pairs of engines; 13 pairs of types; limits of 1, 2, 4 and no columns to concatenate |
| `matching` | do namesakes meet, is every column judged once, does an accepted type hold the other? | up to 3 tables a side in two schemas and two cases, a schema that cannot be listed, a mapped schema, cutoffs that allow equal names only or similar ones; columns of one name in two cases; decimals that grow in precision, in scale or in one at the cost of the other; allow lists with and without ranges, one of them malformed |

Three more runs, of kind *violation* (`config_dir_overwritten`,
`build_config_by_position`, `partition_lost_nulls`), each check one statement of the
documentation or of a comment that the code does not keep; they are the subject of
section 5.

The bounds (`MaxWrites`, `MaxRuns`, `MaxFailures`, `MaxAttempts`, `MaxKills`) limit how
often the environment acts. Except for `MaxAttempts`, which is the orchestrator's own
limit, they are not in the code. Two writes suffice for every anomaly between two reads,
two generations for every mixture of old and new files (a third only replaces the
role of the first), three processes for two that collide and one that looks.

`commands` uses the symmetry of its processes, which differ in nothing but the command
they are given; it checks invariants only. No other run uses symmetry: with it TLC could
not check temporal properties, and the state spaces do not need it.

CHECK_DEADLOCK stays on everywhere: the end of a run is an explicit stuttering
action (`Terminated`, `NoMoreRuns`, `JobEnded`, `JobIsOver`, `NeverDone`, `AllEnded`,
`Done`), so any
other state without a step is reported.

## 4. Fairness

`Validation!FairSpec` is weak fairness of the steps of the program: a thread that can
run runs, and a call to a database eventually answers *or fails*. The code sets no
timeout of its own, so that a call returns at all is an assumption about drivers;
which of the two it does is left open. Writers have no fairness. The fairness of
a query is stated for the disjunction of its outcomes, never for success.

`ConfigRunner!FairSpec` is weak fairness of each task's work and of `Start`, because an
orchestrator restarts a failed task until its backoff limit. `Killed` has none.
Neither specification needs strong fairness: nothing a task waits for can be
disabled by another.

## 5. What disagrees

These statements and the code differ; each has a run whose counterexample is a
few steps long.

- **Rows with a NULL in the key are in no partition** (`partition_lost_nulls`), against
  "the complete tables can be row validated by concatenating the results".
- **A directory of a bucket is overwritten** (`config_dir_overwritten`).
  `docs/internal/design_docs/config_management.md` 48 says that a directory with files in
  it aborts the command. `list_gcs_directory` takes the path for a prefix and stops at the
  next slash: `gs://bucket/dir` lists nothing of the directory, `gs://bucket/dir/` does.
- **Supported columns are left out of a hash** (`build_config_by_position`), against
  "Filter out columns with a data type that is incompatible with DVT"
  (`config_manager.py` 1381): the columns of the two tables are zipped by position, and
  a pair goes if either of its columns is of an unsupported type. If the tables list their
  columns in different orders, a supported column goes with the other and is never
  compared; or the source keeps a column the target has lost, and the command raises.

Others were met on the way. They follow from a definition of the models at sight, or
end in an error message where the documentation promises none, so that they have no
run:

- The result of a partition count that is old: rows inserted between the two statements
  of `_get_partition_key_filters` make more rows first rows than `--partition-num`
  (`QueryFirstElements`), and a job with that many tasks, which README 602 recommends,
  succeeds without the last range of keys.
- An empty random sample adds no filter (`data_validation.py` 188), so that the whole target
  is fetched and reported, where `docs/random_row_validation.md` 3 promises the rows of a
  sample.
- The comment at `combiner.py` 120 says that `int()+1` "is effectively ceil()". When the number
  of validation columns is a multiple of the slice width, 120, the last slice has no
  column to pivot and `functools.reduce` raises on an empty list (`SliceRaises`).
- A file that cannot be loaded ends the run of its directory
  (`BuildConfigManagersRaises`), under a message at `__main__.py` 433 that says it is skipped.
- Two first commands that both find no directory of connections both make it; the second
  raises (`SetupMakes`).
- The bucket listing without a final slash also shows no connections, so that a result handler
  named after one is taken for a BigQuery project (`ResolveHandler`).
- `store_config_dir` says it prevents collisions; a second `t` and a table `t_1` have the
  same file (`FileName`), and the validation of the first of them is lost.
- Both formats of a date and a timestamp are chosen by the type of the source
  (`TemporalFormat`), and a type on one side speaks for both where it is a UUID, a BOOLEAN or
  JSON (`IsUuid`, `IsBool`, `FirstCast`).
- Excluding every column from an aggregate aggregates all of them, while a list of unknown
  columns aggregates nothing (`Wanted`); and a chunk of columns of a hash that are all
  unsupported or unknown ends the command with `IndexError`.
- A side groups its timestamps by day whatever the other has in the column
  (`GroupExpr`), so that a column that is a timestamp on one side and a string on the other
  is grouped by two different things; `QueriesAgree` leaves it out (`GroupsAreAlike`).
- A pair of columns that is unsupported for two reasons is removed twice, which is a
  `KeyError` (`FilterRaises`).
- `parse_n_validate_datatypes` takes every type with parentheses for a number:
  `timestamp('UTC')` has precision -1 and is accepted into any decimal
  (`PrecisionAndScale`). A decimal is accepted into one with the same precision and a
  greater scale, that is, with fewer digits before the point, and once it grew, the mark of a
  column that may not be NULL is not compared (`StripNull`).
- Of two tables of the target, or two columns of a table, that differ in case only, one is never
  found (`TableMap`, `CasefoldFields`).
- README 290 limits the number of partitions by the larger row count;
  `CountRows` takes the source's.
- README 246 says a file has at most parts-per-file validations; `ExtendFolder` appends
  those of a second pair with the same source table.
- README 602 says a directory holds the files of one generation and makes the number of
  tasks the number of partitions. Files of an earlier generation stay (`Put` removes
  nothing), and with parts-per-file above one there are fewer files than tasks.
- The counts of the summary named "present in source not in target" count NULL cells
  (`RowValidationSummary`).
- README 244 says the ranges are distinct. They are in the order of the source
  (theorem `Distinct`); a target with another collation may put a row in two.

## 6. Proofs

Each component that has theorems has them in a module of its own, `...Proofs`, beside
the module it is about; `ListLemmas` holds what several of them need about lists. The
theorems hold for every value of the constants that satisfies the assumptions below.
An invariant a run checks is seldom inductive, for most say nothing before the end of a
run. What is proved inductive is stronger and says what the run is owed on the way; each
of these invariants was model-checked before it was proved.

| Module | Theorems | Inductive invariant |
|---|---|---|
| `PartitionBuilderProofs` | `TypeCorrect`, `Covered` (`RowsAreCovered`), `Distinct` (`PartitionsAreDistinct`), `Balanced` (`PartitionsAreBalanced`), `Nested` (`UnfoldingIsRecursion`) | `TypeOK` with `FiltersBegun`; then `CoveredSoFar`, `DistinctSoFar` or `BalancedSoFar` |
| `ConfigRunnerProofs` | `TypeCorrect`, `SuccessIsStored` (`SuccessMeansStored`), `NoFileTwice` (`DuplicatesComeFromRetries`), `FailureCosts` (`FailureCostsOneFile`) | `IInv`: `Typed`, for each task `FilesSplit`, `OfOneFile`, `Accounted`, `SucceededClean`, and `ResultOfAFile`; with it `AllPaid` |
| `PartitionJobProofs` | of the files: `TypeCorrect`, `OneFileEach` (`EveryPartitionInOneFile`), `FileNumbersMeanRanges` (`FilesAreFull`), `InterruptedLeavesNoHole` (`StoredPartitionsAreFirst`) | `IInv`: `Typed`, `FiltersFound`, `Lists`, `Cursor`, `Disk` |
| | of the job: `JobCovers` (`JobCoversTable`), `OldFilesOnly` (`OldPartitionsOnlyFromOldFiles`), `JobImplementsFiles` | `JobInv`: `IInv`, `JobAfterFiles`, `TaskCovers`, `ResultOfFile` |
| `CommandsProofs` | `TypeCorrect`, `StoredAccountedFor` (`StoredConfigsAccountedFor`), `SuccessStores` (`SuccessStoresKeptRows`), `PartsOnlyInBigQuery`, `AddsSurvive` (`ConnectionsSurvive`), `NeverTakenForLegacy` (`NeverLegacyByAccident`) | `Base`, and with it `DirInv`, `ResultInv` or `ConnInv` |
| `MatchingProofs` | `NamesakesMeet` (`NamesakesAreMatched`), `JudgedOnce` (`EveryFieldJudgedOnce`), `OnlyWiden` (`AcceptedTypesOnlyWiden`) | `MatchedSoFar`; `LastResults` |
| `ValidationProofs` | `TypeCorrect`, `QuietJudged`, `SampledMissing`, `CleanMeansEqual`, `SummaryAdds`, and `ImplementsPromise` (`KeepsPromise`) | `IInv`: `TypeOK`, `Phases`, `ReportSoFar`, `QuietFrames`, `SampledFromSource`; with `FiniteData` for the summary |
| `BuildConfigProofs` | `Agreement` (`QueriesAgree`), `DifferentNames` (`NoNameTwice`), `OwnColumns` (`AggregatesOnOwnColumns`), `AllCompared` (`RequestedColumnsAreCompared`) | `QInv`: `Given`, `Waiting`, `Built`, `Asked`; with it `Named`, and with both `Aggregated` or `Compared` |

**Partition filters.** `CoveredSoFar` says what the filters built so far cover: every key
that is not at or above the upper bound of the last one. A middle filter adds the keys
between two bounds, the last one the rest, because a key is below a bound or at or above it
when neither has a NULL. The proof does not use that the bounds are in order, and so holds
for the target as well, whatever its collation, and for a source that changed between the
two queries: rows may then be in two partitions, but never in none. Distinctness does need
the order, and holds for the source only: each range ends where the next begins, the bounds
ascend since `QueryFirstElements` returns rows in the order of the source, and transitivity
of the lexicographic order, proved once for tuples of any width, carries a key above one
bound past all the earlier ones.

That the sizes are even is a matter of row numbers. `RowNumbers`: in a finite set of keys in
one line, the number of rows before a key numbers the rows from one without gaps
(an injection into a set of the same size). `StartsAre`: the modulo condition of the query
holds for exactly the row numbers `StartOf(q)`, the floor of *q* times the count over *n*, plus one;
`EvenStarts`: these are as far apart as the quotient or one more. `FirstElements`: the
ordered result of the query lists the rows with these numbers in turn, since two increasing lists of
the same numbers are the same. A partition has then the rows from one start up to the next.
`BalancedSoFar` carries the count and the first elements through the loop for as long as
nobody has written.

`Nested` is about the conditions themselves. The nested functions of the code make, from
the last key column to the first, an OR of comparisons and ANDs in SQL's three values; the
model says which column decides. That the recursion has one value is an induction on the
columns left, and that the unfolded form satisfies its equation is a matter of how TRUE,
FALSE and NULL meet.

**Partition files.** `NothingLostOrRepeated` is the lemma on `list_to_sublists`: element
*n* of a list is in sublist `FileOf(n)`, once, and nothing else is in any. `Lists` says
that each file collected so far has only partitions that belong there, each once
(`FileHolds`), and that each pair already visited has all of its partitions in a file of
its folder; `ExtendFolder` keeps it because it appends sublist *i* to file *i*. `Cursor` and
`Disk` say that the files the loops are past are on disk as they were collected, that the one
they are at may have the beginning of what belongs in it (`IsCut`), and that what else is
there is of an earlier run or empty. When the cursor is past everything, a
file that holds a partition of this run is thus one that this run wrote.

`InterruptedLeavesNoHole` needs these also of a run that has been ended (`Active`). Two
partitions of one pair are in the order of their numbers within a file (`InOrder`) and
across files (`FileOf` grows with the number). If one of them can be read, its file is
passed, or it is in the part of the file at the cursor that was written; then the earlier one is
before it in the same file, or in a file that the loops are past (`HeldInOrder`).

**Config runner.** `Accounted` is the point: while a task is neither failed nor has its
error flag set, each validation of a file it has tried is stored in this attempt or still
among those left to run. `FilesSplit` says its files are those tried and those to try, so
that with none left to try nothing is missing. That no two tasks store the same validation
follows from `ResultOfAFile` and the assumption that no entry is in two files.

`AllPaid` counts: the files a process is past without all of their results (`Lost`) are no
more than the failures so far, the one it is running apart, of which the rest is still left to
run. A failed validation adds its file to the first and one to the second.

**The job.** `JobImplementsFiles` makes the theorems about the directory hold of the
composition; `JobAfterFiles` says the directory rests while tasks run. `TaskCovers` says
that a task past its one file without having failed has stored or has left to run whatever
the file holds, and that the file exists. If every task succeeded, the numbers of the tasks
are therefore numbers of files; if there are no more files than tasks, they are all of them
(a finite set has no proper subset of its size), and `FilesAreFull` puts each partition in
one. A task that stored a partition of an old generation read a file that the last
generation did not write, and so one that it had no partitions for.

**Commands.** `Base` has the types and where a process with a given command can be.
`DirInv` follows the loop of `store_config_dir` in every process at once: a table before the
loop's position has a file under its name, written by this process for it or for a later
table with the same file name, or by another process that saw the directory empty too
(`WrittenAfterLook`). `ResultInv` says what a run has stored at each moment: nothing or
everything in PostgreSQL, the chunks sent and not refused in BigQuery, and nothing in any
other database; `ReportInChunks` is the lemma that the chunks are the report. `ConnInv`
accounts for a connection file that nobody deletes: it is truncated and an add is at it or
was killed at it, or it has the head of one finished add up to the length of another.

**Matching.** `schema_validation_matching` is related to a function of the names of both
sides (`ResultsByName`), whose values are counted through a bijection (`OneResultEach`).
The loops over tables and keys are folds. `FoldExists` and `FoldThrough` show, by
induction on the number of places, that a fold goes through a list of values, each made of
the one before; `KeepOf`, `TableMapOf` and `ClosestOf` state that for the three loops of
FindTables, which are then reasoned about as any other step. `MapStepKeeps` is the
invariant of `_get_table_map_from_obj_list`: each table has one entry, under its name or
the name in small letters, and under the latter as soon as its turn has come, unless
another table has that key; this is the place where tables that differ in case only
are lost. `ClosestExact`: with the highest cutoff the closest key is the one looked for, or
there is none. `MatchedSoFar` says that each listed table of the source is still to match or
has been matched with its namesake, and that no table is in both lists or twice in one.

**Validation.** `ReportSoFar` says what the slices combined so far report: on their columns
exactly the verdicts that the two frames call for, in rows that come from a pair of rows or
from a lone one. `SliceVerdicts` is the lemma behind it, that one slice with its pivots and
its two outer joins reports what `ComparisonPromise` says of its columns, also where
duplicate keys multiply rows. `QuietFrames` ties the frames to the tables: on keys of the
run that no session has touched, frame and table agree. The step simulation is `Phases`
with these: a query that answers maps to taking a frame, the handler to publishing, a failure
to aborting, and every other step to a stutter. The summary counts rows by predicates that
are shown to split the failed rows.

**Configuration.** `Built` says that a configuration refers to the columns of both tables by
the same keys, through the calculated fields it has (`GoodConfig`), `Asked` that the queries
are those of the configurations that compile. The two queries agree because their tables
do: `EnvsAgree`, by induction on the depth of the calculated fields, makes the same key mean
the same expression on both sides, for whatever spelling and order (`QueriesOfAgree`).

`Named` follows the names of the columns of a query. A name that is derived from a column's
begins with the operation and ends with the column's name or with its number
(`PrefixBegins`); no column of a table begins like that (`Reserved`), and two columns with
one derived name would have one name or one number (`PrefixOnce`, `OwnNamesDiffer`). What
makes it inductive is that the aggregations still to come are of other types than
those already there.

`Aggregated` says which aggregates are there when some types are still to come
(`AggregatedSo`): those of the types before, on exactly the columns wanted whose types
allow it. An aggregate reads what its calculated field reads, and since several aggregates
share that field by its name, the field is shown to be one of the set that reads the
column and nothing else, at whatever depth (`OwnFieldStands`, `MutateReadsOwn`).

`Compared` is about row validations. `Progress` ties the configurations built, the one under
construction and the lists of columns that wait to the requests that the command was split
into; `PiecesApart` says that the pieces of a list hold every element once, so that each column
asked for is in one request (`RequestsSplit`). `RowBuilt` says what a finished configuration is
made of. For tables with their columns in one order, `RowEnvIs` follows a hash or a concatenation
through its levels: on level *n* the name of a column stands for what was computed of it on the
level before and reads that column, and the last level, one field of all the names, reads the whole
request (`HashReads`). `FieldsReads` is the same for compared fields, trimmed ones
included. An exception in any step contradicts `WellFormed`, which is what the last conjunct
keeps: nothing is missing, no type is unsupported, and no request is empty.

**Assumptions.** Each is a named ASSUME that the runs evaluate. They say what the argument
parser or the engine grants: `partition_num` at least 2 (`_check_gt_one`), at least one key
column, ranks that are integers, and in the source different for different values (two
rows would else have one number, and ORDER BY no definite result); only `Balanced` uses
that; `parts_per_file`, `Tasks`, `MaxAttempts`, `ChunkSize` and
the slice width positive; a partition list of a table has at least two entries; cells are
integers or NULL and tables finite (a data frame is); a sampled run is a row validation;
NULL, None and "N/A" are no value, connection or column; processes and connection names are
different things; command lines have the fields their command needs; no validation is an entry
of two files (`ConfigDirsAssumption`: an entry, not its text); precisions of decimals are not
negative; a side lists a table once, folding a name twice is folding it once, and the
similarity of two keys is the highest if and only if they are equal (`jaro_similarity` is 1
for equal strings only; a key is taken for a pair, so that no dot inside a name is confused
with the one between schema and table).
For BuildConfig: different numbers are spelled differently (`NumeralAssumption`); a type
without a name is none that is padded; a table has a column, its columns have different
names and different casefolded names, a name that is spelled like a key of either table has
that key, no column is named as the program names its own fields, and the limit on columns
to concatenate is a number, 0 if there is none (`TablesAssumption`); and, what nothing in
the code checks but its loops take for granted, the lists of an argument name a column once,
while a type of aggregation is given once, with a list that is not empty
(`ArgumentsAssumption`).

Left to TLC:

- Liveness, `RunsEnd` and `JobEnds`: out of the prover's reach.
- The three runs whose property is violated.

## 7. What is left out

- Text: rendering of SQL, YAML, JSON and reports; trimming of padded strings in partition
  filters; the date conversions of `partition_builder.py`; formatting of numbers.
- Arithmetic of floating point in differences and percentages: values are integers.
- The handler is one step in `Validation` and `ConfigRunner`; its own steps are in
  `Commands`, where the report is given. What it prints after an insert is left out.
- Filters, limits and random rows in `QueryCompile`: they select rows, which Validation and
  PartitionBuilder model.
- The replacement tokens of Db2 (`_string_column_ifnull_limits`), whose length
  depends on the length of the column.
- `connections describe`, secret managers, and the commands that only print.
- The declaration and parsing of arguments (`cli_tools.py` 278-1210): the modules start
  from parsed arguments, and the ranges they are checked for are assumptions.
- NULL in a primary key in `Validation`: keys there are not NULL. The cells of a join column are
  given by the key, and only row validations have join columns among their validations (no
  aggregate is named like a grouped column): `CellsAssumption`, `JoinFieldsAssumption`.
  `hash__all` as a join column is in no run; the proofs hold for any `JoinFields`, this one
  included.
- Local writes are cut between two validations of a file only. A text cut inside one does not
  load: `yaml.dump` sorts its keys, so that `type`, which the constructor of `ConfigManager` asks
  for, comes after the filters and the names of the tables, and the file is as good as the empty
  one. Only `use_random_rows` follows; a text cut inside that value would load and counts as whole
  here. Uploads to a bucket are atomic.
- Recursive validation (`data_validation.py` 311-418): it needs grouped columns in a row validation, which no command
  line gives, and its conversion `to_dict(orient="row")` is refused by pandas 2. Without
  groups it does what Validation models.
- Clients and dialects: a query is a step that answers or fails; what is assumed of an
  engine is stated as external definitions.

## 8. Plan

The specifications were built in this order: Combiner, Validation, ComparisonPromise;
PartitionBuilder; PartitionFiles; ConfigRunner; PartitionJob; ConnectionStore, ConfigDir,
ResultStore and Commands; TableColumns, RowConfig, AggregateConfig, QueryCompile and
BuildConfig; FindTables, SchemaValidation and Matching. The proofs of section 6 followed,
those of BuildConfig last. Every invariant that a run checks and finds kept is now a
theorem, and so is the refinement.

What could come next, most useful first:

- The recursion over grouped fields of `data_validation.py` 311-418, when a command line
  reaches it.
- `QueriesAgree` without `GroupsAreAlike` and `AllCompared` without the order of the columns,
  when the code pairs columns by name (section 5).
- Filters and limits in QueryCompile, so that the sampling filter of Validation and the
  partition filters are compiled by the same definitions as the columns.
