\* A row validation while other sessions write: two keys, one of which may have two
\* rows, and four columns in two slices, one of them a join column.
SPECIFICATION Spec
CONSTANTS
  NULL = NULL
  Width = 3
  JoinFields = {"a"}
  ValueComparison = TRUE
  Threshold = 0
  Keys = {"k1", "k2"}
  Copies <- FirstKeyTwice
  Columns <- FourColumns
  Cells <- NullableB
  BatchSize = NULL
  StatusList = {"fail"}
  MaxWrites = 2
INVARIANTS
  TypeOK
  QuietKeysJudgedRight
  CleanReportMeansEqualRows
  SummaryAccountsForFailures
PROPERTIES
  KeepsPromise
