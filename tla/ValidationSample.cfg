\* A row validation of one random row of three, whichever queries fail.
SPECIFICATION FairSpec
CONSTANTS
  NULL = NULL
  Width = 2
  JoinFields = {}
  ValueComparison = TRUE
  Threshold = 0
  Keys = {"k1", "k2", "k3"}
  Copies <- UniqueKeys
  Columns <- OneColumn
  Cells <- NullableB
  BatchSize = 1
  StatusList = {"success", "fail"}
  MaxWrites = 1
INVARIANTS
  SampledKeyMissingOnlyIfTouched
  QuietKeysJudgedRight
PROPERTIES
  RunsEnd
