\* A column validation with groups, sums and a threshold of 50 percent.
SPECIFICATION Spec
CONSTANTS
  NULL = NULL
  Width = 2
  JoinFields = {}
  ValueComparison = FALSE
  Threshold = 50
  Keys = {"k1"}
  Copies <- EveryKeyTwice
  Columns <- OneColumn
  Cells <- Amounts
  BatchSize = NULL
  StatusList = {"success", "fail"}
  MaxWrites = 1
PROPERTIES
  KeepsPromise
