\* A nullable unique key in place of a primary key.
SPECIFICATION Spec
CONSTANTS
  NULL = NULL
  Values = {1, 2}
  KeyWidth = 2
  Rank <- SameOrder
  NullsFirst = FALSE
  Nullable = TRUE
  partition_num = 2
  MaxRows = 4
  MaxWrites = 0
INVARIANTS
  CompleteTable
