\* Composite keys that may hold NULL, tables of up to five rows in three partitions, a
\* target whose collation does not tell two of the values apart.
SPECIFICATION Spec
CONSTANTS
  NULL = NULL
  Values = {1, 2, 3}
  KeyWidth = 2
  Rank <- CoarseOrder
  NullsFirst = TRUE
  Nullable = TRUE
  partition_num = 3
  MaxRows = 5
  MaxWrites = 1
INVARIANTS
  TypeOK
  UnfoldingIsRecursion
  PartitionsAreBalanced
  RowsAreCovered
  PartitionsAreDistinct
