-------------------------- MODULE PartitionBuilder --------------------------
(***************************************************************************)
(* generate-table-partitions for one pair of tables: the row count, the    *)
(* query that finds the first row of each partition, and the loop that     *)
(* turns those rows into WHERE clauses (partition_builder.py,              *)
(* _get_partition_key_filters).                                            *)
(*                                                                         *)
(* A key is a tuple of cells, one for each primary key column.  The two    *)
(* engines may order the values of a column differently (collations), so   *)
(* each side has its own Rank.  The count and the second query are         *)
(* separate statements, and the source may change between them.            *)
(***************************************************************************)
EXTENDS Integers, Sequences, FiniteSets

CONSTANTS
  NULL,
  Values,        \* what a non-NULL key column holds
  KeyWidth,      \* the number of primary key columns
  Rank,          \* Rank[side][v]: the place of v in that engine's order
  NullsFirst,    \* where the source engine's ORDER BY puts NULL
  Nullable,      \* whether key columns may hold NULL
  partition_num, \* --partition-num
  MaxRows,       \* bound on the rows the source starts with
  MaxWrites      \* bound on the writes made to the source meanwhile

Sides == {"source", "target"}

ASSUME KeyWidthAssumption == KeyWidth \in Nat \ {0}
ASSUME RankAssumption == Rank \in [Sides -> [Values -> Int]]
ASSUME OrderAssumption == NullsFirst \in BOOLEAN /\ Nullable \in BOOLEAN
ASSUME PartitionNumAssumption == partition_num \in Nat /\ partition_num >= 2  \* _check_gt_one
ASSUME MaxRowsAssumption == MaxRows \in Nat
ASSUME MaxWritesAssumption == MaxWrites \in Nat

VARIABLES
  source,          \* the keys of the rows in the source table
  writes,
  pc,
  source_count,
  number_of_part,
  first_elements,  \* the first key of each partition, in source order
  filters          \* source_where_list and target_where_list, as key ranges

vars == <<source, writes, pc, source_count, number_of_part, first_elements, filters>>

counts == <<source_count, number_of_part>>

-----------------------------------------------------------------------------
(* Keys and the conditions on them.                                        *)

Columns == 1..KeyWidth
PlainKey == [Columns -> Values]
AnyKey == [Columns -> Values \cup {NULL}]
Key == IF Nullable THEN AnyKey ELSE PlainKey

\* The source engine tells different values apart, so that ORDER BY gives every row a
\* number of its own.
ASSUME SourceOrderAssumption ==
  \A v, w \in Values : Rank["source"][v] = Rank["source"][w] => v = w

\* NULL is a marker of its own.
ASSUME NullAssumption == NULL \notin Values /\ NULL \notin AnyKey

\* SQL comparisons of two cells: one with NULL is never true.
Less(side, a, b) == a # NULL /\ b # NULL /\ Rank[side][a] < Rank[side][b]
Same(side, a, b) == a # NULL /\ b # NULL /\ Rank[side][a] = Rank[side][b]

SameUpTo(side, k, v, i) == \A j \in 1..i : Same(side, k[j], v[j])

\* Slips: a lower bound that is not included, and a comparison of every column on its
\* own.
greater_value(side, k, v) ==
  \E i \in Columns : Less(side, v[i], k[i]) /\ SameUpTo(side, k, v, i - 1)
geq_every_column(side, k, v) ==
  \A i \in Columns : Less(side, v[i], k[i]) \/ Same(side, k[i], v[i])

\* The recursion of less_than_value and geq_value over the key columns, unfolded:
\* some column decides and the columns before it are equal.
less_than_value(side, k, v) ==
  \E i \in Columns : Less(side, k[i], v[i]) /\ SameUpTo(side, k, v, i - 1)

geq_value(side, k, v) ==
  \/ \E i \in Columns : Less(side, v[i], k[i]) /\ SameUpTo(side, k, v, i - 1)
  \/ SameUpTo(side, k, v, KeyWidth)

\* The two conditions as the nested functions of the code build them, each column's
\* around that of the columns after it.
less_than_nested(side, k, v) ==
  LET From[i \in Columns] ==
        IF i = KeyWidth THEN Less(side, k[i], v[i])
        ELSE Less(side, k[i], v[i]) \/ (Same(side, k[i], v[i]) /\ From[i + 1])
  IN From[1]

geq_nested(side, k, v) ==
  LET From[i \in Columns] ==
        IF i = KeyWidth THEN Less(side, v[i], k[i]) \/ Same(side, k[i], v[i])
        ELSE Less(side, v[i], k[i]) \/ (Same(side, k[i], v[i]) /\ From[i + 1])
  IN From[1]

\* A partition's filter; NULL stands for a missing bound.
KeyRange == [from : Key \cup {NULL}, before : Key \cup {NULL}]
Between(from, before) == [from |-> from, before |-> before]

Selects(side, filter, k) ==
  /\ filter.from # NULL => geq_value(side, k, filter.from)
  /\ filter.before # NULL => less_than_value(side, k, filter.before)

-----------------------------------------------------------------------------
(* Finding the first element of each partition.                            *)

\* ORDER BY of the source: NULLs together at one end.
CellBefore(a, b) ==
  \/ Less("source", a, b)
  \/ a = NULL /\ b # NULL /\ NullsFirst
  \/ a # NULL /\ b = NULL /\ ~NullsFirst

Before(a, b) ==
  \E i \in Columns : CellBefore(a[i], b[i]) /\ \A j \in 1..(i - 1) : a[j] = b[j]

\* ROW_NUMBER() OVER (ORDER BY source_pks)
RowNumber(rows, k) == Cardinality({r \in rows : Before(r, k)}) + 1

\* A slip: < n, without the row whose remainder is n.
StartsPartitionBelow(row_number, n, count) ==
  \/ count = n
  \/ LET remainder == row_number * n - ((row_number * n) \div count) * count
     IN remainder > 0 /\ remainder < n

StartsPartition(row_number, n, count) ==
  \/ count = n
  \/ LET remainder == row_number * n - ((row_number * n) \div count) * count
     IN remainder > 0 /\ remainder <= n

FirstRows(rows) ==
  {k \in rows : StartsPartition(RowNumber(rows, k), number_of_part, source_count)}

\* The rows of a result set in ORDER BY order.
Ordered(rows) ==
  {s \in [1..Cardinality(rows) -> rows] :
     \A i, j \in 1..Cardinality(rows) : i < j => Before(s[i], s[j])}

-----------------------------------------------------------------------------
Init ==
  /\ source \in SUBSET Key
  /\ IsFiniteSet(source)
  /\ Cardinality(source) <= MaxRows
  /\ writes = 0
  /\ pc = "count"
  /\ source_count = 0
  /\ number_of_part = 0
  /\ first_elements = <<>>
  /\ filters = <<>>

\* Other sessions insert and delete rows of the source.
WriteSource ==
  /\ pc \in {"count", "first rows"}
  /\ writes < MaxWrites
  /\ \E k \in Key : source' \in {source \cup {k}, source \ {k}} \ {source}
  /\ writes' = writes + 1
  /\ UNCHANGED <<pc, counts, first_elements, filters>>

\* A slip: the last row number where the count was meant, counting from zero.
CountRowsFromZero ==
  /\ pc = "count"
  /\ source_count' = Cardinality(source) - 1
  /\ number_of_part' = IF partition_num < source_count'
                       THEN partition_num ELSE source_count'
  /\ pc' = "first rows"
  /\ UNCHANGED <<source, writes, first_elements, filters>>

\* The count of the target is taken too; it only decides whether a warning is logged.
CountRows ==
  /\ pc = "count"
  /\ source_count' = Cardinality(source)
  /\ number_of_part' = IF partition_num < Cardinality(source)
                       THEN partition_num ELSE Cardinality(source)
  /\ pc' = "first rows"
  /\ UNCHANGED <<source, writes, first_elements, filters>>

QueryFirstElements ==
  /\ pc = "first rows"
  /\ first_elements' \in Ordered(FirstRows(source))
  /\ pc' = "first filter"
  /\ UNCHANGED <<source, writes, counts, filters>>

\* first_elements[1] needs a second row.
FirstFilterRaises ==
  /\ pc = "first filter"
  /\ Len(first_elements) < 2
  /\ pc' = "raised"
  /\ UNCHANGED <<source, writes, counts, first_elements, filters>>

FirstFilter ==
  /\ pc = "first filter"
  /\ Len(first_elements) >= 2
  /\ filters' = <<Between(NULL, first_elements[2])>>
  /\ pc' = "middle filters"
  /\ UNCHANGED <<source, writes, counts, first_elements>>

\* A slip: the lower bound is forgotten.
MiddleFilterOpen ==
  /\ pc = "middle filters"
  /\ Len(filters) < Len(first_elements) - 1
  /\ filters' = Append(filters, Between(NULL, first_elements[Len(filters) + 2]))
  /\ UNCHANGED <<source, writes, pc, counts, first_elements>>

MiddleFilter ==
  /\ pc = "middle filters"
  /\ Len(filters) < Len(first_elements) - 1
  /\ filters' = Append(filters, Between(first_elements[Len(filters) + 1],
                                      first_elements[Len(filters) + 2]))
  /\ UNCHANGED <<source, writes, pc, counts, first_elements>>

LastFilter ==
  /\ pc = "middle filters"
  /\ Len(filters) = Len(first_elements) - 1
  /\ filters' = Append(filters, Between(first_elements[Len(first_elements)], NULL))
  /\ pc' = "done"
  /\ UNCHANGED <<source, writes, counts, first_elements>>

Terminated == pc \in {"done", "raised"} /\ UNCHANGED vars

Next ==
  \/ WriteSource
  \/ CountRows
  \/ QueryFirstElements
  \/ FirstFilterRaises
  \/ FirstFilter
  \/ MiddleFilter
  \/ LastFilter
  \/ Terminated

Spec == Init /\ [][Next]_vars

-----------------------------------------------------------------------------
(* Properties.                                                             *)

Places == {"count", "first rows", "first filter", "middle filters", "done", "raised"}

TypeOK ==
  /\ source \subseteq Key
  /\ IsFiniteSet(source)
  /\ writes \in 0..MaxWrites
  /\ pc \in Places
  /\ source_count \in Nat
  /\ number_of_part \in Nat
  /\ first_elements \in Seq(Key)
  /\ filters \in Seq(KeyRange)

\* The unfolded conditions are those the nested functions of
\* _get_partition_key_filters build column by column, for the keys of the source.
UnfoldingIsRecursion ==
  pc = "first filter" => \A k, v \in source : \A side \in Sides :
    /\ less_than_value(side, k, v) = less_than_nested(side, k, v)
    /\ geq_value(side, k, v) = geq_nested(side, k, v)

\* No partition but the first, whose lower bound is not used, starts at a row with a
\* NULL in its key.
PlainBoundaries == \A i \in 2..Len(first_elements) : first_elements[i] \in PlainKey

\* Every key without NULLs is in some partition, on either side, so that the
\* partitions together are the whole table (partition_table_prd.md).  The target may
\* even sort keys in an order of its own.
RowsAreCovered ==
  pc = "done" /\ PlainBoundaries =>
    \A side \in Sides : \A k \in PlainKey :
      \E p \in 1..Len(filters) : Selects(side, filters[p], k)

NoKeyTwice(side) ==
  \A k \in Key : \A p, q \in 1..Len(filters) :
    Selects(side, filters[p], k) /\ Selects(side, filters[q], k) => p = q

\* No row, not even one with a NULL in its key, is validated by two partitions:
\* "the ranges of keys across partitions are distinct" (README, Generate Partitions).
PartitionsAreDistinct ==
  pc = "done" /\ PlainBoundaries => NoKeyTwice("source")

\* When the source stands still and has no NULL in its keys, there are as many
\* partitions as asked for and rows allow, and their sizes differ by at most one
\* (README: "The partitions have nearly equal number of rows").
PartitionsAreBalanced ==
  pc = "done" /\ writes = 0 /\ source \subseteq PlainKey =>
    LET size(p) == Cardinality({k \in source : Selects("source", filters[p], k)})
    IN /\ Len(filters) = IF partition_num < Cardinality(source)
                         THEN partition_num ELSE Cardinality(source)
       /\ \A p, q \in 1..Len(filters) : size(p) - size(q) <= 1

\* partition_table_prd.md: "the complete tables can be row validated by
\* concatenating the results of validating each partition": every row of the
\* source is in some partition.
CompleteTable ==
  pc = "done" =>
    \A k \in source : \E p \in 1..Len(filters) : Selects("source", filters[p], k)
=============================================================================
