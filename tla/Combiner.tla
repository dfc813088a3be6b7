------------------------------ MODULE Combiner ------------------------------
(***************************************************************************)
(* data_validation/combiner.py: how the two data frames returned by the    *)
(* source and the target query become one report.                          *)
(*                                                                         *)
(* A data frame is a set of rows [key, copy, val]: the join key, a number  *)
(* that tells apart rows with the same key, and a cell for each validation *)
(* column.  An empty set of join columns is the same join with one key     *)
(* shared by every row, which is what combiner.py's cross_join amounts to. *)
(***************************************************************************)
EXTENDS Integers, Sequences, FiniteSets

CONSTANTS
  NULL,             \* SQL NULL, and the NaN an outer join leaves behind
  Width,            \* COMBINER_COLUMN_SLICE_WIDTH
  JoinFields,       \* join_on_fields, the columns both frames are joined on
  ValueComparison,  \* is_value_comparison: TRUE for row validations
  Threshold         \* pct_threshold, an integer percentage here

ASSUME WidthAssumption == Width \in Nat \ {0}
ASSUME ValueComparisonAssumption == ValueComparison \in BOOLEAN
ASSUME ThresholdAssumption == Threshold \in Nat

Success == "success"
Fail    == "fail"

-----------------------------------------------------------------------------
(* Comparing one source cell with one target cell.                         *)

Magnitude(x) == IF x < 0 THEN -x ELSE x

\* A slip: a target below the source never exceeds the threshold.
ExceedsAbove(s, t) == 100 * (t - s) > Threshold * Magnitude(s)

\* A difference of zero is 0%; otherwise the base is the source value, or the
\* target value when the source is zero.
ExceedsThreshold(s, t) ==
  /\ t # s
  /\ 100 * Magnitude(t - s) > Threshold * Magnitude(IF s = 0 THEN t ELSE s)

\* A slip: NULLs compared like SQL's = with no test for them first, so that two NULLs
\* differ.
NullsDiffer(s, t) ==
  IF s = NULL \/ t = NULL THEN Fail
  ELSE IF ExceedsThreshold(s, t) THEN Fail ELSE Success

\* The status column of _calculate_difference.  Two NULLs agree; one NULL makes
\* the percentage NaN, which fails.
CalculateDifference(s, t) ==
  IF s = NULL \/ t = NULL \/ ValueComparison
  THEN IF s = t THEN Success ELSE Fail
  ELSE IF ExceedsThreshold(s, t) THEN Fail ELSE Success

\* One row for each pair of source and target rows with the same key (an inner
\* join) and each validation column, the join columns among them too.
CalculateDifferences(source, target, fields) ==
  {[field |-> f, key |-> p[1].key, pair |-> <<p[1].copy, p[2].copy>>,
    status |-> CalculateDifference(p[1].val[f], p[2].val[f])] :
     f \in fields, p \in {q \in source \X target : q[1].key = q[2].key}}

\* A side pivoted to one row per column and data frame row.  Join columns are not
\* pivoted, unless the hash of the whole row is one of them.
PivotedFields(fields) ==
  IF "hash__all" \in JoinFields THEN fields ELSE fields \ JoinFields

PivotResult(df, fields) ==
  {[field |-> f, key |-> r.key, copy |-> r.copy, value |-> r.val[f]] :
     f \in PivotedFields(fields), r \in df}

-----------------------------------------------------------------------------
(* Stitching the three pivots together.                                    *)

SameJoinKeys(a, b) == a.field = b.field /\ a.key = b.key

\* A slip: the first join is a left join, so that what has no source value is lost.
LeftJoinDifferences(source, differences) ==
  {[field |-> p[1].field, key |-> p[1].key, value |-> p[1].value, status |-> p[2].status,
    from |-> <<p[1].copy, p[2].pair>>] :
     p \in {q \in source \X differences : SameJoinKeys(q[1], q[2])}}
  \cup
  {[field |-> s.field, key |-> s.key, value |-> s.value, status |-> NULL,
    from |-> <<s.copy, NULL>>] :
     s \in {p \in source : \A d \in differences : ~SameJoinKeys(p, d)}}

\* source outer-joined with differences.  A column that is compared but not pivoted (a
\* join column) has differences only: they keep their status and have no value.
SourceDifference(source, differences) ==
  {[field |-> p[1].field, key |-> p[1].key, value |-> p[1].value, status |-> p[2].status,
    from |-> <<p[1].copy, p[2].pair>>] :
     p \in {q \in source \X differences : SameJoinKeys(q[1], q[2])}}
  \cup
  {[field |-> s.field, key |-> s.key, value |-> s.value, status |-> NULL,
    from |-> <<s.copy, NULL>>] :
     s \in {p \in source : \A d \in differences : ~SameJoinKeys(p, d)}}
  \cup
  {[field |-> d.field, key |-> d.key, value |-> NULL, status |-> d.status,
    from |-> <<NULL, d.pair>>] :
     d \in {e \in differences : \A p \in source : ~SameJoinKeys(p, e)}}

\* A report row; a missing status becomes Fail (the fillna at the end of
\* _generate_report_slice).
ReportRow(field, key, sourceValue, targetValue, status, from) ==
  [field |-> field, key |-> key,
   source_agg_value |-> sourceValue, target_agg_value |-> targetValue,
   validation_status |-> IF status = NULL THEN Fail ELSE status,
   from |-> from]

\* A slip: the last join is a left join, so that target-only rows are lost.
LeftJoinPivots(source, target, differences) ==
  LET sd == SourceDifference(source, differences) IN
  {ReportRow(p[1].field, p[1].key, p[1].value, p[2].value, p[1].status,
             <<p[1].from, p[2].copy>>) :
     p \in {q \in sd \X target : SameJoinKeys(q[1], q[2])}}
  \cup
  {ReportRow(s.field, s.key, s.value, NULL, s.status, <<s.from, NULL>>) :
     s \in {q \in sd : \A t \in target : ~SameJoinKeys(q, t)}}

JoinPivots(source, target, differences) ==
  LET sd == SourceDifference(source, differences) IN
  {ReportRow(p[1].field, p[1].key, p[1].value, p[2].value, p[1].status,
             <<p[1].from, p[2].copy>>) :
     p \in {q \in sd \X target : SameJoinKeys(q[1], q[2])}}
  \cup
  {ReportRow(s.field, s.key, s.value, NULL, s.status, <<s.from, NULL>>) :
     s \in {q \in sd : \A t \in target : ~SameJoinKeys(q, t)}}
  \cup
  {ReportRow(t.field, t.key, NULL, t.value, NULL, <<NULL, t.copy>>) :
     t \in {q \in target : \A s \in sd : ~SameJoinKeys(s, q)}}

\* functools.reduce over no pivots at all raises TypeError, and so it does over no
\* differences; but a slice that has something to pivot has something to compare.
SliceRaises(fields) == PivotedFields(fields) = {}

GenerateReportSlice(source, target, fields) ==
  JoinPivots(PivotResult(source, fields), PivotResult(target, fields),
             CalculateDifferences(source, target, fields))

-----------------------------------------------------------------------------
(* Cutting the validation columns into slices of Width.                    *)

\* range(int(n / Width) + 1): the number of entries of slice_thresholds.
NumberOfSlices(n) == n \div Width + 1

JoinColumns(columns) == {columns[i] : i \in 1..Len(columns)} \cap JoinFields

\* A slip: the last column of a slice is left out.
ShortSlice(columns, start) ==
  {columns[i] : i \in {j \in 1..Len(columns) : start < j /\ j < start + Width}}
  \cup JoinColumns(columns)

\* columns[start : start + Width], as a set, and the join columns, which are appended to
\* every slice.
Slice(columns, start) ==
  {columns[i] : i \in {j \in 1..Len(columns) : start < j /\ j <= start + Width}}
  \cup JoinColumns(columns)

\* pandas.concat keeps the rows of every slice, also those that say the same.
InSlice(start, report) == {[r EXCEPT !.from = <<start, @>>] : r \in report}

-----------------------------------------------------------------------------
(* The counts _log_row_validation_summary writes to the log.               *)

CountWhere(report, P(_)) == Cardinality({r \in report : P(r)})

RowValidationSummary(report) ==
  LET failed(r)  == r.validation_status # Success
      inSource(r) == r.source_agg_value # NULL
      inTarget(r) == r.target_agg_value # NULL
  IN [validated |-> Cardinality(report),
      success   |-> CountWhere(report, LAMBDA r : ~failed(r)),
      fail      |-> CountWhere(report, failed),
      sourceNotInTarget |->
        CountWhere(report, LAMBDA r : failed(r) /\ inSource(r) /\ ~inTarget(r)),
      targetNotInSource |->
        CountWhere(report, LAMBDA r : failed(r) /\ ~inSource(r) /\ inTarget(r)),
      inBoth |->
        CountWhere(report, LAMBDA r : failed(r) /\ inSource(r) /\ inTarget(r))]
=============================================================================
