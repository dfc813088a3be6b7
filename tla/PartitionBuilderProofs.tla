----------------------- MODULE PartitionBuilderProofs -----------------------
(***************************************************************************)
(* Proofs about PartitionBuilder: its types, that the partitions cover     *)
(* every key whatever the two engines' orders are, that no key of the      *)
(* source is in two of them, that their sizes differ by one at most, and   *)
(* that the conditions are those the nested functions of the code build.   *)
(***************************************************************************)
EXTENDS PartitionBuilder, ListLemmas

(***************************************************************************)
(* Keys compare column by column.  The lemmas below are about any number   *)
(* of columns, so that they need the first column in which two keys differ. *)
(***************************************************************************)

\* Key columns are numbered from one, and there is one at least (KeyWidthAssumption).
LEMMA ColumnNumbers == Columns \subseteq Nat \ {0} /\ KeyWidth \in Columns
BY KeyWidthAssumption DEF Columns

\* A row key without NULLs and a boundary without NULLs can always be compared: the
\* two conditions of the code are complementary (less_than_value, geq_value).
LEMMA LessOrGeq ==
  ASSUME NEW side \in Sides, NEW k \in PlainKey, NEW v \in PlainKey
  PROVE  less_than_value(side, k, v) \/ geq_value(side, k, v)
<1> DEFINE Differ == {i \in Columns : ~Same(side, k[i], v[i])}
<1>1. CASE Differ = {}
  BY <1>1 DEF geq_value, SameUpTo, Columns
<1>2. CASE Differ # {}
  <2>1. PICK i \in Differ : \A j \in Differ : i <= j
    BY <1>2, LeastNumber, ColumnNumbers
  <2>2. SameUpTo(side, k, v, i - 1)
    BY <2>1, ColumnNumbers DEF SameUpTo, Columns
  <2>3. /\ k[i] \in Values /\ v[i] \in Values
        /\ Rank[side][k[i]] \in Int /\ Rank[side][v[i]] \in Int
    BY RankAssumption DEF PlainKey
  <2>4. Less(side, k[i], v[i]) \/ Less(side, v[i], k[i])
    BY <2>1, <2>3, NullAssumption DEF Less, Same
  <2> QED BY <2>2, <2>4 DEF less_than_value, geq_value
<1> QED BY <1>1, <1>2

\* No row key, with NULLs or without, satisfies both conditions.
LEMMA NotLessAndGeq ==
  ASSUME NEW side \in Sides, NEW k \in AnyKey, NEW v \in PlainKey
  PROVE  ~(less_than_value(side, k, v) /\ geq_value(side, k, v))
<1> SUFFICES ASSUME less_than_value(side, k, v), geq_value(side, k, v) PROVE FALSE
  OBVIOUS
<1>1. PICK i \in Columns : Less(side, k[i], v[i]) /\ SameUpTo(side, k, v, i - 1)
  BY DEF less_than_value
<1>2. \A j \in Columns : Less(side, k[j], v[j]) =>
         ~Same(side, k[j], v[j]) /\ ~Less(side, v[j], k[j])
  BY RankAssumption DEF Less, Same, AnyKey, PlainKey
<1>3. \A j \in Columns : Less(side, v[j], k[j]) => ~Same(side, k[j], v[j])
  BY RankAssumption DEF Less, Same, AnyKey, PlainKey
<1>4. CASE SameUpTo(side, k, v, KeyWidth)
  BY <1>1, <1>2, <1>4, ColumnNumbers DEF SameUpTo, Columns
<1>5. ASSUME NEW j \in Columns, Less(side, v[j], k[j]), SameUpTo(side, k, v, j - 1)
      PROVE  FALSE
  <2>1. CASE j < i
    BY <1>1, <1>3, <1>5, <2>1, ColumnNumbers DEF SameUpTo, Columns
  <2>2. CASE j = i
    BY <1>1, <1>2, <1>5, <2>2
  <2>3. CASE j > i
    BY <1>1, <1>2, <1>5, <2>3, ColumnNumbers DEF SameUpTo, Columns
  <2> QED BY <2>1, <2>2, <2>3, ColumnNumbers
<1> QED BY <1>4, <1>5 DEF geq_value

\* A row before one boundary is before every later boundary (source order).
LEMMA LessIsTransitive ==
  ASSUME NEW k \in AnyKey, NEW v \in PlainKey, NEW w \in PlainKey,
         less_than_value("source", k, v), Before(v, w)
  PROVE  less_than_value("source", k, w)
<1> "source" \in Sides
  BY DEF Sides
<1>1. PICK i \in Columns : Less("source", k[i], v[i]) /\ SameUpTo("source", k, v, i - 1)
  BY DEF less_than_value
<1>2. PICK j \in Columns : CellBefore(v[j], w[j]) /\ \A m \in 1..(j - 1) : v[m] = w[m]
  BY DEF Before
<1>3. Less("source", v[j], w[j])
  BY <1>2, NullAssumption DEF CellBefore, PlainKey
<1>4. CASE i < j
  <2>1. Less("source", k[i], w[i])
    BY <1>1, <1>2, <1>4, ColumnNumbers DEF Columns
  <2>2. SameUpTo("source", k, w, i - 1)
    BY <1>1, <1>2, <1>4, ColumnNumbers DEF SameUpTo, Columns
  <2> QED BY <2>1, <2>2 DEF less_than_value
<1>5. CASE i = j
  <2>1. Less("source", k[i], w[i])
    BY <1>1, <1>3, <1>5, RankAssumption DEF Less, AnyKey, PlainKey
  <2>2. SameUpTo("source", k, w, i - 1)
    BY <1>1, <1>2, <1>5, ColumnNumbers DEF SameUpTo, Columns
  <2> QED BY <2>1, <2>2 DEF less_than_value
<1>6. CASE i > j
  <2>1. Same("source", k[j], v[j])
    BY <1>1, <1>6, ColumnNumbers DEF SameUpTo, Columns
  <2>2. Less("source", k[j], w[j])
    BY <1>3, <2>1, RankAssumption DEF Less, Same, AnyKey, PlainKey
  <2>3. SameUpTo("source", k, w, j - 1)
    BY <1>1, <1>2, <1>6, ColumnNumbers DEF SameUpTo, Columns
  <2> QED BY <2>2, <2>3 DEF less_than_value
<1> QED BY <1>4, <1>5, <1>6, ColumnNumbers

(***************************************************************************)
(* Types.                                                                  *)
(***************************************************************************)

\* A key without NULLs is a key, and every key is one whose columns may be NULL.
LEMMA KeyTypes == PlainKey \subseteq Key /\ Key \subseteq AnyKey
BY DEF PlainKey, Key, AnyKey

\* What ORDER BY returns is a sequence of the rows asked for, in order.
LEMMA OrderedRows ==
  ASSUME NEW rows, IsFiniteSet(rows), NEW s \in Ordered(rows)
  PROVE  /\ s \in Seq(rows)
         /\ Len(s) = Cardinality(rows)
         /\ \A i, j \in 1..Len(s) : i < j => Before(s[i], s[j])
<1>1. Cardinality(rows) \in Nat
  BY FS_CardinalityType
<1>2. s \in [1..Cardinality(rows) -> rows]
  BY DEF Ordered
<1>3. s \in Seq(rows) /\ Len(s) = Cardinality(rows)
  BY <1>1, <1>2
<1> QED BY <1>3 DEF Ordered

\* The first rows of the partitions are some of the rows numbered (FirstRows).
LEMMA FirstRowsFinite ==
  ASSUME NEW rows, IsFiniteSet(rows)
  PROVE  FirstRows(rows) \subseteq rows /\ IsFiniteSet(FirstRows(rows))
BY FS_Subset DEF FirstRows

\* Sequences over a smaller set are sequences over a larger one.
LEMMA WiderSequence ==
  ASSUME NEW S, NEW T, S \subseteq T, NEW f \in Seq(S)
  PROVE  f \in Seq(T)
OBVIOUS

\* A range of keys has two boundaries, each of which may be missing (Between).
LEMMA BetweenType ==
  ASSUME NEW a \in Key \cup {NULL}, NEW b \in Key \cup {NULL}
  PROVE  Between(a, b) \in KeyRange
BY DEF Between, KeyRange

\* Once there are filters to extend, there are at least two boundaries and at least one
\* filter.
FiltersBegun ==
  pc = "middle filters" => Len(first_elements) >= 2 /\ Len(filters) >= 1

\* The state always has the shape the code gives it: counts are natural numbers,
\* every boundary is a key, and the table stays finite.
THEOREM TypeCorrect == Spec => []TypeOK
<1> DEFINE Inv == TypeOK /\ FiltersBegun
<1>1. Init => Inv
  <2>1. <<>> \in Seq(Key) /\ <<>> \in Seq(KeyRange) /\ 0 \in 0..MaxWrites
    BY MaxWritesAssumption
  <2> QED BY <2>1 DEF Init, counts, TypeOK, Places, FiltersBegun
<1>2. Inv /\ [Next]_vars => Inv'
  <2> SUFFICES ASSUME source \subseteq Key, IsFiniteSet(source), writes \in 0..MaxWrites,
                      pc \in Places, source_count \in Nat,
                      number_of_part \in Nat,
                      first_elements \in Seq(Key), filters \in Seq(KeyRange),
                      FiltersBegun, [Next]_vars
               PROVE  TypeOK' /\ FiltersBegun'
    BY DEF counts, TypeOK
  <2>1. CASE WriteSource
    <3>1. PICK k \in Key : source' = source \cup {k} \/ source' = source \ {k}
      BY <2>1 DEF WriteSource
    <3>2. IsFiniteSet(source \cup {k}) /\ IsFiniteSet(source \ {k})
      BY FS_AddElement, FS_RemoveElement
    <3>3. source' \subseteq Key
      BY <3>1
    <3>4. IsFiniteSet(source')
      BY <3>1, <3>2
    <3>5. writes < MaxWrites /\ writes' = writes + 1
      BY <2>1 DEF WriteSource
    <3>6. writes' \in 0..MaxWrites
      BY <3>5, MaxWritesAssumption
    <3>7. UNCHANGED <<pc, counts, first_elements, filters>>
      BY <2>1 DEF WriteSource
    <3> QED BY <3>3, <3>4, <3>6, <3>7 DEF counts, TypeOK, FiltersBegun
  <2>2. CASE CountRows
    <3>1. Cardinality(source) \in Nat
      BY FS_CardinalityType
    <3>2. source_count' \in Nat /\ number_of_part' \in Nat
      BY <2>2, <3>1, PartitionNumAssumption DEF CountRows
    <3>3. pc' = "first rows" /\ UNCHANGED <<source, writes, first_elements, filters>>
      BY <2>2 DEF CountRows
    <3> QED BY <3>2, <3>3 DEF counts, TypeOK, Places, FiltersBegun
  <2>3. CASE QueryFirstElements
    <3>1. FirstRows(source) \subseteq Key /\ IsFiniteSet(FirstRows(source))
      BY FirstRowsFinite
    <3>2. first_elements' \in Ordered(FirstRows(source))
      BY <2>3 DEF QueryFirstElements
    <3>3. first_elements' \in Seq(FirstRows(source))
      BY <3>1, <3>2, OrderedRows
    <3>4. first_elements' \in Seq(Key)
      BY <3>1, <3>3, WiderSequence
    <3>5. /\ pc' = "first filter"
          /\ UNCHANGED <<source, writes, counts, filters>>
      BY <2>3 DEF QueryFirstElements
    <3> QED BY <3>4, <3>5 DEF counts, TypeOK, Places, FiltersBegun
  <2>4. CASE FirstFilterRaises
    BY <2>4 DEF FirstFilterRaises, counts, TypeOK, Places, FiltersBegun
  <2>5. CASE FirstFilter
    <3>1. Len(first_elements) >= 2
      BY <2>5 DEF FirstFilter
    <3>2. first_elements[2] \in Key
      BY <3>1
    <3>3. Between(NULL, first_elements[2]) \in KeyRange
      BY <3>2, BetweenType
    <3>4. filters' = <<Between(NULL, first_elements[2])>>
      BY <2>5 DEF FirstFilter
    <3>5. filters' \in Seq(KeyRange) /\ Len(filters') = 1
      BY <3>3, <3>4
    <3>6. Len(filters') = 1
      BY <3>5
    <3>7. first_elements' = first_elements
      BY <2>5 DEF FirstFilter
    <3>8. Len(first_elements') >= 2
      BY <3>1, <3>7
    <3>12. Len(filters') >= 1
      BY <3>6
    <3>9. FiltersBegun'
      BY <3>8, <3>12 DEF FiltersBegun
    <3>10. pc' = "middle filters" /\ UNCHANGED <<source, writes, counts>>
      BY <2>5 DEF FirstFilter
    <3>11. TypeOK'
      BY <3>5, <3>7, <3>10 DEF counts, TypeOK, Places
    <3> QED BY <3>9, <3>11
  <2>6. CASE MiddleFilter
    <3> DEFINE range == Between(first_elements[Len(filters) + 1],
                                first_elements[Len(filters) + 2])
    <3>1. Len(filters) < Len(first_elements) - 1
      BY <2>6 DEF MiddleFilter
    <3>2. /\ first_elements[Len(filters) + 1] \in Key
          /\ first_elements[Len(filters) + 2] \in Key
      BY <3>1
    <3>3. range \in KeyRange
      BY <3>2, BetweenType
    <3>4. filters' = Append(filters, range)
      BY <2>6 DEF MiddleFilter
    <3> HIDE DEF range
    <3>5. filters' \in Seq(KeyRange) /\ Len(filters') = Len(filters) + 1
      BY <3>3, <3>4
    <3>6. /\ pc = "middle filters"
          /\ UNCHANGED <<source, writes, pc, counts, first_elements>>
      BY <2>6 DEF MiddleFilter
    <3>7. Len(filters') >= 1
      BY <3>5
    <3>8. filters' \in Seq(KeyRange)
      BY <3>5
    <3>9. FiltersBegun'
      BY <3>6, <3>7 DEF FiltersBegun
    <3>10. TypeOK'
      BY <3>6, <3>8 DEF counts, TypeOK
    <3> QED BY <3>9, <3>10
  <2>7. CASE LastFilter
    <3> DEFINE range == Between(first_elements[Len(first_elements)], NULL)
    <3>1. Len(first_elements) >= 2
      BY <2>7 DEF LastFilter, FiltersBegun
    <3>2. first_elements[Len(first_elements)] \in Key
      BY <3>1
    <3>3. range \in KeyRange
      BY <3>2, BetweenType
    <3>4. filters' = Append(filters, range)
      BY <2>7 DEF LastFilter
    <3> HIDE DEF range
    <3>5. filters' \in Seq(KeyRange)
      BY <3>3, <3>4
    <3>6. /\ pc' = "done"
          /\ UNCHANGED <<source, writes, counts, first_elements>>
      BY <2>7 DEF LastFilter
    <3>7. FiltersBegun'
      BY <3>6 DEF FiltersBegun
    <3> QED BY <3>5, <3>6, <3>7 DEF counts, TypeOK, Places
  <2>8. CASE Terminated
    BY <2>8 DEF Terminated, vars, counts, TypeOK, FiltersBegun
  <2>9. CASE UNCHANGED vars
    BY <2>9 DEF vars, counts, TypeOK, FiltersBegun
  <2> QED BY <2>1, <2>2, <2>3, <2>4, <2>5, <2>6, <2>7, <2>8, <2>9 DEF Next
<1>3. Inv => TypeOK
  OBVIOUS
<1> QED BY <1>1, <1>2, <1>3, PTL DEF Spec

(***************************************************************************)
(* Coverage.  While the filters are being made, the ones made so far cover *)
(* every plain key that is below the boundary the next filter starts at.   *)
(* This needs no order on the keys: the conditions on the two sides of a   *)
(* boundary are complementary, so a key escapes neither.                   *)
(***************************************************************************)

CoveredBy(fs, side, k) == \E p \in 1..Len(fs) : Selects(side, fs[p], k)

\* The boundaries from the second on are plain keys or the claim is void; the bound
\* is the one the next filter will start at.
CoveredSoFar ==
  /\ pc = "middle filters" =>
       /\ Len(filters) \in 1..(Len(first_elements) - 1)
       /\ PlainBoundaries =>
            \A side \in Sides : \A k \in PlainKey :
              less_than_value(side, k, first_elements[Len(filters) + 1])
                => CoveredBy(filters, side, k)
  /\ pc = "done" /\ PlainBoundaries =>
       \A side \in Sides : \A k \in PlainKey : CoveredBy(filters, side, k)

\* What is covered stays covered when a filter is appended.
LEMMA StillCovered ==
  ASSUME NEW fs \in Seq(KeyRange), NEW r \in KeyRange, NEW side, NEW k,
         CoveredBy(fs, side, k)
  PROVE  CoveredBy(Append(fs, r), side, k)
<1>1. PICK p \in 1..Len(fs) : Selects(side, fs[p], k)
  BY DEF CoveredBy
<1>2. p \in 1..Len(Append(fs, r)) /\ Append(fs, r)[p] = fs[p]
  OBVIOUS
<1> QED BY <1>1, <1>2 DEF CoveredBy

\* A key the new filter selects is covered.
LEMMA NewlyCovered ==
  ASSUME NEW fs \in Seq(KeyRange), NEW r \in KeyRange, NEW side, NEW k,
         Selects(side, r, k)
  PROVE  CoveredBy(Append(fs, r), side, k)
<1>1. /\ Len(fs) + 1 \in 1..Len(Append(fs, r))
      /\ Append(fs, r)[Len(fs) + 1] = r
  OBVIOUS
<1> QED BY <1>1 DEF CoveredBy

\* A plain key is none of NULL, so a bound that is one is a bound in use.
LEMMA SelectsBetween ==
  ASSUME NEW side, NEW k, NEW a \in PlainKey, NEW b \in PlainKey
  PROVE  /\ Selects(side, Between(NULL, b), k) <=> less_than_value(side, k, b)
         /\ Selects(side, Between(a, NULL), k) <=> geq_value(side, k, a)
         /\ Selects(side, Between(a, b), k) <=>
              geq_value(side, k, a) /\ less_than_value(side, k, b)
<1>1. a # NULL /\ b # NULL
  BY NullAssumption DEF PlainKey, AnyKey
<1> QED BY <1>1 DEF Selects, Between

\* The properties of a state speak of these three variables; a step that leaves
\* them alone keeps CoveredSoFar.
LEMMA CoveredSoFarStutters ==
  ASSUME CoveredSoFar, UNCHANGED <<pc, first_elements, filters>>
  PROVE  CoveredSoFar'
BY DEF CoveredSoFar, PlainBoundaries, CoveredBy, Selects

\* Each step leaves no key uncovered below the upper bound of the last filter.
LEMMA CoveredSoFarInductive ==
  ASSUME first_elements \in Seq(Key), filters \in Seq(KeyRange), CoveredSoFar, [Next]_vars
  PROVE  CoveredSoFar'
<1>1. CASE WriteSource
  <2>1. UNCHANGED <<pc, first_elements, filters>>
    BY <1>1 DEF WriteSource
  <2> QED BY <2>1, CoveredSoFarStutters
<1>2. CASE CountRows \/ QueryFirstElements \/ FirstFilterRaises
  <2>1. pc' # "middle filters" /\ pc' # "done"
    BY <1>2 DEF CountRows, QueryFirstElements, FirstFilterRaises
  <2> QED BY <2>1 DEF CoveredSoFar
<1>3. CASE FirstFilter
  <2> DEFINE b == first_elements[2]
             range == Between(NULL, b)
  <2>1. pc' = "middle filters"
    BY <1>3 DEF FirstFilter
  <2>2. first_elements' = first_elements
    BY <1>3 DEF FirstFilter
  <2>3. Len(first_elements) >= 2
    BY <1>3 DEF FirstFilter
  <2>4. filters' = <<range>>
    BY <1>3 DEF FirstFilter
  <2>5. Len(filters') = 1
    BY <2>4
  <2>6. filters'[1] = range
    BY <2>4
  <2>7. ASSUME PlainBoundaries, NEW side \in Sides, NEW k \in PlainKey,
               less_than_value(side, k, b)
        PROVE  CoveredBy(filters', side, k)
    <3>1. 2 \in 2..Len(first_elements)
      BY <2>3
    <3>2. b \in PlainKey
      BY <2>7, <3>1 DEF PlainBoundaries
    <3>3. Selects(side, range, k)
      BY <2>7, <3>2, SelectsBetween
    <3> QED BY <2>5, <2>6, <3>3 DEF CoveredBy
  <2>8. Len(filters') \in 1..(Len(first_elements) - 1)
    BY <2>3, <2>5
  <2>9. PlainBoundaries' <=> PlainBoundaries
    BY <2>2 DEF PlainBoundaries
  <2>10. first_elements[Len(filters') + 1] = b
    BY <2>5
  <2> HIDE DEF range, b
  <2> QED BY <2>1, <2>2, <2>7, <2>8, <2>9, <2>10 DEF CoveredSoFar
<1>4. CASE MiddleFilter
  <2> DEFINE n == Len(filters)
             a == first_elements[n + 1]
             b == first_elements[n + 2]
             range == Between(a, b)
  <2>1. pc = "middle filters" /\ pc' = "middle filters"
    BY <1>4 DEF MiddleFilter
  <2>2. first_elements' = first_elements
    BY <1>4 DEF MiddleFilter
  <2>3. filters' = Append(filters, range)
    BY <1>4 DEF MiddleFilter
  <2>4. n < Len(first_elements) - 1
    BY <1>4 DEF MiddleFilter
  <2>5. n \in 1..(Len(first_elements) - 1)
    BY <2>1 DEF CoveredSoFar
  <2>6. a \in Key /\ b \in Key
    BY <2>4, <2>5
  <2>7. range \in KeyRange
    BY <2>6, BetweenType
  <2>8. ASSUME PlainBoundaries, NEW side \in Sides, NEW k \in PlainKey,
               less_than_value(side, k, b)
        PROVE  CoveredBy(filters', side, k)
    <3>1. n + 1 \in 2..Len(first_elements) /\ n + 2 \in 2..Len(first_elements)
      BY <2>4, <2>5
    <3>2. a \in PlainKey /\ b \in PlainKey
      BY <2>8, <3>1 DEF PlainBoundaries
    <3>3. CASE less_than_value(side, k, a)
      <4>1. CoveredBy(filters, side, k)
        BY <2>1, <2>8, <3>3 DEF CoveredSoFar
      <4> QED BY <2>3, <2>7, <4>1, StillCovered
    <3>4. CASE geq_value(side, k, a)
      <4>1. Selects(side, range, k)
        BY <2>8, <3>2, <3>4, SelectsBetween
      <4> QED BY <2>3, <2>7, <4>1, NewlyCovered
    <3> QED BY <3>2, <3>3, <3>4, LessOrGeq
  <2> HIDE DEF range
  <2>9. Len(filters') = n + 1
    BY <2>3, <2>7
  <2>10. Len(filters') \in 1..(Len(first_elements) - 1)
    BY <2>4, <2>5, <2>9
  <2>11. PlainBoundaries' <=> PlainBoundaries
    BY <2>2 DEF PlainBoundaries
  <2>12. first_elements[Len(filters') + 1] = b
    BY <2>9
  <2> HIDE DEF n, a, b
  <2> QED BY <2>1, <2>2, <2>8, <2>10, <2>11, <2>12 DEF CoveredSoFar
<1>5. CASE LastFilter
  <2> DEFINE n == Len(filters)
             a == first_elements[Len(first_elements)]
             range == Between(a, NULL)
  <2>1. pc = "middle filters" /\ pc' = "done"
    BY <1>5 DEF LastFilter
  <2>2. first_elements' = first_elements
    BY <1>5 DEF LastFilter
  <2>3. filters' = Append(filters, range)
    BY <1>5 DEF LastFilter
  <2>4. n = Len(first_elements) - 1
    BY <1>5 DEF LastFilter
  <2>5. n \in 1..(Len(first_elements) - 1)
    BY <2>1 DEF CoveredSoFar
  <2>6. Len(first_elements) \in 2..Len(first_elements)
    BY <2>4, <2>5
  <2>7. a \in Key
    BY <2>6
  <2>8. range \in KeyRange
    BY <2>7, BetweenType
  <2>9. first_elements[n + 1] = a
    BY <2>4
  <2>10. ASSUME PlainBoundaries, NEW side \in Sides, NEW k \in PlainKey
         PROVE  CoveredBy(filters', side, k)
    <3>1. a \in PlainKey
      BY <2>6, <2>10 DEF PlainBoundaries
    <3>2. CASE less_than_value(side, k, a)
      <4>1. CoveredBy(filters, side, k)
        BY <2>1, <2>9, <2>10, <3>2 DEF CoveredSoFar
      <4> QED BY <2>3, <2>8, <4>1, StillCovered
    <3>3. CASE geq_value(side, k, a)
      <4>1. Selects(side, range, k)
        BY <3>1, <3>3, SelectsBetween
      <4> QED BY <2>3, <2>8, <4>1, NewlyCovered
    <3> QED BY <3>1, <3>2, <3>3, LessOrGeq
  <2>11. PlainBoundaries' <=> PlainBoundaries
    BY <2>2 DEF PlainBoundaries
  <2> HIDE DEF n, a, range
  <2> QED BY <2>1, <2>10, <2>11 DEF CoveredSoFar
<1>6. CASE Terminated \/ UNCHANGED vars
  <2>1. UNCHANGED <<pc, first_elements, filters>>
    BY <1>6 DEF Terminated, vars
  <2> QED BY <2>1, CoveredSoFarStutters
<1> QED BY <1>1, <1>2, <1>3, <1>4, <1>5, <1>6 DEF Next

\* The partitions of a finished run contain every key without NULLs, whatever the
\* source held, whoever wrote to it meanwhile and however either engine sorts.
THEOREM Covered == Spec => []RowsAreCovered
<1>1. Init => CoveredSoFar
  BY DEF Init, CoveredSoFar
<1>2. TypeOK /\ CoveredSoFar /\ [Next]_vars => CoveredSoFar'
  BY CoveredSoFarInductive DEF TypeOK
<1>3. CoveredSoFar => RowsAreCovered
  BY DEF CoveredSoFar, RowsAreCovered, CoveredBy
<1> QED BY <1>1, <1>2, <1>3, TypeCorrect, PTL DEF Spec

(***************************************************************************)
(* No overlap.  The boundaries are in source order, so a key that is not   *)
(* below the next boundary is above every filter made so far.              *)
(***************************************************************************)

Sorted(fe) == \A i, j \in 1..Len(fe) : i < j => Before(fe[i], fe[j])

SelectedBy(fs, k) == {p \in 1..Len(fs) : Selects("source", fs[p], k)}

AtMostOne(fs, k) == \A p, q \in SelectedBy(fs, k) : p = q

\* While filters are being made, no key is in two of them, and a key that one of them
\* selects is below the boundary the next one will start at.
DistinctSoFar ==
  /\ pc \in {"first filter", "middle filters"} => Sorted(first_elements)
  /\ pc = "middle filters" =>
       /\ Len(filters) \in 1..(Len(first_elements) - 1)
       /\ PlainBoundaries =>
            \A k \in Key :
              /\ AtMostOne(filters, k)
              /\ SelectedBy(filters, k) # {} =>
                   less_than_value("source", k, first_elements[Len(filters) + 1])
  /\ pc = "done" /\ PlainBoundaries => \A k \in Key : AtMostOne(filters, k)

\* One more filter selects the keys it did before and those of the new range.
LEMMA SelectedByAppend ==
  ASSUME NEW fs \in Seq(KeyRange), NEW r \in KeyRange, NEW k
  PROVE  SelectedBy(Append(fs, r), k) =
           SelectedBy(fs, k) \cup (IF Selects("source", r, k) THEN {Len(fs) + 1} ELSE {})
<1>1. Len(Append(fs, r)) = Len(fs) + 1
  OBVIOUS
<1>2. Append(fs, r)[Len(fs) + 1] = r
  OBVIOUS
<1>3. \A p \in 1..Len(fs) : Append(fs, r)[p] = fs[p]
  OBVIOUS
<1>4. 1..(Len(fs) + 1) = 1..Len(fs) \cup {Len(fs) + 1}
  OBVIOUS
<1> QED BY <1>1, <1>2, <1>3, <1>4 DEF SelectedBy

\* Steps that leave the first rows and the filters alone leave their order alone.
LEMMA DistinctSoFarStutters ==
  ASSUME DistinctSoFar, UNCHANGED <<pc, first_elements, filters>>
  PROVE  DistinctSoFar'
<1>1. PlainBoundaries' <=> PlainBoundaries
  BY DEF PlainBoundaries
<1> QED BY <1>1 DEF DistinctSoFar

\* Each filter begins where the one before it ends (DistinctSoFar).
LEMMA DistinctSoFarInductive ==
  ASSUME source \subseteq Key, IsFiniteSet(source),
         first_elements \in Seq(Key), filters \in Seq(KeyRange),
         DistinctSoFar, [Next]_vars
  PROVE  DistinctSoFar'
<1>1. CASE WriteSource
  <2>1. UNCHANGED <<pc, first_elements, filters>>
    BY <1>1 DEF WriteSource
  <2> QED BY <2>1, DistinctSoFarStutters
<1>2. CASE CountRows \/ FirstFilterRaises
  <2>1. pc' \notin {"first filter", "middle filters", "done"}
    BY <1>2 DEF CountRows, FirstFilterRaises
  <2> QED BY <2>1 DEF DistinctSoFar
<1>3. CASE QueryFirstElements
  <2>1. first_elements' \in Ordered(FirstRows(source)) /\ pc' = "first filter"
    BY <1>3 DEF QueryFirstElements
  <2>2. IsFiniteSet(FirstRows(source))
    BY FirstRowsFinite
  <2>3. Sorted(first_elements')
    BY <2>1, <2>2, OrderedRows DEF Sorted
  <2> QED BY <2>1, <2>3 DEF DistinctSoFar, Sorted
<1>4. CASE FirstFilter
  <2> DEFINE b == first_elements[2]
             range == Between(NULL, b)
  <2>1. pc = "first filter" /\ pc' = "middle filters"
    BY <1>4 DEF FirstFilter
  <2>2. first_elements' = first_elements
    BY <1>4 DEF FirstFilter
  <2>3. Len(first_elements) >= 2
    BY <1>4 DEF FirstFilter
  <2>4. filters' = <<range>>
    BY <1>4 DEF FirstFilter
  <2>5. Len(filters') = 1
    BY <2>4
  <2>6. filters'[1] = range
    BY <2>4
  <2>7. ASSUME PlainBoundaries, NEW k \in Key
        PROVE  /\ AtMostOne(filters', k)
               /\ SelectedBy(filters', k) # {} => less_than_value("source", k, b)
    <3>1. 2 \in 2..Len(first_elements)
      BY <2>3
    <3>2. b \in PlainKey
      BY <2>7, <3>1 DEF PlainBoundaries
    <3>3. \A p \in SelectedBy(filters', k) : p = 1 /\ Selects("source", range, k)
      BY <2>5, <2>6 DEF SelectedBy
    <3> QED BY <3>2, <3>3, SelectsBetween DEF AtMostOne
  <2>8. Len(filters') \in 1..(Len(first_elements) - 1)
    BY <2>3, <2>5
  <2>9. PlainBoundaries' <=> PlainBoundaries
    BY <2>2 DEF PlainBoundaries
  <2>10. first_elements[Len(filters') + 1] = b
    BY <2>5
  <2>11. Sorted(first_elements)
    BY <2>1 DEF DistinctSoFar
  <2> HIDE DEF range, b
  <2> QED BY <2>1, <2>2, <2>7, <2>8, <2>9, <2>10, <2>11 DEF DistinctSoFar
<1>5. CASE MiddleFilter
  <2> DEFINE n == Len(filters)
             a == first_elements[n + 1]
             b == first_elements[n + 2]
             range == Between(a, b)
  <2>1. pc = "middle filters" /\ pc' = "middle filters"
    BY <1>5 DEF MiddleFilter
  <2>2. first_elements' = first_elements
    BY <1>5 DEF MiddleFilter
  <2>3. filters' = Append(filters, range)
    BY <1>5 DEF MiddleFilter
  <2>4. n < Len(first_elements) - 1
    BY <1>5 DEF MiddleFilter
  <2>5. n \in 1..(Len(first_elements) - 1)
    BY <2>1 DEF DistinctSoFar
  <2>6. a \in Key /\ b \in Key
    BY <2>4, <2>5
  <2>7. range \in KeyRange
    BY <2>6, BetweenType
  <2>8. Sorted(first_elements)
    BY <2>1 DEF DistinctSoFar
  <2>9. Before(a, b)
    BY <2>4, <2>5, <2>8 DEF Sorted
  <2>10. ASSUME PlainBoundaries, NEW k \in Key
         PROVE  /\ AtMostOne(filters', k)
                /\ SelectedBy(filters', k) # {} => less_than_value("source", k, b)
    <3>1. n + 1 \in 2..Len(first_elements) /\ n + 2 \in 2..Len(first_elements)
      BY <2>4, <2>5
    <3>2. a \in PlainKey /\ b \in PlainKey
      BY <2>10, <3>1 DEF PlainBoundaries
    <3>3. k \in AnyKey /\ "source" \in Sides
      BY KeyTypes DEF Sides
    <3>4. /\ AtMostOne(filters, k)
          /\ SelectedBy(filters, k) # {} => less_than_value("source", k, a)
      BY <2>1, <2>10 DEF DistinctSoFar
    <3>5. Selects("source", range, k) <=>
            geq_value("source", k, a) /\ less_than_value("source", k, b)
      BY <3>2, SelectsBetween
    <3>6. SelectedBy(filters', k) =
            SelectedBy(filters, k)
              \cup (IF Selects("source", range, k) THEN {n + 1} ELSE {})
      BY <2>3, <2>7, SelectedByAppend
    <3>7. CASE SelectedBy(filters, k) = {}
      BY <3>5, <3>6, <3>7 DEF AtMostOne
    <3>8. CASE SelectedBy(filters, k) # {}
      <4>1. less_than_value("source", k, a)
        BY <3>4, <3>8
      <4>2. ~Selects("source", range, k)
        BY <3>2, <3>3, <3>5, <4>1, NotLessAndGeq
      <4>3. less_than_value("source", k, b)
        BY <2>9, <3>2, <3>3, <4>1, LessIsTransitive
      <4>4. SelectedBy(filters', k) = SelectedBy(filters, k)
        BY <3>6, <4>2
      <4> QED BY <3>4, <4>3, <4>4 DEF AtMostOne
    <3> QED BY <3>7, <3>8
  <2> HIDE DEF range
  <2>11. Len(filters') = n + 1
    BY <2>3, <2>7
  <2>12. Len(filters') \in 1..(Len(first_elements) - 1)
    BY <2>4, <2>5, <2>11
  <2>13. PlainBoundaries' <=> PlainBoundaries
    BY <2>2 DEF PlainBoundaries
  <2>14. first_elements[Len(filters') + 1] = b
    BY <2>11
  <2> HIDE DEF n, a, b
  <2> QED BY <2>1, <2>2, <2>8, <2>10, <2>12, <2>13, <2>14 DEF DistinctSoFar
<1>6. CASE LastFilter
  <2> DEFINE n == Len(filters)
             a == first_elements[Len(first_elements)]
             range == Between(a, NULL)
  <2>1. pc = "middle filters" /\ pc' = "done"
    BY <1>6 DEF LastFilter
  <2>2. first_elements' = first_elements
    BY <1>6 DEF LastFilter
  <2>3. filters' = Append(filters, range)
    BY <1>6 DEF LastFilter
  <2>4. n = Len(first_elements) - 1
    BY <1>6 DEF LastFilter
  <2>5. n \in 1..(Len(first_elements) - 1)
    BY <2>1 DEF DistinctSoFar
  <2>6. Len(first_elements) \in 2..Len(first_elements)
    BY <2>4, <2>5
  <2>7. a \in Key
    BY <2>6
  <2>8. range \in KeyRange
    BY <2>7, BetweenType
  <2>9. first_elements[n + 1] = a
    BY <2>4
  <2>10. ASSUME PlainBoundaries, NEW k \in Key
         PROVE  AtMostOne(filters', k)
    <3>1. a \in PlainKey
      BY <2>6, <2>10 DEF PlainBoundaries
    <3>2. k \in AnyKey /\ "source" \in Sides
      BY KeyTypes DEF Sides
    <3>3. /\ AtMostOne(filters, k)
          /\ SelectedBy(filters, k) # {} => less_than_value("source", k, a)
      BY <2>1, <2>9, <2>10 DEF DistinctSoFar
    <3>4. Selects("source", range, k) <=> geq_value("source", k, a)
      BY <3>1, SelectsBetween
    <3>5. SelectedBy(filters', k) =
            SelectedBy(filters, k)
              \cup (IF Selects("source", range, k) THEN {n + 1} ELSE {})
      BY <2>3, <2>8, SelectedByAppend
    <3>6. CASE SelectedBy(filters, k) = {}
      BY <3>5, <3>6 DEF AtMostOne
    <3>7. CASE SelectedBy(filters, k) # {}
      <4>1. ~Selects("source", range, k)
        BY <3>1, <3>2, <3>3, <3>4, <3>7, NotLessAndGeq
      <4>2. SelectedBy(filters', k) = SelectedBy(filters, k)
        BY <3>5, <4>1
      <4> QED BY <3>3, <4>2 DEF AtMostOne
    <3> QED BY <3>6, <3>7
  <2>11. PlainBoundaries' <=> PlainBoundaries
    BY <2>2 DEF PlainBoundaries
  <2> HIDE DEF n, a, range
  <2> QED BY <2>1, <2>10, <2>11 DEF DistinctSoFar
<1>7. CASE Terminated \/ UNCHANGED vars
  <2>1. UNCHANGED <<pc, first_elements, filters>>
    BY <1>7 DEF Terminated, vars
  <2> QED BY <2>1, DistinctSoFarStutters
<1> QED BY <1>1, <1>2, <1>3, <1>4, <1>5, <1>6, <1>7 DEF Next

\* No key of the source, with or without NULLs, is in two partitions of a finished
\* run, whoever wrote to the table meanwhile.
THEOREM Distinct == Spec => []PartitionsAreDistinct
<1>1. Init => DistinctSoFar
  BY DEF Init, DistinctSoFar
<1>2. TypeOK /\ DistinctSoFar /\ [Next]_vars => DistinctSoFar'
  BY DistinctSoFarInductive DEF TypeOK
<1>3. DistinctSoFar => PartitionsAreDistinct
  BY DEF DistinctSoFar, PartitionsAreDistinct, NoKeyTwice, AtMostOne, SelectedBy
<1> QED BY <1>1, <1>2, <1>3, TypeCorrect, PTL DEF Spec

(***************************************************************************)
(* Sizes.  The rows of the source have the numbers from 1 to source_count, *)
(* and those that start a partition are spread over them evenly.           *)
(***************************************************************************)

\* The row number that partition q of n starts at, counting partitions from zero.
StartOf(q, n, count) == (q * count) \div n + 1

\* What division gives for every dividend (Division, for a divisor that is known).
LEMMA Quotients ==
  ASSUME NEW m \in Nat \ {0}
  PROVE  \A x \in Nat : x \div m \in Nat /\ (x \div m) * m <= x /\ x < (x \div m) * m + m
BY Division

\* The smaller of two products by one number has the smaller factor.
LEMMA SmallerFactor ==
  ASSUME NEW m \in Nat \ {0}, NEW a \in Int, NEW b \in Int, a * m < b * m
  PROVE  a < b
<1> SUFFICES ASSUME b <= a PROVE FALSE
  OBVIOUS
<1>1. b * m <= a * m
  OBVIOUS
<1> QED BY <1>1

\* A quotient is the number of times a divisor goes into a number (StartsPartition).
LEMMA QuotientIs ==
  ASSUME NEW m \in Nat \ {0}, NEW x \in Nat, NEW q \in Nat, q * m <= x, x < q * m + m
  PROVE  x \div m = q
<1> DEFINE d == x \div m
<1>1. d \in Nat /\ d * m <= x /\ x < d * m + m
  BY Quotients
<1> HIDE DEF d
<1>2. q * m < (d + 1) * m /\ d * m < (q + 1) * m
  <2>1. (d + 1) * m = d * m + m /\ (q + 1) * m = q * m + m
    BY <1>1
  <2>2. d * m \in Nat /\ q * m \in Nat
    BY <1>1
  <2> QED BY <1>1, <2>1, <2>2
<1>3. q < d + 1
  BY <1>1, <1>2, SmallerFactor
<1>4. d < q + 1
  BY <1>1, <1>2, SmallerFactor
<1>5. d = q
  BY <1>1, <1>3, <1>4
<1> QED BY <1>5 DEF d

\* The condition of the code on a row number says that it is the start of a partition.
LEMMA StartsAre ==
  ASSUME NEW n \in Nat \ {0}, NEW c \in Nat, n <= c, NEW r \in 1..c
  PROVE  StartsPartition(r, n, c) <=> \E q \in 0..(n - 1) : r = StartOf(q, n, c)
<1>1. CASE c = n
  <2>1. \A q \in Nat : (q * n) \div n = q
    <3>1. ASSUME NEW q \in Nat PROVE (q * n + 0) \div n = q
      BY Quotient
    <3>2. \A q \in Nat : q * n + 0 = q * n
      OBVIOUS
    <3> QED BY <3>1, <3>2
  <2>2. r - 1 \in 0..(n - 1) /\ r = StartOf(r - 1, n, c)
    BY <1>1, <2>1 DEF StartOf
  <2> QED BY <1>1, <2>2 DEF StartsPartition
<1>2. CASE n < c
  <2> DEFINE m == (r * n) \div c
             rest == r * n - m * c
  <2>1. r * n \in Nat /\ (r - 1) * n = r * n - n /\ (r - 1) * n \in Nat /\ r * n <= c * n
    OBVIOUS
  <2>2. m \in Nat /\ m * c <= r * n /\ r * n < m * c + c
    BY <1>2, <2>1, Quotients
  <2>3. StartsPartition(r, n, c) <=> rest > 0 /\ rest <= n
    BY <1>2 DEF StartsPartition
  <2> HIDE DEF m
  <2>4. m * c \in Nat
    BY <2>2
  <2>5. ASSUME rest > 0, rest <= n PROVE \E q \in 0..(n - 1) : r = StartOf(q, n, c)
    <3>1. (r - 1) * n <= m * c /\ m * c < (r - 1) * n + n
      BY <2>1, <2>4, <2>5
    <3>2. (m * c) \div n = r - 1
      <4> DEFINE x == m * c
      <4> HIDE DEF x
      <4>1. x \in Nat /\ r - 1 \in Nat /\ (r - 1) * n <= x /\ x < (r - 1) * n + n
        BY <2>4, <3>1 DEF x
      <4>2. x \div n = r - 1
        BY <4>1, QuotientIs
      <4> QED BY <4>2 DEF x
    <3>3. m * c < n * c
      <4>1. n * c = c * n
        OBVIOUS
      <4> QED BY <2>1, <2>4, <2>5, <4>1
    <3>4. m < n
      BY <1>2, <2>2, <3>3, SmallerFactor
    <3> QED BY <2>2, <3>2, <3>4 DEF StartOf
  <2>6. ASSUME NEW q \in 0..(n - 1), r = StartOf(q, n, c) PROVE rest > 0 /\ rest <= n
    <3> DEFINE x == q * c
               y == x \div n
    <3>1. x \in Nat
      OBVIOUS
    <3>2. r = y + 1
      BY <2>6 DEF StartOf
    <3> HIDE DEF x
    <3>3. y \in Nat /\ y * n <= x /\ x < y * n + n
      BY <3>1, Quotients
    <3> HIDE DEF y
    <3>4. y = r - 1
      BY <3>2, <3>3
    <3>5. x <= r * n /\ r * n < x + c
      BY <1>2, <2>1, <3>1, <3>3, <3>4
    <3>6. m = q
      <4> DEFINE z == r * n
      <4> HIDE DEF z
      <4>1. z \in Nat /\ q * c <= z /\ z < q * c + c
        BY <2>1, <3>5 DEF x, z
      <4>2. z \div c = q
        BY <1>2, <4>1, QuotientIs
      <4> QED BY <4>2 DEF m, z
    <3>7. x < r * n
      BY <2>1, <3>1, <3>3, <3>4
    <3>8. r * n - x <= n
      BY <2>1, <3>1, <3>3, <3>4
    <3> QED BY <2>1, <3>1, <3>6, <3>7, <3>8 DEF x
  <2> QED BY <2>3, <2>5, <2>6
<1> QED BY <1>1, <1>2

\* The first partition starts at row 1 and the one after the last past the last row; each has
\* as many rows as the others or one more, and one at least.
LEMMA EvenStarts ==
  ASSUME NEW n \in Nat \ {0}, NEW c \in Nat, n <= c
  PROVE  /\ StartOf(0, n, c) = 1 /\ StartOf(n, n, c) = c + 1
         /\ \A q \in Nat : StartOf(q, n, c) \in Nat \ {0}
         /\ \A p, q \in Nat : p < q => StartOf(p, n, c) < StartOf(q, n, c)
         /\ \A q \in Nat : StartOf(q + 1, n, c) - StartOf(q, n, c) \in {c \div n, c \div n + 1}
<1> DEFINE x(q) == q * c
           d(q) == x(q) \div n
           w == c \div n
<1>1. \A q \in Nat : x(q) \in Nat /\ x(q + 1) = x(q) + c
  OBVIOUS
<1>2. \A p, q \in Nat : p < q => x(p) + c <= x(q)
  <2>1. ASSUME NEW p \in Nat, NEW q \in Nat, p < q PROVE p * c + c <= q * c
    <3>1. p + 1 <= q
      BY <2>1
    <3>2. (p + 1) * c <= q * c
      BY <3>1
    <3>3. (p + 1) * c = p * c + c
      OBVIOUS
    <3> QED BY <3>2, <3>3
  <2> QED BY <2>1
<1>3. x(0) = 0 /\ x(n) = c * n
  OBVIOUS
<1>4. \A q \in Nat : StartOf(q, n, c) = d(q) + 1
  BY DEF StartOf
<1> HIDE DEF x
<1>5. \A q \in Nat : d(q) \in Nat /\ d(q) * n <= x(q) /\ x(q) < d(q) * n + n
  BY <1>1, Quotients
<1>6. w \in Nat /\ w * n <= c /\ c < w * n + n
  BY Quotients
<1>7. d(0) = 0 /\ d(n) = c
  <2>1. 0 \div n = 0
    BY QuotientIs
  <2>2. (c * n) \div n = c
    <3>1. (c * n + 0) \div n = c
      BY Quotient
    <3>2. c * n + 0 = c * n
      OBVIOUS
    <3> QED BY <3>1, <3>2
  <2> QED BY <1>3, <2>1, <2>2
<1> HIDE DEF d, w
<1>8. ASSUME NEW p \in Nat, NEW q \in Nat, p < q PROVE d(p) < d(q)
  <2> DEFINE a == d(p)
             b == d(q)
  <2>1. a \in Nat /\ b \in Nat /\ a * n <= x(p) /\ x(q) < b * n + n /\ x(p) + n <= x(q)
    <3>1. x(p) + c <= x(q) /\ x(p) \in Nat /\ x(q) \in Nat
      BY <1>1, <1>2, <1>8
    <3> QED BY <1>5, <3>1
  <2>2. x(p) \in Nat /\ x(q) \in Nat
    BY <1>1
  <2> HIDE DEF a, b
  <2>3. a * n < b * n
    BY <2>1, <2>2
  <2>4. a < b
    BY <2>1, <2>3, SmallerFactor
  <2> QED BY <2>4 DEF a, b
<1>9. ASSUME NEW q \in Nat PROVE d(q + 1) - d(q) \in {w, w + 1}
  <2> DEFINE a == d(q)
             b == d(q + 1)
             y == x(q)
  <2>1. a \in Nat /\ b \in Nat /\ y \in Nat
    BY <1>1, <1>5
  <2>2. a * n <= y /\ y < a * n + n /\ b * n <= y + c /\ y + c < b * n + n
    BY <1>1, <1>5
  <2> HIDE DEF a, b, y
  <2>3. /\ a * n \in Nat /\ b * n \in Nat /\ w * n \in Nat
        /\ (a + w) * n = a * n + w * n
        /\ (b + 1) * n = b * n + n
        /\ (a + w + 2) * n = a * n + w * n + n + n
    BY <1>6, <2>1
  <2>4. (a + w) * n < (b + 1) * n /\ b * n < (a + w + 2) * n
    BY <1>6, <2>1, <2>2, <2>3
  <2>5. a + w < b + 1
    BY <1>6, <2>1, <2>4, SmallerFactor
  <2>6. b < a + w + 2
    BY <1>6, <2>1, <2>4, SmallerFactor
  <2>7. b - a \in {w, w + 1}
    BY <1>6, <2>1, <2>5, <2>6
  <2> QED BY <2>7 DEF a, b
<1>10. \A q \in Nat : StartOf(q + 1, n, c) - StartOf(q, n, c) \in {w, w + 1}
  <2>1. ASSUME NEW q \in Nat PROVE StartOf(q + 1, n, c) - StartOf(q, n, c) \in {w, w + 1}
    <3>1. StartOf(q, n, c) = d(q) + 1 /\ StartOf(q + 1, n, c) = d(q + 1) + 1
      BY <1>4
    <3>2. d(q) \in Nat /\ d(q + 1) \in Nat
      BY <1>5
    <3> QED BY <1>9, <3>1, <3>2
  <2> QED BY <2>1
<1>11. StartOf(0, n, c) = 1 /\ StartOf(n, n, c) = c + 1
  BY <1>4, <1>7
<1>12. \A q \in Nat : StartOf(q, n, c) \in Nat \ {0}
  BY <1>4, <1>5
<1>13. \A p, q \in Nat : p < q => StartOf(p, n, c) < StartOf(q, n, c)
  BY <1>4, <1>5, <1>8
<1> QED BY <1>10, <1>11, <1>12, <1>13 DEF w

\* On keys without NULLs, ORDER BY of the source is the condition the filters are made of.
LEMMA PlainOrder ==
  ASSUME NEW k \in PlainKey, NEW v \in PlainKey
  PROVE  Before(k, v) <=> less_than_value("source", k, v)
<1>1. \A i \in Columns : k[i] \in Values /\ v[i] \in Values
  BY DEF PlainKey
<1>2. \A i \in Columns : CellBefore(k[i], v[i]) <=> Less("source", k[i], v[i])
  BY <1>1, NullAssumption DEF CellBefore
<1>3. \A i \in Columns : Same("source", k[i], v[i]) <=> k[i] = v[i]
  BY <1>1, NullAssumption, SourceOrderAssumption DEF Same
<1>4. \A i \in Columns : 1..(i - 1) \subseteq Columns
  BY KeyWidthAssumption DEF Columns
<1> QED BY <1>2, <1>3, <1>4 DEF Before, less_than_value, SameUpTo

\* Keys without NULLs are in one line in the source's order (ORDER BY source_pks).
LEMMA SourceOrder ==
  ASSUME NEW k \in PlainKey, NEW v \in PlainKey
  PROVE  /\ ~Before(k, k)
         /\ k = v \/ Before(k, v) \/ Before(v, k)
         /\ geq_value("source", k, v) <=> ~Before(k, v)
         /\ \A w \in PlainKey : Before(k, v) /\ Before(v, w) => Before(k, w)
<1>1. "source" \in Sides /\ k \in AnyKey /\ v \in AnyKey
  BY KeyTypes DEF Sides
<1>2. geq_value("source", k, v) <=> ~Before(k, v)
  BY <1>1, PlainOrder, LessOrGeq, NotLessAndGeq
<1>3. ~Before(k, k)
  <2>1. \A i \in Columns : ~Less("source", k[i], k[i])
    BY RankAssumption, <1>1 DEF Less, PlainKey
  <2> QED BY <2>1, PlainOrder DEF less_than_value
<1>4. k = v \/ Before(k, v) \/ Before(v, k)
  <2>1. ASSUME ~Before(k, v) PROVE k = v \/ Before(v, k)
    <3>1. CASE SameUpTo("source", k, v, KeyWidth)
      <4>1. \A i \in Columns : k[i] = v[i]
        BY <3>1, SourceOrderAssumption DEF SameUpTo, Same, Columns, PlainKey
      <4> QED BY <4>1 DEF PlainKey
    <3>2. ASSUME NEW i \in Columns, Less("source", v[i], k[i]), SameUpTo("source", k, v, i - 1)
          PROVE  Before(v, k)
      <4>1. SameUpTo("source", v, k, i - 1)
        BY <3>2 DEF SameUpTo, Same
      <4> QED BY <3>2, <4>1, PlainOrder DEF less_than_value
    <3> QED BY <1>2, <2>1, <3>1, <3>2 DEF geq_value
  <2> QED BY <2>1
<1>5. ASSUME NEW w \in PlainKey, Before(k, v), Before(v, w) PROVE Before(k, w)
  BY <1>1, <1>5, PlainOrder, LessIsTransitive
<1> QED BY <1>2, <1>3, <1>4, <1>5

\* ROW_NUMBER() numbers the rows from one without gaps, in the order of their keys.
LEMMA RowNumbers ==
  ASSUME NEW rows \in SUBSET PlainKey, IsFiniteSet(rows)
  PROVE  /\ \A k \in rows : RowNumber(rows, k) \in 1..Cardinality(rows)
         /\ \A k, v \in rows : Before(k, v) <=> RowNumber(rows, k) < RowNumber(rows, v)
         /\ \A i \in 1..Cardinality(rows) : \E k \in rows : RowNumber(rows, k) = i
<1> DEFINE c == Cardinality(rows)
           below(k) == {r \in rows : Before(r, k)}
           number == [k \in rows |-> RowNumber(rows, k)]
<1>1. c \in Nat
  BY FS_CardinalityType
<1>2. \A k \in rows : RowNumber(rows, k) = Cardinality(below(k)) + 1
  BY DEF RowNumber
<1>3. \A k \in rows : IsFiniteSet(below(k)) /\ Cardinality(below(k)) \in Nat
  BY FS_Subset, FS_CardinalityType
<1>4. ASSUME NEW k \in rows PROVE RowNumber(rows, k) \in 1..c
  <2>1. below(k) \in SUBSET rows /\ k \notin below(k)
    BY SourceOrder
  <2>2. Cardinality(below(k)) <= c /\ Cardinality(below(k)) # c
    BY <2>1, FS_Subset
  <2> QED BY <1>1, <1>2, <1>3, <2>2
<1>5. ASSUME NEW k \in rows, NEW v \in rows, Before(k, v)
      PROVE  RowNumber(rows, k) < RowNumber(rows, v)
  <2>1. \A r \in below(k) : r \in PlainKey /\ Before(r, k)
    OBVIOUS
  <2>2. below(k) \in SUBSET below(v)
    BY <1>5, <2>1, SourceOrder
  <2>3. k \in below(v) /\ k \notin below(k)
    BY <1>5, SourceOrder
  <2>4. /\ Cardinality(below(k)) <= Cardinality(below(v))
        /\ Cardinality(below(k)) # Cardinality(below(v))
    BY <1>3, <2>2, <2>3, FS_Subset
  <2>5. Cardinality(below(k)) \in Nat /\ Cardinality(below(v)) \in Nat
    BY <1>3
  <2>6. /\ RowNumber(rows, k) = Cardinality(below(k)) + 1
        /\ RowNumber(rows, v) = Cardinality(below(v)) + 1
    BY <1>2
  <2> HIDE DEF below
  <2> QED BY <2>4, <2>5, <2>6
<1>6. \A k, v \in rows : Before(k, v) <=> RowNumber(rows, k) < RowNumber(rows, v)
  <2>1. ASSUME NEW k \in rows, NEW v \in rows, RowNumber(rows, k) < RowNumber(rows, v)
        PROVE  Before(k, v)
    <3>1. RowNumber(rows, k) \in Int /\ RowNumber(rows, v) \in Int
      BY <1>4
    <3>2. k # v /\ ~Before(v, k)
      BY <1>5, <2>1, <3>1
    <3> QED BY <3>2, SourceOrder
  <2> QED BY <1>5, <2>1
<1>7. ASSUME NEW i \in 1..c PROVE \E k \in rows : RowNumber(rows, k) = i
  <2>1. number \in [rows -> 1..c]
    BY <1>4
  <2>2. \A k, v \in rows : RowNumber(rows, k) = RowNumber(rows, v) => k = v
    <3>1. ASSUME NEW k \in rows, NEW v \in rows, RowNumber(rows, k) = RowNumber(rows, v)
          PROVE  k = v
      <4>1. ~Before(k, v) /\ ~Before(v, k)
        BY <1>4, <1>6, <3>1
      <4> QED BY <4>1, SourceOrder
    <3> QED BY <3>1
  <2>3. number \in Injection(rows, 1..c)
    BY <2>1, <2>2 DEF Injection, IsInjective
  <2>4. IsFiniteSet(1..c) /\ Cardinality(1..c) = c
    BY <1>1, FS_Interval
  <2>5. number \in Surjection(rows, 1..c)
    BY <2>3, <2>4, FS_Injection
  <2>6. \E k \in rows : number[k] = i
    BY <2>5 DEF Surjection
  <2> QED BY <2>6
<1> QED BY <1>4, <1>6, <1>7

Increasing(f, n) == \A i, j \in 1..n : i < j => f[i] < f[j]
Within(f, g, n) == \A i \in 1..n : \E j \in 1..n : f[i] = g[j]

\* Two increasing lists of the same numbers are the same list.
LEMMA SameIncreasing ==
  ASSUME NEW n \in Nat, NEW f \in [1..n -> Int], NEW g \in [1..n -> Int],
         Increasing(f, n), Increasing(g, n), Within(f, g, n), Within(g, f, n)
  PROVE  \A i \in 1..n : f[i] = g[i]
<1> DEFINE Differ == {i \in 1..n : f[i] # g[i]}
<1> SUFFICES ASSUME Differ # {} PROVE FALSE
  OBVIOUS
<1>1. PICK i \in Differ : \A j \in Differ : i <= j
  <2>1. Differ \in SUBSET Nat
    OBVIOUS
  <2> HIDE DEF Differ
  <2> QED BY <2>1, LeastNumber
<1>2. i \in 1..n /\ f[i] # g[i] /\ \A j \in 1..n : j < i => f[j] = g[j]
  BY <1>1
<1> HIDE DEF Differ
<1>3. \A j \in 1..n : f[j] \in Int /\ g[j] \in Int
  OBVIOUS
<1>4. ~(f[i] < g[i])
  <2> SUFFICES ASSUME f[i] < g[i] PROVE FALSE
    OBVIOUS
  <2>1. PICK j \in 1..n : f[i] = g[j]
    BY <1>2 DEF Within
  <2>2. j < i
    BY <1>2, <1>3, <2>1 DEF Increasing
  <2> QED BY <1>2, <1>3, <2>1, <2>2 DEF Increasing
<1>5. ~(g[i] < f[i])
  <2> SUFFICES ASSUME g[i] < f[i] PROVE FALSE
    OBVIOUS
  <2>1. PICK j \in 1..n : g[i] = f[j]
    BY <1>2 DEF Within
  <2>2. j < i
    BY <1>2, <1>3, <2>1 DEF Increasing
  <2> QED BY <1>2, <1>3, <2>1, <2>2 DEF Increasing
<1> QED BY <1>2, <1>3, <1>4, <1>5

\* The rows that start a partition, in the order of their keys, are those with the row
\* numbers the partitions start at: the first elements are where they should be.
LEMMA FirstElements ==
  ASSUME source \in SUBSET PlainKey, IsFiniteSet(source),
         source_count = Cardinality(source), source_count \in Nat,
         number_of_part \in 1..source_count,
         NEW s \in Ordered(FirstRows(source))
  PROVE  /\ s \in Seq(source) /\ Len(s) = number_of_part
         /\ \A p \in 1..number_of_part :
              RowNumber(source, s[p]) = StartOf(p - 1, number_of_part, source_count)
<1> DEFINE n == number_of_part
           c == source_count
           F == FirstRows(source)
           N(k) == RowNumber(source, k)
           start(p) == StartOf(p - 1, n, c)
<1>1. n \in Nat \ {0} /\ c \in Nat /\ n <= c
  OBVIOUS
<1>2. /\ \A k \in source : N(k) \in 1..c
      /\ \A k, v \in source : Before(k, v) <=> N(k) < N(v)
      /\ \A i \in 1..c : \E k \in source : N(k) = i
  BY RowNumbers
<1>3. F = {k \in source : \E p \in 1..n : N(k) = start(p)}
  <2>1. \A k \in source : StartsPartition(N(k), n, c)
                            <=> \E q \in 0..(n - 1) : N(k) = StartOf(q, n, c)
    BY <1>1, <1>2, StartsAre
  <2>2. ASSUME NEW x PROVE (\E q \in 0..(n - 1) : x = StartOf(q, n, c))
                             <=> \E p \in 1..n : x = start(p)
    <3>1. \A q \in 0..(n - 1) : q + 1 \in 1..n /\ start(q + 1) = StartOf(q, n, c)
      BY <1>1
    <3>2. \A p \in 1..n : p - 1 \in 0..(n - 1)
      BY <1>1
    <3> QED BY <3>1, <3>2
  <2> QED BY <2>1, <2>2 DEF FirstRows
<1>4. IsFiniteSet(F) /\ F \subseteq source
  BY FirstRowsFinite
<1>5. /\ \A p \in 1..n : start(p) \in 1..c
      /\ \A p, q \in 1..n : p < q => start(p) < start(q)
  <2>1. ASSUME NEW p \in 1..n PROVE start(p) \in 1..c
    <3>1. p - 1 \in Nat /\ n \in Nat /\ p - 1 < n
      BY <1>1
    <3>2. StartOf(p - 1, n, c) < StartOf(n, n, c) /\ StartOf(n, n, c) = c + 1
      BY <1>1, <3>1, EvenStarts
    <3>3. StartOf(p - 1, n, c) \in Nat \ {0}
      BY <1>1, <3>1, EvenStarts
    <3> QED BY <1>1, <3>2, <3>3
  <2>2. ASSUME NEW p \in 1..n, NEW q \in 1..n, p < q PROVE start(p) < start(q)
    <3>1. p - 1 \in Nat /\ q - 1 \in Nat /\ p - 1 < q - 1
      BY <2>2
    <3> QED BY <1>1, <3>1, EvenStarts
  <2> QED BY <2>1, <2>2
<1> HIDE DEF n, c, F, N, start
<1>6. Cardinality(F) = n
  <2> DEFINE row == [p \in 1..n |-> CHOOSE k \in source : N(k) = start(p)]
  <2>1. \A p \in 1..n : row[p] \in source /\ N(row[p]) = start(p)
    BY <1>2, <1>5
  <2> HIDE DEF row
  <2>2. row \in [1..n -> F]
    <3>1. \A p \in 1..n : row[p] \in F
      BY <1>3, <2>1
    <3> QED BY <3>1 DEF row
  <2>3. \A p, q \in 1..n : row[p] = row[q] => p = q
    <3>1. ASSUME NEW p \in 1..n, NEW q \in 1..n, row[p] = row[q] PROVE p = q
      <4>1. start(p) = start(q) /\ start(p) \in Int
        BY <1>5, <2>1, <3>1
      <4>2. ~(p < q) /\ ~(q < p)
        BY <1>5, <4>1
      <4> QED BY <1>1, <4>2
    <3> QED BY <3>1
  <2>4. \A k \in F : \E p \in 1..n : row[p] = k
    <3>1. ASSUME NEW k \in F PROVE \E p \in 1..n : row[p] = k
      <4>1. PICK p \in 1..n : N(k) = start(p)
        BY <1>3
      <4>2. k \in source /\ row[p] \in source /\ N(row[p]) = N(k) /\ N(k) \in Int
        BY <1>2, <1>4, <2>1, <4>1
      <4>3. ~Before(k, row[p]) /\ ~Before(row[p], k)
        BY <1>2, <4>2
      <4> QED BY <4>2, <4>3, SourceOrder
    <3> QED BY <3>1
  <2>5. row \in Bijection(1..n, F)
    BY <2>2, <2>3, <2>4 DEF Bijection, Injection, Surjection, IsInjective
  <2>6. ExistsBijection(1..n, F)
    BY <2>5 DEF ExistsBijection
  <2>7. n \in Nat
    BY <1>1
  <2> QED BY <2>6, <2>7, FS_CountingElements
<1>7. s \in [1..n -> F] /\ \A i, j \in 1..n : i < j => Before(s[i], s[j])
  BY <1>6 DEF Ordered, F
<1>8. s \in Seq(source) /\ Len(s) = n
  BY <1>1, <1>4, <1>7
<1>9. s \in Surjection(1..n, F)
  <2>1. \A i, j \in 1..n : s[i] = s[j] => i = j
    <3>1. ASSUME NEW i \in 1..n, NEW j \in 1..n, s[i] = s[j] PROVE i = j
      <4>1. ~Before(s[i], s[j]) /\ ~Before(s[j], s[i])
        BY <1>4, <1>7, <3>1, SourceOrder
      <4>2. ~(i < j) /\ ~(j < i)
        BY <1>7, <4>1
      <4> QED BY <1>1, <4>2
    <3> QED BY <3>1
  <2>2. s \in Injection(1..n, F)
    BY <1>7, <2>1 DEF Injection, IsInjective
  <2>3. Cardinality(1..n) = n
    BY <1>1, FS_Interval
  <2> QED BY <1>4, <1>6, <2>2, <2>3, FS_Injection
<1>10. \A p \in 1..n : N(s[p]) = start(p)
  <2> DEFINE f == [p \in 1..n |-> N(s[p])]
             g == [p \in 1..n |-> start(p)]
  <2>1. f \in [1..n -> Int] /\ g \in [1..n -> Int]
    BY <1>2, <1>4, <1>5, <1>7
  <2>2. Increasing(f, n) /\ Increasing(g, n)
    BY <1>2, <1>4, <1>5, <1>7 DEF Increasing
  <2>3. Within(f, g, n)
    BY <1>3, <1>7 DEF Within
  <2>4. Within(g, f, n)
    <3>1. ASSUME NEW i \in 1..n PROVE \E j \in 1..n : g[i] = f[j]
      <4>1. PICK k \in source : N(k) = start(i)
        BY <1>2, <1>5
      <4>2. k \in F
        BY <1>3, <4>1
      <4>3. PICK j \in 1..n : s[j] = k
        BY <1>9, <4>2 DEF Surjection
      <4> QED BY <4>1, <4>3
    <3> QED BY <3>1 DEF Within
  <2>5. \A p \in 1..n : f[p] = N(s[p]) /\ g[p] = start(p)
    OBVIOUS
  <2> HIDE DEF f, g
  <2>6. n \in Nat
    BY <1>1
  <2>7. \A p \in 1..n : f[p] = g[p]
    BY <2>1, <2>2, <2>3, <2>4, <2>6, SameIncreasing
  <2> QED BY <2>5, <2>7
<1> QED BY <1>8, <1>10 DEF n, c, N, start

\* The filter the loop makes for the p-th partition of the given first elements.
FilterAt(fe, p) == Between(IF p = 1 THEN NULL ELSE fe[p],
                           IF p = Len(fe) THEN NULL ELSE fe[p + 1])

\* A partition has the rows from its start up to the start of the next one.
LEMMA EvenSizes ==
  ASSUME source \in SUBSET PlainKey, IsFiniteSet(source),
         source_count = Cardinality(source), source_count \in Nat,
         number_of_part \in 1..source_count,
         NEW s \in Ordered(FirstRows(source)), NEW p \in 1..number_of_part
  PROVE  Cardinality({k \in source : Selects("source", FilterAt(s, p), k)})
           \in {source_count \div number_of_part, source_count \div number_of_part + 1}
<1> DEFINE n == number_of_part
           c == source_count
           N(k) == RowNumber(source, k)
           from == StartOf(p - 1, n, c)
           before == StartOf(p, n, c)
           size == {k \in source : Selects("source", FilterAt(s, p), k)}
           rows == from..(before - 1)
<1>1. n \in Nat \ {0} /\ c \in Nat /\ n <= c /\ p - 1 \in Nat /\ p \in 1..n
  OBVIOUS
<1>2. /\ \A k \in source : N(k) \in 1..c
      /\ \A k, v \in source : Before(k, v) <=> N(k) < N(v)
      /\ \A i \in 1..c : \E k \in source : N(k) = i
  BY RowNumbers
<1>3. /\ s \in Seq(source) /\ Len(s) = n
      /\ \A q \in 1..n : N(s[q]) = StartOf(q - 1, n, c)
  BY FirstElements
<1>4. from \in Nat \ {0} /\ before \in Nat /\ from < before
      /\ before - from \in {c \div n, c \div n + 1} /\ before <= c + 1
  <2>1. before - from \in {c \div n, c \div n + 1}
    <3>1. (p - 1) + 1 = p
      OBVIOUS
    <3>2. \A q \in Nat : StartOf(q + 1, n, c) - StartOf(q, n, c) \in {c \div n, c \div n + 1}
      BY <1>1, EvenStarts
    <3> HIDE DEF n, c
    <3> QED BY <1>1, <3>1, <3>2
  <2>2. from \in Nat \ {0} /\ before \in Nat
    <3>1. \A q \in Nat : StartOf(q, n, c) \in Nat \ {0}
      BY <1>1, EvenStarts
    <3> QED BY <1>1, <3>1
  <2>3. from < before
    BY <1>1, EvenStarts
  <2>4. before <= c + 1
    <3>1. StartOf(n, n, c) = c + 1
      BY <1>1, EvenStarts
    <3>2. p < n => before < StartOf(n, n, c)
      BY <1>1, EvenStarts
    <3>3. p = n => before = StartOf(n, n, c)
      OBVIOUS
    <3> HIDE DEF before, n, c
    <3> QED BY <1>1, <2>2, <3>1, <3>2, <3>3
  <2> QED BY <2>1, <2>2, <2>3, <2>4
<1>5. ASSUME NEW k \in source
      PROVE  Selects("source", FilterAt(s, p), k) <=> from <= N(k) /\ N(k) < before
  <2> DEFINE a == IF p = 1 THEN NULL ELSE s[p]
             b == IF p = Len(s) THEN NULL ELSE s[p + 1]
  <2>1. N(k) \in 1..c
    BY <1>2
  <2>2. (a # NULL => geq_value("source", k, a)) <=> from <= N(k)
    <3>1. CASE p = 1
      <4>1. from = 1
        BY <1>1, <3>1, EvenStarts
      <4> QED BY <2>1, <3>1, <4>1
    <3>2. CASE p # 1
      <4>1. a \in source /\ a # NULL /\ N(a) = from
        <5>1. s[p] \in source /\ s[p] \in AnyKey
          BY <1>1, <1>3, KeyTypes
        <5>2. N(s[p]) = from
          BY <1>1, <1>3
        <5> QED BY <3>2, <5>1, <5>2, NullAssumption
      <4>2. geq_value("source", k, a) <=> ~Before(k, a)
        BY <4>1, SourceOrder
      <4>3. Before(k, a) <=> N(k) < from
        BY <1>2, <4>1
      <4> QED BY <1>4, <2>1, <4>1, <4>2, <4>3
    <3> QED BY <3>1, <3>2
  <2>3. (b # NULL => less_than_value("source", k, b)) <=> N(k) < before
    <3>1. CASE p = Len(s)
      <4>1. before = c + 1
        BY <1>1, <1>3, <3>1, EvenStarts
      <4> QED BY <1>1, <2>1, <3>1, <4>1
    <3>2. CASE p # Len(s)
      <4>1. b \in source /\ b # NULL /\ N(b) = before
        <5>1. p + 1 \in 1..n /\ (p + 1) - 1 = p
          BY <1>1, <1>3, <3>2
        <5>2. s[p + 1] \in source /\ s[p + 1] \in AnyKey
          BY <1>3, <5>1, KeyTypes
        <5>3. N(s[p + 1]) = before
          BY <1>3, <5>1
        <5> QED BY <3>2, <5>2, <5>3, NullAssumption
      <4>2. less_than_value("source", k, b) <=> Before(k, b)
        BY <4>1, PlainOrder
      <4>3. Before(k, b) <=> N(k) < before
        BY <1>2, <4>1
      <4> QED BY <4>1, <4>2, <4>3
    <3> QED BY <3>1, <3>2
  <2>4. Selects("source", FilterAt(s, p), k) <=>
          /\ a # NULL => geq_value("source", k, a)
          /\ b # NULL => less_than_value("source", k, b)
    BY DEF Selects, FilterAt, Between
  <2> HIDE DEF a, b
  <2> QED BY <2>2, <2>3, <2>4
<1> HIDE DEF n, c, N, from, before
<1>6. size \in SUBSET source /\ IsFiniteSet(size)
  BY FS_Subset
<1>7. \A k \in size : k \in source /\ from <= N(k) /\ N(k) < before
  BY <1>5
<1>8. ExistsBijection(size, rows)
  <2> DEFINE number == [k \in size |-> N(k)]
  <2>1. number \in [size -> rows]
    <3>1. \A k \in size : N(k) \in rows
      <4>1. ASSUME NEW k \in size PROVE N(k) \in rows
        <5>1. N(k) \in Int /\ from <= N(k) /\ N(k) < before
          BY <1>2, <1>7
        <5> QED BY <1>4, <5>1
      <4> QED BY <4>1
    <3> HIDE DEF size, rows
    <3> QED BY <3>1
  <2>2. \A k, v \in size : N(k) = N(v) => k = v
    <3>1. ASSUME NEW k \in size, NEW v \in size, N(k) = N(v) PROVE k = v
      <4>1. k \in source /\ v \in source /\ N(k) \in Int
        BY <1>2, <1>7
      <4>2. ~Before(k, v) /\ ~Before(v, k)
        BY <1>2, <3>1, <4>1
      <4> QED BY <4>1, <4>2, SourceOrder
    <3> QED BY <3>1
  <2>3. \A i \in rows : \E k \in size : N(k) = i
    <3>1. ASSUME NEW i \in rows PROVE \E k \in size : N(k) = i
      <4>1. i \in 1..c /\ from <= i /\ i < before
        BY <1>1, <1>4
      <4>2. PICK k \in source : N(k) = i
        BY <1>2, <4>1
      <4>3. k \in size
        BY <1>5, <4>1, <4>2
      <4> QED BY <4>2, <4>3
    <3> QED BY <3>1
  <2> HIDE DEF size, rows
  <2>4. number \in Bijection(size, rows)
    BY <2>1, <2>2, <2>3 DEF Bijection, Injection, Surjection, IsInjective
  <2> QED BY <2>4 DEF ExistsBijection
<1>9. Cardinality(rows) = before - from
  <2>1. from \in Int /\ before - 1 \in Int /\ ~(from > before - 1)
    BY <1>4
  <2>2. Cardinality(rows) = before - 1 - from + 1
    BY <2>1, FS_Interval
  <2> QED BY <1>4, <2>2
<1>10. Cardinality(size) = before - from
  <2> HIDE DEF size, rows
  <2>1. Cardinality(rows) = Cardinality(size)
    BY <1>6, <1>8, FS_Bijection
  <2> QED BY <1>9, <2>1
<1> QED BY <1>4, <1>10 DEF n, c

\* While nobody writes, the counts are those of the rows, the first elements are their
\* first rows in order, and each filter is the one between two of them.
BalancedSoFar ==
  /\ writes = 0 /\ pc # "count" =>
       /\ source_count = Cardinality(source)
       /\ number_of_part = IF partition_num < source_count THEN partition_num ELSE source_count
  /\ writes = 0 /\ pc \notin {"count", "first rows"} =>
       first_elements \in Ordered(FirstRows(source))
  /\ pc = "middle filters" => Len(filters) \in 1..(Len(first_elements) - 1)
  /\ pc = "done" => Len(first_elements) >= 2 /\ Len(filters) = Len(first_elements)
  /\ pc \in {"middle filters", "done"} =>
       \A p \in 1..Len(filters) : filters[p] = FilterAt(first_elements, p)

\* Steps that leave the table, the counts, the first rows and the filters alone.
LEMMA BalancedSoFarStutters ==
  ASSUME BalancedSoFar, UNCHANGED vars
  PROVE  BalancedSoFar'
<1>1. UNCHANGED <<source, writes, pc, source_count, number_of_part, first_elements, filters>>
  BY DEF vars, counts
<1>2. Ordered(FirstRows(source))' = Ordered(FirstRows(source))
  BY <1>1 DEF Ordered, FirstRows
<1> QED BY <1>1, <1>2 DEF BalancedSoFar

\* What the steps of the loop leave alone is what the first elements were taken from.
LEMMA FirstElementsStay ==
  ASSUME UNCHANGED <<source, writes, counts, first_elements>>,
         first_elements \in Ordered(FirstRows(source))
  PROVE  first_elements' \in Ordered(FirstRows(source))'
BY DEF counts, Ordered, FirstRows

\* A filter more is at its place in the list, and the others stay where they were.
LEMMA FiltersAppended ==
  ASSUME NEW fs \in Seq(KeyRange), NEW fe,
         \A p \in 1..Len(fs) : fs[p] = FilterAt(fe, p),
         FilterAt(fe, Len(fs) + 1) \in KeyRange
  PROVE  LET new == Append(fs, FilterAt(fe, Len(fs) + 1))
         IN  Len(new) = Len(fs) + 1 /\ \A p \in 1..Len(new) : new[p] = FilterAt(fe, p)
<1> DEFINE r == FilterAt(fe, Len(fs) + 1)
<1> HIDE DEF r
<1>1. \A p \in 1..Len(fs) : Append(fs, r)[p] = fs[p]
  BY DEF r
<1>2. Append(fs, r)[Len(fs) + 1] = r /\ Len(Append(fs, r)) = Len(fs) + 1
  BY DEF r
<1>3. \A p \in 1..(Len(fs) + 1) : p \in 1..Len(fs) \/ p = Len(fs) + 1
  OBVIOUS
<1> QED BY <1>1, <1>2, <1>3 DEF r

\* Each step counts, orders and bounds the rows as the code means to (BalancedSoFar).
LEMMA BalancedSoFarInductive ==
  ASSUME writes \in Nat, first_elements \in Seq(Key), filters \in Seq(KeyRange),
         BalancedSoFar, [Next]_vars
  PROVE  BalancedSoFar'
<1>1. Len(filters) \in Nat /\ Len(first_elements) \in Nat
  OBVIOUS
<1>2. CASE WriteSource
  <2>1. pc' = pc /\ pc \in {"count", "first rows"}
    BY <1>2 DEF WriteSource
  <2>2. writes' = writes + 1
    BY <1>2 DEF WriteSource
  <2>3. writes' # 0
    BY <2>2
  <2> QED BY <2>1, <2>3 DEF BalancedSoFar
<1>3. CASE CountRows
  <2>1. /\ source_count' = Cardinality(source)
        /\ number_of_part' = IF partition_num < Cardinality(source)
                             THEN partition_num ELSE Cardinality(source)
        /\ pc' = "first rows" /\ UNCHANGED source
    BY <1>3 DEF CountRows
  <2> QED BY <2>1 DEF BalancedSoFar
<1>4. CASE QueryFirstElements
  <2>1. /\ pc = "first rows" /\ pc' = "first filter"
        /\ UNCHANGED <<source, writes, source_count, number_of_part>>
        /\ first_elements' \in Ordered(FirstRows(source))
    BY <1>4 DEF QueryFirstElements, counts
  <2>2. first_elements' \in Ordered(FirstRows(source))'
    BY <2>1 DEF Ordered, FirstRows
  <2> QED BY <2>1, <2>2 DEF BalancedSoFar
<1>5. CASE FirstFilterRaises
  <2>1. /\ pc = "first filter" /\ pc' = "raised"
        /\ UNCHANGED <<source, writes, counts, first_elements>>
    BY <1>5 DEF FirstFilterRaises
  <2> QED BY <2>1, FirstElementsStay DEF BalancedSoFar, counts
<1>6. CASE FirstFilter
  <2> DEFINE r == Between(NULL, first_elements[2])
  <2>1. pc = "first filter" /\ pc' = "middle filters"
    BY <1>6 DEF FirstFilter
  <2>4. Len(first_elements) >= 2
    BY <1>6 DEF FirstFilter
  <2>2. filters' = <<r>>
    BY <1>6 DEF FirstFilter
  <2>3. UNCHANGED <<source, writes, counts, first_elements>>
    BY <1>6 DEF FirstFilter
  <2>5. FilterAt(first_elements, 1) = r
    <3>1. 1 # Len(first_elements)
      <4> DEFINE l == Len(first_elements)
      <4>1. l \in Nat /\ l >= 2
        BY <1>1, <2>4
      <4> HIDE DEF l
      <4>2. 1 # l
        BY <4>1
      <4> QED BY <4>2 DEF l
    <3>2. 1 + 1 = 2
      OBVIOUS
    <3> QED BY <3>1, <3>2 DEF FilterAt
  <2> HIDE DEF r
  <2>6. Len(filters') = 1 /\ filters'[1] = r
    BY <2>2
  <2>7. \A p \in 1..Len(filters') : filters'[p] = FilterAt(first_elements', p)
    BY <2>3, <2>5, <2>6
  <2>8. Len(filters') \in 1..(Len(first_elements') - 1)
    <3>1. 1 \in 1..(Len(first_elements) - 1)
      BY <1>1, <2>4
    <3>2. first_elements' = first_elements
      BY <2>3
    <3> QED BY <2>6, <3>1, <3>2
  <2> QED BY <2>1, <2>3, <2>7, <2>8, FirstElementsStay DEF BalancedSoFar, counts
<1>7. CASE MiddleFilter
  <2> DEFINE n == Len(filters)
             l == Len(first_elements)
             r == Between(first_elements[n + 1], first_elements[n + 2])
  <2>1. pc = "middle filters" /\ pc' = pc
    BY <1>7 DEF MiddleFilter
  <2>5. n < l - 1
    BY <1>7 DEF MiddleFilter
  <2>2. filters' = Append(filters, r)
    BY <1>7 DEF MiddleFilter
  <2>3. UNCHANGED <<source, writes, counts, first_elements>>
    BY <1>7 DEF MiddleFilter
  <2>4. n \in 1..(l - 1) /\ \A p \in 1..n : filters[p] = FilterAt(first_elements, p)
    BY <2>1 DEF BalancedSoFar
  <2>6. FilterAt(first_elements, n + 1) = r
    <3>1. n + 1 # 1 /\ n + 1 # l /\ (n + 1) + 1 = n + 2
      BY <1>1, <2>4, <2>5
    <3> HIDE DEF n
    <3> QED BY <3>1 DEF FilterAt
  <2>7. r \in KeyRange
    <3>1. n + 1 \in 1..l /\ n + 2 \in 1..l
      BY <1>1, <2>4, <2>5
    <3>2. first_elements[n + 1] \in Key /\ first_elements[n + 2] \in Key
      BY <1>1, <3>1
    <3> QED BY <3>2, BetweenType
  <2> HIDE DEF r
  <2>8. Len(filters') = n + 1 /\ \A p \in 1..(n + 1) : filters'[p] = FilterAt(first_elements, p)
    BY <1>1, <2>2, <2>4, <2>6, <2>7, FiltersAppended
  <2>9. first_elements' = first_elements
    BY <2>3
  <2>10. n + 1 \in 1..(l - 1)
    BY <1>1, <2>4, <2>5
  <2>11. Len(filters') \in 1..(Len(first_elements') - 1)
    BY <2>8, <2>9, <2>10
  <2>12. \A p \in 1..Len(filters') : filters'[p] = FilterAt(first_elements', p)
    BY <2>8, <2>9
  <2> QED BY <2>1, <2>3, <2>11, <2>12, FirstElementsStay DEF BalancedSoFar, counts
<1>8. CASE LastFilter
  <2> DEFINE n == Len(filters)
             l == Len(first_elements)
             r == Between(first_elements[l], NULL)
  <2>1. pc = "middle filters" /\ pc' = "done"
    BY <1>8 DEF LastFilter
  <2>5. n = l - 1
    BY <1>8 DEF LastFilter
  <2>2. filters' = Append(filters, r)
    BY <1>8 DEF LastFilter
  <2>3. UNCHANGED <<source, writes, counts, first_elements>>
    BY <1>8 DEF LastFilter
  <2>4. n \in 1..(l - 1) /\ \A p \in 1..n : filters[p] = FilterAt(first_elements, p)
    BY <2>1 DEF BalancedSoFar
  <2>6. n + 1 # 1 /\ n + 1 = l /\ l >= 2
    BY <1>1, <2>4, <2>5
  <2>7. FilterAt(first_elements, n + 1) = r
    <3> HIDE DEF n
    <3> QED BY <2>6 DEF FilterAt
  <2>8. r \in KeyRange
    <3>1. first_elements[l] \in Key
      BY <1>1, <2>6
    <3> QED BY <3>1, BetweenType
  <2> HIDE DEF r
  <2>9. Len(filters') = n + 1 /\ \A p \in 1..(n + 1) : filters'[p] = FilterAt(first_elements, p)
    BY <1>1, <2>2, <2>4, <2>7, <2>8, FiltersAppended
  <2>10. first_elements' = first_elements
    BY <2>3
  <2>11. Len(filters') = Len(first_elements') /\ Len(first_elements') >= 2
    BY <2>6, <2>9, <2>10
  <2>12. \A p \in 1..Len(filters') : filters'[p] = FilterAt(first_elements', p)
    BY <2>9, <2>10
  <2> QED BY <2>1, <2>3, <2>11, <2>12, FirstElementsStay DEF BalancedSoFar, counts
<1>9. CASE Terminated \/ UNCHANGED vars
  BY <1>9, BalancedSoFarStutters DEF Terminated
<1> QED BY <1>2, <1>3, <1>4, <1>5, <1>6, <1>7, <1>8, <1>9 DEF Next

\* A table that has no NULL in its keys and stands still is cut into as many partitions as
\* were asked for, or as it has rows, and their sizes differ by one at most.
THEOREM Balanced == Spec => []PartitionsAreBalanced
<1>1. Init => BalancedSoFar
  BY DEF Init, BalancedSoFar
<1>2. TypeOK /\ BalancedSoFar /\ [Next]_vars => BalancedSoFar'
  <2>1. TypeOK => /\ writes \in Nat
                  /\ first_elements \in Seq(Key) /\ filters \in Seq(KeyRange)
    BY MaxWritesAssumption DEF TypeOK
  <2> QED BY <2>1, BalancedSoFarInductive
<1>3. TypeOK /\ BalancedSoFar => PartitionsAreBalanced
  <2> SUFFICES ASSUME TypeOK, BalancedSoFar, pc = "done", writes = 0, source \subseteq PlainKey
               PROVE  /\ Len(filters) = IF partition_num < Cardinality(source)
                                        THEN partition_num ELSE Cardinality(source)
                      /\ \A p, q \in 1..Len(filters) :
                           Cardinality({k \in source : Selects("source", filters[p], k)})
                             - Cardinality({k \in source : Selects("source", filters[q], k)})
                             <= 1
    BY DEF PartitionsAreBalanced
  <2> DEFINE size(p) == Cardinality({k \in source : Selects("source", filters[p], k)})
             w == source_count \div number_of_part
  <2>1. IsFiniteSet(source) /\ first_elements \in Seq(Key)
    BY DEF TypeOK
  <2>2. /\ source_count = Cardinality(source) /\ source_count \in Nat
        /\ number_of_part = IF partition_num < source_count
                            THEN partition_num ELSE source_count
        /\ first_elements \in Ordered(FirstRows(source))
        /\ Len(first_elements) >= 2 /\ Len(filters) = Len(first_elements)
        /\ \A p \in 1..Len(filters) : filters[p] = FilterAt(first_elements, p)
    BY DEF BalancedSoFar, TypeOK
  <2>3. number_of_part \in 1..source_count
    <3>1. IsFiniteSet(FirstRows(source)) /\ FirstRows(source) \subseteq source
      BY <2>1, FirstRowsFinite
    <3>2. first_elements \in Seq(FirstRows(source))
      BY <2>2, <3>1, OrderedRows
    <3>3. first_elements[1] \in source
      BY <2>2, <3>1, <3>2
    <3>4. source_count # 0
      BY <2>1, <2>2, <3>3, FS_EmptySet
    <3> QED BY <2>2, <3>4, PartitionNumAssumption
  <2>4. Len(filters) = number_of_part
    BY <2>1, <2>2, <2>3, FirstElements
  <2>5. \A p \in 1..Len(filters) : size(p) \in {w, w + 1}
    <3>1. \A p \in 1..number_of_part :
            Cardinality({k \in source : Selects("source", FilterAt(first_elements, p), k)})
              \in {w, w + 1}
      BY <2>1, <2>2, <2>3, EvenSizes
    <3> QED BY <2>2, <2>4, <3>1
  <2>6. w \in Nat
    BY <2>2, <2>3, Quotients
  <2> HIDE DEF size, w
  <2>7. \A p, q \in 1..Len(filters) : size(p) - size(q) <= 1
    BY <2>5, <2>6
  <2> QED BY <2>2, <2>4, <2>7 DEF size
<1> QED BY <1>1, <1>2, <1>3, TypeCorrect, PTL DEF Spec
-----------------------------------------------------------------------------
(* The conditions are the nested ones.                                     *)

\* The value of a nested condition from column i on: some column decides and those before it
\* are the same, or all of them are the same and the last one decides.
Unfolded(less, same, last) ==
  [i \in Columns |-> \/ \E j \in i..(KeyWidth - 1) : less[j] /\ \A m \in i..(j - 1) : same[m]
                     \/ last /\ \A m \in i..(KeyWidth - 1) : same[m]]

\* f is the recursion of the nested functions, column by column.
IsNested(f, less, same, last) ==
  f = [i \in Columns |-> IF i = KeyWidth THEN last
                         ELSE less[i] \/ (same[i] /\ f[i + 1])]

\* The unfolded form satisfies the equation of the nested one (less_than_value, geq_value).
LEMMA UnfoldedIsNested ==
  ASSUME NEW less \in [Columns -> BOOLEAN], NEW same \in [Columns -> BOOLEAN],
         NEW last \in BOOLEAN
  PROVE  IsNested(Unfolded(less, same, last), less, same, last)
<1> DEFINE U == Unfolded(less, same, last)
           G == [i \in Columns |-> IF i = KeyWidth THEN last
                                  ELSE less[i] \/ (same[i] /\ U[i + 1])]
<1>1. KeyWidth \in Nat \ {0} /\ Columns = 1..KeyWidth
  BY KeyWidthAssumption DEF Columns
<1>2. \A i \in Columns : U[i] =
         \/ \E j \in i..(KeyWidth - 1) : less[j] /\ \A m \in i..(j - 1) : same[m]
         \/ last /\ \A m \in i..(KeyWidth - 1) : same[m]
  BY DEF Unfolded
<1>3. U = [i \in Columns |-> U[i]]
  BY DEF Unfolded
<1> HIDE DEF U
<1>4. ASSUME NEW i \in Columns PROVE U[i] = G[i]
  <2>1. CASE i = KeyWidth
    <3>1. i..(KeyWidth - 1) = {}
      BY <1>1, <2>1
    <3>2. U[i] = last
      BY <1>2, <3>1
    <3> QED BY <2>1, <3>2
  <2>2. CASE i # KeyWidth
    <3>1. i + 1 \in Columns /\ i \in Nat /\ i \in i..(KeyWidth - 1)
      BY <1>1, <2>2
    <3>2. G[i] = (less[i] \/ (same[i] /\ U[i + 1]))
      BY <2>2
    <3>3. ASSUME U[i] PROVE G[i]
      <4>1. ASSUME NEW j \in i..(KeyWidth - 1), less[j], \A m \in i..(j - 1) : same[m],
                   j # i
            PROVE  G[i]
        <5>1. j \in (i + 1)..(KeyWidth - 1) /\ i \in i..(j - 1)
          BY <1>1, <3>1, <4>1
        <5>2. \A m \in (i + 1)..(j - 1) : m \in i..(j - 1)
          BY <3>1
        <5>3. U[i + 1]
          BY <1>2, <3>1, <4>1, <5>1, <5>2
        <5> QED BY <3>2, <4>1, <5>1, <5>3
      <4>2. ASSUME last, \A m \in i..(KeyWidth - 1) : same[m] PROVE G[i]
        <5>1. \A m \in (i + 1)..(KeyWidth - 1) : m \in i..(KeyWidth - 1)
          BY <1>1, <3>1
        <5>2. U[i + 1]
          BY <1>2, <3>1, <4>2, <5>1
        <5> QED BY <3>1, <3>2, <4>2, <5>2
      <4> QED BY <1>2, <3>2, <3>3, <4>1, <4>2
    <3>4. ASSUME G[i] PROVE U[i]
      <4>1. CASE less[i]
        <5>1. i..(i - 1) = {}
          BY <3>1
        <5> QED BY <1>2, <3>1, <4>1, <5>1
      <4>2. ASSUME same[i], U[i + 1] PROVE U[i]
        <5>1. \A j \in Int : \A m \in i..(j - 1) : m = i \/ m \in (i + 1)..(j - 1)
          BY <3>1
        <5>2. \A j \in (i + 1)..(KeyWidth - 1) : j \in i..(KeyWidth - 1) /\ j \in Int
          BY <1>1, <3>1
        <5>3. ASSUME NEW j \in (i + 1)..(KeyWidth - 1), less[j],
                     \A m \in (i + 1)..(j - 1) : same[m]
              PROVE  U[i]
          <6>1. \A m \in i..(j - 1) : same[m]
            BY <4>2, <5>1, <5>2, <5>3
          <6> QED BY <1>2, <5>2, <5>3, <6>1
        <5>4. ASSUME last, \A m \in (i + 1)..(KeyWidth - 1) : same[m] PROVE U[i]
          <6>1. \A m \in i..(KeyWidth - 1) : same[m]
            BY <1>1, <4>2, <5>1, <5>4
          <6> QED BY <1>2, <5>4, <6>1
        <5> QED BY <1>2, <3>1, <4>2, <5>3, <5>4
      <4> QED BY <3>2, <3>4, <4>1, <4>2
    <3>5. U[i] \in BOOLEAN /\ G[i] \in BOOLEAN
      BY <1>2, <3>2
    <3> QED BY <3>3, <3>4, <3>5
  <2> QED BY <2>1, <2>2
<1> QED BY <1>3, <1>4 DEF IsNested, U

\* The recursion of the nested functions has one value: it goes from the last column to the
\* first.
LEMMA NestedValue ==
  ASSUME NEW less, NEW same, NEW last, NEW f, NEW g,
         IsNested(f, less, same, last), IsNested(g, less, same, last)
  PROVE  f[1] = g[1]
<1> DEFINE Good == {j \in 0..(KeyWidth - 1) : f[KeyWidth - j] = g[KeyWidth - j]}
<1>1. \A i \in Columns :
        IF i = KeyWidth THEN f[i] = last /\ g[i] = last
        ELSE /\ f[i] = (less[i] \/ (same[i] /\ f[i + 1]))
             /\ g[i] = (less[i] \/ (same[i] /\ g[i + 1]))
  BY DEF IsNested
<1>2. 0 \in Good
  <2>1. KeyWidth \in Columns /\ KeyWidth - 0 = KeyWidth /\ 0 \in 0..(KeyWidth - 1)
    BY KeyWidthAssumption DEF Columns
  <2>2. f[KeyWidth] = g[KeyWidth]
    BY <1>1, <2>1
  <2> QED BY <2>1, <2>2
<1>3. ASSUME NEW j \in 1..(KeyWidth - 1), j - 1 \in Good PROVE j \in Good
  <2> DEFINE i == KeyWidth - j
  <2>1. i \in Columns /\ i # KeyWidth /\ i + 1 = KeyWidth - (j - 1)
    BY KeyWidthAssumption DEF Columns
  <2>2. f[i + 1] = g[i + 1]
    BY <1>3, <2>1
  <2> HIDE DEF i
  <2>3. f[i] = g[i]
    <3>1. f[i] = (less[i] \/ (same[i] /\ f[i + 1]))
      BY <1>1, <2>1
    <3>2. g[i] = (less[i] \/ (same[i] /\ g[i + 1]))
      BY <1>1, <2>1
    <3> QED BY <2>2, <3>1, <3>2
  <2> QED BY <2>3 DEF i
<1> HIDE DEF Good
<1>4. KeyWidth - 1 \in Good
  <2>1. KeyWidth - 1 \in Nat /\ KeyWidth - 1 \in 0..(KeyWidth - 1)
    BY KeyWidthAssumption
  <2> QED BY <1>2, <1>3, <2>1, UpTo
<1> QED BY <1>4, KeyWidthAssumption DEF Good

\* The condition for the rows before a boundary, nested and unfolded.
LEMMA LessIsNested ==
  ASSUME NEW side, NEW k, NEW v
  PROVE  less_than_value(side, k, v) = less_than_nested(side, k, v)
<1> DEFINE less == [i \in Columns |-> Less(side, k[i], v[i])]
           same == [i \in Columns |-> Same(side, k[i], v[i])]
           last == Less(side, k[KeyWidth], v[KeyWidth])
           From[i \in Columns] ==
             IF i = KeyWidth THEN Less(side, k[i], v[i])
             ELSE Less(side, k[i], v[i]) \/ (Same(side, k[i], v[i]) /\ From[i + 1])
           Equation(f) ==
             f = [i \in Columns |->
                    IF i = KeyWidth THEN Less(side, k[i], v[i])
                    ELSE Less(side, k[i], v[i]) \/ (Same(side, k[i], v[i]) /\ f[i + 1])]
           U == Unfolded(less, same, last)
<1>1. less \in [Columns -> BOOLEAN] /\ same \in [Columns -> BOOLEAN] /\ last \in BOOLEAN
  BY DEF Less, Same
<1>2. IsNested(U, less, same, last)
  BY <1>1, UnfoldedIsNested
<1>3. ASSUME NEW f PROVE Equation(f) <=> IsNested(f, less, same, last)
  <2>1. [i \in Columns |-> IF i = KeyWidth THEN Less(side, k[i], v[i])
           ELSE Less(side, k[i], v[i]) \/ (Same(side, k[i], v[i]) /\ f[i + 1])]
        = [i \in Columns |-> IF i = KeyWidth THEN last ELSE less[i] \/ (same[i] /\ f[i + 1])]
    OBVIOUS
  <2> QED BY <2>1 DEF IsNested
<1>4. Equation(U)
  BY <1>2, <1>3
<1>5. Equation(From)
  <2> HIDE DEF U, less, same, last
  <2> QED BY <1>4
<1>6. From[1] = U[1]
  <2>1. IsNested(From, less, same, last)
    BY <1>3, <1>5
  <2> HIDE DEF From, U, less, same, last
  <2> QED BY <1>2, <2>1, NestedValue
<1>7. U[1] = less_than_value(side, k, v)
  <2>1. KeyWidth \in Nat \ {0} /\ Columns = 1..KeyWidth /\ 1 \in Columns
    BY KeyWidthAssumption DEF Columns
  <2>2. U[1] = \/ \E j \in 1..(KeyWidth - 1) : less[j] /\ \A m \in 1..(j - 1) : same[m]
               \/ last /\ \A m \in 1..(KeyWidth - 1) : same[m]
    BY <2>1 DEF Unfolded
  <2>3. \A j \in Columns : SameUpTo(side, k, v, j - 1) <=> \A m \in 1..(j - 1) : same[m]
    <3>1. \A j \in Columns : \A m \in 1..(j - 1) : m \in Columns
      BY <2>1
    <3>2. \A m \in Columns : same[m] = Same(side, k[m], v[m])
      OBVIOUS
    <3> QED BY <3>1, <3>2, Zenon DEF SameUpTo
  <2>4. less_than_value(side, k, v) <=>
          \E j \in Columns : less[j] /\ \A m \in 1..(j - 1) : same[m]
    <3>1. \A j \in Columns : less[j] = Less(side, k[j], v[j])
      OBVIOUS
    <3> QED BY <2>3, <3>1, Zenon DEF less_than_value
  <2>5. \A j \in Columns : j = KeyWidth \/ j \in 1..(KeyWidth - 1)
    BY <2>1
  <2>6. KeyWidth \in Columns /\ \A j \in 1..(KeyWidth - 1) : j \in Columns
    BY <2>1
  <2>7. last = less[KeyWidth]
    BY <2>6
  <2>8. U[1] \in BOOLEAN /\ less_than_value(side, k, v) \in BOOLEAN
    BY <2>2 DEF less_than_value
  <2> HIDE DEF U, less, same, last
  <2>9. U[1] <=> \E j \in Columns : less[j] /\ \A m \in 1..(j - 1) : same[m]
    BY <2>2, <2>5, <2>6, <2>7, Zenon
  <2> QED BY <2>4, <2>8, <2>9
<1> HIDE DEF U
<1>8. From[1] = less_than_value(side, k, v)
  BY <1>6, <1>7
<1> QED BY <1>8 DEF less_than_nested

\* The condition for a boundary and the rows after it, nested and unfolded.
LEMMA GeqIsNested ==
  ASSUME NEW side, NEW k, NEW v
  PROVE  geq_value(side, k, v) = geq_nested(side, k, v)
<1> DEFINE less == [i \in Columns |-> Less(side, v[i], k[i])]
           same == [i \in Columns |-> Same(side, k[i], v[i])]
           last == \/ Less(side, v[KeyWidth], k[KeyWidth])
                   \/ Same(side, k[KeyWidth], v[KeyWidth])
           From[i \in Columns] ==
             IF i = KeyWidth THEN Less(side, v[i], k[i]) \/ Same(side, k[i], v[i])
             ELSE Less(side, v[i], k[i]) \/ (Same(side, k[i], v[i]) /\ From[i + 1])
           Equation(f) ==
             f = [i \in Columns |->
                    IF i = KeyWidth THEN Less(side, v[i], k[i]) \/ Same(side, k[i], v[i])
                    ELSE Less(side, v[i], k[i]) \/ (Same(side, k[i], v[i]) /\ f[i + 1])]
           U == Unfolded(less, same, last)
<1>1. less \in [Columns -> BOOLEAN] /\ same \in [Columns -> BOOLEAN] /\ last \in BOOLEAN
  BY DEF Less, Same
<1>2. IsNested(U, less, same, last)
  BY <1>1, UnfoldedIsNested
<1>3. ASSUME NEW f PROVE Equation(f) <=> IsNested(f, less, same, last)
  <2>1. [i \in Columns |-> IF i = KeyWidth THEN Less(side, v[i], k[i]) \/ Same(side, k[i], v[i])
           ELSE Less(side, v[i], k[i]) \/ (Same(side, k[i], v[i]) /\ f[i + 1])]
        = [i \in Columns |-> IF i = KeyWidth THEN last ELSE less[i] \/ (same[i] /\ f[i + 1])]
    OBVIOUS
  <2> QED BY <2>1 DEF IsNested
<1>4. Equation(U)
  BY <1>2, <1>3
<1>5. Equation(From)
  <2> HIDE DEF U, less, same, last
  <2> QED BY <1>4
<1>6. From[1] = U[1]
  <2>1. IsNested(From, less, same, last)
    BY <1>3, <1>5
  <2> HIDE DEF From, U, less, same, last
  <2> QED BY <1>2, <2>1, NestedValue
<1>7. U[1] = geq_value(side, k, v)
  <2>1. KeyWidth \in Nat \ {0} /\ Columns = 1..KeyWidth /\ 1 \in Columns
    BY KeyWidthAssumption DEF Columns
  <2>2. U[1] = \/ \E j \in 1..(KeyWidth - 1) : less[j] /\ \A m \in 1..(j - 1) : same[m]
               \/ last /\ \A m \in 1..(KeyWidth - 1) : same[m]
    BY <2>1 DEF Unfolded
  <2>3. \A j \in Columns : SameUpTo(side, k, v, j - 1) <=> \A m \in 1..(j - 1) : same[m]
    <3>1. \A j \in Columns : \A m \in 1..(j - 1) : m \in Columns
      BY <2>1
    <3>2. \A m \in Columns : same[m] = Same(side, k[m], v[m])
      OBVIOUS
    <3> QED BY <3>1, <3>2, Zenon DEF SameUpTo
  <2>4. SameUpTo(side, k, v, KeyWidth) <=>
          same[KeyWidth] /\ \A m \in 1..(KeyWidth - 1) : same[m]
    <3>1. \A m \in Columns : same[m] = Same(side, k[m], v[m])
      OBVIOUS
    <3>2. /\ KeyWidth \in 1..KeyWidth
          /\ \A m \in 1..(KeyWidth - 1) : m \in 1..KeyWidth
          /\ \A m \in 1..KeyWidth : m = KeyWidth \/ m \in 1..(KeyWidth - 1)
      BY <2>1
    <3> HIDE DEF same
    <3> QED BY <2>1, <3>1, <3>2, Zenon DEF SameUpTo
  <2>5. geq_value(side, k, v) <=>
          \/ \E j \in Columns : less[j] /\ \A m \in 1..(j - 1) : same[m]
          \/ same[KeyWidth] /\ \A m \in 1..(KeyWidth - 1) : same[m]
    <3>1. \A j \in Columns : less[j] = Less(side, v[j], k[j])
      OBVIOUS
    <3> QED BY <2>3, <2>4, <3>1, Zenon DEF geq_value
  <2>6. \A j \in Columns : j = KeyWidth \/ j \in 1..(KeyWidth - 1)
    BY <2>1
  <2>7. KeyWidth \in Columns /\ \A j \in 1..(KeyWidth - 1) : j \in Columns
    BY <2>1
  <2>8. last <=> less[KeyWidth] \/ same[KeyWidth]
    BY <2>7
  <2>9. U[1] \in BOOLEAN /\ geq_value(side, k, v) \in BOOLEAN
    BY <2>2 DEF geq_value
  <2> HIDE DEF U, less, same, last
  <2>10. U[1] <=> \/ \E j \in Columns : less[j] /\ \A m \in 1..(j - 1) : same[m]
                  \/ same[KeyWidth] /\ \A m \in 1..(KeyWidth - 1) : same[m]
    BY <2>2, <2>6, <2>7, <2>8, Zenon
  <2> QED BY <2>5, <2>9, <2>10
<1> HIDE DEF U
<1>8. From[1] = geq_value(side, k, v)
  BY <1>6, <1>7
<1> QED BY <1>8 DEF geq_nested

\* The unfolded conditions are those that the nested functions of the code build, for keys
\* of any number of columns and whatever the two engines' orders are.
THEOREM Nested == Spec => []UnfoldingIsRecursion
<1>1. UnfoldingIsRecursion
  BY LessIsNested, GeqIsNested DEF UnfoldingIsRecursion
<1> QED BY <1>1, PTL
=============================================================================
