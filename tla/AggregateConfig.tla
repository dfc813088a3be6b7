--------------------------- MODULE AggregateConfig ---------------------------
(***************************************************************************)
(* What ConfigManager builds for a column validation: an aggregate for     *)
(* each type of aggregation and each column that supports it, over the     *)
(* column itself or over a calculated field (a length, seconds since the   *)
(* epoch, a cast) that aggregations of the same column share by its name.  *)
(***************************************************************************)
EXTENDS TableColumns

AggregateTypes == {"count", "sum", "avg", "min", "max", "bit_xor", "std"}

Numbers == {"float64", "float32", "int8", "int16", "int32", "int64", "decimal", "number"}

(* supported_data_types of get_aggregate_config, with what is added to it  *)
(* for columns given by name; no limit for a count.                        *)
SupportedTypes(agg, args) ==
  Numbers
    \cup (IF args.stringLength THEN {"string"} ELSE {})
    \cup (IF args.timestamps THEN {"timestamp", "date"} ELSE {})
    \cup (IF agg.type \in {"min", "max"} THEN {"uuid"} ELSE {})
    \cup (IF agg.columns.all THEN {} ELSE {"string", "timestamp", "date", "binary"})

TypeIsSupported(agg, args, s, t) ==
  \/ agg.type = "count"
  \/ IF IsUuid(s, t) THEN "uuid" \in SupportedTypes(agg, args)
                     ELSE {s, t} \subseteq SupportedTypes(agg, args)

Skipped(db, key, agg, args) ==
  LET s == ColumnOf(db.source, key).type
      t == ColumnOf(db.target, key).type
  IN  \/ ~TypeIsSupported(agg, args, s, t)
      \/ IsSqlServerImage(db, key, key)
      \/ IsDb2ZosXml(db, key, key)
      \/ agg.type # "count" /\ IsDb2Xml(db, key, key)

(* exclude_cols is no reason to fail when a list is given. *)
AggregatesRaise(agg, args) == agg.columns.all /\ args.exclude

(* arg_value of the code; an empty list, every column being excluded, is   *)
(* no list and means all columns.                                          *)
Wanted(db, agg, args) ==
  LET keys == ToSet(Keys(db.source.columns))
      named == IF args.exclude THEN keys \ ToSet(agg.columns.list) ELSE ToSet(agg.columns.list)
  IN  IF agg.columns.all \/ named = {} THEN keys ELSE named

-----------------------------------------------------------------------------

(* A column that is aggregated through a calculated field. *)
RequiresPreAgg(db, key, agg, bigint) ==
  LET s == ColumnOf(db.source, key).type
      t == ColumnOf(db.target, key).type
      counted == agg.type = "count"
  IN  CASE {s, t} \subseteq {"string", "json"} ->
             counted => IsOracleLob(db, key, key) \/ IsSqlServerText(db, key, key)
        [] IsUuid(s, t) -> TRUE
        [] s = "binary" ->
             counted => IsOracleLob(db, key, key) \/ IsDb2ZosBlob(db, key, key)
        [] OTHER -> \/ bigint /\ s = "int32"
                    \/ s \in {"timestamp", "date"} /\ agg.type \in {"avg", "bit_xor", "std", "sum"}

OnBigquery(db) == "bigquery" \in {db.source.client, db.target.client}

(* The field that a calculation needs first: JSON as a string, and any     *)
(* moment as a timestamp when BigQuery is on a side.  "none" if none.      *)
FirstCast(db, s, t) ==
  IF "json" \in {s, t} THEN "string"
  ELSE IF s \in {"timestamp", "date"} /\ ~IsUuid(s, t) /\ OnBigquery(db) THEN "timestamp"
  ELSE "none"

(* The order of the tests is the code's; int32 is all that is left.           *)
PreAggCalc(db, key, s, t) ==
  LET Calc(op, param) == [op |-> op, param |-> param]
  IN  CASE "json" \in {s, t} -> Calc("length", "none")
        [] s = "string" /\ IsSqlServerText(db, key, key) -> Calc("byte_length", "none")
        [] s = "string" /\ ~IsSqlServerText(db, key, key) -> Calc("length", "none")
        [] s # "string" /\ IsUuid(s, t) -> Calc("cast", "uuid_string")
        [] s = "binary" /\ ~IsUuid(s, t) -> Calc("byte_length", "none")
        [] s \in {"timestamp", "date"} /\ ~IsUuid(s, t) -> Calc("epoch_seconds", "none")
        [] OTHER -> Calc("cast", "int64")

(* f"cast_{type}" *)
CastPrefix == [string |-> "cast_string", timestamp |-> "cast_timestamp",
               uuid_string |-> "cast_uuid_string", int64 |-> "cast_int64"]

PreAggField(db, source, target, calc, position, depth) ==
  LET prefix == IF calc.op = "cast" THEN CastPrefix[calc.param] ELSE calc.op
  IN  Field(<<source>>, <<target>>, calc.op, calc.param,
            Prefix(db, prefix, source, position), depth)

(* The calculated fields of one aggregated column, the last one being the  *)
(* one that is aggregated; none if the column itself is.                   *)
PreAggFields(db, key, agg, args, position) ==
  LET s == ColumnOf(db.source, key)
      t == ColumnOf(db.target, key)
      first == FirstCast(db, s.type, t.type)
      calc == PreAggCalc(db, key, s.type, t.type)
      cast == PreAggField(db, s.name, t.name, [op |-> "cast", param |-> first], position, 0)
  IN  IF ~RequiresPreAgg(db, key, agg, args.bigint) THEN <<>>
      ELSE IF first = "none" THEN << PreAggField(db, s.name, t.name, calc, position, 0) >>
      ELSE << cast, PreAggField(db, cast.alias, cast.alias, calc, position, 1) >>

(* build_and_append_pre_agg_calc_config: a field whose name is there       *)
(* already is not appended again.  The two fields of one column have       *)
(* different names.                                                        *)
AppendNew(fields, new) ==
  fields \cup {f \in ToSet(new) : \A g \in fields : g.alias # f.alias}

AggregateCast(db, key, agg, pre) ==
  LET s == ColumnOf(db.source, key).type
      t == ColumnOf(db.target, key).type
      big == DecimalTooBig(s, t, IF agg.type = "sum" THEN 2 ELSE 0)
  IN  CASE pre # <<>> -> IF Last(pre).op = "epoch_seconds" /\ agg.type = "sum"
                           THEN "string" ELSE "none"
        [] pre = <<>> /\ big -> IF agg.type \in {"std", "avg"} THEN "float64" ELSE "string"
        [] OTHER -> "none"

(* An aggregate is a reference with a type. *)
AggregateOf(db, key, agg, pre, position) ==
  LET s == ColumnOf(db.source, key).name
      t == ColumnOf(db.target, key).name
      cast == AggregateCast(db, key, agg, pre)
      Agg(source, target, name) ==
        [type |-> agg.type, ref |-> Reference(source, target,
                                    Prefix(db, agg.type, name, position), cast)]
  IN  IF pre = <<>> THEN Agg(s, t, key)
      ELSE Agg(Last(pre).alias, Last(pre).alias, Last(pre).alias)

(* Slip: a column is numbered among the wanted columns. *)
PositionAmongWanted(db, agg, args, key) ==
  Cardinality({i \in DOMAIN db.source.columns :
     /\ db.source.columns[i].key \in Wanted(db, agg, args)
     /\ \E j \in DOMAIN db.source.columns : j > i /\ db.source.columns[j].key = key})

(* The number of a column in the names made for it: its place among all    *)
(* columns of the source.                                                  *)
PositionOf(db, agg, args, key) ==
  (CHOOSE i \in DOMAIN db.source.columns : db.source.columns[i].key = key) - 1

AggregatedKeys(db, agg, args) ==
  Keep(Keys(db.source.columns),
       {k \in Wanted(db, agg, args) : Has(db.target, k) /\ ~Skipped(db, k, agg, args)})

(* build_config_column_aggregates: what it makes of the calculated fields  *)
(* and the aggregates built so far.                                        *)
WithAggregates(db, config, agg, args) ==
  LET keys == AggregatedKeys(db, agg, args)
      Pre(key) == PreAggFields(db, key, agg, args, PositionOf(db, agg, args, key))
  IN  [config EXCEPT
        !.calculated = FoldLeft(LAMBDA fields, key : AppendNew(fields, Pre(key)), @, keys),
        !.aggregates = @ \o [i \in DOMAIN keys |->
          AggregateOf(db, keys[i], agg, Pre(keys[i]), PositionOf(db, agg, args, keys[i]))]]

(* build_config_count_aggregate: the count of rows is always there. *)
CountOfRows == [type |-> "count", ref |-> Reference(<<>>, <<>>, <<"count">>, "none")]

=============================================================================
