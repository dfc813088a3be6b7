------------------------------ MODULE RowConfig ------------------------------
(***************************************************************************)
(* What ConfigManager builds for a row validation: the levels of           *)
(* calculated fields that end in one hash or one concatenation of a row    *)
(* (build_dependent_aliases), and the fields of --comparison-fields.  The  *)
(* shorter replacement tokens of Db2 columns are left out.                 *)
(***************************************************************************)
EXTENDS TableColumns

(* The keys of col_list, or all of them: _filter_columns_by_column_list.   *)
(* A name that is no column of the table is ignored.                       *)
Listed(columns, request, exclude) ==
  Keep(columns, {c \in ToSet(columns) : request.all \/ (Contains(request.list, c.key) # exclude)})

-----------------------------------------------------------------------------

(* The reasons for which the n-th columns of the two lists are left out;   *)
(* each of them pops both, so that a second one raises KeyError.           *)
Reasons(db, s, t) ==
  {r \in {"image", "lob", "blob"} :
    CASE r = "image" -> IsSqlServerImage(db, s, t)
      [] r = "lob"   -> IsOracleLob(db, s, t)
      [] r = "blob"  -> IsDb2Blob(db, s, t)}

Zipped(source, target) == 1..Min({Len(source), Len(target)})

LeftOut(db, source, target) ==
  {n \in Zipped(source, target) : Reasons(db, source[n].key, target[n].key) # {}}

FilterRaises(db, source, target) ==
  \E n \in Zipped(source, target) :
    Cardinality(Reasons(db, source[n].key, target[n].key)) > 1

Without(columns, positions) == Keep(columns, {columns[i] : i \in DOMAIN columns \ positions})

(* _filter_columns_by_data_type, one side of its result.  The two lists    *)
(* are zipped: what is compared and popped are the n-th column of the      *)
(* source and the n-th of the target, whatever their names.                *)
OfSupportedType(db, columns, source, target) ==
  Without(columns, LeftOut(db, source, target))

-----------------------------------------------------------------------------

Temporal == {"date", "timestamp"}

StrftimeFormat(type, client) ==
  IF type = "timestamp" \/ client = "oracle" THEN "seconds" ELSE "days"

(* The shorter of two formats, both of them of the type of the source. *)
TemporalFormat(db, s) ==
  IF "days" \in {StrftimeFormat(s.type, db.source.client),
                 StrftimeFormat(s.type, db.target.client)}
    THEN "days" ELSE "seconds"

(* What the first level does to a column. *)
BaseCast(db, s, t) ==
  IF {s.type, t.type} \subseteq Temporal
    THEN [op |-> "strftime", param |-> TemporalFormat(db, s)]
  ELSE [op |-> "cast",
        param |-> IF IsBool(s.type, t.type) THEN "bool_string"
                  ELSE IF IsUuid(s.type, t.type) THEN "uuid_string" ELSE "string"]

(* Slip: the column of the target is the one at the same position. *)
BaseFieldByPosition(db, keys, j) ==
  LET s == ColumnOf(db.source, keys[j])
      t == db.target.columns[Min({j, Len(db.target.columns)})]
      c == BaseCast(db, s, t)
  IN  Field(<<s.name>>, <<t.name>>, c.op, c.param, Prefix(db, "cast", keys[j], j - 1), 0)

BaseField(db, keys, j) ==
  LET s == ColumnOf(db.source, keys[j])
      t == ColumnOf(db.target, keys[j])
      c == BaseCast(db, s, t)
  IN  Field(<<s.name>>, <<t.name>>, c.op, c.param, Prefix(db, "cast", keys[j], j - 1), 0)

(* Every column as text; then all of them as one, with its hash if asked for. *)
OrderOfOperations(method, upper) ==
  LET text == IF upper THEN <<"cast", "ifnull", "rstrip", "upper", "concat">>
                       ELSE <<"cast", "ifnull", "rstrip", "concat">>
  IN  IF method = "hash" THEN Append(text, "hash") ELSE text

(* One level: every alias of the level below on its own, or all together. *)
LevelOf(db, op, previous, depth) ==
  IF op \in {"concat", "hash"}
    THEN << Field(previous, previous, op, "none", <<op, "all">>, depth) >>
    ELSE [j \in DOMAIN previous |->
           Field(<<previous[j]>>, <<previous[j]>>, op, "none",
                 Prefix(db, op, previous[j], j - 1), depth)]

Aliases(fields) == Distinct([i \in DOMAIN fields |-> fields[i].alias])

RowColumns(db, request) ==
  [s \in Sides |->
    OfSupportedType(db, Listed(db[s].columns, request, FALSE),
                    Listed(db.source.columns, request, FALSE),
                    Listed(db.target.columns, request, FALSE))]

(* A column of the source that the target lacks after the filters, or one  *)
(* that is popped twice.                                                   *)
DependentAliasesRaise(db, request) ==
  LET left == RowColumns(db, request)
  IN  \/ FilterRaises(db, Listed(db.source.columns, request, FALSE),
                      Listed(db.target.columns, request, FALSE))
      \/ ~(ToSet(Keys(left.source)) \subseteq ToSet(Keys(left.target)))

(* The order of the fields of one level makes no difference to a query, so *)
(* that calculated fields are a set.                                       *)
DependentAliases(db, method, request, upper) ==
  LET keys == Keys(RowColumns(db, request).source)
      ops == OrderOfOperations(method, upper)
      Level[i \in DOMAIN ops] ==
        IF i = 1 THEN [j \in DOMAIN keys |-> BaseField(db, keys, j)]
                 ELSE LevelOf(db, ops[i], Aliases(Level[i - 1]), i - 1)
  IN  UNION {ToSet(Level[i]) : i \in DOMAIN ops}

-----------------------------------------------------------------------------

(* The cast of a compared field is looked up by its casefolded name among  *)
(* the names as the engines spell them.                                    *)
TypeNamed(side, name) ==
  LET hits == {i \in DOMAIN side.columns : side.columns[i].name = name}
  IN  IF hits = {} THEN "none" ELSE side.columns[CHOOSE i \in hits : TRUE].type

CompFieldCast(db, name) ==
  LET s == TypeNamed(db.source, name)
      t == TypeNamed(db.target, name)
  IN  IF IsBool(s, t) THEN "bool" ELSE IF IsUuid(s, t) THEN "uuid_string" ELSE "none"

NameIn(side, name) == IF Has(side, name) THEN ColumnOf(side, name).name ELSE name

ComparisonConfigs(db, names) ==
  [i \in DOMAIN names |->
    Reference(NameIn(db.source, names[i]), NameIn(db.target, names[i]),
              names[i], CompFieldCast(db, names[i]))]

(* build_comp_fields, where the source is zipped with itself, less the     *)
(* primary keys.                                                           *)
CompFields(db, request, exclude, primary) ==
  LET listed == Listed(db.source.columns, request, exclude)
      keys == Keys(OfSupportedType(db, listed, listed, listed))
  IN  Keep(keys, ToSet(keys) \ ToSet(primary))

CompFieldsRaise(db, request, exclude) ==
  \/ exclude /\ request.all
  \/ LET listed == Listed(db.source.columns, request, exclude)
     IN  FilterRaises(db, listed, listed)

(* Strings of Teradata are compared without their padding. *)
OnTeradata(db) == "teradata" \in {db.source.client, db.target.client}

Padded(db, key) ==
  /\ "string" \in {ColumnOf(db[s], key).type : s \in Sides}
  /\ CompFieldCast(db, key) = "none"

RstripFields(db, keys) ==
  {Field(<<ColumnOf(db.source, k).name>>, <<ColumnOf(db.target, k).name>>,
         "rstrip", "none", <<"rstrip">> \o k, 0) : k \in {x \in ToSet(keys) : Padded(db, x)}}

WithRstrip(db, keys) ==
  [i \in DOMAIN keys |-> IF Padded(db, keys[i]) THEN <<"rstrip">> \o keys[i] ELSE keys[i]]

=============================================================================
