---------------------------- MODULE TableColumns ----------------------------
(***************************************************************************)
(* The two tables of a validation as ConfigManager sees them: for each     *)
(* side a client and a sequence of columns, a column with its name as the  *)
(* engine spells it, its casefolded name (key), its ibis type and its raw  *)
(* type in the engine.  The marks of types that may not be NULL are left   *)
(* out: the code lists every type with and without the mark.  The columns  *)
(* of one table have different keys.                                       *)
(*                                                                         *)
(* A name is a sequence of parts: "cast__a" is <<"cast", "a">>, a long     *)
(* column name is a sequence of several parts, and the length of a name is *)
(* the number of its parts.                                                *)
(***************************************************************************)
EXTENDS Naturals, Sequences, FiniteSets, SequencesExt, FiniteSetsExt, Lists

CONSTANTS MaxColumnLength,   \* client -> longest name of a column
          Numeral            \* number -> its digits, a part of a name

\* Different numbers have different digits.
ASSUME NumeralAssumption == Numeral \in [DOMAIN Numeral -> STRING] /\ IsInjective(Numeral)

Sides == {"source", "target"}

Keys(columns) == [i \in DOMAIN columns |-> columns[i].key]

(* The dictionaries {x.casefold(): str(x)} of the code, as lookups. *)
Has(side, key) == \E i \in DOMAIN side.columns : side.columns[i].key = key

ColumnOf(side, key) ==
  side.columns[CHOOSE i \in DOMAIN side.columns : side.columns[i].key = key]

(* raw_source_types.get(name, [None])[0] *)
RawOf(side, key) == IF Has(side, key) THEN ColumnOf(side, key).raw ELSE "none"

(* A name met earlier in the sequence is not repeated: keys of a dict. *)
Distinct(s) ==
  FoldLeft(LAMBDA seen, x : IF Contains(seen, x) THEN seen ELSE Append(seen, x), <<>>, s)

-----------------------------------------------------------------------------

IsRawDataType(db, client, s, t, types) ==
  \/ db.source.client = client /\ RawOf(db.source, s) \in types
  \/ db.target.client = client /\ RawOf(db.target, t) \in types

IsOracleLob(db, s, t) ==
  IsRawDataType(db, "oracle", s, t, {"LONG", "LONG_NVARCHAR", "LONG_RAW"})

IsSqlServerText(db, s, t) == IsRawDataType(db, "mssql", s, t, {"text", "ntext"})

IsSqlServerImage(db, s, t) == IsRawDataType(db, "mssql", s, t, {"image"})

IsDb2Blob(db, s, t) ==
  \/ IsRawDataType(db, "db2", s, t, {"BLOB"})
  \/ IsRawDataType(db, "db2_zos", s, t, {"BLOB"})

IsDb2ZosBlob(db, s, t) == IsRawDataType(db, "db2_zos", s, t, {"BLOB"})

IsDb2Xml(db, s, t) == IsRawDataType(db, "db2", s, t, {"XML"})

IsDb2ZosXml(db, s, t) == IsRawDataType(db, "db2_zos", s, t, {"XML"})

(* One type that says BOOLEAN (or UUID) speaks for both sides. *)
IsBool(s, t) == "boolean" \in {s, t}

IsUuid(s, t) == "uuid" \in {s, t}

(* "decimal" stands for a decimal of more than 18 digits, "number" for one *)
(* of at most 16.                                                          *)
DecimalTooBig(s, t, margin) ==
  {s, t} \subseteq {"decimal"} \cup (IF margin > 0 THEN {"int64"} ELSE {})

KeyCast(s, t) ==
  IF IsUuid(s, t) THEN "uuid_string"
  ELSE IF DecimalTooBig(s, t, 0) \/ "binary" \in {s, t} THEN "string"
  ELSE "none"

-----------------------------------------------------------------------------

MaxLength(db) == Min({MaxColumnLength[db[s].client] : s \in Sides})

(* Slip: names that are too long lose their number too. *)
PrefixUnnumbered(db, prefix, name, number) ==
  IF Len(name) + 1 > MaxLength(db)
    THEN <<prefix, "dvt_calc_col">>
    ELSE <<prefix>> \o name

(* A derived column is named after its column, or numbered if the name     *)
(* would be too long for one of the engines.                               *)
Prefix(db, prefix, name, number) ==
  IF Len(name) + 1 > MaxLength(db)
    THEN <<prefix, "dvt_calc_col", Numeral[number]>>
    ELSE <<prefix>> \o name

(* A calculated field: its arguments on either side, what it does to them, *)
(* the name it gets and the level it is computed at.                       *)
Field(source, target, op, param, alias, depth) ==
  [source |-> source, target |-> target, op |-> op, param |-> param,
   alias |-> alias, depth |-> depth]

(* A reference to one column of either side under one name. *)
Reference(source, target, alias, cast) ==
  [source |-> source, target |-> target, alias |-> alias, cast |-> cast]

-----------------------------------------------------------------------------

(* build_column_configs: primary keys and grouped columns. *)
MissingColumn(db, keys) ==
  \E i \in DOMAIN keys : ~Has(db.source, keys[i]) \/ ~Has(db.target, keys[i])

ColumnConfigs(db, keys) ==
  [i \in DOMAIN keys |->
    LET s == ColumnOf(db.source, keys[i])
        t == ColumnOf(db.target, keys[i])
    IN  Reference(s.name, t.name, keys[i], KeyCast(s.type, t.type))]

=============================================================================
