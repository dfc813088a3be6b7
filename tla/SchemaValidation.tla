-------------------------- MODULE SchemaValidation --------------------------
(***************************************************************************)
(* The comparison of two schemas (schema_validation.py): a verdict for     *)
(* each name of a column, and which differences of types are accepted.     *)
(*                                                                         *)
(* A type has a name, the mark "!" if it may not be NULL, and arguments in *)
(* parentheses: precision and scale if it is a decimal.  A pair of the     *)
(* allow list has ranges for these: <<n>> or <<lower, upper>>.             *)
(***************************************************************************)
EXTENDS Integers, Sequences, FiniteSets, SequencesExt

CONSTANT FoldName       \* str.casefold of the names of columns

\* casefold leaves no capitals.
ASSUME FoldNameAssumption == \A n \in DOMAIN FoldName : FoldName[n] # "N/A"

Type(name, required, paren, p, s) ==
  [name |-> name, required |-> required, paren |-> paren, p |-> p, s |-> s]

FieldTypes == [name : STRING, required : BOOLEAN, paren : BOOLEAN, p : Int, s : Int]

-----------------------------------------------------------------------------

(* get_typeb_numeric_sustr: the pattern knows decimals only. *)
PrecisionAndScale(t) ==
  IF t.name = "decimal" /\ t.paren THEN <<t.p, t.s>> ELSE <<-1, -1>>

StripNull(t) == [t EXCEPT !.required = FALSE]

(* Slip: the scale is not compared. *)
HigherByPrecision(source, target) ==
  /\ StripNull(source) # target
  /\ source.paren /\ target.paren
  /\ PrecisionAndScale(source)[1] < PrecisionAndScale(target)[1]

(* parse_n_validate_datatypes, the first of its two answers: neither of    *)
(* precision and scale is lower and one of them is higher.  Types without  *)
(* parentheses, wider or not, never are.                                   *)
HigherPrecision(source, target) ==
  LET a == PrecisionAndScale(source)
      b == PrecisionAndScale(target)
  IN  /\ StripNull(source) # target
      /\ source.paren /\ target.paren
      /\ a[1] <= b[1] /\ a[2] <= b[2] /\ a # b

-----------------------------------------------------------------------------

(* expand_precision_range: a range of one value raises. *)
RangeRaises(r) == Len(r) = 2 /\ r[1] >= r[2]

ExpandRange(r) == IF Len(r) = 1 THEN {r[1]} ELSE r[1]..r[2]

(* Only decimals have ranges. *)
ExpandType(t) ==
  {Type(t.name, t.required, t.paren, p, q) : p \in ExpandRange(t.p), q \in ExpandRange(t.s)}

TypeRaises(t) == RangeRaises(t.p) \/ RangeRaises(t.s)

AllowListRaises(pairs) == \E pair \in pairs : TypeRaises(pair[1]) \/ TypeRaises(pair[2])

(* parse_allow_list *)
AllowListMap(pairs) == UNION {ExpandType(pair[1]) \X ExpandType(pair[2]) : pair \in pairs}

-----------------------------------------------------------------------------

(* The fields by their casefolded names: of two that differ in case only,  *)
(* the type is the later one's.                                            *)
CasefoldFields(fields) ==
  [n \in {FoldName[fields[i][1]] : i \in DOMAIN fields} |->
     LET named == {i \in DOMAIN fields : FoldName[fields[i][1]] = n}
     IN  fields[CHOOSE i \in named : \A j \in named : j <= i][2]]

Drop(fields, excluded) == [n \in DOMAIN fields \ excluded |-> fields[n]]

Result(source, target, status) == [source |-> source, target |-> target, status |-> status]

(* The verdict on a field of both sides. *)
FieldStatus(s, t, allowed) ==
  IF s = t \/ <<s, t>> \in allowed \/ HigherPrecision(s, t) THEN "success" ELSE "fail"

(* Slip: excluded columns are dropped from the source only. *)
SchemaMatchingHalfExcluded(sourceFields, targetFields, excluded, allowed) ==
  LET s == Drop(CasefoldFields(sourceFields), excluded)
      t == CasefoldFields(targetFields)
  IN  {Result(n, "N/A", "fail") : n \in DOMAIN s \ DOMAIN t}
        \cup {Result("N/A", n, "fail") : n \in DOMAIN t \ DOMAIN s}
        \cup {Result(n, n, FieldStatus(s[n], t[n], allowed)) : n \in DOMAIN s \cap DOMAIN t}

(* schema_validation_matching: the results, in the order of no consequence *)
(* of the dictionaries.                                                    *)
SchemaMatching(sourceFields, targetFields, excluded, allowed) ==
  LET s == Drop(CasefoldFields(sourceFields), excluded)
      t == Drop(CasefoldFields(targetFields), excluded)
  IN  {Result(n, "N/A", "fail") : n \in DOMAIN s \ DOMAIN t}
        \cup {Result("N/A", n, "fail") : n \in DOMAIN t \ DOMAIN s}
        \cup {Result(n, n, FieldStatus(s[n], t[n], allowed)) : n \in DOMAIN s \cap DOMAIN t}

=============================================================================
