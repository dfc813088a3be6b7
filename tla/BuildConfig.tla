----------------------------- MODULE BuildConfig -----------------------------
(***************************************************************************)
(* From the arguments of `validate row`, `validate column` and `validate   *)
(* custom-query` to the two queries of every validation: the split of the  *)
(* columns into configurations (get_pre_build_configs), the parts each     *)
(* ConfigManager is given in turn (build_config_from_args), and the        *)
(* queries a ValidationBuilder compiles from it.  An exception anywhere    *)
(* ends the command.                                                       *)
(***************************************************************************)
EXTENDS RowConfig, AggregateConfig, QueryCompile

CONSTANTS Inputs,            \* pairs of tables and arguments, [db, args]
          MaxConcatDefault   \* client -> columns it can concatenate, 0 if any

\* A type without a name is none an engine pads.
ASSUME PaddedTypesAssumption == "none" \notin PaddedTypes

(* The tables a command is given.  Columns have names of their own and,    *)
(* casefolded, keys of their own; a name that is spelled like a key has    *)
(* that key; and no table names a column as DVT names a calculated field.  *)
Reserved ==
  {"cast", "ifnull", "rstrip", "upper", "concat", "hash", "dvt_calc_col",
   "length", "byte_length", "epoch_seconds"}
    \cup {CastPrefix[type] : type \in DOMAIN CastPrefix} \cup AggregateTypes

ColumnName == {n \in Seq(STRING) : n # <<>> /\ n[1] \notin Reserved}

TableColumn == [key : ColumnName, name : ColumnName, type : STRING, raw : STRING]

IsTable(side) ==
  /\ side \in [client : STRING, columns : Seq(TableColumn), primary : Seq(Seq(STRING))]
  /\ side.columns # <<>>
  /\ IsInjective(Keys(side.columns))
  /\ IsInjective([i \in DOMAIN side.columns |-> side.columns[i].name])
  /\ {i - 1 : i \in DOMAIN side.columns} \subseteq DOMAIN Numeral
  /\ IsInjective(side.primary)

ColumnsOf(tables) == UNION {ToSet(tables[s].columns) : s \in Sides}

AllColumns == [all |-> TRUE, list |-> <<>>]
List(keys) == [all |-> FALSE, list |-> keys]

ColumnLists == [all : BOOLEAN, list : Seq(Seq(STRING))]

\* What the code takes for granted of tables and the parser of arguments: lists name a
\* column once, and a type of aggregation is given once, with a list that is not empty.
ASSUME TablesAssumption ==
  \A tables \in {input.db : input \in Inputs} :
    /\ \A s \in Sides : IsTable(tables[s]) /\ MaxConcatDefault[tables[s].client] \in Nat
    /\ \A c, d \in ColumnsOf(tables) : c.name = d.key => c.key = d.key

ASSUME ArgumentsAssumption ==
  \A arguments \in {input.args : input \in Inputs} :
    /\ arguments.kind \in {"row", "column"}
    /\ arguments.method \in {"hash", "concat", "comparison", "none"}
    /\ {arguments.exclude, arguments.upper, arguments.custom} \subseteq BOOLEAN
    /\ arguments.maxConcat \in Nat
    /\ arguments.columns \in ColumnLists
    /\ \A list \in {arguments.columns.list, arguments.primary, arguments.groups} :
         list \in Seq(Seq(STRING)) /\ IsInjective(list)
    /\ arguments.aggregates \in Seq([type : AggregateTypes, columns : ColumnLists])
    /\ IsInjective([i \in DOMAIN arguments.aggregates |-> arguments.aggregates[i].type])
    /\ List(<<>>) \notin {arguments.aggregates[i].columns : i \in DOMAIN arguments.aggregates}

VARIABLES db,            \* the two tables
          args,          \* the arguments
          stage,         \* the step of the command
          pending,       \* the column lists of the configurations still to build
          config,        \* the ConfigManager being built
          unaggregated,  \* the aggregations it is still to be given
          managers,      \* the configurations built
          queries        \* the pairs of queries compiled

vars == <<db, args, stage, pending, config, unaggregated, managers, queries>>

EmptyConfig == [columns |-> List(<<>>), calculated |-> {}, primary |-> <<>>,
                comparison |-> <<>>, groups |-> <<>>, aggregates |-> <<>>]

Row == args.kind = "row"
Hashed == args.method \in {"hash", "concat"}

Init ==
  /\ \E i \in Inputs : db = i.db /\ args = i.args
  /\ stage = "start"
  /\ pending = <<>> /\ unaggregated = <<>> /\ managers = <<>> /\ queries = <<>>
  /\ config = EmptyConfig

Raise == /\ stage' = "raised"
         /\ UNCHANGED <<db, args, pending, config, unaggregated, managers, queries>>

-----------------------------------------------------------------------------

(* The user's limit, or the smaller one of the two clients. *)
MaxConcatColumns ==
  LET limits == {MaxConcatDefault[db[s].client] : s \in Sides} \ {0}
  IN  IF args.maxConcat # 0 THEN args.maxConcat
      ELSE IF limits = {} THEN 0 ELSE Min(limits)

(* The columns of --hash or --concat, inverted for --exclude-columns. *)
RequestedList ==
  LET keys == Keys(db.source.columns)
  IN  CASE args.columns.all -> keys
        [] ~args.columns.all /\ args.exclude ->
             Keep(keys, ToSet(keys) \ ToSet(args.columns.list))
        [] OTHER -> args.columns.list

(* Slip: the last chunk is dropped when it is not full. *)
SublistsFull(s, size) ==
  [n \in 1..(Len(s) \div size) |-> SubSeq(s, (n - 1) * size + 1, n * size)]

(* list_to_sublists *)
Sublists(s, size) ==
  [n \in 1..((Len(s) + size - 1) \div size) |->
     SubSeq(s, (n - 1) * size + 1, Min({n * size, Len(s)}))]

(* _concat_column_count_configs: "*" stays "*" unless the columns are      *)
(* split.  An empty list turns hash and concat off; see Nothing below.     *)
ColumnRequests ==
  IF MaxConcatColumns # 0 /\ Len(RequestedList) > MaxConcatColumns
    THEN LET chunks == Sublists(RequestedList, MaxConcatColumns)
         IN  [n \in DOMAIN chunks |-> List(chunks[n])]
    ELSE << IF args.exclude THEN List(RequestedList) ELSE args.columns >>

PreBuild ==
  /\ stage = "start"
  /\ IF Row /\ Hashed
       THEN IF args.columns.all /\ args.exclude
              THEN Raise
              ELSE /\ pending' = ColumnRequests
                   /\ stage' = "begin"
                   /\ UNCHANGED <<db, args, config, unaggregated, managers, queries>>
       ELSE /\ pending' = << args.columns >>
            /\ stage' = "begin"
            /\ UNCHANGED <<db, args, config, unaggregated, managers, queries>>

(* A ConfigManager for the next list of columns; a column validation       *)
(* begins with the count of rows.                                          *)
NewConfigManager ==
  /\ stage = "begin" /\ pending # <<>>
  /\ config' = [EmptyConfig EXCEPT !.columns = Head(pending),
                                  !.aggregates = IF Row THEN <<>> ELSE <<CountOfRows>>]
  /\ pending' = Tail(pending)
  /\ unaggregated' = IF Row THEN <<>> ELSE args.aggregates
  /\ stage' = IF Row THEN "calculated fields" ELSE "aggregates"
  /\ UNCHANGED <<db, args, managers, queries>>

Extend(part, more, next) ==
  /\ config' = [config EXCEPT ![part] = @ \o more]
  /\ stage' = next
  /\ UNCHANGED <<db, args, pending, unaggregated, managers, queries>>

(* One type of aggregation after another. *)
AppendAggregates ==
  /\ stage = "aggregates" /\ unaggregated # <<>>
  /\ LET agg == Head(unaggregated)
     IN  IF AggregatesRaise(agg, args) THEN Raise
         ELSE /\ config' = WithAggregates(db, config, agg, args)
              /\ unaggregated' = Tail(unaggregated)
              /\ UNCHANGED <<db, args, stage, pending, managers, queries>>

AppendQueryGroups ==
  /\ stage = "aggregates" /\ unaggregated = <<>>
  /\ IF MissingColumn(db, args.groups) THEN Raise
     ELSE Extend("groups", ColumnConfigs(db, args.groups), "built")

(* --hash or --concat of an empty list, all columns being excluded, is not *)
(* given any more, as the configuration sees it.                           *)
Nothing == Hashed /\ ~config.columns.all /\ config.columns.list = <<>>

AppendCalculatedFields ==
  /\ stage = "calculated fields"
  /\ IF ~Hashed \/ Nothing
       THEN Extend("comparison", <<>>, "primary keys")
       ELSE IF DependentAliasesRaise(db, config.columns) THEN Raise
       ELSE /\ config' = [config EXCEPT
                 !.calculated = DependentAliases(db, args.method, config.columns, args.upper),
                 !.comparison = ComparisonConfigs(db, << <<args.method, "all">> >>)]
            /\ stage' = "primary keys"
            /\ UNCHANGED <<db, args, pending, unaggregated, managers, queries>>

(* Those given, else the table's own in the source or in the target; those *)
(* of a query have to be given.                                            *)
PrimaryKeys ==
  IF args.primary # <<>> \/ args.custom THEN args.primary
  ELSE IF db.source.primary # <<>> THEN db.source.primary ELSE db.target.primary

AppendPrimaryKeys ==
  /\ stage = "primary keys"
  /\ IF PrimaryKeys = <<>> \/ MissingColumn(db, PrimaryKeys) THEN Raise
     ELSE Extend("primary", ColumnConfigs(db, PrimaryKeys), "comparison fields")

(* With Teradata on a side, strings are compared through a calculated      *)
(* field, which asks for the column on both sides.                         *)
AppendComparisonFields ==
  /\ stage = "comparison fields"
  /\ LET names == CompFields(db, args.columns, args.exclude, PrimaryKeys)
         raises == ~Hashed /\ \/ CompFieldsRaise(db, args.columns, args.exclude)
                              \/ OnTeradata(db) /\ MissingColumn(db, names)
         padded == OnTeradata(db)
         new == [config EXCEPT
                  !.calculated = @ \cup (IF padded THEN RstripFields(db, names) ELSE {}),
                  !.comparison = @ \o ComparisonConfigs(db,
                                        IF padded THEN WithRstrip(db, names) ELSE names)]
         next == IF Hashed THEN config ELSE new
     IN  IF raises \/ next.comparison = <<>>
           THEN Raise
           ELSE /\ config' = next
                /\ stage' = "built"
                /\ UNCHANGED <<db, args, pending, unaggregated, managers, queries>>

KeepConfigManager ==
  /\ stage = "built"
  /\ managers' = Append(managers, config)
  /\ stage' = IF pending = <<>> THEN "validate" ELSE "begin"
  /\ UNCHANGED <<db, args, pending, config, unaggregated, queries>>

(* The ValidationBuilder of the next configuration compiles both queries.  *)
Compile ==
  /\ stage = "validate" /\ Len(queries) < Len(managers)
  /\ LET next == managers[Len(queries) + 1]
     IN  IF \E s \in Sides : ~Compiles(db[s], s, next)
           THEN Raise
           ELSE /\ queries' = Append(queries, [s \in Sides |-> Query(db[s], s, next)])
                /\ UNCHANGED <<db, args, stage, pending, config, unaggregated, managers>>

Done ==
  /\ stage \in {"validate", "raised"} /\ (stage = "validate" => Len(queries) = Len(managers))
  /\ UNCHANGED vars

Next == \/ PreBuild \/ NewConfigManager
        \/ AppendAggregates \/ AppendQueryGroups
        \/ AppendCalculatedFields \/ AppendPrimaryKeys \/ AppendComparisonFields
        \/ KeepConfigManager \/ Compile \/ Done

Spec == Init /\ [][Next]_vars

Finished == stage = "validate" /\ Len(queries) = Len(managers)

-----------------------------------------------------------------------------

(* A side without what its query may do on its own: trim the strings its   *)
(* engine pads, and group timestamps, but not dates, by their day.         *)
Neutral(side) ==
  LET Plain(c) == [c EXCEPT !.raw = "none",
                            !.type = IF c.type = "date" THEN "timestamp" ELSE c.type]
  IN  [side EXCEPT !.columns = [i \in DOMAIN side.columns |-> Plain(side.columns[i])]]

(* A side groups timestamps by day whatever the other has in the column.   *)
GroupsAreAlike ==
  \A i \in DOMAIN args.groups :
    LET Moment(s) == ColumnOf(db[s], args.groups[i]).type \in Temporal
    IN  Moment("source") <=> Moment("target")

(* The two queries of every configuration have the same columns and        *)
(* compute each of them in the same way from the columns of the same       *)
(* names, whatever the case and the order an engine gives them in;         *)
(* trimming padded strings and grouping moments by day are a side's own    *)
(* affair, unless only one side has moments in the column.  Otherwise      *)
(* equal rows would be reported as different, or different ones as equal   *)
(* (config_manager.py 1444-1547, validation_builder.py 210-458).           *)
QueriesAgree ==
  \A n \in DOMAIN queries :
    LET neutral == [s \in Sides |-> Query(Neutral(db[s]), s, managers[n])]
    IN  GroupsAreAlike => neutral.source = neutral.target

(* The queries of a configuration give the same names to their columns and *)
(* none twice, however long the names are that columns are derived from: a *)
(* report is a join by these names (config_manager.py 844-852, 1192-1208,  *)
(* validation_builder.py 210-458).                                         *)
NoNameTwice ==
  \A n \in DOMAIN queries :
    LET names == [s \in Sides |-> [i \in DOMAIN queries[n][s] |-> queries[n][s][i].alias]]
    IN  names.source = names.target /\ IsInjective(names.source)

SourceKeys == ToSet(Keys(db.source.columns))

Supported(key) == Reasons(db, key, key) = {}

RequestedColumns ==
  {k \in ToSet(Keys(Listed(db.source.columns, args.columns, args.exclude))) : Supported(k)}

(* Where a column is compared: the configurations whose queries read it in *)
(* a column of their own result, keys aside.                               *)
ComparedIn(key) ==
  {n \in DOMAIN queries :
    \E i \in 1..Len(managers[n].comparison) : key \in queries[n].source[i].expr.reads}

(* The columns of both tables come in the same order. *)
Aligned == Keys(db.source.columns) = Keys(db.target.columns)

(* Nothing is wrong with what a row validation was asked to compare.  *)
WellFormed ==
  LET keys == SourceKeys
  IN  /\ PrimaryKeys # <<>> /\ ToSet(PrimaryKeys) \subseteq keys
      /\ args.columns.all => ~args.exclude
      /\ ToSet(args.columns.list) \subseteq keys
      /\ \A c \in keys : Supported(c)
      /\ RequestedColumns \ (IF Hashed THEN {} ELSE ToSet(PrimaryKeys)) # {}

(* A row validation of supported columns that both tables have gets to its *)
(* queries, and one that does compares every column that was asked for and *)
(* has a supported type in exactly one of the configurations it was split  *)
(* into; primary keys are no compared fields.  It is so when the columns   *)
(* come in the same order on both sides, since the code pairs them by      *)
(* position (config_manager.py 1378-1406, cli_tools.py 1582-1601).         *)
RequestedColumnsAreCompared ==
  Row /\ Aligned =>
    /\ stage = "raised" => ~WellFormed
    /\ Finished =>
         \A c \in RequestedColumns \ (IF Hashed THEN {} ELSE ToSet(PrimaryKeys)) :
           Cardinality(ComparedIn(c)) = 1

(* "Filter out columns with a data type that is incompatible with DVT": a  *)
(* column that was asked for and is supported is compared, in any order of *)
(* the columns.                                                            *)
OnlyUnsupportedColumnsAreLeftOut ==
  Finished /\ Row /\ Hashed => \A k \in RequestedColumns : ComparedIn(k) # {}

AskedFor(agg, key) ==
  agg.columns.all \/ (Contains(agg.columns.list, key) # args.exclude)

(* Excluding every column excludes none. *)
NoneLeft(agg) == args.exclude /\ \A c \in SourceKeys : ~AskedFor(agg, c)

(* The pairs of a type of aggregation and a column it was asked for. *)
AskedAggregates ==
  UNION {{<<agg.type, {c}>> : c \in {d \in SourceKeys : AskedFor(agg, d) \/ NoneLeft(agg)}} :
           agg \in ToSet(args.aggregates)}

(* Every type of aggregation supports a number. *)
Numeric(key) ==
  /\ Has(db.target, key)
  /\ {ColumnOf(db[s], key).type : s \in Sides} \subseteq Numbers
  /\ {RawOf(db[s], key) : s \in Sides} = {"none"}

(* What the aggregates of a query are of: their type and the columns read. *)
AggregatesDone(query) ==
  [i \in DOMAIN query |->
     LET agg == managers[1].aggregates[i - Len(query) + Len(managers[1].aggregates)]
     IN  <<agg.type, query[i].expr.reads>>]

(* Every aggregate of a column validation but the count of rows is of one  *)
(* column, of those it was asked for, no column is aggregated twice in the *)
(* same way, and each number that was asked for is: a calculated field     *)
(* that several aggregates share by its name is a field of their column,   *)
(* even if the name is abstract (config_manager.py 854-886, 1148-1232).    *)
AggregatesOnOwnColumns ==
  Finished /\ ~Row =>
    \A s \in Sides :
      LET first == Len(args.groups) + 2
          done == AggregatesDone(SubSeq(queries[1][s], first, Len(queries[1][s])))
      IN  /\ IsInjective(done)
          /\ ToSet(done) \subseteq AskedAggregates
          /\ {p \in AskedAggregates : \A c \in p[2] : Numeric(c)} \subseteq ToSet(done)

=============================================================================
