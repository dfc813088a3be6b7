---------------------------- MODULE MCBuildConfig ----------------------------
(* Values for BuildConfig: three columns, two of them with a long name,   *)
(* spelled in two cases and in two orders, of the types the code tells     *)
(* apart, on the clients it treats in their own way.                       *)
EXTENDS BuildConfig, TLC

MCMaxColumnLength == [c \in {"oracle", "bigquery", "teradata", "mssql", "db2_zos"} |->
                       IF c = "oracle" THEN 4 ELSE 8]

MCMaxConcatDefault == [c \in DOMAIN MCMaxColumnLength |->
                        CASE c = "oracle" -> 4 [] c = "mssql" -> 2 [] OTHER -> 0]

MCNumeral == [n \in 0..9 |-> ToString(n)]

MCPaddedTypes == {"CHAR"}

k == <<"k">>
a == <<"a", "d", "d", "r">>
l == <<"l", "o", "n", "g">>
x == <<"x">>       \* no column has this name

Upper(key) == [i \in DOMAIN key |-> key[i] \o "^"]

(* The raw type of a large object, or of a padded string, if the engine    *)
(* has one for the ibis type.                                              *)
Raw(client, type, storage) ==
  CASE storage = "large" /\ client = "oracle" /\ type = "string" -> "LONG"
    [] storage = "large" /\ client = "oracle" /\ type = "binary" -> "LONG_RAW"
    [] storage = "large" /\ client = "mssql" /\ type = "string" -> "text"
    [] storage = "large" /\ client = "mssql" /\ type = "binary" -> "image"
    [] storage = "large" /\ client = "db2_zos" /\ type = "binary" -> "BLOB"
    [] storage = "padded" /\ client # "bigquery" /\ type = "string" -> "CHAR"
    [] OTHER -> "none"

Storages == {"plain", "large", "padded"}

Col(key, type, raw, upper) ==
  [key |-> key, name |-> IF upper THEN Upper(key) ELSE key, type |-> type, raw |-> raw]

Side(client, columns, primary) == [client |-> client, columns |-> columns, primary |-> primary]

Orders == {<<1, 2, 3>>, <<1, 3, 2>>, <<1, 3>>}

Arrange(columns, order) == [i \in DOMAIN order |-> columns[order[i]]]

Clients == {<<"oracle", "bigquery">>, <<"teradata", "bigquery">>,
            <<"oracle", "oracle">>, <<"mssql", "db2_zos">>}

Databases(types) ==
  {[source |-> Side(c[1], <<Col(k, "int64", "none", TRUE), Col(a, t[1], Raw(c[1], t[1], r), TRUE),
                             Col(l, t[2], "none", TRUE)>>, <<k>>),
    target |-> Side(c[2], Arrange(<<Col(k, "int64", "none", FALSE),
                                     Col(a, t[3], Raw(c[2], t[3], r), FALSE),
                                     Col(l, t[4], "none", FALSE)>>, o), <<>>)] :
     c \in Clients, t \in types, r \in Storages, o \in Orders}

RowTypes ==
  {<<"string", "string", "string", "string">>, <<"timestamp", "boolean", "date", "string">>,
   <<"binary", "int64", "uuid", "int64">>, <<"binary", "string", "binary", "string">>,
   <<"date", "decimal", "timestamp", "decimal">>}

RowArgs ==
  {[kind |-> "row", custom |-> v[1], method |-> m, columns |-> c, exclude |-> e,
    primary |-> v[2], upper |-> v[3], maxConcat |-> v[4],
    aggregates |-> <<>>, groups |-> <<>>,
    bigint |-> FALSE, stringLength |-> FALSE, timestamps |-> FALSE] :
     m \in {"hash", "concat", "comparison"},
     c \in {AllColumns, List(<<a>>), List(<<l, a>>), List(<<x, a, k>>)},
     e \in BOOLEAN,
     v \in {<<FALSE, <<>>, TRUE, 0>>, <<TRUE, <<k, a>>, FALSE, 1>>, <<TRUE, <<>>, FALSE, 0>>}}

ColumnTypes ==
  {<<"string", "int32", "string", "int32">>, <<"timestamp", "string", "date", "json">>,
   <<"binary", "int64", "binary", "int64">>, <<"int32", "timestamp", "int32", "timestamp">>,
   <<"uuid", "decimal", "string", "decimal">>, <<"number", "json", "decimal", "json">>,
   <<"int32", "int32", "int32", "int32">>, <<"timestamp", "int32", "string", "int32">>,
   <<"string", "string", "string", "string">>}

Agg(type, columns) == [type |-> type, columns |-> columns]

ColumnArgs ==
  {[kind |-> "column", custom |-> FALSE, method |-> "none", columns |-> AllColumns,
    exclude |-> v[1], primary |-> <<>>, upper |-> FALSE, maxConcat |-> 0,
    aggregates |-> v[2], groups |-> v[3],
    bigint |-> b, stringLength |-> w, timestamps |-> w] :
     v \in {<<FALSE, <<Agg("sum", List(<<a>>)), Agg("avg", List(<<l>>))>>, <<k>>>>,
            <<FALSE, <<Agg("count", AllColumns), Agg("min", AllColumns), Agg("std", AllColumns)>>,
              <<>>>>,
            <<TRUE, <<Agg("max", List(<<k, a>>)), Agg("bit_xor", List(<<l>>))>>, <<a>>>>,
            <<TRUE, <<Agg("sum", AllColumns)>>, <<>>>>,
            <<FALSE, <<Agg("min", List(<<x>>))>>, <<>>>>,
            <<TRUE, <<Agg("max", List(<<a, l, k>>))>>, <<>>>>,
            <<FALSE, <<Agg("sum", AllColumns), Agg("avg", AllColumns)>>, <<x>>>>},
     b \in BOOLEAN, w \in BOOLEAN}

MCInputs == [db : Databases(RowTypes), args : RowArgs]
              \cup [db : Databases(ColumnTypes), args : ColumnArgs]

=============================================================================
