---------------------------- MODULE MCValidation ----------------------------
(* Values for the runs of Validation.                                        *)
EXTENDS Validation, TLC

OneColumn == <<"b">>
FourColumns == <<"a", "b", "c", "d">>

UniqueKeys == [k \in Keys |-> {1}]
FirstKeyTwice == [k \in Keys |-> IF k = "k1" THEN {1, 2} ELSE {1}]
EveryKeyTwice == [k \in Keys |-> {1, 2}]

\* Only b is nullable.
NullableB == [k \in Keys |-> [f \in Fields |-> IF f = "b" THEN {1, NULL} ELSE {1}]]
Amounts == [k \in Keys |-> [f \in Fields |-> {0, 2, 3, NULL}]]
=============================================================================
