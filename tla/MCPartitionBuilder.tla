------------------------- MODULE MCPartitionBuilder -------------------------
(* Orders of the key values for the runs of PartitionBuilder.                *)
EXTENDS PartitionBuilder

SameOrder == [side \in Sides |-> [v \in Values |-> v]]

\* The target's collation does not tell two values apart.
CoarseOrder == [SameOrder EXCEPT !["target"] = [v \in Values |-> v \div 2]]
=============================================================================
