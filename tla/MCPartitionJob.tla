--------------------------- MODULE MCPartitionJob ---------------------------
(* Table pairs for the runs of PartitionJob.                                 *)
EXTENDS PartitionJob

RepeatedSource == <<"a", "b", "a">>
=============================================================================
