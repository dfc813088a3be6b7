--------------------------- MODULE MCConfigRunner ---------------------------
(* Directories for the runs of ConfigRunner: file number -> validations.     *)
EXTENDS ConfigRunner, TLC

\* All files there; the last one missing; the last one cut off while it was written.
TwoFiles ==
  {(0 :> <<"p1", "p2">> @@ 1 :> <<"p3">>),
   (0 :> <<"p1", "p2">>),
   (0 :> <<"p1", "p2">> @@ 1 :> <<>>)}
=============================================================================
