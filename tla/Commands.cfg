\* Three processes with any three commands, on a local directory or a bucket, of which
\* one may be killed; connections of three types, two of which have texts of one length.
SPECIFICATION Spec
CONSTANTS
  Proc = {p1, p2, p3}
  Names = {"n"}
  None = None
  t = t
  Words = {t}
  Legacy = Legacy
  Connections <- SomeConnections
  CommandLines <- SomeCommandLines
  ChunkSize = 2
  MaxKills = 1
SYMMETRY Processes
INVARIANTS
  TypeOK
  ConnectionsSurvive
  NeverLegacyByAccident
  SuccessStoresKeptRows
  PartOfAReportOnlyInBigQuery
  StoredConfigsAccountedFor
