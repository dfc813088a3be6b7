\* Two processes that write a directory of a bucket whose path has no final slash.
SPECIFICATION Spec
CONSTANTS
  Proc = {p1, p2}
  Names = {"n"}
  None = None
  t = t
  Words = {t}
  Legacy = Legacy
  Connections <- SomeConnections
  CommandLines <- SomeCommandLines
  ChunkSize = 2
  MaxKills = 0
SYMMETRY Processes
INVARIANTS
  OverwriteProtection
