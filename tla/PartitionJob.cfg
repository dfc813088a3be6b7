\* Three table pairs, two of them with the same source table, generated up to twice in
\* one directory; then a job whose tasks may fail and be started again.
SPECIFICATION JobSpec
CONSTANTS
  Folders <- RepeatedSource
  PartCounts = {2, 5}
  parts_per_file = 2
  GCS = FALSE
  MaxRuns = 2
  Tasks = 3
  MaxAttempts = 2
  MaxFailures = 1
INVARIANTS
  TypeOK
  EveryPartitionInOneFile
  FilesAreFull
  StoredPartitionsAreFirst
  JobCoversTable
  OldPartitionsOnlyFromOldFiles
