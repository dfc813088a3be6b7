\* Two processes of an indexed job, or of a job without indexes, two starts each, with
\* and without their files.
SPECIFICATION FairSpec
CONSTANTS
  Tasks = 2
  MaxAttempts = 2
  MaxFailures = 2
  ConfigDirs <- TwoFiles
INVARIANTS
  TypeOK
  SuccessMeansStored
  DuplicatesComeFromRetries
  FailureCostsOneFile
PROPERTIES
  JobEnds
