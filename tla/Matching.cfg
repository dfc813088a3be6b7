CONSTANTS
  Fold <- MCFold
  Same = 10
  FoldName <- MCFoldName
  Similarity <- MCSimilarity
  Catalogs <- MCCatalogs
  Requests <- MCRequests
  Unlisted <- MCUnlisted
  FieldLists <- MCFieldLists
SPECIFICATION Spec
INVARIANTS
  NamesakesAreMatched
  EveryFieldJudgedOnce
  AcceptedTypesOnlyWiden
