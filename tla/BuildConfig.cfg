CONSTANTS
  MaxColumnLength <- MCMaxColumnLength
  MaxConcatDefault <- MCMaxConcatDefault
  Numeral <- MCNumeral
  PaddedTypes <- MCPaddedTypes
  Inputs <- MCInputs
SPECIFICATION Spec
INVARIANTS
  QueriesAgree
  NoNameTwice
  RequestedColumnsAreCompared
  AggregatesOnOwnColumns
