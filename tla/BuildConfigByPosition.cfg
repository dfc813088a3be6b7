CONSTANTS
  MaxColumnLength <- MCMaxColumnLength
  MaxConcatDefault <- MCMaxConcatDefault
  Numeral <- MCNumeral
  PaddedTypes <- MCPaddedTypes
  Inputs <- MCInputs
SPECIFICATION Spec
INVARIANT OnlyUnsupportedColumnsAreLeftOut
