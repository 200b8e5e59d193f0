SPECIFICATION LoopSpec
CONSTANTS
  Printable <- MCPrintable
  Texts <- MCTexts
  MaxLen = 3
INVARIANTS
  AcceptedAsWritten
  LoopComputesTags
  NothingDropped
CHECK_DEADLOCK FALSE
