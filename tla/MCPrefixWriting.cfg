SPECIFICATION WritingSpec
CONSTANTS
  Width = 128
  MinPrefixLen = 32
  MaxPrefixLen = 64
  GlobalUnicast <- MCGlobalUnicast
  Teredo <- MCTeredo
  SixToFour <- MCSixToFour
  EmbeddedRanges <- MCEmbeddedRanges
  AddressOf <- MCAddressOf
  TextOf <- MCTextOf
  TypedLexemes = {"::", "/", "+", "0", "1", "2", "5", "8", "9"}
  MaxTyped = 5
  NotShown = NotShown
INVARIANTS
  OneSpelling
  ShownIsRead
CHECK_DEADLOCK FALSE
