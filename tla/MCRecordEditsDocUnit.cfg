SPECIFICATION Spec
CONSTANTS
  Width = 5
  MinPrefixLen = 3
  MaxPrefixLen = 4
  GlobalUnicast <- MCGlobalUnicast
  Teredo <- MCTeredo
  SixToFour <- MCSixToFour
  EmbeddedRanges <- MCEmbeddedRanges
  AddressOf <- MCAddressOf
  TextOf <- MCTextOf
  Printable <- MCPrintable
  Alphanumerics = {"a", "b"}
  AtomPunctuation = {"+"}
  LowerOf <- MCLowerOf
  MaxLabelLen = 2
  MaxDomainLen = 3
  MaxPolicyPrefixes = 2
  DefaultUnit = 4
  OctetsOf <- MCOctetsOf
  KeyLen = 32
  KeyA = KeyA
  NoPoint = NoPoint
  NoRua = NoRua
  NotParsed = NotParsed
  BaseTexts <- MCBaseTexts
  Pieces <- MCPieces
  MaxEdits = 1
INVARIANT UnitCoversEveryPrefix
CHECK_DEADLOCK FALSE
