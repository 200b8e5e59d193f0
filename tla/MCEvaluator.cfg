SPECIFICATION Spec
CONSTANTS
  Width = 8
  MinPrefixLen = 3
  MaxPrefixLen = 6
  GlobalUnicast <- MCGlobalUnicast
  Teredo <- MCTeredo
  SixToFour <- MCSixToFour
  EmbeddedRanges <- MCEmbeddedRanges
  U64Max = 1023
  MaxLifetimeSecs = 6
  SkewSecs = 2
  DefaultUnit = 6
  ObservedUnitLen = 6
  MaxTokenLen = 3072
  OperatorDomains = {"ex.net", "Ex.NET", "b.net"}
  SelectorLabels = {"s1", "S1"}
  Lowercase <- MCLowercase
  SmallOrderKeys <- WeakKeys
  AddressOf <- MCAddressOf
  TextOf <- MCTextOf
  Printable <- MCPrintable
  Alphanumerics = {"a"}
  AtomPunctuation = {"+"}
  LowerOf <- MCLowerOf
  MaxLabelLen = 2
  MaxDomainLen = 3
  MaxPolicyPrefixes = 2
  OctetsOf <- MCOctetsOf
  KeyLen = 32
  KeyA = KeyA
  KeyB = KeyB
  WeakKey = WeakKey
  NoPoint = NoPoint
  NoRua = NoRua
  Nobody = Nobody
  NotUtf8 = "NotUtf8"
  KeyLines <- MCKeyLines
  CaseLines <- MCCaseLines
  KeyOctets <- MCKeyOctets
  Decode <- MCDecode
  TimeOf <- MCTimeOf
  MaxLines = 2
INVARIANTS
  TypeOK
  PolicyOnlyNarrows
  TestingOnlyObserves
  TabsAreSpaces
  PassRestsOnText
  TimeOnlyMovesThroughWindow
  LostTimesPassNothing
CHECK_DEADLOCK FALSE
