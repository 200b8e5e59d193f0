SPECIFICATION Spec
CONSTANTS
  Width = 8
  MinPrefixLen = 3
  MaxPrefixLen = 6
  GlobalUnicast <- MCGlobalUnicast
  Teredo <- MCTeredo
  SixToFour <- MCSixToFour
  EmbeddedRanges <- MCEmbeddedRanges
  U64Max = 1023
  MaxLifetimeSecs = 6
  SkewSecs = 2
  DefaultUnit = 6
  ObservedUnitLen = 6
  MaxTokenLen = 3072
  OperatorDomains <- OneOperator
  SelectorLabels <- OneSelector
  Lowercase <- MCLowercase
  SmallOrderKeys <- WeakKeys
  Decode <- Corpus
  Ineligible <- MCIneligible
  KeyA = KeyA
  KeyB = KeyB
  WeakKey = WeakKey
  Rua = Rua
  OtherRua = OtherRua
  Unusable = Unusable
  UnknownAlgorithm = UnknownAlgorithm
  None = None
  Conns = {c1}
  Tokens <- RecordTokens
  Sources <- AllSources
  PolicyAnswers <- AllPolicies
  KeyAnswers <- AllKeys
  StartTimes = {12}
  MaxTime = 0
  MaxChanges = 0
INVARIANTS
  UnverifiedFailsOnlyOnSignature
CHECK_DEADLOCK FALSE
