SPECIFICATION Spec
CONSTANTS
  Width = 8
  MinPrefixLen = 3
  MaxPrefixLen = 6
  GlobalUnicast <- MCGlobalUnicast
  Teredo <- MCTeredo
  SixToFour <- MCSixToFour
  EmbeddedRanges <- MCEmbeddedRanges
  U64Max = 1023
  MaxLifetimeSecs = 4
  SkewSecs = 1
  DefaultUnit = 6
  ObservedUnitLen = 6
  MaxTokenLen = 3072
  OperatorDomains <- TwoOperators
  SelectorLabels <- OneSelector
  Lowercase <- MCLowercase
  SmallOrderKeys <- WeakKeys
  Decode <- Corpus
  Ineligible <- MCIneligible
  KeyA = KeyA
  KeyB = KeyB
  WeakKey = WeakKey
  Rua = Rua
  OtherRua = OtherRua
  Unusable = Unusable
  UnknownAlgorithm = UnknownAlgorithm
  None = None
  Conns = {c1, c2}
  Tokens <- RaceTokens
  Sources <- OneSource
  PolicyAnswers <- RacePolicies
  KeyAnswers <- RaceKeys
  StartTimes = {12}
  MaxTime = 0
  MaxChanges = 2
SYMMETRY ConnsSymmetry
INVARIANTS
  PassIsAccountable
  TestingStakesNothing
CHECK_DEADLOCK FALSE
