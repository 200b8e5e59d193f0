SPECIFICATION Spec
CONSTANTS
  Width = 5
  MinPrefixLen = 3
  MaxPrefixLen = 4
  GlobalUnicast <- MCGlobalUnicast
  Teredo <- MCTeredo
  SixToFour <- MCSixToFour
  EmbeddedRanges <- MCEmbeddedRanges
INVARIANTS
  ContainsIsMembership
  OverlapIsSharedAddress
  CoverIsInclusion
  AttestableIsEligible
