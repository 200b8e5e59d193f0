SPECIFICATION NamesSpec
CONSTANTS
  Alphanumerics = {"a", "A"}
  LowerOf <- MCLowerOf
  MaxLabelLen = 2
  MaxDomainLen = 5
  Octets = {"a", "A", "-", ".", "_sworn", "_prefixes"}
  MaxKidTyped = 3
  MaxClaimTyped = 4
INVARIANTS
  NamesAreUnambiguous
  LabelRulesAgree
CHECK_DEADLOCK FALSE
