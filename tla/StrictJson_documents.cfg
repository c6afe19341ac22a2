SPECIFICATION Spec
CONSTANTS
  TreeDepth = 3
  TreeMembers = 4
  TreeValues = 6
  Names <- MCNames
  LongNames <- MCLongNames
  JwkMembers <- MCJwkMembers
  Texts <- MCTexts
  MaxDepth <- MCMaxDepth
  MaxMembers <- MCMaxMembers
  MaxValues <- MCMaxValues
  MaxKeys = 2
INVARIANTS
  TypeOK
  AcceptsExactly
  ResultIsDocument
  LimitsAreReported
CHECK_DEADLOCK FALSE
