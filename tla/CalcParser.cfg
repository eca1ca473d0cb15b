SPECIFICATION FairSpec
CONSTANTS
  Kinds <- MCKinds
  MaxTokens = 7
  MaxJunk = 2
INVARIANTS TypeOK NullIsReported AcceptsExactlyPrograms TreeIsTheDerivation
PROPERTIES StepsAreCounted FirstErrorIsExact ReturnsAtEndOfText
CHECK_DEADLOCK FALSE
