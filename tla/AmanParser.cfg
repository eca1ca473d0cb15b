SPECIFICATION FairSpec
CONSTANTS
  Routines <- ParserRoutines
  Root <- MCRoot
  Kinds <- MCKinds
  MaxDepth = 12
INVARIANTS TypeOK CallsAreExpected
PROPERTIES FollowsProtocol ReturnsAtEndOfText KeepsReading
CHECK_DEADLOCK FALSE
