SPECIFICATION Spec
CONSTANTS
  p = p
  q = q
  Names <- MCNames
  MaxDecls = 3
  MaxFrames = 3
  MaxArgs = 1
  BodiesAfterReport = FALSE
SYMMETRY Identifiers
INVARIANTS TypeOK ScopesFollowDecls LookupIsInnermost DoublesAreReported
INVARIANTS TreeIsComplete StatementsAreTyped EveryOrderIsOffered
PROPERTY FollowsProtocol
CHECK_DEADLOCK FALSE
