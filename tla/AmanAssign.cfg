SPECIFICATION Spec
CONSTANTS
  p = p
  q = q
  Names <- MCNames
  MaxDecls = 2
  MaxFrames = 3
  MaxArgs = 1
  BodiesAfterReport = FALSE
SYMMETRY Identifiers
INVARIANT AssignmentsReachTheTree
CHECK_DEADLOCK FALSE
