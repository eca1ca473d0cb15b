SPECIFICATION Spec
CONSTANTS
  MaxStatements <- MCMaxStatements
  MaxNesting    <- MCMaxNesting
INVARIANTS TypeOK FilledBlocksAreSealed LoopsAreWellFormed
PROPERTY SealedBlocksGetNoPredecessor
CHECK_DEADLOCK FALSE
