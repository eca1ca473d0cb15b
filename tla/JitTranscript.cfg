SPECIFICATION Spec
CONSTANTS
  Texts <- MCTexts
  AssertsOn = TRUE
INVARIANT DefinitionsAreCompiled
CHECK_DEADLOCK FALSE
