SPECIFICATION SpecAll
CONSTANTS
  a = a
  b = b
  Kinds <- MCKinds
  MaxTokens = 3
  MaxJunk = 0
  Lexemes <- MCLexemes
  Lines <- MCLines
  AssertsOn = FALSE
  Garbage <- MCGarbage
  Width = 3
CHECK_DEADLOCK FALSE
INVARIANT ParsedTextIsCompiled
