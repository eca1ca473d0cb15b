SPECIFICATION FairSpecAll
CONSTANTS
  a = a
  b = b
  Kinds <- MCKinds
  MaxTokens = 8
  MaxJunk = 0
  Lexemes <- MCLexemes
  Lines <- MCLines
  AssertsOn = TRUE
  Garbage <- MCGarbage
  Width = 3
INVARIANTS TypeOKAll OperandsAreDefined AnswersMatchPrompts
PROPERTIES ImplementsLanguage EveryRunEnds
CHECK_DEADLOCK FALSE
