SPECIFICATION Spec
CONSTANTS
  bit = bit
  Names <- MCNames
  Bits <- MCBits
  MaxRecords = 2
INVARIANT OnlyKeywordsAreFound
