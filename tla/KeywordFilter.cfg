SPECIFICATION FairSpec
CONSTANTS
  bit = bit
  Names <- MCNames
  Bits <- MCBits
  MaxRecords = 4
INVARIANTS TypeOK KeywordsAreFound
PROPERTY LookupReturns
