-------------------------- MODULE MCKeywordFilter --------------------------
EXTENDS KeywordFilter

CONSTANT bit   \* one bit tells a token's flags from another's
MCNames == 1 .. 4
MCBits == {bit}
=============================================================================
