--------------------------- MODULE MCCalcCompiler ---------------------------
EXTENDS CalcCompiler

CONSTANTS a, b   \* two names

(* Enough for `with a, b : a - b'; MCCalcParser covers the other kinds.    *)
MCKinds == {"ident", "number", "comma", "colon", "minus", "slash", "KW_with"}

(* A number that fits in Width = 3 bits and one that does not; how other   *)
(* tokens are spelled does not matter.                                     *)
MCLexemes == [k \in Kinds |-> CASE k = "ident" -> {a, b}
                                [] k = "number" -> {2, 9}
                                [] OTHER -> {0}]

(* A line of each form that fits the buffer; longer ones: a number before  *)
(* blanks, a number before another one, a numeral too long for the buffer, *)
(* and one of three pieces.                                                *)
Number(i) == [form |-> "number", n |-> i]
Word  == [form |-> "word"]
Blank == [form |-> "blank"]
MCLines == {<<Number(IntMin)>>, <<Number(-1)>>, <<Number(0)>>, <<Word>>, <<Blank>>, <<[form |-> "eof"]>>,
            <<Number(3), Blank>>, <<Number(1), Number(2)>>, <<Word, Number(2)>>, <<Number(1), Word, Number(0)>>}
MCGarbage == {0, IntMax}
=============================================================================
