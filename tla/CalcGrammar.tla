---------------------------- MODULE CalcGrammar ----------------------------
(***************************************************************************)
(* The language calc-language accepts, written as a declarative grammar    *)
(* over finite sequences of token kinds.  The module holds no behaviour:   *)
(* it is the reference the parser (CalcParser) and the whole compiler      *)
(* (CalcCompiler) are compared with.                                       *)
(*                                                                         *)
(*   calc   : ("with" ident ("," ident)* ":")? expr                        *)
(*   expr   : expr ("+" | "-") term | term                                 *)
(*   term   : term ("*" | "/") factor | factor                             *)
(*   factor : ident | number | "(" expr ")"                                *)
(***************************************************************************)
EXTENDS Integers, Sequences

(* Lexer.h, enum TokenKind.                                                *)
TokenKinds == {"eoi", "unknown", "ident", "number", "comma", "colon", "plus",
               "minus", "star", "slash", "l_paren", "r_paren", "KW_with"}

(* The operator tokens of each binary level, and the level below it.       *)
LevelOps(fn) == IF fn = "expr" THEN {"plus", "minus"} ELSE {"star", "slash"}
Below(fn) == IF fn = "expr" THEN "term" ELSE "factor"

NoTree == <<>>
Leaf(pos) == <<pos>>
Tree(op, l, r) == <<op, l, r>>

(* A span is a nonterminal and the first and last position it is read      *)
(* from; d holds the trees of spans, NoTree where there is none.           *)
Nonterminals == {"expr", "term", "factor"}
Spans(s) == Nonterminals \X (1 .. Len(s) + 1) \X (0 .. Len(s))

(* Where the operator that s[i..j] splits at can be.  The grammar is       *)
(* unambiguous: at most one place.                                         *)
SplitsOf(s, d, nt, i, j) ==
  {k \in i + 1 .. j - 1 : /\ s[k] \in LevelOps(nt)
                          /\ d[<<Below(nt), k + 1, j>>] # NoTree
                          /\ d[<<nt, i, k - 1>>] # NoTree}
SplitAt(ks) == CHOOSE k \in ks : TRUE

FactorTree(s, d, i, j) ==
  CASE i = j /\ s[i] \in {"ident", "number"} -> Leaf(i)
    [] i < j /\ s[i] = "l_paren" /\ s[j] = "r_paren" -> d[<<"expr", i + 1, j - 1>>]
    [] OTHER -> NoTree

LevelTree(s, d, nt, i, j) ==
  LET ks == SplitsOf(s, d, nt, i, j)
      k  == SplitAt(ks)
  IN IF ks = {} THEN d[<<Below(nt), i, j>>]
     ELSE Tree(s[k], d[<<nt, i, k - 1>>], d[<<Below(nt), k + 1, j>>])

(* The tree of the tokens s[i..j] read as nonterminal nt, or NoTree.       *)
Derive(s) ==
  LET d[p \in Spans(s)] ==
        IF p[1] = "factor" THEN FactorTree(s, d, p[2], p[3])
                           ELSE LevelTree(s, d, p[1], p[2], p[3])
  IN d

(* Where the expression starts: 1, or the position after the colon of a    *)
(* well-formed variable list.                                              *)
ExprStarts(s) ==
  IF s # <<>> /\ s[1] = "KW_with"
  THEN {c \in 4 .. Len(s) + 1 :
          /\ c % 2 = 0
          /\ s[c - 1] = "colon"
          /\ \A p \in 2 .. c - 2 : s[p] = IF p % 2 = 0 THEN "ident" ELSE "comma"}
  ELSE {1}

(* The positions of the variables a program declares, in order.            *)
Declared(s) ==
  IF s # <<>> /\ s[1] = "KW_with"
  THEN LET c == CHOOSE c \in ExprStarts(s) : TRUE
       IN [v \in 1 .. (c - 2) \div 2 |-> 2 * v]
  ELSE <<>>

(* The tree of the program's expression, NoTree when s is not a program.   *)
ProgramTree(s) ==
  IF ExprStarts(s) = {} THEN NoTree
  ELSE LET c == CHOOSE c \in ExprStarts(s) : TRUE
       IN Derive(s)[<<"expr", c, Len(s)>>]

IsProgram(s) == ProgramTree(s) # NoTree
=============================================================================
