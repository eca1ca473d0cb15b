---------------------------- MODULE MCJitSession ----------------------------
(* Every text of at most two tokens, and the lines of the README.  An    *)
(* operator of each level stands for both.                                 *)
EXTENDS JitSession, SequencesExt

Kinds == {"with", "def", "ident", "number", "comma", "colon", "equals", "plus", "star",
          "l_paren", "r_paren", "unknown"}
Readme == { <<"def", "ident", "l_paren", "ident", "r_paren", "equals", "ident", "star", "number">>,
            <<"ident", "l_paren", "number", "r_paren">>,
            <<"def", "ident", "l_paren", "ident", "comma", "ident", "r_paren", "equals", "ident", "star", "ident",
              "plus", "number">>,
            <<"ident", "l_paren", "number", "comma", "number", "r_paren">> }
MCTexts == BoundedSeq(Kinds, 2) \cup Readme
=============================================================================
