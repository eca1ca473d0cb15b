---------------------------- MODULE MCAmanParser ----------------------------
(* Every kind of token the lexer makes; those which every test and every   *)
(* handler treats alike are represented by one: the relations but "=" by   *)
(* "#", the operators of terms by "*", string literals by unknown.         *)
EXTENDS AmanParser

MCKinds == {"unknown", "identifier", "integer_literal", "hash", "equal", "plus", "star", "kw_OR",
            "comma", "period", "semi", "colon", "colonequal", "l_paren", "r_paren",
            "kw_MODULE", "kw_IMPORT", "kw_FROM", "kw_BEGIN", "kw_END", "kw_CONST", "kw_VAR",
            "kw_TYPE", "kw_PROCEDURE", "kw_IF", "kw_THEN", "kw_ELSE", "kw_WHILE", "kw_DO",
            "kw_RETURN", "kw_NOT"}
MCRoot == "parseCompilationUnit"
=============================================================================
