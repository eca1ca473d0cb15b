----------------------------- MODULE AmanParser -----------------------------
(***************************************************************************)
(* aman-lang's parser (Parser.cc), token by token: each parse function as  *)
(* a graph of points for RecursiveDescent to run, with the tokens its      *)
(* error handler stops at.  The tree a function builds is left out; what   *)
(* Sema is told is kept as the name of the call.  An expect whose token is *)
(* advanced over with nothing but locals in between is written as consume. *)
(* parseTypeDeclaration, parseFieldList and parseField are called by       *)
(* nothing and left out.                                                   *)
(***************************************************************************)
EXTENDS RecursiveDescent

None == "none"   \* no function is named
Step(op, kinds, name, yes, no) == [op |-> op, kinds |-> kinds, name |-> name, yes |-> yes, no |-> no]

Take(kind, next)       == Step("consume", {kind}, None, next, "error")
If(kinds, yes, no)     == Step("test", kinds, None, yes, no)
Expecting(kind, next)  == If({kind}, next, "error")
Advancing(next)        == Step("advance", {}, None, next, next)
Parsing(f, next)       == Step("call", {}, f, next, "error")
Telling(action, next)  == Step("act", {}, action, next, next)

DeclarationStart == {"kw_CONST", "kw_PROCEDURE", "kw_VAR", "kw_TYPE"}
ExpressionStart  == {"l_paren", "plus", "minus", "kw_NOT", "identifier", "integer_literal"}
Relations        == {"hash", "less", "lessequal", "equal", "greater", "greaterequal"}
AddOperators     == {"plus", "minus", "kw_OR"}
MulOperators     == {"star", "slash", "kw_DIV", "kw_MOD", "kw_AND"}
StatementSync    == {"semi", "kw_ELSE", "kw_END"}
OperandSync      == {"l_paren", "kw_NOT", "identifier", "integer_literal"}
ExpressionSync   == {"r_paren", "comma", "semi", "kw_DO", "kw_ELSE", "kw_END", "kw_THEN"}
TermSync         == ExpressionSync \cup Relations \cup AddOperators
FactorSync       == TermSync \cup MulOperators

-----------------------------------------------------------------------------
(* Module, imports, block.                                                 *)
ParseCompilationUnit ==
  [sync |-> {},
   code |-> [start   |-> Take("kw_MODULE", "name"),
             name    |-> Expecting("identifier", "enter"),
             enter   |-> Telling("enterScope", "skip"),
             skip    |-> Advancing("imports"),
             imports |-> If({"kw_IMPORT", "kw_MODULE"}, "import", "block"),
             import  |-> Parsing("parseImport", "imports"),
             block   |-> Parsing("parseBlock", "end"),
             end     |-> Expecting("identifier", "finish"),
             finish  |-> Telling("actOnModuleDeclaration", "last"),
             last    |-> Advancing("period"),
             period  |-> Take("period", "true")]]

ParseImport ==
  [sync |-> {"kw_BEGIN", "kw_CONST", "kw_END", "kw_FROM", "kw_IMPORT", "kw_PROCEDURE", "kw_VAR", "kw_TYPE"},
   code |-> [start  |-> Step("consume", {"kw_FROM"}, None, "module", "import"),
             module |-> Take("identifier", "import"),
             import |-> Take("kw_IMPORT", "names"),
             names  |-> Parsing("parseIdentList", "semi"),
             semi   |-> Expecting("semi", "act"),
             act    |-> Telling("actOnImport", "skip"),
             skip   |-> Advancing("true")]]

(* Variant: a statement is read where nobody asked for BEGIN.              *)
ParseBlockWithoutBegin ==
  [sync |-> {"identifier"},
   code |-> [start       |-> If(DeclarationStart, "declaration", "begin"),
             declaration |-> Step("call", {}, "parseDeclaration", "start", "ignored"),
             begin       |-> Step("call", {}, "parseStatement", "true", "ignored")]]

(* Variant: a block that failed is taken for one without a body.           *)
ParseBlockForgiving ==
  [sync |-> {"identifier"},
   code |-> [start       |-> If(DeclarationStart, "declaration", "begin"),
             declaration |-> Step("call", {}, "parseDeclaration", "start", "ignored"),
             begin       |-> Step("consume", {"kw_BEGIN"}, None, "body", "end"),
             body        |-> Step("call", {}, "parseStatement", "true", "ignored"),
             end         |-> If({"kw_END"}, "true", "noEnd"),
             noEnd       |-> Step("either", {}, None, "ignored", "true")]]

(* A block that has neither BEGIN nor END ignores its handler's answer; as *)
(* skipUntil is declared LLVM_READNONE, the build may drop the call.       *)
ParseBlock ==
  [sync |-> {"identifier"},
   code |-> [start       |-> If(DeclarationStart, "declaration", "begin"),
             declaration |-> Parsing("parseDeclaration", "start"),
             begin       |-> Step("consume", {"kw_BEGIN"}, None, "body", "end"),
             body        |-> Parsing("parseStatement", "true"),
             end         |-> If({"kw_END"}, "true", "noEnd"),
             noEnd       |-> Step("either", {}, None, "ignored", "true")]]

ParseDeclaration ==
  [sync |-> {"kw_BEGIN", "kw_CONST", "kw_END", "kw_PROCEDURE", "kw_VAR"},
   code |-> [start     |-> Step("consume", {"identifier"}, None, "constants", "isVar"),
             constants |-> If({"identifier"}, "constant", "true"),
             constant  |-> Parsing("parseConstantDeclaration", "constEnd"),
             constEnd  |-> Take("semi", "constants"),
             isVar     |-> Step("consume", {"kw_VAR"}, None, "variables", "isProc"),
             variables |-> If({"identifier"}, "variable", "true"),
             variable  |-> Parsing("parseVariableDeclaration", "varEnd"),
             varEnd    |-> Take("semi", "variables"),
             isProc    |-> Expecting("kw_PROCEDURE", "procedure"),
             procedure |-> Parsing("parseProcedureDeclaration", "procEnd"),
             procEnd   |-> Take("semi", "true")]]

ParseConstantDeclaration ==
  [sync |-> {"semi"},
   code |-> [start |-> Take("identifier", "equal"),
             equal |-> Take("equal", "value"),
             value |-> Parsing("parseExpression", "act"),
             act   |-> Telling("actOnConstantDeclaration", "true")]]

ParseVariableDeclaration ==
  [sync |-> {"semi"},
   code |-> [start |-> Parsing("parseIdentList", "colon"),
             colon |-> Take("colon", "type"),
             type  |-> Parsing("parseQualident", "act"),
             act   |-> Telling("actOnVariableDeclaration", "true")]]

(* The declaration joins its parent's list after Sema has its own lists.   *)
ParseProcedureDeclaration ==
  [sync |-> {"semi"},
   code |-> [start   |-> Take("kw_PROCEDURE", "name"),
             name    |-> Expecting("identifier", "act"),
             act     |-> Telling("actOnProcedureDeclaration", "enter"),
             enter   |-> Telling("enterScope", "skip"),
             skip    |-> Advancing("params"),
             params  |-> If({"l_paren"}, "formals", "heading"),
             formals |-> Parsing("parseFormalParameters", "heading"),
             heading |-> Telling("actOnProcedureHeading", "semi"),
             semi    |-> Take("semi", "block"),
             block   |-> Parsing("parseBlock", "end"),
             end     |-> Expecting("identifier", "finish"),
             finish  |-> Telling("actOnProcedureDeclarationLists", "last"),
             last    |-> Advancing("true")]]

ParseFormalParameters ==
  [sync |-> {"semi"},
   code |-> [start  |-> Take("l_paren", "list"),
             list   |-> If({"kw_VAR", "identifier"}, "params", "close"),
             params |-> Parsing("parseFormalParameterList", "close"),
             close  |-> Take("r_paren", "colon"),
             colon  |-> Step("consume", {"colon"}, None, "type", "true"),
             type   |-> Parsing("parseQualident", "true")]]

ParseFormalParameterList ==
  [sync |-> {"r_paren"},
   code |-> [start |-> Parsing("parseFormalParameter", "more"),
             more  |-> Step("consume", {"semi"}, None, "start", "true")]]

ParseFormalParameter ==
  [sync |-> {"r_paren", "semi"},
   code |-> [start |-> Step("consume", {"kw_VAR"}, None, "names", "names"),
             names |-> Parsing("parseIdentList", "colon"),
             colon |-> Take("colon", "type"),
             type  |-> Parsing("parseQualident", "act"),
             act   |-> Telling("actOnFormalParameterDeclaration", "true")]]

ParseIdentList ==
  [sync |-> {"colon", "semi"},
   code |-> [start |-> Take("identifier", "more"),
             more  |-> Step("consume", {"comma"}, None, "start", "true")]]

(* No ModuleDecl is ever made, so isa<ModuleDecl>(D) is false, or D is     *)
(* null and the process ends.                                              *)
ParseQualident ==
  [sync |-> FactorSync \cup {"l_paren", "colonequal"},
   code |-> [start  |-> Expecting("identifier", "part"),
             part   |-> Telling("actOnQualIdentPart", "skip"),
             skip   |-> Advancing("period"),
             period |-> If({"period"}, "isa", "true"),
             isa    |-> Telling("isa<ModuleDecl>", "true")]]

-----------------------------------------------------------------------------
(* Statements.                                                             *)
(* Variant: the loop goes on without reading the semicolon.                *)
ParseStatementSequenceStuck ==
  [sync |-> {"kw_ELSE", "kw_END"},
   code |-> [start |-> Parsing("parseStatement", "more"),
             more  |-> If({"semi"}, "again", "true"),
             again |-> Step("call", {}, "parseStatement", "more", "more")]]

ParseStatementSequence ==
  [sync |-> {"kw_ELSE", "kw_END"},
   code |-> [start |-> Parsing("parseStatement", "more"),
             more  |-> Step("consume", {"semi"}, None, "start", "true")]]

(* The test of consume(r_paren) is the wrong way round: a call goes on     *)
(* where the parenthesis is missing.                                       *)
ParseStatement ==
  [sync |-> StatementSync,
   code |-> [start      |-> If({"identifier"}, "name", "isIf"),
             name       |-> Parsing("parseQualident", "call"),
             call       |-> Step("consume", {"l_paren"}, None, "args", "designator"),
             designator |-> Telling("actOnDesignator", "selectors"),
             selectors  |-> Parsing("parseSelectors", "becomes"),
             becomes    |-> Take("colonequal", "value"),
             value      |-> Parsing("parseExpression", "assign"),
             assign     |-> Telling("actOnAssignment", "true"),
             args       |-> If(ExpressionStart, "list", "close"),
             list       |-> Parsing("parseExprList", "close"),
             close      |-> Step("consume", {"r_paren"}, None, "error", "procCall"),
             procCall   |-> Telling("actOnProcCall", "true"),
             isIf       |-> If({"kw_IF"}, "ifStmt", "isWhile"),
             ifStmt     |-> Parsing("parseIfStatement", "true"),
             isWhile    |-> If({"kw_WHILE"}, "whileStmt", "isReturn"),
             whileStmt  |-> Parsing("parseWhileStatement", "true"),
             isReturn   |-> Expecting("kw_RETURN", "returnStmt"),
             returnStmt |-> Parsing("parseReturnStatement", "true")]]

(* THEN is not read, and the answer after END is false.                    *)
ParseIfStatement ==
  [sync |-> StatementSync,
   code |-> [start |-> Take("kw_IF", "cond"),
             cond  |-> Parsing("parseExpression", "then"),
             then  |-> Parsing("parseStatementSequence", "else"),
             else  |-> Step("consume", {"kw_ELSE"}, None, "stmts", "end"),
             stmts |-> Parsing("parseStatementSequence", "end"),
             end   |-> Expecting("kw_END", "act"),
             act   |-> Telling("actOnIfStatement", "skip"),
             skip  |-> Advancing("false")]]

(* No statement between DO and END.                                        *)
ParseWhileStatement ==
  [sync |-> StatementSync,
   code |-> [start |-> Take("kw_WHILE", "cond"),
             cond  |-> Parsing("parseExpression", "do"),
             do    |-> Take("kw_DO", "end"),
             end   |-> Expecting("kw_END", "act"),
             act   |-> Telling("actOnWhileStatement", "skip"),
             skip  |-> Advancing("true")]]

ParseReturnStatement ==
  [sync |-> StatementSync,
   code |-> [start |-> Take("kw_RETURN", "value"),
             value |-> If(ExpressionStart, "expr", "act"),
             expr  |-> Parsing("parseExpression", "act"),
             act   |-> Telling("actOnReturnStatement", "true")]]

(* The lexer makes neither caret nor l_square (their cases in              *)
(* Lexer::next fall through to unknown).                                   *)
ParseSelectors ==
  [sync |-> FactorSync \cup {"colonequal", "r_square"},
   code |-> [start   |-> If({"caret"}, "deref", "isIndex"),
             deref   |-> Telling("actOnDereferenceSelector", "skip"),
             skip    |-> Advancing("start"),
             isIndex |-> Step("consume", {"l_square"}, None, "index", "isField"),
             index   |-> Parsing("parseExpression", "close"),
             close   |-> Expecting("r_square", "indexed"),
             indexed |-> Telling("actOnIndexSelector", "skip"),
             isField |-> Step("consume", {"period"}, None, "field", "true"),
             field   |-> Expecting("identifier", "named"),
             named   |-> Telling("actOnFieldSelector", "skip")]]

-----------------------------------------------------------------------------
(* Expressions.                                                            *)
ParseExprList ==
  [sync |-> {"r_paren"},
   code |-> [start |-> Parsing("parseExpression", "more"),
             more  |-> Step("consume", {"comma"}, None, "start", "true")]]

(* The right operand's answer is taken the wrong way round.                *)
ParseExpression ==
  [sync |-> ExpressionSync,
   code |-> [start    |-> Parsing("parseSimpleExpression", "relation"),
             relation |-> If(Relations, "op", "true"),
             op       |-> Parsing("parseRelation", "right"),
             right    |-> Step("call", {}, "parseSimpleExpression", "error", "act"),
             act      |-> Telling("actOnExpression", "true")]]

Operator(kinds, sync) ==
  [sync |-> sync, code |-> [start |-> Step("consume", kinds, None, "true", "error")]]

ParseRelation    == Operator(Relations, OperandSync \cup {"plus", "minus"})
ParseAddOperator == Operator(AddOperators, OperandSync)
ParseMulOperator == Operator(MulOperators, OperandSync)

(* PrefixOp is remembered by the points of the second column.              *)
ParseSimpleExpression ==
  [sync |-> {"identifier"},
   code |-> [start |-> Step("consume", {"plus", "minus"}, None, "term2", "term"),
             term  |-> Parsing("parseTerm", "more"),        term2  |-> Parsing("parseTerm", "more2"),
             more  |-> If(AddOperators, "op", "true"),      more2  |-> If(AddOperators, "op2", "prefix"),
             op    |-> Parsing("parseAddOperator", "right"), op2   |-> Parsing("parseAddOperator", "right2"),
             right |-> Parsing("parseTerm", "act"),         right2 |-> Parsing("parseTerm", "act2"),
             act   |-> Telling("actOnSimpleExpression", "more"),
             act2  |-> Telling("actOnSimpleExpression", "more2"),
             prefix |-> Telling("actOnPrefixExpression", "true")]]

ParseTerm ==
  [sync |-> TermSync,
   code |-> [start |-> Parsing("parseFactor", "more"),
             more  |-> If(MulOperators, "op", "true"),
             op    |-> Parsing("parseMulOperator", "right"),
             right |-> Parsing("parseFactor", "act"),
             act   |-> Telling("actOnTerm", "more")]]

(* Integer literals have no case.  A name before a token that cannot       *)
(* follow a factor is no error, and E stays null.                          *)
ParseFactor ==
  [sync |-> FactorSync,
   code |-> [start  |-> If({"identifier"}, "name", "isParen"),
             name   |-> Parsing("parseQualident", "call"),
             call   |-> Step("consume", {"l_paren"}, None, "args", "follow"),
             args   |-> If(ExpressionStart, "list", "close"),
             list   |-> Parsing("parseExprList", "close"),
             close  |-> Expecting("r_paren", "funCall"),
             funCall |-> Telling("actOnFunctionCall", "skip"),
             skip   |-> Advancing("true"),
             follow |-> If(FactorSync, "design", "true"),
             design |-> Telling("actOnDesignator", "true"),
             isParen |-> Step("consume", {"l_paren"}, None, "expr", "isNot"),
             expr   |-> Parsing("parseExpression", "closeExpr"),
             closeExpr |-> Take("r_paren", "true"),
             isNot  |-> Take("kw_NOT", "factor"),
             factor |-> Parsing("parseFactor", "prefix"),
             prefix |-> Telling("actOnPrefixExpression", "true")]]

ParserRoutines ==
  [parseCompilationUnit |-> ParseCompilationUnit, parseImport |-> ParseImport,
   parseBlock |-> ParseBlock, parseDeclaration |-> ParseDeclaration,
   parseConstantDeclaration |-> ParseConstantDeclaration,
   parseVariableDeclaration |-> ParseVariableDeclaration,
   parseProcedureDeclaration |-> ParseProcedureDeclaration,
   parseFormalParameters |-> ParseFormalParameters,
   parseFormalParameterList |-> ParseFormalParameterList,
   parseFormalParameter |-> ParseFormalParameter, parseIdentList |-> ParseIdentList,
   parseQualident |-> ParseQualident, parseStatementSequence |-> ParseStatementSequence,
   parseStatement |-> ParseStatement, parseIfStatement |-> ParseIfStatement,
   parseWhileStatement |-> ParseWhileStatement, parseReturnStatement |-> ParseReturnStatement,
   parseSelectors |-> ParseSelectors, parseExprList |-> ParseExprList,
   parseExpression |-> ParseExpression, parseRelation |-> ParseRelation,
   parseSimpleExpression |-> ParseSimpleExpression, parseAddOperator |-> ParseAddOperator,
   parseMulOperator |-> ParseMulOperator, parseTerm |-> ParseTerm, parseFactor |-> ParseFactor]

(* What is run is this table, and the lexer makes neither of these two:    *)
(* its cases for them fall through to unknown (Lexer.cc:193-197).          *)
ASSUME ParserAssumption ==
  /\ Routines = ParserRoutines /\ Root = "parseCompilationUnit"
  /\ {"caret", "l_square"} \cap Kinds = {}

-----------------------------------------------------------------------------
(* The parser as SemaProtocol sees it.                                     *)
(* Lost: the text is at its end, or a handler is under way whose false     *)
(* answer sends every caller into its own handler.                         *)
Swallows(frame) == StepAt(frame).no # "error"
Lost == ~Over /\ \/ tok = Eof
                 \/ /\ Top.at = "error"
                    /\ \A k \in 1 .. Len(stack) - 1 : ~Swallows(stack[k])

PlaceOfBlock(s, k) ==
  IF k > Len(s) THEN "block"
  ELSE CASE s[k].at \in {"start", "declaration", "begin"} -> "block"
         [] s[k].at = "body"                             -> "stmt"
         [] OTHER                                        -> "end"

PlaceOf(s, k) ==
  LET at == s[k].at IN
  CASE at \in {"imports", "import"}            -> "imports"
    [] at = "skip"                             -> IF k = 1 THEN "imports" ELSE "formals"
    [] at \in {"params", "formals", "heading"} -> "formals"
    [] at = "semi"                             -> "block"
    [] at = "block"                            -> PlaceOfBlock(s, k + 1)
    [] OTHER                                   -> "end"

(* The frames whose EnterDecl is alive.                                    *)
HoldsDecl(frame) ==
  /\ frame.fun \in {"parseCompilationUnit", "parseProcedureDeclaration"}
  /\ frame.at \notin {"start", "name", "act", "enter"}

(* Their places, for the first k frames of a stack.                        *)
OpenUpto(s) ==
  LET upto[k \in 0 .. Len(s)] ==
        IF k = 0 THEN <<>>
        ELSE IF HoldsDecl(s[k]) THEN Append(upto[k - 1], PlaceOf(s, k)) ELSE upto[k - 1]
  IN  upto
Open == IF Over \/ Lost THEN <<>> ELSE OpenUpto(stack)[Len(stack)]

Protocol == INSTANCE SemaProtocol WITH open <- Open, over <- Over \/ Lost

(* Whatever the tokens, the parser's errors and its recovery: scopes are   *)
(* entered and left in pairs, a procedure is opened only among the         *)
(* declarations of a block and closed only at its end, a block has its     *)
(* body after all of them, and after an error nothing more is opened or    *)
(* closed (parseBlock, parseProcedureDeclaration, EnterDecl).              *)
FollowsProtocol == Protocol!Spec

(* Which calls of Sema have their place where in the innermost             *)
(* declaration: an expression is part of a statement or, as the value of a *)
(* constant, of the declarations of a block.                               *)
NameCalls == {"actOnQualIdentPart", "isa<ModuleDecl>"}
ExpressionCalls ==
  {"actOnDesignator", "actOnFunctionCall", "actOnExpression", "actOnSimpleExpression", "actOnTerm",
   "actOnPrefixExpression"}
Expected(place) ==
  CASE place = "imports" -> {"actOnImport"}
    [] place = "formals" -> NameCalls \cup {"actOnFormalParameterDeclaration", "actOnProcedureHeading"}
    [] place = "block"   -> NameCalls \cup ExpressionCalls \cup
                            {"actOnConstantDeclaration", "actOnVariableDeclaration",
                             "actOnProcedureDeclaration", "enterScope"}
    [] place = "stmt"    -> NameCalls \cup ExpressionCalls \cup
                            {"actOnFieldSelector", "actOnIndexSelector", "actOnDereferenceSelector",
                             "actOnAssignment", "actOnProcCall", "actOnIfStatement",
                             "actOnWhileStatement", "actOnReturnStatement"}
    [] place = "end"     -> {"actOnProcedureDeclarationLists", "actOnModuleDeclaration"}

(* Sema is never told of something in a place where it is not ready for    *)
(* it: parameters reach it within a heading only, declarations within a    *)
(* block, statements within a body, and the lists of a procedure once its  *)
(* block is complete (the actOn calls of Parser.cc).  A constant would be  *)
(* in its place among the declarations; none comes, as parseDeclaration    *)
(* waits for an identifier where CONST is (Parser.cc:299).                 *)
CallsAreExpected ==
  At("act") /\ ~Lost =>
    IF Open = <<>> THEN StepAt(Top).name = "enterScope"
    ELSE StepAt(Top).name \in Expected(Open[Len(Open)])
=============================================================================
