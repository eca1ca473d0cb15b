----------------------------- MODULE CalcParser -----------------------------
(***************************************************************************)
(* The recursive-descent parser of calc-language (Parser.h, Parser.cc) and *)
(* the one-token window it keeps on the lexer.                             *)
(*                                                                         *)
(* The C++ call stack is the variable stack: one frame per running         *)
(* parseExpr, parseTerm or parseFactor with the locals that live across a  *)
(* call.  A step is what one function does between two calls (or one turn  *)
(* of a skip loop).  AST nodes are cells of heap, a pointer is an index    *)
(* into it and 0 is nullptr; a StringRef is the position of its token.     *)
(* The lexer is any source of tokens: the text is chosen one token at a    *)
(* time, as the parser asks for it, and ends with eoi for ever.            *)
(***************************************************************************)
EXTENDS CalcGrammar

CONSTANTS Kinds,      \* the token kinds the text is made of
          MaxTokens,  \* bound: the length of the text
          MaxJunk     \* bound: tokens of the text after the first error

ASSUME KindsAssumption == Kinds \subseteq TokenKinds \ {"eoi"}
ASSUME BoundsAssumption == MaxTokens \in Nat /\ MaxJunk \in Nat

VARIABLES
  input,   \* the tokens lexed so far, Tok's own included
  fuel,    \* how many more tokens the text may hold
  tok,     \* Parser::Tok, its kind
  err,     \* Parser::Err
  pc,      \* where the running function stands
  stack,   \* its frame and its callers'
  ret,     \* the pointer the function that just returned left
  vars,    \* parseCalc's Vars
  heap,    \* the AST nodes allocated so far
  result   \* what parseCalc returned

lexVars  == <<input, fuel, tok>>
pvars    == <<input, fuel, tok, err, pc, stack, ret, vars, heap, result>>

Null == 0
NoOp == "none"
Operators == {"plus", "minus", "star", "slash"}
Functions == {"expr", "term", "factor"}

(* Variant: the skip loop forgets the end of the text.                     *)
SyncTokensWithoutEnd == {"r_paren", "star", "plus", "minus", "slash"}

(* parseFactor gives up on a bad token and resumes at one of these.        *)
SyncTokens == {"r_paren", "star", "plus", "minus", "slash", "eoi"}

FactorNode(pos)    == [kind |-> "Factor", op |-> NoOp, left |-> Null,
                       right |-> Null, vals |-> <<pos>>]
BinaryNode(o, l, r) == [kind |-> "BinaryOp", op |-> o, left |-> l,
                       right |-> r, vals |-> <<>>]
WithNode(vs, e)    == [kind |-> "With", op |-> NoOp, left |-> e,
                       right |-> Null, vals |-> vs]

Frame(f) == [fn |-> f, left |-> Null, op |-> NoOp]
Top == stack[Len(stack)]
Rest == SubSeq(stack, 1, Len(stack) - 1)

-----------------------------------------------------------------------------
(* Variant: the end of the text is counted as one of its tokens.           *)
NextTokenCountsEnd(more) ==
  \/ /\ tok # "eoi" /\ more > 0
     /\ \E k \in Kinds : /\ tok' = k
                         /\ input' = Append(input, k)
     /\ fuel' = more - 1
  \/ /\ tok' = "eoi"
     /\ input' = Append(input, "eoi")
     /\ fuel' = 0

(* Parser::advance over any text: once eoi is reached the lexer stays      *)
(* there.  An error costs the text all but MaxJunk of its remaining        *)
(* tokens, which bounds recovery; `more` is what is left of the bound.     *)
NextToken(more) ==
  \/ /\ tok # "eoi" /\ more > 0
     /\ \E k \in Kinds : /\ tok' = k
                         /\ input' = Append(input, k)
     /\ fuel' = more - 1
  \/ /\ tok' = "eoi"
     /\ UNCHANGED input
     /\ fuel' = 0

Advance == NextToken(fuel)
FuelAfterError == IF err \/ fuel < MaxJunk THEN fuel ELSE MaxJunk

(* Parser::error.                                                          *)
Error == /\ err' = TRUE
         /\ fuel' = FuelAfterError
         /\ UNCHANGED <<input, tok>>

(* A function returns p to its caller.                                     *)
Return(p) == /\ ret' = p
             /\ stack' = Rest
             /\ pc' = "resume"

(* The constructor reads the first token.                                  *)
Init ==
  /\ \/ /\ MaxTokens > 0
        /\ \E k \in Kinds : tok = k /\ input = <<k>>
        /\ fuel = MaxTokens - 1
     \/ tok = "eoi" /\ input = <<>> /\ fuel = 0
  /\ err = FALSE
  /\ pc = "calc"
  /\ stack = <<>>
  /\ ret = Null
  /\ vars = <<>>
  /\ heap = <<>>
  /\ result = Null

-----------------------------------------------------------------------------
(* parseCalc, up to its call of parseExpr: an optional variable list.      *)
CallExpr == stack' = <<Frame("expr")>> /\ pc' = "enter"

CalcWith ==
  /\ pc = "calc" /\ tok = "KW_with"
  /\ Advance
  /\ pc' = "declare"
  /\ UNCHANGED <<err, stack, ret, vars, heap, result>>

CalcNoWith ==
  /\ pc = "calc" /\ tok # "KW_with"
  /\ CallExpr
  /\ UNCHANGED <<lexVars, err, ret, vars, heap, result>>

DeclareIdent ==
  /\ pc = "declare" /\ tok = "ident"
  /\ vars' = Append(vars, Len(input))
  /\ Advance
  /\ pc' = "declared"
  /\ UNCHANGED <<err, stack, ret, heap, result>>

(* Variant: the list loop does not expect a name after a comma.            *)
DeclareCommaAlone ==
  /\ pc = "declared" /\ tok = "comma"
  /\ Advance
  /\ UNCHANGED <<err, pc, stack, ret, vars, heap, result>>

DeclareComma ==
  /\ pc = "declared" /\ tok = "comma"
  /\ Advance
  /\ pc' = "declare"
  /\ UNCHANGED <<err, stack, ret, vars, heap, result>>

DeclareColon ==
  /\ pc = "declared" /\ tok = "colon"
  /\ Advance
  /\ CallExpr
  /\ UNCHANGED <<err, ret, vars, heap, result>>

(* goto _err from the variable list.                                       *)
DeclareError ==
  /\ \/ pc = "declare" /\ tok # "ident"
     \/ pc = "declared" /\ tok \notin {"comma", "colon"}
  /\ Error
  /\ pc' = "recover"
  /\ UNCHANGED <<stack, ret, vars, heap, result>>

-----------------------------------------------------------------------------
(* parseExpr and parseTerm have one shape: call the level below for the    *)
(* left operand, and again after each operator of the level.               *)
EnterLevel ==
  /\ pc = "enter" /\ Top.fn # "factor"
  /\ stack' = Append(stack, Frame(Below(Top.fn)))
  /\ UNCHANGED <<lexVars, err, pc, ret, vars, heap, result>>

(* Variant: the operands change places.                                    *)
JoinedHeapSwapped == IF Top.op = NoOp THEN heap
                     ELSE Append(heap, BinaryNode(Top.op, ret, Top.left))

(* The operand just parsed, joined to what is left of it: a pointer and    *)
(* the heap it points into.                                                *)
JoinedHeap == IF Top.op = NoOp THEN heap
              ELSE Append(heap, BinaryNode(Top.op, Top.left, ret))
Joined == IF Top.op = NoOp THEN ret ELSE Len(heap) + 1

(* Variant: the operator is looked at and not consumed.                    *)
LevelOperatorKept ==
  /\ pc = "resume" /\ stack # <<>> /\ Top.fn # "factor"
  /\ tok \in LevelOps(Top.fn)
  /\ heap' = JoinedHeap
  /\ stack' = Append(Append(Rest, [fn |-> Top.fn, left |-> Joined, op |-> tok]),
                     Frame(Below(Top.fn)))
  /\ pc' = "enter"
  /\ UNCHANGED <<lexVars, err, ret, vars, result>>

LevelOperator ==
  /\ pc = "resume" /\ stack # <<>> /\ Top.fn # "factor"
  /\ tok \in LevelOps(Top.fn)
  /\ heap' = JoinedHeap
  /\ stack' = Append(Append(Rest, [fn |-> Top.fn, left |-> Joined, op |-> tok]),
                     Frame(Below(Top.fn)))
  /\ pc' = "enter"
  /\ Advance
  /\ UNCHANGED <<err, ret, vars, result>>

LevelReturn ==
  /\ pc = "resume" /\ stack # <<>> /\ Top.fn # "factor"
  /\ tok \notin LevelOps(Top.fn)
  /\ heap' = JoinedHeap
  /\ Return(Joined)
  /\ UNCHANGED <<lexVars, err, vars, result>>

-----------------------------------------------------------------------------
(* parseFactor.                                                            *)
FactorLeaf ==
  /\ pc = "enter" /\ Top.fn = "factor"
  /\ tok \in {"number", "ident"}
  /\ heap' = Append(heap, FactorNode(Len(input)))
  /\ Return(Len(heap) + 1)
  /\ Advance
  /\ UNCHANGED <<err, vars, result>>

FactorParen ==
  /\ pc = "enter" /\ Top.fn = "factor" /\ tok = "l_paren"
  /\ stack' = Append(stack, Frame("expr"))
  /\ Advance
  /\ UNCHANGED <<err, pc, ret, vars, heap, result>>

(* Variant: a bad token is skipped without a report.                       *)
FactorBadTokenSilent ==
  /\ pc = "enter" /\ Top.fn = "factor"
  /\ tok \notin {"number", "ident", "l_paren"}
  /\ pc' = "skip"
  /\ UNCHANGED <<lexVars, err, stack, ret, vars, heap, result>>

(* The default label reached with Res still null.                          *)
FactorBadToken ==
  /\ pc = "enter" /\ Top.fn = "factor"
  /\ tok \notin {"number", "ident", "l_paren"}
  /\ Error
  /\ pc' = "skip"
  /\ UNCHANGED <<stack, ret, vars, heap, result>>

FactorClose ==
  /\ pc = "resume" /\ stack # <<>> /\ Top.fn = "factor" /\ tok = "r_paren"
  /\ Return(ret)
  /\ Advance
  /\ UNCHANGED <<err, vars, heap, result>>

(* Variant: a missing parenthesis is not reported.                         *)
FactorUnclosedSilent ==
  /\ pc = "resume" /\ stack # <<>> /\ Top.fn = "factor" /\ tok # "r_paren"
  /\ stack' = Append(Rest, [Top EXCEPT !.left = ret])
  /\ pc' = "skip"
  /\ UNCHANGED <<lexVars, err, ret, vars, heap, result>>

(* consume(r_paren) fails and the case falls through to the default label. *)
FactorUnclosed ==
  /\ pc = "resume" /\ stack # <<>> /\ Top.fn = "factor" /\ tok # "r_paren"
  /\ Error
  /\ stack' = Append(Rest, [Top EXCEPT !.left = ret])
  /\ pc' = "skip"
  /\ UNCHANGED <<ret, vars, heap, result>>

Skip ==
  /\ pc = "skip" /\ tok \notin SyncTokens
  /\ Advance
  /\ UNCHANGED <<err, pc, stack, ret, vars, heap, result>>

SkipDone ==
  /\ pc = "skip" /\ tok \in SyncTokens
  /\ Return(Top.left)
  /\ UNCHANGED <<lexVars, err, vars, heap, result>>

-----------------------------------------------------------------------------
(* parseCalc after parseExpr returned.                                     *)
CalcTail ==
  /\ pc = "resume" /\ stack = <<>> /\ tok = "eoi"
  /\ IF vars = <<>>
     THEN result' = ret /\ UNCHANGED heap
     ELSE /\ heap' = Append(heap, WithNode(vars, ret))
          /\ result' = Len(heap) + 1
  /\ pc' = "parsed"
  /\ UNCHANGED <<lexVars, err, stack, ret, vars>>

CalcTailError ==
  /\ pc = "resume" /\ stack = <<>> /\ tok # "eoi"
  /\ Error
  /\ pc' = "recover"
  /\ UNCHANGED <<stack, ret, vars, heap, result>>

(* The loop at _err.                                                       *)
Recover ==
  /\ pc = "recover" /\ tok # "eoi"
  /\ Advance
  /\ UNCHANGED <<err, pc, stack, ret, vars, heap, result>>

RecoverDone ==
  /\ pc = "recover" /\ tok = "eoi"
  /\ result' = Null
  /\ pc' = "parsed"
  /\ UNCHANGED <<lexVars, err, stack, ret, vars, heap>>

(* parse() checks for the end of the text once more and returns.           *)
ParseReturn ==
  /\ pc = "parsed"
  /\ IF tok = "eoi" THEN UNCHANGED <<lexVars, err>> ELSE Error
  /\ pc' = "done"
  /\ UNCHANGED <<stack, ret, vars, heap, result>>

ParseStep ==
  \/ CalcWith \/ CalcNoWith
  \/ DeclareIdent \/ DeclareComma \/ DeclareColon \/ DeclareError
  \/ EnterLevel \/ LevelOperator \/ LevelReturn
  \/ FactorLeaf \/ FactorParen \/ FactorBadToken
  \/ FactorClose \/ FactorUnclosed \/ Skip \/ SkipDone
  \/ CalcTail \/ CalcTailError \/ Recover \/ RecoverDone
  \/ ParseReturn

Next == ParseStep
Spec == Init /\ [][Next]_pvars
FairSpec == Spec /\ WF_pvars(Next)

-----------------------------------------------------------------------------
(* The type invariant.                                                     *)
FrameType == [fn : Functions, left : Nat, op : Operators \cup {NoOp}]
NodeType  == [kind : {"Factor", "BinaryOp", "With"},
              op : Operators \cup {NoOp}, left : Nat, right : Nat,
              vals : Seq(Nat)]

TypeOK ==
  /\ input \in Seq(Kinds)
  /\ fuel \in Nat
  /\ tok \in Kinds \cup {"eoi"}
  /\ err \in BOOLEAN
  /\ pc \in {"calc", "declare", "declared", "enter", "resume", "skip",
             "recover", "parsed", "done"}
  /\ stack \in Seq(FrameType)
  /\ ret \in Nat
  /\ vars \in Seq(Nat)
  /\ heap \in Seq(NodeType)
  /\ result \in Nat

-----------------------------------------------------------------------------
(* What main.cc and the visitors rely on: as long as no error has been     *)
(* reported, no pointer the parser has handed over is null.  CodeGen       *)
(* follows operands without a check (CodeGen.cc, visit(BinaryOp)), so a    *)
(* null operand that escapes without Err is a crash.                       *)
OperandsAreSet(node) ==
  /\ node.kind = "BinaryOp" => node.left # Null /\ node.right # Null
  /\ node.kind = "With" => node.left # Null

NullIsReported ==
  ~err =>
    /\ pc = "resume" => ret # Null
    /\ \A n \in 1 .. Len(heap) : OperandsAreSet(heap[n])
    /\ pc \in {"parsed", "done"} => result # Null

(* Parsing ends without an error exactly on the programs of the grammar.   *)
AcceptsExactlyPrograms ==
  pc = "done" => (~err <=> IsProgram(input))

(* The nested tree that hangs from pointer p of heap h.                    *)
Unfold(h, p) ==
  LET u[n \in 0 .. Len(h)] ==
        CASE n = Null -> NoTree
          [] n # Null /\ h[n].kind = "Factor" -> Leaf(h[n].vals[1])
          [] OTHER -> Tree(h[n].op, u[h[n].left], u[h[n].right])
  IN u[p]

(* An accepted text gives the tree the grammar derives, with the           *)
(* precedence and left associativity of its operators, under a With that   *)
(* names the declared variables in order when there are any.               *)
TreeIsTheDerivation ==
  pc = "done" /\ ~err =>
    LET top == heap[result]
        e   == IF top.kind = "With" THEN top.left ELSE result
    IN /\ (top.kind = "With") <=> (Declared(input) # <<>>)
       /\ top.kind = "With" => top.vals = Declared(input)
       /\ Unfold(heap, e) = ProgramTree(input)

(* A text that some program extends: the rest of a variable list, one      *)
(* operand and closing parentheses are enough to complete it.              *)
Viable(s) ==
  \E h \in {<<>>, <<"colon">>, <<"ident", "colon">>},
     o \in {<<>>, <<"ident">>}, m \in 0 .. Len(s) :
    IsProgram(s \o h \o o \o [i \in 1 .. m |-> "r_paren"])

(* The text before the lookahead token.                                    *)
Consumed == IF tok = "eoi" THEN input ELSE SubSeq(input, 1, Len(input) - 1)

(* Errors are neither late nor early: the first one is reported at the     *)
(* first token that no program can have there.                             *)
FirstErrorIsExact ==
  [][~err /\ err' => /\ Viable(Consumed)
                     /\ ~ IF tok = "eoi" THEN IsProgram(input)
                                          ELSE Viable(input)]_pvars

(* However deep the calls and broken the text, the parser takes time       *)
(* linear in its length, at most 12 steps a token: every step, recovery's  *)
(* included, lowers Cost, whose parts are the tokens ahead, the functions  *)
(* that have yet to return and what the running one can do before it reads *)
(* on.                                                                     *)
Ahead == fuel + (IF tok = "eoi" THEN 0 ELSE 1)
BeforeCalls(fn) == CASE fn = "expr" -> 11 [] fn = "term" -> 7 [] fn = "factor" -> 3
BeforeReading ==
  CASE pc \in {"calc", "declare", "declared"} -> 15
    [] pc = "enter"               -> BeforeCalls(Top.fn)
    [] pc = "resume"              -> 3
    [] pc \in {"skip", "recover"} -> 2
    [] pc = "parsed"              -> 1
    [] pc = "done"                -> 0
Cost == 12 * Ahead + 3 * Len(stack) + BeforeReading
StepsAreCounted == [][Cost' < Cost]_pvars

(* However broken the text, recovery reads it to its end and parse()       *)
(* returns with the whole text consumed.                                   *)
ReturnsAtEndOfText == <>[](pc = "done" /\ tok = "eoi")
=============================================================================
