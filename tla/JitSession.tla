----------------------------- MODULE JitSession -----------------------------
(***************************************************************************)
(* A session of calc-lang-ljit (main.cc) with its parser (Parser.h,        *)
(* Parser.cc).  The parser is a function of the text: a text is a sequence *)
(* of kinds of token, a state of the parser is the place of Tok in it and  *)
(* Err.  expect is true on a match, consume advances on a mismatch only,   *)
(* and the functions test them in both senses.                             *)
(***************************************************************************)
EXTENDS Naturals, Sequences

CONSTANTS Texts,     \* sequences of kinds, what may be given as the argument or typed at the prompt
          AssertsOn  \* assertions are compiled in

VARIABLES
  input,    \* the option Input, which the lexer reads in every round
  quits,    \* a name in it contains "quit"
  phase,    \* "prompt", "switch", "accepted", "end" of a round, "aborted" or "left"
  line,     \* calcExp, the line typed last
  printed   \* what the round printed: "nothing", "module" or "value"
vars == <<input, quits, phase, line, printed>>

-----------------------------------------------------------------------------
Tok(t, s)      == IF s.at <= Len(t) THEN t[s.at] ELSE "eoi"
Advance(s)     == [s EXCEPT !.at = @ + 1]
Error(s)       == [s EXCEPT !.err = TRUE]
Expect(t, s, kind)  == IF Tok(t, s) = kind THEN s ELSE Error(s)
Consume(t, s, kind) == IF Tok(t, s) = kind THEN s ELSE Advance(Error(s))
Skip(t, s, kinds) ==
  [s EXCEPT !.at = CHOOSE i \in s.at .. Len(t) + 1 :
                     /\ Tok(t, [s EXCEPT !.at = i]) \in kinds \cup {"eoi"}
                     /\ \A j \in s.at .. i - 1 : t[j] \notin kinds]

(* parse: no function but parseCalc looks at what the expression is, so    *)
(* expressions are states.                                                 *)
RECURSIVE ParseExpr(_, _)
ParseFactor(t, s) ==
  CASE Tok(t, s) \in {"number", "ident", "r_paren"} -> Advance(s)
    [] Tok(t, s) = "l_paren" ->
         LET e == ParseExpr(t, Advance(s)) IN
         IF Tok(t, e) = "r_paren" THEN Advance(e) ELSE Consume(t, e, "r_paren")
    [] OTHER -> Skip(t, Error(s), {"r_paren", "plus", "star"})

RECURSIVE ParseTerm(_, _)
ParseTerm(t, s) ==
  LET left == ParseFactor(t, s) IN
  IF Tok(t, left) = "star" THEN ParseTerm(t, Advance(left)) ELSE left

ParseExpr(t, s) ==
  LET left == ParseTerm(t, s) IN
  IF Tok(t, left) = "plus" THEN ParseExpr(t, Advance(left)) ELSE left

(* The outcome of parse: a tree, or nullptr when parseCalc went to _err.   *)
Failed(s)        == [tree |-> "null", err |-> s.err]
Made(tree, t, s) == [tree |-> tree, err |-> Expect(t, s, "eoi").err]

(* A list of names or of numbers.  goesOn says which answer of expect      *)
(* lets the loop go on; the other one leads to _err.                       *)
RECURSIVE ParseList(_, _, _, _)
ParseList(t, s, kind, goesOn) ==
  LET item == Expect(t, s, kind)
      next == Advance(item) IN
  IF (Tok(t, s) = kind) # goesOn THEN [ok |-> FALSE, s |-> item]
  ELSE IF Tok(t, next) = "comma" THEN ParseList(t, Advance(next), kind, goesOn)
  ELSE [ok |-> TRUE, s |-> next]

ParseWith(t, s) ==
  LET names == ParseList(t, Advance(s), "ident", FALSE)
      expr  == ParseExpr(t, Consume(t, names.s, "colon")) IN
  IF ~names.ok \/ Tok(t, names.s) = "colon" \/ Tok(t, expr) = "eoi"
  THEN Failed(names.s)
  ELSE Made("with", t, expr)

ParseDef(t, s) ==
  LET name   == Advance(s)
      paren  == Advance(name)
      params == ParseList(t, Consume(t, paren, "l_paren"), "ident", TRUE)
      close  == Consume(t, params.s, "r_paren")
      expr   == ParseExpr(t, Consume(t, close, "equals")) IN
  IF /\ Tok(t, name) = "ident" /\ Tok(t, paren) = "l_paren" /\ params.ok
     /\ Tok(t, params.s) = "r_paren" /\ Tok(t, close) = "equals" /\ Tok(t, expr) = "eoi"
  THEN Made("def", t, expr)
  ELSE Failed(Error(s))

ParseFunctionCall(t, s) ==
  LET paren == Advance(s)
      args  == ParseList(t, Consume(t, paren, "l_paren"), "number", FALSE)
      close == Consume(t, args.s, "r_paren") IN
  IF Tok(t, paren) # "l_paren" \/ ~args.ok \/ Tok(t, args.s) # "r_paren" \/ Tok(t, close) = "eoi"
  THEN Failed(Error(s))
  ELSE Made("call", t, close)

Parse(t) ==
  LET s    == [at |-> 1, err |-> FALSE]
      expr == ParseExpr(t, s) IN
  CASE Tok(t, s) = "with"  -> ParseWith(t, s)
    [] Tok(t, s) = "def"   -> ParseDef(t, s)
    [] Tok(t, s) = "ident" -> ParseFunctionCall(t, s)
    [] OTHER -> IF Tok(t, expr) = "eoi" THEN Failed(expr) ELSE Made("expr", t, expr)

-----------------------------------------------------------------------------
(* The option is "Init" unless it is parsed from the command line, which   *)
(* happens within an assertion.                                            *)
Default == <<"ident">>
Init ==
  /\ input \in {Default} \cup (IF AssertsOn THEN Texts ELSE {})
  /\ quits \in BOOLEAN /\ (quits => input # Default /\ "ident" \in {input[i] : i \in DOMAIN input})
  /\ phase = "prompt" /\ line = <<>> /\ printed = "nothing"

(* getline; at the end of the input it leaves the line empty, every time.  *)
Prompt ==
  /\ phase = "prompt"
  /\ line' \in Texts \cup {<<>>}
  /\ printed' = "nothing" /\ phase' = "switch"
  /\ UNCHANGED <<input, quits>>

(* The Parser's constructor has taken the first token when main peeks.     *)
Peeked == Tok(input, [at |-> 2, err |-> FALSE])
Accepted == Parse(input).tree # "null" /\ ~Parse(input).err

Switch ==
  /\ phase = "switch"
  /\ phase' = IF Peeked \notin {"def", "ident"} THEN "end"
              ELSE IF Accepted THEN "accepted" ELSE "aborted"
  /\ UNCHANGED <<input, quits, line, printed>>

(* Sema and the JIT: the module is printed, a call is evaluated; a refusal *)
(* of Sema fails an assertion, an error of the JIT ends the process.       *)
Compile ==
  /\ phase = "accepted"
  /\ \/ phase' = "end" /\ printed' = IF Parse(input).tree = "call" THEN "value" ELSE "module"
     \/ phase' = "aborted" /\ printed' \in {"nothing", "module"}
  /\ UNCHANGED <<input, quits, line>>

Quit ==
  /\ phase = "end"
  /\ phase' = IF quits THEN "left" ELSE "prompt"
  /\ UNCHANGED <<input, quits, line, printed>>

Next == Prompt \/ Switch \/ Compile \/ Quit

Spec == Init /\ [][Next]_vars

-----------------------------------------------------------------------------
(* The definitions of the transcript, README.md:8 and 26.                  *)
Names(n) == [i \in 1 .. 2 * n - 1 |-> IF i % 2 = 1 THEN "ident" ELSE "comma"]
Bodies   == {<<"ident", "star", "number">>, <<"ident", "star", "ident", "plus", "number">>}
IsDefinition(t) ==
  \E n \in 1 .. Len(t), body \in Bodies :
    t = <<"def", "ident", "l_paren">> \o Names(n) \o <<"r_paren", "equals">> \o body

(* The transcript of README.md:8-13: a definition that is typed is        *)
(* compiled and its module printed.  Asked only of sessions that are given *)
(* the same text as their argument, since main lexes the argument.         *)
DefinitionsAreCompiled ==
  IsDefinition(line) /\ input = line /\ phase \in {"end", "aborted"} => printed # "nothing"
=============================================================================
