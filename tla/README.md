# A TLA+ model of llvm-learn

llvm-learn is a series of small compilers and LLVM tools: a calculator language
(`calc-language`), the same with a JIT and user functions (`calc-lang-ljit`), a
Modula-2-like language (`aman-lang`), an ORC-based JIT driver (`custom-jit`), an
instrumentation pass (`pprofiler`) and a TableGen backend (`tablegen`). All of it is
single-threaded and persists nothing. What is hard in it is sequential: parsers that
recover from errors and hand null pointers on, passes that may run twice, generated code
that relies on what an earlier stage refused, input left over in a buffer, values that
are undefined, and code inside assertions.

## Inventory

| part | state | operations | talks to | what makes it correct |
|---|---|---|---|---|
| calc parser (`Parser.cc`, `Lexer.cc`, `AST.h`) | lookahead token, `Err`, call stack, tree, `Vars` | `parse`, `parseCalc`, `parseExpr`, `parseTerm`, `parseFactor`, `advance` | calls the lexer; hands the tree and `hasErr()` to `main` | accepts the grammar and nothing else; the tree is the derivation; errors are exact; it always returns; no null without an error |
| calc Sema (`Sema.cc`) | scope, `Err` | the three visitors, `sema` | reads the tree | refuses undeclared and doubly declared names |
| calc CodeGen (`CodeGen.cc`) | `V`, `nameMap`, the emitted `main` | the three visitors, `run`, `compile` | relies on Sema | the program computes the expression; no made-up operand |
| calc main and runtime (`main.cc`, `calc_rt.c`) | stage of the compilation; stdin of the program | `main`, `calc_read`, `calc_write` | drive the stages; called by the emitted code | variables take what was typed in order, nothing skipped; errors are reported and end the run |
| calc-lang-ljit | REPL, `JITedFunctions`, JIT modules | `main`'s loop, parser, Sema, `visit(DefDecl)`, `visit(FuncCallFromDef)` | LLJIT | a line is evaluated as typed; calls agree with definitions; redefinitions |
| aman-lang Lexer/Diagnostics | `Ptr`, error count | `next`, `report` | called by parser | progress on every character; errors counted |
| aman-lang Parser | `Tok`, call stack | `parse*`, `consume`, `expect`, `skipUntil` | drives lexer and Sema | recovery returns; declarations reach Sema in order |
| aman-lang Sema | `CurScope`, `CurDecl` | `enterScope`, `leaveScope`, `actOn*` | called by parser | scopes nest with declarations; lookup finds the visible declaration; types agree |
| aman-lang CodeGen | `BlockDefs`, sealed blocks, phi nodes, type caches, debug scopes | `writeLocalVariable`, `readLocalVariable`, `sealBlock`, `optimizePhi`, statements | reads the AST | a read yields the definition that reaches it; no use of an erased phi |
| aman-lang Driver | list of inputs | `main` | all of the above | every input is compiled, no output after an error |
| custom-jit | ORC layers | `JIT::create`, `addIRModule`, `lookup` | LLVM ORC | every part is moved once, after its last use |
| pprofiler pass (`PProfiler.cc`) | functions of a module, inserted calls | `run`, `instrument`, registration | LLVM pass manager; the runtime at execution | once per function; the runtime never profiles itself; events match calls |
| tablegen (`TableGenEmitter.cc`) | table of keywords; the emitted lookup's search | `emitKeywordFilter`, the emitted `lookupKeyword` | read by a lexer | every keyword is found, nothing else is |

Vendored code (ANTLR under `aman-lang/thirdparty`, LLVM's `PassBuilder.cpp`) is not ours to
model. The hazards of each part are in PROJECT.json.

## Modules

| module | models | composes |
|---|---|---|
| `CalcGrammar` | the grammar of calc-language as a declarative definition: trees by spans, no behaviour | |
| `CalcParser` | the parser, one action per stretch of code between two calls | `CalcGrammar` |
| `MachineInt` | integers of `Width` bits with undefined values | |
| `CalcCompiler` | `main.cc`, `Sema.cc`, `CodeGen.cc`, `calc_rt.c` around the parser | `CalcParser`, `MachineInt` |
| `CalcLanguage` | what the language promises: judge a text, take answers, print the meaning | `CalcGrammar`, `MachineInt` |
| `PProfiler` | the pass over the units of a program, then the program's call stack | |
| `KeywordFilter` | the table, and the binary search of the emitted lookup | |
| `RecursiveDescent` | aman-lang's `Parser.h` and lexer as a parser sees them: `expect`, `consume`, `skipUntil`, calls, handlers and their answers, over a table of routines | |
| `SemaProtocol` | the order in which a parser may drive Sema: headings, bodies and procedures properly nested | |
| `AmanParser` | the routines of aman-lang's `Parser.cc`, token by token | `RecursiveDescent`, `SemaProtocol` |
| `AmanSema` | aman-lang's Sema, Scope and the parser functions that drive them: scopes, declarations, statements | `SemaProtocol` |
| `CGProcedure` | aman-lang's code generation for one procedure: blocks, branches, sealing | |
| `JitSession` | `main` and the parser of calc-lang-ljit | |
| `StackLemmas` | facts on stacks used by the proofs | |
| `CalcParserProofs`, `CalcCompilerProofs`, `PProfilerProofs`, `KeywordFilterProofs`, `AmanSemaProofs`, `AmanParserProofs`, `CGProcedureProofs` | the theorems | their component |
| `MC*` | the values of the constants for TLC | their component |

### Correspondence with the code

*CalcParser.* The variable `stack` is the C++ call stack of `parseExpr`, `parseTerm`,
`parseFactor` (their locals `left` and `op`), `pc` the point reached, `ret` the pointer just
returned. `heap` holds the AST nodes and a pointer is an index, 0 being `nullptr`. The text
is chosen one token at a time, when `advance` asks for it: `input` is what has been lexed
and a `StringRef` is a position in it. `parseExpr` and `parseTerm` have the same code over
different operators and share the actions `EnterLevel`, `LevelOperator`, `LevelReturn`.
`FactorUnclosed` is the fall-through of `case l_paren` into `default`, with the operand kept.

*CalcCompiler.* `stage` is where `main` or the emitted program stands. `text` gives each
token its spelling, so that names can coincide and numbers can be too large. `SemaErr` is
`DeclCheck` over the tree, `Compile` emits `code` in the order in which the visitor creates
instructions, with `NoValue` for the null that `nameMap[]` makes up and any value of `Garbage`
for a number `getAsInteger` refused. The program's steps follow the emitted instructions;
`CalcRead` and `CalcReadRest` are `calc_read` on a 64-byte buffer. A line is a sequence of pieces, one
for each time `fgets` would have to be called for it: a line that fits is one piece, a longer one is cut at
the end of the buffer, wherever that is, and what follows is the next piece, which may be a number
again. Of a piece the model keeps what `sscanf` and end of file tell apart. `typed` remembers the pieces with
the prompt at which their line was typed; the code keeps no such thing. `AssertsOn` says whether the build keeps assertions:
the calls of `sema`, `compile` and of the option parser are arguments of `assert`.

*PProfiler.* `enters[f]` and `exits[f][r]` count the calls that `instrument` inserted at f's
entry and before its return r, `symbols[u]` is what `M.getFunction` finds in unit u, `todo` the rest
of the loop over `M.functions()`. After `Start` the program runs: a frame owes its calls of
`__ppp_enter`, then runs its body, then owes the calls of `__ppp_exit` of the return it takes.
`Unwind` is an exception through a frame. The program and the runtime are external:
any call may happen, except that the runtime calls nothing outside its unit.

*KeywordFilter.* `Collect` is a turn of the loop over the TokenFilter's list, `Emit` the
sort and the emission, `Lookup`/`Probe`/`Answer` a call of the emitted function. `Probe` is
one halving of `std::lower_bound`. A name is an integer, a flag word a set of bits.

*AmanSema.* `frames` is the part of the C++ call stack that holds an `EnterDecl`:
`parseCompilationUnit` and the `parseProcedureDeclaration`s below it, each with its local lists
(`formals`, `list`, `stmts`) and the place its code has reached (`at`). `scopes` is the chain of
`Scope` objects from the outermost to `CurScope`, `curDecl` is `CurDecl`, `decls` are the `Decl`
objects allocated so far. `dropped` remembers of each group of parameters that disappears without a report
how many parameters its procedure had by then (`DropParameters`); the code forgets them. As in `CalcParser` the text is chosen while it is read, at the grain of
what reaches Sema: a declared name, a call, a statement. Some things the code does are worth
knowing when the module is read beside it:

- Nothing makes a `ModuleDecl`: the module's `EnterDecl` carries a null declaration. Its
  destructor, and `actOnModuleDeclaration`, dereference it, so every text that starts with a
  module heading ends in `Crash`, which is why the properties speak of the states before.
- After a parse error every function on the stack gives up (`skipUntil` answers false where it
  found a token to go on at), so `Fail` takes the whole stack down. Parse errors go through a copy
  of the diagnostics engine (`getDiag` returns by value) and are not counted in `reported`.
- `parseIfStatement` answers false when it succeeds. What it contains can report, but neither it
  nor the text after it reaches the tree. A body is one statement, since `parseBlock` calls
  `parseStatement` once.
- `isa<Designator>` is true of parameters' designators only (see Findings).
- The type declarations of Sema (arrays, records, aliases) are reached by no parser function.
- The shipped lexer classifies keywords with an inverted test, so today's executable does not get
  past its first identifier. Parser and Sema are modelled behind the interface of the lexer.

*RecursiveDescent and AmanParser.* A routine is a function of `Parser.cc`: named points with the
step taken at each (a test of the token, a call, something Sema is told, an answer), so that `AmanParser`
is a table and `RecursiveDescent` the machine that runs it. `stack` is the C++ call stack, the text is
chosen when `advance` asks for it, and after the end of the text the token stays `eof`, as it does in
`Lexer::next`; `Stuck` is the character no token starts with, for which `Ptr` does not move. A call of
Sema may end the process (`Act`): which calls do is in `AmanSema`. What the functions do, and the
model with them:

- The test of a relation's operands is inverted (Parser.cc:761): it refuses a correct relation and
  swallows an error in its right operand. `consume (r_paren)` is inverted at line 590.
- `parseBlock` ignores what its handler answers (line 135), and the handler of the compilation unit
  skips to the end of the text and answers true.
- A module's heading reads no `;`, which the grammar in aman-lang's README.md:27 has; the END of a body
  is looked at and never read. The case for constants waits for an identifier where CONST is (see
  Findings), types have no case, and selectors are dead because the lexer's cases for `^`, `[` and `]`
  fall through to `unknown`.
- `parseTypeDeclaration`, `parseFieldList` and `parseField` are called by nothing.

*SemaProtocol.* `open` are the declarations whose scope is entered, each at a place: what `AmanSema` keeps
as the frames' `at`, and `AmanParser` computes from its stack. Both modules implement it, which by itself
says only that neither does anything else. That `AmanSema` leaves out none of the parser's orders needs
the converse for `AmanSema`, `EveryOrderIsOffered`: wherever the protocol has a step, `AmanSema` has one that is
this step, but for its bounds. So an order of the token-level parser is one of the protocol, and an order of the
protocol is among those the properties of `AmanSema` are checked for.

*CGProcedure.* `code` are the basic blocks with their instructions, `curr` is `CurrBlk`, `open` the
calls of the statement functions that are walking a list, with the blocks they still have to go to.
`sealed` is the set of blocks `sealBlock` was called with. The list of THEN or of a WHILE may be empty, and the
list of a WHILE from the parser always is (Parser.cc:672-677); an IF has an ELSE if that list has a statement
(CGProcedure.cc:228). Worth knowing beside the code:

- After the branch of an IF, `setInsertion (CurrBlk)` (CGProcedure.cc:243) leaves the builder where it
  is: the statements of THEN follow the branch in its own block, and `if.body` stays empty and
  unsealed. An IF without ELSE branches to a null block (line 240). So a function with an IF is not
  one LLVM accepts, and `LoopsAreWellFormed` speaks of functions without.
- A RETURN in the body of a WHILE is followed by the branch back (line 284), one before another
  statement by that statement: two terminators, or a terminator in the middle.
- `BlockDefs` is never filled: `sealBlock` finds nothing and `at` fails for every parameter and local.
  `CGModule::run` returns after the first variable or procedure, so there are no globals for
  a procedure. Three functions run off their end without a return. All of these may end the process,
  at any statement (`Abort`).
- The parser does not get here: every module ends in a crash of Sema (see `AmanSema`). The generator
  is modelled for any statements, as the library it is.

*JitSession.* One state per point of `main`'s loop. The parser is a function from texts (sequences of
kinds of token) to outcomes. `input` is the command line's option, which every round lexes instead
of the line it has read (main.cc:35, 46), and `Peeked` is the second token, since the parser's
constructor has taken the first.

## Runs

| run | result | bounds, and why they are enough |
|---|---|---|
| `calc_parser` | holds | all texts of up to 7 tokens over 11 kinds (2.5 million states). Seven tokens hold a variable list with a comma and an expression after it, two operators of different levels with a parenthesis, and an unclosed one nested in another. After an error two more tokens may follow (`MaxJunk`), which is what recovery can tell apart: a synchronising token and the one after it. |
| `calc_compiler` | holds | texts of up to 8 tokens: `with a, b : a - b` has eight. Numbers of 3 bits, one literal that fits and one that does not, `-4 / -1` and division by zero. Lines of one piece of each form (a number, a word, blanks, end of file), and lines that do not fit the buffer: a number and more blanks than it holds, a number and another one behind them, a word or numeral too long for it with a number at its end, and one that is cut twice. With two variables a rest can become the answer of the second, and two rests can be left. |
| `calc_tree_assert` | violated | see Findings |
| `calc_release` | violated | see Findings |
| `pprofiler` | holds | two units of the program and the runtime's; three runs of the pass, so that a unit is run twice and another once; a nameless function, two returns per function, units that declare the runtime's functions by hand; stack depth 4 covers a profiled function, its event, a helper of the runtime and a call of it; one exception. |
| `keyword_filter` | holds | every list of up to 4 tokens over 4 names, equal names with different flags included, every order of equals the sort may choose, every query. Four entries make all the splits of a halving search. |
| `keyword_miss` | violated | see Findings |
| `aman_sema` | holds | three declarations in blocks nested up to three deep, one argument, two identifiers (symmetric) beside `Integer`, which a text may redeclare. Three declarations hold a name shadowed twice, a procedure with a parameter and a variable, and a duplicate beside its original. A body has its statement only while nothing has been reported (`BodiesAfterReport` is FALSE): the properties of statements say nothing after a report, and statements do not change what Sema knows. About a million states. |
| `aman_assign` | violated | see Findings |
| `aman_parser` | holds | every text, right or wrong, while no more than 12 routines are open: IFs nested in the module's body, complete assignments and calls in a first procedure, procedures nested three deep. The text is not bounded. About half a million states. |
| `jit_transcript` | violated | every text of up to two tokens and the lines of the README |
| `cg_procedure` | holds | five statements, nested three deep: a loop in a branch in a loop, with a statement before and after the innermost, and lists of THEN and WHILE that are empty. 279,597 states. |

What the properties say, briefly (each has its comment in the module):

- `AcceptsExactlyPrograms`, `TreeIsTheDerivation`: the recursive descent is compared with an
  independent definition of the grammar, not with itself. `FirstErrorIsExact` says that the
  text before the first error can still be completed to a program and with the offending
  token no longer can. `NullIsReported` is what `main`, Sema and CodeGen rely on.
  `StepsAreCounted` says that every step, recovery's included, lowers a cost linear in the text.
- `ImplementsLanguage` is a refinement: `CalcCompiler` implements `CalcLanguage!Spec` with the
  mapping given there, whatever the answers are. `AnswersMatchPrompts` says which answers they are: the
  variables take the pieces of what was typed one by one, and a variable is answered at an earlier prompt
  exactly if the line there was cut. `OperandsAreDefined` is the other way to a wrong value.
- `ProfiledOnce`, `ProfilerIsNotReentered`, `EventsMatchCalls`: the pass is idempotent, the
  profiler never records itself, and the events reconstruct the stack except for unwound frames.
- `KeywordsAreFound`, `LookupReturns`: the search over the sorted table is right, and it ends.
- `LookupIsInnermost` compares `Scope::lookup` with a definition of visibility that uses the
  declarations alone and no scope. `ScopesFollowDecls` relates the two chains Sema keeps
  separately. `TreeIsComplete` and `StatementsAreTyped` are what CodeGen takes for granted of a tree
  that came without a report; of parameters `TreeIsComplete` says which ones the tree may lack (see Findings),
  and `StatementsAreTyped` compares a call with those it has.
- `CallsAreExpected`: Sema is told of parameters within a heading only, of declarations (constants, had they a
  way in, with their expressions) within a block, of statements within a body, and of a procedure's lists once its
  block is complete. `ReturnsAtEndOfText` and `KeepsReading` are progress: at the end of
  the text the parser returns, and no loop turns without reading, unless the lexer stands still.
- `FollowsProtocol` (twice) is the refinement of `SemaProtocol`, by the parser and by Sema;
  `EveryOrderIsOffered` the converse for Sema, in the states between two declarations or statements.
- `SealedBlocksGetNoPredecessor` is what sealing promises (CGProcedure.h:36), `FilledBlocksAreSealed`
  that it is not forgotten; `LoopsAreWellFormed` compares the blocks with what LLVM asks of them.

`CHECK_DEADLOCK FALSE` is said where the system stops: a finished compilation, a program
that has exhausted `MaxDepth`. KeywordFilter never stops and is checked for deadlock.

### Fairness

Everything is one thread that never waits except for the user's line, so weak fairness of the
whole next-state relation (`FairSpec` of the two parsers, `FairSpecAll`) says only that the
processor goes on. `FairSpecAll` also assumes a user who answers or closes the input.
In KeywordFilter only the steps of a running lookup are fair: nobody has to call it.

## Findings

- `calc_tree_assert`: `parse()` returns null for an error in the variable list or after the
  expression, and `assert(Tree!=nullptr)` (main.cc:24) comes before the test that prints
  "Parser error". With assertions on (the CMake file chooses no build type) such a text aborts.
- `calc_release`: `sema.sema(Tree)` and `codegen.compile(Tree)` are evaluated inside `assert`;
  an NDEBUG build does nothing with a text that parsed.
- `keyword_miss`: the emitted lookup tests the lower bound against the end of the table only
  and so answers true for absent names, which its comment (TableGenEmitter.cc:256) denies.
- `aman_assign`: the designator of a variable is constructed with the kind `EK_Var` (AST.h:788),
  which `Designator::classof` refuses. `actOnAssignment` finds no designator and, in an empty
  statement list, drops the assignment with no report, where its comment (Sema.cc:408-409) says
  that it adds an `AssignmentStatement`.
- `jit_transcript`: the transcript in calc-lang-ljit/README.md:8-13 types `def f(x) = x*2` and gets
  a module. `consume` answers true without reading the token (Parser.h:31), so no definition parses,
  and `main` asserts that it did. The run gives the line as the program's argument as well, since
  that is what `main` lexes.

Three more disagreements are in the models as the code has them, and no run of their own shows them:

- calc_rt.c:14 reads 63 characters of a line. What a longer line leaves is taken at the next prompt as that
  variable's value, if it begins with a number (`AnswersMatchPrompts` says exactly when).
- Sema.cc:154-157 says that a parameter is made for each identifier. If the type is no type, the group
  is dropped, and line 179 reports that only if the procedure has got a parameter before; so `(x : f)`
  with a procedure `f` is a heading without parameters and without a message. `TreeIsComplete` says that no other
  parameter, variable or procedure is lost in silence.
- aman-lang's README.md:30-31, thirdparty/AmanLang.g:16 and the comment of `parseDeclaration` (Parser.cc:279-291) have
  constant declarations. The case for them is labelled `identifier` (Parser.cc:299) while `parseBlock` comes with
  CONST, so `parseDeclaration` answers false and the text is given up.

## Proofs

All theorems hold for every value of the constants that the named assumptions admit.

*CalcParserProofs.* Three parts, for texts of any length.

The grammar first. `Derive` is a recursive function over spans, so that it satisfies its equation has to be
proved (`DeriveIs`: a solution is built span by span in the order of `Measure`). From the equation: the
tree of a span depends on the span's tokens alone (`TreeLocal`), a span with a tree is balanced in
parentheses and has its loud operators inside them (`TreeSentence`, with `Depth` for the depth of
parentheses), hence it splits at one place only (`UniqueSplit`), and the grammar's rules hold as equations
between trees (`LeafRule`, `ParenRule`, `LevelRule`, `SplitRule`).

Then `ParserTypeCorrect` and `NoUnreportedNull`. `NullIsReported` is not inductive: a null returned by
`parseFactor` travels through frames, operands and `ret`. The invariant adds that while no error is reported
every frame that has an operator has a non-null left operand, that `ret` is non-null where a caller is about
to use it, and that the skip and recover points are reached only with `err` set. One step per action.

Then acceptance. At any moment the text is known up to the lookahead; its *futures* are the texts it may turn
out to be. The invariant `ReadsRight` says of every future t that as long as no error is reported the parser
has read t as the grammar does: the frames of the stack are a chain of spans of t, each waiting for the one above
it, with the left operands they hold equal to the grammar's trees (`Chain`, `Link`), and what was just
returned is the tree of the last span (`Resuming`); and that once an error is reported t is no program
(`ErrorInList`, `ErrorAtOperand`, `ErrorAfterOperand`, `ErrorUnclosed`, `ErrorAtTail`: a depth of
parentheses or a pair of neighbours that no program has). At the end the text is its only future, which gives
`ParserAcceptsPrograms` and `ParserBuildsTheDerivation`. For `FirstErrorsAreExact` the futures of a text that
was refused show that the error is not late; that it is not early needs a program for what came before: `ChainCloses`
closes the parentheses of the frames one by one, `ListCompletes` ends a broken variable list.

Last, `ParserTakesLinearTime`. `Cost` is 12 for each token ahead, 3 for each function on the stack, and what the
point reached may still do before it reads. Each action lowers it: a step that reads pays for what may follow
with its token, a call or a return with its frame, and the skip loop reads in every turn because it stops at the
end of the text. Since `Cost` is a natural number that starts at no more than 12 a token and 15, no behaviour has
more steps than that. This is the safety half of `ReturnsAtEndOfText`; the other half is that some step is possible until the
parser is done, which needs ENABLED and stays with TLC.

*CalcCompilerProofs.* `CompilerTypeCorrect`, `SemaProtectsCodeGen`, `AnswersReachTheirVariables` (for lines of any
number of pieces: the rest of a cut line is the one thing that can be left in `stdin`). The invariant
carries the parser's (`FrontInv`: `Parse` steps are steps of the parser that keep the text spelled) and says
what the stages after it have established (`BackInv`): the tree is in the heap, every name in it is declared once when
Sema let it pass, the code begins with one read for each declared variable, in order, and every operand refers to
an earlier instruction. The visitors are recursive functions over the heap, unfolded by `TreeRecursion`.

`CompilerImplementsLanguage`, in the same module: in a build with assertions `CalcCompiler` implements
`CalcLanguage`. The hypothesis `AssertsOn` is needed: without it `main()` skips `sema` and `compile`, which is the
finding `ParsedTextIsCompiled`. The specification's own copies of the grammar are shown equal to the
compiler's (`SameDerive`, `SameDeclared`), and its `Meaning` is restated as a function of the text and
the answers, `Means`, whose equation is proved as that of `Derive` is (`MeansIs`, `MeaningRules`). What relates a
tree in the heap to the span it was read from is proved once, for any set of spans closed under the
grammar's rules (`TreesMatch`), and used twice: `DeclErr` of a node says whether its span has an undeclared name,
so that Sema passes exactly the well-formed programs (`SemaJudges`); and the code of a node leaves in its operand
what its span means, if that is defined (`TreeIsFaithful`). The right child is found behind the
left one's instructions, and operands reach only backwards, so both survive what is emitted after them. The
invariant, `RefineInv`, adds to the ones above `ReadsRight`, that the code is the translation of the tree with the
garbage of one compilation (`RunsItsCode`), and that the values so far come from executing it
(`Executed`). Undefined operations end no proof: once one has happened the text means nothing
(`ApplyIsStrict`), and the specification then allows any number and a trap. The proof found one fault of the
specification: `Meaning` applied its function to spans it is not defined on, for empty factors, which
TLC never evaluates; it was changed to stay inside them.

*PProfilerProofs.* `IInv` is TypeOK with three more parts. `PassInv`: outside the unit
being worked on, enters and exits agree and are 0 or 1, functions still in `todo` have none,
the runtime's unit is never worked on, and a unit with any instrumented function has the runtime's
symbols, so that `Skip` is the only thing that can happen to it again. `StackInv`: what a frame
still owes is bounded by what its function was given, and above a runtime frame there are
only frames of the runtime's unit, which owe nothing. `EventsMatchCalls` itself is part of the
induction: a push, a pop or a change of the top frame changes `OpenOnStack` by exactly the event
recorded (lemmas on cardinality). Theorems: `ProfilerTypeCorrect`, `PassIsIdempotent`, `NoReentry`,
`EventsAreBalanced`.

*KeywordFilterProofs.* The table is sorted and holds exactly what was collected; names
before `first` are smaller than the query, names from `first + count` on are not. Theorems:
`SearchStaysInTable` and `EveryKeywordIsFound`, for tables of any size.

*AmanSemaProofs.* `ScopesFollowDecls` is not inductive: leaving a procedure pops one scope and
follows one `encl` pointer, and that they arrive at the same block needs the whole chain. `IInv`
has six named parts. `DataTyped` and `Stages` are the types and which data exist when. `Chain`
says that the frames' declarations are the enclosing declarations of the innermost one, each made
after the one around it, so no block appears twice. `Outermost` keeps the pervasive names as the
constructor entered them. `Blocks` says of every other scope that it maps each name declared in
its block, and no other, to the first declaration of that name; together with `Chain` it makes
lookup right, and it is why a duplicate is met by the insert tests (`DoublesAreReported` itself is
the sixth part). Each action is first shown to be of one of seven kinds (`StepKinds`: it keeps
the declarations, declares a name, opens a procedure, closes one, enters the module, refuses the
text or ends the process), then each kind is shown to preserve `IInv`. Theorems:
`SemaTypeCorrect`, `ScopesStayInStep`, `LookupFindsInnermost`, `DuplicatesAreReported`.

In the same module, `CompleteTreesAreRight` and `StatementsFitDeclarations`. What is dropped is an induction of its
own (`DropsRight`): a report is never taken back, and without one the list of formals is empty. For the rest the invariant, `TreeInv`, says that
while nothing is reported the list each function of the parser has put together, with the procedure
still open inside it, holds exactly the variables and procedures of its block, ascending, and its
formals the parameters; that all functions but the innermost wait at "block"; and that a procedure
whose heading is past (`Headed`) has exactly its parameters in its heading and its return type set
(`HeadingRight`). A recorded statement refers to headed procedures only, since a body can name no
other (`LookupHeaded`), and a heading never changes again, so that what was compared when the statement
was read holds at the end (`StatementsStay`, `TreeStays`). `Tree` is stated of values ds and fs, so that
an action is a change of these to es and gs and the lemmas serve several actions.

`SemaFollowsProtocol`, at the end of the module: each action of `AmanSema` is a step of `SemaProtocol` under the
mapping `Place`, or changes no place. It rests on the types proved before. Its converse speaks of ENABLED and stays
with TLC.

*AmanParserProofs.* `AnswersFindTheirCallers`: `TypeOK` of `RecursiveDescent`. An answer
goes to the frame below, which must be waiting at a call. `WellStacked` says that every frame but the innermost
one is at a call of its routine, and that the frame above runs the routine called, so that a return finds
the step to go on from. Of the table it uses `RoutinesAssumption` alone.

`SemaIsToldInPlace` and `ParserFollowsProtocol` (`CallsAreExpected` and `FollowsProtocol`, for any set of tokens
without `^` and `[`) rest on what the table says of each function, read off it by cases: where it may be called from
(`CallSites`), what it tells Sema and where (`Tells`), where it goes on after an answer (`AnsweredAt`) and which
of its points are dead (`Dead`). `Alive` adds to `WellStacked` that no frame is at a dead point, which needs
the token: `parseDeclaration` is entered before a word that begins a declaration only. From these it follows what
each frame sees, the place of the innermost declaration below it (`Seated`), by induction along the stack;
`SemaIsToldInPlace` is then a matter of the top frame. For the protocol, the open declarations are computed
frame by frame (`OpenUpto`), and a step is shown to change only the place of the innermost one, to open one or
to close one (`MoveFollows`, `CallFollows`, `AnswerFollows`). Errors need the one fact about recovery: outside
the bodies every caller answers false to a false answer (`Passing`; only `parseExpression` swallows one), so that a
handler entered there is never left for the text (`LostStays`).

*CGProcedureProofs.* The blocks that open statements still go to (`Pending`) are neither sealed nor
current, and no two statements share one; new blocks lie beyond all of them. Then every branch goes to
a new block or to a pending one, hence to no sealed one: `SealedInTime`. With the second part, that a
block with instructions is sealed, current, or the test of an open WHILE, `EveryFilledBlockIsSealed`.
`TypeCorrect` is the third theorem.

`LoopsAreAccepted`, in the same module, is about procedures without an IF. Reachability is stated without
recursion, so that it can be proved: no set of blocks but the whole contains the entry and is closed under
successors, or contains the return and is closed under predecessors. The invariant, `Looping`, says of the
unfinished function that every block but the current one and those after the open WHILEs has branched away
(`EndInJumps`); that each block but the entry is entered from an earlier one (`EnteredEarlier`), which
makes all of them reached, by induction on their places; and that a set closed under predecessors which has the
current block and those after the WHILEs is the whole (`LeadsTo`). At the end no WHILE is open and the current
block returns. One lemma each shows what an appended instruction, a WHILE and its end do to these.

The proofs rest on the assumptions named in the modules (`KindsAssumption`,
`FunctionsAssumption`, `NamesAssumption` and so on), which TLC evaluates in every run. Facts about recursive
functions (`Derive`, `Unfold`, the visitors) are proved by induction on sets of numbers, since the library's
induction theorems take operators the provers cannot instantiate. Model-checked only: liveness
(`ReturnsAtEndOfText`, `KeepsReading`, `EveryRunEnds`, `LookupReturns`) and, since it speaks of ENABLED,
`EveryOrderIsOffered`. Every other property of a passing run is
stated by a theorem.

## Not modelled

Characters of tokens, wording of messages, printing of IR, LLVM itself. Of aman-lang: the lexer's
scanning and keyword table, the operators' type rules, the caches of types, TBAA and debug
information, exception handling, and the driver, a loop that calls parts each of which ends the
process on any module today. Of calc-lang-ljit: Sema, code generation and the JIT, which no text
reaches. custom-jit is one straight line through LLVM's ORC classes. Of tablegen the emitters that
only print names.

## Plan

Done: the calculator from text to output, the profiler pass, the keyword table, aman-lang's parser,
scopes and declarations, and blocks, calc-lang-ljit's session; proofs of every safety property, action property and refinement the passing runs check but one that
speaks of ENABLED.
Next, in order of importance:

1. `AmanTypes`: the operators' type rules, the caches of CGModule and CGTbaa, the scopes of
   CGDebugInfo.
2. Phi nodes (`readLocalVariableRecursive`, `optimizePhi`), once a block can get into `BlockDefs`.
3. A bound on the steps of `AmanParser` between two reads, as `StepsAreCounted` is for the calculator: the
   safety half of `KeepsReading`. Its routines loop through tables, so it needs a rank for each point.
