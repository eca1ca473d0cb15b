---------------------------- MODULE CalcCompiler ----------------------------
(***************************************************************************)
(* calc-language from end to end: main.cc drives the parser (CalcParser),  *)
(* Sema and CodeGen over one text, and the program they emit runs against  *)
(* the runtime of calc_rt.c.                                               *)
(***************************************************************************)
EXTENDS CalcParser, MachineInt, FiniteSets

CONSTANTS
  Lexemes,     \* Lexemes[k]: what a token of kind k can spell
  Lines,       \* what the user can type at a prompt
  Garbage,     \* bound: what an uninitialised int can hold
  AssertsOn    \* FALSE in a build with NDEBUG

ASSUME AssertsAssumption == AssertsOn \in BOOLEAN
ASSUME GarbageAssumption == Garbage \subseteq Ints

VARIABLES
  text,     \* the spelling of each token of input
  stage,    \* where main() or the compiled program stands
  code,     \* the instructions of the emitted main, reads first
  value,    \* the operand of its call of calc_write
  regs,     \* the values the program's instructions have produced
  stdin,    \* what fgets has left of the line typed last, in pieces
  typed,    \* the pieces of the lines typed, each with the prompt it answered
  printed   \* what calc_write printed

cgvars   == <<code, value>>
runvars  == <<regs, stdin, typed, printed>>
vars_all == <<pvars, text, stage, cgvars, runvars>>

Names(ps) == {text[ps[v]] : v \in 1 .. Len(ps)}

-----------------------------------------------------------------------------
(* The command line is read inside an assertion: without assertions the    *)
(* text is the option's initial value, the single name Init.               *)
TextIsInit == input = <<"ident">>

(* main.cc: parse.                                                         *)
Parse ==
  /\ stage = "parse"
  /\ ParseStep
  /\ AssertsOn \/ TextIsInit'
  /\ IF input' = input THEN UNCHANGED text
     ELSE \E x \in Lexemes[tok'] : text' = Append(text, x)
  /\ UNCHANGED <<stage, cgvars, runvars>>

(* main.cc: assert(Tree != nullptr) comes before the test of hasErr(), and *)
(* the calls of sema and compile live inside assertions.                   *)
AfterParse ==
  /\ stage = "parse" /\ pc = "done"
  /\ stage' = CASE AssertsOn /\ result = Null -> "aborted"
                [] ~(AssertsOn /\ result = Null) /\ err -> "rejected"
                [] ~(AssertsOn /\ result = Null) /\ ~err ->
                     IF AssertsOn THEN "sema" ELSE "returned"
  /\ UNCHANGED <<pvars, text, cgvars, runvars>>

-----------------------------------------------------------------------------
(* Variant: only missing operands are reported, never an unknown name.     *)
DeclErrOfOperands(p, scope) ==
  LET v[n \in 1 .. Len(heap)] ==
        LET node == heap[n] IN
        /\ node.kind = "BinaryOp"
        /\ \/ node.left = Null \/ node.right = Null
           \/ v[node.left] \/ v[node.right]
  IN v[p]

(* Sema.cc: DeclCheck from node p with the names in scope; whether Err is  *)
(* set.  visit(With) inserts every variable before it visits the           *)
(* expression.                                                             *)
DeclErr(p, scope) ==
  LET v[n \in 1 .. Len(heap)] ==
        LET node == heap[n] IN
        IF node.kind = "Factor"
        THEN input[node.vals[1]] = "ident" /\ text[node.vals[1]] \notin scope
        ELSE \/ node.left = Null \/ node.right = Null
             \/ node.left # Null /\ v[node.left]
             \/ node.right # Null /\ v[node.right]
  IN v[p]

(* Variant: insert()'s result is ignored.                                  *)
DeclaredTwiceUnnoticed(ps) == FALSE

DeclaredTwice(ps) ==
  \E v, w \in 1 .. Len(ps) : v # w /\ text[ps[v]] = text[ps[w]]

SemaErr(p) ==
  LET node == heap[p] IN
  IF node.kind = "With"
  THEN \/ DeclaredTwice(node.vals)
       \/ node.left = Null
       \/ DeclErr(node.left, Names(node.vals))
  ELSE DeclErr(p, {})

RunSema ==
  /\ stage = "sema"
  /\ stage' = IF SemaErr(result) THEN "aborted" ELSE "codegen"
  /\ UNCHANGED <<pvars, text, cgvars, runvars>>

-----------------------------------------------------------------------------
(* CodeGen.cc: the visitor appends one instruction per variable and one    *)
(* per operator, operands first and the left one before the right; its V   *)
(* is an operand.                                                          *)
Const(x) == <<"const", x>>
Reg(i)   == <<"reg", i>>
NoValue  == <<"null">>       \* the Value* nameMap makes up for a new key

Read(name)      == [op |-> "read", name |-> name]
Binary(o, l, r) == [op |-> o, left |-> l, right |-> r]

TreeOf == IF heap[result].kind = "With" THEN heap[result].left ELSE result
ReadVars == IF heap[result].kind = "With" THEN heap[result].vals ELSE <<>>

(* nameMap after visit(With): the last call that read the name.            *)
NameMap(name) ==
  LET hits == {v \in 1 .. Len(ReadVars) : text[ReadVars[v]] = name}
  IN IF hits = {} THEN NoValue
     ELSE Reg(CHOOSE v \in hits : \A w \in hits : w <= v)

(* Variant: a number is emitted at whatever size it has.                   *)
NumberValueUnbounded(p, garbage) == <<text[p]>>

(* A number that getAsInteger refuses leaves intVal uninitialised: garbage *)
(* holds what each such token gets.                                        *)
NumberValue(p, garbage) ==
  IF text[p] \in Ints THEN <<text[p]>> ELSE <<garbage[p]>>

(* How many instructions a subtree takes; where its value is found when    *)
(* they follow base others; and the instructions.                          *)
Size == LET z[n \in 0 .. Len(heap)] ==
              IF n = Null \/ heap[n].kind # "BinaryOp" THEN 0
              ELSE z[heap[n].left] + z[heap[n].right] + 1
        IN z

ValueOf(n, base, garbage) ==
  LET pos == heap[n].vals[1] IN
  CASE heap[n].kind # "Factor" -> Reg(base + Size[n])
    [] heap[n].kind = "Factor" /\ input[pos] = "ident" -> NameMap(text[pos])
    [] OTHER -> Const(NumberValue(pos, garbage))

Emitted(garbage) ==
  LET e[n \in 1 .. Len(heap)] ==
        [base \in Nat |->
           IF heap[n].kind # "BinaryOp" THEN <<>>
           ELSE LET l == heap[n].left
                    r == heap[n].right
                    mid == base + Size[l]
                IN e[l][base] \o e[r][mid]
                   \o <<Binary(heap[n].op, ValueOf(l, base, garbage),
                               ValueOf(r, mid, garbage))>>]
  IN e

TooBig == {p \in 1 .. Len(input) : input[p] = "number" /\ text[p] \notin Ints}

Compile ==
  /\ stage = "codegen"
  /\ \E garbage \in [TooBig -> Garbage] :
       /\ code' = [v \in 1 .. Len(ReadVars) |-> Read(text[ReadVars[v]])]
                   \o Emitted(garbage)[TreeOf][Len(ReadVars)]
       /\ value' = ValueOf(TreeOf, Len(ReadVars), garbage)
  /\ stage' = "run"
  /\ UNCHANGED <<pvars, text, runvars>>

-----------------------------------------------------------------------------
(* The compiled program, linked with calc_rt.c.                            *)
Current == code[Len(regs) + 1]
Running(o) == stage = "run" /\ Len(regs) < Len(code) /\ Current.op \in o

(* calc_read: fgets takes at most 63 characters and leaves the rest of the *)
(* line to the next call; sscanf then looks for a number in what it took.  *)
(* A line is a sequence of the pieces fgets takes.  "number" is a piece    *)
(* that starts with an int, "word" one that holds none, or digits that are *)
(* too many for one, "blank" nothing at all; "eof" leaves buf              *)
(* uninitialised.                                                          *)
Piece == [form : {"number"}, n : Ints] \cup [form : {"word", "blank", "eof"}]
HasNumber(piece) == piece.form = "number"
ASSUME LinesAssumption == Lines \subseteq Seq(Piece) \ {<<>>}

(* What sscanf can leave in val: uninitialised when it converts nothing.   *)
Scanned(piece) == IF HasNumber(piece) THEN {piece.n}
                  ELSE IF piece.form = "blank" THEN {} ELSE Garbage
(* Whether it can return EOF.                                              *)
ScanEnds(piece) == piece.form \in {"blank", "eof"}

Scan(piece) ==
  \/ \E n \in Scanned(piece) : regs' = Append(regs, <<n>>) /\ UNCHANGED stage
  \/ ScanEnds(piece) /\ stage' = "exited" /\ UNCHANGED regs

(* Variant: a line that does not fit is taken from its start again.        *)
RestFromTheStart(line) == IF Len(line) > 1 THEN line ELSE <<>>

(* What fgets leaves.                                                      *)
RestOf(line) == Tail(line)

(* The pieces of a line typed at the prompt for the next variable; cut     *)
(* are those that end where the buffer does and not the line.              *)
Answering(line) ==
  [i \in DOMAIN line |-> [piece |-> line[i], cut |-> i < Len(line), prompt |-> Len(regs) + 1]]

(* The user is asked only when nothing is left.                            *)
CalcRead ==
  /\ Running({"read"}) /\ stdin = <<>>
  /\ \E line \in Lines :
       /\ typed' = typed \o Answering(line)
       /\ stdin' = RestOf(line)
       /\ Scan(Head(line))
  /\ UNCHANGED <<pvars, text, cgvars, printed>>

(* Variant: the prompt is repeated without reading on.                     *)
CalcReadAgain ==
  /\ Running({"read"}) /\ stdin # <<>>
  /\ UNCHANGED vars_all

(* The rest of a long line is all this call gets to see.                   *)
CalcReadRest ==
  /\ Running({"read"}) /\ stdin # <<>>
  /\ stdin' = RestOf(stdin)
  /\ Scan(Head(stdin))
  /\ UNCHANGED <<pvars, text, cgvars, typed, printed>>

Operand(v) == IF v[1] = "const" THEN v[2] ELSE regs[v[2]]

Compute ==
  /\ Running(Operators)
  /\ LET x == Apply(Current.op, Operand(Current.left), Operand(Current.right))
     IN \/ regs' = Append(regs, x) /\ UNCHANGED stage
        \/ /\ Current.op = "slash" /\ x = Undefined
           /\ stage' = "trapped"
           /\ UNCHANGED regs
  /\ UNCHANGED <<pvars, text, cgvars, stdin, typed, printed>>

(* calc_write, with whatever an undefined value happens to be.             *)
CalcWrite ==
  /\ stage = "run" /\ Len(regs) = Len(code)
  /\ \E n \in Ints :
       /\ Operand(value) # Undefined => <<n>> = Operand(value)
       /\ printed' = <<n>>
  /\ stage' = "finished"
  /\ UNCHANGED <<pvars, text, cgvars, regs, stdin, typed>>

-----------------------------------------------------------------------------
InitAll ==
  /\ Init
  /\ AssertsOn \/ TextIsInit
  /\ IF input = <<>> THEN text = <<>> ELSE \E x \in Lexemes[tok] : text = <<x>>
  /\ stage = "parse"
  /\ code = <<>> /\ value = NoValue
  /\ regs = <<>> /\ stdin = <<>> /\ typed = <<>> /\ printed = <<>>

MainStep == Parse \/ AfterParse \/ RunSema \/ Compile
ProgramStep == CalcRead \/ CalcReadRest \/ Compute \/ CalcWrite

NextAll == MainStep \/ ProgramStep
SpecAll == InitAll /\ [][NextAll]_vars_all
(* A single thread that is never blocked but at a prompt, and a user who   *)
(* answers or closes the input.                                            *)
FairSpecAll == SpecAll /\ WF_vars_all(NextAll)

-----------------------------------------------------------------------------
ValueType == {NoValue} \cup {Const(x) : x \in Values} \cup {Reg(i) : i \in 1 .. Len(code)}

(* The type invariant of what main() and the compiled program add.         *)
TypeOKAll ==
  /\ TypeOK
  /\ Len(text) = Len(input) /\ \A p \in 1 .. Len(text) : text[p] \in Lexemes[input[p]]
  /\ stage \in {"parse", "sema", "codegen", "run", "rejected", "aborted",
                "returned", "exited", "trapped", "finished"}
  /\ \A i \in 1 .. Len(code) : code[i].op \in Operators \cup {"read"}
  /\ value \in ValueType
  /\ \A i \in 1 .. Len(regs) : regs[i] \in Values
  /\ \A i \in 1 .. Len(stdin) : stdin[i] \in Piece
  /\ \A i \in 1 .. Len(typed) : typed[i] \in [piece : Piece, cut : BOOLEAN, prompt : Nat]
  /\ printed \in Values

(* CodeGen never uses a name Sema did not see declared, and an instruction *)
(* uses only what was computed before it: no operand is the null Value*    *)
(* that nameMap[] makes up, so the builder is never handed one.            *)
DefinedBefore(v, i) == v # NoValue /\ (v[1] = "reg" => v[2] \in 1 .. i - 1)
OperandsAreDefined ==
  /\ \A i \in 1 .. Len(code) :
       code[i].op \in Operators =>
         DefinedBefore(code[i].left, i) /\ DefinedBefore(code[i].right, i)
  /\ stage = "run" => DefinedBefore(value, Len(code) + 1)

(* The variables take what the user types piece by piece, nothing skipped  *)
(* and nothing taken twice: the k-th one gets the number of the k-th piece.*)
(* That piece was typed at its own prompt unless the piece before was cut  *)
(* at the end of the buffer: then it is the rest of that line, typed at an *)
(* earlier prompt (calc_rt.c:14).                                          *)
AnswersMatchPrompts ==
  \A k \in 1 .. Len(regs) : code[k].op = "read" =>
    /\ k <= Len(typed)
    /\ HasNumber(typed[k].piece) => regs[k] = <<typed[k].piece.n>>
    /\ typed[k].prompt = IF k > 1 /\ typed[k - 1].cut THEN typed[k - 1].prompt ELSE k

(* The compiler and the programs it emits implement CalcLanguage.          *)
Ended == {"exited", "trapped", "finished"}
NumReads == Cardinality({i \in 1 .. Len(code) : code[i].op = "read"})
Language == INSTANCE CalcLanguage WITH
  source  <- IF stage \in {"parse", "sema", "codegen"} THEN <<>> ELSE <<input, text>>,
  verdict <- CASE stage \in {"parse", "sema", "codegen"} -> "unread"
               [] stage \in {"rejected", "aborted"} -> "rejected"
               [] stage = "run" -> "accepted"
               [] OTHER -> stage,
  answers <- SubSeq(regs, 1, IF Len(regs) < NumReads THEN Len(regs) ELSE NumReads),
  printed <- printed
ImplementsLanguage == Language!Spec

(* Every compilation ends in a verdict, and an accepted program that gets  *)
(* its answers ends.                                                       *)
EveryRunEnds == <>(stage \in Ended \cup {"rejected", "aborted"})

(* main.cc:24 asserts that parse() never returns a null tree.              *)
TreeIsNeverNull == pc = "done" => result # Null

(* main.cc:30 and 34 announce a semantic check and code generation for a   *)
(* text that parsed: main never returns from one without a value to print. *)
ParsedTextIsCompiled == stage = "returned" => value # NoValue
=============================================================================
