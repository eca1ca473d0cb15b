------------------------------ MODULE AmanSema ------------------------------
(***************************************************************************)
(* The semantic analysis of aman-lang (Sema.h, Sema.cc, Scope.h) and the   *)
(* parser functions that drive it (Parser.cc): scopes, the current         *)
(* declaration, and the declarations and statements of the tree.           *)
(*                                                                         *)
(* frames is the C++ call stack of the parser from parseCompilationUnit    *)
(* down, one frame for every EnterDecl alive, with the function's lists;   *)
(* scopes and curDecl are Sema's.  A Decl is a cell of decls, a pointer is *)
(* an index, 0 is nullptr.  Which text is read is chosen step by step;     *)
(* tokens without an effect on Sema are left out.                          *)
(***************************************************************************)
EXTENDS Integers, Sequences

CONSTANTS Names,      \* the identifiers of the text
          MaxDecls,   \* bound: declarations of the text
          MaxFrames,  \* bound: the module and procedures nested in it
          MaxArgs,    \* bound: arguments of a call
          BodiesAfterReport  \* bound: may a body have a statement after a report

ASSUME SizesAssumption ==
  {MaxDecls, MaxFrames, MaxArgs} \subseteq Nat /\ BodiesAfterReport \in BOOLEAN

VARIABLES
  decls,     \* the declarations allocated so far
  scopes,    \* CurScope (the last) and its parents: name -> declaration
  curDecl,   \* CurDecl
  frames,    \* the parser's functions that hold an EnterDecl
  reported,  \* an error went through Sema's Diag
  pc,        \* "start", "parsing", "crashed" or "done"
  dropped    \* of the groups of parameters that were dropped without a
             \* report: how many parameters the procedure had got before
             \* (not in the code, which forgets them)

vars == <<decls, scopes, curDecl, frames, reported, pc, dropped>>

Null   == 0
Unset  == -1   \* RetType as the constructor leaves it
TypeKinds == {"PervasiveType"}
Places == {"imports", "formals", "params", "block", "vars", "stmt", "end"}

Elements(s) == {s[i] : i \in DOMAIN s}
Top   == frames[Len(frames)]
Below == SubSeq(frames, 1, Len(frames) - 1)
CurScope == scopes[Len(scopes)]
SetTop(f) == frames' = [frames EXCEPT ![Len(frames)] = f]

(* The constructors of Decl's subclasses; a list is empty, RetType is not  *)
(* initialised.  text is not in the code: the kind of statement the body   *)
(* of the procedure consists of, once the procedure is complete.           *)
Declaration(kind, encl, name, type, isVar) ==
  [kind |-> kind, encl |-> encl, name |-> name, type |-> type, isVar |-> isVar,
   params |-> <<>>, ret |-> Unset, members |-> <<>>, stmts |-> <<>>, text |-> "open"]

IntegerType == 1
BooleanType == 2
Pervasive(kind, name, type) == Declaration(kind, Null, name, type, FALSE)
Pervasives == << Pervasive("PervasiveType", "Integer", Null),
                 Pervasive("PervasiveType", "Boolean", Null),
                 Pervasive("Const", "TrueConst", BooleanType),
                 Pervasive("Const", "FalseConst", BooleanType) >>

PervasiveNames == {"Integer", "Boolean", "TrueConst", "FalseConst"}

Frame(d, at) == [decl |-> d, at |-> at, type |-> Null, isVar |-> FALSE, formals |-> <<>>, list |-> <<>>,
                 stmts |-> <<>>, text |-> "none"]

(* Sema's constructor: initalize fills the outermost scope.                *)
Init ==
  /\ decls = Pervasives
  /\ scopes = << [n \in PervasiveNames |->
                    CHOOSE i \in 1 .. 4 : Pervasives[i].name = n] >>
  /\ curDecl = Null
  /\ frames = <<>>
  /\ reported = FALSE
  /\ pc = "start"
  /\ dropped = {}

-----------------------------------------------------------------------------
(* Scope::lookup: the scope itself, then its parents.                      *)
Holders(n) == {k \in 1 .. Len(scopes) : n \in DOMAIN scopes[k]}

(* Variant: the search starts from the outermost scope.                    *)
LookupOutermost(n) ==
  IF Holders(n) = {} THEN Null
  ELSE scopes[CHOOSE k \in Holders(n) : \A j \in Holders(n) : k <= j][n]

Lookup(n) ==
  IF Holders(n) = {} THEN Null
  ELSE scopes[CHOOSE k \in Holders(n) : \A j \in Holders(n) : j <= k][n]

IsType(d) == d # Null /\ decls[d].kind \in TypeKinds

(* Scope::insert: StringMap::insert keeps the declaration already there.   *)
Inserted(scope, name, d) ==
  [n \in DOMAIN scope \cup {name} |-> IF n \in DOMAIN scope THEN scope[n] ELSE d]

(* enterScope and leaveScope, which EnterDecl's constructor and destructor *)
(* call.  leaveScope dereferences CurDecl.                                 *)
EnterScope(d, outer) ==
  /\ scopes' = Append(outer, << >>)
  /\ curDecl' = d

(* Variant: leaveScope leaves CurDecl alone.                               *)
LeaveScopeKeepsDecl ==
  /\ scopes' = SubSeq(scopes, 1, Len(scopes) - 1)
  /\ UNCHANGED curDecl

LeaveScope ==
  /\ scopes' = SubSeq(scopes, 1, Len(scopes) - 1)
  /\ curDecl' = decls[curDecl].encl

(* The process ends and takes Sema and the tree with it.                   *)
Crash ==
  /\ pc' = "crashed"
  /\ decls' = <<>> /\ scopes' = <<>> /\ frames' = <<>> /\ curDecl' = Null

-----------------------------------------------------------------------------
(* parseCompilationUnit up to its block.  D is null: nothing makes a       *)
(* ModuleDecl.  A text that does not start with MODULE and a name is       *)
(* skipped to its end.                                                     *)
NotAModule ==
  /\ pc = "start"
  /\ pc' = "done"
  /\ UNCHANGED <<decls, scopes, curDecl, frames, reported>>

EnterModule ==
  /\ pc = "start"
  /\ EnterScope(Null, scopes)
  /\ frames' = << Frame(Null, "imports") >>
  /\ pc' = "parsing"
  /\ UNCHANGED <<decls, reported>>

At(place) == pc = "parsing" /\ Top.at = place

(* actOnImport.                                                            *)
Import ==
  /\ At("imports")
  /\ reported' = TRUE
  /\ UNCHANGED <<decls, scopes, curDecl, frames, pc>>

EnterBlock ==
  /\ At("imports")
  /\ SetTop([Top EXCEPT !.at = "block"])
  /\ UNCHANGED <<decls, scopes, curDecl, reported, pc>>

(* A qualident is looked up and its null result dereferenced: by           *)
(* dyn_cast in a declaration, an assignment or a call, by isa when a       *)
(* period follows.  At the end of the text it is null without a report.    *)
UndeclaredName ==
  /\ pc = "parsing" /\ Top.at \in {"formals", "block", "stmt"}
  /\ \E n \in Names : Lookup(n) = Null
  /\ reported' = TRUE
  /\ Crash

TypeMissingAtEof ==
  /\ pc = "parsing" /\ Top.at \in {"formals", "block"}
  /\ Crash
  /\ UNCHANGED reported

UserDecls == Len(decls) - Len(Pervasives)

(* parseVariableDeclaration and parseFormalParameter with the first part   *)
(* of actOnVariableDeclaration and actOnFormalParameterDeclaration: the    *)
(* type is looked up before any of the identifiers is declared.            *)
VariableDeclaration(n) ==
  /\ At("block")
  /\ LET D == Lookup(n) IN
     \/ /\ IsType(D) /\ UserDecls < MaxDecls
        /\ SetTop([Top EXCEPT !.at = "vars", !.type = D])
        /\ UNCHANGED reported
     \/ /\ D # Null /\ ~IsType(D)
        /\ reported' = TRUE
        /\ UNCHANGED frames
  /\ UNCHANGED <<decls, scopes, curDecl, pc>>

FormalParameter(n, isVar) ==
  /\ At("formals")
  /\ LET D == Lookup(n) IN
     /\ IsType(D) /\ UserDecls < MaxDecls
     /\ SetTop([Top EXCEPT !.at = "params", !.type = D, !.isVar = isVar])
  /\ UNCHANGED <<decls, scopes, curDecl, reported, pc>>

(* Variant: they are dropped without a report in every place.              *)
DropParametersSilently(n) ==
  /\ At("formals")
  /\ LET D == Lookup(n) IN D # Null /\ ~IsType(D)
  /\ dropped' = IF reported THEN dropped ELSE dropped \cup {Len(Top.formals)}
  /\ UNCHANGED <<decls, scopes, curDecl, frames, reported, pc>>

(* Parameters whose type is no type are dropped, with a report only if the *)
(* procedure has got a parameter before.                                   *)
DropParameters(n) ==
  /\ At("formals")
  /\ LET D == Lookup(n) IN D # Null /\ ~IsType(D)
  /\ reported' = (reported \/ Top.formals # <<>>)
  /\ dropped' = IF reported' THEN dropped ELSE dropped \cup {Len(Top.formals)}
  /\ UNCHANGED <<decls, scopes, curDecl, frames, pc>>

(* Variant: Scope::insert's answer is not looked at.                       *)
DeclareUnreported(kind, name) ==
  /\ UserDecls < MaxDecls
  /\ decls' = Append(decls, Declaration(kind, curDecl, name, Top.type, Top.isVar))
  /\ scopes' = [scopes EXCEPT ![Len(scopes)] = Inserted(@, name, Len(decls) + 1)]
  /\ UNCHANGED <<reported, curDecl, pc>>

(* A turn of their loop over the identifiers.                              *)
Declare(kind, name) ==
  /\ UserDecls < MaxDecls
  /\ decls' = Append(decls, Declaration(kind, curDecl, name, Top.type, Top.isVar))
  /\ scopes' = [scopes EXCEPT ![Len(scopes)] = Inserted(@, name, Len(decls) + 1)]
  /\ reported' = (reported \/ name \in DOMAIN CurScope)
  /\ UNCHANGED <<curDecl, pc>>

Pushed(list, name) ==
  IF name \in DOMAIN CurScope THEN list ELSE Append(list, Len(decls) + 1)
Continues == IF UserDecls + 1 = MaxDecls THEN {FALSE} ELSE BOOLEAN

DeclareVariable(name, more) ==
  /\ At("vars")
  /\ Declare("Var", name)
  /\ SetTop([Top EXCEPT !.list = Pushed(@, name),
                        !.type = IF more THEN @ ELSE Null,
                        !.at = IF more THEN @ ELSE "block"])

DeclareParameter(name, more) ==
  /\ At("params")
  /\ Declare("Param", name)
  /\ SetTop([Top EXCEPT !.formals = Pushed(@, name), !.isVar = more /\ @,
                        !.type = IF more THEN @ ELSE Null,
                        !.at = IF more THEN @ ELSE "formals"])

-----------------------------------------------------------------------------
(* Variant: CurDecl is the procedure before its declaration is made.       *)
ProcedureDeclarationEnteredEarly(name) ==
  /\ At("block")
  /\ UserDecls < MaxDecls /\ Len(frames) < MaxFrames
  /\ LET P == Len(decls) + 1 IN
     /\ decls' = Append(decls, Declaration("Proc", P, name, Null, FALSE))
     /\ EnterScope(P, [scopes EXCEPT ![Len(scopes)] = Inserted(@, name, P)])
     /\ reported' = (reported \/ name \in DOMAIN CurScope)
     /\ frames' = Append(frames, Frame(P, "formals"))
     /\ UNCHANGED pc

(* parseProcedureDeclaration up to its parameters, with                    *)
(* actOnProcedureDeclaration(Loc, Name): the name goes to the scope the    *)
(* procedure is declared in; a duplicate is reported and parsed on.        *)
ProcedureDeclaration(name) ==
  /\ At("block")
  /\ UserDecls < MaxDecls /\ Len(frames) < MaxFrames
  /\ LET P == Len(decls) + 1 IN
     /\ decls' = Append(decls, Declaration("Proc", curDecl, name, Null, FALSE))
     /\ EnterScope(P, [scopes EXCEPT ![Len(scopes)] = Inserted(@, name, P)])
     /\ reported' = (reported \/ name \in DOMAIN CurScope)
     /\ frames' = Append(frames, Frame(P, "formals"))
     /\ UNCHANGED pc

(* actOnProcedureHeading with a RetType it accepts.                        *)
SetHeading(ret) ==
  decls' = [decls EXCEPT ![Top.decl].params = Top.formals, ![Top.decl].ret = ret]

(* The end of the heading.  An undeclared return type makes a procedure    *)
(* without one; what is no type leaves RetType uninitialised.              *)
NoReturnType ==
  /\ At("formals")
  /\ SetHeading(Null)
  /\ SetTop([Top EXCEPT !.at = "block"])
  /\ UNCHANGED <<scopes, curDecl, reported, pc>>

ReturnType(n) ==
  /\ At("formals")
  /\ LET D == Lookup(n) IN
     /\ SetHeading(IF D = Null \/ IsType(D) THEN D ELSE Unset)
     /\ reported' = (reported \/ ~IsType(D))
  /\ SetTop([Top EXCEPT !.at = "block"])
  /\ UNCHANGED <<scopes, curDecl, pc>>

(* Variant: a block must have a body.                                      *)
EnterBodyAlways ==
  /\ At("block")
  /\ reported => BodiesAfterReport
  /\ SetTop([Top EXCEPT !.at = "stmt"])
  /\ UNCHANGED <<decls, scopes, curDecl, reported, pc>>

(* parseBlock after the declarations: BEGIN and one statement, or neither  *)
(* BEGIN nor END, whereupon it skips to an identifier.                     *)
EnterBody ==
  /\ At("block")
  /\ \E place \in {"end"} \cup (IF reported => BodiesAfterReport THEN {"stmt"} ELSE {}) :
       SetTop([Top EXCEPT !.at = place])
  /\ UNCHANGED <<decls, scopes, curDecl, reported, pc>>

-----------------------------------------------------------------------------
(* Expressions: null, or the type of what was parsed and whether it is a   *)
(* variable, a parameter or neither.  Of the three only the designator of  *)
(* a parameter is one that isa<Designator> recognises.                     *)
NoExpr == [type |-> Null, kind |-> "null"]
Visible == {Lookup(n) : n \in Names} \ {Null}
ExprOf(d) == CASE decls[d].kind = "Var"   -> [type |-> decls[d].type, kind |-> "var"]
               [] decls[d].kind = "Param" -> [type |-> decls[d].type, kind |-> "param"]
               [] decls[d].kind = "Const" -> [type |-> decls[d].type, kind |-> "other"]
               [] decls[d].kind = "Proc"  -> [type |-> decls[d].ret, kind |-> "other"]
               [] OTHER                   -> NoExpr
Exprs == {ExprOf(d) : d \in Visible} \cup {NoExpr, [type |-> BooleanType, kind |-> "other"]}
ArgLists == UNION {[1 .. k -> Exprs \ {NoExpr}] : k \in 0 .. MaxArgs}

(* Variant: the types of the arguments are not compared.                   *)
ArgumentsReportedByCount(d, args) == Len(decls[d].params) # Len(args)

(* checkFormalAndActualParameters.                                         *)
ArgumentsReported(d, args) ==
  LET formals == decls[d].params IN
  \/ Len(formals) # Len(args)
  \/ \E i \in DOMAIN formals :
       \/ decls[formals[i]].type # args[i].type
       \/ decls[formals[i]].isVar /\ args[i].kind = "param"

InBody == At("stmt")
Report(condition) == reported' = (reported \/ condition)
KeepSema == UNCHANGED <<decls, scopes, curDecl, pc>>

(* actOnQualIdentPart and actOnDesignator within an expression.            *)
Use(n) ==
  /\ InBody
  /\ Report(Lookup(n) = Null)
  /\ UNCHANGED frames /\ KeepSema

(* actOnFunctionCall.                                                      *)
FunctionCall(n, args) ==
  /\ InBody
  /\ LET D == Lookup(n) IN
     Report(\/ D = Null
            \/ decls[D].kind # "Proc"
            \/ ArgumentsReported(D, args)
            \/ decls[D].ret = Null)
  /\ UNCHANGED frames /\ KeepSema

(* The statement, of the given kind, ends; `made` is what Sema pushed to   *)
(* the list.                                                               *)
Statement(kind, made) ==
  /\ SetTop([Top EXCEPT !.stmts = @ \o made, !.at = "end", !.text = kind])
  /\ KeepSema

(* An assignment: actOnDesignator, the index selector, actOnAssignment.    *)
(* The designator of a variable fails dyn_cast<Designator>: nothing is     *)
(* pushed, and something reported only if the list holds a statement.      *)
Assignment(n, E, indexed) ==
  /\ InBody
  /\ LET D == Lookup(n) IN
     /\ D # Null
     /\ \/ /\ decls[D].kind \in {"Var", "Const"}
           /\ Report(indexed \/ Top.stmts # <<>>)
           /\ Statement("assign", <<>>)
        \/ /\ decls[D].kind = "Param" /\ E # NoExpr
           /\ Report(indexed \/ decls[D].type # E.type)
           /\ Statement("assign", << [kind |-> "assign", to |-> D, types |-> <<E.type>>] >>)

(* The designator or the expression dereferenced there is null.            *)
AssignmentOfNull(n, E) ==
  /\ InBody
  /\ LET D == Lookup(n) IN
     /\ D # Null
     /\ \/ decls[D].kind \in TypeKinds \cup {"Proc"}
        \/ decls[D].kind = "Param" /\ E = NoExpr
  /\ Crash
  /\ UNCHANGED reported

(* actOnProcCall.                                                          *)
ProcCall(n, args) ==
  /\ InBody
  /\ LET D == Lookup(n) IN
     \/ /\ D # Null /\ decls[D].kind = "Proc"
        /\ Report(ArgumentsReported(D, args))
        /\ Statement("call", << [kind |-> "call", to |-> D, types |-> [i \in DOMAIN args |-> args[i].type]] >>)
     \/ /\ D # Null /\ decls[D].kind # "Proc"
        /\ Report(TRUE)
        /\ Statement("call", <<>>)

(* actOnReturnStatement, which casts CurDecl.                              *)
Return(E) ==
  /\ InBody /\ curDecl # Null
  /\ LET ret == decls[curDecl].ret IN
     Report(\/ ret # Null /\ E = NoExpr
            \/ ret = Null /\ E # NoExpr
            \/ ret # Null /\ E # NoExpr /\ ret # E.type)
  /\ Statement("return", << [kind |-> "return", to |-> Null,
                            types |-> IF E = NoExpr THEN <<>> ELSE <<E.type>>] >>)

ReturnInModule ==
  /\ InBody /\ curDecl = Null
  /\ Crash
  /\ UNCHANGED reported

(* actOnWhileStatement; a null condition is FALSE.                         *)
While(E) ==
  /\ InBody
  /\ Report(E # NoExpr /\ E.type # BooleanType)
  /\ Statement("while", << [kind |-> "while", to |-> Null, types |-> <<>>] >>)

-----------------------------------------------------------------------------
(* Variant: the procedure is not pushed to the enclosing list.             *)
EndProcedureUnlisted(name) ==
  /\ At("end") /\ Len(frames) > 1
  /\ LET D == Top.decl IN
     /\ decls' = [decls EXCEPT ![D].members = Top.list, ![D].stmts = Top.stmts,
                               ![D].text = Top.text]
     /\ reported' = (reported \/ name # decls[D].name)
     /\ frames' = Below
  /\ LeaveScope
  /\ UNCHANGED pc

(* Variant: the end of a procedure is taken before its body.               *)
EndProcedureEarly(name) ==
  /\ pc = "parsing" /\ Top.at \in {"block", "end"} /\ Len(frames) > 1
  /\ LET D == Top.decl
         outer == Len(frames) - 1 IN
     /\ decls' = [decls EXCEPT ![D].members = Top.list, ![D].stmts = Top.stmts,
                               ![D].text = Top.text]
     /\ reported' = (reported \/ name # decls[D].name)
     /\ frames' = [Below EXCEPT ![outer].list = Append(@, D)]
  /\ LeaveScope
  /\ UNCHANGED pc

(* The end of a procedure: actOnProcedureDeclaration with the lists, the   *)
(* declaration pushed to the enclosing list, EnterDecl's destructor.       *)
EndProcedure(name) ==
  /\ At("end") /\ Len(frames) > 1
  /\ LET D == Top.decl
         outer == Len(frames) - 1 IN
     /\ decls' = [decls EXCEPT ![D].members = Top.list, ![D].stmts = Top.stmts,
                               ![D].text = Top.text]
     /\ reported' = (reported \/ name # decls[D].name)
     /\ frames' = [Below EXCEPT ![outer].list = Append(@, D)]
  /\ LeaveScope
  /\ UNCHANGED pc

(* The end of the module: actOnModuleDeclaration dereferences ModDecl.     *)
EndModule ==
  /\ At("end") /\ Len(frames) = 1
  /\ Crash
  /\ UNCHANGED reported

(* A parse error, which no message of Sema's Diag tells.  skipUntil        *)
(* answers false at a token of its set, and every caller gives up; at the  *)
(* end of the text it answers true, and every caller fails at its next     *)
(* test.  An IF ends so too, whatever it contains and reports:             *)
(* parseIfStatement answers false.  The scopes are left one by one, the    *)
(* module's last, and that dereferences CurDecl, its null declaration.     *)
Fail ==
  /\ pc = "parsing" /\ Top.at \notin {"vars", "params"}
  /\ reported' \in {reported, TRUE}
  /\ Crash

(* What the text may do next at a place; the values it may use are those   *)
(* of the state it is in.                                                  *)
NextStatement ==
  \/ \E n \in Names : Use(n)
  \/ \E n \in Names, args \in ArgLists : FunctionCall(n, args) \/ ProcCall(n, args)
  \/ \E n \in Names, E \in Exprs : \/ \E indexed \in BOOLEAN : Assignment(n, E, indexed)
                                   \/ AssignmentOfNull(n, E)
  \/ \E E \in Exprs : Return(E) \/ While(E)
  \/ ReturnInModule

NextDeclaration ==
  \/ \E n \in Names : \/ VariableDeclaration(n)
                      \/ \E isVar \in BOOLEAN : FormalParameter(n, isVar)
                      \/ \E more \in Continues : \/ DeclareVariable(n, more)
                                                \/ DeclareParameter(n, more)
  \/ \E n \in Names : ProcedureDeclaration(n) \/ ReturnType(n) \/ EndProcedure(n)
  \/ NoReturnType \/ EnterBody

Parsing ==
  \/ Fail \/ UndeclaredName \/ TypeMissingAtEof \/ EndModule
  \/ NotAModule \/ EnterModule \/ Import \/ EnterBlock
  \/ NextDeclaration
  \/ InBody /\ NextStatement

Next == (Parsing /\ UNCHANGED dropped) \/ \E n \in Names : DropParameters(n)

Spec == Init /\ [][Next]_vars

-----------------------------------------------------------------------------
StmtType == [kind : {"assign", "call", "return", "while"}, to : Nat,
             types : Seq(Nat \cup {Unset})]
Texts == {"none", "assign", "call", "return", "while"}
DeclType == [kind : TypeKinds \cup {"Const", "Var", "Param", "Proc"},
             encl : Nat, name : Names \cup PervasiveNames, type : Nat, isVar : BOOLEAN,
             params : Seq(Nat), ret : Nat \cup {Unset}, members : Seq(Nat),
             stmts : Seq(StmtType), text : Texts \cup {"open"}]
FrameType == [decl : Nat, at : Places, type : Nat, isVar : BOOLEAN, formals : Seq(Nat), list : Seq(Nat),
              stmts : Seq(StmtType), text : Texts]

(* Every pointer of Sema and of the tree is null or an allocated           *)
(* declaration, and the parser's places are those of its code.             *)
TypeOK ==
  /\ decls \in Seq(DeclType)
  /\ \A d \in 1 .. Len(decls) : decls[d].encl \in 0 .. d - 1
  /\ \A k \in 1 .. Len(scopes) : \A n \in DOMAIN scopes[k] :
       scopes[k][n] \in 1 .. Len(decls)
  /\ curDecl \in 0 .. Len(decls)
  /\ frames \in Seq(FrameType)
  /\ \A k \in 1 .. Len(frames) : frames[k].decl \in 0 .. Len(decls)
  /\ reported \in BOOLEAN
  /\ pc \in {"start", "parsing", "crashed", "done"}
  /\ dropped \subseteq Nat

(* Scopes and declarations stay in step, in every order of nested          *)
(* declarations and parse errors: there is a scope for each EnterDecl      *)
(* alive and one for the pervasive names, CurDecl is the innermost         *)
(* procedure being parsed, procedures enclose each other as their scopes   *)
(* do, and a scope holds declarations of its own procedure only            *)
(* (Sema.cc:12-23, Sema.h:95-104).                                         *)
ScopesFollowDecls ==
  /\ pc # "crashed" => Len(scopes) = Len(frames) + 1
  /\ frames # <<>> => curDecl = Top.decl
  /\ \A k \in 2 .. Len(frames) : decls[frames[k].decl].encl = frames[k - 1].decl
  /\ \A k \in 1 .. Len(frames) : \A n \in DOMAIN scopes[k + 1] :
       LET d == decls[scopes[k + 1][n]] IN d.encl = frames[k].decl /\ d.name = n

(* What the language means by the declaration of a name, from the          *)
(* declarations alone: in the innermost enclosing block that declares it,  *)
(* the first one in the text.  Depth 0 are the pervasive names.            *)
Depth(d) == IF d <= Len(Pervasives) THEN 0
            ELSE CHOOSE k \in 1 .. Len(frames) : frames[k].decl = decls[d].encl
InScope(d) == d <= Len(Pervasives)
              \/ \E k \in 1 .. Len(frames) : frames[k].decl = decls[d].encl
Candidates(n) == {d \in 1 .. Len(decls) : decls[d].name = n /\ InScope(d)}
Precedes(d, e) == Depth(d) > Depth(e) \/ (Depth(d) = Depth(e) /\ d <= e)

(* Scope::lookup finds the declaration the language means, whatever was    *)
(* declared, shadowed, refused or left behind before (Scope.h:15-26).      *)
LookupIsInnermost ==
  pc = "parsing" =>
    \A n \in Names :
      LET found == Candidates(n) IN
      Lookup(n) = IF found = {} THEN Null
                  ELSE CHOOSE d \in found : \A e \in found : Precedes(d, e)

(* No two declarations of one block share a name unless that was reported  *)
(* (the insert tests of Sema.cc:140, 174 and 199).                         *)
DoublesAreReported ==
  ~reported =>
    \A d, e \in Len(Pervasives) + 1 .. Len(decls) :
      d < e => decls[d].name # decls[e].name \/ decls[d].encl # decls[e].encl

Complete(d) == decls[d].kind = "Proc" /\ decls[d].text # "open"
Declared(d, kinds) == {e \in 1 .. Len(decls) : decls[e].encl = d /\ decls[e].kind \in kinds}

(* A procedure that was parsed to its end without a report lists exactly   *)
(* its variables and complete procedures, and the parameters declared, in  *)
(* the order of the text, and its return type was set: what CodeGen walks  *)
(* over (Parser.cc:390-429).  The parameters are those its heading has in  *)
(* the text but for one case: groups before the first parameter whose type *)
(* is no type are dropped without a report (Sema.cc:179), although the     *)
(* comment there says that a parameter is made for each identifier.        *)
Ascending(s) == \A i, j \in DOMAIN s : i < j => s[i] < s[j]
TreeIsComplete ==
  ~reported =>
    /\ dropped \subseteq {0}
    /\ \A d \in 1 .. Len(decls) : Complete(d) =>
      /\ Elements(decls[d].params) = Declared(d, {"Param"})
      /\ Elements(decls[d].members) = Declared(d, {"Var", "Proc"})
      /\ Ascending(decls[d].params) /\ Ascending(decls[d].members)
      /\ decls[d].ret # Unset
      /\ \A m \in Elements(decls[d].members) :
           decls[m].kind = "Proc" => Complete(m)

(* In a procedure that was parsed without a report, a call hands over one  *)
(* argument of the right type for each parameter Sema has, a RETURN agrees *)
(* with the heading of the procedure around it, and an assignment to a     *)
(* parameter agrees with its type (Sema.cc:417-460, 543-554).              *)
StatementsAreTyped ==
  ~reported =>
    \A d \in 1 .. Len(decls) : Complete(d) =>
      \A s \in Elements(decls[d].stmts) :
        CASE s.kind = "call" ->
               LET formals == Declared(s.to, {"Param"}) IN
               \E f \in [DOMAIN s.types -> formals] :
                 /\ Ascending(f) /\ Elements(f) = formals
                 /\ \A i \in DOMAIN f : decls[f[i]].type = s.types[i]
          [] s.kind = "return" ->
               s.types = IF decls[d].ret = Null THEN <<>> ELSE <<decls[d].ret>>
          [] s.kind = "assign" -> s.types = <<decls[s.to].type>>
          [] OTHER -> TRUE

(* The parser's functions and EnterDecl as SemaProtocol sees them.         *)
Place(at) == CASE at = "params" -> "formals"
               [] at = "vars"   -> "block"
               [] OTHER         -> at
Protocol == INSTANCE SemaProtocol WITH open <- [k \in 1 .. Len(frames) |-> Place(frames[k].at)],
                                       over <- pc \in {"crashed", "done"}

(* Scopes are entered and left, and declarations come to their headings,   *)
(* bodies and ends, in no order but SemaProtocol's (Sema.h:95-104).        *)
FollowsProtocol == Protocol!Spec

(* The converse: between two declarations or statements every step that    *)
(* the protocol has there is one the analysis takes, so no order that      *)
(* keeps to the protocol is missing but by a bound.  The parser over       *)
(* tokens keeps to it (AmanParser's FollowsProtocol); together they say    *)
(* that its orders are among those the properties above are checked for.   *)
Offers(protocolStep) == ENABLED (Next /\ protocolStep)
EveryOrderIsOffered ==
  /\ pc = "start" => Offers(Protocol!EnterModule) /\ Offers(Protocol!Stop)
  /\ pc = "parsing" /\ Top.at \notin {"vars", "params"} =>
       /\ Offers(Protocol!Stop)
       /\ Top.at = "imports" => Offers(Protocol!EndImports)
       /\ Top.at = "formals" => Offers(Protocol!EndHeading)
       /\ Top.at = "block" =>
            /\ UserDecls < MaxDecls /\ Len(frames) < MaxFrames => Offers(Protocol!OpenProcedure)
            /\ Offers(Protocol!EndBlockWithoutBody)
            /\ (reported => BodiesAfterReport) => Offers(Protocol!BeginBody)
       /\ Top.at = "stmt" => Offers(Protocol!EndBody)
       /\ Top.at = "end" /\ Len(frames) > 1 => Offers(Protocol!CloseProcedure)

(* actOnAssignment's comment (Sema.cc:408-409): an assignment creates an   *)
(* AssignmentStatement and adds it to the list, if nothing was reported.   *)
AssignmentsReachTheTree ==
  ~reported =>
    \A d \in 1 .. Len(decls) :
      Complete(d) /\ decls[d].text = "assign" =>
        \E s \in Elements(decls[d].stmts) : s.kind = "assign"
=============================================================================
