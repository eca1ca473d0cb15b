--------------------------- MODULE AmanSemaProofs ---------------------------
(***************************************************************************)
(* Proofs about AmanSema, for every set of names and every bound: type     *)
(* correctness; scopes and declarations stay in step; a duplicate is       *)
(* reported; lookup finds the innermost declaration; the order in which    *)
(* Sema is driven is the protocol's; the lists of a complete procedure     *)
(* are those of its declarations, and its statements fit them.             *)
(***************************************************************************)
EXTENDS AmanSema, StackLemmas, WellFoundedInduction

ScopeType == UNION {[N -> Nat] : N \in SUBSET (Names \cup PervasiveNames)}
PervasiveScope == [n \in PervasiveNames |-> CHOOSE i \in 1 .. 4 : Pervasives[i].name = n]

DataTyped ==
  /\ decls \in Seq(DeclType)
  /\ frames \in Seq(FrameType)
  /\ scopes \in Seq(ScopeType)
  /\ curDecl \in Nat
  /\ reported \in BOOLEAN
  /\ pc \in {"start", "parsing", "crashed", "done"}

(* Which stage of the parse has which data.                                *)
Stages ==
  /\ frames # <<>> <=> pc = "parsing"
  /\ pc = "crashed" => decls = <<>> /\ scopes = <<>> /\ curDecl = Null
  /\ pc = "start" => Len(decls) = 4
  /\ pc # "crashed" => Len(scopes) = Len(frames) + 1

(* The enclosing declarations of the innermost procedure are those of the  *)
(* frames, each made after the one around it.                              *)
EnclosedBefore == \A d \in 1 .. Len(decls) : decls[d].encl \in 0 .. d - 1
Owners ==
  \A k \in 1 .. Len(frames) : /\ frames[k].decl \in 0 .. Len(decls)
                              /\ frames[k].decl = Null <=> k = 1
Nested ==
  \A k \in 2 .. Len(frames) : decls[frames[k].decl].encl = frames[k - 1].decl
Ordered ==
  \A j, k \in 1 .. Len(frames) : j < k => frames[j].decl < frames[k].decl
Innermost ==
  /\ frames # <<>> => curDecl = frames[Len(frames)].decl
  /\ curDecl \in 0 .. Len(decls)
Chain == EnclosedBefore /\ Owners /\ Nested /\ Ordered /\ Innermost

(* The outermost scope stays as the constructor filled it.                 *)
Outermost ==
  pc # "crashed" =>
    /\ Len(decls) >= 4
    /\ \A d \in 1 .. 4 : decls[d].name = Pervasives[d].name
    /\ scopes[1] = PervasiveScope

(* Every other scope maps each name declared in its block, and no other,   *)
(* to the first declaration of that name.                                  *)
HoldsOnly(ds, scope, block) ==
  \A n \in DOMAIN scope : /\ scope[n] \in 5 .. Len(ds)
                          /\ ds[scope[n]].encl = block
                          /\ ds[scope[n]].name = n
HoldsAll(ds, scope, block) ==
  \A d \in 5 .. Len(ds) :
    ds[d].encl = block => ds[d].name \in DOMAIN scope /\ scope[ds[d].name] <= d
Blocks ==
  \A k \in 1 .. Len(frames) : /\ HoldsOnly(decls, scopes[k + 1], frames[k].decl)
                              /\ HoldsAll(decls, scopes[k + 1], frames[k].decl)

IInv == DataTyped /\ Stages /\ Chain /\ Outermost /\ Blocks /\ DoublesAreReported

-----------------------------------------------------------------------------
LEMMA PervasiveFacts ==
  /\ DOMAIN PervasiveScope = PervasiveNames
  /\ \A n \in PervasiveNames : /\ PervasiveScope[n] \in 1 .. 4
                               /\ Pervasives[PervasiveScope[n]].name = n
  /\ \A i \in 1 .. 4 : Pervasives[i].name \in PervasiveNames
  /\ \A i, j \in 1 .. 4 : Pervasives[i].name = Pervasives[j].name => i = j
  /\ \A i \in 1 .. 4 : Pervasives[i].encl = Null
  /\ Pervasives \in Seq(DeclType) /\ Len(Pervasives) = 4
<1>1. /\ Pervasives[1].name = "Integer" /\ Pervasives[2].name = "Boolean"
      /\ Pervasives[3].name = "TrueConst" /\ Pervasives[4].name = "FalseConst"
  BY DEF Pervasives, Pervasive, Declaration
<1>2. /\ Pervasives[1].encl = Null /\ Pervasives[2].encl = Null
      /\ Pervasives[3].encl = Null /\ Pervasives[4].encl = Null
  BY DEF Pervasives, Pervasive, Declaration
<1>3. Pervasives \in Seq(DeclType) /\ Len(Pervasives) = 4
  <2>1. <<>> \in Seq(Nat) /\ <<>> \in Seq(StmtType)
    BY EmptySeq
  <2>2. \A kind \in {"PervasiveType", "Const"}, name \in PervasiveNames, type \in Nat :
          Pervasive(kind, name, type) \in DeclType
    BY <2>1 DEF Pervasive, Declaration, DeclType, TypeKinds, Null, Unset
  <2>3. /\ Pervasive("PervasiveType", "Integer", Null) \in DeclType
        /\ Pervasive("PervasiveType", "Boolean", Null) \in DeclType
        /\ Pervasive("Const", "TrueConst", BooleanType) \in DeclType
        /\ Pervasive("Const", "FalseConst", BooleanType) \in DeclType
    BY <2>2 DEF PervasiveNames, Null, BooleanType
  <2>. QED
    BY <2>3 DEF Pervasives
<1>4. \A n \in PervasiveNames : \E i \in 1 .. 4 : Pervasives[i].name = n
  <2>1. 1 \in 1 .. 4 /\ 2 \in 1 .. 4 /\ 3 \in 1 .. 4 /\ 4 \in 1 .. 4
    OBVIOUS
  <2>. QED
    BY <1>1, <2>1 DEF PervasiveNames
<1>5. \A i \in 1 .. 4 : i = 1 \/ i = 2 \/ i = 3 \/ i = 4
  OBVIOUS
<1>6. /\ \A i \in 1 .. 4 : Pervasives[i].name \in PervasiveNames
      /\ \A i, j \in 1 .. 4 : Pervasives[i].name = Pervasives[j].name => i = j
      /\ \A i \in 1 .. 4 : Pervasives[i].encl = Null
  BY <1>1, <1>2, <1>5 DEF PervasiveNames
<1>. HIDE DEF Pervasives
<1>. QED
  BY <1>3, <1>4, <1>6 DEF PervasiveScope
LEMMA FourPervasives == Len(Pervasives) = 4
BY PervasiveFacts

-----------------------------------------------------------------------------
(* What the parts of a state are, and the pieces the actions are made of.  *)
LEMMA ScopeFacts ==
  /\ <<>> \in ScopeType
  /\ \A s \in ScopeType : DOMAIN s \subseteq Names \cup PervasiveNames /\ \A n \in DOMAIN s : s[n] \in Nat
  /\ \A s \in ScopeType, name \in Names, d \in Nat : Inserted(s, name, d) \in ScopeType
<1>1. <<>> \in [{} -> Nat]
  OBVIOUS
<1>2. <<>> \in ScopeType
  BY <1>1 DEF ScopeType
<1>3. ASSUME NEW s \in ScopeType
      PROVE  DOMAIN s \subseteq Names \cup PervasiveNames /\ \A n \in DOMAIN s : s[n] \in Nat
  <2>1. PICK N \in SUBSET (Names \cup PervasiveNames) : s \in [N -> Nat]
    BY DEF ScopeType
  <2>. QED
    BY <2>1
<1>4. ASSUME NEW s \in ScopeType, NEW name \in Names, NEW d \in Nat
      PROVE  Inserted(s, name, d) \in ScopeType
  <2>. DEFINE N == DOMAIN s \cup {name}
  <2>1. N \in SUBSET (Names \cup PervasiveNames)
    BY <1>3
  <2>2. Inserted(s, name, d) \in [N -> Nat]
    BY <1>3 DEF Inserted
  <2>. HIDE DEF N
  <2>. QED
    BY <2>1, <2>2 DEF ScopeType
<1>. QED
  BY <1>2, <1>3, <1>4

LEMMA DeclarationTyped ==
  \A kind \in TypeKinds \cup {"Const", "Var", "Param", "Proc"}, encl \in Nat,
     name \in Names \cup PervasiveNames, type \in Nat, isVar \in BOOLEAN :
    Declaration(kind, encl, name, type, isVar) \in DeclType
<1>1. <<>> \in Seq(Nat) /\ <<>> \in Seq(StmtType)
  BY EmptySeq
<1>. QED
  BY <1>1 DEF Declaration, DeclType, Unset

LEMMA FrameTyped ==
  \A d \in Nat, at \in Places : Frame(d, at) \in FrameType
<1>1. <<>> \in Seq(Nat) /\ <<>> \in Seq(StmtType)
  BY EmptySeq
<1>. QED
  BY <1>1 DEF Frame, FrameType, Null, Texts

LEMMA TopTyped ==
  ASSUME DataTyped, frames # <<>>
  PROVE  /\ Len(frames) \in Nat \ {0}
         /\ Top \in FrameType /\ Top = frames[Len(frames)]
         /\ Below \in Seq(FrameType) /\ Len(Below) = Len(frames) - 1
         /\ \A k \in 1 .. Len(frames) - 1 : Below[k] = frames[k]
BY StackParts DEF DataTyped, Top, Below

(* Lookup answers null or what the innermost scope with the name holds.    *)
LEMMA LookupOfHolders ==
  ASSUME DataTyped, NEW n, Holders(n) # {}
  PROVE  \E k \in 1 .. Len(scopes) : /\ n \in DOMAIN scopes[k] /\ Lookup(n) = scopes[k][n]
                                     /\ \A j \in 1 .. Len(scopes) : n \in DOMAIN scopes[j] => j <= k
<1>1. Holders(n) \subseteq 1 .. Len(scopes) /\ Len(scopes) \in Nat
  BY LenProperties DEF Holders, DataTyped
<1>2. \E k \in Holders(n) : \A j \in Holders(n) : j <= k
  <2>. HIDE DEF Holders
  <2>. QED
    BY <1>1, GreatestExists
<1>3. PICK k \in Holders(n) : /\ \A j \in Holders(n) : j <= k
                              /\ Lookup(n) = scopes[k][n]
  BY <1>1, <1>2 DEF Lookup
<1>. QED
  BY <1>3 DEF Holders

LEMMA LookupFound ==
  ASSUME DataTyped, NEW n, Lookup(n) # Null
  PROVE  \E k \in 1 .. Len(scopes) : n \in DOMAIN scopes[k] /\ Lookup(n) = scopes[k][n]
<1>1. Holders(n) # {}
  BY DEF Lookup
<1>. QED
  BY <1>1, LookupOfHolders

LEMMA LookupTyped ==
  ASSUME IInv, NEW n
  PROVE  Lookup(n) \in 0 .. Len(decls) /\ Len(decls) \in Nat
<1>0. Len(decls) \in Nat /\ Len(frames) \in Nat
  BY LenProperties DEF IInv, DataTyped
<1>1. CASE Lookup(n) = Null
  BY <1>0, <1>1 DEF Null
<1>2. CASE Lookup(n) # Null
  <2>1. PICK k \in 1 .. Len(scopes) : n \in DOMAIN scopes[k] /\ Lookup(n) = scopes[k][n]
    BY <1>2, LookupFound DEF IInv
  <2>2. pc # "crashed"
    BY <2>1 DEF IInv, Stages
  <2>3. CASE k = 1
    <3>1. scopes[k] = PervasiveScope /\ Len(decls) >= 4
      BY <2>2, <2>3 DEF IInv, Outermost
    <3>2. scopes[k][n] \in 1 .. 4
      BY <2>1, <3>1, PervasiveFacts
    <3>. QED
      BY <1>0, <2>1, <3>1, <3>2
  <2>4. CASE k # 1
    <3>1. k - 1 \in 1 .. Len(frames) /\ scopes[k - 1 + 1] = scopes[k]
      BY <1>0, <2>2, <2>4 DEF IInv, Stages
    <3>2. scopes[k][n] \in 5 .. Len(decls)
      BY <2>1, <3>1 DEF IInv, Blocks, HoldsOnly
    <3>. QED
      BY <1>0, <2>1, <3>2
  <2>. QED
    BY <2>3, <2>4
<1>. QED
  BY <1>1, <1>2

(* A step that replaces the top frame of the stack.                        *)
LEMMA SetTopTyped ==
  ASSUME DataTyped, frames # <<>>, NEW f \in FrameType, SetTop(f)
  PROVE  /\ frames' \in Seq(FrameType) /\ Len(frames') = Len(frames)
         /\ \A k \in 1 .. Len(frames) : frames'[k] = IF k = Len(frames) THEN f ELSE frames[k]
<1>1. Len(frames) \in 1 .. Len(frames)
  BY TopTyped
<1>. QED
  BY <1>1, ExceptSeq DEF SetTop, DataTyped

(* The frames belong to the same declarations as before.                   *)
FramesKept ==
  /\ Len(frames') = Len(frames)
  /\ \A k \in 1 .. Len(frames) : frames'[k].decl = frames[k].decl

LEMMA SameDeclTyped ==
  ASSUME DataTyped, frames # <<>>, NEW f \in FrameType, f.decl = Top.decl, SetTop(f)
  PROVE  frames' \in Seq(FrameType) /\ FramesKept
BY SetTopTyped, TopTyped DEF FramesKept

(* A step of the parser that declares nothing and enters or leaves         *)
(* nothing.                                                                *)
DeclsKept ==
  /\ Len(decls') = Len(decls)
  /\ \A d \in 1 .. Len(decls) : decls'[d].encl = decls[d].encl /\ decls'[d].name = decls[d].name
Keeps ==
  /\ pc = "parsing" /\ pc' = "parsing"
  /\ FramesKept /\ DeclsKept
  /\ UNCHANGED <<scopes, curDecl>>
  /\ reported => reported'

LEMMA AtFacts ==
  ASSUME IInv, pc = "parsing"
  PROVE  /\ DataTyped /\ frames # <<>>
         /\ Top \in FrameType /\ Len(frames) \in Nat \ {0}
         /\ curDecl = Top.decl /\ Top.decl \in 0 .. Len(decls)
         /\ (Top.decl = Null <=> Len(frames) = 1)
         /\ Len(scopes) = Len(frames) + 1 /\ Len(decls) >= 4 /\ Len(decls) \in Nat
         /\ Len(scopes) \in 1 .. Len(scopes) /\ CurScope \in ScopeType
<1>1. DataTyped /\ frames # <<>> /\ Len(scopes) = Len(frames) + 1
  BY DEF IInv, Stages
<1>2. Len(frames) \in Nat \ {0} /\ Top \in FrameType /\ Top = frames[Len(frames)] /\ Len(decls) \in Nat
  BY <1>1, TopTyped, LenProperties DEF DataTyped
<1>3. Len(frames) \in 1 .. Len(frames) /\ Len(scopes) \in 1 .. Len(scopes)
  BY <1>1, <1>2
<1>4. CurScope \in ScopeType
  BY <1>1, <1>3, ElementOfSeq DEF CurScope, DataTyped
<1>. QED
  BY <1>1, <1>2, <1>3, <1>4 DEF IInv, Chain, Owners, Innermost, Outermost

LEMMA SameData ==
  UNCHANGED frames /\ UNCHANGED decls => FramesKept /\ DeclsKept
BY DEF FramesKept, DeclsKept

-----------------------------------------------------------------------------
(* Each action that declares nothing keeps the types and is a step of the  *)
(* kind above.                                                             *)
LEMMA PlaceKept ==
  ASSUME IInv, pc = "parsing", NEW at \in Places, SetTop([Top EXCEPT !.at = at]),
         UNCHANGED <<decls, scopes, curDecl, pc>>, reported' = reported
  PROVE  DataTyped' /\ Keeps
<1>1. [Top EXCEPT !.at = at] \in FrameType /\ [Top EXCEPT !.at = at].decl = Top.decl
  BY AtFacts DEF FrameType
<1>2. frames' \in Seq(FrameType) /\ FramesKept
  BY <1>1, AtFacts, SameDeclTyped
<1>. QED
  BY <1>2 DEF Keeps, DeclsKept, DataTyped, IInv

LEMMA ReportKept ==
  ASSUME IInv, pc = "parsing", UNCHANGED <<decls, scopes, curDecl, frames, pc>>,
         reported' \in BOOLEAN, reported => reported'
  PROVE  DataTyped' /\ Keeps
BY DEF Keeps, DeclsKept, FramesKept, DataTyped, IInv

LEMMA ImportStep ==
  ASSUME IInv, Import
  PROVE  DataTyped' /\ Keeps
BY ReportKept DEF Import, At

LEMMA EnterBlockStep ==
  ASSUME IInv, EnterBlock
  PROVE  DataTyped' /\ Keeps
BY PlaceKept DEF EnterBlock, At, Places

LEMMA EnterBodyStep ==
  ASSUME IInv, EnterBody
  PROVE  DataTyped' /\ Keeps
<1>1. PICK place \in {"end", "stmt"} : SetTop([Top EXCEPT !.at = place])
  BY DEF EnterBody
<1>. QED
  BY <1>1, PlaceKept DEF EnterBody, At, Places

LEMMA VariableDeclarationStep ==
  ASSUME IInv, NEW n, VariableDeclaration(n)
  PROVE  DataTyped' /\ Keeps
<1>. DEFINE D == Lookup(n)
            f == [Top EXCEPT !.at = "vars", !.type = D]
<1>0. pc = "parsing" /\ UNCHANGED <<decls, scopes, curDecl, pc>>
  BY DEF VariableDeclaration, At
<1>1. CASE SetTop(f) /\ UNCHANGED reported
  <2>0. Top \in FrameType /\ D \in Nat
    BY <1>0, AtFacts, LookupTyped
  <2>1. f \in FrameType /\ f.decl = Top.decl
    <3>. HIDE DEF D
    <3>. QED
      BY <2>0 DEF FrameType, Places
  <2>. HIDE DEF f
  <2>2. frames' \in Seq(FrameType) /\ FramesKept
    BY <1>0, <1>1, <2>1, AtFacts, SameDeclTyped
  <2>. QED
    BY <1>0, <1>1, <2>2 DEF Keeps, DeclsKept, DataTyped, IInv
<1>2. CASE reported' = TRUE /\ UNCHANGED frames
  BY <1>0, <1>2, ReportKept
<1>. QED
  BY <1>1, <1>2 DEF VariableDeclaration

LEMMA FormalParameterStep ==
  ASSUME IInv, NEW n, NEW isVar \in BOOLEAN, FormalParameter(n, isVar)
  PROVE  DataTyped' /\ Keeps
<1>. DEFINE D == Lookup(n)
            f == [Top EXCEPT !.at = "params", !.type = D, !.isVar = isVar]
<1>0. pc = "parsing" /\ UNCHANGED <<decls, scopes, curDecl, reported, pc>>
  BY DEF FormalParameter, At
<1>1. SetTop(f)
  BY DEF FormalParameter
<1>2. Top \in FrameType /\ D \in Nat
  BY <1>0, AtFacts, LookupTyped
<1>3. f \in FrameType /\ f.decl = Top.decl
  <2>. HIDE DEF D
  <2>. QED
    BY <1>2 DEF FrameType, Places
<1>. HIDE DEF f
<1>4. frames' \in Seq(FrameType) /\ FramesKept
  BY <1>0, <1>1, <1>3, AtFacts, SameDeclTyped
<1>. QED
  BY <1>0, <1>4 DEF Keeps, DeclsKept, DataTyped, IInv

LEMMA DropParametersStep ==
  ASSUME IInv, NEW n, DropParameters(n)
  PROVE  DataTyped' /\ Keeps
<1>1. pc = "parsing" /\ UNCHANGED <<decls, scopes, curDecl, frames, pc>> /\ reported \in BOOLEAN
  BY DEF DropParameters, At, IInv, DataTyped
<1>2. reported' \in BOOLEAN /\ (reported => reported')
  BY <1>1 DEF DropParameters
<1>. QED
  BY <1>1, <1>2, ReportKept

(* A heading or a body stored in a declaration leaves its name and its     *)
(* enclosing declaration alone.                                            *)
LEMMA StoredKept ==
  ASSUME DataTyped, NEW D \in 1 .. Len(decls), NEW x \in DeclType,
         x.encl = decls[D].encl, x.name = decls[D].name,
         decls' = [decls EXCEPT ![D] = x]
  PROVE  decls' \in Seq(DeclType) /\ DeclsKept
BY ExceptSeq DEF DataTyped, DeclsKept

LEMMA HeadingTyped ==
  ASSUME IInv, At("formals"), NEW ret \in Nat \cup {Unset}, SetHeading(ret)
  PROVE  decls' \in Seq(DeclType) /\ DeclsKept
<1>. DEFINE D == Top.decl
            x == [decls[D] EXCEPT !.params = Top.formals, !.ret = ret]
<1>1. /\ DataTyped /\ Top \in FrameType /\ Len(decls) \in Nat /\ D \in 0 .. Len(decls)
      /\ Top.formals \in Seq(Nat)
  BY AtFacts DEF At, FrameType
<1>2. decls' = [decls EXCEPT ![D] = x]
  BY DEF SetHeading
<1>3. CASE D = 0
  <2>1. decls' = decls
    <3>1. DOMAIN decls = 1 .. Len(decls) /\ decls \in [1 .. Len(decls) -> DeclType]
      BY <1>1, LenProperties DEF DataTyped
    <3>. HIDE DEF x
    <3>. QED
      BY <1>1, <1>2, <1>3, <3>1
  <2>. QED
    BY <1>1, <2>1 DEF DeclsKept, DataTyped
<1>4. CASE D # 0
  <2>1. D \in 1 .. Len(decls) /\ decls[D] \in DeclType
    BY <1>1, <1>4, ElementOfSeq DEF DataTyped
  <2>2. x \in DeclType /\ x.encl = decls[D].encl /\ x.name = decls[D].name
    <3>. HIDE DEF D
    <3>. QED
      BY <1>1, <2>1 DEF DeclType
  <2>. HIDE DEF D, x
  <2>. QED
    BY <1>1, <1>2, <2>1, <2>2, StoredKept
<1>. QED
  BY <1>3, <1>4

LEMMA NoReturnTypeStep ==
  ASSUME IInv, NoReturnType
  PROVE  DataTyped' /\ Keeps
<1>. DEFINE f == [Top EXCEPT !.at = "block"]
<1>1. At("formals") /\ pc = "parsing" /\ SetHeading(0)
  BY DEF NoReturnType, At, Null
<1>2. decls' \in Seq(DeclType) /\ DeclsKept
  BY <1>1, HeadingTyped
<1>3. f \in FrameType /\ f.decl = Top.decl
  BY <1>1, AtFacts DEF FrameType, Places
<1>4. frames' \in Seq(FrameType) /\ FramesKept
  BY <1>1, <1>3, AtFacts, SameDeclTyped DEF NoReturnType
<1>. QED
  BY <1>1, <1>2, <1>4 DEF NoReturnType, Keeps, DataTyped, IInv

LEMMA ReturnTypeStep ==
  ASSUME IInv, NEW n, ReturnType(n)
  PROVE  DataTyped' /\ Keeps
<1>. DEFINE D == Lookup(n)
            f == [Top EXCEPT !.at = "block"]
            ret == IF D = Null \/ IsType(D) THEN D ELSE Unset
<1>1. At("formals") /\ pc = "parsing" /\ SetHeading(ret) /\ ret \in Nat \cup {Unset}
  BY LookupTyped DEF ReturnType, At
<1>2. decls' \in Seq(DeclType) /\ DeclsKept
  <2>. HIDE DEF ret
  <2>. QED
    BY <1>1, HeadingTyped
<1>3. f \in FrameType /\ f.decl = Top.decl
  BY <1>1, AtFacts DEF FrameType, Places
<1>4. frames' \in Seq(FrameType) /\ FramesKept
  BY <1>1, <1>3, AtFacts, SameDeclTyped DEF ReturnType
<1>5. reported' \in BOOLEAN /\ (reported => reported')
  BY DEF ReturnType, IInv, DataTyped
<1>. QED
  BY <1>1, <1>2, <1>4, <1>5 DEF ReturnType, Keeps, DataTyped, IInv

LEMMA ExprsTyped ==
  ASSUME IInv, pc = "parsing"
  PROVE  \A E \in Exprs : E.type \in Nat \cup {Unset}
<1>1. \A d \in Visible : d \in 1 .. Len(decls)
  BY LookupTyped DEF Visible, Null
<1>2. ASSUME NEW d \in Visible
      PROVE  ExprOf(d).type \in Nat \cup {Unset}
  <2>1. decls[d] \in DeclType
    BY <1>1, AtFacts, ElementOfSeq DEF DataTyped
  <2>. QED
    BY <2>1 DEF ExprOf, DeclType, NoExpr, Null
<1>. QED
  BY <1>2 DEF Exprs, NoExpr, Null, BooleanType

(* A statement's record, if any, joins the frame's list.                   *)
LEMMA StatementKept ==
  ASSUME IInv, InBody, NEW kind \in Texts, NEW made \in Seq(StmtType), NEW condition,
         Statement(kind, made), Report(condition)
  PROVE  DataTyped' /\ Keeps
<1>. DEFINE f == [Top EXCEPT !.stmts = @ \o made, !.at = "end", !.text = kind]
<1>0. pc = "parsing" /\ UNCHANGED <<decls, scopes, curDecl, pc>> /\ reported \in BOOLEAN
  BY DEF InBody, At, Statement, KeepSema, IInv, DataTyped
<1>1. Top \in FrameType /\ Top.stmts \o made \in Seq(StmtType)
  <2>1. Top \in FrameType /\ Top.stmts \in Seq(StmtType)
    BY <1>0, AtFacts DEF FrameType
  <2>. QED
    BY <2>1, ConcatProperties
<1>2. f \in FrameType /\ f.decl = Top.decl
  BY <1>1 DEF FrameType, Places
<1>3. SetTop(f)
  BY DEF Statement
<1>. HIDE DEF f
<1>4. frames' \in Seq(FrameType) /\ FramesKept
  BY <1>0, <1>2, <1>3, AtFacts, SameDeclTyped
<1>5. reported' \in BOOLEAN /\ (reported => reported')
  BY <1>0 DEF Report
<1>. QED
  BY <1>0, <1>4, <1>5 DEF Keeps, DeclsKept, DataTyped, IInv

LEMMA SingleStatement ==
  ASSUME NEW kind \in {"assign", "call", "return", "while"}, NEW to \in Nat,
         NEW types \in Seq(Nat \cup {Unset})
  PROVE  << [kind |-> kind, to |-> to, types |-> types] >> \in Seq(StmtType)
BY DEF StmtType

LEMMA UseStep ==
  ASSUME IInv, NEW n, NEW args, Use(n) \/ FunctionCall(n, args)
  PROVE  DataTyped' /\ Keeps
<1>1. pc = "parsing" /\ UNCHANGED <<decls, scopes, curDecl, frames, pc>> /\ reported \in BOOLEAN
  BY DEF Use, FunctionCall, InBody, At, KeepSema, IInv, DataTyped
<1>2. reported' \in BOOLEAN /\ (reported => reported')
  BY <1>1 DEF Use, FunctionCall, Report
<1>. QED
  BY <1>1, <1>2, ReportKept

LEMMA AssignmentStep ==
  ASSUME IInv, NEW n, NEW E \in Exprs, NEW indexed, Assignment(n, E, indexed)
  PROVE  DataTyped' /\ Keeps
<1>. DEFINE D == Lookup(n)
            made == << [kind |-> "assign", to |-> D, types |-> <<E.type>>] >>
<1>1. InBody /\ pc = "parsing"
  BY DEF Assignment, InBody, At
<1>2. CASE Statement("assign", <<>>) /\ Report(indexed \/ Top.stmts # <<>>)
  BY <1>1, <1>2, StatementKept, EmptySeq DEF Texts
<1>3. CASE Statement("assign", made) /\ Report(indexed \/ decls[D].type # E.type)
  <2>1. E.type \in Nat \cup {Unset} /\ D \in Nat
    BY <1>1, ExprsTyped, LookupTyped
  <2>2. made \in Seq(StmtType)
    <3>1. <<E.type>> \in Seq(Nat \cup {Unset})
      BY <2>1
    <3>. HIDE DEF D
    <3>. QED
      BY <2>1, <3>1, SingleStatement
  <2>. QED
    BY <1>1, <1>3, <2>2, StatementKept DEF Texts
<1>. QED
  BY <1>2, <1>3 DEF Assignment

LEMMA ProcCallStep ==
  ASSUME IInv, NEW n, NEW args \in ArgLists, ProcCall(n, args)
  PROVE  DataTyped' /\ Keeps
<1>. DEFINE D == Lookup(n)
            types == [i \in DOMAIN args |-> args[i].type]
            made == << [kind |-> "call", to |-> D, types |-> types] >>
<1>1. InBody /\ pc = "parsing"
  BY DEF ProcCall, InBody, At
<1>2. CASE Statement("call", <<>>) /\ Report(TRUE)
  BY <1>1, <1>2, StatementKept, EmptySeq DEF Texts
<1>3. CASE Statement("call", made) /\ Report(ArgumentsReported(D, args))
  <2>1. PICK k \in 0 .. MaxArgs : args \in [1 .. k -> Exprs \ {NoExpr}]
    BY DEF ArgLists
  <2>2. k \in Nat /\ \A i \in 1 .. k : args[i].type \in Nat \cup {Unset}
    BY <1>1, <2>1, ExprsTyped, SizesAssumption
  <2>3. types \in [1 .. k -> Nat \cup {Unset}]
    BY <2>1, <2>2
  <2>4. types \in Seq(Nat \cup {Unset})
    <3>. HIDE DEF types
    <3>. QED
      BY <2>2, <2>3, SeqDef
  <2>5. D \in Nat
    BY LookupTyped
  <2>6. made \in Seq(StmtType)
    <3>. HIDE DEF D, types
    <3>. QED
      BY <2>4, <2>5, SingleStatement
  <2>. QED
    BY <1>1, <1>3, <2>6, StatementKept DEF Texts
<1>. QED
  BY <1>2, <1>3 DEF ProcCall

LEMMA ReturnStep ==
  ASSUME IInv, NEW E \in Exprs, Return(E)
  PROVE  DataTyped' /\ Keeps
<1>. DEFINE types == IF E = NoExpr THEN <<>> ELSE <<E.type>>
            made == << [kind |-> "return", to |-> Null, types |-> types] >>
<1>1. InBody /\ pc = "parsing"
  BY DEF Return, InBody, At
<1>2. types \in Seq(Nat \cup {Unset})
  <2>1. E.type \in Nat \cup {Unset}
    BY <1>1, ExprsTyped
  <2>. QED
    BY <2>1, EmptySeq
<1>3. made \in Seq(StmtType)
  <2>. HIDE DEF types
  <2>. QED
    BY <1>2, SingleStatement DEF Null
<1>4. Statement("return", made)
  BY DEF Return
<1>5. \E condition : Report(condition)
  BY DEF Return
<1>. HIDE DEF made
<1>. QED
  BY <1>1, <1>3, <1>4, <1>5, StatementKept DEF Texts

LEMMA WhileStep ==
  ASSUME IInv, NEW E, While(E)
  PROVE  DataTyped' /\ Keeps
<1>. DEFINE made == << [kind |-> "while", to |-> Null, types |-> <<>>] >>
<1>1. InBody /\ Statement("while", made)
  BY DEF While
<1>2. made \in Seq(StmtType)
  BY SingleStatement, EmptySeq DEF Null
<1>3. \E condition : Report(condition)
  BY DEF While
<1>. HIDE DEF made
<1>. QED
  BY <1>1, <1>2, <1>3, StatementKept DEF Texts

-----------------------------------------------------------------------------
(* The steps that declare a name, open a scope, close one or crash.        *)
Adds(name, x) ==
  /\ pc = "parsing" /\ pc' = "parsing"
  /\ name \in Names /\ x \in DeclType /\ x.encl = curDecl /\ x.name = name
  /\ decls' = Append(decls, x)
  /\ reported' = (reported \/ name \in DOMAIN CurScope)
WithName(name) == [scopes EXCEPT ![Len(scopes)] = Inserted(@, name, Len(decls) + 1)]

Declares ==
  \E name, x :
    /\ Adds(name, x)
    /\ scopes' = WithName(name)
    /\ frames' \in Seq(FrameType) /\ FramesKept /\ UNCHANGED curDecl
Opens ==
  \E name, x :
    /\ Adds(name, x)
    /\ EnterScope(Len(decls) + 1, WithName(name))
    /\ frames' = Append(frames, Frame(Len(decls) + 1, "formals"))
Closes ==
  /\ pc = "parsing" /\ pc' = "parsing" /\ Len(frames) > 1
  /\ decls' \in Seq(DeclType) /\ DeclsKept
  /\ LeaveScope
  /\ frames' \in Seq(FrameType) /\ Len(frames') = Len(frames) - 1
  /\ \A k \in 1 .. Len(frames) - 1 : frames'[k].decl = frames[k].decl
  /\ reported' \in BOOLEAN /\ (reported => reported')
Crashes == Crash /\ reported' \in BOOLEAN /\ (reported => reported')

LEMMA DeclareStep ==
  ASSUME IInv, NEW name \in Names, NEW more \in BOOLEAN,
         DeclareVariable(name, more) \/ DeclareParameter(name, more)
  PROVE  Declares
<1>1. pc = "parsing" /\ DataTyped /\ Top \in FrameType /\ Len(decls) \in Nat
  BY AtFacts DEF DeclareVariable, DeclareParameter, At
<1>2. /\ Top.type \in Nat /\ Top.isVar \in BOOLEAN /\ curDecl \in Nat
      /\ Pushed(Top.list, name) \in Seq(Nat) /\ Pushed(Top.formals, name) \in Seq(Nat)
  <2>1. Top.list \in Seq(Nat) /\ Top.formals \in Seq(Nat) /\ Len(decls) + 1 \in Nat
    BY <1>1 DEF FrameType
  <2>2. /\ Append(Top.list, Len(decls) + 1) \in Seq(Nat)
        /\ Append(Top.formals, Len(decls) + 1) \in Seq(Nat)
    BY <2>1, AppendProperties
  <2>. QED
    BY <1>1, <2>1, <2>2 DEF FrameType, Pushed, DataTyped
<1>3. ASSUME NEW kind \in {"Var", "Param"}, Declare(kind, name)
      PROVE  \E x : /\ Adds(name, x) /\ scopes' = WithName(name) /\ UNCHANGED curDecl
  <2>. DEFINE x == Declaration(kind, curDecl, name, Top.type, Top.isVar)
  <2>1. x \in DeclType
    BY <1>2, DeclarationTyped
  <2>2. x.encl = curDecl /\ x.name = name
    BY DEF Declaration
  <2>. HIDE DEF x
  <2>. QED
    BY <1>1, <1>3, <2>1, <2>2 DEF Declare, Adds, WithName, x
<1>4. CASE DeclareVariable(name, more)
  <2>. DEFINE f == [Top EXCEPT !.list = Pushed(@, name),
                               !.type = IF more THEN @ ELSE Null,
                               !.at = IF more THEN @ ELSE "block"]
  <2>1. f \in FrameType /\ f.decl = Top.decl
    BY <1>1, <1>2 DEF FrameType, Places, Null
  <2>2. SetTop(f) /\ Declare("Var", name)
    BY <1>4 DEF DeclareVariable
  <2>. HIDE DEF f
  <2>3. frames' \in Seq(FrameType) /\ FramesKept
    BY <1>1, <2>1, <2>2, AtFacts, SameDeclTyped
  <2>. QED
    BY <1>3, <2>2, <2>3 DEF Declares
<1>5. CASE DeclareParameter(name, more)
  <2>. DEFINE f == [Top EXCEPT !.formals = Pushed(@, name), !.isVar = more /\ @,
                               !.type = IF more THEN @ ELSE Null,
                               !.at = IF more THEN @ ELSE "formals"]
  <2>1. f \in FrameType /\ f.decl = Top.decl
    BY <1>1, <1>2 DEF FrameType, Places, Null
  <2>2. SetTop(f) /\ Declare("Param", name)
    BY <1>5 DEF DeclareParameter
  <2>. HIDE DEF f
  <2>3. frames' \in Seq(FrameType) /\ FramesKept
    BY <1>1, <2>1, <2>2, AtFacts, SameDeclTyped
  <2>. QED
    BY <1>3, <2>2, <2>3 DEF Declares
<1>. QED
  BY <1>4, <1>5

LEMMA ProcedureStep ==
  ASSUME IInv, NEW name \in Names, ProcedureDeclaration(name)
  PROVE  Opens
<1>. DEFINE x == Declaration("Proc", curDecl, name, Null, FALSE)
<1>1. pc = "parsing" /\ pc' = "parsing" /\ curDecl \in Nat
  BY DEF ProcedureDeclaration, At, IInv, DataTyped
<1>2. x \in DeclType
  BY <1>1, DeclarationTyped DEF Null
<1>3. x.encl = curDecl /\ x.name = name
  BY DEF Declaration
<1>. HIDE DEF x
<1>4. Adds(name, x)
  BY <1>1, <1>2, <1>3 DEF ProcedureDeclaration, Adds, x
<1>. QED
  BY <1>4 DEF ProcedureDeclaration, Opens, WithName

LEMMA EndProcedureStep ==
  ASSUME IInv, NEW name, EndProcedure(name)
  PROVE  Closes
<1>. DEFINE D == Top.decl
            outer == Len(frames) - 1
            x == [decls[D] EXCEPT !.members = Top.list, !.stmts = Top.stmts, !.text = Top.text]
            f == [Below[outer] EXCEPT !.list = Append(@, D)]
<1>0. Len(frames) > 1
  BY DEF EndProcedure
<1>1. /\ pc = "parsing" /\ pc' = "parsing" /\ LeaveScope
      /\ DataTyped /\ Top \in FrameType /\ Len(frames) \in Nat /\ Len(decls) \in Nat
  BY AtFacts DEF EndProcedure, At
<1>2. D \in 1 .. Len(decls) /\ decls[D] \in DeclType
  <2>1. D \in 0 .. Len(decls)
    BY <1>1, AtFacts
  <2>2. D # 0
    <3>1. \A n \in Nat : n > 1 => n # 1
      OBVIOUS
    <3>2. Len(frames) # 1
      BY <1>0, <1>1, <3>1
    <3>. QED
      BY <1>1, <3>2, AtFacts DEF Null
  <2>3. D \in 1 .. Len(decls)
    BY <1>1, <2>1, <2>2
  <2>. QED
    BY <1>1, <2>3, ElementOfSeq DEF DataTyped
<1>3. x \in DeclType /\ x.encl = decls[D].encl /\ x.name = decls[D].name
  <2>. HIDE DEF D
  <2>. QED
    BY <1>1, <1>2 DEF DeclType, FrameType
<1>4. decls' = [decls EXCEPT ![D] = x]
  BY DEF EndProcedure
<1>5. decls' \in Seq(DeclType) /\ DeclsKept
  <2>. HIDE DEF D, x
  <2>. QED
    BY <1>1, <1>2, <1>3, <1>4, StoredKept
<1>6. /\ Below \in Seq(FrameType) /\ Len(Below) = outer /\ outer \in 1 .. outer
      /\ \A k \in 1 .. outer : Below[k] = frames[k]
  BY <1>0, <1>1, TopTyped
<1>7. Below[outer] \in FrameType
  BY <1>6, ElementOfSeq
<1>8. f \in FrameType /\ f.decl = Below[outer].decl
  <2>1. Append(Below[outer].list, D) \in Seq(Nat)
    BY <1>2, <1>7, AppendProperties DEF FrameType
  <2>. HIDE DEF D, outer
  <2>. QED
    BY <1>7, <2>1 DEF FrameType
<1>9. frames' = [Below EXCEPT ![outer] = f]
  BY DEF EndProcedure
<1>10. /\ frames' \in Seq(FrameType) /\ Len(frames') = outer
       /\ \A k \in 1 .. outer : frames'[k].decl = frames[k].decl
  <2>. HIDE DEF f
  <2>. QED
    BY <1>6, <1>8, <1>9, ExceptSeq
<1>11. reported' \in BOOLEAN /\ (reported => reported')
  BY DEF EndProcedure, IInv, DataTyped
<1>. QED
  BY <1>0, <1>1, <1>5, <1>10, <1>11 DEF Closes

-----------------------------------------------------------------------------
(* Every step is of one of these kinds.                                    *)
Kinds ==
  \/ DataTyped' /\ Keeps
  \/ Declares \/ Opens \/ Closes \/ Crashes
  \/ EnterModule \/ NotAModule

LEMMA StepKinds ==
  ASSUME IInv, Next
  PROVE  Kinds
<1>1. reported \in BOOLEAN
  BY DEF IInv, DataTyped
<1>2. CASE NotAModule \/ EnterModule
  BY <1>2 DEF Kinds
<1>3. CASE Import \/ EnterBlock
  BY <1>3, ImportStep, EnterBlockStep DEF Kinds
<1>4. CASE NextDeclaration
  <2>1. ASSUME NEW n \in Names, VariableDeclaration(n) PROVE Kinds
    BY <2>1, VariableDeclarationStep DEF Kinds
  <2>2. ASSUME NEW n \in Names, NEW isVar \in BOOLEAN, FormalParameter(n, isVar) PROVE Kinds
    BY <2>2, FormalParameterStep DEF Kinds
  <2>3. Continues \subseteq BOOLEAN
    BY DEF Continues
  <2>4. ASSUME NEW n \in Names, NEW more \in Continues,
               DeclareVariable(n, more) \/ DeclareParameter(n, more)
        PROVE  Kinds
    BY <2>3, <2>4, DeclareStep DEF Kinds
  <2>5. ASSUME NEW n \in Names, ProcedureDeclaration(n) PROVE Kinds
    BY <2>5, ProcedureStep DEF Kinds
  <2>6. ASSUME NEW n \in Names, ReturnType(n) PROVE Kinds
    BY <2>6, ReturnTypeStep DEF Kinds
  <2>7. ASSUME NEW n \in Names, EndProcedure(n) PROVE Kinds
    BY <2>7, EndProcedureStep DEF Kinds
  <2>8. CASE NoReturnType \/ EnterBody
    BY <2>8, NoReturnTypeStep, EnterBodyStep DEF Kinds
  <2>. QED
    BY <1>4, <2>1, <2>2, <2>4, <2>5, <2>6, <2>7, <2>8 DEF NextDeclaration
<1>5. CASE NextStatement
  <2>1. ASSUME NEW n \in Names, Use(n) PROVE Kinds
    BY <2>1, UseStep DEF Kinds
  <2>2. ASSUME NEW n \in Names, NEW args \in ArgLists, FunctionCall(n, args) PROVE Kinds
    BY <2>2, UseStep DEF Kinds
  <2>3. ASSUME NEW n \in Names, NEW args \in ArgLists, ProcCall(n, args) PROVE Kinds
    BY <2>3, ProcCallStep DEF Kinds
  <2>4. ASSUME NEW n \in Names, NEW E \in Exprs, NEW indexed \in BOOLEAN, Assignment(n, E, indexed)
        PROVE  Kinds
    BY <2>4, AssignmentStep DEF Kinds
  <2>5. ASSUME NEW n \in Names, NEW E \in Exprs, AssignmentOfNull(n, E) PROVE Kinds
    BY <1>1, <2>5 DEF AssignmentOfNull, Crashes, Kinds
  <2>6. ASSUME NEW E \in Exprs, Return(E) PROVE Kinds
    BY <2>6, ReturnStep DEF Kinds
  <2>7. ASSUME NEW E \in Exprs, While(E) PROVE Kinds
    BY <2>7, WhileStep DEF Kinds
  <2>8. CASE ReturnInModule
    BY <1>1, <2>8 DEF ReturnInModule, Crashes, Kinds
  <2>. QED
    BY <1>5, <2>1, <2>2, <2>3, <2>4, <2>5, <2>6, <2>7, <2>8 DEF NextStatement
<1>6. CASE UndeclaredName \/ TypeMissingAtEof \/ EndModule \/ Fail
  <2>1. Crash /\ reported' \in BOOLEAN /\ (reported => reported')
    BY <1>1, <1>6 DEF UndeclaredName, TypeMissingAtEof, EndModule, Fail
  <2>. QED
    BY <2>1 DEF Crashes, Kinds
<1>7. ASSUME NEW n \in Names, DropParameters(n) PROVE Kinds
  BY <1>7, DropParametersStep DEF Kinds
<1>. QED
  BY <1>2, <1>3, <1>4, <1>5, <1>6, <1>7 DEF Next, Parsing

-----------------------------------------------------------------------------
(* Each kind of step keeps the invariant.                                  *)
LEMMA InitIInv == Init => IInv
<1>. SUFFICES ASSUME Init
              PROVE  IInv
  OBVIOUS
<1>1. decls \in Seq(DeclType) /\ Len(decls) = 4 /\ decls = Pervasives
  BY PervasiveFacts DEF Init
<1>2. frames = <<>> /\ frames \in Seq(FrameType) /\ Len(frames) = 0
  BY EmptySeq DEF Init
<1>3. /\ scopes = << PervasiveScope >> /\ PervasiveScope \in ScopeType
      /\ scopes \in Seq(ScopeType) /\ Len(scopes) = 1 /\ scopes[1] = PervasiveScope
  <2>1. scopes = << PervasiveScope >>
    BY DEF Init, PervasiveScope
  <2>2. PervasiveScope \in [PervasiveNames -> Nat]
    BY PervasiveFacts DEF PervasiveScope
  <2>3. PervasiveScope \in ScopeType
    BY <2>2 DEF ScopeType
  <2>. HIDE DEF PervasiveScope
  <2>. QED
    BY <2>1, <2>3
<1>4. DataTyped
  BY <1>1, <1>2, <1>3 DEF Init, DataTyped, Null
<1>5. Stages
  BY <1>1, <1>2, <1>3 DEF Init, Stages
<1>6. Chain
  BY <1>1, <1>2, PervasiveFacts DEF Init, Chain, EnclosedBefore, Owners, Nested, Ordered,
                                    Innermost, Null
<1>7. Outermost
  BY <1>1, <1>3 DEF Outermost
<1>8. Blocks /\ DoublesAreReported
  BY <1>1, <1>2, PervasiveFacts DEF Blocks, DoublesAreReported
<1>. QED
  BY <1>4, <1>5, <1>6, <1>7, <1>8 DEF IInv

LEMMA CrashKeeps == IInv /\ Crashes => IInv'
<1>. SUFFICES ASSUME IInv, Crashes
              PROVE  IInv'
  OBVIOUS
<1>1. /\ <<>> \in Seq(DeclType) /\ <<>> \in Seq(FrameType) /\ <<>> \in Seq(ScopeType)
      /\ Len(<<>>) = 0
  BY EmptySeq
<1>2. /\ decls' = <<>> /\ scopes' = <<>> /\ frames' = <<>> /\ curDecl' = 0 /\ pc' = "crashed"
      /\ reported' \in BOOLEAN
  BY DEF Crashes, Crash, Null
<1>3. DataTyped' /\ Stages' /\ Chain' /\ Outermost' /\ Blocks'
  BY <1>1, <1>2 DEF DataTyped, Stages, Chain, EnclosedBefore, Owners, Nested, Ordered,
                    Innermost, Outermost, Blocks, Null
<1>4. DoublesAreReported'
  BY <1>1, <1>2, PervasiveFacts DEF DoublesAreReported
<1>. QED
  BY <1>3, <1>4 DEF IInv

LEMMA KeepKeeps == IInv /\ DataTyped' /\ Keeps => IInv'
<1>. SUFFICES ASSUME IInv, DataTyped', Keeps
              PROVE  IInv'
  OBVIOUS
<1>. USE DEF Keeps, FramesKept, DeclsKept
<1>0. /\ Len(decls) \in Nat /\ Len(decls) >= 4 /\ Len(frames) \in Nat \ {0}
      /\ Len(scopes) = Len(frames) + 1 /\ frames' # <<>>
  <2>1. Len(frames) \in Nat \ {0} /\ Len(frames') = Len(frames)
    BY AtFacts
  <2>2. frames' # <<>>
    BY <2>1, EmptySeq
  <2>. QED
    BY <2>2, AtFacts
<1>1. Stages'
  BY <1>0 DEF Stages, IInv
<1>2. Chain'
  <2>0. EnclosedBefore /\ Owners /\ Nested /\ Ordered /\ Innermost
    BY DEF IInv, Chain
  <2>1. EnclosedBefore'
    BY <2>0 DEF EnclosedBefore
  <2>2. Owners'
    BY <2>0 DEF Owners
  <2>3. Nested'
    <3>. SUFFICES ASSUME NEW k \in 2 .. Len(frames)
                  PROVE  decls'[frames'[k].decl].encl = frames'[k - 1].decl
      BY DEF Nested
    <3>1. k \in 1 .. Len(frames) /\ k - 1 \in 1 .. Len(frames) /\ k # 1
      BY <1>0
    <3>2. frames[k].decl \in 1 .. Len(decls) /\ decls[frames[k].decl].encl = frames[k - 1].decl
      BY <1>0, <2>0, <3>1 DEF Owners, Nested, Null
    <3>. QED
      BY <3>1, <3>2
  <2>4. Ordered'
    BY <2>0 DEF Ordered
  <2>5. Innermost'
    <3>1. Len(frames) \in 1 .. Len(frames) /\ frames # <<>>
      BY <1>0, AtFacts
    <3>. QED
      BY <2>0, <3>1 DEF Innermost
  <2>. QED
    BY <2>1, <2>2, <2>3, <2>4, <2>5 DEF Chain
<1>3. Outermost'
  BY <1>0 DEF Outermost, IInv
<1>4. Blocks'
  <2>. SUFFICES ASSUME NEW k \in 1 .. Len(frames)
                PROVE  /\ HoldsOnly(decls', scopes[k + 1], frames[k].decl)
                       /\ HoldsAll(decls', scopes[k + 1], frames[k].decl)
    BY DEF Blocks
  <2>1. HoldsOnly(decls, scopes[k + 1], frames[k].decl) /\ HoldsAll(decls, scopes[k + 1], frames[k].decl)
    BY DEF IInv, Blocks
  <2>2. \A d \in 5 .. Len(decls) : d \in 1 .. Len(decls)
    BY <1>0
  <2>3. HoldsOnly(decls', scopes[k + 1], frames[k].decl)
    BY <2>1, <2>2 DEF HoldsOnly
  <2>4. HoldsAll(decls', scopes[k + 1], frames[k].decl)
    BY <2>1, <2>2 DEF HoldsAll
  <2>. QED
    BY <2>3, <2>4
<1>5. DoublesAreReported'
  BY <1>0, PervasiveFacts DEF DoublesAreReported, IInv
<1>. QED
  BY <1>1, <1>2, <1>3, <1>4, <1>5 DEF IInv

LEMMA EnterModuleKeeps == IInv /\ EnterModule => IInv'
<1>. SUFFICES ASSUME IInv, EnterModule
              PROVE  IInv'
  OBVIOUS
<1>1. /\ pc' = "parsing" /\ frames = <<>> /\ Len(frames) = 0 /\ Len(scopes) = 1
      /\ scopes \in Seq(ScopeType) /\ Len(decls) = 4
  BY EmptySeq DEF EnterModule, IInv, Stages, DataTyped
<1>2. /\ scopes' = Append(scopes, <<>>) /\ curDecl' = 0
      /\ frames' = << Frame(0, "imports") >> /\ UNCHANGED <<decls, reported>>
  BY DEF EnterModule, EnterScope, Null
<1>3. /\ scopes' \in Seq(ScopeType) /\ Len(scopes') = 2
      /\ scopes'[1] = scopes[1] /\ scopes'[2] = <<>>
  <2>. DEFINE empty == <<>>
  <2>1. empty \in ScopeType /\ scopes' = Append(scopes, empty)
    BY <1>2, ScopeFacts
  <2>. HIDE DEF empty
  <2>2. scopes \in Seq(ScopeType)
    BY <1>1
  <2>3. /\ scopes' \in Seq(ScopeType) /\ Len(scopes') = Len(scopes) + 1
        /\ \A i \in 1 .. Len(scopes) : scopes'[i] = scopes[i]
        /\ scopes'[Len(scopes) + 1] = empty
    BY <2>1, <2>2, AppendProperties
  <2>. QED
    BY <1>1, <2>3 DEF empty
<1>4. /\ frames' \in Seq(FrameType) /\ Len(frames') = 1 /\ frames' # <<>>
      /\ frames'[1].decl = 0
  <2>. DEFINE f == Frame(0, "imports")
  <2>1. f \in FrameType /\ f.decl = 0
    BY FrameTyped DEF Places, Frame
  <2>2. frames' = << f >>
    BY <1>2
  <2>. HIDE DEF f
  <2>3. frames' \in Seq(FrameType)
    BY <2>1, <2>2
  <2>4. Len(frames') = 1 /\ frames'[1] = f
    BY <2>2
  <2>. QED
    BY <2>1, <2>3, <2>4, EmptySeq
<1>5. DataTyped'
  BY <1>1, <1>2, <1>3, <1>4 DEF IInv, DataTyped
<1>6. Stages'
  BY <1>1, <1>2, <1>3, <1>4 DEF Stages
<1>7. Outermost'
  BY <1>1, <1>2, <1>3 DEF EnterModule, IInv, Outermost
<1>8. EnclosedBefore' /\ Owners' /\ Nested' /\ Ordered' /\ Innermost'
  <2>1. EnclosedBefore'
    BY <1>2 DEF IInv, Chain, EnclosedBefore
  <2>2. Owners'
    BY <1>1, <1>2, <1>4 DEF Owners, Null
  <2>3. Nested' /\ Ordered'
    BY <1>4 DEF Nested, Ordered
  <2>4. Innermost'
    BY <1>1, <1>2, <1>4 DEF Innermost
  <2>. QED
    BY <2>1, <2>2, <2>3, <2>4
<1>9. Blocks'
  <2>1. Len(decls') = 4
    BY <1>1, <1>2
  <2>2. HoldsOnly(decls', <<>>, 0) /\ HoldsAll(decls', <<>>, 0)
    BY <2>1 DEF HoldsOnly, HoldsAll
  <2>. QED
    BY <1>3, <1>4, <2>2 DEF Blocks
<1>10. DoublesAreReported'
  <2>1. Len(decls') = Len(Pervasives) /\ Len(Pervasives) \in Nat
    BY <1>1, <1>2, FourPervasives
  <2>. QED
    BY <2>1 DEF DoublesAreReported
<1>. QED
  BY <1>5, <1>6, <1>7, <1>8, <1>9, <1>10 DEF IInv, Chain

LEMMA NotAModuleKeeps == IInv /\ NotAModule => IInv'
<1>. SUFFICES ASSUME IInv, NotAModule
              PROVE  IInv'
  OBVIOUS
<1>. USE DEF NotAModule
<1>1. DataTyped' /\ Stages' /\ Outermost'
  BY DEF IInv, DataTyped, Stages, Outermost
<1>2. Chain' /\ Blocks' /\ DoublesAreReported'
  BY DEF IInv, Chain, EnclosedBefore, Owners, Nested, Ordered, Innermost, Blocks,
         DoublesAreReported
<1>. QED
  BY <1>1, <1>2 DEF IInv

(* Leaving a scope: what remains is what was below it.                     *)
LEMMA CloseKeeps == IInv /\ Closes => IInv'
<1>. SUFFICES ASSUME IInv, Closes
              PROVE  IInv'
  OBVIOUS
<1>. DEFINE m == Len(frames) - 1
<1>0. /\ m \in Nat /\ m >= 1 /\ Len(frames') = m /\ Len(scopes) = m + 2
      /\ Len(decls) \in Nat /\ Len(decls) >= 4 /\ DataTyped /\ scopes \in Seq(ScopeType)
      /\ frames # <<>> /\ Len(frames) = m + 1
  BY AtFacts DEF Closes, DataTyped
<1>. HIDE DEF m
<1>1. /\ DeclsKept /\ Len(decls') = Len(decls)
      /\ \A k \in 1 .. m : frames'[k].decl = frames[k].decl
  BY <1>0 DEF Closes, DeclsKept, m
<1>2. /\ scopes' \in Seq(ScopeType) /\ Len(scopes') = m + 1
      /\ \A k \in 1 .. m + 1 : scopes'[k] = scopes[k]
  <2>1. scopes # <<>> /\ Len(scopes) - 1 = m + 1
    BY <1>0, EmptySeq
  <2>. QED
    BY <1>0, <2>1, StackParts DEF Closes, LeaveScope
<1>3. frames' # <<>> /\ frames' \in Seq(FrameType)
  BY <1>0, EmptySeq DEF Closes
<1>4. /\ EnclosedBefore /\ Owners /\ Nested /\ Ordered /\ Innermost
      /\ Outermost /\ Blocks /\ DoublesAreReported
  BY DEF IInv, Chain
<1>5. curDecl' = frames[m].decl /\ frames[m].decl \in 0 .. Len(decls)
  <2>1. m + 1 \in 2 .. Len(frames) /\ m \in 1 .. Len(frames) /\ m + 1 - 1 = m
    BY <1>0
  <2>2. curDecl = frames[m + 1].decl
    BY <1>0, <1>4 DEF Innermost
  <2>3. decls[curDecl].encl = frames[m].decl
    BY <1>4, <2>1, <2>2 DEF Nested
  <2>. QED
    BY <1>4, <2>1, <2>3 DEF Closes, LeaveScope, Owners
<1>6. DataTyped'
  BY <1>2, <1>3, <1>5 DEF Closes, DataTyped
<1>7. Stages'
  BY <1>0, <1>2, <1>3 DEF Closes, Stages
<1>8. EnclosedBefore'
  BY <1>1, <1>4 DEF EnclosedBefore, DeclsKept
<1>9. Owners'
  BY <1>0, <1>1, <1>4 DEF Owners
<1>10. Nested'
  <2>. SUFFICES ASSUME NEW k \in 2 .. m
                PROVE  decls'[frames'[k].decl].encl = frames'[k - 1].decl
    BY <1>0 DEF Nested
  <2>1. k \in 1 .. m /\ k - 1 \in 1 .. m /\ k # 1 /\ k \in 2 .. Len(frames) /\ k \in 1 .. Len(frames)
    BY <1>0
  <2>2. frames[k].decl \in 1 .. Len(decls) /\ decls[frames[k].decl].encl = frames[k - 1].decl
    BY <1>0, <1>4, <2>1 DEF Owners, Nested, Null
  <2>. QED
    BY <1>1, <2>1, <2>2 DEF DeclsKept
<1>11. Ordered'
  BY <1>0, <1>1, <1>4 DEF Ordered
<1>12. Innermost'
  <2>1. m \in 1 .. m
    BY <1>0
  <2>. QED
    BY <1>0, <1>1, <1>5, <2>1 DEF Innermost
<1>13. Outermost'
  <2>1. pc # "crashed" /\ scopes'[1] = scopes[1]
    BY <1>0, <1>2 DEF Closes
  <2>2. \A d \in 1 .. 4 : d \in 1 .. Len(decls)
    BY <1>0
  <2>. QED
    BY <1>0, <1>1, <1>4, <2>1, <2>2 DEF Outermost, DeclsKept
<1>14. Blocks'
  <2>. SUFFICES ASSUME NEW k \in 1 .. m
                PROVE  /\ HoldsOnly(decls', scopes'[k + 1], frames'[k].decl)
                       /\ HoldsAll(decls', scopes'[k + 1], frames'[k].decl)
    BY <1>0 DEF Blocks
  <2>1. scopes'[k + 1] = scopes[k + 1] /\ frames'[k].decl = frames[k].decl /\ k \in 1 .. Len(frames)
    BY <1>0, <1>1, <1>2
  <2>2. HoldsOnly(decls, scopes[k + 1], frames[k].decl) /\ HoldsAll(decls, scopes[k + 1], frames[k].decl)
    BY <1>4, <2>1 DEF Blocks
  <2>3. \A d \in 5 .. Len(decls) : d \in 1 .. Len(decls)
    BY <1>0
  <2>4. HoldsOnly(decls', scopes[k + 1], frames[k].decl)
    BY <1>1, <2>2, <2>3 DEF HoldsOnly, DeclsKept
  <2>5. HoldsAll(decls', scopes[k + 1], frames[k].decl)
    BY <1>1, <2>2, <2>3 DEF HoldsAll, DeclsKept
  <2>. QED
    BY <2>1, <2>4, <2>5
<1>15. DoublesAreReported'
  <2>1. \A d \in 5 .. Len(decls) : d \in 1 .. Len(decls)
    BY <1>0
  <2>. QED
    BY <1>1, <1>4, <2>1, PervasiveFacts DEF DoublesAreReported, DeclsKept, Closes
<1>. QED
  BY <1>6, <1>7, <1>8, <1>9, <1>10, <1>11, <1>12, <1>13, <1>14, <1>15 DEF IInv, Chain

(* A name declared in the innermost scope: the scopes and declarations     *)
(* with it are in order, and a second one in the block was reported.       *)
LEMMA NameAdded ==
  ASSUME IInv, NEW name, NEW x, Adds(name, x)
  PROVE  /\ decls' \in Seq(DeclType) /\ Len(decls') = Len(decls) + 1
         /\ \A d \in 1 .. Len(decls) : decls'[d] = decls[d]
         /\ decls'[Len(decls) + 1] = x
         /\ WithName(name) \in Seq(ScopeType) /\ Len(WithName(name)) = Len(scopes)
         /\ WithName(name)[1] = scopes[1]
         /\ \A k \in 1 .. Len(frames) :
              /\ HoldsOnly(decls', WithName(name)[k + 1], frames[k].decl)
              /\ HoldsAll(decls', WithName(name)[k + 1], frames[k].decl)
         /\ EnclosedBefore' /\ DoublesAreReported' /\ reported' \in BOOLEAN
<1>. DEFINE P == Len(decls) + 1
            S == WithName(name)
            top == Len(scopes)
<1>0. /\ pc = "parsing" /\ name \in Names /\ x \in DeclType /\ x.encl = curDecl /\ x.name = name
      /\ decls' = Append(decls, x)
  BY DEF Adds
<1>1. /\ DataTyped /\ frames # <<>> /\ Len(frames) \in Nat \ {0} /\ curDecl = Top.decl
      /\ top = Len(frames) + 1 /\ Len(decls) >= 4 /\ Len(decls) \in Nat /\ P \in Nat
      /\ CurScope \in ScopeType /\ scopes \in Seq(ScopeType) /\ top \in 1 .. top
  BY <1>0, AtFacts DEF DataTyped
<1>2. /\ decls' \in Seq(DeclType) /\ Len(decls') = P
      /\ \A d \in 1 .. Len(decls) : decls'[d] = decls[d]
      /\ decls'[P] = x
  BY <1>0, <1>1, AppendProperties DEF DataTyped
<1>3. CurScope = scopes[top] /\ curDecl = frames[Len(frames)].decl
  BY <1>1 DEF CurScope, Top
<1>4. /\ S \in Seq(ScopeType) /\ Len(S) = top
      /\ \A k \in 1 .. top : S[k] = IF k = top THEN Inserted(CurScope, name, P) ELSE scopes[k]
  <2>. DEFINE new == Inserted(CurScope, name, P)
  <2>1. new \in ScopeType
    BY <1>0, <1>1, ScopeFacts
  <2>2. S = [scopes EXCEPT ![Len(scopes)] = new]
    BY <1>3 DEF WithName
  <2>3. scopes \in Seq(ScopeType) /\ Len(scopes) \in 1 .. Len(scopes)
    BY <1>1
  <2>. HIDE DEF S, new
  <2>4. /\ S \in Seq(ScopeType) /\ Len(S) = Len(scopes)
        /\ \A k \in 1 .. Len(scopes) : S[k] = IF k = Len(scopes) THEN new ELSE scopes[k]
    BY <2>1, <2>2, <2>3, ExceptSeq
  <2>. QED
    BY <2>4 DEF new
<1>. HIDE DEF S, P, top
<1>5. S[1] = scopes[1]
  BY <1>1, <1>4
<1>6. EnclosedBefore /\ Owners /\ Ordered /\ Blocks /\ DoublesAreReported /\ Innermost
  BY DEF IInv, Chain
<1>7. curDecl \in 0 .. Len(decls)
  BY <1>6 DEF Innermost
<1>8. EnclosedBefore'
  <2>. SUFFICES ASSUME NEW d \in 1 .. Len(decls')
                PROVE  decls'[d].encl \in 0 .. d - 1
    BY DEF EnclosedBefore
  <2>1. CASE d \in 1 .. Len(decls)
    BY <1>2, <1>6, <2>1 DEF EnclosedBefore
  <2>2. CASE d = P
    BY <1>0, <1>1, <1>2, <1>7, <2>2 DEF P
  <2>3. d \in 1 .. Len(decls) \/ d = P
    BY <1>1, <1>2 DEF P
  <2>. QED
    BY <2>1, <2>2, <2>3
<1>9. P \in 5 .. P /\ \A d \in 5 .. P : d = P \/ d \in 5 .. Len(decls)
  BY <1>1 DEF P
<1>10. \A d \in 5 .. Len(decls) : d \in 5 .. P /\ d \in 1 .. Len(decls) /\ d < P
  BY <1>1 DEF P
<1>11. ASSUME NEW k \in 1 .. Len(frames)
       PROVE  HoldsOnly(decls', S[k + 1], frames[k].decl) /\ HoldsAll(decls', S[k + 1], frames[k].decl)
  <2>. DEFINE old == scopes[k + 1]
              block == frames[k].decl
  <2>0. k + 1 \in 1 .. top /\ (k + 1 = top <=> k = Len(frames))
    BY <1>1
  <2>1. HoldsOnly(decls, old, block) /\ HoldsAll(decls, old, block)
    BY <1>6 DEF Blocks
  <2>2. CASE k = Len(frames)
    <3>1. /\ S[k + 1] = Inserted(old, name, P) /\ block = curDecl
      BY <1>3, <1>4, <2>0, <2>2
    <3>. HIDE DEF old, block
    <3>2. HoldsOnly(decls', Inserted(old, name, P), block)
      <4>. SUFFICES ASSUME NEW n \in DOMAIN Inserted(old, name, P)
                    PROVE  LET d == Inserted(old, name, P)[n] IN
                           d \in 5 .. P /\ decls'[d].encl = block /\ decls'[d].name = n
        BY <1>2 DEF HoldsOnly
      <4>1. CASE n \in DOMAIN old
        <5>1. Inserted(old, name, P)[n] = old[n]
          BY <4>1 DEF Inserted
        <5>2. old[n] \in 5 .. Len(decls) /\ decls[old[n]].encl = block /\ decls[old[n]].name = n
          BY <2>1, <4>1 DEF HoldsOnly
        <5>. QED
          BY <1>2, <1>10, <5>1, <5>2
      <4>2. CASE n \notin DOMAIN old
        <5>1. n = name /\ Inserted(old, name, P)[n] = P
          BY <4>2 DEF Inserted
        <5>. QED
          BY <1>0, <1>2, <1>9, <3>1, <5>1
      <4>. QED
        BY <4>1, <4>2
    <3>3. HoldsAll(decls', Inserted(old, name, P), block)
      <4>. SUFFICES ASSUME NEW d \in 5 .. P, decls'[d].encl = block
                    PROVE  /\ decls'[d].name \in DOMAIN Inserted(old, name, P)
                           /\ Inserted(old, name, P)[decls'[d].name] <= d
        BY <1>2 DEF HoldsAll
      <4>1. CASE d \in 5 .. Len(decls)
        <5>1. decls'[d] = decls[d]
          BY <1>2, <1>10, <4>1
        <5>2. decls[d].name \in DOMAIN old /\ old[decls[d].name] <= d
          BY <2>1, <4>1, <5>1 DEF HoldsAll
        <5>. QED
          BY <5>1, <5>2 DEF Inserted
      <4>2. CASE d = P
        <5>1. decls'[d].name = name
          BY <1>0, <1>2, <4>2
        <5>2. CASE name \in DOMAIN old
          <6>1. old[name] \in 5 .. Len(decls)
            BY <2>1, <5>2 DEF HoldsOnly
          <6>2. old[name] <= P
            BY <1>1, <6>1 DEF P
          <6>. QED
            BY <4>2, <5>1, <5>2, <6>2 DEF Inserted
        <5>3. CASE name \notin DOMAIN old
          BY <1>1, <4>2, <5>1, <5>3 DEF Inserted
        <5>. QED
          BY <5>2, <5>3
      <4>. QED
        BY <1>9, <4>1, <4>2
    <3>. QED
      BY <3>1, <3>2, <3>3 DEF block
  <2>3. CASE k # Len(frames)
    <3>1. S[k + 1] = old
      BY <1>4, <2>0, <2>3
    <3>2. block < curDecl /\ block \in 0 .. Len(decls)
      <4>1. k < Len(frames) /\ Len(frames) \in 1 .. Len(frames)
        BY <1>1, <2>3
      <4>. QED
        BY <1>3, <1>6, <4>1 DEF Ordered, Owners
    <3>3. block # x.encl
      BY <1>0, <1>7, <3>2
    <3>. HIDE DEF old, block
    <3>4. HoldsOnly(decls', old, block)
      BY <1>2, <1>10, <2>1 DEF HoldsOnly
    <3>5. HoldsAll(decls', old, block)
      BY <1>2, <1>9, <1>10, <2>1, <3>3 DEF HoldsAll
    <3>. QED
      BY <3>1, <3>4, <3>5 DEF block
  <2>. QED
    BY <2>2, <2>3
<1>12. reported' \in BOOLEAN /\ (reported => reported') /\ (name \in DOMAIN CurScope => reported')
  BY <1>1 DEF Adds, DataTyped
<1>13. DoublesAreReported'
  <2>. SUFFICES ASSUME ~reported', NEW d \in 5 .. P, NEW e \in 5 .. P, d < e,
                       decls'[d].name = decls'[e].name, decls'[d].encl = decls'[e].encl
                PROVE  FALSE
    BY <1>2, FourPervasives DEF DoublesAreReported
  <2>1. d \in 5 .. Len(decls)
    BY <1>1 DEF P
  <2>2. CASE e \in 5 .. Len(decls)
    <3>1. decls[d].name = decls[e].name /\ decls[d].encl = decls[e].encl
      BY <1>2, <1>10, <2>1, <2>2
    <3>. QED
      BY <1>6, <1>12, <2>1, <2>2, <3>1, FourPervasives DEF DoublesAreReported
  <2>3. CASE e = P
    <3>1. decls[d].name = name /\ decls[d].encl = curDecl
      BY <1>0, <1>2, <1>10, <2>1, <2>3
    <3>2. HoldsAll(decls, CurScope, curDecl)
      <4>1. Len(frames) \in 1 .. Len(frames)
        BY <1>1
      <4>. QED
        BY <1>1, <1>3, <1>6, <4>1 DEF Blocks
    <3>3. name \in DOMAIN CurScope
      BY <2>1, <3>1, <3>2 DEF HoldsAll
    <3>. QED
      BY <1>12, <3>3
  <2>. QED
    BY <1>9, <2>2, <2>3
<1>. QED
  BY <1>2, <1>4, <1>5, <1>8, <1>11, <1>12, <1>13 DEF S, P, top

LEMMA AddFacts ==
  ASSUME IInv, NEW name, NEW x, Adds(name, x)
  PROVE  /\ DataTyped /\ frames # <<>> /\ Len(frames) \in Nat \ {0}
         /\ Len(scopes) = Len(frames) + 1 /\ Len(decls) \in Nat /\ Len(decls) >= 4
         /\ pc' = "parsing" /\ pc = "parsing"
         /\ Owners /\ Nested /\ Ordered /\ Innermost /\ Outermost /\ Blocks
         /\ \A k \in 1 .. Len(frames) : frames[k].decl \in 0 .. Len(decls)
         /\ curDecl = frames[Len(frames)].decl
BY AtFacts DEF Adds, IInv, Chain, Owners, Innermost

(* The owners of the frames enclose each other in decls' as in decls.      *)
LEMMA NestedAfterAdding ==
  ASSUME IInv, NEW name, NEW x, Adds(name, x)
  PROVE  \A k \in 2 .. Len(frames) : decls'[frames[k].decl].encl = frames[k - 1].decl
<1>. SUFFICES ASSUME NEW k \in 2 .. Len(frames)
              PROVE  decls'[frames[k].decl].encl = frames[k - 1].decl
  OBVIOUS
<1>1. Len(frames) \in Nat /\ Len(decls) \in Nat /\ Owners /\ Nested
  BY AddFacts
<1>2. k \in 1 .. Len(frames) /\ k # 1
  BY <1>1
<1>3. frames[k].decl \in 1 .. Len(decls) /\ decls[frames[k].decl].encl = frames[k - 1].decl
  BY <1>1, <1>2 DEF Owners, Nested, Null
<1>. QED
  BY <1>3, NameAdded

LEMMA OutermostAfterAdding ==
  ASSUME IInv, NEW name, NEW x, Adds(name, x), scopes'[1] = scopes[1]
  PROVE  Outermost'
<1>1. /\ Len(decls) \in Nat /\ Len(decls) >= 4 /\ Outermost /\ pc # "crashed"
  BY AddFacts
<1>2. Len(decls') = Len(decls) + 1 /\ \A d \in 1 .. Len(decls) : decls'[d] = decls[d]
  BY NameAdded
<1>3. \A d \in 1 .. 4 : d \in 1 .. Len(decls)
  BY <1>1
<1>. QED
  BY <1>1, <1>2, <1>3 DEF Outermost

LEMMA DeclareKeeps == IInv /\ Declares => IInv'
<1>. SUFFICES ASSUME IInv, Declares
              PROVE  IInv'
  OBVIOUS
<1>1. PICK name, x : /\ Adds(name, x) /\ scopes' = WithName(name)
                     /\ frames' \in Seq(FrameType) /\ FramesKept /\ UNCHANGED curDecl
  BY DEF Declares
<1>2. /\ decls' \in Seq(DeclType) /\ Len(decls') = Len(decls) + 1
      /\ scopes' \in Seq(ScopeType) /\ Len(scopes') = Len(scopes) /\ scopes'[1] = scopes[1]
      /\ \A k \in 1 .. Len(frames) : /\ HoldsOnly(decls', scopes'[k + 1], frames[k].decl)
                                     /\ HoldsAll(decls', scopes'[k + 1], frames[k].decl)
      /\ EnclosedBefore' /\ DoublesAreReported' /\ reported' \in BOOLEAN
  BY <1>1, NameAdded
<1>3. /\ DataTyped /\ Len(frames) \in Nat \ {0} /\ Len(scopes) = Len(frames) + 1
      /\ Len(decls) \in Nat /\ pc' = "parsing"
      /\ Owners /\ Ordered
      /\ \A k \in 1 .. Len(frames) : frames[k].decl \in 0 .. Len(decls)
      /\ curDecl = frames[Len(frames)].decl
  BY <1>1, AddFacts
<1>4. Len(frames') = Len(frames) /\ \A k \in 1 .. Len(frames) : frames'[k].decl = frames[k].decl
  BY <1>1 DEF FramesKept
<1>5. frames' # <<>> /\ Len(frames) \in 1 .. Len(frames)
  BY <1>3, <1>4, EmptySeq
<1>6. DataTyped'
  BY <1>1, <1>2, <1>3 DEF DataTyped
<1>7. Stages'
  BY <1>2, <1>3, <1>4, <1>5 DEF Stages
<1>8. Owners'
  BY <1>2, <1>3, <1>4 DEF Owners
<1>9. Nested'
  <2>. SUFFICES ASSUME NEW k \in 2 .. Len(frames)
                PROVE  decls'[frames'[k].decl].encl = frames'[k - 1].decl
    BY <1>4 DEF Nested
  <2>1. k \in 1 .. Len(frames) /\ k - 1 \in 1 .. Len(frames)
    BY <1>3
  <2>2. decls'[frames[k].decl].encl = frames[k - 1].decl
    BY <1>1, NestedAfterAdding
  <2>. QED
    BY <1>4, <2>1, <2>2
<1>10. Ordered'
  BY <1>3, <1>4 DEF Ordered
<1>11. Innermost'
  <2>1. frames'[Len(frames')].decl = curDecl /\ curDecl \in 0 .. Len(decls)
    BY <1>3, <1>4, <1>5
  <2>. QED
    BY <1>1, <1>2, <1>3, <2>1 DEF Innermost
<1>12. Outermost'
  BY <1>1, <1>2, OutermostAfterAdding
<1>13. Blocks'
  BY <1>2, <1>4 DEF Blocks
<1>. QED
  BY <1>2, <1>6, <1>7, <1>8, <1>9, <1>10, <1>11, <1>12, <1>13 DEF IInv, Chain

LEMMA OpenKeeps == IInv /\ Opens => IInv'
<1>. SUFFICES ASSUME IInv, Opens
              PROVE  IInv'
  OBVIOUS
<1>1. PICK name, x : /\ Adds(name, x) /\ EnterScope(Len(decls) + 1, WithName(name))
                     /\ frames' = Append(frames, Frame(Len(decls) + 1, "formals"))
  BY DEF Opens
<1>. DEFINE P == Len(decls) + 1
            S == WithName(name)
            m == Len(frames)
<1>2. /\ decls' \in Seq(DeclType) /\ Len(decls') = P /\ decls'[P] = x
      /\ S \in Seq(ScopeType) /\ Len(S) = Len(scopes) /\ S[1] = scopes[1]
      /\ \A k \in 1 .. m : /\ HoldsOnly(decls', S[k + 1], frames[k].decl)
                           /\ HoldsAll(decls', S[k + 1], frames[k].decl)
      /\ EnclosedBefore' /\ DoublesAreReported' /\ reported' \in BOOLEAN
  BY <1>1, NameAdded
<1>3. /\ DataTyped /\ m \in Nat \ {0} /\ Len(scopes) = m + 1
      /\ Len(decls) \in Nat /\ Len(decls) >= 4 /\ pc' = "parsing"
      /\ Owners /\ Ordered
      /\ \A k \in 1 .. m : frames[k].decl \in 0 .. Len(decls)
      /\ curDecl = frames[m].decl
  BY <1>1, AddFacts
<1>4. x.encl = curDecl
  BY <1>1 DEF Adds
<1>5. /\ scopes' \in Seq(ScopeType) /\ Len(scopes') = m + 2
      /\ \A k \in 1 .. m + 1 : scopes'[k] = S[k]
      /\ scopes'[m + 2] = <<>> /\ curDecl' = P
  <2>. DEFINE empty == <<>>
  <2>1. empty \in ScopeType /\ scopes' = Append(S, empty) /\ curDecl' = P
    BY <1>1, ScopeFacts DEF EnterScope
  <2>. HIDE DEF empty, S, m
  <2>2. /\ scopes' \in Seq(ScopeType) /\ Len(scopes') = Len(S) + 1
        /\ \A i \in 1 .. Len(S) : scopes'[i] = S[i]
        /\ scopes'[Len(S) + 1] = empty
    BY <1>2, <2>1, AppendProperties
  <2>. QED
    BY <1>2, <1>3, <2>1, <2>2 DEF empty
<1>6. /\ frames' \in Seq(FrameType) /\ Len(frames') = m + 1 /\ frames' # <<>>
      /\ \A k \in 1 .. m : frames'[k] = frames[k]
      /\ frames'[m + 1].decl = P
  <2>. DEFINE f == Frame(P, "formals")
  <2>1. f \in FrameType /\ f.decl = P
    <3>1. P \in Nat /\ "formals" \in Places
      BY <1>3 DEF Places
    <3>2. f.decl = P
      BY DEF Frame
    <3>. HIDE DEF P
    <3>3. f \in FrameType
      BY <3>1, FrameTyped
    <3>. QED
      BY <3>2, <3>3
  <2>2. frames' = Append(frames, f) /\ frames \in Seq(FrameType)
    BY <1>1, <1>3 DEF DataTyped
  <2>. HIDE DEF f
  <2>. QED
    BY <2>1, <2>2, AppendProperties
<1>7. P \in 1 .. P /\ P \in Nat /\ P >= 5 /\ \A d \in 0 .. Len(decls) : d \in 0 .. P /\ d < P
  BY <1>3
<1>8. \A k \in 1 .. m + 1 : k \in 1 .. m \/ k = m + 1
  BY <1>3
<1>. HIDE DEF P, S, m
<1>9. DataTyped'
  BY <1>2, <1>3, <1>5, <1>6, <1>7 DEF DataTyped
<1>10. Stages'
  BY <1>3, <1>5, <1>6 DEF Stages
<1>11. Owners'
  <2>. SUFFICES ASSUME NEW k \in 1 .. m + 1
                PROVE  /\ frames'[k].decl \in 0 .. P
                       /\ frames'[k].decl = Null <=> k = 1
    BY <1>2, <1>6 DEF Owners
  <2>1. CASE k \in 1 .. m
    BY <1>3, <1>6, <1>7, <2>1 DEF Owners, m
  <2>2. CASE k = m + 1
    BY <1>3, <1>6, <1>7, <2>2 DEF Null
  <2>. QED
    BY <1>8, <2>1, <2>2
<1>12. Nested'
  <2>. SUFFICES ASSUME NEW k \in 2 .. m + 1
                PROVE  decls'[frames'[k].decl].encl = frames'[k - 1].decl
    BY <1>6 DEF Nested
  <2>1. k - 1 \in 1 .. m /\ (k \in 2 .. m \/ k = m + 1)
    BY <1>3
  <2>2. CASE k \in 2 .. m
    <3>1. decls'[frames[k].decl].encl = frames[k - 1].decl
      BY <1>1, <2>2, NestedAfterAdding DEF m
    <3>2. k \in 1 .. m
      BY <1>3, <2>2
    <3>. QED
      BY <1>6, <2>1, <3>1, <3>2
  <2>3. CASE k = m + 1
    <3>1. k - 1 = m
      BY <1>3, <2>3
    <3>. QED
      BY <1>2, <1>3, <1>4, <1>6, <2>1, <2>3, <3>1
  <2>. QED
    BY <2>1, <2>2, <2>3
<1>13. Ordered'
  <2>. SUFFICES ASSUME NEW j \in 1 .. m + 1, NEW k \in 1 .. m + 1, j < k
                PROVE  frames'[j].decl < frames'[k].decl
    BY <1>6 DEF Ordered
  <2>1. j \in 1 .. m
    BY <1>3
  <2>2. CASE k \in 1 .. m
    BY <1>3, <1>6, <2>1, <2>2 DEF Ordered, m
  <2>3. CASE k = m + 1
    BY <1>3, <1>6, <1>7, <2>1, <2>3
  <2>. QED
    BY <1>8, <2>2, <2>3
<1>14. Innermost'
  BY <1>2, <1>3, <1>5, <1>6, <1>7 DEF Innermost
<1>15. Outermost'
  <2>1. scopes'[1] = scopes[1]
    BY <1>2, <1>3, <1>5
  <2>. QED
    BY <1>1, <2>1, OutermostAfterAdding
<1>16. Blocks'
  <2>. SUFFICES ASSUME NEW k \in 1 .. m + 1
                PROVE  /\ HoldsOnly(decls', scopes'[k + 1], frames'[k].decl)
                       /\ HoldsAll(decls', scopes'[k + 1], frames'[k].decl)
    BY <1>6 DEF Blocks
  <2>1. CASE k \in 1 .. m
    <3>1. k + 1 \in 1 .. m + 1
      BY <1>3, <2>1
    <3>. QED
      BY <1>2, <1>5, <1>6, <2>1, <3>1
  <2>2. CASE k = m + 1
    <3>1. scopes'[k + 1] = <<>> /\ frames'[k].decl = P
      <4>1. k + 1 = m + 2
        BY <1>3, <2>2
      <4>. QED
        BY <1>5, <1>6, <2>2, <4>1
    <3>2. HoldsOnly(decls', <<>>, P)
      BY DEF HoldsOnly
    <3>3. \A d \in 5 .. P : decls'[d].encl # P
      <4>. SUFFICES ASSUME NEW d \in 5 .. P
                    PROVE  decls'[d].encl # P
        OBVIOUS
      <4>1. d \in 1 .. P
        BY <1>7
      <4>2. decls'[d].encl \in 0 .. d - 1
        BY <1>2, <4>1 DEF EnclosedBefore
      <4>. QED
        BY <1>7, <4>1, <4>2
    <3>4. HoldsAll(decls', <<>>, P)
      BY <1>2, <3>3 DEF HoldsAll
    <3>. QED
      BY <3>1, <3>2, <3>4
  <2>. QED
    BY <1>8, <2>1, <2>2
<1>. QED
  BY <1>2, <1>9, <1>10, <1>11, <1>12, <1>13, <1>14, <1>15, <1>16 DEF IInv, Chain

LEMMA NextIInv == IInv /\ [Next]_vars => IInv'
<1>1. ASSUME IInv, Next
      PROVE  IInv'
  <2>1. Kinds
    BY <1>1, StepKinds
  <2>. QED
    BY <1>1, <2>1, KeepKeeps, DeclareKeeps, OpenKeeps, CloseKeeps, CrashKeeps,
       EnterModuleKeeps, NotAModuleKeeps DEF Kinds
<1>2. ASSUME IInv, UNCHANGED vars
      PROVE  IInv'
  BY <1>2 DEF vars, IInv, DataTyped, Stages, Chain, EnclosedBefore, Owners, Nested, Ordered,
              Innermost, Outermost, Blocks, DoublesAreReported
<1>. QED
  BY <1>1, <1>2

LEMMA SpecIInv == Spec => []IInv
BY InitIInv, NextIInv, PTL DEF Spec

(* A report is never taken back.                                           *)
LEMMA ReportsStay ==
  ASSUME IInv, Next, reported
  PROVE  reported'
<1>1. Kinds
  BY StepKinds
<1>. QED
  BY <1>1 DEF Kinds, Keeps, Declares, Opens, Closes, Crashes, Adds, EnterModule, NotAModule

(* Parameters are dropped without a report before the first one only.      *)
DropsRight == dropped \subseteq Nat /\ (~reported => dropped \subseteq {0})

LEMMA NextDrops == IInv /\ DropsRight /\ [Next]_vars => DropsRight'
<1>. SUFFICES ASSUME IInv, DropsRight, [Next]_vars PROVE DropsRight'
  OBVIOUS
<1>1. CASE UNCHANGED vars
  BY <1>1 DEF vars, DropsRight
<1>2. CASE Parsing /\ UNCHANGED dropped
  <2>1. reported => reported'
    BY <1>2, ReportsStay DEF Next
  <2>. QED
    BY <1>2, <2>1 DEF DropsRight
<1>3. ASSUME NEW n \in Names, DropParameters(n) PROVE DropsRight'
  <2>1. Top.formals \in Seq(Nat)
    BY <1>3, AtFacts DEF DropParameters, At, FrameType
  <2>2. Len(Top.formals) \in Nat /\ (Top.formals = <<>> => Len(Top.formals) = 0)
    BY <2>1, LenProperties, EmptySeq
  <2>3. CASE reported'
    BY <1>3, <2>3 DEF DropParameters, DropsRight
  <2>4. CASE ~reported'
    <3>1. ~reported /\ Top.formals = <<>> /\ dropped' = dropped \cup {0}
      BY <1>3, <2>2, <2>4 DEF DropParameters
    <3>. QED
      BY <3>1 DEF DropsRight
  <2>. QED
    BY <2>3, <2>4
<1>. QED
  BY <1>1, <1>2, <1>3 DEF Next

LEMMA SpecDrops == Spec => []DropsRight
<1>1. Init => DropsRight
  BY DEF Init, DropsRight
<1>. QED
  BY <1>1, NextDrops, SpecIInv, PTL DEF Spec

-----------------------------------------------------------------------------
(* What the invariant says of a state.                                     *)
LEMMA HeldTyped ==
  ASSUME IInv, NEW k \in 1 .. Len(scopes), NEW n \in DOMAIN scopes[k]
  PROVE  scopes[k][n] \in 1 .. Len(decls)
<1>1. Len(decls) \in Nat /\ Len(frames) \in Nat /\ Len(scopes) \in Nat
  BY LenProperties DEF IInv, DataTyped
<1>2. pc # "crashed"
  BY DEF IInv, Stages
<1>3. CASE k = 1
  <2>1. scopes[k] = PervasiveScope /\ Len(decls) >= 4
    BY <1>2, <1>3 DEF IInv, Outermost
  <2>2. scopes[k][n] \in 1 .. 4
    BY <2>1, PervasiveFacts
  <2>. QED
    BY <1>1, <2>1, <2>2
<1>4. CASE k # 1
  <2>1. k - 1 \in 1 .. Len(frames) /\ scopes[k - 1 + 1] = scopes[k]
    BY <1>1, <1>2, <1>4 DEF IInv, Stages
  <2>2. scopes[k][n] \in 5 .. Len(decls)
    BY <2>1 DEF IInv, Blocks, HoldsOnly
  <2>. QED
    BY <1>1, <2>2
<1>. QED
  BY <1>3, <1>4

LEMMA DepthOfBlock ==
  ASSUME IInv, NEW k \in 1 .. Len(frames), NEW d \in 5 .. Len(decls),
         decls[d].encl = frames[k].decl
  PROVE  Depth(d) = k
<1>1. Len(frames) \in Nat /\ Len(decls) \in Nat
  BY LenProperties DEF IInv, DataTyped
<1>2. ~(d <= Len(Pervasives))
  BY <1>1, FourPervasives
<1>3. \A j \in 1 .. Len(frames) : frames[j].decl = decls[d].encl => j = k
  <2>. SUFFICES ASSUME NEW j \in 1 .. Len(frames), frames[j].decl = frames[k].decl
                PROVE  j = k
    OBVIOUS
  <2>1. frames[j].decl \in Nat /\ Ordered
    BY <1>1 DEF IInv, Chain, Owners
  <2>2. ~(j < k) /\ ~(k < j)
    BY <2>1 DEF Ordered
  <2>. QED
    BY <1>1, <2>2
<1>. QED
  BY <1>2, <1>3 DEF Depth

(* A declaration in a scope is the first of its name in its block.         *)
LEMMA CandidateHeld ==
  ASSUME IInv, pc = "parsing", NEW n, NEW d \in Candidates(n)
  PROVE  /\ Depth(d) \in 0 .. Len(frames) /\ d \in 1 .. Len(decls)
         /\ n \in DOMAIN scopes[Depth(d) + 1]
         /\ scopes[Depth(d) + 1][n] <= d
<1>1. /\ Len(frames) \in Nat /\ Len(decls) \in Nat /\ Len(decls) >= 4
      /\ d \in 1 .. Len(decls) /\ decls[d].name = n /\ InScope(d)
  BY LenProperties DEF IInv, DataTyped, Candidates, Outermost
<1>2. CASE d <= 4
  <2>1. Depth(d) = 0 /\ d \in 1 .. 4
    BY <1>1, <1>2, FourPervasives DEF Depth
  <2>2. scopes[1] = PervasiveScope /\ Pervasives[d].name = n
    BY <1>1, <2>1 DEF IInv, Outermost
  <2>3. n \in DOMAIN scopes[1] /\ scopes[1][n] = d
    BY <2>1, <2>2, PervasiveFacts
  <2>4. Depth(d) + 1 = 1
    BY <2>1
  <2>. QED
    BY <1>1, <2>1, <2>3, <2>4
<1>3. CASE ~(d <= 4)
  <2>1. d \in 5 .. Len(decls)
    BY <1>1, <1>3
  <2>2. PICK k \in 1 .. Len(frames) : frames[k].decl = decls[d].encl
    BY <1>1, <1>3, FourPervasives DEF InScope
  <2>3. Depth(d) = k
    BY <2>1, <2>2, DepthOfBlock
  <2>4. HoldsAll(decls, scopes[k + 1], frames[k].decl)
    BY DEF IInv, Blocks
  <2>5. n \in DOMAIN scopes[k + 1] /\ scopes[k + 1][n] <= d
    BY <1>1, <2>1, <2>2, <2>4 DEF HoldsAll
  <2>. QED
    BY <1>1, <2>3, <2>5
<1>. QED
  BY <1>2, <1>3

LEMMA HeldCandidate ==
  ASSUME IInv, pc = "parsing", NEW k \in 1 .. Len(scopes), NEW n \in DOMAIN scopes[k]
  PROVE  scopes[k][n] \in Candidates(n) /\ Depth(scopes[k][n]) = k - 1
<1>. DEFINE d == scopes[k][n]
<1>1. /\ Len(frames) \in Nat /\ Len(decls) \in Nat
      /\ d \in 1 .. Len(decls) /\ Len(scopes) = Len(frames) + 1
  BY LenProperties, HeldTyped DEF IInv, DataTyped, Stages
<1>2. CASE k = 1
  <2>1. scopes[1] = PervasiveScope
    BY DEF IInv, Outermost
  <2>2. d \in 1 .. 4 /\ Pervasives[d].name = n
    BY <1>2, <2>1, PervasiveFacts
  <2>3. decls[d].name = n
    BY <2>2 DEF IInv, Outermost
  <2>. HIDE DEF d
  <2>4. InScope(d) /\ Depth(d) = 0
    BY <2>2, FourPervasives DEF InScope, Depth
  <2>5. d \in Candidates(n) /\ Depth(d) = k - 1
    BY <1>1, <1>2, <2>3, <2>4 DEF Candidates
  <2>. QED
    BY <2>5 DEF d
<1>3. CASE k # 1
  <2>1. k - 1 \in 1 .. Len(frames) /\ scopes[k - 1 + 1] = scopes[k]
    BY <1>1, <1>3
  <2>2. /\ d \in 5 .. Len(decls) /\ decls[d].name = n
        /\ decls[d].encl = frames[k - 1].decl
    BY <2>1 DEF IInv, Blocks, HoldsOnly
  <2>. HIDE DEF d
  <2>3. Depth(d) = k - 1
    BY <2>1, <2>2, DepthOfBlock
  <2>4. d \in Candidates(n)
    BY <1>1, <2>1, <2>2 DEF Candidates, InScope
  <2>. QED
    BY <2>3, <2>4 DEF d
<1>. QED
  BY <1>2, <1>3

LEMMA LookupDecided == IInv => LookupIsInnermost
<1>. SUFFICES ASSUME IInv, pc = "parsing", NEW n \in Names
              PROVE  Lookup(n) = IF Candidates(n) = {} THEN Null
                                 ELSE CHOOSE d \in Candidates(n) :
                                        \A e \in Candidates(n) : Precedes(d, e)
  BY DEF LookupIsInnermost
<1>1. Len(frames) \in Nat /\ Len(decls) \in Nat /\ Len(scopes) = Len(frames) + 1
  BY LenProperties DEF IInv, DataTyped, Stages
<1>2. CASE Candidates(n) = {}
  <2>1. Holders(n) = {}
    BY <1>2, HeldCandidate DEF Holders
  <2>. QED
    BY <1>2, <2>1 DEF Lookup
<1>3. CASE Candidates(n) # {}
  <2>1. \A e \in Candidates(n) : Depth(e) + 1 \in Holders(n)
    BY <1>1, CandidateHeld DEF Holders
  <2>2. Holders(n) # {}
    BY <1>3, <2>1
  <2>3. PICK k \in 1 .. Len(scopes) :
          /\ n \in DOMAIN scopes[k] /\ Lookup(n) = scopes[k][n]
          /\ \A j \in 1 .. Len(scopes) : n \in DOMAIN scopes[j] => j <= k
    BY <2>2, LookupOfHolders DEF IInv
  <2>. DEFINE f == Lookup(n)
  <2>4. f \in Candidates(n) /\ Depth(f) = k - 1
    BY <2>3, HeldCandidate
  <2>. HIDE DEF f
  <2>5. ASSUME NEW e \in Candidates(n)
        PROVE  Precedes(f, e)
    <3>1. /\ Depth(e) \in 0 .. Len(frames) /\ n \in DOMAIN scopes[Depth(e) + 1]
          /\ scopes[Depth(e) + 1][n] <= e
      BY CandidateHeld
    <3>2. Depth(e) + 1 <= k
      BY <1>1, <2>3, <3>1
    <3>3. CASE Depth(e) + 1 = k
      BY <1>1, <2>3, <2>4, <3>1, <3>3 DEF Precedes, f
    <3>4. CASE Depth(e) + 1 # k
      BY <1>1, <2>4, <3>1, <3>2, <3>4 DEF Precedes
    <3>. QED
      BY <3>3, <3>4
  <2>6. ASSUME NEW d \in Candidates(n), \A e \in Candidates(n) : Precedes(d, e)
        PROVE  d = f
    <3>1. Precedes(d, f) /\ Precedes(f, d)
      BY <2>4, <2>5, <2>6
    <3>2. /\ Depth(d) \in 0 .. Len(frames) /\ d \in 1 .. Len(decls)
          /\ Depth(f) \in 0 .. Len(frames) /\ f \in 1 .. Len(decls)
      BY <2>4, CandidateHeld
    <3>. QED
      BY <1>1, <3>1, <3>2 DEF Precedes
  <2>7. f = CHOOSE d \in Candidates(n) : \A e \in Candidates(n) : Precedes(d, e)
    <3>. HIDE DEF Candidates, Precedes
    <3>. QED
      BY <2>4, <2>5, <2>6
  <2>. QED
    BY <1>3, <2>7 DEF f
<1>. QED
  BY <1>2, <1>3

-----------------------------------------------------------------------------
(* Every pointer of Sema and of the tree is null or an allocated           *)
(* declaration, for every set of names and every bound (Sema.h, AST.h).    *)
THEOREM SemaTypeCorrect == Spec => []TypeOK
<1>1. ASSUME IInv, DropsRight
      PROVE  TypeOK
  <2>1. \A k \in 1 .. Len(scopes) : \A n \in DOMAIN scopes[k] : scopes[k][n] \in 1 .. Len(decls)
    BY <1>1, HeldTyped
  <2>. QED
    BY <1>1, <2>1 DEF IInv, DataTyped, Chain, EnclosedBefore, Owners, Innermost, TypeOK, DropsRight
<1>. QED
  BY <1>1, SpecIInv, SpecDrops, PTL

(* Scopes and declarations stay in step (EnterDecl, Sema.h:95-104, with    *)
(* enterScope and leaveScope, Sema.cc:12-23), however deep the procedures  *)
(* are nested and whatever they declare.                                   *)
THEOREM ScopesStayInStep == Spec => []ScopesFollowDecls
<1>1. ASSUME IInv
      PROVE  ScopesFollowDecls
  <2>1. \A k \in 1 .. Len(frames) : HoldsOnly(decls, scopes[k + 1], frames[k].decl)
    BY <1>1 DEF IInv, Blocks
  <2>2. \A k \in 1 .. Len(frames) : \A n \in DOMAIN scopes[k + 1] :
          LET d == decls[scopes[k + 1][n]] IN d.encl = frames[k].decl /\ d.name = n
    BY <2>1 DEF HoldsOnly
  <2>3. frames # <<>> => curDecl = Top.decl
    BY <1>1 DEF IInv, Chain, Innermost, Top
  <2>. QED
    BY <1>1, <2>2, <2>3 DEF IInv, Stages, Chain, Nested, ScopesFollowDecls
<1>. QED
  BY <1>1, SpecIInv, PTL

(* Scope::lookup (Scope.h:15-26) answers the first declaration of the name *)
(* in the innermost enclosing block that declares it.                      *)
THEOREM LookupFindsInnermost == Spec => []LookupIsInnermost
BY LookupDecided, SpecIInv, PTL

(* A second declaration of a name in a block is reported, by whichever of  *)
(* the three insert tests (Sema.cc:140, 174 and 199) meets it.             *)
THEOREM DuplicatesAreReported == Spec => []DoublesAreReported
<1>1. IInv => DoublesAreReported
  BY DEF IInv
<1>. QED
  BY <1>1, SpecIInv, PTL
-----------------------------------------------------------------------------
(* AmanSema implements SemaProtocol: what is open, as the protocol sees    *)
(* it, is the list of places of the parser's frames, and each action maps  *)
(* to one step of the protocol or to none.                                 *)
OpenOf(fs) == [k \in 1 .. Len(fs) |-> Place(fs[k].at)]
Over == pc \in {"crashed", "done"}

(* The places of a stack of frames are a sequence of the same length.      *)
LEMMA OpenTyped ==
  ASSUME NEW fs \in Seq(FrameType)
  PROVE  /\ OpenOf(fs) \in Seq(Places) /\ Len(OpenOf(fs)) = Len(fs)
         /\ \A k \in 1 .. Len(fs) : OpenOf(fs)[k] = Place(fs[k].at)
<1>1. Len(fs) \in Nat /\ \A k \in 1 .. Len(fs) : fs[k] \in FrameType
  BY LenProperties, ElementOfSeq
<1>2. \A at \in Places : Place(at) \in Places
  BY DEF Places, Place
<1>3. OpenOf(fs) \in [1 .. Len(fs) -> Places]
  BY <1>1, <1>2 DEF OpenOf, FrameType
<1>4. OpenOf(fs) \in Seq(Places)
  BY <1>1, <1>3, SeqDef
<1>5. DOMAIN OpenOf(fs) = 1 .. Len(OpenOf(fs)) /\ Len(OpenOf(fs)) \in Nat
  BY <1>4, LenProperties
<1>6. 1 .. Len(fs) = 1 .. Len(OpenOf(fs))
  BY <1>3, <1>5
<1>. QED
  BY <1>1, <1>4, <1>5, <1>6 DEF OpenOf

(* A new top frame changes the last place only.                            *)
LEMMA SetTopMoves ==
  ASSUME DataTyped, frames # <<>>, NEW f \in FrameType, SetTop(f)
  PROVE  OpenOf(frames') = [OpenOf(frames) EXCEPT ![Len(OpenOf(frames))] = Place(f.at)]
<1>1. /\ frames' \in Seq(FrameType) /\ Len(frames') = Len(frames) /\ frames \in Seq(FrameType)
      /\ \A k \in 1 .. Len(frames) : frames'[k] = IF k = Len(frames) THEN f ELSE frames[k]
  BY SetTopTyped DEF DataTyped
<1>2. OpenOf(frames') = [k \in 1 .. Len(frames) |-> IF k = Len(frames) THEN Place(f.at) ELSE Place(frames[k].at)]
  BY <1>1 DEF OpenOf
<1>. QED
  BY <1>1, <1>2, OpenTyped DEF OpenOf

-----------------------------------------------------------------------------
LEMMA InitProtocol == Init => Protocol!Init
<1>. SUFFICES ASSUME Init PROVE Protocol!Init
  OBVIOUS
<1>1. frames = <<>> /\ Len(frames) = 0
  BY DEF Init
<1>2. OpenOf(frames) = <<>>
  BY <1>1 DEF OpenOf
<1>. QED
  BY <1>2 DEF Protocol!Init, OpenOf

(* What a step has to be for the protocol.                                 *)
Step == [Protocol!Next]_Protocol!vars

(* From one place to the next.                                             *)
LEMMA OpenChanges ==
  ASSUME DataTyped, NEW from \in {"imports", "formals", "block", "stmt"}, At(from), frames # <<>>,
         NEW f \in FrameType, SetTop(f), pc' = pc,
         \/ from = "imports" /\ f.at = "block"
         \/ from = "formals" /\ f.at = "block"
         \/ from = "block" /\ f.at \in {"stmt", "end"}
         \/ from = "stmt" /\ f.at = "end"
  PROVE  Step
<1>1. OpenOf(frames') = [OpenOf(frames) EXCEPT ![Len(OpenOf(frames))] = Place(f.at)]
  BY SetTopMoves
<1>2. /\ OpenOf(frames) # <<>> /\ OpenOf(frames)[Len(OpenOf(frames))] = from
  BY OpenTyped, TopTyped DEF At, Top, Place, DataTyped
<1>3. Place(f.at) = f.at
  BY DEF Place
<1>4. Protocol!Innermost(from) /\ Protocol!MoveTo(f.at)
  BY <1>1, <1>2, <1>3 DEF Protocol!Innermost, Protocol!MoveTo, OpenOf
<1>. QED
  BY <1>4 DEF Step, Protocol!Next, Protocol!EndImports, Protocol!EndHeading, Protocol!BeginBody,
     Protocol!EndBlockWithoutBody, Protocol!EndBody

(* Nothing the protocol sees.                                              *)
LEMMA Stays ==
  ASSUME UNCHANGED <<frames, pc>>
  PROVE  Step
BY DEF Step, Protocol!vars

(* The text is over.                                                       *)
LEMMA Stops ==
  ASSUME ~Over, Over', frames' = <<>>
  PROVE  Step
<1>1. OpenOf(frames') = <<>>
  BY DEF OpenOf
<1>. QED
  BY <1>1 DEF Step, Protocol!Next, Protocol!Stop, OpenOf, Over

(* A step within a place.                                                  *)
LEMMA MovesWithin ==
  ASSUME DataTyped, frames # <<>>, NEW f \in FrameType, SetTop(f), pc' = pc,
         Place(f.at) = Place(Top.at)
  PROVE  Step
<1>1. OpenOf(frames') = [OpenOf(frames) EXCEPT ![Len(OpenOf(frames))] = Place(f.at)]
  BY SetTopMoves
<1>2. OpenOf(frames) \in Seq(Places) /\ OpenOf(frames)[Len(OpenOf(frames))] = Place(f.at)
  BY OpenTyped, TopTyped DEF Top, DataTyped
<1>3. OpenOf(frames') = OpenOf(frames)
  BY <1>1, <1>2
<1>. QED
  BY <1>3 DEF Step, Protocol!vars, OpenOf

-----------------------------------------------------------------------------
(* The actions.                                                            *)
LEMMA TopPlaceMoves ==
  ASSUME IInv, pc = "parsing", NEW at \in Places, SetTop([Top EXCEPT !.at = at]), pc' = pc,
         \/ Top.at = "imports" /\ at = "block"
         \/ Top.at = "formals" /\ at = "block"
         \/ Top.at = "block" /\ at \in {"stmt", "end"}
  PROVE  Step
<1>1. DataTyped /\ frames # <<>> /\ Top \in FrameType
  BY AtFacts
<1>2. [Top EXCEPT !.at = at] \in FrameType /\ [Top EXCEPT !.at = at].at = at
  BY <1>1 DEF FrameType
<1>3. At(Top.at)
  BY DEF At
<1>. QED
  BY <1>1, <1>2, <1>3, OpenChanges

LEMMA StatementOpens ==
  ASSUME IInv, InBody, NEW kind \in Texts, NEW made \in Seq(StmtType), Statement(kind, made)
  PROVE  Step
<1>. DEFINE f == [Top EXCEPT !.stmts = @ \o made, !.at = "end", !.text = kind]
<1>1. pc = "parsing" /\ pc' = pc /\ At("stmt")
  BY DEF InBody, At, Statement, KeepSema
<1>2. DataTyped /\ frames # <<>> /\ Top \in FrameType
  BY <1>1, AtFacts
<1>3. Top.stmts \o made \in Seq(StmtType)
  <2>1. Top.stmts \in Seq(StmtType)
    BY <1>2 DEF FrameType
  <2>. QED
    BY <2>1, ConcatProperties
<1>4. f \in FrameType /\ f.at = "end" /\ SetTop(f)
  BY <1>2, <1>3 DEF FrameType, Places, Statement
<1>. HIDE DEF f
<1>. QED
  BY <1>1, <1>2, <1>4, OpenChanges

LEMMA OpenMoves ==
  ASSUME IInv, NEW name, ProcedureDeclaration(name)
  PROVE  Step
<1>. DEFINE new == Frame(Len(decls) + 1, "formals")
<1>1. pc = "parsing" /\ pc' = pc /\ Top.at = "block" /\ frames' = Append(frames, new)
  BY DEF ProcedureDeclaration, At
<1>2. /\ DataTyped /\ frames # <<>> /\ frames \in Seq(FrameType) /\ Len(frames) \in Nat \ {0}
      /\ Top = frames[Len(frames)] /\ Len(decls) \in Nat
  BY <1>1, AtFacts DEF DataTyped, Top
<1>3. new \in FrameType /\ new.at = "formals"
  <2>1. "formals" \in Places /\ Len(decls) + 1 \in Nat
    BY <1>2 DEF Places
  <2>2. new.at = "formals"
    BY DEF Frame
  <2>. QED
    BY <2>1, <2>2, FrameTyped
<1>. HIDE DEF new
<1>4. /\ frames' \in Seq(FrameType) /\ Len(frames') = Len(frames) + 1
      /\ \A k \in 1 .. Len(frames) : frames'[k] = frames[k]
      /\ frames'[Len(frames) + 1] = new
  BY <1>1, <1>2, <1>3, AppendProperties
<1>5. OpenOf(frames) \in Seq(Places) /\ OpenOf(frames') \in Seq(Places)
  BY <1>2, <1>4, OpenTyped
<1>6. "formals" \in Places /\ Place("formals") = "formals" /\ Place("block") = "block"
  BY DEF Places, Place
<1>7. /\ Append(OpenOf(frames), "formals") \in Seq(Places)
      /\ Len(Append(OpenOf(frames), "formals")) = Len(frames) + 1
      /\ \A k \in 1 .. Len(frames) : Append(OpenOf(frames), "formals")[k] = Place(frames[k].at)
      /\ Append(OpenOf(frames), "formals")[Len(frames) + 1] = "formals"
  BY <1>2, <1>5, <1>6, OpenTyped, AppendProperties
<1>8. OpenOf(frames') = Append(OpenOf(frames), "formals")
  <2>1. Len(OpenOf(frames')) = Len(frames) + 1
    BY <1>4, OpenTyped
  <2>2. \A k \in 1 .. Len(frames) + 1 : OpenOf(frames')[k] = Append(OpenOf(frames), "formals")[k]
    BY <1>2, <1>3, <1>4, <1>6, <1>7, OpenTyped
  <2>. QED
    BY <1>5, <1>7, <2>1, <2>2, SeqEqual
<1>9. Protocol!Innermost("block")
  <2>1. OpenOf(frames) # <<>> /\ OpenOf(frames)[Len(OpenOf(frames))] = "block"
    BY <1>1, <1>2, <1>6, OpenTyped
  <2>. QED
    BY <2>1 DEF Protocol!Innermost, OpenOf
<1>10. Protocol!OpenProcedure
  BY <1>1, <1>8, <1>9 DEF Protocol!OpenProcedure, OpenOf
<1>. QED
  BY <1>10 DEF Step, Protocol!Next

LEMMA CloseMoves ==
  ASSUME IInv, IInv', NEW name, EndProcedure(name)
  PROVE  Step
<1>. DEFINE outer == Len(frames) - 1
            f == [Below[outer] EXCEPT !.list = Append(@, Top.decl)]
<1>1. pc = "parsing" /\ pc' = pc /\ Top.at = "end" /\ Len(frames) > 1 /\ frames' = [Below EXCEPT ![outer] = f]
  BY DEF EndProcedure, At
<1>2. /\ DataTyped /\ frames # <<>> /\ frames \in Seq(FrameType) /\ Len(frames) \in Nat \ {0}
      /\ frames' \in Seq(FrameType) /\ Top = frames[Len(frames)]
  BY <1>1, AtFacts DEF DataTyped, Top, IInv
<1>3. /\ Below \in Seq(FrameType) /\ Len(Below) = outer /\ outer \in 1 .. outer
      /\ \A k \in 1 .. outer : Below[k] = frames[k]
  BY <1>1, <1>2, TopTyped
<1>4. f.at = Below[outer].at
  <2>1. Below[outer] \in FrameType
    BY <1>3, ElementOfSeq
  <2>. QED
    BY <2>1 DEF FrameType
<1>. HIDE DEF f
<1>5. Len(frames') = outer /\ \A k \in 1 .. outer : frames'[k].at = frames[k].at
  BY <1>1, <1>3, <1>4
<1>. DEFINE open == OpenOf(frames)
            rest == SubSeq(open, 1, Len(open) - 1)
<1>6. open \in Seq(Places) /\ OpenOf(frames') \in Seq(Places) /\ Len(open) = Len(frames) /\ Len(OpenOf(frames')) = outer
  BY <1>2, <1>5, OpenTyped
<1>7. /\ open # <<>> /\ open[Len(open)] = "end"
      /\ rest \in Seq(Places) /\ Len(rest) = outer /\ \A k \in 1 .. outer : rest[k] = open[k]
  <2>1. open[Len(open)] = "end"
    <3>1. Len(frames) \in 1 .. Len(frames) /\ Place("end") = "end"
      BY <1>2 DEF Place
    <3>. QED
      BY <1>1, <1>2, <1>6, <3>1, OpenTyped
  <2>2. open # <<>>
    BY <1>2, <1>6
  <2>. HIDE DEF open
  <2>. QED
    BY <1>6, <2>1, <2>2, StackParts
<1>8. OpenOf(frames') = rest
  <2>1. \A k \in 1 .. outer : OpenOf(frames')[k] = open[k]
    BY <1>2, <1>5, OpenTyped
  <2>. HIDE DEF open, rest
  <2>. QED
    BY <1>6, <1>7, <2>1, SeqEqual
<1>9. Protocol!CloseProcedure
  BY <1>1, <1>6, <1>7, <1>8 DEF Protocol!CloseProcedure, Protocol!Innermost, OpenOf
<1>. QED
  BY <1>9 DEF Step, Protocol!Next

LEMMA EnterMoves ==
  ASSUME IInv, EnterModule
  PROVE  Step
<1>1. frames = <<>> /\ pc = "start" /\ pc' = "parsing" /\ frames' = << Frame(Null, "imports") >>
  BY DEF EnterModule, IInv, Stages
<1>2. Len(frames) = 0 /\ Len(frames') = 1 /\ frames'[1].at = "imports"
  BY <1>1 DEF Frame
<1>3. OpenOf(frames) = <<>>
  BY <1>2 DEF OpenOf
<1>4. OpenOf(frames') = <<"imports">>
  BY <1>2 DEF OpenOf, Place
<1>. QED
  BY <1>1, <1>3, <1>4 DEF Step, Protocol!Next, Protocol!EnterModule, OpenOf

LEMMA CrashStops ==
  ASSUME IInv, pc = "parsing", Crash
  PROVE  Step
BY Stops DEF Crash, Over

LEMMA DeclarationMoves ==
  ASSUME IInv, IInv', NextDeclaration
  PROVE  Step
<1>1. ASSUME NEW n \in Names, VariableDeclaration(n)
      PROVE  Step
  <2>. DEFINE f == [Top EXCEPT !.at = "vars", !.type = Lookup(n)]
  <2>1. pc = "parsing" /\ pc' = pc /\ Top.at = "block"
    BY <1>1 DEF VariableDeclaration, At
  <2>2. DataTyped /\ frames # <<>> /\ Top \in FrameType /\ Lookup(n) \in Nat
    BY <2>1, AtFacts, LookupTyped
  <2>3. f \in FrameType /\ Place(f.at) = Place(Top.at)
    BY <2>1, <2>2 DEF FrameType, Places, Place
  <2>4. SetTop(f) \/ UNCHANGED frames
    BY <1>1 DEF VariableDeclaration
  <2>. HIDE DEF f
  <2>. QED
    BY <2>1, <2>2, <2>3, <2>4, MovesWithin, Stays
<1>2. ASSUME NEW n \in Names, NEW isVar \in BOOLEAN, FormalParameter(n, isVar)
      PROVE  Step
  <2>. DEFINE f == [Top EXCEPT !.at = "params", !.type = Lookup(n), !.isVar = isVar]
  <2>1. pc = "parsing" /\ pc' = pc /\ Top.at = "formals"
    BY <1>2 DEF FormalParameter, At
  <2>2. DataTyped /\ frames # <<>> /\ Top \in FrameType /\ Lookup(n) \in Nat
    BY <2>1, AtFacts, LookupTyped
  <2>3. f \in FrameType /\ Place(f.at) = Place(Top.at)
    BY <2>1, <2>2 DEF FrameType, Places, Place
  <2>4. SetTop(f)
    BY <1>2 DEF FormalParameter
  <2>. HIDE DEF f
  <2>. QED
    BY <2>1, <2>2, <2>3, <2>4, MovesWithin
<1>3. ASSUME NEW n \in Names, NEW more, DeclareVariable(n, more) \/ DeclareParameter(n, more)
      PROVE  Step
  <2>1. pc = "parsing" /\ pc' = pc /\ frames # <<>> /\ frames' # <<>> /\ DataTyped /\ DataTyped'
    <3>1. pc = "parsing" /\ pc' = pc
      BY <1>3 DEF DeclareVariable, DeclareParameter, Declare, At
    <3>. QED
      BY <3>1 DEF IInv, Stages
  <2>2. PICK f : SetTop(f) /\ Place(f.at) = Place(Top.at)
    <3>1. Top \in FrameType
      BY <2>1, TopTyped
    <3>2. CASE DeclareVariable(n, more)
      <4>. DEFINE g == [Top EXCEPT !.list = Pushed(@, n),
                                   !.type = IF more THEN @ ELSE Null,
                                   !.at = IF more THEN @ ELSE "block"]
      <4>1. SetTop(g) /\ Top.at = "vars"
        BY <3>2 DEF DeclareVariable, At
      <4>2. Place(g.at) = Place(Top.at)
        BY <3>1, <4>1 DEF FrameType, Place
      <4>. HIDE DEF g
      <4>. QED
        BY <4>1, <4>2
    <3>3. CASE DeclareParameter(n, more)
      <4>. DEFINE g == [Top EXCEPT !.formals = Pushed(@, n), !.isVar = more /\ @,
                                   !.type = IF more THEN @ ELSE Null,
                                   !.at = IF more THEN @ ELSE "formals"]
      <4>1. SetTop(g) /\ Top.at = "params"
        BY <3>3 DEF DeclareParameter, At
      <4>2. Place(g.at) = Place(Top.at)
        BY <3>1, <4>1 DEF FrameType, Place
      <4>. HIDE DEF g
      <4>. QED
        BY <4>1, <4>2
    <3>. QED
      BY <1>3, <3>2, <3>3
  <2>3. f \in FrameType
    <3>1. frames \in Seq(FrameType) /\ frames' \in Seq(FrameType) /\ frames' = [frames EXCEPT ![Len(frames)] = f]
      BY <2>1, <2>2 DEF DataTyped, SetTop
    <3>2. Len(frames) \in 1 .. Len(frames) /\ DOMAIN frames = 1 .. Len(frames)
      BY <2>1, <3>1, TopTyped, LenProperties
    <3>3. DOMAIN frames' = 1 .. Len(frames) /\ frames'[Len(frames)] = f
      BY <3>1, <3>2
    <3>4. Len(frames) \in 1 .. Len(frames')
      BY <3>1, <3>2, <3>3, LenProperties
    <3>. QED
      BY <3>1, <3>3, <3>4, ElementOfSeq
  <2>. QED
    BY <2>1, <2>2, <2>3, MovesWithin
<1>4. ASSUME NEW n \in Names, ReturnType(n)
      PROVE  Step
  <2>1. pc = "parsing" /\ pc' = pc /\ Top.at = "formals" /\ SetTop([Top EXCEPT !.at = "block"])
    BY <1>4 DEF ReturnType, At
  <2>2. "block" \in Places
    BY DEF Places
  <2>. QED
    BY <2>1, <2>2, TopPlaceMoves
<1>5. CASE NoReturnType
  <2>1. pc = "parsing" /\ pc' = pc /\ Top.at = "formals" /\ SetTop([Top EXCEPT !.at = "block"])
    BY <1>5 DEF NoReturnType, At
  <2>2. "block" \in Places
    BY DEF Places
  <2>. QED
    BY <2>1, <2>2, TopPlaceMoves
<1>6. CASE EnterBody
  <2>1. pc = "parsing" /\ pc' = pc /\ Top.at = "block"
    BY <1>6 DEF EnterBody, At
  <2>2. PICK place \in {"stmt", "end"} : SetTop([Top EXCEPT !.at = place])
    BY <1>6 DEF EnterBody
  <2>3. place \in Places
    BY DEF Places
  <2>. QED
    BY <2>1, <2>2, <2>3, TopPlaceMoves
<1>. QED
  BY <1>1, <1>2, <1>3, <1>4, <1>5, <1>6, OpenMoves, CloseMoves DEF NextDeclaration

LEMMA BodyMoves ==
  ASSUME IInv, InBody, NextStatement
  PROVE  Step
<1>0. pc = "parsing"
  BY DEF InBody, At
<1>1. ASSUME NEW n, NEW args, Use(n) \/ FunctionCall(n, args)
      PROVE  Step
  BY <1>1, Stays DEF Use, FunctionCall, KeepSema
<1>2. ASSUME NEW n \in Names, NEW args \in ArgLists, ProcCall(n, args)
      PROVE  Step
  <2>. DEFINE types == [i \in DOMAIN args |-> args[i].type]
              made == << [kind |-> "call", to |-> Lookup(n), types |-> types] >>
  <2>1. "call" \in Texts /\ <<>> \in Seq(StmtType)
    BY EmptySeq DEF Texts
  <2>2. made \in Seq(StmtType)
    <3>1. PICK k \in 0 .. MaxArgs : args \in [1 .. k -> Exprs \ {NoExpr}]
      BY DEF ArgLists
    <3>2. k \in Nat /\ \A i \in 1 .. k : args[i].type \in Nat \cup {Unset}
      BY <1>0, <3>1, ExprsTyped, SizesAssumption
    <3>3. types \in [1 .. k -> Nat \cup {Unset}]
      BY <3>1, <3>2
    <3>4. types \in Seq(Nat \cup {Unset})
      <4>. HIDE DEF types
      <4>. QED
        BY <3>2, <3>3, SeqDef
    <3>. HIDE DEF types
    <3>. QED
      BY <1>0, <3>4, LookupTyped, SingleStatement
  <2>3. Statement("call", made) \/ Statement("call", <<>>)
    BY <1>2 DEF ProcCall
  <2>. HIDE DEF made
  <2>. QED
    BY <2>1, <2>2, <2>3, StatementOpens
<1>3. ASSUME NEW n \in Names, NEW E \in Exprs, NEW indexed \in BOOLEAN, Assignment(n, E, indexed)
      PROVE  Step
  <2>. DEFINE made == << [kind |-> "assign", to |-> Lookup(n), types |-> <<E.type>>] >>
  <2>1. "assign" \in Texts /\ <<>> \in Seq(StmtType)
    BY EmptySeq DEF Texts
  <2>2. made \in Seq(StmtType)
    <3>1. E.type \in Nat \cup {Unset} /\ Lookup(n) \in Nat
      BY <1>0, ExprsTyped, LookupTyped
    <3>2. <<E.type>> \in Seq(Nat \cup {Unset})
      BY <3>1
    <3>. QED
      BY <3>1, <3>2, SingleStatement
  <2>3. Statement("assign", made) \/ Statement("assign", <<>>)
    BY <1>3 DEF Assignment
  <2>. HIDE DEF made
  <2>. QED
    BY <2>1, <2>2, <2>3, StatementOpens
<1>4. ASSUME NEW E \in Exprs, Return(E)
      PROVE  Step
  <2>. DEFINE types == IF E = NoExpr THEN <<>> ELSE <<E.type>>
              made == << [kind |-> "return", to |-> Null, types |-> types] >>
  <2>1. "return" \in Texts
    BY DEF Texts
  <2>2. types \in Seq(Nat \cup {Unset})
    <3>1. E.type \in Nat \cup {Unset}
      BY <1>0, ExprsTyped
    <3>2. <<E.type>> \in Seq(Nat \cup {Unset}) /\ <<>> \in Seq(Nat \cup {Unset})
      BY <3>1, EmptySeq
    <3>. QED
      BY <3>2
  <2>3. made \in Seq(StmtType)
    <3>. HIDE DEF types
    <3>. QED
      BY <2>2, SingleStatement DEF Null
  <2>4. Statement("return", made)
    BY <1>4 DEF Return
  <2>. HIDE DEF made
  <2>. QED
    BY <2>1, <2>3, <2>4, StatementOpens
<1>5. ASSUME NEW E, While(E)
      PROVE  Step
  <2>. DEFINE made == << [kind |-> "while", to |-> Null, types |-> <<>>] >>
  <2>1. "while" \in Texts
    BY DEF Texts
  <2>2. made \in Seq(StmtType)
    BY EmptySeq, SingleStatement DEF Null
  <2>3. Statement("while", made)
    BY <1>5 DEF While
  <2>. HIDE DEF made
  <2>. QED
    BY <2>1, <2>2, <2>3, StatementOpens
<1>6. ASSUME NEW n, NEW E, AssignmentOfNull(n, E)
      PROVE  Step
  BY <1>0, <1>6, CrashStops DEF AssignmentOfNull
<1>7. CASE ReturnInModule
  BY <1>0, <1>7, CrashStops DEF ReturnInModule
<1>. QED
  BY <1>1, <1>2, <1>3, <1>4, <1>5, <1>6, <1>7 DEF NextStatement

LEMMA NextMoves == IInv /\ IInv' /\ [Next]_vars => Step
<1>. SUFFICES ASSUME IInv, IInv', [Next]_vars PROVE Step
  OBVIOUS
<1>1. CASE UNCHANGED vars
  BY <1>1, Stays DEF vars
<1>2. CASE NotAModule
  <2>1. frames' = <<>>
    BY <1>2 DEF NotAModule, IInv, Stages
  <2>. QED
    BY <1>2, <2>1, Stops DEF NotAModule, Over
<1>3. CASE Import
  BY <1>3, Stays DEF Import
<1>4. CASE EnterBlock
  <2>1. pc = "parsing" /\ pc' = pc /\ Top.at = "imports" /\ SetTop([Top EXCEPT !.at = "block"])
    BY <1>4 DEF EnterBlock, At
  <2>2. "block" \in Places
    BY DEF Places
  <2>. QED
    BY <2>1, <2>2, TopPlaceMoves
<1>5. CASE UndeclaredName \/ TypeMissingAtEof \/ EndModule \/ Fail
  BY <1>5, CrashStops DEF UndeclaredName, TypeMissingAtEof, EndModule, Fail, At
<1>6. ASSUME NEW n \in Names, DropParameters(n) PROVE Step
  BY <1>6, Stays DEF DropParameters
<1>. QED
  BY <1>1, <1>2, <1>3, <1>4, <1>5, <1>6, EnterMoves, DeclarationMoves, BodyMoves DEF Next, Parsing

-----------------------------------------------------------------------------
(* Every step of Sema under the parser's functions is a step of the        *)
(* protocol or a stutter, however deep the procedures nest and wherever    *)
(* the text goes wrong (parseCompilationUnit, parseProcedureDeclaration,   *)
(* parseBlock, and EnterDecl of Sema.h:95-104).                            *)
THEOREM SemaFollowsProtocol == Spec => FollowsProtocol
<1>1. Spec => Protocol!Init
  BY InitProtocol DEF Spec
<1>2. Spec => [][Next]_vars
  BY DEF Spec
<1>. QED
  BY <1>1, <1>2, SpecIInv, NextMoves, PTL DEF Step, FollowsProtocol, Protocol!Spec

-----------------------------------------------------------------------------
(* The tree Sema builds: what is in the lists of a complete procedure, and *)
(* that its statements fit the declarations they refer to.  The invariant  *)
(* relates the declarations ds to the parser's frames fs; it is stated and *)
(* kept for values of them, so that a step of the parser is a change from  *)
(* ds, fs to es, gs.                                                       *)

Finished(ds, d) == ds[d].kind = "Proc" /\ ds[d].text # "open"
Children(ds, d, kinds) == {e \in 1 .. Len(ds) : ds[e].encl = d /\ ds[e].kind \in kinds}
InHeading(f) == f.at \in {"formals", "params"}

(* The heading of a procedure is complete when its parser is past it.      *)
Headed(ds, fs, d) ==
  /\ d \in 1 .. Len(ds)
  /\ \/ Finished(ds, d)
     \/ \E k \in 2 .. Len(fs) : fs[k].decl = d /\ ~InHeading(fs[k])

HeadingRight(ds, d) ==
  /\ Elements(ds[d].params) = Children(ds, d, {"Param"})
  /\ Ascending(ds[d].params)
  /\ ds[d].ret # Unset

(* A statement of the body of d fits the declarations it refers to.        *)
StatementRight(ds, fs, s, d) ==
  /\ s.kind = "call" =>
       /\ Headed(ds, fs, s.to)
       /\ DOMAIN s.types = DOMAIN ds[s.to].params
       /\ \A i \in DOMAIN s.types : ds[ds[s.to].params[i]].type = s.types[i]
  /\ s.kind = "return" =>
       /\ Headed(ds, fs, d)
       /\ s.types = IF ds[d].ret = Null THEN <<>> ELSE <<ds[d].ret>>
  /\ s.kind = "assign" => s.to \in 1 .. Len(ds) /\ s.types = <<ds[s.to].type>>

FinishedRight(ds, fs, d) ==
  /\ Elements(ds[d].members) = Children(ds, d, {"Var", "Proc"})
  /\ Ascending(ds[d].members)
  /\ \A e \in Elements(ds[d].members) : ds[e].kind = "Proc" => Finished(ds, e)
  /\ \A s \in Elements(ds[d].stmts) : StatementRight(ds, fs, s, d)

(* The lists of a function of the parser: the declarations of its block    *)
(* but the procedure that is being parsed inside it.                       *)
Inner(fs, k) == IF k < Len(fs) THEN {fs[k + 1].decl} ELSE {}
ListsRight(ds, fs, k) ==
  /\ Elements(fs[k].list) \cup Inner(fs, k) = Children(ds, fs[k].decl, {"Var", "Proc"})
  /\ Elements(fs[k].formals) = Children(ds, fs[k].decl, {"Param"})
  /\ Ascending(fs[k].list) /\ Ascending(fs[k].formals)
  /\ \A e \in Elements(fs[k].list) : ds[e].kind = "Proc" => Finished(ds, e)
  /\ \A e \in Elements(fs[k].list), i \in Inner(fs, k) : e < i
PlaceRight(ds, fs, k) ==
  /\ k < Len(fs) => fs[k].at = "block"
  /\ k > 1 => ds[fs[k].decl].kind = "Proc" /\ ds[fs[k].decl].text = "open"
BodyRight(ds, fs, k) ==
  k > 1 => \A s \in Elements(fs[k].stmts) : StatementRight(ds, fs, s, fs[k].decl)

(* The names Sema's constructor enters stand for types and constants.      *)
PervasivesRight(ds) ==
  \A d \in 1 .. 4 : d <= Len(ds) => ds[d].kind \notin {"Var", "Param", "Proc"}

Tree(ds, fs) ==
  /\ PervasivesRight(ds)
  /\ \A d \in 1 .. Len(ds) : Headed(ds, fs, d) => HeadingRight(ds, d)
  /\ \A d \in 1 .. Len(ds) : Finished(ds, d) => FinishedRight(ds, fs, d)
  /\ \A k \in 1 .. Len(fs) : ListsRight(ds, fs, k) /\ PlaceRight(ds, fs, k) /\ BodyRight(ds, fs, k)

TreeInv == ~reported => Tree(decls, frames)

-----------------------------------------------------------------------------
(* Sequences that grow at their end.                                       *)
LEMMA ElementTyped ==
  ASSUME NEW S, NEW s \in Seq(S)
  PROVE  Elements(s) \subseteq S /\ Elements(s) = {s[i] : i \in 1 .. Len(s)}
<1>1. DOMAIN s = 1 .. Len(s) /\ \A i \in 1 .. Len(s) : s[i] \in S
  BY ElementOfSeq, LenProperties
<1>. QED
  BY <1>1 DEF Elements

LEMMA Pushing ==
  ASSUME NEW s \in Seq(Nat), NEW e \in Nat, Ascending(s), \A x \in Elements(s) : x < e
  PROVE  Elements(Append(s, e)) = Elements(s) \cup {e} /\ Ascending(Append(s, e))
<1>. DEFINE t == Append(s, e)
<1>1. /\ Len(s) \in Nat /\ DOMAIN s = 1 .. Len(s) /\ \A i \in 1 .. Len(s) : s[i] \in Nat
  BY ElementOfSeq, LenProperties
<1>2. /\ t \in Seq(Nat) /\ Len(t) = Len(s) + 1 /\ t[Len(s) + 1] = e
      /\ \A i \in 1 .. Len(s) : t[i] = s[i]
  BY AppendProperties
<1>3. DOMAIN t = 1 .. Len(s) + 1
  BY <1>2, LenProperties
<1>. HIDE DEF t
<1>4. \A i \in 1 .. Len(s) + 1 : i \in 1 .. Len(s) \/ i = Len(s) + 1
  BY <1>1
<1>5. Len(s) + 1 \in 1 .. Len(s) + 1 /\ 1 .. Len(s) \subseteq 1 .. Len(s) + 1
  BY <1>1
<1>6. Elements(t) = Elements(s) \cup {e}
  BY <1>1, <1>2, <1>3, <1>4, <1>5 DEF Elements
<1>7. ASSUME NEW i \in DOMAIN t, NEW j \in DOMAIN t, i < j
      PROVE  t[i] < t[j]
  <2>1. i \in 1 .. Len(s)
    BY <1>1, <1>3, <1>7
  <2>2. CASE j \in 1 .. Len(s)
    BY <1>1, <1>2, <1>7, <2>1, <2>2 DEF Ascending
  <2>3. CASE j = Len(s) + 1
    BY <1>1, <1>2, <2>1, <2>3 DEF Elements
  <2>. QED
    BY <1>3, <1>4, <2>2, <2>3
<1>. QED
  BY <1>6, <1>7 DEF Ascending, t

LEMMA Joining ==
  ASSUME NEW S, NEW s \in Seq(S), NEW t \in Seq(S)
  PROVE  Elements(s \o t) \subseteq Elements(s) \cup Elements(t)
<1>1. /\ s \o t \in Seq(S) /\ Len(s \o t) = Len(s) + Len(t)
      /\ \A i \in 1 .. Len(s) + Len(t) :
           (s \o t)[i] = IF i <= Len(s) THEN s[i] ELSE t[i - Len(s)]
  BY ConcatProperties
<1>2. Len(s) \in Nat /\ Len(t) \in Nat
  BY LenProperties
<1>3. ASSUME NEW i \in 1 .. Len(s) + Len(t)
      PROVE  (s \o t)[i] \in Elements(s) \cup Elements(t)
  <2>1. CASE i <= Len(s)
    <3>1. i \in 1 .. Len(s)
      BY <1>2, <2>1
    <3>. QED
      BY <1>1, <2>1, <3>1, ElementTyped
  <2>2. CASE ~(i <= Len(s))
    <3>1. i - Len(s) \in 1 .. Len(t)
      BY <1>2, <2>2
    <3>. QED
      BY <1>1, <2>2, <3>1, ElementTyped
  <2>. QED
    BY <2>1, <2>2
<1>4. Elements(s \o t) = {(s \o t)[i] : i \in 1 .. Len(s) + Len(t)}
  <2>. DEFINE r == s \o t
  <2>1. r \in Seq(S) /\ Len(r) = Len(s) + Len(t)
    BY <1>1
  <2>. HIDE DEF r
  <2>2. Elements(r) = {r[i] : i \in 1 .. Len(r)}
    BY <2>1, ElementTyped
  <2>. QED
    BY <2>1, <2>2 DEF r
<1>. QED
  BY <1>3, <1>4

LEMMA NothingIn ==
  Elements(<<>>) = {} /\ Ascending(<<>>) /\ \A x : Elements(<<x>>) = {x}
<1>1. DOMAIN <<>> = {} /\ \A x : DOMAIN <<x>> = {1} /\ <<x>>[1] = x
  OBVIOUS
<1>. QED
  BY <1>1 DEF Elements, Ascending

-----------------------------------------------------------------------------
(* What AmanSemaProofs' invariant says of ds and fs.                       *)
WellNested(ds, fs) ==
  /\ ds \in Seq(DeclType) /\ fs \in Seq(FrameType)
  /\ \A d \in 1 .. Len(ds) : ds[d].encl \in 0 .. d - 1
  /\ \A k \in 1 .. Len(fs) : fs[k].decl \in 0 .. Len(ds) /\ (fs[k].decl = 0 <=> k = 1)
  /\ \A j, k \in 1 .. Len(fs) : j < k => fs[j].decl < fs[k].decl

LEMMA NestedWell == IInv => WellNested(decls, frames)
BY DEF IInv, DataTyped, Chain, EnclosedBefore, Owners, Ordered, WellNested, Null

LEMMA NestedFacts ==
  ASSUME NEW ds, NEW fs, WellNested(ds, fs)
  PROVE  /\ Len(ds) \in Nat /\ Len(fs) \in Nat
         /\ \A d \in 1 .. Len(ds) : ds[d] \in DeclType
         /\ \A k \in 1 .. Len(fs) : fs[k] \in FrameType
         /\ \A k \in 2 .. Len(fs) : k \in 1 .. Len(fs) /\ fs[k].decl \in 1 .. Len(ds)
         /\ \A j, k \in 1 .. Len(fs) : fs[j].decl = fs[k].decl => j = k
<1>1. Len(ds) \in Nat /\ Len(fs) \in Nat
  BY LenProperties DEF WellNested
<1>2. /\ \A d \in 1 .. Len(ds) : ds[d] \in DeclType
      /\ \A k \in 1 .. Len(fs) : fs[k] \in FrameType
  BY ElementOfSeq DEF WellNested
<1>3. ASSUME NEW k \in 2 .. Len(fs)
      PROVE  k \in 1 .. Len(fs) /\ fs[k].decl \in 1 .. Len(ds)
  <2>1. k \in 1 .. Len(fs) /\ k # 1
    BY <1>1
  <2>2. fs[k].decl \in 0 .. Len(ds) /\ fs[k].decl # 0
    BY <2>1 DEF WellNested
  <2>. QED
    BY <1>1, <2>1, <2>2
<1>4. ASSUME NEW j \in 1 .. Len(fs), NEW k \in 1 .. Len(fs), fs[j].decl = fs[k].decl
      PROVE  j = k
  <2>1. fs[j].decl \in Nat /\ (j < k => fs[j].decl < fs[k].decl) /\ (k < j => fs[k].decl < fs[j].decl)
    BY <1>1 DEF WellNested
  <2>. QED
    BY <1>1, <1>4, <2>1
<1>. QED
  BY <1>1, <1>2, <1>3, <1>4

(* What every step does: declarations keep what they are, those of a       *)
(* finished procedure or a complete heading are not changed any more.      *)
Preserves(ds, fs, es, gs) ==
  /\ Len(ds) <= Len(es)
  /\ \A d \in 1 .. Len(ds) : /\ es[d].kind = ds[d].kind
                             /\ es[d].type = ds[d].type
                             /\ es[d].encl = ds[d].encl
  /\ \A d \in 1 .. Len(ds) : Finished(ds, d) =>
       /\ es[d] = ds[d]
       /\ Children(es, d, {"Var", "Proc"}) = Children(ds, d, {"Var", "Proc"})
  /\ \A d \in 1 .. Len(ds) : Headed(ds, fs, d) =>
       /\ Headed(es, gs, d)
       /\ es[d].params = ds[d].params /\ es[d].ret = ds[d].ret
       /\ Children(es, d, {"Param"}) = Children(ds, d, {"Param"})

LEMMA StatementsStay ==
  ASSUME NEW ds, NEW fs, NEW es, NEW gs, WellNested(ds, fs), WellNested(es, gs),
         Tree(ds, fs), Preserves(ds, fs, es, gs),
         NEW s, NEW d, StatementRight(ds, fs, s, d)
  PROVE  StatementRight(es, gs, s, d)
<1>1. Len(ds) \in Nat /\ Len(es) \in Nat /\ Len(ds) <= Len(es)
  BY NestedFacts DEF Preserves
<1>2. \A c : Headed(ds, fs, c) => /\ c \in 1 .. Len(ds) /\ Headed(es, gs, c)
                                  /\ es[c].params = ds[c].params /\ es[c].ret = ds[c].ret
                                  /\ HeadingRight(ds, c)
  BY DEF Headed, Preserves, Tree
<1>3. ASSUME s.kind = "call"
      PROVE  /\ Headed(es, gs, s.to)
             /\ DOMAIN s.types = DOMAIN es[s.to].params
             /\ \A i \in DOMAIN s.types : es[es[s.to].params[i]].type = s.types[i]
  <2>1. /\ Headed(ds, fs, s.to) /\ DOMAIN s.types = DOMAIN ds[s.to].params
        /\ \A i \in DOMAIN s.types : ds[ds[s.to].params[i]].type = s.types[i]
    BY <1>3 DEF StatementRight
  <2>2. /\ Headed(es, gs, s.to) /\ es[s.to].params = ds[s.to].params
        /\ Elements(ds[s.to].params) = Children(ds, s.to, {"Param"})
    BY <1>2, <2>1 DEF HeadingRight
  <2>3. \A i \in DOMAIN s.types : ds[s.to].params[i] \in 1 .. Len(ds)
    BY <2>1, <2>2 DEF Elements, Children
  <2>4. \A e \in 1 .. Len(ds) : es[e].type = ds[e].type
    BY DEF Preserves
  <2>. QED
    BY <2>1, <2>2, <2>3, <2>4
<1>4. s.kind = "return" => /\ Headed(es, gs, d)
                           /\ s.types = IF es[d].ret = Null THEN <<>> ELSE <<es[d].ret>>
  BY <1>2 DEF StatementRight
<1>5. s.kind = "assign" => s.to \in 1 .. Len(es) /\ s.types = <<es[s.to].type>>
  <2>. SUFFICES ASSUME s.kind = "assign"
                PROVE  s.to \in 1 .. Len(es) /\ s.types = <<es[s.to].type>>
    OBVIOUS
  <2>1. s.to \in 1 .. Len(ds) /\ s.types = <<ds[s.to].type>>
    BY DEF StatementRight
  <2>2. es[s.to].type = ds[s.to].type
    BY <2>1 DEF Preserves
  <2>. QED
    BY <1>1, <2>1, <2>2
<1>. QED
  BY <1>3, <1>4, <1>5 DEF StatementRight

LEMMA TreeStays ==
  ASSUME NEW ds, NEW fs, NEW es, NEW gs, WellNested(ds, fs), WellNested(es, gs),
         Tree(ds, fs), Preserves(ds, fs, es, gs)
  PROVE  /\ \A d \in 1 .. Len(ds) : Headed(ds, fs, d) => HeadingRight(es, d)
         /\ \A d \in 1 .. Len(ds) : Finished(ds, d) => Finished(es, d) /\ FinishedRight(es, gs, d)
<1>1. ASSUME NEW d \in 1 .. Len(ds), Headed(ds, fs, d)
      PROVE  HeadingRight(es, d)
  BY <1>1 DEF Preserves, Tree, HeadingRight
<1>2. ASSUME NEW d \in 1 .. Len(ds), Finished(ds, d)
      PROVE  Finished(es, d)
  BY <1>2 DEF Preserves, Finished
<1>3. ASSUME NEW d \in 1 .. Len(ds), Finished(ds, d)
      PROVE  FinishedRight(es, gs, d)
  <2>1. /\ es[d] = ds[d] /\ FinishedRight(ds, fs, d)
        /\ Children(es, d, {"Var", "Proc"}) = Children(ds, d, {"Var", "Proc"})
    BY <1>3 DEF Preserves, Tree
  <2>2. \A e \in Elements(ds[d].members) : e \in 1 .. Len(ds)
    BY <2>1 DEF FinishedRight, Children
  <2>3. \A e \in 1 .. Len(ds) : es[e].kind = ds[e].kind
    BY DEF Preserves
  <2>4. \A e \in Elements(es[d].members) : es[e].kind = "Proc" => Finished(es, e)
    BY <1>2, <2>1, <2>2, <2>3 DEF FinishedRight
  <2>5. \A s \in Elements(es[d].stmts) : StatementRight(es, gs, s, d)
    BY <2>1, StatementsStay DEF FinishedRight
  <2>. QED
    BY <2>1, <2>4, <2>5 DEF FinishedRight
<1>. QED
  BY <1>1, <1>2, <1>3

(* A frame whose lists and block do not change.                            *)
LEMMA ListsStay ==
  ASSUME NEW ds, NEW fs, NEW es, NEW gs, WellNested(ds, fs), WellNested(es, gs),
         Tree(ds, fs), Preserves(ds, fs, es, gs), NEW k \in 1 .. Len(fs),
         gs[k].decl = fs[k].decl, gs[k].list = fs[k].list, gs[k].formals = fs[k].formals,
         Inner(gs, k) = Inner(fs, k),
         \A kinds : Children(es, fs[k].decl, kinds) = Children(ds, fs[k].decl, kinds)
  PROVE  ListsRight(es, gs, k)
<1>1. ListsRight(ds, fs, k)
  BY DEF Tree
<1>2. \A e \in Elements(fs[k].list) : e \in 1 .. Len(ds)
  BY <1>1 DEF ListsRight, Children
<1>3. \A e \in 1 .. Len(ds) : es[e].kind = ds[e].kind /\ (Finished(ds, e) => Finished(es, e))
  BY TreeStays DEF Preserves
<1>4. \A e \in Elements(gs[k].list) : es[e].kind = "Proc" => Finished(es, e)
  BY <1>1, <1>2, <1>3 DEF ListsRight
<1>. QED
  BY <1>1, <1>4 DEF ListsRight

LEMMA BodyStays ==
  ASSUME NEW ds, NEW fs, NEW es, NEW gs, WellNested(ds, fs), WellNested(es, gs),
         Tree(ds, fs), Preserves(ds, fs, es, gs), NEW k \in 1 .. Len(fs),
         gs[k].decl = fs[k].decl,
         \A s \in Elements(gs[k].stmts) :
           s \in Elements(fs[k].stmts) \/ StatementRight(ds, fs, s, fs[k].decl)
  PROVE  BodyRight(es, gs, k)
<1>. SUFFICES ASSUME k > 1, NEW s \in Elements(gs[k].stmts)
              PROVE  StatementRight(es, gs, s, fs[k].decl)
  BY DEF BodyRight
<1>1. StatementRight(ds, fs, s, fs[k].decl)
  BY DEF Tree, BodyRight
<1>. QED
  BY <1>1, StatementsStay

-----------------------------------------------------------------------------
(* The children of a declaration after a step.                             *)
LEMMA ChildrenSame ==
  ASSUME NEW ds, NEW es, Len(es) = Len(ds),
         \A d \in 1 .. Len(ds) : es[d].kind = ds[d].kind /\ es[d].encl = ds[d].encl
  PROVE  \A d, kinds : Children(es, d, kinds) = Children(ds, d, kinds)
BY DEF Children

Added(n, x, d, kinds) == IF x.encl = d /\ x.kind \in kinds THEN {n} ELSE {}

LEMMA ChildrenAdded ==
  ASSUME NEW ds \in Seq(DeclType), NEW x \in DeclType
  PROVE  \A d, kinds : Children(Append(ds, x), d, kinds) =
                         Children(ds, d, kinds) \cup Added(Len(ds) + 1, x, d, kinds)
<1>. DEFINE es == Append(ds, x)
<1>1. /\ Len(ds) \in Nat /\ Len(es) = Len(ds) + 1 /\ es[Len(ds) + 1] = x
      /\ \A d \in 1 .. Len(ds) : es[d] = ds[d]
  BY AppendProperties, LenProperties
<1>2. 1 .. Len(es) = 1 .. Len(ds) \cup {Len(ds) + 1}
  BY <1>1
<1>. HIDE DEF es
<1>. QED
  BY <1>1, <1>2 DEF Children, Added, es

-----------------------------------------------------------------------------
(* The innermost function of the parser.                                   *)
LEMMA TopFacts ==
  ASSUME IInv, pc = "parsing"
  PROVE  /\ Len(frames) \in 1 .. Len(frames) /\ Top = frames[Len(frames)]
         /\ Top \in FrameType /\ curDecl = Top.decl
         /\ Inner(frames, Len(frames)) = {}
         /\ WellNested(decls, frames)
         /\ \A k \in 1 .. Len(frames) : k # Len(frames) =>
              k < Len(frames) /\ frames[k].decl < Top.decl
         /\ \A k \in 1 .. Len(frames) : k > 1 => k \in 2 .. Len(frames)
<1>1. Len(frames) \in Nat \ {0} /\ Top \in FrameType /\ curDecl = Top.decl
  BY AtFacts
<1>2. WellNested(decls, frames) /\ Top = frames[Len(frames)]
  BY NestedWell DEF Top
<1>3. Len(frames) \in 1 .. Len(frames) /\ ~(Len(frames) < Len(frames))
  BY <1>1
<1>4. ASSUME NEW k \in 1 .. Len(frames), k # Len(frames)
      PROVE  k < Len(frames) /\ frames[k].decl < Top.decl
  <2>1. k < Len(frames)
    BY <1>1, <1>4
  <2>. QED
    BY <1>2, <1>3, <2>1 DEF WellNested
<1>5. \A k \in 1 .. Len(frames) : k > 1 => k \in 2 .. Len(frames)
  BY <1>1
<1>. QED
  BY <1>1, <1>2, <1>3, <1>4, <1>5 DEF Inner

(* A step that moves the innermost function on in the text: it declares    *)
(* nothing and changes no declaration.                                     *)
Moves(f) ==
  /\ pc = "parsing" /\ UNCHANGED decls
  /\ f \in FrameType /\ SetTop(f)
  /\ f.decl = Top.decl /\ f.list = Top.list /\ f.formals = Top.formals
  /\ InHeading(f) <=> InHeading(Top)
  /\ \A s \in Elements(f.stmts) :
       s \in Elements(Top.stmts) \/ StatementRight(decls, frames, s, Top.decl)

LEMMA MoveKeeps ==
  ASSUME IInv, IInv', Tree(decls, frames), NEW f, Moves(f)
  PROVE  Tree(decls, frames')
<1>. DEFINE m == Len(frames)
            gs == frames'
<1>1. /\ m \in 1 .. m /\ Top = frames[m] /\ WellNested(decls, frames)
      /\ \A k \in 1 .. m : k # m => k < m
  BY TopFacts DEF Moves
<1>2. /\ Len(gs) = m
      /\ \A k \in 1 .. m : gs[k] = IF k = m THEN f ELSE frames[k]
  <2>1. DataTyped /\ frames # <<>>
    BY AtFacts DEF Moves
  <2>. QED
    BY <2>1, SetTopTyped DEF Moves
<1>3. WellNested(decls, gs)
  <2>1. WellNested(decls, frames)'
    BY NestedWell, PTL
  <2>. QED
    BY <2>1 DEF Moves
<1>4. f.decl = Top.decl /\ f.list = Top.list /\ f.formals = Top.formals /\ (InHeading(f) <=> InHeading(Top))
  BY DEF Moves
<1>5. \A k \in 1 .. m : /\ gs[k].decl = frames[k].decl
                        /\ gs[k].list = frames[k].list
                        /\ gs[k].formals = frames[k].formals
                        /\ InHeading(gs[k]) <=> InHeading(frames[k])
                        /\ k # m => gs[k] = frames[k]
  BY <1>1, <1>2, <1>4
<1>6. \A k \in 1 .. m : Inner(gs, k) = Inner(frames, k)
  <2>. SUFFICES ASSUME NEW k \in 1 .. m
                PROVE  Inner(gs, k) = Inner(frames, k)
    OBVIOUS
  <2>1. k < m => k + 1 \in 1 .. m
    BY <1>1
  <2>. QED
    BY <1>2, <1>5, <2>1 DEF Inner
<1>7. \A d : Headed(decls, gs, d) <=> Headed(decls, frames, d)
  <2>1. 2 .. m \subseteq 1 .. m
    BY <1>1
  <2>. QED
    BY <1>2, <1>5, <2>1 DEF Headed
<1>. HIDE DEF m, gs
<1>8. Preserves(decls, frames, decls, gs)
  <2>1. Len(decls) \in Nat
    BY <1>1, NestedFacts
  <2>. QED
    BY <1>7, <2>1 DEF Preserves
<1>9. \A d \in 1 .. Len(decls) : Headed(decls, gs, d) => HeadingRight(decls, d)
  BY <1>7 DEF Tree
<1>10. \A d \in 1 .. Len(decls) : Finished(decls, d) => FinishedRight(decls, gs, d)
  BY <1>1, <1>3, <1>8, TreeStays
<1>11. ASSUME NEW k \in 1 .. m
       PROVE  ListsRight(decls, gs, k) /\ PlaceRight(decls, gs, k) /\ BodyRight(decls, gs, k)
  <2>0. k \in 1 .. Len(frames)
    BY DEF m
  <2>1. ListsRight(decls, gs, k)
    BY <1>1, <1>3, <1>5, <1>6, <1>8, <2>0, ListsStay
  <2>2. PlaceRight(decls, gs, k)
    <3>1. PlaceRight(decls, frames, k)
      BY <2>0 DEF Tree
    <3>2. k < m => gs[k] = frames[k]
      BY <1>1, <1>5
    <3>. QED
      BY <1>2, <1>5, <3>1, <3>2 DEF PlaceRight, m
  <2>3. \A s \in Elements(gs[k].stmts) :
          s \in Elements(frames[k].stmts) \/ StatementRight(decls, frames, s, frames[k].decl)
    <3>1. CASE k = m
      BY <1>1, <1>2, <3>1 DEF Moves
    <3>2. CASE k # m
      BY <1>5, <3>2
    <3>. QED
      BY <3>1, <3>2
  <2>4. BodyRight(decls, gs, k)
    BY <1>1, <1>3, <1>5, <1>8, <2>0, <2>3, BodyStays
  <2>. QED
    BY <2>1, <2>2, <2>4
<1>. QED
  BY <1>2, <1>9, <1>10, <1>11 DEF Tree, gs

(* The end of a heading.                                                   *)
LEMMA HeadingKeeps ==
  ASSUME IInv, IInv', Tree(decls, frames), At("formals"),
         NEW ret \in Nat, SetHeading(ret), SetTop([Top EXCEPT !.at = "block"])
  PROVE  Tree(decls', frames')
<1>. DEFINE m == Len(frames)
            D == Top.decl
            es == decls'
            gs == frames'
            f == [Top EXCEPT !.at = "block"]
<1>0. m \in Nat \ {0}
  BY AtFacts DEF At
<1>1. /\ m \in 1 .. m /\ Top = frames[m] /\ Top \in FrameType /\ WellNested(decls, frames)
      /\ \A k \in 1 .. m : k # m => k < m /\ frames[k].decl < D
      /\ \A k \in 1 .. m : k > 1 => k \in 2 .. m
      /\ InHeading(Top)
  BY TopFacts DEF At, InHeading
<1>2. WellNested(es, gs)
  <2>1. WellNested(decls, frames)'
    BY NestedWell, PTL
  <2>. QED
    BY <2>1
<1>3. f \in FrameType /\ f.decl = D /\ f.list = Top.list /\ f.formals = Top.formals /\ f.stmts = Top.stmts
  BY <1>1 DEF FrameType, Places
<1>4. /\ Len(gs) = m
      /\ \A k \in 1 .. m : gs[k] = IF k = m THEN f ELSE frames[k]
  <2>1. DataTyped /\ frames # <<>>
    BY AtFacts DEF At
  <2>. HIDE DEF f
  <2>. QED
    BY <1>3, <2>1, SetTopTyped DEF f
<1>5. ~InHeading(f)
  BY <1>1 DEF InHeading, FrameType
<1>. HIDE DEF f
<1>6. \A k \in 1 .. m : /\ gs[k].decl = frames[k].decl
                        /\ gs[k].list = frames[k].list
                        /\ gs[k].formals = frames[k].formals
                        /\ gs[k].stmts = frames[k].stmts
                        /\ k # m => gs[k] = frames[k]
  BY <1>1, <1>3, <1>4
<1>7. \A k \in 1 .. m : Inner(gs, k) = Inner(frames, k)
  <2>. SUFFICES ASSUME NEW k \in 1 .. m
                PROVE  Inner(gs, k) = Inner(frames, k)
    OBVIOUS
  <2>1. k < m => k + 1 \in 1 .. m
    BY <1>1
  <2>. QED
    BY <1>4, <1>6, <2>1 DEF Inner
<1>8. /\ Len(decls) \in Nat /\ \A d \in 1 .. Len(decls) : decls[d] \in DeclType
      /\ Len(es) = Len(decls)
  <2>1. DeclsKept
    BY HeadingTyped
  <2>. QED
    BY <1>1, <2>1, NestedFacts DEF DeclsKept
<1>9. /\ \A d \in 1 .. Len(decls) : d # D => es[d] = decls[d]
      /\ D \in 1 .. Len(decls) => es[D] = [decls[D] EXCEPT !.params = Top.formals, !.ret = ret]
  <2>1. DOMAIN decls = 1 .. Len(decls)
    BY <1>1, LenProperties DEF WellNested
  <2>. QED
    BY <2>1 DEF SetHeading
<1>10. /\ \A d \in 1 .. Len(decls) : /\ es[d].kind = decls[d].kind /\ es[d].text = decls[d].text
                                     /\ es[d].type = decls[d].type /\ es[d].encl = decls[d].encl
                                     /\ es[d].members = decls[d].members
       /\ D \in 1 .. Len(decls) => es[D].params = Top.formals /\ es[D].ret = ret
  <2>. HIDE DEF D, es
  <2>2. D \in 1 .. Len(decls) =>
          /\ es[D].kind = decls[D].kind /\ es[D].text = decls[D].text
          /\ es[D].type = decls[D].type /\ es[D].encl = decls[D].encl
          /\ es[D].members = decls[D].members /\ es[D].params = Top.formals /\ es[D].ret = ret
    <3>. SUFFICES ASSUME D \in 1 .. Len(decls)
                  PROVE  /\ es[D].kind = decls[D].kind /\ es[D].text = decls[D].text
                         /\ es[D].type = decls[D].type /\ es[D].encl = decls[D].encl
                         /\ es[D].members = decls[D].members
                         /\ es[D].params = Top.formals /\ es[D].ret = ret
      OBVIOUS
    <3>1. decls[D] \in DeclType /\ es[D] = [decls[D] EXCEPT !.params = Top.formals, !.ret = ret]
      BY <1>8, <1>9
    <3>. QED
      BY <3>1 DEF DeclType
  <2>. QED
    BY <1>9, <2>2
<1>11. \A d, kinds : Children(es, d, kinds) = Children(decls, d, kinds)
  BY <1>8, <1>10, ChildrenSame
<1>12. \A d \in 1 .. Len(decls) : Finished(es, d) <=> Finished(decls, d)
  BY <1>10 DEF Finished
<1>13. D \in 1 .. Len(decls) => m \in 2 .. m /\ ~Finished(decls, D)
  <2>. SUFFICES ASSUME D \in 1 .. Len(decls)
                PROVE  m \in 2 .. m /\ ~Finished(decls, D)
    OBVIOUS
  <2>1. m # 1
    BY <1>1, <1>8 DEF WellNested
  <2>2. m > 1 /\ m \in 2 .. m
    <3>. HIDE DEF m
    <3>. QED
      BY <1>0, <2>1
  <2>3. decls[D].text = "open"
    BY <1>1, <2>2 DEF Tree, PlaceRight
  <2>. QED
    BY <1>1, <2>2, <2>3 DEF Finished
<1>14. \A d : Headed(decls, frames, d) => d # D
  <2>. SUFFICES ASSUME Headed(decls, frames, D)
                PROVE  FALSE
    OBVIOUS
  <2>1. PICK k \in 2 .. m : frames[k].decl = D /\ ~InHeading(frames[k])
    BY <1>13 DEF Headed
  <2>2. k \in 1 .. m /\ D \in Nat
    BY <1>1, <2>1, NestedFacts DEF FrameType
  <2>. QED
    BY <1>1, <2>1, <2>2
<1>15. \A d : Headed(es, gs, d) <=> Headed(decls, frames, d) \/ (d = D /\ D \in 1 .. Len(decls))
  <2>1. 2 .. m \subseteq 1 .. m
    BY <1>1
  <2>2. ASSUME NEW d, Headed(es, gs, d), d # D
        PROVE  Headed(decls, frames, d)
    BY <1>1, <1>4, <1>6, <1>8, <1>12, <2>1, <2>2 DEF Headed
  <2>3. ASSUME NEW d, Headed(decls, frames, d)
        PROVE  Headed(es, gs, d)
    BY <1>1, <1>4, <1>6, <1>8, <1>12, <1>14, <2>1, <2>3 DEF Headed
  <2>4. D \in 1 .. Len(decls) => Headed(es, gs, D)
    BY <1>1, <1>3, <1>4, <1>5, <1>8, <1>13 DEF Headed
  <2>5. \A d : Headed(es, gs, d) => d \in 1 .. Len(decls)
    BY <1>8 DEF Headed
  <2>. QED
    BY <2>2, <2>3, <2>4, <2>5
<1>. HIDE DEF m, gs, es, D
<1>16. Preserves(decls, frames, es, gs)
  <2>1. \A d \in 1 .. Len(decls) : Finished(decls, d) => es[d] = decls[d]
    BY <1>9, <1>13
  <2>2. \A d \in 1 .. Len(decls) : Headed(decls, frames, d) => es[d] = decls[d] /\ Headed(es, gs, d)
    BY <1>9, <1>14, <1>15
  <2>. QED
    BY <1>8, <1>10, <1>11, <2>1, <2>2 DEF Preserves
<1>17. ASSUME NEW d \in 1 .. Len(es), Headed(es, gs, d)
       PROVE  HeadingRight(es, d)
  <2>1. CASE Headed(decls, frames, d)
    BY <1>1, <1>2, <1>8, <1>16, <2>1, TreeStays
  <2>2. CASE d = D /\ D \in 1 .. Len(decls)
    <3>1. ListsRight(decls, frames, m)
      BY <1>1 DEF Tree, m
    <3>2. Elements(Top.formals) = Children(decls, D, {"Param"}) /\ Ascending(Top.formals)
      BY <1>1, <3>1 DEF ListsRight, D
    <3>. QED
      BY <1>10, <1>11, <2>2, <3>2 DEF HeadingRight, Unset
  <2>. QED
    BY <1>15, <1>17, <2>1, <2>2
<1>18. \A d \in 1 .. Len(es) : Finished(es, d) => FinishedRight(es, gs, d)
  BY <1>1, <1>2, <1>8, <1>12, <1>16, TreeStays
<1>19. ASSUME NEW k \in 1 .. m
       PROVE  ListsRight(es, gs, k) /\ PlaceRight(es, gs, k) /\ BodyRight(es, gs, k)
  <2>0. k \in 1 .. Len(frames) /\ PlaceRight(decls, frames, k)
    BY DEF m, Tree
  <2>1. ListsRight(es, gs, k)
    BY <1>1, <1>2, <1>6, <1>7, <1>11, <1>16, <2>0, ListsStay
  <2>2. PlaceRight(es, gs, k)
    <3>1. k < m => gs[k] = frames[k]
      BY <1>1, <1>6
    <3>2. k > 1 => frames[k].decl \in 1 .. Len(decls)
      BY <1>1, NestedFacts DEF m
    <3>. QED
      BY <1>4, <1>6, <1>10, <2>0, <3>1, <3>2 DEF PlaceRight, m
  <2>3. BodyRight(es, gs, k)
    BY <1>1, <1>2, <1>6, <1>16, <2>0, BodyStays
  <2>. QED
    BY <2>1, <2>2, <2>3
<1>20. PervasivesRight(es)
  <2>1. \A d \in 1 .. 4 : d <= Len(decls) => d \in 1 .. Len(decls)
    BY <1>8
  <2>. QED
    BY <1>8, <1>10, <2>1 DEF Tree, PervasivesRight
<1>. QED
  BY <1>4, <1>17, <1>18, <1>19, <1>20 DEF Tree, gs, es

-----------------------------------------------------------------------------
(* A step that adds the declaration x to the block of the innermost        *)
(* function.                                                               *)
Grows(x) ==
  /\ pc = "parsing"
  /\ x \in DeclType /\ x.encl = Top.decl /\ x.text = "open"
  /\ x.kind = "Param" => InHeading(Top)
  /\ decls' = Append(decls, x)
  /\ Len(frames) <= Len(frames') /\ Len(frames') \in Nat
  /\ \A k \in 1 .. Len(frames) : /\ frames'[k].decl = frames[k].decl
                                 /\ frames'[k].stmts = frames[k].stmts
                                 /\ InHeading(frames'[k]) <=> InHeading(frames[k])
  /\ \A k \in 1 .. Len(frames') : k > Len(frames) => InHeading(frames'[k])

LEMMA GrowFacts ==
  ASSUME IInv, IInv', Tree(decls, frames), NEW x, Grows(x)
  PROVE  /\ Preserves(decls, frames, decls', frames')
         /\ WellNested(decls, frames) /\ WellNested(decls', frames')
         /\ Len(decls) \in Nat /\ Len(decls') = Len(decls) + 1 /\ decls'[Len(decls) + 1] = x
         /\ \A d \in 1 .. Len(decls) : decls'[d] = decls[d]
         /\ \A d, kinds : Children(decls', d, kinds) =
              Children(decls, d, kinds) \cup Added(Len(decls) + 1, x, d, kinds)
         /\ \A d \in 1 .. Len(decls') : Headed(decls', frames', d) => HeadingRight(decls', d)
         /\ \A d \in 1 .. Len(decls') : Finished(decls', d) => FinishedRight(decls', frames', d)
         /\ PervasivesRight(decls')
<1>. DEFINE m == Len(frames)
            P == Len(decls) + 1
            es == decls'
            gs == frames'
<1>1. /\ m \in Nat \ {0} /\ m \in 1 .. m /\ Top = frames[m] /\ WellNested(decls, frames)
      /\ \A k \in 1 .. m : k > 1 => k \in 2 .. m
  BY TopFacts, AtFacts DEF Grows
<1>2. WellNested(es, gs)
  <2>1. WellNested(decls, frames)'
    BY NestedWell, PTL
  <2>. QED
    BY <2>1
<1>3. /\ Len(decls) \in Nat /\ \A d \in 1 .. Len(decls) : decls[d] \in DeclType
      /\ decls \in Seq(DeclType)
      /\ \A k \in 1 .. m : frames[k].decl \in 0 .. Len(decls)
      /\ \A k \in 2 .. m : k \in 1 .. m
  BY <1>1, NestedFacts DEF WellNested
<1>4. /\ x \in DeclType /\ x.encl = Top.decl /\ x.text = "open" /\ es = Append(decls, x)
      /\ x.kind = "Param" => InHeading(Top)
  BY DEF Grows
<1>5. /\ Len(es) = P /\ es[P] = x
      /\ \A d \in 1 .. Len(decls) : es[d] = decls[d]
  BY <1>3, <1>4, AppendProperties
<1>6. \A d, kinds : Children(es, d, kinds) =
        Children(decls, d, kinds) \cup Added(P, x, d, kinds)
  <2>. HIDE DEF es
  <2>. QED
    BY <1>3, <1>4, ChildrenAdded
<1>7. \A d \in 1 .. P : d \in 1 .. Len(decls) \/ d = P
  BY <1>3
<1>8. 1 .. Len(decls) \subseteq 1 .. P /\ P \notin 0 .. Len(decls)
  BY <1>3
<1>9. m <= Len(gs) /\ Len(gs) \in Nat
  BY DEF Grows
<1>10. \A k \in 2 .. Len(gs) : k \in 2 .. m \/ (k > m /\ k \in 1 .. Len(gs))
  BY <1>1, <1>9
<1>11. /\ \A k \in 1 .. m : gs[k].decl = frames[k].decl /\ (InHeading(gs[k]) <=> InHeading(frames[k]))
       /\ \A k \in 1 .. Len(gs) : k > m => InHeading(gs[k])
  BY DEF Grows
<1>. HIDE DEF m, P, es, gs
<1>12. \A d \in 1 .. P : Finished(es, d) <=> d \in 1 .. Len(decls) /\ Finished(decls, d)
  <2>1. ~Finished(es, P)
    BY <1>4, <1>5 DEF Finished
  <2>2. \A d \in 1 .. Len(decls) : Finished(es, d) <=> Finished(decls, d)
    BY <1>5 DEF Finished
  <2>. QED
    BY <1>7, <1>8, <2>1, <2>2
<1>13. \A d : Headed(es, gs, d) <=> Headed(decls, frames, d)
  <2>1. ASSUME NEW d, Headed(es, gs, d)
        PROVE  Headed(decls, frames, d)
    <3>1. CASE Finished(es, d)
      BY <1>5, <1>12, <2>1, <3>1 DEF Headed
    <3>2. CASE \E k \in 2 .. Len(gs) : gs[k].decl = d /\ ~InHeading(gs[k])
      <4>1. PICK k \in 2 .. m : frames[k].decl = d /\ ~InHeading(frames[k])
        BY <1>3, <1>10, <1>11, <3>2
      <4>2. d \in 1 .. Len(decls)
        BY <1>1, <4>1, NestedFacts DEF m
      <4>. QED
        BY <4>1, <4>2 DEF Headed, m
    <3>. QED
      BY <2>1, <3>1, <3>2 DEF Headed
  <2>2. ASSUME NEW d, Headed(decls, frames, d)
        PROVE  Headed(es, gs, d)
    <3>0. d \in 1 .. Len(decls) /\ d \in 1 .. P
      BY <1>8, <2>2 DEF Headed
    <3>1. CASE Finished(decls, d)
      BY <1>5, <1>12, <3>0, <3>1 DEF Headed
    <3>2. CASE \E k \in 2 .. m : frames[k].decl = d /\ ~InHeading(frames[k])
      <4>1. PICK k \in 2 .. m : gs[k].decl = d /\ ~InHeading(gs[k])
        BY <1>3, <1>11, <3>2
      <4>2. k \in 2 .. Len(gs)
        BY <1>1, <1>9
      <4>. QED
        BY <1>5, <3>0, <4>1, <4>2 DEF Headed
    <3>. QED
      BY <2>2, <3>1, <3>2 DEF Headed, m
  <2>. QED
    BY <2>1, <2>2
<1>14. \A d \in 1 .. Len(decls) : Finished(decls, d) => d # Top.decl
  <2>. SUFFICES ASSUME Top.decl \in 1 .. Len(decls)
                PROVE  ~Finished(decls, Top.decl)
    OBVIOUS
  <2>1. m # 1
    BY <1>1, <1>3 DEF WellNested, m
  <2>2. m > 1
    BY <1>1, <2>1
  <2>3. decls[Top.decl].text = "open"
    BY <1>1, <2>2 DEF Tree, PlaceRight, m
  <2>. QED
    BY <2>3 DEF Finished
<1>15. \A d : Headed(decls, frames, d) => x.kind # "Param" \/ d # Top.decl
  <2>. SUFFICES ASSUME Headed(decls, frames, Top.decl), InHeading(Top)
                PROVE  FALSE
    BY <1>4
  <2>1. PICK k \in 2 .. m : frames[k].decl = Top.decl /\ ~InHeading(frames[k])
    BY <1>14 DEF Headed, m
  <2>2. k = m
    BY <1>1, <1>3, <2>1, NestedFacts DEF m
  <2>. QED
    BY <1>1, <2>1, <2>2
<1>16. Preserves(decls, frames, es, gs)
  <2>1. Len(decls) <= Len(es)
    BY <1>3, <1>5 DEF P
  <2>2. ASSUME NEW d \in 1 .. Len(decls), Finished(decls, d)
        PROVE  Children(es, d, {"Var", "Proc"}) = Children(decls, d, {"Var", "Proc"})
    <3>. DEFINE kinds == {"Var", "Proc"}
    <3>1. Added(P, x, d, kinds) = {}
      BY <1>4, <1>14, <2>2 DEF Added
    <3>. HIDE DEF kinds
    <3>2. Children(es, d, kinds) = Children(decls, d, kinds) \cup Added(P, x, d, kinds)
      BY <1>6
    <3>3. Children(es, d, kinds) = Children(decls, d, kinds)
      BY <3>1, <3>2
    <3>. QED
      BY <3>3 DEF kinds
  <2>3. ASSUME NEW d \in 1 .. Len(decls), Headed(decls, frames, d)
        PROVE  Children(es, d, {"Param"}) = Children(decls, d, {"Param"})
    <3>. DEFINE kinds == {"Param"}
    <3>1. Added(P, x, d, kinds) = {}
      BY <1>4, <1>15, <2>3 DEF Added
    <3>. HIDE DEF kinds
    <3>2. Children(es, d, kinds) = Children(decls, d, kinds) \cup Added(P, x, d, kinds)
      BY <1>6
    <3>3. Children(es, d, kinds) = Children(decls, d, kinds)
      BY <3>1, <3>2
    <3>. QED
      BY <3>3 DEF kinds
  <2>. QED
    BY <1>5, <1>13, <2>1, <2>2, <2>3 DEF Preserves
<1>17. \A d \in 1 .. P : Headed(es, gs, d) => HeadingRight(es, d)
  <2>1. \A d : Headed(decls, frames, d) => d \in 1 .. Len(decls)
    BY DEF Headed
  <2>. QED
    BY <1>1, <1>2, <1>13, <1>16, <2>1, TreeStays
<1>18. \A d \in 1 .. P : Finished(es, d) => FinishedRight(es, gs, d)
  BY <1>1, <1>2, <1>12, <1>16, TreeStays
<1>19. PervasivesRight(es)
  <2>1. Len(decls) >= 4
    BY AtFacts DEF Grows
  <2>2. \A d \in 1 .. 4 : d \in 1 .. Len(decls) /\ d <= Len(decls)
    BY <1>3, <2>1
  <2>. QED
    BY <1>5, <2>2 DEF Tree, PervasivesRight
<1>. QED
  BY <1>1, <1>2, <1>3, <1>5, <1>6, <1>16, <1>17, <1>18, <1>19 DEF es, gs, P

(* The functions around the one that declares something do not notice.     *)
LEMMA AroundKept ==
  ASSUME IInv, IInv', Tree(decls, frames), NEW x, Grows(x),
         NEW k \in 1 .. Len(frames), k # Len(frames), frames'[k] = frames[k]
  PROVE  /\ ListsRight(decls', frames', k) /\ PlaceRight(decls', frames', k)
         /\ BodyRight(decls', frames', k)
<1>. DEFINE m == Len(frames)
            es == decls'
            gs == frames'
<1>1. /\ m \in Nat /\ k < m /\ k + 1 \in 1 .. m /\ k \in 1 .. m
      /\ frames[k].decl \in Nat /\ frames[k].decl # Top.decl
  <2>1. k < m /\ frames[k].decl < Top.decl /\ frames[k] \in FrameType /\ m \in Nat
    BY TopFacts, NestedFacts DEF Grows
  <2>2. frames[k].decl \in Nat /\ frames[k].decl # Top.decl
    BY <2>1, TopFacts DEF Grows, FrameType
  <2>. QED
    BY <2>1, <2>2
<1>2. /\ Preserves(decls, frames, es, gs) /\ WellNested(decls, frames) /\ WellNested(es, gs)
      /\ \A d \in 1 .. Len(decls) : es[d] = decls[d]
      /\ \A d, kinds : Children(es, d, kinds) =
           Children(decls, d, kinds) \cup Added(Len(decls) + 1, x, d, kinds)
  BY GrowFacts
<1>3. x.encl = Top.decl /\ m <= Len(gs) /\ Len(gs) \in Nat /\ \A j \in 1 .. m : gs[j].decl = frames[j].decl
  BY DEF Grows
<1>. HIDE DEF es, gs
<1>4. \A kinds : Children(es, frames[k].decl, kinds) = Children(decls, frames[k].decl, kinds)
  <2>1. \A kinds : Added(Len(decls) + 1, x, frames[k].decl, kinds) = {}
    BY <1>1, <1>3 DEF Added
  <2>. QED
    BY <1>2, <2>1
<1>5. Inner(gs, k) = Inner(frames, k) /\ gs[k] = frames[k]
  BY <1>1, <1>3 DEF Inner, gs
<1>6. ListsRight(es, gs, k)
  BY <1>2, <1>4, <1>5, ListsStay
<1>7. PlaceRight(es, gs, k)
  <2>1. PlaceRight(decls, frames, k)
    BY DEF Tree
  <2>2. k > 1 => frames[k].decl \in 1 .. Len(decls)
    <3>1. k > 1 => k \in 2 .. m
      BY <1>1
    <3>. QED
      BY <1>2, <3>1, NestedFacts
  <2>. QED
    BY <1>1, <1>2, <1>5, <2>1, <2>2 DEF PlaceRight
<1>8. BodyRight(es, gs, k)
  BY <1>2, <1>5, BodyStays
<1>. QED
  BY <1>6, <1>7, <1>8 DEF es, gs

(* A variable or a parameter.                                              *)
LEMMA NameKeeps ==
  ASSUME IInv, IInv', Tree(decls, frames), NEW x, Grows(x),
         NEW f \in FrameType, SetTop(f), f.decl = Top.decl, f.stmts = Top.stmts,
         \/ /\ x.kind = "Var" /\ f.list = Append(Top.list, Len(decls) + 1)
            /\ f.formals = Top.formals
         \/ /\ x.kind = "Param" /\ f.formals = Append(Top.formals, Len(decls) + 1)
            /\ f.list = Top.list
  PROVE  Tree(decls', frames')
<1>. DEFINE m == Len(frames)
            P == Len(decls) + 1
            D == Top.decl
            es == decls'
            gs == frames'
<1>1. /\ m \in Nat \ {0} /\ m \in 1 .. m /\ Top = frames[m] /\ Top \in FrameType
      /\ Inner(frames, m) = {}
      /\ \A k \in 1 .. m : k > 1 => k \in 2 .. m
  BY TopFacts, AtFacts DEF Grows
<1>2. /\ Preserves(decls, frames, es, gs) /\ WellNested(decls, frames) /\ WellNested(es, gs)
      /\ Len(decls) \in Nat /\ Len(es) = P /\ es[P] = x
      /\ \A d \in 1 .. Len(decls) : es[d] = decls[d]
      /\ \A d, kinds : Children(es, d, kinds) =
           Children(decls, d, kinds) \cup Added(P, x, d, kinds)
      /\ \A d \in 1 .. Len(es) : Headed(es, gs, d) => HeadingRight(es, d)
      /\ \A d \in 1 .. Len(es) : Finished(es, d) => FinishedRight(es, gs, d)
      /\ PervasivesRight(es)
  BY GrowFacts
<1>3. Len(gs) = m /\ gs[m] = f /\ \A k \in 1 .. m : k # m => gs[k] = frames[k]
  <2>1. DataTyped /\ frames # <<>>
    BY AtFacts DEF Grows
  <2>. QED
    BY <1>1, <2>1, SetTopTyped
<1>4. x.encl = D
  BY DEF Grows
<1>5. ListsRight(decls, frames, m) /\ PlaceRight(decls, frames, m) /\ BodyRight(decls, frames, m)
  BY <1>1 DEF Tree
<1>6. /\ Elements(Top.list) = Children(decls, D, {"Var", "Proc"})
      /\ Elements(Top.formals) = Children(decls, D, {"Param"})
      /\ Ascending(Top.list) /\ Ascending(Top.formals)
      /\ Top.list \in Seq(Nat) /\ Top.formals \in Seq(Nat)
  BY <1>1, <1>5 DEF ListsRight, FrameType
<1>7. \A d, kinds : \A e \in Children(decls, d, kinds) : e < P /\ e \in 1 .. Len(decls)
  BY <1>2 DEF Children
<1>. HIDE DEF es, gs, D
<1>8. x.kind = "Var" =>
        /\ Elements(f.list) = Children(es, D, {"Var", "Proc"}) /\ Ascending(f.list)
        /\ Elements(f.formals) = Children(es, D, {"Param"}) /\ Ascending(f.formals)
  <2>. SUFFICES ASSUME x.kind = "Var"
                PROVE  /\ Elements(f.list) = Children(es, D, {"Var", "Proc"}) /\ Ascending(f.list)
                       /\ Elements(f.formals) = Children(es, D, {"Param"}) /\ Ascending(f.formals)
    OBVIOUS
  <2>1. Added(P, x, D, {"Var", "Proc"}) = {P} /\ Added(P, x, D, {"Param"}) = {}
    BY <1>4 DEF Added
  <2>2. f.list = Append(Top.list, P) /\ f.formals = Top.formals
    OBVIOUS
  <2>3. \A e \in Elements(Top.list) : e < P
    BY <1>6, <1>7
  <2>. HIDE DEF P
  <2>4. Elements(f.list) = Elements(Top.list) \cup {P} /\ Ascending(f.list)
    BY <1>2, <1>6, <2>2, <2>3, Pushing DEF P
  <2>5. /\ Children(es, D, {"Var", "Proc"}) = Children(decls, D, {"Var", "Proc"}) \cup {P}
        /\ Children(es, D, {"Param"}) = Children(decls, D, {"Param"}) \cup {}
    <3>. DEFINE block == {"Var", "Proc"}
                heading == {"Param"}
    <3>. HIDE DEF block, heading
    <3>1. /\ Children(es, D, block) = Children(decls, D, block) \cup Added(P, x, D, block)
          /\ Children(es, D, heading) = Children(decls, D, heading) \cup Added(P, x, D, heading)
      BY <1>2
    <3>. QED
      BY <2>1, <3>1 DEF block, heading
  <2>. QED
    BY <1>6, <2>2, <2>4, <2>5
<1>9. x.kind = "Param" =>
        /\ Elements(f.list) = Children(es, D, {"Var", "Proc"}) /\ Ascending(f.list)
        /\ Elements(f.formals) = Children(es, D, {"Param"}) /\ Ascending(f.formals)
  <2>. SUFFICES ASSUME x.kind = "Param"
                PROVE  /\ Elements(f.list) = Children(es, D, {"Var", "Proc"}) /\ Ascending(f.list)
                       /\ Elements(f.formals) = Children(es, D, {"Param"}) /\ Ascending(f.formals)
    OBVIOUS
  <2>1. Added(P, x, D, {"Var", "Proc"}) = {} /\ Added(P, x, D, {"Param"}) = {P}
    BY <1>4 DEF Added
  <2>2. f.formals = Append(Top.formals, P) /\ f.list = Top.list
    OBVIOUS
  <2>3. \A e \in Elements(Top.formals) : e < P
    BY <1>6, <1>7
  <2>. HIDE DEF P
  <2>4. Elements(f.formals) = Elements(Top.formals) \cup {P} /\ Ascending(f.formals)
    BY <1>2, <1>6, <2>2, <2>3, Pushing DEF P
  <2>5. /\ Children(es, D, {"Var", "Proc"}) = Children(decls, D, {"Var", "Proc"}) \cup {}
        /\ Children(es, D, {"Param"}) = Children(decls, D, {"Param"}) \cup {P}
    <3>. DEFINE block == {"Var", "Proc"}
                heading == {"Param"}
    <3>. HIDE DEF block, heading
    <3>1. /\ Children(es, D, block) = Children(decls, D, block) \cup Added(P, x, D, block)
          /\ Children(es, D, heading) = Children(decls, D, heading) \cup Added(P, x, D, heading)
      BY <1>2
    <3>. QED
      BY <2>1, <3>1 DEF block, heading
  <2>. QED
    BY <1>6, <2>2, <2>4, <2>5
<1>10. x.kind # "Proc" /\ f.decl = D
  BY DEF D
<1>11. /\ Elements(f.list) = Children(es, D, {"Var", "Proc"}) /\ Ascending(f.list)
       /\ Elements(f.formals) = Children(es, D, {"Param"}) /\ Ascending(f.formals)
  BY <1>8, <1>9
<1>12. \A e \in Elements(f.list) : es[e].kind = "Proc" => Finished(es, e)
  <2>. SUFFICES ASSUME NEW e \in Elements(f.list), es[e].kind = "Proc"
                PROVE  Finished(es, e)
    OBVIOUS
  <2>1. e \in 1 .. P /\ e # P
    BY <1>2, <1>10, <1>11 DEF Children
  <2>2. e \in 1 .. Len(decls) /\ decls[e] = es[e]
    BY <1>2, <2>1
  <2>3. e \in Elements(Top.list)
    <3>1. es[e].encl = D
      BY <1>11 DEF Children
    <3>. QED
      BY <1>6, <2>2, <3>1 DEF Children
  <2>4. Finished(decls, e)
    BY <1>1, <1>5, <2>2, <2>3 DEF ListsRight
  <2>. QED
    BY <1>2, <2>2, <2>4, TreeStays
<1>13. Inner(gs, m) = {}
  BY <1>1, <1>3 DEF Inner
<1>14. ListsRight(es, gs, m)
  BY <1>3, <1>10, <1>11, <1>12, <1>13 DEF ListsRight
<1>15. PlaceRight(es, gs, m)
  <2>1. m > 1 => D \in 1 .. Len(decls)
    BY <1>1, <1>2, NestedFacts DEF D
  <2>. QED
    BY <1>1, <1>2, <1>3, <1>5, <1>10, <2>1 DEF PlaceRight, D
<1>16. BodyRight(es, gs, m)
  BY <1>1, <1>2, <1>3, <1>10, BodyStays DEF D
<1>17. \A k \in 1 .. m : ListsRight(es, gs, k) /\ PlaceRight(es, gs, k) /\ BodyRight(es, gs, k)
  BY <1>3, <1>14, <1>15, <1>16, AroundKept DEF es, gs
<1>. QED
  BY <1>2, <1>3, <1>17 DEF Tree, es, gs

(* A procedure is entered.                                                 *)
LEMMA EnteringKeeps ==
  ASSUME IInv, IInv', Tree(decls, frames), NEW x, Grows(x), x.kind = "Proc",
         At("block"), frames' = Append(frames, Frame(Len(decls) + 1, "formals"))
  PROVE  Tree(decls', frames')
<1>. DEFINE m == Len(frames)
            P == Len(decls) + 1
            D == Top.decl
            es == decls'
            gs == frames'
            f == Frame(P, "formals")
<1>1. /\ m \in Nat \ {0} /\ m \in 1 .. m /\ Top = frames[m] /\ Top \in FrameType
      /\ Inner(frames, m) = {} /\ Top.at = "block" /\ frames \in Seq(FrameType)
      /\ \A k \in 1 .. m : k > 1 => k \in 2 .. m
  BY TopFacts, AtFacts DEF Grows, At, DataTyped
<1>2. /\ Preserves(decls, frames, es, gs) /\ WellNested(decls, frames) /\ WellNested(es, gs)
      /\ Len(decls) \in Nat /\ Len(es) = P /\ es[P] = x
      /\ \A d \in 1 .. Len(decls) : es[d] = decls[d]
      /\ \A d, kinds : Children(es, d, kinds) =
           Children(decls, d, kinds) \cup Added(P, x, d, kinds)
      /\ \A d \in 1 .. Len(es) : Headed(es, gs, d) => HeadingRight(es, d)
      /\ \A d \in 1 .. Len(es) : Finished(es, d) => FinishedRight(es, gs, d)
      /\ PervasivesRight(es)
  BY GrowFacts
<1>3. /\ f.decl = P /\ f.list = <<>> /\ f.formals = <<>> /\ f.stmts = <<>>
      /\ f \in FrameType
  <2>1. P \in Nat /\ "formals" \in Places
    BY <1>2 DEF Places
  <2>2. f \in FrameType
    BY <2>1, FrameTyped
  <2>. QED
    BY <2>2 DEF Frame
<1>. HIDE DEF f
<1>4. /\ Len(gs) = m + 1 /\ gs[m + 1] = f
      /\ \A k \in 1 .. m : gs[k] = frames[k]
  BY <1>1, <1>3, AppendProperties DEF f
<1>5. x.encl = D /\ x.text = "open"
  BY DEF Grows
<1>6. ListsRight(decls, frames, m) /\ PlaceRight(decls, frames, m) /\ BodyRight(decls, frames, m)
  BY <1>1 DEF Tree
<1>7. \A d, kinds : \A e \in Children(decls, d, kinds) : e < P /\ e \in 1 .. Len(decls)
  BY <1>2 DEF Children
<1>8. \A kinds : Children(es, P, kinds) = {}
  <2>1. \A e \in 1 .. P : es[e].encl \in 0 .. e - 1
    BY <1>2 DEF WellNested
  <2>2. \A e \in 1 .. P : es[e].encl # P
    BY <1>2, <2>1
  <2>. HIDE DEF P
  <2>. QED
    BY <1>2, <2>2 DEF Children
<1>9. Inner(gs, m) = {P} /\ Inner(gs, m + 1) = {}
  BY <1>1, <1>3, <1>4 DEF Inner
<1>. HIDE DEF es, gs, D, P
<1>10. ListsRight(es, gs, m)
  <2>1. /\ Elements(Top.list) = Children(decls, D, {"Var", "Proc"})
        /\ Elements(Top.formals) = Children(decls, D, {"Param"})
    BY <1>1, <1>6 DEF ListsRight, D
  <2>2. Added(P, x, D, {"Var", "Proc"}) = {P} /\ Added(P, x, D, {"Param"}) = {}
    BY <1>5 DEF Added
  <2>3. /\ Children(es, D, {"Var", "Proc"}) = Children(decls, D, {"Var", "Proc"}) \cup {P}
        /\ Children(es, D, {"Param"}) = Children(decls, D, {"Param"}) \cup {}
    <3>. DEFINE block == {"Var", "Proc"}
                heading == {"Param"}
    <3>. HIDE DEF block, heading
    <3>1. /\ Children(es, D, block) = Children(decls, D, block) \cup Added(P, x, D, block)
          /\ Children(es, D, heading) = Children(decls, D, heading) \cup Added(P, x, D, heading)
      BY <1>2
    <3>. QED
      BY <2>2, <3>1 DEF block, heading
  <2>4. \A e \in Elements(Top.list) : es[e].kind = "Proc" => Finished(es, e)
    <3>1. \A e \in Elements(Top.list) : e \in 1 .. Len(decls) /\ (decls[e].kind = "Proc" => Finished(decls, e))
      BY <1>1, <1>6, <1>7, <2>1 DEF ListsRight
    <3>. QED
      BY <1>2, <3>1, TreeStays
  <2>5. \A e \in Elements(Top.list), i \in {P} : e < i
    BY <1>7, <2>1
  <2>6. gs[m] = Top /\ Top.decl = D /\ Ascending(Top.list) /\ Ascending(Top.formals)
    BY <1>1, <1>4, <1>6 DEF ListsRight, D
  <2>. QED
    BY <1>9, <2>1, <2>3, <2>4, <2>5, <2>6 DEF ListsRight
<1>11. PlaceRight(es, gs, m) /\ BodyRight(es, gs, m)
  <2>1. m > 1 => D \in 1 .. Len(decls)
    BY <1>1, <1>2, NestedFacts DEF D
  <2>2. PlaceRight(es, gs, m)
    BY <1>1, <1>2, <1>4, <1>6, <2>1 DEF PlaceRight, D
  <2>3. BodyRight(es, gs, m)
    BY <1>1, <1>2, <1>4, BodyStays
  <2>. QED
    BY <2>2, <2>3
<1>12. ListsRight(es, gs, m + 1) /\ PlaceRight(es, gs, m + 1) /\ BodyRight(es, gs, m + 1)
  <2>1. ListsRight(es, gs, m + 1)
    BY <1>3, <1>4, <1>8, <1>9, NothingIn DEF ListsRight
  <2>2. PlaceRight(es, gs, m + 1)
    BY <1>1, <1>2, <1>3, <1>4, <1>5 DEF PlaceRight
  <2>3. BodyRight(es, gs, m + 1)
    BY <1>3, <1>4, NothingIn DEF BodyRight
  <2>. QED
    BY <2>1, <2>2, <2>3
<1>13. \A k \in 1 .. m : ListsRight(es, gs, k) /\ PlaceRight(es, gs, k) /\ BodyRight(es, gs, k)
  BY <1>4, <1>10, <1>11, AroundKept DEF es, gs
<1>14. \A k \in 1 .. m + 1 : k \in 1 .. m \/ k = m + 1
  BY <1>1
<1>. QED
  BY <1>2, <1>4, <1>12, <1>13, <1>14 DEF Tree, es, gs

(* A procedure ends: it is complete, and in the list of the block around   *)
(* it.                                                                     *)
LEMMA EndingKeeps ==
  ASSUME IInv, IInv', Tree(decls, frames), NEW name, EndProcedure(name)
  PROVE  Tree(decls', frames')
<1>. DEFINE m == Len(frames)
            o == m - 1
            D == Top.decl
            es == decls'
            gs == frames'
            x == [decls[D] EXCEPT !.members = Top.list, !.stmts = Top.stmts, !.text = Top.text]
            f == [Below[o] EXCEPT !.list = Append(@, D)]
<1>1. /\ m \in Nat /\ m > 1 /\ m \in 2 .. m /\ m \in 1 .. m /\ Top = frames[m]
      /\ WellNested(decls, frames) /\ Inner(frames, m) = {} /\ Top.at = "end"
      /\ Top \in FrameType /\ pc = "parsing"
  BY TopFacts, AtFacts DEF EndProcedure, At
<1>2. WellNested(es, gs)
  <2>1. WellNested(decls, frames)'
    BY NestedWell, PTL
  <2>. QED
    BY <2>1
<1>3. /\ Len(decls) \in Nat /\ D \in 1 .. Len(decls) /\ decls[D] \in DeclType
      /\ DOMAIN decls = 1 .. Len(decls) /\ decls \in Seq(DeclType)
      /\ \A k \in 2 .. m : k \in 1 .. m /\ frames[k].decl \in 1 .. Len(decls)
      /\ \A k \in 1 .. m : frames[k] \in FrameType
  <2>1. WellNested(decls, frames)
    BY <1>1
  <2>. QED
    BY <1>1, <2>1, NestedFacts, LenProperties DEF WellNested
<1>4. /\ Below \in Seq(FrameType) /\ Len(Below) = o /\ \A k \in 1 .. o : Below[k] = frames[k]
  BY <1>1, AtFacts, TopTyped
<1>5. /\ o \in 1 .. o /\ o \in 1 .. m /\ o < m /\ o + 1 = m /\ o \in Nat
      /\ \A k \in 1 .. o : k \in 1 .. m /\ k # m /\ k < m
      /\ \A k \in 1 .. o : k # o => k < o /\ k + 1 \in 1 .. o
      /\ \A k \in 1 .. m : k # m => k \in 1 .. o
      /\ \A k \in 2 .. m : k # m => k \in 2 .. o
  BY <1>1
<1>6. ListsRight(decls, frames, m) /\ PlaceRight(decls, frames, m) /\ BodyRight(decls, frames, m)
  BY <1>1 DEF Tree
<1>7. ListsRight(decls, frames, o) /\ PlaceRight(decls, frames, o)
  BY <1>5 DEF Tree
<1>8. decls' = [decls EXCEPT ![D] = x] /\ frames' = [Below EXCEPT ![o] = f]
  BY DEF EndProcedure
<1>9. /\ x.kind = decls[D].kind /\ x.encl = decls[D].encl /\ x.type = decls[D].type
      /\ x.params = decls[D].params /\ x.ret = decls[D].ret
      /\ x.members = Top.list /\ x.stmts = Top.stmts /\ x.text = Top.text
  <2>. HIDE DEF D
  <2>. QED
    BY <1>3 DEF DeclType
<1>10. /\ f.decl = Below[o].decl /\ f.at = Below[o].at /\ f.formals = Below[o].formals
       /\ f.stmts = Below[o].stmts /\ f.list = Append(Below[o].list, D)
  <2>1. Below[o] \in FrameType
    BY <1>3, <1>4, <1>5
  <2>. HIDE DEF D, o
  <2>. QED
    BY <2>1 DEF FrameType
<1>. HIDE DEF x, f
<1>11. /\ Len(es) = Len(decls) /\ es[D] = x
       /\ \A d \in 1 .. Len(decls) : d # D => es[d] = decls[d]
  BY <1>3, <1>8, ExceptSeq
<1>12. /\ Len(gs) = o /\ gs[o] = f
       /\ \A k \in 1 .. o : k # o => gs[k] = Below[k]
  <2>. HIDE DEF o
  <2>1. DOMAIN Below = 1 .. o
    BY <1>4, LenProperties
  <2>2. DOMAIN gs = 1 .. o /\ gs[o] = f /\ \A k \in 1 .. o : k # o => gs[k] = Below[k]
    BY <1>5, <1>8, <2>1
  <2>3. Len(gs) = o
    BY <1>2, <1>5, <2>2, LenProperties DEF WellNested
  <2>. QED
    BY <2>2, <2>3
<1>. HIDE DEF es, gs, D, o, m
<1>13. /\ \A k \in 1 .. o : /\ gs[k].decl = frames[k].decl /\ gs[k].at = frames[k].at
                            /\ gs[k].formals = frames[k].formals
                            /\ gs[k].stmts = frames[k].stmts
                            /\ k # o => gs[k] = frames[k]
       /\ gs[o].list = Append(frames[o].list, D)
  BY <1>4, <1>5, <1>10, <1>12
<1>14. /\ Finished(es, D) /\ ~Finished(decls, D) /\ D = frames[m].decl
       /\ ~InHeading(frames[m])
  <2>1. decls[D].kind = "Proc" /\ decls[D].text = "open" /\ D = frames[m].decl
    BY <1>1, <1>6 DEF PlaceRight, D
  <2>2. Top.text # "open"
    BY <1>1 DEF FrameType, Texts
  <2>3. ~InHeading(frames[m])
    BY <1>1 DEF InHeading
  <2>. QED
    BY <1>9, <1>11, <2>1, <2>2, <2>3 DEF Finished
<1>15. \A d \in 1 .. Len(decls) : /\ es[d].kind = decls[d].kind /\ es[d].encl = decls[d].encl
                                  /\ es[d].type = decls[d].type
                                  /\ es[d].params = decls[d].params /\ es[d].ret = decls[d].ret
  BY <1>9, <1>11
<1>16. \A d, kinds : Children(es, d, kinds) = Children(decls, d, kinds)
  BY <1>11, <1>15, ChildrenSame
<1>17. \A d \in 1 .. Len(decls) : Finished(es, d) <=> Finished(decls, d) \/ d = D
  BY <1>11, <1>14 DEF Finished
<1>18. \A d : Headed(es, gs, d) <=> Headed(decls, frames, d)
  <2>1. ASSUME NEW d, Headed(es, gs, d)
        PROVE  Headed(decls, frames, d)
    <3>1. CASE Finished(decls, d)
      BY <1>11, <2>1, <3>1 DEF Headed
    <3>2. CASE d = D
      BY <1>1, <1>3, <1>14, <3>2 DEF Headed, m, D
    <3>3. CASE \E k \in 2 .. Len(gs) : gs[k].decl = d /\ ~InHeading(gs[k])
      <4>1. PICK k \in 2 .. o : gs[k].decl = d /\ ~InHeading(gs[k])
        BY <1>12, <3>3
      <4>2. k \in 1 .. o /\ k \in 2 .. m
        BY <1>1, <1>5
      <4>3. frames[k].decl = d /\ ~InHeading(frames[k])
        BY <1>13, <4>1, <4>2 DEF InHeading
      <4>. QED
        BY <1>11, <2>1, <4>2, <4>3 DEF Headed, m
    <3>. QED
      BY <1>11, <1>17, <2>1, <3>1, <3>2, <3>3 DEF Headed
  <2>2. ASSUME NEW d, Headed(decls, frames, d)
        PROVE  Headed(es, gs, d)
    <3>1. CASE Finished(decls, d) \/ d = D
      BY <1>11, <1>17, <2>2, <3>1 DEF Headed
    <3>2. CASE d # D /\ \E k \in 2 .. m : frames[k].decl = d /\ ~InHeading(frames[k])
      <4>1. PICK k \in 2 .. m : frames[k].decl = d /\ ~InHeading(frames[k])
        BY <3>2
      <4>2. k \in 2 .. o /\ k \in 1 .. o
        BY <1>5, <1>14, <3>2, <4>1
      <4>3. gs[k].decl = d /\ ~InHeading(gs[k])
        BY <1>13, <4>1, <4>2 DEF InHeading
      <4>. QED
        BY <1>11, <1>12, <2>2, <4>2, <4>3 DEF Headed
    <3>. QED
      BY <2>2, <3>1, <3>2 DEF Headed, m
  <2>. QED
    BY <2>1, <2>2
<1>19. Preserves(decls, frames, es, gs)
  <2>1. \A d \in 1 .. Len(decls) : Finished(decls, d) => es[d] = decls[d]
    BY <1>11, <1>14
  <2>2. Len(decls) <= Len(es)
    BY <1>3, <1>11
  <2>. QED
    BY <1>15, <1>16, <1>18, <2>1, <2>2 DEF Preserves
<1>20. \A d \in 1 .. Len(es) : Headed(es, gs, d) => HeadingRight(es, d)
  BY <1>1, <1>2, <1>11, <1>18, <1>19, TreeStays
<1>21. \A e \in 1 .. Len(decls) : Finished(decls, e) => Finished(es, e)
  BY <1>17
<1>22. ASSUME NEW d \in 1 .. Len(es), Finished(es, d)
       PROVE  FinishedRight(es, gs, d)
  <2>1. CASE Finished(decls, d)
    BY <1>1, <1>2, <1>11, <1>19, <2>1, TreeStays
  <2>2. CASE d = D
    <3>1. es[d].members = Top.list /\ es[d].stmts = Top.stmts
      BY <1>9, <1>11, <2>2
    <3>2. /\ Elements(Top.list) = Children(decls, D, {"Var", "Proc"}) /\ Ascending(Top.list)
          /\ \A e \in Elements(Top.list) : decls[e].kind = "Proc" => Finished(decls, e)
      BY <1>1, <1>6, <1>14 DEF ListsRight, m
    <3>3. \A e \in Elements(Top.list) : es[e].kind = "Proc" => Finished(es, e)
      <4>1. \A e \in Elements(Top.list) : e \in 1 .. Len(decls)
        BY <3>2 DEF Children
      <4>. QED
        BY <1>15, <1>21, <3>2, <4>1
    <3>4. \A s \in Elements(Top.stmts) : StatementRight(es, gs, s, D)
      <4>1. \A s \in Elements(Top.stmts) : StatementRight(decls, frames, s, D)
        BY <1>1, <1>6, <1>14 DEF BodyRight
      <4>. QED
        BY <1>1, <1>2, <1>19, <4>1, StatementsStay
    <3>. QED
      BY <1>16, <2>2, <3>1, <3>2, <3>3, <3>4 DEF FinishedRight
  <2>. QED
    BY <1>11, <1>17, <1>22, <2>1, <2>2
<1>23. ASSUME NEW k \in 1 .. o
       PROVE  ListsRight(es, gs, k) /\ PlaceRight(es, gs, k) /\ BodyRight(es, gs, k)
  <2>0. k \in 1 .. Len(frames) /\ k < m /\ PlaceRight(decls, frames, k)
    BY <1>5 DEF m, Tree
  <2>1. ASSUME k # o
        PROVE  ListsRight(es, gs, k)
    <3>1. Inner(gs, k) = Inner(frames, k)
      BY <1>5, <1>12, <1>13, <2>0, <2>1 DEF Inner, m
    <3>2. gs[k] = frames[k]
      BY <1>13, <2>1
    <3>3. ListsRight(es, gs, k)
      BY <1>1, <1>2, <1>16, <1>19, <2>0, <3>1, <3>2, ListsStay
    <3>. QED
      BY <3>3
  <2>2. ASSUME k = o
        PROVE  ListsRight(es, gs, k)
    <3>1. Inner(gs, o) = {} /\ Inner(frames, o) = {D}
      BY <1>5, <1>12, <1>14 DEF Inner, m
    <3>2. /\ Elements(frames[o].list) \cup {D} = Children(decls, frames[o].decl, {"Var", "Proc"})
          /\ Elements(frames[o].formals) = Children(decls, frames[o].decl, {"Param"})
          /\ Ascending(frames[o].list) /\ Ascending(frames[o].formals)
          /\ \A e \in Elements(frames[o].list) : decls[e].kind = "Proc" => Finished(decls, e)
          /\ \A e \in Elements(frames[o].list) : e < D
      BY <1>7, <3>1 DEF ListsRight
    <3>3. frames[o].list \in Seq(Nat) /\ D \in Nat
      BY <1>3, <1>5 DEF FrameType
    <3>4. Elements(gs[o].list) = Elements(frames[o].list) \cup {D} /\ Ascending(gs[o].list)
      BY <1>13, <3>2, <3>3, Pushing
    <3>5. \A e \in Elements(gs[o].list) : es[e].kind = "Proc" => Finished(es, e)
      <4>1. \A e \in Elements(gs[o].list) : e \in 1 .. Len(decls)
        BY <3>2, <3>4 DEF Children
      <4>. QED
        BY <1>14, <1>15, <1>21, <3>2, <3>4, <4>1
    <3>6. gs[o].decl = frames[o].decl /\ gs[o].formals = frames[o].formals
      BY <1>5, <1>13
    <3>7. ListsRight(es, gs, o)
      BY <1>16, <3>1, <3>2, <3>4, <3>5, <3>6 DEF ListsRight
    <3>. QED
      BY <2>2, <3>7
  <2>3. ListsRight(es, gs, k)
    BY <2>1, <2>2
  <2>4. PlaceRight(es, gs, k)
    <3>1. k > 1 => k \in 2 .. m
      BY <1>1, <2>0
    <3>2. k > 1 => /\ es[frames[k].decl].kind = "Proc"
                   /\ es[frames[k].decl].text = decls[frames[k].decl].text
      <4>1. frames[k].decl # D
        BY <1>1, <1>14, <2>0, NestedFacts DEF m
      <4>. QED
        BY <1>3, <1>11, <2>0, <3>1, <4>1 DEF PlaceRight
    <3>3. k < Len(gs) => k < Len(frames)
      BY <1>12, <2>0 DEF m
    <3>. QED
      BY <1>13, <2>0, <3>2, <3>3 DEF PlaceRight
  <2>5. BodyRight(es, gs, k)
    BY <1>1, <1>2, <1>13, <1>19, <2>0, BodyStays
  <2>. QED
    BY <2>3, <2>4, <2>5
<1>24. PervasivesRight(es)
  <2>1. \A d \in 1 .. 4 : d <= Len(decls) => d \in 1 .. Len(decls)
    BY <1>3
  <2>. QED
    BY <1>11, <1>15, <2>1 DEF Tree, PervasivesRight
<1>. QED
  BY <1>12, <1>20, <1>22, <1>23, <1>24 DEF Tree, es, gs

-----------------------------------------------------------------------------
(* A procedure a body can name has a complete heading: it is finished, or  *)
(* the body is inside it.                                                  *)
LEMMA LookupHeaded ==
  ASSUME IInv, Tree(decls, frames), At("stmt"), NEW n,
         Lookup(n) # Null, decls[Lookup(n)].kind = "Proc"
  PROVE  Headed(decls, frames, Lookup(n))
<1>. DEFINE m == Len(frames)
            D == Lookup(n)
<1>1. /\ m \in Nat \ {0} /\ m \in 1 .. m /\ Top = frames[m] /\ Top.at = "stmt"
      /\ Len(scopes) = m + 1 /\ Len(decls) >= 4 /\ Len(decls) \in Nat /\ DataTyped
      /\ pc = "parsing"
  BY TopFacts, AtFacts DEF At
<1>2. PICK k \in 1 .. m + 1 : n \in DOMAIN scopes[k] /\ D = scopes[k][n]
  BY <1>1, LookupFound
<1>3. k # 1
  <2>. SUFFICES ASSUME k = 1
                PROVE  FALSE
    OBVIOUS
  <2>1. D \in 1 .. 4
    BY <1>1, <1>2, PervasiveFacts DEF IInv, Outermost
  <2>. HIDE DEF D
  <2>2. D <= Len(decls)
    BY <1>1, <2>1
  <2>. QED
    BY <2>1, <2>2 DEF Tree, PervasivesRight, D
<1>. DEFINE j == k - 1
<1>4. j \in 1 .. m /\ j + 1 = k
  BY <1>1, <1>3
<1>5. D \in 5 .. Len(decls) /\ D \in 1 .. Len(decls) /\ decls[D].encl = frames[j].decl
  <2>1. HoldsOnly(decls, scopes[j + 1], frames[j].decl)
    BY <1>4 DEF IInv, Blocks
  <2>2. D \in 5 .. Len(decls) /\ decls[D].encl = frames[j].decl
    BY <1>2, <1>4, <2>1 DEF HoldsOnly
  <2>. QED
    BY <2>2
<1>. HIDE DEF D, j
<1>6. D \in Children(decls, frames[j].decl, {"Var", "Proc"})
  BY <1>5 DEF Children, D
<1>7. ListsRight(decls, frames, j) /\ \A i \in 1 .. m : PlaceRight(decls, frames, i)
  BY <1>4 DEF Tree
<1>8. CASE D \in Elements(frames[j].list)
  BY <1>5, <1>7, <1>8 DEF ListsRight, Headed, D
<1>9. CASE D \in Inner(frames, j)
  <2>1. j < m /\ D = frames[j + 1].decl
    BY <1>9 DEF Inner
  <2>2. j + 1 \in 2 .. m /\ j + 1 \in 1 .. m
    BY <1>1, <1>4, <2>1
  <2>3. ~InHeading(frames[j + 1])
    <3>1. CASE j + 1 = m
      BY <1>1, <3>1 DEF InHeading
    <3>2. CASE j + 1 < m
      BY <1>7, <2>2, <3>2 DEF InHeading, PlaceRight
    <3>. QED
      BY <1>1, <2>2, <3>1, <3>2
  <2>. QED
    BY <1>5, <2>1, <2>2, <2>3 DEF Headed, D
<1>. QED
  BY <1>6, <1>7, <1>8, <1>9 DEF ListsRight, D

(* The statements that join a list when nothing is reported.               *)
LEMMA CallRight ==
  ASSUME IInv, Tree(decls, frames), At("stmt"), NEW n, NEW args \in ArgLists,
         Lookup(n) # Null, decls[Lookup(n)].kind = "Proc", ~ArgumentsReported(Lookup(n), args)
  PROVE  StatementRight(decls, frames, [kind |-> "call", to |-> Lookup(n),
                          types |-> [i \in DOMAIN args |-> args[i].type]], Top.decl)
<1>. DEFINE D == Lookup(n)
            formals == decls[D].params
            types == [i \in DOMAIN args |-> args[i].type]
<1>1. Headed(decls, frames, D)
  BY LookupHeaded
<1>2. formals \in Seq(Nat)
  <2>1. D \in 1 .. Len(decls) /\ DataTyped
    BY <1>1 DEF Headed, IInv
  <2>2. decls[D] \in DeclType
    BY <2>1, ElementOfSeq DEF DataTyped
  <2>. QED
    BY <2>2 DEF DeclType
<1>3. PICK k \in 0 .. MaxArgs : args \in [1 .. k -> Exprs \ {NoExpr}]
  BY DEF ArgLists
<1>4. args \in Seq(Exprs \ {NoExpr}) /\ DOMAIN args = 1 .. Len(args)
  <2>1. k \in Nat
    BY SizesAssumption
  <2>2. args \in Seq(Exprs \ {NoExpr})
    BY <1>3, <2>1, SeqDef
  <2>. QED
    BY <2>2, LenProperties
<1>5. /\ Len(formals) = Len(args)
      /\ \A i \in DOMAIN formals : decls[formals[i]].type = args[i].type
  BY DEF ArgumentsReported
<1>6. DOMAIN formals = 1 .. Len(formals)
  BY <1>2, LenProperties
<1>7. DOMAIN types = DOMAIN formals /\ \A i \in DOMAIN types : decls[formals[i]].type = types[i]
  <2>. HIDE DEF D
  <2>. QED
    BY <1>4, <1>5, <1>6
<1>. HIDE DEF types, D
<1>8. StatementRight(decls, frames, [kind |-> "call", to |-> D, types |-> types], Top.decl)
  BY <1>1, <1>7 DEF StatementRight
<1>. QED
  BY <1>8 DEF D, types

LEMMA CallTyped ==
  ASSUME IInv, pc = "parsing", NEW n, NEW args \in ArgLists
  PROVE  << [kind |-> "call", to |-> Lookup(n),
             types |-> [i \in DOMAIN args |-> args[i].type]] >> \in Seq(StmtType)
<1>. DEFINE types == [i \in DOMAIN args |-> args[i].type]
            D == Lookup(n)
<1>1. PICK k \in 0 .. MaxArgs : args \in [1 .. k -> Exprs \ {NoExpr}]
  BY DEF ArgLists
<1>2. k \in Nat /\ \A i \in 1 .. k : args[i].type \in Nat \cup {Unset}
  BY <1>1, ExprsTyped, SizesAssumption
<1>3. types \in [1 .. k -> Nat \cup {Unset}]
  BY <1>1, <1>2
<1>. HIDE DEF types
<1>4. types \in Seq(Nat \cup {Unset})
  BY <1>2, <1>3, SeqDef
<1>5. D \in Nat
  BY LookupTyped
<1>. HIDE DEF D
<1>6. << [kind |-> "call", to |-> D, types |-> types] >> \in Seq(StmtType)
  BY <1>4, <1>5, SingleStatement
<1>. QED
  BY <1>6 DEF types, D

LEMMA ReturnRight ==
  ASSUME IInv, Tree(decls, frames), At("stmt"), curDecl # Null, NEW E,
         LET ret == decls[curDecl].ret IN
         ~(\/ ret # Null /\ E = NoExpr
           \/ ret = Null /\ E # NoExpr
           \/ ret # Null /\ E # NoExpr /\ ret # E.type)
  PROVE  StatementRight(decls, frames, [kind |-> "return", to |-> Null,
                          types |-> IF E = NoExpr THEN <<>> ELSE <<E.type>>], Top.decl)
<1>. DEFINE D == Top.decl
            types == IF E = NoExpr THEN <<>> ELSE <<E.type>>
<1>1. /\ Len(frames) \in Nat \ {0} /\ Top = frames[Len(frames)] /\ Top.at = "stmt"
      /\ curDecl = D /\ D \in 0 .. Len(decls) /\ (D = Null <=> Len(frames) = 1)
      /\ Len(decls) \in Nat
  BY TopFacts, AtFacts DEF At
<1>2. Len(frames) \in 2 .. Len(frames) /\ D \in 1 .. Len(decls)
  <2>1. Len(frames) # 1 /\ D # 0
    BY <1>1 DEF Null
  <2>. HIDE DEF D
  <2>. QED
    BY <1>1, <2>1
<1>3. Headed(decls, frames, D)
  BY <1>1, <1>2 DEF Headed, InHeading
<1>4. types = IF decls[D].ret = Null THEN <<>> ELSE <<decls[D].ret>>
  BY <1>1
<1>. HIDE DEF types, D
<1>5. StatementRight(decls, frames, [kind |-> "return", to |-> Null, types |-> types], D)
  BY <1>3, <1>4 DEF StatementRight
<1>. QED
  BY <1>5 DEF types, D

LEMMA StatementMoves ==
  ASSUME IInv, IInv', Tree(decls, frames), InBody, NEW kind \in Texts, NEW made \in Seq(StmtType),
         Statement(kind, made),
         \A s \in Elements(made) : StatementRight(decls, frames, s, Top.decl)
  PROVE  Tree(decls', frames')
<1>. DEFINE f == [Top EXCEPT !.stmts = @ \o made, !.at = "end", !.text = kind]
<1>1. Top \in FrameType /\ Top.at = "stmt" /\ pc = "parsing"
  BY TopFacts DEF InBody, At
<1>2. Top.stmts \in Seq(StmtType)
  BY <1>1 DEF FrameType
<1>3. /\ f \in FrameType /\ f.decl = Top.decl /\ f.list = Top.list /\ f.formals = Top.formals
      /\ f.stmts = Top.stmts \o made /\ f.at = "end"
  <2>1. Top.stmts \o made \in Seq(StmtType)
    BY <1>2, ConcatProperties
  <2>. QED
    BY <1>1, <2>1 DEF FrameType, Places
<1>4. UNCHANGED decls /\ SetTop(f)
  BY DEF Statement, KeepSema
<1>. HIDE DEF f
<1>5. Elements(f.stmts) \subseteq Elements(Top.stmts) \cup Elements(made)
  BY <1>2, <1>3, Joining
<1>6. Moves(f)
  BY <1>1, <1>3, <1>4, <1>5 DEF Moves, InHeading
<1>. QED
  BY <1>4, <1>6, MoveKeeps

-----------------------------------------------------------------------------
(* Each action of the parser, when nothing is reported.                    *)
LEMMA SameTree ==
  ASSUME Tree(decls, frames), UNCHANGED <<decls, frames>>
  PROVE  Tree(decls', frames')
OBVIOUS

LEMMA PlaceKeepsTree ==
  ASSUME IInv, IInv', Tree(decls, frames), pc = "parsing", NEW f \in FrameType, SetTop(f),
         UNCHANGED decls, f.decl = Top.decl, f.list = Top.list, f.formals = Top.formals,
         f.stmts = Top.stmts, InHeading(f) <=> InHeading(Top)
  PROVE  Tree(decls', frames')
<1>1. Moves(f)
  BY DEF Moves
<1>. QED
  BY <1>1, MoveKeeps

LEMMA DeclarationsKeep ==
  ASSUME IInv, IInv', Tree(decls, frames), ~reported', NextDeclaration
  PROVE  Tree(decls', frames')
<1>0. pc = "parsing"
  BY DEF NextDeclaration, VariableDeclaration, FormalParameter, DeclareVariable, DeclareParameter,
         ProcedureDeclaration, ReturnType, EndProcedure, NoReturnType, EnterBody, At
<1>1. /\ Top \in FrameType /\ Top.type \in Nat /\ Top.isVar \in BOOLEAN
      /\ curDecl = Top.decl /\ curDecl \in Nat
      /\ Len(frames) \in Nat \ {0} /\ Top = frames[Len(frames)] /\ Len(frames) \in 1 .. Len(frames)
  BY <1>0, TopFacts, AtFacts DEF FrameType
<1>2. ASSUME NEW n \in Names, VariableDeclaration(n)
      PROVE  Tree(decls', frames')
  <2>. DEFINE D == Lookup(n)
              f == [Top EXCEPT !.at = "vars", !.type = D]
  <2>1. CASE SetTop(f)
    <3>1. D \in Nat
      BY LookupTyped
    <3>. HIDE DEF D
    <3>2. /\ f \in FrameType /\ f.decl = Top.decl /\ f.list = Top.list
          /\ f.formals = Top.formals /\ f.stmts = Top.stmts /\ f.at = "vars"
      BY <1>1, <3>1 DEF FrameType, Places
    <3>3. UNCHANGED decls /\ Top.at = "block"
      BY <1>2 DEF VariableDeclaration, At
    <3>. HIDE DEF f
    <3>. QED
      BY <1>0, <2>1, <3>2, <3>3, PlaceKeepsTree DEF InHeading
  <2>2. CASE UNCHANGED frames
    BY <1>2, <2>2, SameTree DEF VariableDeclaration
  <2>. QED
    BY <1>2, <2>1, <2>2 DEF VariableDeclaration
<1>3. ASSUME NEW n \in Names, NEW isVar \in BOOLEAN, FormalParameter(n, isVar)
      PROVE  Tree(decls', frames')
  <2>. DEFINE D == Lookup(n)
              f == [Top EXCEPT !.at = "params", !.type = D, !.isVar = isVar]
  <2>1. SetTop(f) /\ UNCHANGED decls /\ Top.at = "formals"
    BY <1>3 DEF FormalParameter, At
  <2>2. D \in Nat
    BY LookupTyped
  <2>. HIDE DEF D
  <2>3. /\ f \in FrameType /\ f.decl = Top.decl /\ f.list = Top.list
        /\ f.formals = Top.formals /\ f.stmts = Top.stmts /\ f.at = "params"
    BY <1>1, <2>2 DEF FrameType, Places
  <2>. HIDE DEF f
  <2>. QED
    BY <1>0, <2>1, <2>3, PlaceKeepsTree DEF InHeading
<1>4. ASSUME NEW name, NEW f \in FrameType, NEW kind \in {"Var", "Param"}, SetTop(f),
             Declare(kind, name), name \in Names,
             f.decl = Top.decl, f.stmts = Top.stmts, InHeading(f) <=> InHeading(Top),
             kind = "Param" => InHeading(Top)
      PROVE  Grows(Declaration(kind, curDecl, name, Top.type, Top.isVar))
  <2>. DEFINE x == Declaration(kind, curDecl, name, Top.type, Top.isVar)
  <2>1. x \in DeclType
    BY <1>1, <1>4, DeclarationTyped
  <2>2. x.encl = Top.decl /\ x.text = "open" /\ x.kind = kind
    BY <1>1 DEF Declaration
  <2>3. decls' = Append(decls, x)
    BY <1>4 DEF Declare
  <2>. HIDE DEF x
  <2>4. /\ Len(frames') = Len(frames)
        /\ \A k \in 1 .. Len(frames) : frames'[k] = IF k = Len(frames) THEN f ELSE frames[k]
    <3>1. DataTyped /\ frames # <<>>
      BY <1>0, AtFacts
    <3>. QED
      BY <1>4, <3>1, SetTopTyped
  <2>5. Grows(x)
    BY <1>0, <1>1, <1>4, <2>1, <2>2, <2>3, <2>4 DEF Grows
  <2>. QED
    BY <2>5 DEF x
<1>5. ASSUME NEW name \in Names, NEW more \in BOOLEAN, DeclareVariable(name, more)
      PROVE  Tree(decls', frames')
  <2>. DEFINE f == [Top EXCEPT !.list = Pushed(@, name), !.type = IF more THEN @ ELSE Null,
                               !.at = IF more THEN @ ELSE "block"]
              x == Declaration("Var", curDecl, name, Top.type, Top.isVar)
  <2>1. Declare("Var", name) /\ SetTop(f) /\ Top.at = "vars"
    BY <1>5 DEF DeclareVariable, At
  <2>2. Pushed(Top.list, name) = Append(Top.list, Len(decls) + 1)
    BY <2>1 DEF Declare, Pushed
  <2>3. Append(Top.list, Len(decls) + 1) \in Seq(Nat)
    BY <1>0, <1>1, AtFacts, AppendProperties DEF FrameType
  <2>4. /\ f \in FrameType /\ f.decl = Top.decl /\ f.stmts = Top.stmts /\ f.formals = Top.formals
        /\ f.list = Append(Top.list, Len(decls) + 1) /\ f.at \in {"vars", "block"}
    BY <1>1, <2>1, <2>2, <2>3 DEF FrameType, Places, Null
  <2>. HIDE DEF f
  <2>5. InHeading(f) <=> InHeading(Top)
    BY <2>1, <2>4 DEF InHeading
  <2>6. Grows(x)
    BY <1>4, <2>1, <2>4, <2>5
  <2>7. x.kind = "Var"
    BY DEF Declaration
  <2>. HIDE DEF x
  <2>. QED
    BY <2>1, <2>4, <2>6, <2>7, NameKeeps
<1>6. ASSUME NEW name \in Names, NEW more \in BOOLEAN, DeclareParameter(name, more)
      PROVE  Tree(decls', frames')
  <2>. DEFINE f == [Top EXCEPT !.formals = Pushed(@, name), !.isVar = more /\ @,
                               !.type = IF more THEN @ ELSE Null,
                               !.at = IF more THEN @ ELSE "formals"]
              x == Declaration("Param", curDecl, name, Top.type, Top.isVar)
  <2>1. Declare("Param", name) /\ SetTop(f) /\ Top.at = "params"
    BY <1>6 DEF DeclareParameter, At
  <2>2. Pushed(Top.formals, name) = Append(Top.formals, Len(decls) + 1)
    BY <2>1 DEF Declare, Pushed
  <2>3. Append(Top.formals, Len(decls) + 1) \in Seq(Nat)
    BY <1>0, <1>1, AtFacts, AppendProperties DEF FrameType
  <2>4. /\ f \in FrameType /\ f.decl = Top.decl /\ f.stmts = Top.stmts /\ f.list = Top.list
        /\ f.formals = Append(Top.formals, Len(decls) + 1) /\ f.at \in {"params", "formals"}
    BY <1>1, <2>1, <2>2, <2>3 DEF FrameType, Places, Null
  <2>. HIDE DEF f
  <2>5. InHeading(f) /\ InHeading(Top)
    BY <2>1, <2>4 DEF InHeading
  <2>6. Grows(x)
    BY <1>4, <2>1, <2>4, <2>5
  <2>7. x.kind = "Param"
    BY DEF Declaration
  <2>. HIDE DEF x
  <2>. QED
    BY <2>1, <2>4, <2>6, <2>7, NameKeeps
<1>7. ASSUME NEW name \in Names, ProcedureDeclaration(name)
      PROVE  Tree(decls', frames')
  <2>. DEFINE x == Declaration("Proc", curDecl, name, Null, FALSE)
              f == Frame(Len(decls) + 1, "formals")
  <2>1. x \in DeclType
    BY <1>1, DeclarationTyped DEF Null
  <2>2. x.encl = Top.decl /\ x.text = "open" /\ x.kind = "Proc"
    BY <1>1 DEF Declaration
  <2>3. decls' = Append(decls, x) /\ frames' = Append(frames, f) /\ At("block")
    BY <1>7 DEF ProcedureDeclaration
  <2>. HIDE DEF x
  <2>4. f \in FrameType /\ InHeading(f)
    <3>1. Len(decls) + 1 \in Nat /\ "formals" \in Places
      BY <1>0, AtFacts DEF Places
    <3>2. InHeading(f)
      BY DEF InHeading, Frame
    <3>. QED
      BY <3>1, <3>2, FrameTyped
  <2>. HIDE DEF f
  <2>5. /\ Len(frames') = Len(frames) + 1 /\ frames'[Len(frames) + 1] = f
        /\ \A k \in 1 .. Len(frames) : frames'[k] = frames[k]
    <3>1. frames \in Seq(FrameType)
      BY DEF IInv, DataTyped
    <3>. QED
      BY <2>3, <2>4, <3>1, AppendProperties
  <2>6. \A k \in 1 .. Len(frames') : k > Len(frames) => k = Len(frames) + 1
    BY <1>1, <2>5
  <2>7. Len(frames) <= Len(frames') /\ Len(frames') \in Nat
    BY <1>1, <2>5
  <2>8. Grows(x)
    BY <1>0, <2>1, <2>2, <2>3, <2>4, <2>5, <2>6, <2>7 DEF Grows
  <2>. QED
    BY <2>2, <2>3, <2>8, EnteringKeeps DEF f
<1>8. ASSUME NEW n \in Names, ReturnType(n)
      PROVE  Tree(decls', frames')
  <2>. DEFINE D == Lookup(n)
  <2>1. IsType(D) /\ D \in Nat
    <3>1. IsType(D)
      BY <1>8 DEF ReturnType
    <3>2. D \in 0 .. Len(decls) /\ Len(decls) \in Nat
      BY LookupTyped
    <3>. QED
      BY <3>1, <3>2
  <2>2. SetHeading(D)
    BY <1>8, <2>1 DEF ReturnType
  <2>3. At("formals") /\ SetTop([Top EXCEPT !.at = "block"])
    BY <1>8 DEF ReturnType
  <2>. HIDE DEF D
  <2>. QED
    BY <2>1, <2>2, <2>3, HeadingKeeps
<1>9. CASE NoReturnType
  BY <1>9, HeadingKeeps DEF NoReturnType, Null
<1>10. CASE EnterBody
  <2>1. PICK place \in {"end", "stmt"} : SetTop([Top EXCEPT !.at = place])
    BY <1>10 DEF EnterBody
  <2>. DEFINE f == [Top EXCEPT !.at = place]
  <2>2. /\ f \in FrameType /\ f.decl = Top.decl /\ f.list = Top.list
        /\ f.formals = Top.formals /\ f.stmts = Top.stmts /\ f.at = place
    BY <1>1 DEF FrameType, Places
  <2>3. UNCHANGED decls /\ Top.at = "block"
    BY <1>10 DEF EnterBody, At
  <2>. HIDE DEF f
  <2>4. InHeading(f) <=> InHeading(Top)
    BY <2>2, <2>3 DEF InHeading
  <2>. QED
    BY <1>0, <2>1, <2>2, <2>3, <2>4, PlaceKeepsTree DEF f
<1>11. Continues \subseteq BOOLEAN
  BY DEF Continues
<1>. QED
  BY <1>2, <1>3, <1>5, <1>6, <1>7, <1>8, <1>9, <1>10, <1>11, EndingKeeps DEF NextDeclaration

LEMMA StatementsKeep ==
  ASSUME IInv, IInv', Tree(decls, frames), ~reported', InBody, NextStatement, ~Crash
  PROVE  Tree(decls', frames')
<1>0. At("stmt") /\ pc = "parsing" /\ \A s : Elements(<<s>>) = {s} /\ Elements(<<>>) = {}
  BY NothingIn DEF InBody, At
<1>1. ASSUME NEW n \in Names, NEW args, Use(n) \/ FunctionCall(n, args)
      PROVE  Tree(decls', frames')
  BY <1>1, SameTree DEF Use, FunctionCall, KeepSema
<1>2. ASSUME NEW kind \in Texts, Statement(kind, <<>>)
      PROVE  Tree(decls', frames')
  <2>. DEFINE made == <<>>
  <2>1. made \in Seq(StmtType) /\ Elements(made) = {}
    BY <1>0, EmptySeq
  <2>2. Statement(kind, made)
    BY <1>2
  <2>. HIDE DEF made
  <2>. QED
    BY <2>1, <2>2, StatementMoves
<1>3. ASSUME NEW kind \in Texts, NEW s, << s >> \in Seq(StmtType), Statement(kind, << s >>),
             StatementRight(decls, frames, s, Top.decl)
      PROVE  Tree(decls', frames')
  <2>. DEFINE made == << s >>
  <2>1. made \in Seq(StmtType) /\ Elements(made) = {s} /\ Statement(kind, made)
    BY <1>0, <1>3
  <2>. HIDE DEF made
  <2>. QED
    BY <1>3, <2>1, StatementMoves
<1>4. ASSUME NEW n \in Names, NEW args \in ArgLists, ProcCall(n, args)
      PROVE  Tree(decls', frames')
  <2>. DEFINE D == Lookup(n)
              s == [kind |-> "call", to |-> D, types |-> [i \in DOMAIN args |-> args[i].type]]
  <2>1. /\ D # Null /\ decls[D].kind = "Proc" /\ ~ArgumentsReported(D, args)
        /\ Statement("call", << s >>)
    BY <1>4 DEF ProcCall, Report
  <2>2. StatementRight(decls, frames, s, Top.decl)
    BY <1>0, <2>1, CallRight
  <2>3. << s >> \in Seq(StmtType)
    BY <1>0, <2>1, CallTyped
  <2>. HIDE DEF s
  <2>. QED
    BY <1>3, <2>1, <2>2, <2>3 DEF Texts
<1>5. ASSUME NEW n \in Names, NEW E \in Exprs, NEW indexed, Assignment(n, E, indexed)
      PROVE  Tree(decls', frames')
  <2>. DEFINE D == Lookup(n)
              s == [kind |-> "assign", to |-> D, types |-> <<E.type>>]
  <2>1. CASE Statement("assign", <<>>)
    BY <1>2, <2>1 DEF Texts
  <2>2. CASE /\ D # Null /\ Report(indexed \/ decls[D].type # E.type)
             /\ Statement("assign", << s >>)
    <3>1. D \in 1 .. Len(decls)
      <4>1. D \in 0 .. Len(decls) /\ Len(decls) \in Nat
        BY LookupTyped
      <4>. HIDE DEF D
      <4>. QED
        BY <2>2, <4>1 DEF Null
    <3>2. decls[D].type = E.type
      BY <2>2 DEF Report
    <3>3. E.type \in Nat \cup {Unset}
      BY <1>0, ExprsTyped
    <3>4. << s >> \in Seq(StmtType)
      <4>1. <<E.type>> \in Seq(Nat \cup {Unset}) /\ D \in Nat
        <5>. HIDE DEF D
        <5>. QED
          BY <3>1, <3>3
      <4>. HIDE DEF D
      <4>. QED
        BY <4>1, SingleStatement
    <3>5. StatementRight(decls, frames, s, Top.decl)
      <4>. HIDE DEF D
      <4>. QED
        BY <3>1, <3>2 DEF StatementRight
    <3>. HIDE DEF s
    <3>. QED
      BY <1>3, <2>2, <3>4, <3>5 DEF Texts
  <2>. QED
    BY <1>5, <2>1, <2>2 DEF Assignment
<1>6. ASSUME NEW E \in Exprs, Return(E)
      PROVE  Tree(decls', frames')
  <2>. DEFINE types == IF E = NoExpr THEN <<>> ELSE <<E.type>>
              s == [kind |-> "return", to |-> Null, types |-> types]
  <2>1. Statement("return", << s >>) /\ curDecl # Null
    BY <1>6 DEF Return
  <2>2. StatementRight(decls, frames, s, Top.decl)
    <3>1. LET ret == decls[curDecl].ret IN
          ~(\/ ret # Null /\ E = NoExpr
            \/ ret = Null /\ E # NoExpr
            \/ ret # Null /\ E # NoExpr /\ ret # E.type)
      BY <1>6 DEF Return, Report
    <3>. QED
      BY <1>0, <2>1, <3>1, ReturnRight
  <2>3. types \in Seq(Nat \cup {Unset})
    <3>1. E.type \in Nat \cup {Unset}
      BY <1>0, ExprsTyped
    <3>2. <<>> \in Seq(Nat \cup {Unset}) /\ <<E.type>> \in Seq(Nat \cup {Unset})
      BY <3>1
    <3>. QED
      BY <3>2
  <2>4. << s >> \in Seq(StmtType)
    <3>. HIDE DEF types
    <3>. QED
      BY <2>3, SingleStatement DEF Null
  <2>. HIDE DEF s
  <2>. QED
    BY <1>3, <2>1, <2>2, <2>4 DEF Texts
<1>7. ASSUME NEW E \in Exprs, While(E)
      PROVE  Tree(decls', frames')
  <2>. DEFINE s == [kind |-> "while", to |-> Null, types |-> <<>>]
  <2>1. Statement("while", << s >>)
    BY <1>7 DEF While
  <2>2. << s >> \in Seq(StmtType)
    BY SingleStatement, EmptySeq DEF Null
  <2>3. StatementRight(decls, frames, s, Top.decl)
    BY DEF StatementRight
  <2>. HIDE DEF s
  <2>. QED
    BY <1>3, <2>1, <2>2, <2>3 DEF Texts
<1>. QED
  BY <1>1, <1>4, <1>5, <1>6, <1>7 DEF NextStatement, AssignmentOfNull, ReturnInModule

LEMMA OutsideKeeps ==
  ASSUME IInv, IInv', Tree(decls, frames),
         NotAModule \/ EnterModule \/ Import \/ EnterBlock
  PROVE  Tree(decls', frames')
<1>1. CASE NotAModule \/ Import
  BY <1>1, SameTree DEF NotAModule, Import
<1>2. CASE EnterBlock
  <2>. DEFINE f == [Top EXCEPT !.at = "block"]
  <2>1. Top \in FrameType /\ Top.at = "imports" /\ pc = "parsing" /\ UNCHANGED decls /\ SetTop(f)
    BY <1>2, AtFacts DEF EnterBlock, At
  <2>2. /\ f \in FrameType /\ f.decl = Top.decl /\ f.list = Top.list
        /\ f.formals = Top.formals /\ f.stmts = Top.stmts /\ f.at = "block"
    BY <2>1 DEF FrameType, Places
  <2>. HIDE DEF f
  <2>. QED
    BY <2>1, <2>2, PlaceKeepsTree DEF InHeading
<1>3. CASE EnterModule
  <2>. DEFINE f == Frame(0, "imports")
  <2>1. decls' = decls /\ frames' = << f >> /\ Len(decls) = 4 /\ frames = <<>>
    BY <1>3 DEF EnterModule, IInv, Stages, Null
  <2>2. f.decl = 0 /\ f.list = <<>> /\ f.formals = <<>>
    BY DEF Frame
  <2>. HIDE DEF f
  <2>3. Len(frames') = 1 /\ frames'[1] = f
    BY <2>1
  <2>4. PervasivesRight(decls)
    BY DEF Tree
  <2>5. \A d \in 1 .. Len(decls) : decls[d].kind \notin {"Var", "Param", "Proc"}
    BY <2>1, <2>4 DEF PervasivesRight
  <2>6. /\ Children(decls, 0, {"Var", "Proc"}) = {}
        /\ Children(decls, 0, {"Param"}) = {}
    BY <2>5 DEF Children
  <2>7. Inner(frames', 1) = {}
    BY <2>3 DEF Inner
  <2>8. /\ \A d \in 1 .. Len(decls) : ~Finished(decls, d)
        /\ \A d \in 1 .. Len(decls) : ~Headed(decls, frames', d)
    BY <2>3, <2>5 DEF Finished, Headed
  <2>9. ListsRight(decls, frames', 1)
    BY <2>2, <2>3, <2>6, <2>7, NothingIn DEF ListsRight
  <2>10. PlaceRight(decls, frames', 1) /\ BodyRight(decls, frames', 1)
    BY <2>3 DEF PlaceRight, BodyRight
  <2>11. Tree(decls, frames')
    BY <2>3, <2>4, <2>8, <2>9, <2>10 DEF Tree
  <2>. QED
    BY <2>1, <2>11
<1>. QED
  BY <1>1, <1>2, <1>3

LEMMA EmptyTree == Tree(<<>>, <<>>)
<1>1. Len(<<>>) = 0
  BY EmptySeq
<1>. QED
  BY <1>1 DEF Tree, PervasivesRight

LEMMA InitTree == Init => Tree(decls, frames)
<1>. SUFFICES ASSUME Init
              PROVE  Tree(decls, frames)
  OBVIOUS
<1>1. /\ Pervasives[1].kind = "PervasiveType" /\ Pervasives[2].kind = "PervasiveType"
      /\ Pervasives[3].kind = "Const" /\ Pervasives[4].kind = "Const"
  BY DEF Pervasives, Pervasive, Declaration
<1>. HIDE DEF Pervasives
<1>2. decls = Pervasives /\ frames = <<>> /\ Len(decls) = 4 /\ Len(frames) = 0
  BY PervasiveFacts, EmptySeq DEF Init
<1>3. \A d \in 1 .. 4 : decls[d].kind \notin {"Var", "Param", "Proc"}
  <2>1. \A d \in 1 .. 4 : d = 1 \/ d = 2 \/ d = 3 \/ d = 4
    OBVIOUS
  <2>. QED
    BY <1>1, <1>2, <2>1
<1>4. PervasivesRight(decls)
  BY <1>3 DEF PervasivesRight
<1>5. \A d \in 1 .. Len(decls) : ~Finished(decls, d) /\ ~Headed(decls, frames, d)
  BY <1>2, <1>3 DEF Finished, Headed
<1>. QED
  BY <1>2, <1>4, <1>5 DEF Tree

LEMMA NextTree ==
  ASSUME IInv, IInv', TreeInv, [Next]_vars
  PROVE  TreeInv'
<1>. SUFFICES ASSUME ~reported'
              PROVE  Tree(decls', frames')
  BY DEF TreeInv
<1>1. CASE Crash
  <2>1. decls' = <<>> /\ frames' = <<>>
    BY <1>1 DEF Crash
  <2>. QED
    BY <2>1, EmptyTree
<1>2. CASE UNCHANGED vars
  BY <1>2, SameTree DEF vars, TreeInv
<1>3. CASE Next /\ ~Crash
  <2>1. Tree(decls, frames)
    BY <1>3, ReportsStay DEF TreeInv
  <2>2. \/ NotAModule \/ EnterModule \/ Import \/ EnterBlock
        \/ NextDeclaration \/ (InBody /\ NextStatement)
        \/ \E n \in Names : DropParameters(n)
    BY <1>3 DEF Next, Parsing, UndeclaredName, TypeMissingAtEof, EndModule, Fail
  <2>3. ASSUME NEW n \in Names, DropParameters(n)
        PROVE  Tree(decls', frames')
    BY <2>1, <2>3, SameTree DEF DropParameters
  <2>. QED
    BY <1>3, <2>1, <2>2, <2>3, OutsideKeeps, DeclarationsKeep, StatementsKeep
<1>. QED
  BY <1>1, <1>2, <1>3

LEMMA SpecTree == Spec => [](IInv /\ TreeInv)
<1>1. Init => IInv /\ TreeInv
  BY InitIInv, InitTree DEF TreeInv
<1>2. IInv /\ TreeInv /\ [Next]_vars => (IInv /\ TreeInv)'
  BY NextIInv, NextTree
<1>. QED
  BY <1>1, <1>2, PTL DEF Spec

-----------------------------------------------------------------------------
LEMMA SameWords ==
  /\ \A d : Complete(d) <=> Finished(decls, d)
  /\ \A d, kinds : Declared(d, kinds) = Children(decls, d, kinds)
BY DEF Complete, Finished, Declared, Children

(* While nothing is reported, a procedure that was parsed to its end lists *)
(* exactly its variables and complete procedures and the parameters        *)
(* declared for it, in the order of the text, and has its return type      *)
(* (Parser.cc:390-429); and of the parameters of the text only groups      *)
(* before the first one declared can be missing (Sema.cc:179).             *)
THEOREM CompleteTreesAreRight == Spec => []TreeIsComplete
<1>1. ASSUME IInv, TreeInv, DropsRight
      PROVE  TreeIsComplete
  <2>0. ~reported => dropped \subseteq {0}
    BY <1>1 DEF DropsRight
  <2>. SUFFICES ASSUME ~reported, NEW d \in 1 .. Len(decls), Finished(decls, d)
                PROVE  /\ Elements(decls[d].params) = Declared(d, {"Param"})
                       /\ Elements(decls[d].members) = Declared(d, {"Var", "Proc"})
                       /\ Ascending(decls[d].params) /\ Ascending(decls[d].members)
                       /\ decls[d].ret # Unset
                       /\ \A m \in Elements(decls[d].members) :
                            decls[m].kind = "Proc" => Complete(m)
    BY <2>0, SameWords DEF TreeIsComplete
  <2>1. Headed(decls, frames, d)
    BY DEF Headed
  <2>2. HeadingRight(decls, d) /\ FinishedRight(decls, frames, d)
    BY <1>1, <2>1 DEF TreeInv, Tree
  <2>. QED
    BY <2>2, SameWords DEF HeadingRight, FinishedRight
<1>. QED
  BY <1>1, SpecTree, SpecDrops, PTL

(* Calls, returns and assignments to parameters that no message was        *)
(* reported for fit the declarations they refer to (actOnProcCall,         *)
(* actOnReturnStatement and actOnAssignment, Sema.cc:417-460 and 543-554), *)
(* whatever was declared after the heading they were compared with.        *)
THEOREM StatementsFitDeclarations == Spec => []StatementsAreTyped
<1>1. ASSUME IInv, TreeInv
      PROVE  StatementsAreTyped
  <2>. SUFFICES ASSUME ~reported, NEW d \in 1 .. Len(decls), Finished(decls, d),
                       NEW s \in Elements(decls[d].stmts)
                PROVE  /\ s.kind = "call" =>
                            \E f \in [DOMAIN s.types -> Declared(s.to, {"Param"})] :
                              /\ Ascending(f) /\ Elements(f) = Declared(s.to, {"Param"})
                              /\ \A i \in DOMAIN f : decls[f[i]].type = s.types[i]
                       /\ s.kind = "return" =>
                            s.types = IF decls[d].ret = Null THEN <<>> ELSE <<decls[d].ret>>
                       /\ s.kind = "assign" => s.types = <<decls[s.to].type>>
    BY SameWords DEF StatementsAreTyped
  <2>1. StatementRight(decls, frames, s, d)
    BY <1>1 DEF TreeInv, Tree, FinishedRight
  <2>2. ASSUME s.kind = "call"
        PROVE  \E f \in [DOMAIN s.types -> Declared(s.to, {"Param"})] :
                 /\ Ascending(f) /\ Elements(f) = Declared(s.to, {"Param"})
                 /\ \A i \in DOMAIN f : decls[f[i]].type = s.types[i]
    <3>. DEFINE f == decls[s.to].params
    <3>1. /\ Headed(decls, frames, s.to) /\ DOMAIN s.types = DOMAIN f
          /\ \A i \in DOMAIN s.types : decls[f[i]].type = s.types[i]
      BY <2>1, <2>2 DEF StatementRight
    <3>2. Elements(f) = Declared(s.to, {"Param"}) /\ Ascending(f)
      <4>1. HeadingRight(decls, s.to)
        BY <1>1, <3>1 DEF Headed, TreeInv, Tree
      <4>. QED
        BY <4>1, SameWords DEF HeadingRight
    <3>3. f \in Seq(Nat)
      <4>1. decls[s.to] \in DeclType
        BY <1>1, <3>1, ElementOfSeq DEF Headed, IInv, DataTyped
      <4>. QED
        BY <4>1 DEF DeclType
    <3>. HIDE DEF f
    <3>4. f = [i \in 1 .. Len(f) |-> f[i]] /\ DOMAIN f = 1 .. Len(f)
      BY <3>3, LenProperties
    <3>5. f \in [DOMAIN s.types -> Elements(f)]
      BY <3>1, <3>4 DEF Elements
    <3>. QED
      BY <3>1, <3>2, <3>5
  <2>. QED
    BY <2>1, <2>2 DEF StatementRight
<1>. QED
  BY <1>1, SpecTree, PTL
=============================================================================
