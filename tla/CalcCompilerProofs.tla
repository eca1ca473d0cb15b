-------------------------- MODULE CalcCompilerProofs --------------------------
(***************************************************************************)
(* Proofs about CalcCompiler, for every alphabet, spelling, width of the   *)
(* integers and length of the text: type correctness, that Sema accepts    *)
(* only trees CodeGen can translate, that answers reach their own          *)
(* variables, and that the compiler and the programs it emits implement    *)
(* CalcLanguage.                                                           *)
(*                                                                         *)
(* The functions that walk the tree are recursive: they are unfolded with  *)
(* TreeRecursion, children coming before their parents in the heap, and    *)
(* what holds of every node is proved by course-of-values induction.       *)
(***************************************************************************)
EXTENDS CalcCompiler, CalcParserProofs, FiniteSetTheorems

(* A tree that CodeGen may be handed, the lookahead past the text's end.   *)
Sound ==
  /\ TypeOK /\ HeapIsMade
  /\ \A n \in 1 .. Len(heap) : heap[n].kind = "With" => n = Len(heap)

N == Len(heap)

LEMMA SoundNodes ==
  ASSUME Sound
  PROVE  /\ N \in Nat
         /\ \A n \in 1 .. N :
              /\ heap[n].kind \in {"Factor", "BinaryOp", "With"}
              /\ heap[n].left \in Nat /\ heap[n].right \in Nat
              /\ heap[n].kind = "Factor" =>
                   /\ heap[n].vals[1] \in 1 .. Len(input)
                   /\ input[heap[n].vals[1]] \in {"number", "ident"}
              /\ heap[n].kind = "BinaryOp" =>
                   heap[n].op \in Operators /\ heap[n].left < n /\ heap[n].right < n
              /\ heap[n].kind = "With" =>
                   /\ heap[n].left < n /\ heap[n].right = Null /\ heap[n].vals \in Seq(Nat) /\ n = N
                   /\ \A v \in 1 .. Len(heap[n].vals) : NamedIn(input, heap[n].vals[v])
<1>1. N \in Nat /\ \A n \in 1 .. N : heap[n] \in NodeType
  BY LenProperties, ElementOfSeq DEF Sound, TypeOK, N
<1>2. ASSUME NEW n \in 1 .. N
      PROVE  /\ heap[n].kind \in {"Factor", "BinaryOp", "With"}
             /\ heap[n].left \in Nat /\ heap[n].right \in Nat /\ heap[n].vals \in Seq(Nat)
  BY <1>1 DEF NodeType
<1>3. ASSUME NEW n \in 1 .. N
      PROVE  WellMade(input, heap[n], n) /\ (heap[n].kind = "With" => n = N)
  BY DEF Sound, HeapIsMade, N
<1>4. ASSUME NEW n \in 1 .. N, heap[n].kind = "Factor"
      PROVE  heap[n].vals[1] \in 1 .. Len(input) /\ input[heap[n].vals[1]] \in {"number", "ident"}
  BY <1>3, <1>4 DEF WellMade
<1>5. ASSUME NEW n \in 1 .. N, heap[n].kind = "BinaryOp"
      PROVE  heap[n].op \in Operators /\ heap[n].left < n /\ heap[n].right < n
  BY <1>3, <1>5 DEF WellMade
<1>6. ASSUME NEW n \in 1 .. N, heap[n].kind = "With"
      PROVE  heap[n].left < n /\ heap[n].right = Null /\ \A v \in 1 .. Len(heap[n].vals) : NamedIn(input, heap[n].vals[v])
  BY <1>3, <1>6 DEF WellMade
<1>. QED
  BY <1>1, <1>2, <1>3, <1>4, <1>5, <1>6

(* Both children of an operator, and 0 for the other nodes.                *)
LeftOf  == [n \in 1 .. N |-> IF heap[n].kind = "BinaryOp" THEN heap[n].left ELSE 0]
RightOf == [n \in 1 .. N |-> IF heap[n].kind = "BinaryOp" THEN heap[n].right ELSE 0]

LEMMA ChildrenBefore ==
  ASSUME Sound
  PROVE  /\ N \in Nat /\ IsTree(N, LeftOf, RightOf)
         /\ \A n \in 1 .. N : LeftOf[n] \in 0 .. n - 1 /\ RightOf[n] \in 0 .. n - 1
BY SoundNodes DEF LeftOf, RightOf, IsTree

-----------------------------------------------------------------------------
(* Size satisfies its equation.                                            *)
LEMMA SizeIs ==
  ASSUME Sound
  PROVE  /\ Size \in [0 .. N -> Nat] /\ Size[0] = 0
         /\ \A n \in 1 .. N :
              Size[n] = IF heap[n].kind # "BinaryOp" THEN 0
                        ELSE Size[heap[n].left] + Size[heap[n].right] + 1
<1>. DEFINE comb == [n \in 1 .. N |-> [x \in Nat |-> [y \in Nat |->
                      IF heap[n].kind # "BinaryOp" THEN 0 ELSE x + y + 1]]]
            Body(f, n) == IF n = Null \/ heap[n].kind # "BinaryOp" THEN 0
                          ELSE f[heap[n].left] + f[heap[n].right] + 1
            Equation(f) == f = [n \in 0 .. Len(heap) |-> Body(f, n)]
<1>1. /\ N \in Nat /\ IsTree(N, LeftOf, RightOf)
      /\ \A n \in 1 .. N : LeftOf[n] \in 0 .. n - 1 /\ RightOf[n] \in 0 .. n - 1
  BY ChildrenBefore
<1>2. comb \in [1 .. N -> [Nat -> [Nat -> Nat]]]
  OBVIOUS
<1>3. PICK f \in [0 .. N -> Nat] :
        f[0] = 0 /\ \A n \in 1 .. N : f[n] = comb[n][f[LeftOf[n]]][f[RightOf[n]]]
  <2>. HIDE DEF comb
  <2>1. TreeFunctions(N, LeftOf, RightOf, Nat, 0, comb) # {}
    BY <1>1, <1>2, TreeRecursion
  <2>. QED
    BY <2>1 DEF TreeFunctions
<1>4. ASSUME NEW n \in 0 .. N
      PROVE  f[n] = Body(f, n)
  <2>1. CASE n = 0
    BY <1>3, <2>1 DEF Null
  <2>2. CASE n # 0
    <3>1. n \in 1 .. N /\ LeftOf[n] \in 0 .. N /\ RightOf[n] \in 0 .. N
      BY <1>1, <2>2
    <3>2. f[n] = IF heap[n].kind # "BinaryOp" THEN 0 ELSE f[LeftOf[n]] + f[RightOf[n]] + 1
      BY <1>3, <3>1
    <3>. QED
      BY <3>1, <3>2 DEF LeftOf, RightOf, Null
  <2>. QED
    BY <2>1, <2>2
<1>5. Equation(f)
  BY <1>4 DEF N
<1>6. Size = CHOOSE g : Equation(g)
  BY DEF Size
<1>. HIDE DEF Equation
<1>7. Equation(Size)
  BY <1>5, <1>6
<1>. HIDE DEF Size
<1>8. ASSUME NEW z, Equation(z)
      PROVE  /\ DOMAIN z = 0 .. N
             /\ z = [n \in 0 .. N |-> z[n]]
             /\ \A n \in 0 .. N : z[n] = Body(z, n)
  BY <1>8 DEF Equation, N
<1>9. \A n \in 0 .. N : Size[n] = Body(Size, n)
  BY <1>7, <1>8
<1>. DEFINE S == {k \in Nat : k <= N => Size[k] \in Nat}
<1>10. ASSUME NEW n \in Nat, \A m \in Nat : m < n => m \in S
       PROVE  n \in S
  <2>. SUFFICES ASSUME n <= N PROVE Size[n] \in Nat
    OBVIOUS
  <2>1. n \in 0 .. N /\ Size[n] = Body(Size, n)
    BY <1>1, <1>9
  <2>2. CASE n = Null \/ heap[n].kind # "BinaryOp"
    BY <2>1, <2>2
  <2>3. CASE ~(n = Null \/ heap[n].kind # "BinaryOp")
    <3>1. n \in 1 .. N
      BY <2>1, <2>3 DEF Null
    <3>2. /\ heap[n].left \in Nat /\ heap[n].left < n
          /\ heap[n].right \in Nat /\ heap[n].right < n
      BY <2>3, <3>1, SoundNodes
    <3>3. heap[n].left \in S /\ heap[n].right \in S
      BY <1>10, <3>2
    <3>4. heap[n].left <= N /\ heap[n].right <= N
      BY <1>1, <3>2
    <3>5. Size[heap[n].left] \in Nat /\ Size[heap[n].right] \in Nat
      BY <3>3, <3>4
    <3>. QED
      BY <2>1, <2>3, <3>5
  <2>. QED
    BY <2>2, <2>3
<1>. HIDE DEF S
<1>11. \A n \in Nat : n \in S
  BY <1>10, CourseOfValues
<1>12. \A n \in 0 .. N : Size[n] \in Nat
  BY <1>1, <1>11 DEF S
<1>13. Size \in [0 .. N -> Nat]
  <2>1. Size = [n \in 0 .. N |-> Size[n]]
    BY <1>7, <1>8
  <2>. QED
    BY <1>12, <2>1
<1>14. Size[0] = 0
  BY <1>1, <1>9 DEF Null
<1>15. \A n \in 1 .. N : Size[n] = Body(Size, n) /\ n # Null
  BY <1>1, <1>9 DEF Null
<1>. QED
  BY <1>13, <1>14, <1>15

(* DeclErr satisfies its equation.                                         *)
LEMMA DeclErrIs ==
  ASSUME Sound, NEW scope
  PROVE  \A n \in 1 .. N :
           DeclErr(n, scope) <=>
             IF heap[n].kind = "Factor"
             THEN input[heap[n].vals[1]] = "ident" /\ text[heap[n].vals[1]] \notin scope
             ELSE \/ heap[n].left = Null \/ heap[n].right = Null
                  \/ heap[n].left # Null /\ DeclErr(heap[n].left, scope)
                  \/ heap[n].right # Null /\ DeclErr(heap[n].right, scope)
<1>. DEFINE Unknown(n) == input[heap[n].vals[1]] = "ident" /\ text[heap[n].vals[1]] \notin scope
            Lacks(n) == heap[n].left = Null \/ heap[n].right = Null
            Body(v, n) ==
              IF heap[n].kind = "Factor" THEN Unknown(n)
              ELSE \/ heap[n].left = Null \/ heap[n].right = Null
                   \/ heap[n].left # Null /\ v[heap[n].left]
                   \/ heap[n].right # Null /\ v[heap[n].right]
            Equation(v) == v = [n \in 1 .. Len(heap) |-> Body(v, n)]
            comb == [n \in 1 .. N |-> [x \in BOOLEAN |-> [y \in BOOLEAN |->
                      IF heap[n].kind = "Factor" THEN Unknown(n) ELSE Lacks(n) \/ x \/ y]]]
            v0 == CHOOSE v : Equation(v)
<1>1. /\ N \in Nat /\ IsTree(N, LeftOf, RightOf)
      /\ \A n \in 1 .. N : LeftOf[n] \in 0 .. n - 1 /\ RightOf[n] \in 0 .. n - 1
  BY ChildrenBefore
<1>2. comb \in [1 .. N -> [BOOLEAN -> [BOOLEAN -> BOOLEAN]]]
  OBVIOUS
<1>3. PICK f \in [0 .. N -> BOOLEAN] :
        f[0] = FALSE /\ \A n \in 1 .. N : f[n] = comb[n][f[LeftOf[n]]][f[RightOf[n]]]
  <2>. HIDE DEF comb
  <2>1. TreeFunctions(N, LeftOf, RightOf, BOOLEAN, FALSE, comb) # {}
    BY <1>1, <1>2, TreeRecursion
  <2>. QED
    BY <2>1 DEF TreeFunctions
<1>. DEFINE g == [n \in 1 .. N |-> f[n]]
<1>4. ASSUME NEW n \in 1 .. N
      PROVE  g[n] = Body(g, n)
  <2>1. f[n] \in BOOLEAN /\ f[LeftOf[n]] \in BOOLEAN /\ f[RightOf[n]] \in BOOLEAN
    BY <1>1
  <2>2. f[n] = IF heap[n].kind = "Factor" THEN Unknown(n)
               ELSE Lacks(n) \/ f[LeftOf[n]] \/ f[RightOf[n]]
    BY <1>3, <2>1
  <2>3. CASE heap[n].kind = "Factor"
    BY <2>2, <2>3
  <2>4. CASE Lacks(n) /\ heap[n].kind # "Factor"
    BY <2>2, <2>4
  <2>5. CASE ~Lacks(n) /\ heap[n].kind # "Factor"
    <3>1. /\ heap[n].kind = "BinaryOp"
          /\ heap[n].left \in 1 .. N /\ heap[n].right \in 1 .. N
      <4>1. /\ heap[n].kind \in {"Factor", "BinaryOp", "With"}
            /\ heap[n].left \in Nat /\ heap[n].right \in Nat
            /\ heap[n].kind = "BinaryOp" => heap[n].left < n /\ heap[n].right < n
            /\ heap[n].kind = "With" => heap[n].right = Null
        BY SoundNodes
      <4>2. heap[n].kind = "BinaryOp" /\ heap[n].left # 0 /\ heap[n].right # 0
        BY <2>5, <4>1 DEF Null
      <4>. QED
        BY <1>1, <4>1, <4>2
    <3>2. LeftOf[n] = heap[n].left /\ RightOf[n] = heap[n].right
      BY <3>1 DEF LeftOf, RightOf
    <3>. QED
      BY <2>2, <2>5, <3>1, <3>2
  <2>. QED
    BY <2>3, <2>4, <2>5
<1>5. Equation(g)
  BY <1>4 DEF N
<1>. HIDE DEF Equation, g
<1>6. Equation(v0)
  BY <1>5
<1>. HIDE DEF v0
<1>7. \A n \in 1 .. N : v0[n] = Body(v0, n)
  <2>1. ASSUME NEW v, Equation(v)
        PROVE  \A n \in 1 .. N : v[n] = Body(v, n)
    BY <2>1 DEF Equation, N
  <2>. QED
    BY <1>6, <2>1
<1>8. \A n \in 1 .. N : DeclErr(n, scope) = v0[n]
  BY DEF DeclErr, v0, Equation
<1>9. \A n \in 1 .. N : ~Lacks(n) /\ heap[n].kind # "Factor" =>
        heap[n].left \in 1 .. N /\ heap[n].right \in 1 .. N
  BY <1>1, SoundNodes DEF Null
<1>. QED
  BY <1>7, <1>8, <1>9

(* Emitted satisfies its equation once no operand is null.                 *)
LEMMA EmittedIs ==
  ASSUME Sound, \A n \in 1 .. N : OperandsAreSet(heap[n]), NEW garbage
  PROVE  \A n \in 1 .. N, base \in Nat :
           Emitted(garbage)[n][base] =
             IF heap[n].kind # "BinaryOp" THEN <<>>
             ELSE LET l == heap[n].left
                      r == heap[n].right
                      mid == base + Size[l]
                  IN Emitted(garbage)[l][base] \o Emitted(garbage)[r][mid]
                     \o <<Binary(heap[n].op, ValueOf(l, base, garbage), ValueOf(r, mid, garbage))>>
<1>. DEFINE Last(n, base) ==
              Binary(heap[n].op, ValueOf(heap[n].left, base, garbage),
                     ValueOf(heap[n].right, base + Size[heap[n].left], garbage))
            Instructions == {Last(n, base) : n \in 1 .. N, base \in Nat}
            Codes == [Nat -> Seq(Instructions)]
            Body(e, n, base) ==
              IF heap[n].kind # "BinaryOp" THEN <<>>
              ELSE LET l == heap[n].left
                       r == heap[n].right
                       mid == base + Size[l]
                   IN e[l][base] \o e[r][mid]
                      \o <<Binary(heap[n].op, ValueOf(l, base, garbage), ValueOf(r, mid, garbage))>>
            Equation(e) == e = [n \in 1 .. Len(heap) |-> [base \in Nat |-> Body(e, n, base)]]
            Node(x, y, n) == [base \in Nat |->
                      IF heap[n].kind # "BinaryOp" THEN <<>>
                      ELSE x[base] \o y[base + Size[heap[n].left]] \o <<Last(n, base)>>]
            comb == [n \in 1 .. N |-> [x \in Codes |-> [y \in Codes |-> Node(x, y, n)]]]
            none == [base \in Nat |-> <<>>]
            e0 == CHOOSE e : Equation(e)
<1>1. /\ N \in Nat /\ IsTree(N, LeftOf, RightOf)
      /\ \A n \in 1 .. N : LeftOf[n] \in 0 .. n - 1 /\ RightOf[n] \in 0 .. n - 1
  BY ChildrenBefore
<1>2. ASSUME NEW n \in 1 .. N, heap[n].kind = "BinaryOp"
      PROVE  /\ heap[n].left \in 1 .. N /\ heap[n].right \in 1 .. N
             /\ Size[heap[n].left] \in Nat
  <2>1. /\ heap[n].left \in Nat \ {0} /\ heap[n].right \in Nat \ {0}
        /\ heap[n].left < n /\ heap[n].right < n
    BY <1>2, SoundNodes DEF OperandsAreSet, Null
  <2>2. heap[n].left \in 1 .. N /\ heap[n].right \in 1 .. N
    BY <1>1, <2>1
  <2>. QED
    BY <1>1, <2>2, SizeIs
<1>. HIDE DEF Last, Node
<1>3. ASSUME NEW n \in 1 .. N, NEW x \in Codes, NEW y \in Codes
      PROVE  Node(x, y, n) \in Codes
  <2>1. ASSUME NEW base \in Nat, heap[n].kind = "BinaryOp"
        PROVE  x[base] \o y[base + Size[heap[n].left]] \o <<Last(n, base)>> \in Seq(Instructions)
    <3>1. base + Size[heap[n].left] \in Nat
      BY <1>2, <2>1
    <3>2. Last(n, base) \in Instructions
      OBVIOUS
    <3>. HIDE DEF Instructions
    <3>3. x[base] \in Seq(Instructions) /\ y[base + Size[heap[n].left]] \in Seq(Instructions)
      BY <3>1
    <3>4. <<Last(n, base)>> \in Seq(Instructions)
      BY <3>2
    <3>. QED
      BY <3>3, <3>4, ConcatProperties
  <2>2. <<>> \in Seq(Instructions)
    BY EmptySeq
  <2>. HIDE DEF Instructions
  <2>. QED
    BY <2>1, <2>2 DEF Node
<1>4. comb \in [1 .. N -> [Codes -> [Codes -> Codes]]] /\ none \in Codes
  <2>1. <<>> \in Seq(Instructions)
    BY EmptySeq
  <2>. HIDE DEF Instructions
  <2>2. none \in Codes
    BY <2>1
  <2>. HIDE DEF Codes
  <2>. QED
    BY <1>3, <2>2
<1>5. PICK f \in [0 .. N -> Codes] :
        f[0] = none /\ \A n \in 1 .. N : f[n] = comb[n][f[LeftOf[n]]][f[RightOf[n]]]
  <2>. HIDE DEF comb, Codes, none
  <2>1. TreeFunctions(N, LeftOf, RightOf, Codes, none, comb) # {}
    BY <1>1, <1>4, TreeRecursion
  <2>. QED
    BY <2>1 DEF TreeFunctions
<1>. HIDE DEF Codes
<1>6. ASSUME NEW n \in 1 .. N
      PROVE  f[n] = Node(f[LeftOf[n]], f[RightOf[n]], n)
  <2>1. LeftOf[n] \in 0 .. N /\ RightOf[n] \in 0 .. N
    BY <1>1
  <2>2. f[LeftOf[n]] \in Codes /\ f[RightOf[n]] \in Codes
    BY <2>1
  <2>. QED
    BY <1>5, <2>2
<1>. DEFINE g == [n \in 1 .. Len(heap) |-> f[n]]
<1>7. ASSUME NEW n \in 1 .. N
      PROVE  g[n] = [base \in Nat |-> Body(g, n, base)]
  <2>1. g[n] = Node(f[LeftOf[n]], f[RightOf[n]], n)
    BY <1>6 DEF N
  <2>2. CASE heap[n].kind # "BinaryOp"
    BY <2>1, <2>2 DEF Node
  <2>3. CASE heap[n].kind = "BinaryOp"
    <3>1. heap[n].left \in 1 .. N /\ heap[n].right \in 1 .. N
      BY <1>2, <2>3
    <3>2. f[LeftOf[n]] = g[heap[n].left] /\ f[RightOf[n]] = g[heap[n].right]
      BY <2>3, <3>1 DEF LeftOf, RightOf, N
    <3>. HIDE DEF g
    <3>. QED
      BY <2>1, <2>3, <3>2 DEF Node, Last
  <2>. QED
    BY <2>2, <2>3
<1>8. Equation(g)
  <2>1. \A n \in 1 .. Len(heap) : g[n] = [base \in Nat |-> Body(g, n, base)]
    BY <1>7 DEF N
  <2>2. g = [n \in 1 .. Len(heap) |-> g[n]]
    OBVIOUS
  <2>. HIDE DEF Body, g
  <2>. QED
    BY <2>1, <2>2
<1>. HIDE DEF Equation, g
<1>9. Equation(e0)
  BY <1>8
<1>10. Emitted(garbage) = e0
  BY DEF Emitted, e0, Equation
<1>. HIDE DEF e0, Body
<1>11. \A n \in 1 .. N, base \in Nat : e0[n][base] = Body(e0, n, base)
  <2>1. ASSUME NEW e, Equation(e)
        PROVE  \A n \in 1 .. N, base \in Nat : e[n][base] = Body(e, n, base)
    <3>. TAKE n \in 1 .. N, base \in Nat
    <3>1. e[n] = [b \in Nat |-> Body(e, n, b)]
      BY <2>1 DEF Equation, N
    <3>. QED
      BY <3>1
  <2>. QED
    BY <1>9, <2>1
<1>. QED
  BY <1>10, <1>11 DEF Body

-----------------------------------------------------------------------------
(* The spelling of the text: one lexeme of the right kind per token.       *)
Spellings == UNION {Lexemes[k] : k \in Kinds}
Spelled == /\ text \in Seq(Spellings) /\ Len(text) = Len(input)
           /\ \A p \in 1 .. Len(text) : text[p] \in Lexemes[input[p]]

(* What CodeGen is handed: a tree without null operands that Sema passed.  *)
Checked ==
  /\ result \in 1 .. N
  /\ \A n \in 1 .. N : OperandsAreSet(heap[n])
  /\ ~SemaErr(result)

(* An operand an instruction at place i can use.                           *)
Usable(v, i) == (\E x \in Values : v = Const(x)) \/ (\E j \in 1 .. i - 1 : v = Reg(j))

Uses(x, i) == x.op \in Operators /\ Usable(x.left, i) /\ Usable(x.right, i)

Operands == {Const(x) : x \in Values} \cup {Reg(j) : j \in Nat}
Instructions == {Binary(o, l, r) : o \in Operators, l \in Operands, r \in Operands}
                  \cup {Read(x) : x \in Spellings}

LEMMA UsableLater ==
  ASSUME NEW v, NEW i \in Int, NEW j \in Int, i <= j, Usable(v, i)
  PROVE  Usable(v, j)
BY DEF Usable

LEMMA TreeParts ==
  ASSUME Sound, Checked
  PROVE  /\ TreeOf \in 1 .. N /\ heap[TreeOf].kind # "With"
         /\ ReadVars \in Seq(Nat) /\ Len(ReadVars) \in Nat
         /\ ~DeclErr(TreeOf, Names(ReadVars))
<1>1. CASE heap[result].kind = "With"
  <2>1. /\ heap[result].left < result /\ heap[result].vals \in Seq(Nat) /\ heap[result].left \in Nat
        /\ heap[result].left # Null /\ result = N
    BY <1>1, SoundNodes DEF Checked, OperandsAreSet
  <2>2. TreeOf \in 1 .. N /\ TreeOf # N
    <3>1. N \in Nat /\ TreeOf = heap[result].left
      BY <1>1, SoundNodes DEF TreeOf
    <3>. QED
      BY <2>1, <3>1 DEF Null
  <2>3. heap[TreeOf].kind # "With"
    BY <2>2, SoundNodes
  <2>4. ReadVars = heap[result].vals
    BY <1>1 DEF ReadVars
  <2>5. ~DeclErr(TreeOf, Names(ReadVars))
    BY <1>1 DEF Checked, SemaErr, TreeOf, ReadVars
  <2>. QED
    BY <2>1, <2>2, <2>3, <2>4, <2>5, LenProperties
<1>2. CASE heap[result].kind # "With"
  <2>1. TreeOf = result /\ ReadVars = <<>>
    BY <1>2 DEF TreeOf, ReadVars
  <2>2. Names(ReadVars) = {}
    BY <2>1 DEF Names
  <2>3. ~DeclErr(TreeOf, Names(ReadVars))
    BY <1>2, <2>1, <2>2 DEF Checked, SemaErr
  <2>. QED
    BY <1>2, <2>1, <2>3, EmptySeq DEF Checked
<1>. QED
  BY <1>1, <1>2

(* A declared name is found: nameMap[] never has to make up a Value*.      *)
LEMMA NameIsFound ==
  ASSUME Sound, Checked, NEW x \in Names(ReadVars)
  PROVE  \E v \in 1 .. Len(ReadVars) : NameMap(x) = Reg(v)
<1>. DEFINE hits == {v \in 1 .. Len(ReadVars) : text[ReadVars[v]] = x}
<1>1. hits # {} /\ hits \subseteq 1 .. Len(ReadVars) /\ Len(ReadVars) \in Nat
  BY TreeParts DEF Names
<1>2. \E v \in hits : \A w \in hits : w <= v
  <2>. HIDE DEF hits
  <2>. QED
    BY <1>1, GreatestExists
<1>3. NameMap(x) = Reg(CHOOSE v \in hits : \A w \in hits : w <= v)
  BY <1>1 DEF NameMap
<1>. QED
  BY <1>1, <1>2, <1>3

(* The value of a node and the code before it, once the tree is in scope.  *)
GoodAt(n, garbage) ==
  ~DeclErr(n, Names(ReadVars)) /\ heap[n].kind # "With" =>
    \A base \in Nat : Len(ReadVars) <= base =>
      /\ Emitted(garbage)[n][base] \in Seq(Instructions)
      /\ Len(Emitted(garbage)[n][base]) = Size[n]
      /\ \A i \in 1 .. Size[n] : Uses(Emitted(garbage)[n][base][i], base + i)
      /\ Usable(ValueOf(n, base, garbage), base + Size[n] + 1)

LEMMA UsableOperand ==
  ASSUME NEW v, NEW i \in Nat, Usable(v, i)
  PROVE  v \in Operands
<1>1. CASE \E x \in Values : v = Const(x)
  BY <1>1 DEF Operands
<1>2. CASE \E j \in 1 .. i - 1 : v = Reg(j)
  <2>1. PICK j \in 1 .. i - 1 : v = Reg(j)
    BY <1>2
  <2>2. j \in Nat
    OBVIOUS
  <2>. QED
    BY <2>1, <2>2 DEF Operands
<1>. QED
  BY <1>1, <1>2 DEF Usable

(* c is s, then t, then x.                                                 *)
InARow(c, s, t, x) ==
  /\ Len(s) \in Nat /\ Len(t) \in Nat /\ Len(c) = Len(s) + Len(t) + 1
  /\ \A i \in 1 .. Len(s) : c[i] = s[i]
  /\ \A i \in 1 .. Len(t) : c[Len(s) + i] = t[i]
  /\ c[Len(s) + Len(t) + 1] = x

LEMMA ConcatThree ==
  ASSUME NEW S, NEW s \in Seq(S), NEW t \in Seq(S), NEW x \in S,
         NEW c, c = s \o t \o <<x>>
  PROVE  c \in Seq(S) /\ InARow(c, s, t, x)
<1>1. /\ s \o t \in Seq(S) /\ Len(s \o t) = Len(s) + Len(t)
      /\ Len(s) \in Nat /\ Len(t) \in Nat
      /\ \A i \in 1 .. Len(s) + Len(t) :
           (s \o t)[i] = IF i <= Len(s) THEN s[i] ELSE t[i - Len(s)]
  BY ConcatProperties, LenProperties
<1>2. <<x>> \in Seq(S) /\ Len(<<x>>) = 1 /\ <<x>>[1] = x
  OBVIOUS
<1>. DEFINE u == s \o t
            w == <<x>>
<1>. HIDE DEF u, w
<1>3. /\ u \o w \in Seq(S) /\ Len(u \o w) = Len(u) + 1
      /\ \A i \in 1 .. Len(u) + 1 : (u \o w)[i] = IF i <= Len(u) THEN u[i] ELSE w[i - Len(u)]
  BY <1>1, <1>2, ConcatProperties DEF u, w
<1>4. /\ \A i \in 1 .. Len(s) : (u \o w)[i] = s[i]
      /\ \A i \in 1 .. Len(t) : (u \o w)[Len(s) + i] = t[i]
      /\ (u \o w)[Len(s) + Len(t) + 1] = x
  BY <1>1, <1>2, <1>3 DEF u, w
<1>. QED
  BY <1>1, <1>3, <1>4 DEF u, w, InARow

LEMMA LeafIsUsable ==
  ASSUME Sound, Checked, Spelled, NEW garbage \in [TooBig -> Garbage],
         NEW n \in 1 .. N, heap[n].kind = "Factor", ~DeclErr(n, Names(ReadVars)),
         NEW base \in Nat, Len(ReadVars) <= base
  PROVE  Usable(ValueOf(n, base, garbage), base + 1)
<1>. DEFINE pos == heap[n].vals[1]
<1>1. pos \in 1 .. Len(input) /\ input[pos] \in {"number", "ident"}
  BY SoundNodes
<1>2. CASE input[pos] = "ident"
  <2>1. text[pos] \in Names(ReadVars)
    BY <1>2, DeclErrIs
  <2>2. PICK v \in 1 .. Len(ReadVars) : NameMap(text[pos]) = Reg(v)
    BY <2>1, NameIsFound
  <2>3. v \in 1 .. base + 1 - 1
    BY TreeParts
  <2>4. ValueOf(n, base, garbage) = Reg(v)
    BY <1>2, <2>2 DEF ValueOf
  <2>. QED
    BY <2>3, <2>4 DEF Usable
<1>3. CASE input[pos] # "ident"
  <2>1. PICK x \in Ints : NumberValue(pos, garbage) = <<x>>
    <3>1. CASE text[pos] \in Ints
      BY <3>1 DEF NumberValue
    <3>2. CASE text[pos] \notin Ints
      <4>1. pos \in TooBig
        BY <1>1, <1>3, <3>2 DEF TooBig
      <4>2. garbage[pos] \in Ints
        BY <4>1, GarbageAssumption
      <4>. QED
        BY <3>2, <4>2 DEF NumberValue
    <3>. QED
      BY <3>1, <3>2
  <2>2. <<x>> \in Values
    BY DEF Values
  <2>3. ValueOf(n, base, garbage) = Const(<<x>>)
    BY <1>3, <2>1 DEF ValueOf
  <2>. QED
    BY <2>2, <2>3 DEF Usable
<1>. QED
  BY <1>2, <1>3

(* What CodeGen emits for a node of a checked tree uses only constants and *)
(* what was computed before.                                               *)
LEMMA EmittedIsGood ==
  ASSUME Sound, Checked, Spelled, NEW garbage \in [TooBig -> Garbage]
  PROVE  \A n \in 1 .. N : GoodAt(n, garbage)
<1>. DEFINE S == {n \in Nat : n \in 1 .. N => GoodAt(n, garbage)}
            e(n, base) == Emitted(garbage)[n][base]
            scope == Names(ReadVars)
<1>0. N \in Nat /\ Len(ReadVars) \in Nat
  BY SoundNodes, TreeParts
<1>1. ASSUME NEW n \in Nat, \A m \in Nat : m < n => m \in S
      PROVE  n \in S
  <2>. SUFFICES ASSUME n \in 1 .. N PROVE GoodAt(n, garbage)
    OBVIOUS
  <2>. SUFFICES ASSUME ~DeclErr(n, scope), heap[n].kind # "With",
                       NEW base \in Nat, Len(ReadVars) <= base
                PROVE  /\ e(n, base) \in Seq(Instructions)
                       /\ Len(e(n, base)) = Size[n]
                       /\ \A i \in 1 .. Size[n] : Uses(e(n, base)[i], base + i)
                       /\ Usable(ValueOf(n, base, garbage), base + Size[n] + 1)
    BY DEF GoodAt
  <2>1. CASE heap[n].kind = "Factor"
    <3>1. e(n, base) = <<>> /\ Size[n] = 0
      BY <2>1, EmittedIs, SizeIs DEF Checked
    <3>2. Usable(ValueOf(n, base, garbage), base + 0 + 1)
      BY <2>1, LeafIsUsable
    <3>. QED
      BY <3>1, <3>2, EmptySeq
  <2>2. CASE heap[n].kind # "Factor"
    <3>. DEFINE l == heap[n].left
                r == heap[n].right
                mid == base + Size[l]
                last == Binary(heap[n].op, ValueOf(l, base, garbage), ValueOf(r, mid, garbage))
    <3>1. /\ heap[n].kind = "BinaryOp" /\ heap[n].op \in Operators
          /\ l \in Nat /\ r \in Nat /\ l < n /\ r < n
      BY <2>2, SoundNodes
    <3>2. l # Null /\ r # Null /\ ~DeclErr(l, scope) /\ ~DeclErr(r, scope)
      BY <2>2, DeclErrIs
    <3>3. l \in 1 .. N /\ r \in 1 .. N /\ l # N /\ r # N
      BY <1>0, <3>1, <3>2 DEF Null
    <3>4. heap[l].kind # "With" /\ heap[r].kind # "With"
      BY <3>3, SoundNodes
    <3>5. GoodAt(l, garbage) /\ GoodAt(r, garbage)
      BY <1>1, <3>1, <3>3
    <3>6. Size[l] \in Nat /\ Size[r] \in Nat /\ Size[n] = Size[l] + Size[r] + 1
      BY <3>1, <3>3, SizeIs
    <3>7. mid \in Nat /\ Len(ReadVars) <= mid
      BY <1>0, <3>6
    <3>8. /\ e(l, base) \in Seq(Instructions) /\ Len(e(l, base)) = Size[l]
          /\ \A i \in 1 .. Size[l] : Uses(e(l, base)[i], base + i)
          /\ Usable(ValueOf(l, base, garbage), base + Size[l] + 1)
      BY <3>2, <3>4, <3>5 DEF GoodAt
    <3>9. /\ e(r, mid) \in Seq(Instructions) /\ Len(e(r, mid)) = Size[r]
          /\ \A i \in 1 .. Size[r] : Uses(e(r, mid)[i], mid + i)
          /\ Usable(ValueOf(r, mid, garbage), mid + Size[r] + 1)
      BY <3>2, <3>4, <3>5, <3>7 DEF GoodAt
    <3>10. Usable(ValueOf(l, base, garbage), base + Size[n]) /\ Usable(ValueOf(r, mid, garbage), base + Size[n])
      <4>1. /\ base + Size[l] + 1 \in Int /\ base + Size[l] + 1 <= base + Size[n]
            /\ mid + Size[r] + 1 \in Int /\ mid + Size[r] + 1 <= base + Size[n]
            /\ base + Size[n] \in Int
        <5>. HIDE DEF l, r
        <5>. QED
          BY <3>6
      <4>. HIDE DEF l, r, mid
      <4>. QED
        BY <3>8, <3>9, <4>1, UsableLater
    <3>11. last \in Instructions /\ Uses(last, base + Size[n])
      <4>1. base + Size[n] \in Nat
        BY <3>6
      <4>2. ValueOf(l, base, garbage) \in Operands /\ ValueOf(r, mid, garbage) \in Operands
        BY <3>10, <4>1, UsableOperand
      <4>. QED
        BY <3>1, <3>10, <4>2 DEF Instructions, Uses, Binary
    <3>12. e(n, base) = e(l, base) \o e(r, mid) \o <<last>>
      BY <3>1, EmittedIs DEF Checked
    <3>13. ValueOf(n, base, garbage) = Reg(base + Size[n])
      BY <2>2 DEF ValueOf
    <3>. HIDE DEF e, l, r, mid, last
    <3>14. /\ e(n, base) \in Seq(Instructions) /\ Len(e(n, base)) = Size[n]
           /\ \A i \in 1 .. Size[l] : e(n, base)[i] = e(l, base)[i]
           /\ \A i \in 1 .. Size[r] : e(n, base)[Size[l] + i] = e(r, mid)[i]
           /\ e(n, base)[Size[n]] = last
      <4>1. e(n, base) \in Seq(Instructions) /\ InARow(e(n, base), e(l, base), e(r, mid), last)
        BY <3>8, <3>9, <3>11, <3>12, ConcatThree
      <4>. QED
        BY <3>6, <3>8, <3>9, <4>1 DEF InARow
    <3>15. ASSUME NEW i \in 1 .. Size[n]
           PROVE  Uses(e(n, base)[i], base + i)
      <4>1. CASE i <= Size[l]
        BY <3>6, <3>8, <3>14, <4>1
      <4>2. CASE i > Size[l] /\ i # Size[n]
        <5>1. i - Size[l] \in 1 .. Size[r] /\ Size[l] + (i - Size[l]) = i
          BY <3>6, <4>2
        <5>2. mid + (i - Size[l]) = base + i
          BY <3>6 DEF mid
        <5>. QED
          BY <3>9, <3>14, <5>1, <5>2
      <4>3. CASE i = Size[n]
        BY <3>11, <3>14, <4>3
      <4>. QED
        BY <3>6, <4>1, <4>2, <4>3
    <3>16. Usable(ValueOf(n, base, garbage), base + Size[n] + 1)
      <4>1. base + Size[n] \in 1 .. base + Size[n] + 1 - 1
        BY <3>6
      <4>. QED
        BY <3>13, <4>1 DEF Usable
    <3>. QED
      BY <3>14, <3>15, <3>16 DEF e
  <2>. QED
    BY <2>1, <2>2
<1>. HIDE DEF S
<1>2. \A n \in Nat : n \in S
  BY <1>1, CourseOfValues
<1>. QED
  BY <1>0, <1>2 DEF S

-----------------------------------------------------------------------------
(* The inductive invariant of the compiler and of the program it emits.    *)
BeforeRun == {"parse", "sema", "codegen", "rejected", "aborted", "returned"}
AfterRun  == {"exited", "trapped", "finished"}

NothingEmitted ==
  stage \in BeforeRun =>
    code = <<>> /\ value = NoValue /\ regs = <<>> /\ typed = <<>> /\ stdin = <<>>

(* What the tests between the passes have established.                     *)
PassedOn ==
  /\ stage \in {"sema", "codegen"} => ~err /\ result # Null
  /\ stage = "codegen" => ~SemaErr(result)

(* The emitted code: reads first, then operators on what came before.      *)
ReadsFirst ==
  /\ \A i \in 1 .. Len(code) : code[i].op = "read" \/ Uses(code[i], i)
  /\ \A i, j \in 1 .. Len(code) : i <= j /\ code[j].op = "read" => code[i].op = "read"
Translated ==
  stage \notin BeforeRun => ReadsFirst /\ Usable(value, Len(code) + 1)

(* The pieces typed are those the variables took and those still waiting,  *)
(* in this order.                                                          *)
TypedPieces == [piece : Piece, cut : BOOLEAN, prompt : Nat]
OnePiecePerRead ==
  stage = "run" =>
    /\ Len(stdin) <= Len(typed) /\ Len(typed) - Len(stdin) <= Len(regs) /\ Len(regs) <= Len(code)
    /\ \A k \in Len(typed) - Len(stdin) + 1 .. Len(regs) : code[k].op # "read"
    /\ \A i \in 1 .. Len(stdin) : typed[Len(typed) - Len(stdin) + i].piece = stdin[i]

(* A piece behind a cut one belongs to the same line, and the last one     *)
(* ends its line.                                                          *)
PromptOf(t, k) == IF k > 1 /\ t[k - 1].cut THEN t[k - 1].prompt ELSE k
LinesOf(t) ==
  /\ \A k \in 1 .. Len(t) : t[k].prompt = PromptOf(t, k)
  /\ Len(t) > 0 => ~t[Len(t)].cut

RunTyped ==
  /\ stage \in BeforeRun \cup {"run"} \cup AfterRun
  /\ code \in Seq(Instructions) /\ regs \in Seq(Values)
  /\ typed \in Seq(TypedPieces) /\ stdin \in Seq(Piece) /\ printed \in Values

FrontInv == IInv /\ Shape /\ Spelled
BackInv  == /\ RunTyped /\ NothingEmitted /\ PassedOn /\ Translated
            /\ OnePiecePerRead /\ LinesOf(typed) /\ AnswersMatchPrompts
CompilerInv == FrontInv /\ BackInv

LEMMA FrontIsSound == FrontInv => Sound /\ Len(input) \in Nat
BY LenProperties DEF FrontInv, Sound, IInv, Typed, TypeOK, Shape, WithIsLast

LEMMA PassedIsChecked ==
  ASSUME FrontInv, PassedOn, stage = "codegen"
  PROVE  Checked
<1>1. result \in 1 .. N
  <2>1. result \in Nat /\ result <= Len(heap) /\ result # 0
    BY DEF FrontInv, IInv, Typed, TypeOK, Shape, PointersInHeap, PassedOn, Null
  <2>2. Len(heap) \in Nat
    BY LenProperties DEF FrontInv, IInv, Typed, TypeOK
  <2>. QED
    BY <2>1, <2>2 DEF N
<1>2. \A n \in 1 .. N : OperandsAreSet(heap[n])
  BY DEF FrontInv, IInv, NullIsReported, PassedOn, N
<1>. QED
  BY <1>1, <1>2 DEF Checked, PassedOn

(* The parser reads at most one token a step.                              *)
LEMMA StepReads ==
  ASSUME TypeOK, [Next]_pvars
  PROVE  input' = input \/ (tok' \in Kinds /\ input' = Append(input, tok'))
<1>1. CASE Advance
  BY <1>1 DEF Advance, NextToken
<1>2. CASE UNCHANGED input
  BY <1>2
<1>. QED
  BY <1>1, <1>2
     DEF Next, ParseStep, pvars, lexVars, Error, CalcWith, CalcNoWith, DeclareIdent, DeclareComma,
         DeclareColon, DeclareError, EnterLevel, LevelOperator, LevelReturn, FactorLeaf, FactorParen,
         FactorBadToken, FactorClose, FactorUnclosed, Skip, SkipDone, CalcTail, CalcTailError,
         Recover, RecoverDone, ParseReturn

LEMMA ParseSpells ==
  ASSUME TypeOK, Spelled, Parse
  PROVE  Spelled'
<1>1. input' = input \/ (tok' \in Kinds /\ input' = Append(input, tok'))
  BY StepReads DEF Parse, Next
<1>2. CASE input' = input
  BY <1>2 DEF Parse, Spelled
<1>3. CASE input' # input
  <2>1. PICK x \in Lexemes[tok'] : text' = Append(text, x)
    BY <1>3 DEF Parse
  <2>2. x \in Spellings /\ tok' \in Kinds /\ input' = Append(input, tok')
    BY <1>1, <1>3 DEF Spellings
  <2>3. /\ Len(text) \in Nat /\ Len(text') = Len(text) + 1
        /\ text' \in Seq(Spellings)
        /\ \A p \in 1 .. Len(text) : text'[p] = text[p]
        /\ text'[Len(text) + 1] = x
    BY <2>1, <2>2, AppendExtends, AppendProperties DEF Spelled, Extends
  <2>4. /\ Len(input') = Len(input) + 1
        /\ \A p \in 1 .. Len(input) : input'[p] = input[p]
        /\ input'[Len(input) + 1] = tok'
    BY <2>2, AppendExtends DEF TypeOK, Extends
  <2>5. Len(text) = Len(input) /\ \A p \in 1 .. Len(text) : text[p] \in Lexemes[input[p]]
    BY DEF Spelled
  <2>6. \A p \in 1 .. Len(text') : p \in 1 .. Len(text) \/ p = Len(text) + 1
    BY <2>3
  <2>7. \A p \in 1 .. Len(text') : text'[p] \in Lexemes[input'[p]]
    BY <2>1, <2>3, <2>4, <2>5, <2>6
  <2>. QED
    BY <2>3, <2>4, <2>5, <2>7 DEF Spelled, Spellings
<1>. QED
  BY <1>2, <1>3

(* The front end's part of the invariant.                                  *)
LEMMA FrontKept ==
  ASSUME FrontInv, Parse \/ UNCHANGED <<pvars, text>>
  PROVE  FrontInv'
<1>1. [Next]_pvars
  BY DEF Parse, Next
<1>2. IInv' /\ Shape'
  BY <1>1, NextIInv, NextShape DEF FrontInv, IInv
<1>3. Spelled'
  <2>1. CASE Parse
    BY <2>1, ParseSpells DEF FrontInv, IInv, Typed
  <2>2. CASE UNCHANGED <<pvars, text>>
    BY <2>2 DEF FrontInv, Spelled, pvars, Spellings
  <2>. QED
    BY <2>1, <2>2
<1>. QED
  BY <1>2, <1>3 DEF FrontInv

LEMMA InitCompiler == InitAll => CompilerInv
<1>. SUFFICES ASSUME InitAll PROVE CompilerInv
  OBVIOUS
<1>1. IInv /\ Shape
  BY InitIInv, InitShape DEF InitAll
<1>2. Spelled
  <2>1. CASE input = <<>>
    BY <2>1, EmptySeq DEF InitAll, Spelled
  <2>2. CASE input # <<>>
    <3>1. PICK x \in Lexemes[tok] : text = <<x>>
      BY <2>2 DEF InitAll
    <3>2. tok \in Kinds /\ input = <<tok>>
      BY <2>2 DEF InitAll, Init
    <3>3. x \in Spellings
      BY <3>2 DEF Spellings
    <3>4. text \in Seq(Spellings) /\ Len(text) = 1 /\ text[1] = x /\ Len(input) = 1 /\ input[1] = tok
      BY <3>1, <3>2, <3>3
    <3>5. \A p \in 1 .. Len(text) : p = 1
      BY <3>4
    <3>. QED
      BY <3>4, <3>5 DEF Spelled
  <2>. QED
    BY <2>1, <2>2
<1>3. BackInv
  <2>1. /\ stage = "parse" /\ code = <<>> /\ value = NoValue /\ regs = <<>>
        /\ stdin = <<>> /\ typed = <<>> /\ printed = <<>>
    BY DEF InitAll
  <2>2. RunTyped
    BY <2>1, EmptySeq DEF RunTyped, BeforeRun, Values, Undefined
  <2>3. NothingEmitted /\ PassedOn /\ Translated /\ OnePiecePerRead /\ LinesOf(typed)
    BY <2>1 DEF NothingEmitted, PassedOn, Translated, OnePiecePerRead, LinesOf, BeforeRun
  <2>4. AnswersMatchPrompts
    BY <2>1 DEF AnswersMatchPrompts
  <2>. QED
    BY <2>2, <2>3, <2>4 DEF BackInv
<1>. QED
  BY <1>1, <1>2, <1>3 DEF CompilerInv, FrontInv

-----------------------------------------------------------------------------
(* The code of a checked tree: the reads of its variables, then Emitted.   *)
LEMMA CompileTranslates ==
  ASSUME CompilerInv, Compile
  PROVE  code' \in Seq(Instructions) /\ Translated'
<1>1. Sound /\ Checked /\ Spelled
  BY FrontIsSound, PassedIsChecked DEF CompilerInv, BackInv, FrontInv, Compile
<1>2. PICK garbage \in [TooBig -> Garbage] :
        /\ code' = [v \in 1 .. Len(ReadVars) |-> Read(text[ReadVars[v]])]
                    \o Emitted(garbage)[TreeOf][Len(ReadVars)]
        /\ value' = ValueOf(TreeOf, Len(ReadVars), garbage)
  BY DEF Compile
<1>. DEFINE k == Len(ReadVars)
            reads == [v \in 1 .. k |-> Read(text[ReadVars[v]])]
            body == Emitted(garbage)[TreeOf][k]
<1>3. /\ TreeOf \in 1 .. N /\ heap[TreeOf].kind # "With"
      /\ ReadVars \in Seq(Nat) /\ k \in Nat
      /\ ~DeclErr(TreeOf, Names(ReadVars))
  BY <1>1, TreeParts
<1>4. /\ body \in Seq(Instructions)
      /\ \A i \in 1 .. Len(body) : Uses(body[i], k + i)
      /\ Usable(value', k + Len(body) + 1)
  <2>1. GoodAt(TreeOf, garbage)
    BY <1>1, <1>3, EmittedIsGood
  <2>. QED
    BY <1>2, <1>3, <2>1 DEF GoodAt
<1>5. reads \in Seq(Instructions) /\ Len(reads) = k /\ \A i \in 1 .. k : reads[i].op = "read"
  <2>1. ASSUME NEW v \in 1 .. k
        PROVE  Read(text[ReadVars[v]]) \in Instructions /\ Read(text[ReadVars[v]]).op = "read"
    <3>1. NamedIn(input, ReadVars[v])
      BY <1>1, SoundNodes DEF ReadVars, Checked
    <3>2. text[ReadVars[v]] \in Spellings
      BY <1>1, <3>1, ElementOfSeq DEF Spelled, NamedIn
    <3>. QED
      BY <3>2 DEF Instructions, Read
  <2>2. \A v \in 1 .. k : reads[v] \in Instructions /\ reads[v].op = "read"
    BY <2>1
  <2>3. reads \in [1 .. k -> Instructions]
    BY <2>1
  <2>4. reads \in Seq(Instructions)
    BY <1>3, <2>3 DEF Seq
  <2>5. Len(reads) = k
    BY <1>3, <2>4, LenProperties
  <2>. QED
    BY <2>2, <2>4, <2>5
<1>6. code' = reads \o body
  BY <1>2
<1>. HIDE DEF k, reads, body
<1>7. /\ code' \in Seq(Instructions) /\ Len(body) \in Nat
      /\ Len(code') = k + Len(body)
      /\ \A i \in 1 .. k + Len(body) : code'[i] = IF i <= k THEN reads[i] ELSE body[i - k]
  BY <1>4, <1>5, <1>6, ConcatProperties, LenProperties
<1>8. ASSUME NEW i \in 1 .. Len(code'), i > k
      PROVE  Uses(code'[i], i)
  <2>1. i - k \in 1 .. Len(body) /\ k + (i - k) = i /\ code'[i] = body[i - k]
    BY <1>3, <1>7, <1>8
  <2>. QED
    BY <1>4, <2>1
<1>9. ASSUME NEW i \in 1 .. Len(code'), i <= k
      PROVE  code'[i].op = "read"
  BY <1>3, <1>5, <1>7, <1>9
<1>10. "read" \notin Operators
  BY DEF Operators
<1>11. \A i \in 1 .. Len(code') : code'[i].op = "read" <=> i <= k
  BY <1>3, <1>7, <1>8, <1>9, <1>10 DEF Uses
<1>12. ReadsFirst'
  <2>1. \A i \in 1 .. Len(code') : code'[i].op = "read" \/ Uses(code'[i], i)
    BY <1>3, <1>7, <1>8, <1>9
  <2>2. \A i, j \in 1 .. Len(code') : i <= j /\ code'[j].op = "read" => code'[i].op = "read"
    BY <1>3, <1>7, <1>11
  <2>. QED
    BY <2>1, <2>2 DEF ReadsFirst, Uses, Usable
<1>13. Usable(value', Len(code') + 1)
  BY <1>4, <1>7
<1>. QED
  BY <1>7, <1>12, <1>13 DEF Translated, Usable

LEMMA ScannedTyped ==
  ASSUME NEW piece \in Piece, NEW n \in Scanned(piece)
  PROVE  <<n>> \in Values /\ (HasNumber(piece) => n = piece.n)
<1>1. n \in Ints /\ (HasNumber(piece) => n = piece.n)
  <2>1. CASE HasNumber(piece)
    BY <2>1 DEF Scanned, HasNumber, Piece
  <2>2. CASE ~HasNumber(piece)
    BY <2>2, GarbageAssumption DEF Scanned
  <2>. QED
    BY <2>1, <2>2
<1>. QED
  BY <1>1 DEF Values

LEMMA AnsweringIs ==
  ASSUME NEW line \in Lines, Len(regs) \in Nat
  PROVE  /\ line \in Seq(Piece) /\ line # <<>> /\ Len(line) \in Nat \ {0}
         /\ Answering(line) \in Seq(TypedPieces) /\ Len(Answering(line)) = Len(line)
         /\ \A i \in 1 .. Len(line) :
              /\ Answering(line)[i].piece = line[i]
              /\ Answering(line)[i].cut = (i < Len(line))
              /\ Answering(line)[i].prompt = Len(regs) + 1
<1>1. line \in Seq(Piece) /\ line # <<>>
  BY LinesAssumption
<1>2. Len(line) \in Nat \ {0} /\ DOMAIN line = 1 .. Len(line)
  BY <1>1, EmptySeq, LenProperties
<1>3. \A i \in 1 .. Len(line) : line[i] \in Piece
  BY <1>1, ElementOfSeq
<1>4. Answering(line) = [i \in 1 .. Len(line) |->
                           [piece |-> line[i], cut |-> i < Len(line), prompt |-> Len(regs) + 1]]
  BY <1>2 DEF Answering
<1>5. Answering(line) \in [1 .. Len(line) -> TypedPieces]
  BY <1>3, <1>4 DEF TypedPieces
<1>6. Answering(line) \in Seq(TypedPieces) /\ Len(Answering(line)) = Len(line)
  BY <1>2, <1>5, IsASeq, LenProperties
<1>. QED
  BY <1>1, <1>2, <1>4, <1>6

(* A line typed when nothing is left, and the first of its pieces taken.   *)
LEMMA LineIsTyped ==
  ASSUME NEW line \in Lines, typed \in Seq(TypedPieces), LinesOf(typed),
         Len(typed) = Len(regs), typed' = typed \o Answering(line), stdin' = Tail(line)
  PROVE  /\ Head(line) \in Piece
         /\ typed' \in Seq(TypedPieces) /\ stdin' \in Seq(Piece) /\ LinesOf(typed')
         /\ \A k \in 1 .. Len(typed) : typed'[k] = typed[k]
         /\ Len(stdin') \in Nat /\ Len(typed') = Len(regs) + 1 + Len(stdin')
         /\ typed'[Len(regs) + 1].piece = Head(line)
         /\ \A i \in 1 .. Len(stdin') : typed'[Len(regs) + 1 + i].piece = stdin'[i]
<1>. DEFINE r == Len(typed)
            a == Answering(line)
<1>1. r \in Nat /\ Len(regs) = r
  BY LenProperties
<1>2. /\ line \in Seq(Piece) /\ line # <<>> /\ Len(line) \in Nat \ {0}
      /\ a \in Seq(TypedPieces) /\ Len(a) = Len(line)
      /\ \A i \in 1 .. Len(line) : /\ a[i].piece = line[i]
                                   /\ a[i].cut = (i < Len(line))
                                   /\ a[i].prompt = r + 1
  BY <1>1, AnsweringIs
<1>3. /\ Head(line) \in Piece /\ Head(line) = line[1]
      /\ stdin' \in Seq(Piece) /\ Len(stdin') = Len(line) - 1
      /\ \A i \in 1 .. Len(stdin') : stdin'[i] = line[i + 1]
  BY <1>2, HeadTailProperties
<1>. HIDE DEF r, a
<1>4. /\ typed' \in Seq(TypedPieces) /\ Len(typed') = r + Len(line)
      /\ \A i \in 1 .. r + Len(line) : typed'[i] = IF i <= r THEN typed[i] ELSE a[i - r]
  <2>1. typed' = typed \o a /\ r = Len(typed) /\ typed \in Seq(TypedPieces)
    BY DEF r, a
  <2>2. typed \o a \in Seq(TypedPieces) /\ Len(typed \o a) = Len(typed) + Len(a)
    BY <1>2, <2>1, ConcatProperties
  <2>3. \A i \in 1 .. Len(typed) + Len(a) :
          (typed \o a)[i] = IF i <= Len(typed) THEN typed[i] ELSE a[i - Len(typed)]
    BY <1>2, <2>1, ConcatProperties
  <2>. QED
    BY <1>2, <2>1, <2>2, <2>3
<1>5. \A k \in 1 .. r : typed'[k] = typed[k]
  BY <1>1, <1>2, <1>4
<1>6. \A i \in 1 .. Len(line) : typed'[r + i] = a[i]
  <2>1. ASSUME NEW i \in 1 .. Len(line) PROVE typed'[r + i] = a[i]
    <3>1. r + i \in 1 .. r + Len(line) /\ ~(r + i <= r) /\ (r + i) - r = i
      BY <1>1, <1>2
    <3>. QED
      BY <1>4, <3>1
  <2>. QED
    BY <2>1
<1>7. LinesOf(typed')
  <2>1. ASSUME NEW k \in 1 .. Len(typed')
        PROVE  typed'[k].prompt = PromptOf(typed', k)
    <3>1. CASE k <= r
      <4>1. k \in 1 .. r /\ (k > 1 => k - 1 \in 1 .. r)
        BY <1>1, <3>1
      <4>2. typed'[k] = typed[k] /\ (k > 1 => typed'[k - 1] = typed[k - 1])
        BY <1>5, <4>1
      <4>. QED
        BY <4>1, <4>2 DEF LinesOf, PromptOf, r
    <3>2. CASE k = r + 1
      <4>1. 1 \in 1 .. Len(line) /\ typed'[k].prompt = r + 1
        BY <1>2, <1>6, <3>2
      <4>2. k > 1 => ~typed'[k - 1].cut
        <5>. SUFFICES ASSUME k > 1 PROVE ~typed'[k - 1].cut
          OBVIOUS
        <5>1. k - 1 = r /\ r \in 1 .. r /\ r > 0
          BY <1>1, <3>2
        <5>. QED
          BY <1>5, <5>1 DEF LinesOf, r
      <4>. QED
        BY <3>2, <4>1, <4>2 DEF PromptOf
    <3>3. CASE k > r + 1
      <4>1. k - r \in 1 .. Len(line) /\ k - 1 - r \in 1 .. Len(line) /\ k - 1 - r < Len(line)
            /\ k = r + (k - r) /\ k - 1 = r + (k - 1 - r) /\ k > 1
        BY <1>1, <1>2, <1>4, <3>3
      <4>2. typed'[k] = a[k - r] /\ typed'[k - 1] = a[k - 1 - r]
        BY <1>6, <4>1
      <4>3. typed'[k].prompt = r + 1 /\ typed'[k - 1].cut /\ typed'[k - 1].prompt = r + 1
        BY <1>2, <4>1, <4>2
      <4>. QED
        BY <4>1, <4>3 DEF PromptOf
    <3>. QED
      BY <1>1, <1>2, <1>4, <3>1, <3>2, <3>3
  <2>2. ~typed'[Len(typed')].cut
    <3>1. Len(line) \in 1 .. Len(line) /\ ~(Len(line) < Len(line))
      BY <1>2
    <3>2. typed'[r + Len(line)] = a[Len(line)] /\ a[Len(line)].cut = (Len(line) < Len(line))
      BY <1>2, <1>6, <3>1
    <3>. QED
      BY <1>4, <3>1, <3>2
  <2>. QED
    BY <2>1, <2>2 DEF LinesOf
<1>8. typed'[r + 1].piece = Head(line)
  <2>1. 1 \in 1 .. Len(line)
    BY <1>2
  <2>. QED
    BY <1>2, <1>3, <1>6, <2>1
<1>9. ASSUME NEW i \in 1 .. Len(stdin') PROVE typed'[r + 1 + i].piece = stdin'[i]
  <2>1. i + 1 \in 1 .. Len(line) /\ r + 1 + i = r + (i + 1)
    BY <1>1, <1>2, <1>3
  <2>2. typed'[r + (i + 1)] = a[i + 1] /\ a[i + 1].piece = line[i + 1] /\ stdin'[i] = line[i + 1]
    BY <1>2, <1>3, <1>6, <2>1
  <2>. QED
    BY <2>1, <2>2
<1>. QED
  BY <1>1, <1>2, <1>3, <1>4, <1>5, <1>7, <1>8, <1>9 DEF r

LEMMA OneFewer ==
  \A n \in Nat \ {0} : n - 1 \in Nat /\ \A r \in Nat : r + n = r + 1 + (n - 1)
OBVIOUS

(* A piece taken from what an earlier call left.                           *)
LEMMA RestIsTaken ==
  ASSUME stdin \in Seq(Piece), stdin # <<>>, Len(regs) \in Nat,
         Len(typed) = Len(regs) + Len(stdin), stdin' = Tail(stdin), typed' = typed,
         \A i \in 1 .. Len(stdin) : typed[Len(regs) + i].piece = stdin[i]
  PROVE  /\ Head(stdin) \in Piece /\ stdin' \in Seq(Piece)
         /\ Len(stdin') \in Nat /\ Len(typed') = Len(regs) + 1 + Len(stdin')
         /\ typed'[Len(regs) + 1].piece = Head(stdin)
         /\ \A i \in 1 .. Len(stdin') : typed'[Len(regs) + 1 + i].piece = stdin'[i]
<1>. DEFINE r == Len(regs)
            n == Len(stdin)
<1>1. /\ Head(stdin) \in Piece /\ Head(stdin) = stdin[1] /\ n \in Nat \ {0}
      /\ stdin' \in Seq(Piece) /\ Len(stdin') = n - 1
      /\ \A i \in 1 .. Len(stdin') : stdin'[i] = stdin[i + 1]
  BY HeadTailProperties, EmptySeq, LenProperties
<1>2. /\ r \in Nat /\ Len(typed') = r + n
      /\ \A i \in 1 .. n : typed'[r + i].piece = stdin[i]
  OBVIOUS
<1>. HIDE DEF r, n
<1>3. 1 \in 1 .. n
  BY <1>1
<1>4. ASSUME NEW i \in 1 .. Len(stdin') PROVE typed'[r + 1 + i].piece = stdin'[i]
  <2>1. i + 1 \in 1 .. n /\ r + (i + 1) = r + 1 + i
    BY <1>1, <1>2
  <2>. QED
    BY <1>1, <1>2, <2>1
<1>5. typed'[r + 1].piece = Head(stdin)
  BY <1>1, <1>2, <1>3
<1>6. Len(stdin') \in Nat /\ Len(typed') = r + 1 + Len(stdin')
  BY <1>1, <1>2, OneFewer
<1>. QED
  BY <1>1, <1>4, <1>5, <1>6 DEF r

(* A call of calc_read looks at one piece.                                 *)
LEMMA PieceIsScanned ==
  ASSUME CalcRead \/ CalcReadRest, stdin \in Seq(Piece)
  PROVE  \/ regs' = regs /\ stage' = "exited"
         \/ stage' = stage /\ \E n \in Ints : <<n>> \in Values /\ regs' = Append(regs, <<n>>)
<1>1. \E p \in Piece : Scan(p)
  <2>1. CASE CalcRead
    <3>1. PICK line \in Lines : Scan(Head(line))
      BY <2>1 DEF CalcRead
    <3>2. line \in Seq(Piece) /\ line # <<>>
      BY LinesAssumption
    <3>. QED
      BY <3>1, <3>2, HeadTailProperties
  <2>2. CASE CalcReadRest
    BY <2>2, HeadTailProperties DEF CalcReadRest
  <2>. QED
    BY <2>1, <2>2
<1>2. PICK p \in Piece : Scan(p)
  BY <1>1
<1>3. \A n \in Scanned(p) : <<n>> \in Values /\ n \in Ints
  BY ScannedTyped DEF Values, Undefined
<1>. QED
  BY <1>2, <1>3 DEF Scan

LEMMA ApplyTyped == \A o, x, y : Apply(o, x, y) \in Values
<1>1. \A n : Defined(n) \in Values
  BY DEF Defined, Values
<1>2. Undefined \in Values
  BY DEF Values
<1>. QED
  BY <1>1, <1>2 DEF Apply

LEMMA NextBack ==
  ASSUME CompilerInv, [NextAll]_vars_all
  PROVE  BackInv'
<1>. USE DEF CompilerInv, BackInv
<1>1. CASE Parse
  <2>1. stage = "parse" /\ UNCHANGED <<stage, cgvars, runvars>>
    BY <1>1 DEF Parse
  <2>. QED
    BY <2>1 DEF cgvars, runvars, RunTyped, NothingEmitted, PassedOn, Translated, OnePiecePerRead,
                AnswersMatchPrompts, BeforeRun
<1>2. CASE AfterParse \/ RunSema
  <2>1. /\ UNCHANGED <<pvars, text, cgvars, runvars>>
        /\ stage \in {"parse", "sema"}
        /\ stage' \in {"aborted", "rejected", "sema", "returned", "codegen"}
    BY <1>2 DEF AfterParse, RunSema
  <2>2. PassedOn'
    <3>1. CASE AfterParse
      BY <3>1 DEF AfterParse, PassedOn, pvars
    <3>2. CASE RunSema
      <4>1. ~err /\ result # Null
        BY <3>2 DEF RunSema, PassedOn
      <4>2. UNCHANGED <<err, result>>
        BY <2>1 DEF pvars
      <4>3. stage' = "codegen" => ~SemaErr(result)
        BY <3>2 DEF RunSema
      <4>4. SemaErr(result)' = SemaErr(result)
        BY <2>1 DEF pvars, SemaErr, DeclErr, DeclaredTwice, Names
      <4>. QED
        BY <4>1, <4>2, <4>3, <4>4 DEF PassedOn
    <3>. QED
      BY <1>2, <3>1, <3>2
  <2>. QED
    BY <2>1, <2>2 DEF cgvars, runvars, RunTyped, NothingEmitted, Translated, OnePiecePerRead,
                      AnswersMatchPrompts, BeforeRun
<1>3. CASE Compile
  <2>1. /\ stage = "codegen" /\ stage' = "run" /\ UNCHANGED runvars
        /\ code' \in Seq(Instructions) /\ Translated'
    BY <1>3, CompileTranslates DEF Compile
  <2>2. regs' = <<>> /\ typed' = <<>> /\ stdin' = <<>> /\ Len(code') \in Nat
    BY <2>1, LenProperties DEF NothingEmitted, BeforeRun, runvars
  <2>3. RunTyped'
    BY <2>1 DEF RunTyped, runvars, BeforeRun
  <2>4. OnePiecePerRead' /\ AnswersMatchPrompts'
    <3>1. Len(regs') = 0 /\ Len(typed') = 0 /\ Len(stdin') = 0
      BY <2>2, EmptySeq
    <3>. QED
      BY <2>2, <3>1 DEF OnePiecePerRead, AnswersMatchPrompts
  <2>5. LinesOf(typed')
    BY <2>1 DEF runvars
  <2>6. NothingEmitted' /\ PassedOn'
    BY <2>1 DEF NothingEmitted, PassedOn, BeforeRun
  <2>. QED
    BY <2>1, <2>3, <2>4, <2>5, <2>6
<1>4. CASE UNCHANGED vars_all
  <2>1. UNCHANGED <<pvars, text, stage, code, value, regs, stdin, typed, printed>>
    BY <1>4 DEF vars_all, cgvars, runvars
  <2>2. PassedOn'
    <3>1. SemaErr(result)' = SemaErr(result)
      BY <2>1 DEF pvars, SemaErr, DeclErr, DeclaredTwice, Names
    <3>2. UNCHANGED <<err, result, stage>>
      BY <2>1 DEF pvars
    <3>. QED
      BY <3>1, <3>2 DEF PassedOn
  <2>3. OnePiecePerRead' /\ LinesOf(typed')
    BY <2>1 DEF OnePiecePerRead
  <2>4. AnswersMatchPrompts'
    BY <2>1 DEF AnswersMatchPrompts
  <2>5. RunTyped' /\ NothingEmitted' /\ Translated'
    BY <2>1 DEF RunTyped, NothingEmitted, Translated, ReadsFirst, Instructions, Spellings
  <2>. QED
    BY <2>2, <2>3, <2>4, <2>5
<1>5. ASSUME stage = "run", UNCHANGED <<code, value>>, stage' \in {"run"} \cup AfterRun,
             regs' \in Seq(Values), typed' \in Seq(TypedPieces), stdin' \in Seq(Piece),
             printed' \in Values, OnePiecePerRead', LinesOf(typed'), AnswersMatchPrompts'
      PROVE  BackInv'
  <2>1. RunTyped'
    BY <1>5 DEF RunTyped
  <2>2. Translated'
    BY <1>5 DEF Translated, ReadsFirst, BeforeRun
  <2>3. NothingEmitted' /\ PassedOn'
    BY <1>5 DEF NothingEmitted, PassedOn, BeforeRun, AfterRun
  <2>. QED
    BY <1>5, <2>1, <2>2, <2>3
<1>6. ASSUME stage = "run"
      PROVE  /\ Len(code) \in Nat /\ Len(regs) \in Nat /\ Len(typed) \in Nat /\ Len(stdin) \in Nat
             /\ Len(stdin) <= Len(typed) /\ Len(typed) - Len(stdin) <= Len(regs)
             /\ Len(regs) <= Len(code) /\ regs \in Seq(Values)
             /\ typed \in Seq(TypedPieces) /\ stdin \in Seq(Piece) /\ printed \in Values
             /\ \A k \in Len(typed) - Len(stdin) + 1 .. Len(regs) : code[k].op # "read"
             /\ \A i \in 1 .. Len(stdin) : typed[Len(typed) - Len(stdin) + i].piece = stdin[i]
             /\ ReadsFirst
  BY <1>6, LenProperties DEF RunTyped, OnePiecePerRead, Translated, BeforeRun
<1>7. CASE CalcRead \/ CalcReadRest
  <2>1. /\ stage = "run" /\ Len(regs) < Len(code) /\ code[Len(regs) + 1].op = "read"
        /\ UNCHANGED <<code, value, printed>>
    BY <1>7 DEF CalcRead, CalcReadRest, Running, Current, cgvars
  <2>. DEFINE t == Len(typed) - Len(stdin)
  <2>2. t = Len(regs)
    <3>1. CASE t # Len(regs)
      <4>1. Len(regs) \in t + 1 .. Len(regs) /\ Len(regs) \in 1 .. Len(code)
            /\ Len(regs) + 1 \in 1 .. Len(code)
        BY <1>6, <2>1, <3>1
      <4>2. code[Len(regs)].op = "read"
        BY <1>6, <2>1, <4>1 DEF ReadsFirst
      <4>. QED
        BY <1>6, <2>1, <4>1, <4>2
    <3>. QED
      BY <3>1
  <2>3. \E p \in Piece :
          /\ \/ \E n \in Scanned(p) : regs' = Append(regs, <<n>>) /\ UNCHANGED stage
             \/ ScanEnds(p) /\ stage' = "exited" /\ UNCHANGED regs
          /\ typed' \in Seq(TypedPieces) /\ stdin' \in Seq(Piece) /\ LinesOf(typed')
          /\ \A k \in 1 .. Len(regs) : typed'[k] = typed[k]
          /\ Len(stdin') \in Nat /\ Len(typed') = Len(regs) + 1 + Len(stdin')
          /\ typed'[Len(regs) + 1].piece = p
          /\ \A i \in 1 .. Len(stdin') : typed'[Len(regs) + 1 + i].piece = stdin'[i]
    <3>1. CASE CalcRead
      <4>1. PICK line \in Lines : /\ typed' = typed \o Answering(line)
                                  /\ stdin' = RestOf(line)
                                  /\ \/ \E n \in Scanned(Head(line)) :
                                          regs' = Append(regs, <<n>>) /\ UNCHANGED stage
                                     \/ /\ ScanEnds(Head(line))
                                        /\ stage' = "exited" /\ UNCHANGED regs
        BY <3>1 DEF CalcRead, Scan
      <4>2. Len(typed) = Len(regs) /\ stdin' = Tail(line)
        <5>1. Len(stdin) = 0
          BY <3>1, EmptySeq DEF CalcRead
        <5>2. stdin' = Tail(line)
          BY <4>1 DEF RestOf
        <5>. QED
          BY <1>6, <2>1, <2>2, <5>1, <5>2
      <4>3. typed \in Seq(TypedPieces) /\ LinesOf(typed)
        BY <1>6, <2>1
      <4>4. /\ Head(line) \in Piece
            /\ typed' \in Seq(TypedPieces) /\ stdin' \in Seq(Piece) /\ LinesOf(typed')
            /\ \A k \in 1 .. Len(regs) : typed'[k] = typed[k]
            /\ Len(stdin') \in Nat /\ Len(typed') = Len(regs) + 1 + Len(stdin')
            /\ typed'[Len(regs) + 1].piece = Head(line)
            /\ \A i \in 1 .. Len(stdin') : typed'[Len(regs) + 1 + i].piece = stdin'[i]
        BY <4>1, <4>2, <4>3, LineIsTyped
      <4>. Head(line) \in Piece
        BY <4>4
      <4>. WITNESS Head(line) \in Piece
      <4>. QED
        BY <4>1, <4>4
    <3>2. CASE CalcReadRest
      <4>1. /\ stdin # <<>> /\ stdin' = RestOf(stdin) /\ typed' = typed
            /\ \/ \E n \in Scanned(Head(stdin)) :
                    regs' = Append(regs, <<n>>) /\ UNCHANGED stage
               \/ ScanEnds(Head(stdin)) /\ stage' = "exited" /\ UNCHANGED regs
        BY <3>2 DEF CalcReadRest, Scan
      <4>2. stdin' = Tail(stdin) /\ LinesOf(typed') /\ typed' \in Seq(TypedPieces)
        BY <1>6, <2>1, <4>1 DEF RestOf
      <4>3. Len(typed) = Len(regs) + Len(stdin) /\ Len(regs) \in Nat /\ stdin \in Seq(Piece)
        BY <1>6, <2>1, <2>2
      <4>4. \A i \in 1 .. Len(stdin) : typed[Len(regs) + i].piece = stdin[i]
        BY <1>6, <2>1, <2>2
      <4>5. /\ Head(stdin) \in Piece /\ stdin' \in Seq(Piece)
            /\ Len(stdin') \in Nat /\ Len(typed') = Len(regs) + 1 + Len(stdin')
            /\ typed'[Len(regs) + 1].piece = Head(stdin)
            /\ \A i \in 1 .. Len(stdin') : typed'[Len(regs) + 1 + i].piece = stdin'[i]
        BY <4>1, <4>2, <4>3, <4>4, RestIsTaken
      <4>. Head(stdin) \in Piece
        BY <4>5
      <4>. WITNESS Head(stdin) \in Piece
      <4>. QED
        BY <4>1, <4>2, <4>5
    <3>. QED
      BY <1>7, <3>1, <3>2
  <2>. HIDE DEF t
  <2>4. PICK p \in Piece :
          /\ \/ \E n \in Scanned(p) : regs' = Append(regs, <<n>>) /\ UNCHANGED stage
             \/ ScanEnds(p) /\ stage' = "exited" /\ UNCHANGED regs
          /\ typed' \in Seq(TypedPieces) /\ stdin' \in Seq(Piece) /\ LinesOf(typed')
          /\ \A k \in 1 .. Len(regs) : typed'[k] = typed[k]
          /\ Len(stdin') \in Nat /\ Len(typed') = Len(regs) + 1 + Len(stdin')
          /\ typed'[Len(regs) + 1].piece = p
          /\ \A i \in 1 .. Len(stdin') : typed'[Len(regs) + 1 + i].piece = stdin'[i]
    BY <2>3
  <2>5. ASSUME NEW k \in 1 .. Len(regs), code[k].op = "read"
        PROVE  /\ k <= Len(typed')
               /\ HasNumber(typed'[k].piece) => regs[k] = <<typed'[k].piece.n>>
               /\ typed'[k].prompt = PromptOf(typed', k)
    <3>1. k \in 1 .. Len(typed') /\ typed'[k] = typed[k]
      BY <1>6, <2>1, <2>4
    <3>2. HasNumber(typed[k].piece) => regs[k] = <<typed[k].piece.n>>
      BY <2>5 DEF AnswersMatchPrompts
    <3>3. typed'[k].prompt = PromptOf(typed', k)
      BY <2>4, <3>1 DEF LinesOf
    <3>. QED
      BY <1>6, <2>1, <2>4, <3>1, <3>2, <3>3
  <2>6. CASE \E n \in Scanned(p) : regs' = Append(regs, <<n>>) /\ UNCHANGED stage
    <3>1. PICK n \in Scanned(p) : regs' = Append(regs, <<n>>) /\ UNCHANGED stage
      BY <2>6
    <3>2. <<n>> \in Values /\ (HasNumber(p) => n = p.n)
      BY ScannedTyped
    <3>3. /\ regs' \in Seq(Values) /\ Len(regs') = Len(regs) + 1
          /\ \A k \in 1 .. Len(regs) : regs'[k] = regs[k]
          /\ regs'[Len(regs) + 1] = <<n>>
      BY <1>6, <2>1, <3>1, <3>2, AppendExtends, AppendProperties DEF Extends
    <3>4. OnePiecePerRead'
      <4>1. Len(typed') - Len(stdin') = Len(regs) + 1 /\ Len(stdin') <= Len(typed')
        BY <1>6, <2>1, <2>4
      <4>. QED
        BY <1>6, <2>1, <2>4, <3>3, <4>1 DEF OnePiecePerRead
    <3>5. AnswersMatchPrompts'
      <4>. SUFFICES ASSUME NEW k \in 1 .. Len(regs'), code[k].op = "read"
                    PROVE  /\ k <= Len(typed')
                           /\ HasNumber(typed'[k].piece) => regs'[k] = <<typed'[k].piece.n>>
                           /\ typed'[k].prompt = PromptOf(typed', k)
        BY <2>1 DEF AnswersMatchPrompts, HasNumber, PromptOf
      <4>1. CASE k = Len(regs) + 1
        <5>1. k \in 1 .. Len(typed')
          BY <1>6, <2>1, <2>4, <4>1
        <5>. QED
          BY <2>4, <3>2, <3>3, <4>1, <5>1 DEF LinesOf
      <4>2. CASE k # Len(regs) + 1
        <5>1. k \in 1 .. Len(regs)
          BY <1>6, <2>1, <3>3, <4>2
        <5>. QED
          BY <2>5, <3>3, <5>1
      <4>. QED
        BY <4>1, <4>2
    <3>. QED
      BY <1>5, <1>6, <2>1, <2>4, <3>1, <3>3, <3>4, <3>5
  <2>7. CASE ScanEnds(p) /\ stage' = "exited" /\ UNCHANGED regs
    <3>1. OnePiecePerRead'
      BY <2>7 DEF OnePiecePerRead
    <3>2. AnswersMatchPrompts'
      BY <2>1, <2>5, <2>7 DEF AnswersMatchPrompts, HasNumber, PromptOf
    <3>. QED
      BY <1>5, <1>6, <2>1, <2>4, <2>7, <3>1, <3>2 DEF AfterRun
  <2>. QED
    BY <2>4, <2>6, <2>7
<1>9. CASE Compute
  <2>1. /\ stage = "run" /\ Len(regs) < Len(code) /\ code[Len(regs) + 1].op \in Operators
        /\ UNCHANGED <<code, value, stdin, typed, printed>>
    BY <1>9 DEF Compute, Running, Current, cgvars
  <2>2. printed' \in Values /\ stdin' \in Seq(Piece) /\ LinesOf(typed')
    BY <2>1 DEF RunTyped
  <2>3. (\E x \in Values : regs' = Append(regs, x) /\ UNCHANGED stage)
          \/ (stage' = "trapped" /\ UNCHANGED regs)
    BY <1>9, ApplyTyped DEF Compute
  <2>4. CASE \E x \in Values : regs' = Append(regs, x) /\ UNCHANGED stage
    <3>1. PICK x \in Values : regs' = Append(regs, x) /\ UNCHANGED stage
      BY <2>4
    <3>2. /\ regs' \in Seq(Values) /\ Len(regs') = Len(regs) + 1
          /\ \A k \in 1 .. Len(regs) : regs'[k] = regs[k]
      BY <1>6, <2>1, <3>1, AppendExtends, AppendProperties DEF Extends
    <3>3. OnePiecePerRead'
      <4>1. code[Len(regs) + 1].op # "read"
        BY <2>1 DEF Operators
      <4>2. \A k \in Len(typed) - Len(stdin) + 1 .. Len(regs) + 1 :
              k \in Len(typed) - Len(stdin) + 1 .. Len(regs) \/ k = Len(regs) + 1
        BY <1>6, <2>1
      <4>. QED
        BY <1>6, <2>1, <3>2, <4>1, <4>2 DEF OnePiecePerRead
    <3>4. AnswersMatchPrompts'
      <4>1. \A k \in 1 .. Len(regs') : k \in 1 .. Len(regs) \/ k = Len(regs) + 1
        BY <1>6, <2>1, <3>2
      <4>2. code[Len(regs) + 1].op # "read"
        BY <2>1 DEF Operators
      <4>. QED
        BY <2>1, <3>2, <4>1, <4>2 DEF AnswersMatchPrompts, HasNumber
    <3>. QED
      BY <1>5, <1>6, <2>1, <2>2, <3>1, <3>2, <3>3, <3>4
  <2>5. CASE stage' = "trapped" /\ UNCHANGED regs
    <3>1. OnePiecePerRead' /\ AnswersMatchPrompts'
      BY <2>1, <2>5 DEF OnePiecePerRead, AnswersMatchPrompts
    <3>. QED
      BY <1>5, <1>6, <2>1, <2>2, <2>5, <3>1 DEF AfterRun
  <2>. QED
    BY <2>3, <2>4, <2>5
<1>10. CASE CalcWrite
  <2>1. /\ stage = "run" /\ stage' = "finished"
        /\ UNCHANGED <<code, value, regs, stdin, typed>>
        /\ \E n \in Ints : printed' = <<n>>
    BY <1>10 DEF CalcWrite, cgvars
  <2>2. printed' \in Values /\ stdin' \in Seq(Piece) /\ LinesOf(typed')
    BY <2>1 DEF RunTyped, Values
  <2>3. OnePiecePerRead' /\ AnswersMatchPrompts'
    BY <2>1 DEF OnePiecePerRead, AnswersMatchPrompts
  <2>. QED
    BY <1>5, <1>6, <2>1, <2>2, <2>3 DEF AfterRun
<1>. QED
  BY <1>1, <1>2, <1>3, <1>4, <1>7, <1>9, <1>10 DEF NextAll, MainStep, ProgramStep

LEMMA NextCompiler == CompilerInv /\ [NextAll]_vars_all => CompilerInv'
<1>. SUFFICES ASSUME CompilerInv, [NextAll]_vars_all
              PROVE  CompilerInv'
  OBVIOUS
<1>1. Parse \/ UNCHANGED <<pvars, text>>
  BY DEF NextAll, MainStep, ProgramStep, AfterParse, RunSema, Compile, CalcRead, CalcReadRest,
         Compute, CalcWrite, vars_all
<1>2. FrontInv'
  BY <1>1, FrontKept DEF CompilerInv
<1>. QED
  BY <1>2, NextBack DEF CompilerInv

LEMMA CompilerInvariant == SpecAll => []CompilerInv
BY InitCompiler, NextCompiler, PTL DEF SpecAll

-----------------------------------------------------------------------------
(* Type correctness of main(), Sema, CodeGen and the emitted program:      *)
(* every value the program computes is an int of the width or undefined,   *)
(* and calc_write's operand names an instruction that exists.              *)
THEOREM CompilerTypeCorrect == SpecAll => []TypeOKAll
<1>1. CompilerInv => TypeOKAll
  <2>. SUFFICES ASSUME CompilerInv PROVE TypeOKAll
    OBVIOUS
  <2>1. TypeOK /\ Len(text) = Len(input) /\ \A p \in 1 .. Len(text) : text[p] \in Lexemes[input[p]]
    BY DEF CompilerInv, FrontInv, IInv, Typed, Spelled
  <2>2. /\ stage \in BeforeRun \cup {"run"} \cup AfterRun
        /\ \A i \in 1 .. Len(regs) : regs[i] \in Values
        /\ \A i \in 1 .. Len(typed) : typed[i] \in [piece : Piece, cut : BOOLEAN, prompt : Nat]
        /\ \A i \in 1 .. Len(stdin) : stdin[i] \in Piece
        /\ printed \in Values /\ Len(code) \in Nat
    BY ElementOfSeq, LenProperties DEF CompilerInv, BackInv, RunTyped, TypedPieces
  <2>3. \A i \in 1 .. Len(code) : code[i].op \in Operators \cup {"read"}
    <3>1. CASE stage \in BeforeRun
      BY <3>1 DEF CompilerInv, BackInv, NothingEmitted
    <3>2. CASE stage \notin BeforeRun
      BY <3>2 DEF CompilerInv, BackInv, Translated, ReadsFirst, Uses
    <3>. QED
      BY <3>1, <3>2
  <2>4. value \in ValueType
    <3>1. CASE stage \in BeforeRun
      BY <3>1 DEF CompilerInv, BackInv, NothingEmitted, ValueType
    <3>2. CASE stage \notin BeforeRun
      <4>1. Usable(value, Len(code) + 1)
        BY <3>2 DEF CompilerInv, BackInv, Translated
      <4>2. Len(code) + 1 - 1 = Len(code)
        BY <2>2
      <4>. QED
        BY <4>1, <4>2 DEF Usable, ValueType
    <3>. QED
      BY <3>1, <3>2
  <2>. QED
    BY <2>1, <2>2, <2>3, <2>4 DEF TypeOKAll, BeforeRun, AfterRun
<1>. QED
  BY <1>1, CompilerInvariant, PTL

(* What Sema lets through CodeGen can translate: no instruction uses the   *)
(* null Value* of a name that was not declared, or a value computed later  *)
(* (Sema.cc, DeclCheck; CodeGen.cc, nameMap).                              *)
THEOREM SemaProtectsCodeGen == SpecAll => []OperandsAreDefined
<1>1. ASSUME NEW v, NEW i \in Nat, Usable(v, i)
      PROVE  DefinedBefore(v, i)
  BY <1>1 DEF Usable, DefinedBefore, Const, Reg, NoValue
<1>2. CompilerInv => OperandsAreDefined
  <2>. SUFFICES ASSUME CompilerInv PROVE OperandsAreDefined
    OBVIOUS
  <2>1. Len(code) \in Nat
    BY LenProperties DEF CompilerInv, BackInv, RunTyped
  <2>2. CASE stage \in BeforeRun
    <3>1. code = <<>> /\ stage # "run"
      BY <2>2 DEF CompilerInv, BackInv, NothingEmitted, BeforeRun
    <3>. QED
      BY <3>1 DEF OperandsAreDefined
  <2>3. CASE stage \notin BeforeRun
    <3>1. ReadsFirst /\ Usable(value, Len(code) + 1)
      BY <2>3 DEF CompilerInv, BackInv, Translated
    <3>2. ASSUME NEW i \in 1 .. Len(code), code[i].op \in Operators
          PROVE  DefinedBefore(code[i].left, i) /\ DefinedBefore(code[i].right, i)
      <4>1. Uses(code[i], i)
        BY <3>1, <3>2 DEF ReadsFirst, Operators
      <4>. QED
        BY <1>1, <2>1, <4>1 DEF Uses
    <3>3. DefinedBefore(value, Len(code) + 1)
      BY <1>1, <2>1, <3>1
    <3>. QED
      BY <3>2, <3>3 DEF OperandsAreDefined
  <2>. QED
    BY <2>2, <2>3
<1>. QED
  BY <1>2, CompilerInvariant, PTL

(* Whatever the lines, their lengths and where the buffer cuts them: the   *)
(* k-th variable gets the k-th piece of what was typed, at its own prompt  *)
(* unless it is the rest of a line that was cut (calc_rt.c, calc_read).    *)
THEOREM AnswersReachTheirVariables == SpecAll => []AnswersMatchPrompts
<1>1. CompilerInv => AnswersMatchPrompts
  BY DEF CompilerInv, BackInv
<1>. QED
  BY <1>1, CompilerInvariant, PTL

-----------------------------------------------------------------------------
(* CalcLanguage has copies of its own of the grammar's operators and of    *)
(* the arithmetic: they are the same as the ones used here.                *)
LEMMA SameOps ==
  /\ \A s, d, nt, i, j : Language!SplitsOf(s, d, nt, i, j) = SplitsOf(s, d, nt, i, j)
  /\ \A ks : Language!SplitAt(ks) = SplitAt(ks)
  /\ \A nt : Language!Below(nt) = Below(nt)
  /\ \A s : Language!Spans(s) = Spans(s)
  /\ \A n : Language!Defined(n) = Defined(n)
  /\ Language!Undefined = Undefined
  /\ Language!Ints = Ints
  /\ Language!NoTree = NoTree
BY DEF Language!SplitsOf, SplitsOf, Language!LevelOps, LevelOps, Language!Below, Below,
       Language!NoTree, NoTree, Language!SplitAt, SplitAt, Language!Spans, Spans,
       Language!Nonterminals, Nonterminals, Language!Defined, Defined,
       Language!Undefined, Undefined, Language!Ints, Ints,
       Language!IntMin, IntMin, Language!IntMax, IntMax

LEMMA SameDerive == \A s : Language!Derive(s) = Derive(s)
BY DEF Language!Derive, Derive, Language!Spans, Spans, Language!Nonterminals, Nonterminals,
       Language!FactorTree, FactorTree, Language!LevelTree, LevelTree, Language!SplitsOf, SplitsOf,
       Language!SplitAt, SplitAt, Language!LevelOps, LevelOps, Language!Below, Below,
       Language!Leaf, Leaf, Language!Tree, Tree, Language!NoTree, NoTree

LEMMA SameDeclared ==
  \A s : Language!ExprStarts(s) = ExprStarts(s) /\ Language!Declared(s) = Declared(s)
<1>1. \A s : Language!ExprStarts(s) = ExprStarts(s)
  BY DEF Language!ExprStarts, ExprStarts
<1>. QED
  BY <1>1 DEF Language!Declared, Declared

LEMMA SameProgram == \A s : Language!IsProgram(s) = IsProgram(s)
BY SameDerive, SameDeclared, SameOps
   DEF Language!IsProgram, IsProgram, Language!ProgramTree, ProgramTree

-----------------------------------------------------------------------------
(* What the specification sees of the compiler: the answers given, ...     *)
Unread == {"parse", "sema", "codegen"}
AnswersOf(rs, k) == SubSeq(rs, 1, IF Len(rs) < k THEN Len(rs) ELSE k)
Given == AnswersOf(regs, NumReads)

(* ... which texts are well formed, ...                                    *)
VarsOf(s, x) == {x[Declared(s)[v]] : v \in 1 .. Len(Declared(s))}
Fits(s, x) ==
  /\ IsProgram(s)
  /\ \A v, w \in 1 .. Len(Declared(s)) : v # w => x[Declared(s)[v]] # x[Declared(s)[w]]
  /\ \A p \in 1 .. Len(s) : s[p] = "ident" => x[p] \in VarsOf(s, x)

LEMMA FitsIsWellFormed ==
  ASSUME stage' \notin Unread
  PROVE  Language!WellFormed' <=> Fits(input', text')
<1>1. (Language!kinds)' = input' /\ (Language!lexemes)' = text'
  BY DEF Unread, Language!kinds, Language!lexemes
<1>2. Language!Declared(Language!kinds)' = Declared(input')
  BY <1>1, SameDeclared
<1>3. Language!Names(Language!Declared(Language!kinds))' = VarsOf(input', text')
  BY <1>1, <1>2 DEF Language!Names, VarsOf
<1>4. Language!IsProgram(Language!kinds)' = IsProgram(input')
  BY <1>1, SameProgram
<1>. QED
  BY <1>1, <1>2, <1>3, <1>4 DEF Language!WellFormed, Fits

(* ... and what each span of a text means, given the answers as.           *)
LeafMeans(s, x, as, ds, p) ==
  IF s[p] = "number" THEN Defined(x[p])
  ELSE as[CHOOSE v \in 1 .. Len(ds) : x[ds[v]] = x[p]]

MeantAt(s, x, as, ds, d, m, p) ==
  LET nt == p[1]
      i == p[2]
      j == p[3]
      ks == SplitsOf(s, d, nt, i, j)
      k == SplitAt(ks)
  IN IF nt = "factor"
     THEN IF i < j THEN m[<<"expr", i + 1, j - 1>>] ELSE LeafMeans(s, x, as, ds, i)
     ELSE IF ks = {} THEN m[<<Below(nt), i, j>>]
     ELSE Apply(s[k], m[<<nt, i, k - 1>>], m[<<Below(nt), k + 1, j>>])
MeansWith(s, x, as, ds, d) ==
  LET m[p \in Spans(s)] == MeantAt(s, x, as, ds, d, m, p) IN m
Means(s, x, as) == MeansWith(s, x, as, Declared(s), Derive(s))

LEMMA MeaningIsMeans ==
  ASSUME stage \notin Unread
  PROVE  Language!Meaning =
           Means(input, text, Given)[<<"expr", CHOOSE c \in ExprStarts(input) : TRUE, Len(input)>>]
<1>. DEFINE s == Language!kinds
            start == CHOOSE c \in Language!ExprStarts(s) : TRUE
<1>1. s = input /\ Language!lexemes = text
  BY DEF Unread, Language!kinds, Language!lexemes
<1>2. Language!Meaning =
        MeansWith(s, Language!lexemes, Given, Language!Declared(s), Language!Derive(s))
          [<<"expr", start, Len(s)>>]
  BY DEF Language!Meaning, MeansWith, MeantAt, LeafMeans, Language!LeafValue, Given, AnswersOf,
         Language!SplitsOf, SplitsOf, Language!LevelOps, LevelOps, Language!Below, Below,
         Language!NoTree, NoTree, Language!SplitAt, SplitAt, Language!Spans, Spans,
         Language!Nonterminals, Nonterminals, Language!Defined, Defined,
         Language!Undefined, Undefined, Language!Ints, Ints, Language!IntMin, IntMin,
         Language!IntMax, IntMax, Language!Apply, Apply, Language!Truncated, Truncated,
         Language!Abs, Abs
<1>3. /\ Language!Declared(s) = Declared(input) /\ Language!Derive(s) = Derive(input)
      /\ Language!ExprStarts(s) = ExprStarts(input)
  BY <1>1, SameDerive, SameDeclared
<1>. QED
  BY <1>1, <1>2, <1>3 DEF Means

(* The equation of Means looks only at parts of the span.                  *)
LEMMA MeantLocal ==
  ASSUME NEW s, Len(s) \in Nat, NEW x, NEW as, NEW ds, NEW d, NEW p \in Spans(s), NEW f, NEW g,
         \A q \in Spans(s) : Before(q, p) => f[q] = g[q]
  PROVE  MeantAt(s, x, as, ds, d, f, p) = MeantAt(s, x, as, ds, d, g, p)
<1>. DEFINE nt == p[1]
            i == p[2]
            j == p[3]
            ks == SplitsOf(s, d, nt, i, j)
            k == SplitAt(ks)
            At(m) == MeantAt(s, x, as, ds, d, m, p)
<1>1. /\ p = <<nt, i, j>> /\ nt \in Nonterminals
      /\ i \in 1 .. Len(s) + 1 /\ j \in 0 .. Len(s)
  BY SpanParts
<1>2. \A m : At(m) = IF nt = "factor"
                     THEN IF i < j THEN m[<<"expr", i + 1, j - 1>>] ELSE LeafMeans(s, x, as, ds, i)
                     ELSE IF ks = {} THEN m[<<Below(nt), i, j>>]
                     ELSE Apply(s[k], m[<<nt, i, k - 1>>], m[<<Below(nt), k + 1, j>>])
  BY DEF MeantAt
<1>. SUFFICES At(f) = At(g)
  OBVIOUS
<1>3. i \in Nat /\ j \in Nat /\ Below(nt) \in Nonterminals /\ "expr" \in Nonterminals
  BY <1>1, BelowIs DEF Nonterminals
<1>4. ks \subseteq i + 1 .. j - 1
  BY DEF SplitsOf
<1>5. ks # {} => k \in i + 1 .. j - 1
  <2>. HIDE DEF ks
  <2>. QED
    BY <1>4 DEF SplitAt
<1>. HIDE DEF nt, i, j, ks, k, At
<1>6. ASSUME NEW y \in Nonterminals, NEW a \in 1 .. Len(s) + 1, NEW b \in 0 .. Len(s), Before(<<y, a, b>>, p)
      PROVE  f[<<y, a, b>>] = g[<<y, a, b>>]
  <2>1. <<y, a, b>> \in Spans(s)
    BY SpanIs
  <2>. QED
    BY <1>6, <2>1
<1>7. CASE nt = "factor" /\ i < j
  <2>1. i + 1 \in 1 .. Len(s) + 1 /\ j - 1 \in 0 .. Len(s)
    BY <1>1, <1>7
  <2>2. Before(<<"expr", i + 1, j - 1>>, p)
    BY <1>1, <1>3, <1>7, PartsBefore
  <2>3. f[<<"expr", i + 1, j - 1>>] = g[<<"expr", i + 1, j - 1>>]
    BY <1>3, <1>6, <2>1, <2>2
  <2>. QED
    BY <1>2, <1>7, <2>3
<1>8. CASE nt = "factor" /\ ~(i < j)
  BY <1>2, <1>8
<1>9. CASE nt # "factor" /\ ks = {}
  <2>1. Before(<<Below(nt), i, j>>, p)
    BY <1>1, <1>3, <1>9, PartsBefore
  <2>2. f[<<Below(nt), i, j>>] = g[<<Below(nt), i, j>>]
    BY <1>1, <1>3, <1>6, <2>1
  <2>. QED
    BY <1>2, <1>9, <2>2
<1>10. CASE nt # "factor" /\ ks # {}
  <2>. DEFINE u == k - 1
              v == k + 1
  <2>1. Before(<<nt, i, u>>, p) /\ Before(<<Below(nt), v, j>>, p)
    BY <1>1, <1>3, <1>5, <1>10, PartsBefore
  <2>2. u \in 0 .. Len(s) /\ v \in 1 .. Len(s) + 1
    BY <1>1, <1>5, <1>10
  <2>. HIDE DEF u, v
  <2>3. f[<<nt, i, u>>] = g[<<nt, i, u>>]
    BY <1>1, <1>6, <2>1, <2>2
  <2>4. f[<<Below(nt), v, j>>] = g[<<Below(nt), v, j>>]
    BY <1>1, <1>3, <1>6, <2>1, <2>2
  <2>. QED
    BY <1>2, <1>10, <2>3, <2>4 DEF u, v
<1>. QED
  BY <1>7, <1>8, <1>9, <1>10

(* The meaning of a span follows from those of its parts.                  *)
LEMMA MeansIs ==
  ASSUME NEW s, Len(s) \in Nat, NEW x, NEW as
  PROVE  \A p \in Spans(s) :
           Means(s, x, as)[p] = MeantAt(s, x, as, Declared(s), Derive(s), Means(s, x, as), p)
<1>. DEFINE At(m, p) == MeantAt(s, x, as, Declared(s), Derive(s), m, p)
            Equation(m) == m = [p \in Spans(s) |-> At(m, p)]
            Upto(n, m) == \A p \in Spans(s) : Measure(p) < n => m[p] = At(m, p)
            Made(n) == \E m : m = [p \in Spans(s) |-> m[p]] /\ Upto(n, m)
            S == {n \in Nat : Made(n)}
<1>10. Means(s, x, as) = CHOOSE m : Equation(m)
  BY DEF Means, MeansWith
<1>. HIDE DEF Made, At
<1>1. \A n \in Nat : n \in S <=> Made(n)
  OBVIOUS
<1>. HIDE DEF S
<1>2. \A p \in Spans(s) : Measure(p) \in Nat
  BY SpanParts
<1>3. ASSUME NEW f, NEW g, NEW p \in Spans(s),
             \A q \in Spans(s) : Measure(q) < Measure(p) => f[q] = g[q]
      PROVE  At(f, p) = At(g, p)
  BY <1>3, MeantLocal DEF Before, At
<1>4. 0 \in S
  <2>. DEFINE m == [p \in Spans(s) |-> NoTree]
  <2>1. m = [p \in Spans(s) |-> m[p]] /\ Upto(0, m)
    BY <1>2
  <2>2. Made(0)
    BY <2>1 DEF Made
  <2>. QED
    BY <1>1, <2>2
<1>5. ASSUME NEW n \in Nat, n \in S
      PROVE  n + 1 \in S
  <2>1. PICK m : Upto(n, m)
    <3>1. Made(n)
      BY <1>1, <1>5
    <3>. QED
      BY <3>1 DEF Made
  <2>. DEFINE g == [p \in Spans(s) |-> IF Measure(p) < n THEN m[p] ELSE At(m, p)]
  <2>2. \A p \in Spans(s) : g[p] = IF Measure(p) < n THEN m[p] ELSE At(m, p)
    OBVIOUS
  <2>3. g = [p \in Spans(s) |-> g[p]]
    OBVIOUS
  <2>. HIDE DEF g
  <2>4. ASSUME NEW p \in Spans(s), Measure(p) < n + 1
        PROVE  g[p] = At(g, p)
    <3>1. \A q \in Spans(s) : Measure(q) < Measure(p) => m[q] = g[q]
      BY <1>2, <2>2, <2>4
    <3>2. At(m, p) = At(g, p)
      BY <1>3, <3>1
    <3>3. g[p] = At(m, p)
      BY <2>1, <2>2
    <3>. QED
      BY <3>2, <3>3
  <2>5. Made(n + 1)
    BY <2>3, <2>4 DEF Made
  <2>. QED
    BY <1>1, <2>5
<1>6. \A n \in Nat : n \in S
  BY <1>4, <1>5, StepByStep
<1>7. \A p \in Spans(s) : Measure(p) < 3 * (Len(s) + 1) + 3
  BY SpanParts DEF Measure, Extent, Rank
<1>8. PICK m : m = [p \in Spans(s) |-> m[p]] /\ Upto(3 * (Len(s) + 1) + 3, m)
  <2>1. 3 * (Len(s) + 1) + 3 \in Nat
    OBVIOUS
  <2>2. Made(3 * (Len(s) + 1) + 3)
    BY <1>1, <1>6, <2>1
  <2>. QED
    BY <2>2 DEF Made
<1>9. Equation(m)
  <2>1. \A p \in Spans(s) : m[p] = At(m, p)
    BY <1>7, <1>8
  <2>. QED
    BY <1>8, <2>1
<1>. HIDE DEF Equation
<1>11. Equation(Means(s, x, as))
  BY <1>9, <1>10
<1>12. ASSUME NEW e, Equation(e)
       PROVE  \A p \in Spans(s) : e[p] = At(e, p)
  BY <1>12 DEF Equation
<1>. QED
  BY <1>11, <1>12 DEF At

(* The meaning of a span, by the rule that reads it.                       *)
MeantByRules(s, x, as, m, i, j) ==
  /\ i = j => m[<<"factor", i, j>>] = LeafMeans(s, x, as, Declared(s), i)
  /\ i < j => m[<<"factor", i, j>>] = m[<<"expr", i + 1, j - 1>>]
  /\ \A nt \in {"expr", "term"} : SplitsOf(s, Derive(s), nt, i, j) = {} =>
       m[<<nt, i, j>>] = m[<<Below(nt), i, j>>]
  /\ \A nt \in {"expr", "term"} : \A k \in SplitsOf(s, Derive(s), nt, i, j) :
       m[<<nt, i, j>>] = Apply(s[k], m[<<nt, i, k - 1>>], m[<<Below(nt), k + 1, j>>])

LEMMA MeaningRules ==
  ASSUME NEW s, Len(s) \in Nat, NEW x, NEW as, NEW i \in 1 .. Len(s) + 1, NEW j \in 0 .. Len(s)
  PROVE  MeantByRules(s, x, as, Means(s, x, as), i, j)
<1>. DEFINE m == Means(s, x, as)
<1>1. ASSUME NEW nt \in Nonterminals
      PROVE  m[<<nt, i, j>>] = MeantAt(s, x, as, Declared(s), Derive(s), m, <<nt, i, j>>)
  <2>1. <<nt, i, j>> \in Spans(s)
    BY SpanIs
  <2>. QED
    BY <2>1, MeansIs
<1>. HIDE DEF m
<1>2. m[<<"factor", i, j>>] = IF i < j THEN m[<<"expr", i + 1, j - 1>>] ELSE LeafMeans(s, x, as, Declared(s), i)
  BY <1>1 DEF MeantAt, Nonterminals
<1>3. ASSUME NEW nt \in {"expr", "term"}, SplitsOf(s, Derive(s), nt, i, j) = {}
      PROVE  m[<<nt, i, j>>] = m[<<Below(nt), i, j>>]
  BY <1>1, <1>3 DEF MeantAt, Nonterminals
<1>4. ASSUME NEW nt \in {"expr", "term"}, NEW k \in SplitsOf(s, Derive(s), nt, i, j)
      PROVE  m[<<nt, i, j>>] = Apply(s[k], m[<<nt, i, k - 1>>], m[<<Below(nt), k + 1, j>>])
  <2>. DEFINE ks == SplitsOf(s, Derive(s), nt, i, j)
  <2>1. ks # {} /\ SplitAt(ks) = k
    <3>1. \A l \in ks : l = k
      BY UniqueSplit
    <3>. HIDE DEF ks
    <3>2. k \in ks
      BY DEF ks
    <3>. QED
      BY <3>1, <3>2 DEF SplitAt
  <2>2. m[<<nt, i, j>>] = MeantAt(s, x, as, Declared(s), Derive(s), m, <<nt, i, j>>)
    BY <1>1 DEF Nonterminals
  <2>3. nt # "factor"
    OBVIOUS
  <2>. QED
    BY <2>1, <2>2, <2>3 DEF MeantAt
<1>5. /\ i = j => m[<<"factor", i, j>>] = LeafMeans(s, x, as, Declared(s), i)
      /\ i < j => m[<<"factor", i, j>>] = m[<<"expr", i + 1, j - 1>>]
  <2>1. i = j => ~(i < j)
    OBVIOUS
  <2>. QED
    BY <1>2, <2>1, Zenon
<1>. QED
  BY <1>3, <1>4, <1>5 DEF m, MeantByRules

(* Q[n] holds the spans node n of h is known to be read from.              *)
ReadsLeaf(s, h, Q) ==
  \A n \in 1 .. Len(h), i \in 1 .. Len(s) :
    h[n].kind = "Factor" /\ h[n].vals[1] = i /\ s[i] \in {"ident", "number"} => <<"factor", i, i>> \in Q[n]
ReadsParen(s, h, Q) ==
  \A n \in 1 .. Len(h), i, j \in 1 .. Len(s) :
    i < j /\ s[i] = "l_paren" /\ s[j] = "r_paren" /\ <<"expr", i + 1, j - 1>> \in Q[n]
      => <<"factor", i, j>> \in Q[n]
ReadsBelow(s, h, Q) ==
  \A n \in 1 .. Len(h), nt \in {"expr", "term"}, i \in 1 .. Len(s) + 1, j \in 0 .. Len(s) :
    SplitsOf(s, Derive(s), nt, i, j) = {} /\ <<Below(nt), i, j>> \in Q[n] => <<nt, i, j>> \in Q[n]
SplitRead(s, h, Q, n, nt, i, j, k) ==
  /\ k \in SplitsOf(s, Derive(s), nt, i, j)
  /\ h[n].kind # "Factor" /\ h[n].op = s[k]
  /\ h[n].left \in 1 .. n - 1 /\ h[n].right \in 1 .. n - 1
  /\ <<nt, i, k - 1>> \in Q[h[n].left] /\ <<Below(nt), k + 1, j>> \in Q[h[n].right]
  => <<nt, i, j>> \in Q[n]
ReadsSplit(s, h, Q) ==
  \A n \in 1 .. Len(h), nt \in {"expr", "term"}, i \in 1 .. Len(s) + 1, j \in 0 .. Len(s), k \in 1 .. Len(s) :
    SplitRead(s, h, Q, n, nt, i, j, k)

(* If Q respects the rules of the grammar, a node the grammar reads from a *)
(* span has the span in Q.                                                 *)
LEMMA TreesMatch ==
  ASSUME NEW s, Len(s) \in Nat, NEW h, Acyclic(h), NEW Q,
         ReadsLeaf(s, h, Q), ReadsParen(s, h, Q), ReadsBelow(s, h, Q), ReadsSplit(s, h, Q)
  PROVE  \A n \in 1 .. Len(h), p \in Spans(s) :
           Derive(s)[p] # NoTree /\ Unfold(h, n) = Derive(s)[p] => p \in Q[n]
<1>. DEFINE Known(n, p) == Derive(s)[p] # NoTree /\ Unfold(h, n) = Derive(s)[p] => p \in Q[n]
            S == {m \in Nat : \A n \in 1 .. Len(h), p \in Spans(s) : Measure(p) = m => Known(n, p)}
<1>0. /\ Len(h) \in Nat
      /\ \A n \in 1 .. Len(h) :
           Unfold(h, n) = IF h[n].kind = "Factor" THEN Leaf(h[n].vals[1])
                          ELSE Tree(h[n].op, Unfold(h, h[n].left), Unfold(h, h[n].right))
      /\ Unfold(h, 0) = NoTree
  <2>1. Len(h) \in Nat
    BY DEF Acyclic
  <2>2. \A n \in 1 .. Len(h) : n \in 0 .. Len(h) /\ n # 0
    OBVIOUS
  <2>3. 0 \in 0 .. Len(h)
    BY <2>1
  <2>. QED
    BY <2>1, <2>2, <2>3, UnfoldIs
<1>1. ASSUME NEW m \in Nat, \A l \in Nat : l < m => l \in S
      PROVE  m \in S
  <2>. SUFFICES ASSUME NEW n \in 1 .. Len(h), NEW p \in Spans(s), Measure(p) = m,
                       Derive(s)[p] # NoTree, Unfold(h, n) = Derive(s)[p]
                PROVE  p \in Q[n]
    OBVIOUS
  <2>. DEFINE nt == p[1]
              i == p[2]
              j == p[3]
  <2>1. /\ p = <<nt, i, j>> /\ nt \in Nonterminals
        /\ i \in 1 .. Len(s) + 1 /\ j \in 0 .. Len(s)
    BY SpanParts
  <2>2. ASSUME NEW x \in 1 .. Len(h), NEW q \in Spans(s), Before(q, p)
        PROVE  Known(x, q)
    <3>1. Measure(q) \in Nat /\ Measure(q) < m
      BY <2>2, SpanParts DEF Before
    <3>2. Measure(q) \in S
      BY <1>1, <3>1
    <3>. QED
      BY <3>2
  <2>3. TreeOn(s, nt, i, j) # NoTree /\ Unfold(h, n) = TreeOn(s, nt, i, j)
    BY <2>1 DEF TreeOn
  <2>. HIDE DEF nt, i, j
  <2>4. ASSUME NEW x \in 1 .. Len(h), NEW y \in Nonterminals, NEW a \in 1 .. Len(s) + 1, NEW b \in 0 .. Len(s),
               Before(<<y, a, b>>, p), TreeOn(s, y, a, b) # NoTree, Unfold(h, x) = TreeOn(s, y, a, b)
        PROVE  <<y, a, b>> \in Q[x]
    <3>1. <<y, a, b>> \in Spans(s)
      BY SpanIs
    <3>2. Known(x, <<y, a, b>>)
      BY <2>2, <2>4, <3>1
    <3>. QED
      BY <2>4, <3>2 DEF TreeOn
  <2>5. i \in Nat /\ j \in Nat /\ Below(nt) \in Nonterminals /\ "expr" \in Nonterminals
    BY <2>1, BelowIs DEF Nonterminals
  <2>6. CASE nt = "factor"
    <3>1. TreeOn(s, nt, i, j) = FactorTree(s, Derive(s), i, j)
      BY <2>1, <2>6, TreeEquations
    <3>2. CASE i = j /\ s[i] \in {"ident", "number"}
      <4>1. Unfold(h, n) = Leaf(i)
        BY <2>3, <3>1, <3>2 DEF FactorTree
      <4>2. h[n].kind = "Factor" /\ h[n].vals[1] = i
        BY <1>0, <4>1 DEF Leaf, Tree
      <4>3. i \in 1 .. Len(s)
        BY <2>1, <3>2
      <4>. QED
        BY <2>1, <2>6, <3>2, <4>2, <4>3 DEF ReadsLeaf
    <3>3. CASE i < j /\ s[i] = "l_paren" /\ s[j] = "r_paren"
      <4>1. TreeOn(s, nt, i, j) = TreeOn(s, "expr", i + 1, j - 1)
        <5>1. ~(i = j)
          BY <2>5, <3>3
        <5>. QED
          BY <3>1, <3>3, <5>1 DEF FactorTree, TreeOn
      <4>2. i + 1 \in 1 .. Len(s) + 1 /\ j - 1 \in 0 .. Len(s) /\ i \in 1 .. Len(s) /\ j \in 1 .. Len(s)
        BY <2>1, <3>3
      <4>3. Before(<<"expr", i + 1, j - 1>>, p)
        BY <2>1, <2>5, <2>6, <3>3, PartsBefore
      <4>4. <<"expr", i + 1, j - 1>> \in Q[n]
        BY <2>3, <2>4, <2>5, <4>1, <4>2, <4>3
      <4>. QED
        BY <2>1, <2>6, <3>3, <4>2, <4>4 DEF ReadsParen
    <3>4. CASE ~(i = j /\ s[i] \in {"ident", "number"}) /\ ~(i < j /\ s[i] = "l_paren" /\ s[j] = "r_paren")
      BY <2>3, <3>1, <3>4 DEF FactorTree
    <3>. QED
      BY <3>2, <3>3, <3>4
  <2>7. CASE nt # "factor"
    <3>. DEFINE ks == SplitsOf(s, Derive(s), nt, i, j)
    <3>0. nt \in {"expr", "term"}
      BY <2>1, <2>7 DEF Nonterminals
    <3>1. TreeOn(s, nt, i, j) = LevelTree(s, Derive(s), nt, i, j)
      BY <2>1, <2>7, TreeEquations
    <3>2. CASE ks = {}
      <4>1. TreeOn(s, nt, i, j) = TreeOn(s, Below(nt), i, j)
        BY <3>1, <3>2 DEF LevelTree, TreeOn
      <4>2. Before(<<Below(nt), i, j>>, p)
        BY <2>1, <2>5, <2>7, PartsBefore
      <4>3. <<Below(nt), i, j>> \in Q[n]
        BY <2>1, <2>3, <2>4, <2>5, <4>1, <4>2
      <4>. QED
        BY <2>1, <3>0, <3>2, <4>3 DEF ReadsBelow
    <3>3. CASE ks # {}
      <4>1. PICK k \in SplitsOf(s, Derive(s), nt, i, j) : TRUE
        BY <3>3
      <4>2. /\ k \in i + 1 .. j - 1 /\ s[k] \in LevelOps(nt)
            /\ TreeOn(s, nt, i, k - 1) # NoTree /\ TreeOn(s, Below(nt), k + 1, j) # NoTree
        BY <2>1, <3>0, <4>1, SplitLevel
      <4>3. TreeOn(s, nt, i, j) = Tree(s[k], TreeOn(s, nt, i, k - 1), TreeOn(s, Below(nt), k + 1, j))
        BY <2>1, <3>0, <4>2, SplitRule
      <4>. DEFINE u == k - 1
                  v == k + 1
                  l == h[n].left
                  r == h[n].right
      <4>4. /\ h[n].kind # "Factor" /\ h[n].op = s[k]
            /\ Unfold(h, l) = TreeOn(s, nt, i, u) /\ Unfold(h, r) = TreeOn(s, Below(nt), v, j)
        <5>1. Unfold(h, n) = IF h[n].kind = "Factor" THEN Leaf(h[n].vals[1])
                          ELSE Tree(h[n].op, Unfold(h, h[n].left), Unfold(h, h[n].right))
          BY <1>0
        <5>2. Unfold(h, n) = Tree(s[k], TreeOn(s, nt, i, k - 1), TreeOn(s, Below(nt), k + 1, j))
          BY <2>3, <4>3
        <5>3. h[n].kind # "Factor"
          BY <5>1, <5>2 DEF Leaf, Tree
        <5>. QED
          BY <5>1, <5>2, <5>3 DEF Tree
      <4>5. u \in 0 .. Len(s) /\ v \in 1 .. Len(s) + 1 /\ k \in 1 .. Len(s)
        BY <2>1, <4>2
      <4>6. Before(<<nt, i, u>>, p) /\ Before(<<Below(nt), v, j>>, p)
        BY <2>1, <2>5, <4>2, PartsBefore
      <4>7. l \in 1 .. n - 1 /\ r \in 1 .. n - 1 /\ l \in 1 .. Len(h) /\ r \in 1 .. Len(h)
        <5>1. l \in Nat /\ r \in Nat /\ l < n /\ r < n
          BY <4>4 DEF Acyclic
        <5>2. l # 0 /\ r # 0
          BY <1>0, <4>2, <4>4
        <5>. HIDE DEF l, r
        <5>. QED
          BY <1>0, <5>1, <5>2
      <4>. HIDE DEF u, v, l, r
      <4>8. <<nt, i, u>> \in Q[l]
        <5>1. TreeOn(s, nt, i, u) # NoTree
          BY <4>2 DEF u
        <5>. QED
          BY <2>1, <2>4, <4>4, <4>5, <4>6, <4>7, <5>1
      <4>9. <<Below(nt), v, j>> \in Q[r]
        <5>1. TreeOn(s, Below(nt), v, j) # NoTree
          BY <4>2 DEF v
        <5>. QED
          BY <2>1, <2>4, <2>5, <4>4, <4>5, <4>6, <4>7, <5>1
      <4>10. <<nt, i, j>> \in Q[n]
        BY <2>1, <3>0, <4>1, <4>4, <4>5, <4>7, <4>8, <4>9 DEF ReadsSplit, SplitRead, u, v, l, r
      <4>. QED
        BY <2>1, <4>10
    <3>. QED
      BY <3>2, <3>3
  <2>. QED
    BY <2>6, <2>7
<1>. HIDE DEF S
<1>2. \A m \in Nat : m \in S
  BY <1>1, CourseOfValues
<1>3. ASSUME NEW n \in 1 .. Len(h), NEW p \in Spans(s)
      PROVE  Known(n, p)
  <2>1. Measure(p) \in Nat
    BY SpanParts
  <2>2. Measure(p) \in S
    BY <1>2, <2>1
  <2>. QED
    BY <2>2 DEF S
<1>. QED
  BY <1>3

(* Where the expression of a program starts.                               *)
Start(s) == CHOOSE c \in ExprStarts(s) : TRUE

(* A program is its variables and the expression after them.               *)
LEMMA ProgramParts ==
  ASSUME NEW s, Len(s) \in Nat, s = <<>> <=> Len(s) = 0, IsProgram(s)
  PROVE  /\ Start(s) \in 1 .. Len(s) + 1
         /\ ProgramTree(s) = Derive(s)[<<"expr", Start(s), Len(s)>>]
         /\ ProgramTree(s) # NoTree /\ <<"expr", Start(s), Len(s)>> \in Spans(s)
         /\ Len(Declared(s)) \in Nat
         /\ \A p \in 1 .. Start(s) - 1 : s[p] = "ident" => \E v \in 1 .. Len(Declared(s)) : Declared(s)[v] = p
<1>. DEFINE c == Start(s)
<1>1. c \in ExprStarts(s) /\ ProgramTree(s) = Derive(s)[<<"expr", c, Len(s)>>] /\ ProgramTree(s) # NoTree
  BY DEF IsProgram, ProgramTree, Start
<1>2. CASE s # <<>> /\ s[1] = "KW_with"
  <2>1. /\ c \in 4 .. Len(s) + 1 /\ c % 2 = 0 /\ s[c - 1] = "colon"
        /\ \A p \in 2 .. c - 2 : s[p] = IF p % 2 = 0 THEN "ident" ELSE "comma"
    BY <1>1, <1>2 DEF ExprStarts
  <2>2. Declared(s) = [v \in 1 .. (c - 2) \div 2 |-> 2 * v]
    BY <1>2 DEF Declared, Start
  <2>. HIDE DEF c
  <2>3. (c - 2) \div 2 \in Nat
    BY <2>1
  <2>4. Declared(s) \in Seq(Nat) /\ Len(Declared(s)) = (c - 2) \div 2
    <3>. DEFINE n == (c - 2) \div 2
    <3>1. n \in Nat /\ Declared(s) = [v \in 1 .. n |-> 2 * v]
      BY <2>2, <2>3
    <3>. HIDE DEF n
    <3>2. Declared(s) \in [1 .. n -> Nat]
      BY <3>1
    <3>3. Declared(s) \in Seq(Nat)
      BY <3>1, <3>2 DEF Seq
    <3>4. Len(Declared(s)) = n
      BY <3>1, <3>2, <3>3, LenProperties
    <3>. QED
      BY <3>3, <3>4 DEF n
  <2>5. ASSUME NEW p \in 1 .. c - 1, s[p] = "ident"
        PROVE  \E v \in 1 .. Len(Declared(s)) : Declared(s)[v] = p
    <3>1. p # 1 /\ p # c - 1
      BY <1>2, <2>1, <2>5
    <3>2. p \in 2 .. c - 2
      BY <2>1, <3>1
    <3>3. p % 2 = 0
      BY <2>1, <2>5, <3>2
    <3>4. PICK v \in 1 .. (c - 2) \div 2 : p = 2 * v
      <4>1. p \div 2 \in 1 .. (c - 2) \div 2 /\ p = 2 * (p \div 2)
        BY <2>1, <3>2, <3>3
      <4>. QED
        BY <4>1
    <3>. QED
      BY <2>2, <2>4, <3>4
  <2>6. c \in 1 .. Len(s) + 1
    BY <2>1
  <2>7. <<"expr", c, Len(s)>> \in Spans(s)
    BY <2>6, SpanIs DEF Nonterminals
  <2>. QED
    BY <1>1, <2>3, <2>4, <2>5, <2>6, <2>7 DEF c
<1>3. CASE ~(s # <<>> /\ s[1] = "KW_with")
  <2>1. c = 1 /\ Declared(s) = <<>>
    BY <1>1, <1>3 DEF ExprStarts, Declared
  <2>2. Len(Declared(s)) = 0
    BY <2>1, EmptySeq
  <2>3. <<"expr", c, Len(s)>> \in Spans(s) /\ c \in 1 .. Len(s) + 1
    BY <2>1, SpanIs DEF Nonterminals
  <2>4. 1 .. c - 1 = {}
    BY <2>1
  <2>. QED
    BY <1>1, <2>2, <2>3, <2>4 DEF c
<1>. QED
  BY <1>2, <1>3

(* Numbers near other numbers.                                             *)
LEMMA PastLeft == \A k, b, z \in Nat : k <= b => b + z \in Nat /\ k <= b + z
OBVIOUS

LEMMA Neighbours ==
  \A n \in Nat : \A k \in 1 .. n :
    k - 1 \in 0 .. n /\ k + 1 \in 1 .. n + 1 /\ k \in 1 .. n + 1 /\ k \in 0 .. n
OBVIOUS

LEMMA BelowStays == \A n \in Nat : \A x \in 1 .. n : \A l \in 1 .. x - 1 : l \in 1 .. n /\ l # 0
OBVIOUS

LEMMA Past == \A k, n \in Nat : \A i \in 1 .. n : k + i \in 1 .. k + n /\ ~(k + i <= k) /\ (k + i) - k = i
OBVIOUS

LEMMA SplitAround ==
  \A a, b \in Int : \A k \in a + 1 .. b - 1 :
    /\ \A q \in a .. b : q = k \/ q \in a .. k - 1 \/ q \in k + 1 .. b
    /\ \A q \in a .. k - 1 : q \in a .. b
    /\ \A q \in k + 1 .. b : q \in a .. b
OBVIOUS

(* DeclCheck finds fault with a tree when its span has a strange name.     *)
Strange(scope, i, j) == \E q \in i .. j : input[q] = "ident" /\ text[q] \notin scope

(* It looks at every name below it.                                        *)
LEMMA DeclErrOnSpan ==
  ASSUME Sound, \A n \in 1 .. N : OperandsAreSet(heap[n]), NEW scope,
         NEW n \in 1 .. N, NEW i \in 1 .. Len(input) + 1, NEW j \in 0 .. Len(input),
         Derive(input)[<<"expr", i, j>>] # NoTree, Unfold(heap, n) = Derive(input)[<<"expr", i, j>>]
  PROVE  DeclErr(n, scope) <=> Strange(scope, i, j)
<1>. DEFINE Q == [x \in 1 .. N |-> {p \in Spans(input) : DeclErr(x, scope) <=> Strange(scope, p[2], p[3])}]
<1>0. Len(input) \in Nat /\ N \in Nat /\ Acyclic(heap) /\ N = Len(heap)
  BY LenProperties, MadeAcyclic DEF Sound, TypeOK, N, HeapIsMade
<1>1. ASSUME NEW x \in 1 .. N, NEW nt \in Nonterminals, NEW a \in 1 .. Len(input) + 1, NEW b \in 0 .. Len(input)
      PROVE  <<nt, a, b>> \in Q[x] <=> (DeclErr(x, scope) <=> Strange(scope, a, b))
  <2>1. <<nt, a, b>> \in Spans(input)
    BY <1>0, SpanIs
  <2>. QED
    BY <2>1
<1>2. \A nt \in {"expr", "term"} : nt \in Nonterminals /\ Below(nt) \in Nonterminals
  BY BelowIs DEF Nonterminals
<1>. HIDE DEF Q
<1>3. ReadsLeaf(input, heap, Q)
  <2>. SUFFICES ASSUME NEW x \in 1 .. N, NEW a \in 1 .. Len(input), heap[x].kind = "Factor", heap[x].vals[1] = a
                PROVE  <<"factor", a, a>> \in Q[x]
    BY <1>0 DEF ReadsLeaf
  <2>1. DeclErr(x, scope) <=> input[a] = "ident" /\ text[a] \notin scope
    BY DeclErrIs
  <2>2. \A q \in a .. a : q = a
    OBVIOUS
  <2>3. a \in a .. a
    OBVIOUS
  <2>4. DeclErr(x, scope) <=> Strange(scope, a, a)
    BY <2>1, <2>2, <2>3 DEF Strange
  <2>5. a \in 1 .. Len(input) + 1 /\ a \in 0 .. Len(input)
    BY <1>0, Neighbours
  <2>6. "factor" \in Nonterminals
    BY DEF Nonterminals
  <2>. QED
    BY <1>1, <2>4, <2>5, <2>6
<1>4. ReadsParen(input, heap, Q)
  <2>. SUFFICES ASSUME NEW x \in 1 .. N, NEW a \in 1 .. Len(input), NEW b \in 1 .. Len(input), a < b,
                       input[a] = "l_paren", input[b] = "r_paren", <<"expr", a + 1, b - 1>> \in Q[x]
                PROVE  <<"factor", a, b>> \in Q[x]
    BY <1>0 DEF ReadsParen
  <2>1. /\ a + 1 \in 1 .. Len(input) + 1 /\ b - 1 \in 0 .. Len(input)
        /\ a \in 1 .. Len(input) + 1 /\ b \in 0 .. Len(input)
        /\ "expr" \in Nonterminals /\ "factor" \in Nonterminals
    <3>1. "expr" \in Nonterminals /\ "factor" \in Nonterminals
      BY DEF Nonterminals
    <3>. QED
      BY <1>0, <3>1, Neighbours
  <2>2. DeclErr(x, scope) <=> Strange(scope, a + 1, b - 1)
    BY <1>1, <2>1
  <2>3. \A q \in a .. b : input[q] = "ident" => q \in a + 1 .. b - 1
    OBVIOUS
  <2>4. \A q \in a + 1 .. b - 1 : q \in a .. b
    OBVIOUS
  <2>5. Strange(scope, a + 1, b - 1) <=> Strange(scope, a, b)
    BY <2>3, <2>4 DEF Strange
  <2>. QED
    BY <1>1, <2>1, <2>2, <2>5
<1>5. ReadsBelow(input, heap, Q)
  BY <1>0, <1>1, <1>2 DEF ReadsBelow
<1>6. ReadsSplit(input, heap, Q)
  <2>. SUFFICES ASSUME NEW x \in 1 .. Len(heap), NEW nt \in {"expr", "term"},
                       NEW a \in 1 .. Len(input) + 1, NEW b \in 0 .. Len(input), NEW k \in 1 .. Len(input)
                PROVE  SplitRead(input, heap, Q, x, nt, a, b, k)
    BY DEF ReadsSplit
  <2>. SUFFICES ASSUME k \in SplitsOf(input, Derive(input), nt, a, b), heap[x].kind # "Factor",
                       heap[x].left \in 1 .. x - 1, heap[x].right \in 1 .. x - 1,
                       <<nt, a, k - 1>> \in Q[heap[x].left], <<Below(nt), k + 1, b>> \in Q[heap[x].right]
                PROVE  <<nt, a, b>> \in Q[x]
    BY DEF SplitRead
  <2>0. x \in 1 .. N
    BY <1>0
  <2>. DEFINE l == heap[x].left
              r == heap[x].right
              u == k - 1
              v == k + 1
  <2>1. k \in a + 1 .. b - 1 /\ input[k] # "ident"
    BY DEF SplitsOf, LevelOps
  <2>2. u \in 0 .. Len(input) /\ v \in 1 .. Len(input) + 1 /\ l \in 1 .. N /\ r \in 1 .. N
    BY <1>0, <2>0, Neighbours, BelowStays
  <2>3. l # Null /\ r # Null
    BY <1>0, <2>0, BelowStays DEF Null
  <2>4. DeclErr(x, scope) <=> DeclErr(l, scope) \/ DeclErr(r, scope)
    BY <2>0, <2>3, DeclErrIs
  <2>5. <<nt, a, u>> \in Q[l] /\ <<Below(nt), v, b>> \in Q[r]
    OBVIOUS
  <2>6. \A q \in a .. b : input[q] = "ident" => q \in a .. u \/ q \in v .. b
    BY <2>1, SplitAround
  <2>7. (\A q \in a .. u : q \in a .. b) /\ (\A q \in v .. b : q \in a .. b)
    BY <2>1, SplitAround
  <2>. HIDE DEF l, r, u, v
  <2>8. (DeclErr(l, scope) <=> Strange(scope, a, u)) /\ (DeclErr(r, scope) <=> Strange(scope, v, b))
    BY <1>1, <1>2, <2>2, <2>5
  <2>9. Strange(scope, a, b) <=> Strange(scope, a, u) \/ Strange(scope, v, b)
    BY <2>6, <2>7 DEF Strange
  <2>. QED
    BY <1>1, <1>2, <2>0, <2>4, <2>8, <2>9
<1>7. <<"expr", i, j>> \in Spans(input)
  BY <1>0, SpanIs DEF Nonterminals
<1>8. <<"expr", i, j>> \in Q[n]
  BY <1>0, <1>3, <1>4, <1>5, <1>6, <1>7, TreesMatch
<1>. QED
  BY <1>1, <1>8 DEF Nonterminals

(* What Sema is handed: the tree of a program.                             *)
Handed ==
  /\ Sound /\ ParsedAs(input)
  /\ result \in 1 .. N /\ \A n \in 1 .. N : OperandsAreSet(heap[n])

(* The parts of the tree are those of the program.                         *)
LEMMA HandedParts ==
  ASSUME Handed
  PROVE  /\ Len(input) \in Nat /\ (input = <<>> <=> Len(input) = 0) /\ IsProgram(input)
         /\ TreeOf \in 1 .. N /\ ReadVars = Declared(input)
         /\ Unfold(heap, TreeOf) = ProgramTree(input)
         /\ SemaErr(result) <=> DeclaredTwice(ReadVars) \/ DeclErr(TreeOf, Names(ReadVars))
<1>1. Sound /\ ParsedAs(input) /\ result \in 1 .. N /\ N \in Nat
  BY SoundNodes DEF Handed
<1>2. Len(input) \in Nat /\ (input = <<>> <=> Len(input) = 0)
  BY <1>1, EmptySeq, LenProperties DEF Sound, TypeOK
<1>3. CASE heap[result].kind = "With"
  <2>1. TreeOf = heap[result].left /\ ReadVars = heap[result].vals
    BY <1>3 DEF TreeOf, ReadVars
  <2>2. heap[result].left # Null
    BY <1>1, <1>3 DEF Handed, OperandsAreSet
  <2>3. heap[result].left < result /\ heap[result].left \in Nat
    BY <1>1, <1>3, SoundNodes
  <2>4. TreeOf \in 1 .. N
    BY <1>1, <2>1, <2>2, <2>3 DEF Null
  <2>5. SemaErr(result) <=> DeclaredTwice(ReadVars) \/ DeclErr(TreeOf, Names(ReadVars))
    BY <1>3, <2>1, <2>2 DEF SemaErr
  <2>6. /\ Declared(input) = heap[result].vals /\ IsProgram(input)
        /\ Unfold(heap, heap[result].left) = ProgramTree(input)
    BY <1>1, <1>3 DEF ParsedAs
  <2>. QED
    BY <1>2, <2>1, <2>4, <2>5, <2>6
<1>4. CASE heap[result].kind # "With"
  <2>1. TreeOf = result /\ ReadVars = <<>>
    BY <1>4 DEF TreeOf, ReadVars
  <2>2. Declared(input) = <<>> /\ IsProgram(input) /\ Unfold(heap, result) = ProgramTree(input)
    BY <1>1, <1>4 DEF ParsedAs
  <2>3. Len(ReadVars) = 0
    BY <2>1, EmptySeq
  <2>4. Names(ReadVars) = {} /\ ~DeclaredTwice(ReadVars)
    BY <2>3 DEF Names, DeclaredTwice
  <2>5. SemaErr(result) <=> DeclErr(TreeOf, Names(ReadVars))
    BY <1>4, <2>1, <2>4 DEF SemaErr
  <2>. QED
    BY <1>1, <1>2, <2>1, <2>2, <2>4, <2>5
<1>. QED
  BY <1>3, <1>4

(* Sema passes exactly the well-formed programs.                           *)
LEMMA SemaJudges ==
  ASSUME Handed
  PROVE  SemaErr(result) <=> ~Fits(input, text)
<1>. DEFINE s == input
            c == Start(s)
            ds == Declared(s)
            scope == VarsOf(s, text)
<1>1. /\ Len(s) \in Nat /\ IsProgram(s) /\ TreeOf \in 1 .. N /\ ReadVars = ds
      /\ Unfold(heap, TreeOf) = ProgramTree(s)
      /\ SemaErr(result) <=> DeclaredTwice(ds) \/ DeclErr(TreeOf, Names(ds))
  BY HandedParts
<1>2. /\ c \in 1 .. Len(s) + 1
      /\ ProgramTree(s) = Derive(s)[<<"expr", c, Len(s)>>] /\ ProgramTree(s) # NoTree
      /\ \A p \in 1 .. c - 1 : s[p] = "ident" => \E v \in 1 .. Len(ds) : ds[v] = p
  BY HandedParts, ProgramParts
<1>3. Names(ds) = scope
  BY DEF Names, VarsOf
<1>. HIDE DEF scope, ds, c
<1>4. DeclErr(TreeOf, scope) <=> Strange(scope, c, Len(s))
  <2>1. Len(s) \in 0 .. Len(s)
    BY <1>1
  <2>. QED
    BY <1>1, <1>2, <2>1, DeclErrOnSpan DEF Handed
<1>5. Strange(scope, c, Len(s)) <=> ~\A p \in 1 .. Len(s) : s[p] = "ident" => text[p] \in scope
  <2>1. ASSUME NEW p \in 1 .. c - 1, s[p] = "ident"
        PROVE  text[p] \in scope
    <3>1. PICK v \in 1 .. Len(ds) : ds[v] = p
      BY <1>2, <2>1
    <3>. QED
      BY <3>1 DEF scope, VarsOf, ds
  <2>2. \A p \in 1 .. Len(s) : p \in 1 .. c - 1 \/ p \in c .. Len(s)
    BY <1>1, <1>2
  <2>3. \A p \in c .. Len(s) : p \in 1 .. Len(s)
    BY <1>1, <1>2
  <2>. QED
    BY <2>1, <2>2, <2>3 DEF Strange
<1>6. DeclaredTwice(ds) <=> ~\A v, w \in 1 .. Len(ds) : v # w => text[ds[v]] # text[ds[w]]
  BY DEF DeclaredTwice
<1>. QED
  BY <1>1, <1>3, <1>4, <1>5, <1>6 DEF Fits, ds, scope

(* What an operand stands for when the instructions left rs.               *)
ValIn(rs, v) == IF v[1] = "const" THEN v[2] ELSE rs[v[2]]

(* rs comes from executing the instructions of code.                       *)
Executed(rs) ==
  \A i \in 1 .. Len(rs) :
    code[i].op \in Operators =>
      rs[i] = Apply(code[i].op, ValIn(rs, code[i].left), ValIn(rs, code[i].right))

(* code and value are what CodeGen makes of the tree.                      *)
Holds(garbage, n, base) ==
  /\ base + Size[n] <= Len(code)
  /\ \A i \in 1 .. Size[n] : code[base + i] = Emitted(garbage)[n][base][i]
CodeOf(garbage) ==
  /\ Len(code) = Len(ReadVars) + Size[TreeOf]
  /\ \A i \in 1 .. Len(ReadVars) : code[i].op = "read"
  /\ Holds(garbage, TreeOf, Len(ReadVars))
  /\ value = ValueOf(TreeOf, Len(ReadVars), garbage)

(* The answers as are what the reads left in rs.                           *)
Agreed(rs, as) == Len(ReadVars) <= Len(rs) /\ \A v \in 1 .. Len(ReadVars) : as[v] = rs[v]

(* The code of a node gives what the node's span means, if it means        *)
(* anything.                                                               *)
Faithful(garbage, rs, meant, n, base) ==
  \/ meant = Undefined
  \/ /\ \A i \in base + 1 .. base + Size[n] : i <= Len(rs) => rs[i] # Undefined
     /\ base + Size[n] <= Len(rs) => ValIn(rs, ValueOf(n, base, garbage)) = meant

(* A leaf's operand is what the leaf means.                                *)
LEMMA LeafIsFaithful ==
  ASSUME Handed, Fits(input, text), NEW garbage, NEW rs, NEW as, Agreed(rs, as),
         NEW n \in 1 .. N, heap[n].kind = "Factor", NEW base \in Nat
  PROVE  Faithful(garbage, rs, LeafMeans(input, text, as, Declared(input), heap[n].vals[1]), n, base)
<1>. DEFINE pos == heap[n].vals[1]
            ds == Declared(input)
<1>1. /\ pos \in 1 .. Len(input) /\ input[pos] \in {"number", "ident"}
      /\ Size[n] = 0 /\ ReadVars = ds
  BY HandedParts, SoundNodes, SizeIs DEF Handed
<1>2. SUFFICES \/ LeafMeans(input, text, as, ds, pos) = Undefined
               \/ ValIn(rs, ValueOf(n, base, garbage)) = LeafMeans(input, text, as, ds, pos)
  <2>1. base + 1 .. base + Size[n] = {}
    BY <1>1
  <2>. QED
    BY <2>1 DEF Faithful
<1>3. CASE input[pos] = "number"
  <2>1. LeafMeans(input, text, as, ds, pos) = Defined(text[pos])
    BY <1>3 DEF LeafMeans
  <2>2. ValueOf(n, base, garbage) = Const(NumberValue(pos, garbage))
    BY <1>3 DEF ValueOf
  <2>3. text[pos] \in Ints => ValIn(rs, Const(NumberValue(pos, garbage))) = <<text[pos]>>
    BY DEF ValIn, Const, NumberValue
  <2>. QED
    BY <2>1, <2>2, <2>3 DEF Defined
<1>4. CASE input[pos] = "ident"
  <2>. DEFINE hits == {v \in 1 .. Len(ds) : text[ds[v]] = text[pos]}
              here == CHOOSE v \in 1 .. Len(ds) : text[ds[v]] = text[pos]
              last == CHOOSE v \in hits : \A w \in hits : w <= v
  <2>1. text[pos] \in VarsOf(input, text)
    BY <1>1, <1>4 DEF Fits
  <2>2. PICK v \in 1 .. Len(ds) : text[ds[v]] = text[pos]
    BY <2>1 DEF VarsOf
  <2>3. \A w \in 1 .. Len(ds) : text[ds[w]] = text[pos] => w = v
    BY <2>2 DEF Fits
  <2>4. here = v
    BY <2>2, <2>3
  <2>5. hits = {v} /\ v <= v
    BY <2>2, <2>3
  <2>6. last = v
    <3>. HIDE DEF hits
    <3>. QED
      BY <2>5
  <2>7. LeafMeans(input, text, as, ds, pos) = as[v]
    BY <1>4, <2>4 DEF LeafMeans
  <2>8. NameMap(text[pos]) = Reg(v)
    <3>1. NameMap(text[pos]) = IF hits = {} THEN NoValue ELSE Reg(last)
      BY <1>1 DEF NameMap
    <3>. HIDE DEF hits, last
    <3>. QED
      BY <2>5, <2>6, <3>1
  <2>9. ValueOf(n, base, garbage) = Reg(v)
    BY <1>4, <2>8 DEF ValueOf
  <2>10. ValIn(rs, Reg(v)) = rs[v]
    BY DEF ValIn, Reg
  <2>. QED
    BY <1>1, <2>2, <2>7, <2>9, <2>10 DEF Agreed
<1>. QED
  BY <1>1, <1>3, <1>4

LEMMA ApplyIsStrict == \A o, x, y : Apply(o, x, y) # Undefined => x # Undefined /\ y # Undefined
BY DEF Apply

(* An operator does to its operands' values what its span means.           *)
LEMMA OperatorIsFaithful ==
  ASSUME Handed, Checked, Spelled, NEW garbage \in [TooBig -> Garbage], NEW rs, Executed(rs),
         Len(rs) \in Nat, Len(code) \in Nat,
         NEW n \in 1 .. N, heap[n].kind = "BinaryOp", ~DeclErr(n, Names(ReadVars)),
         NEW base \in Nat, Len(ReadVars) <= base, Holds(garbage, n, base),
         NEW x, NEW y,
         Holds(garbage, heap[n].left, base) => Faithful(garbage, rs, x, heap[n].left, base),
         Holds(garbage, heap[n].right, base + Size[heap[n].left]) =>
           Faithful(garbage, rs, y, heap[n].right, base + Size[heap[n].left])
  PROVE  Faithful(garbage, rs, Apply(heap[n].op, x, y), n, base)
<1>. DEFINE l == heap[n].left
            r == heap[n].right
            mid == base + Size[l]
            end == base + Size[n]
            e(m, b) == Emitted(garbage)[m][b]
            a == ValueOf(l, base, garbage)
            b == ValueOf(r, mid, garbage)
            last == Binary(heap[n].op, a, b)
<1>1. /\ Sound /\ N \in Nat
      /\ heap[n].op \in Operators /\ l \in Nat /\ r \in Nat /\ l < n /\ r < n
  BY SoundNodes DEF Handed
<1>2. l # Null /\ r # Null /\ ~DeclErr(l, Names(ReadVars)) /\ ~DeclErr(r, Names(ReadVars))
  BY <1>1, DeclErrIs
<1>3. l \in 1 .. N /\ r \in 1 .. N /\ l # N /\ r # N
  BY <1>1, <1>2 DEF Null
<1>4. heap[l].kind # "With" /\ heap[r].kind # "With"
  BY <1>1, <1>3, SoundNodes
<1>5. Size[l] \in Nat /\ Size[r] \in Nat /\ Size[n] = Size[l] + Size[r] + 1
  BY <1>1, <1>3, SizeIs
<1>6. /\ GoodAt(l, garbage) /\ GoodAt(r, garbage)
      /\ e(n, base) = e(l, base) \o e(r, mid) \o <<last>>
  BY <1>1, <1>3, EmittedIsGood, EmittedIs DEF Checked
<1>7. mid \in Nat /\ Len(ReadVars) <= mid /\ Len(ReadVars) \in Nat
  <2>1. Len(ReadVars) \in Nat
    BY <1>1, TreeParts
  <2>. QED
    BY <1>5, <2>1, PastLeft
<1>8. /\ e(l, base) \in Seq(Instructions) /\ Len(e(l, base)) = Size[l]
      /\ e(r, mid) \in Seq(Instructions) /\ Len(e(r, mid)) = Size[r]
      /\ Usable(a, mid + 1) /\ Usable(b, mid + Size[r] + 1)
  BY <1>2, <1>4, <1>6, <1>7 DEF GoodAt
<1>9. last \in Instructions
  <2>. HIDE DEF a, b, mid, l, r
  <2>1. mid + 1 \in Nat /\ mid + Size[r] + 1 \in Nat
    BY <1>5, <1>7
  <2>2. a \in Operands /\ b \in Operands
    BY <1>8, <2>1, UsableOperand
  <2>. QED
    BY <1>1, <2>2 DEF Instructions, Binary
<1>10. last.op = heap[n].op /\ last.left = a /\ last.right = b
  BY DEF Binary
<1>11. /\ end <= Len(code) /\ \A i \in 1 .. Size[n] : code[base + i] = e(n, base)[i]
  BY DEF Holds
<1>12. /\ Holds(garbage, l, base) => Faithful(garbage, rs, x, l, base)
       /\ Holds(garbage, r, mid) => Faithful(garbage, rs, y, r, mid)
  OBVIOUS
<1>. HIDE DEF l, r, mid, e, a, b, last
<1>13. InARow(e(n, base), e(l, base), e(r, mid), last)
  BY <1>6, <1>8, <1>9, ConcatThree
<1>14. /\ \A i \in 1 .. Size[l] : e(n, base)[i] = e(l, base)[i]
       /\ \A i \in 1 .. Size[r] : e(n, base)[Size[l] + i] = e(r, mid)[i]
       /\ e(n, base)[Size[n]] = last
  BY <1>5, <1>8, <1>13 DEF InARow
<1>15. Holds(garbage, l, base)
  <2>1. \A i \in 1 .. Size[l] : i \in 1 .. Size[n]
    BY <1>5
  <2>2. base + Size[l] <= Len(code)
    BY <1>5, <1>11
  <2>. QED
    BY <1>11, <1>14, <2>1, <2>2 DEF Holds, e
<1>16. Holds(garbage, r, mid)
  <2>1. \A i \in 1 .. Size[r] : Size[l] + i \in 1 .. Size[n] /\ base + (Size[l] + i) = mid + i
    BY <1>5 DEF mid
  <2>2. mid + Size[r] <= Len(code)
    BY <1>5, <1>11 DEF mid
  <2>. QED
    BY <1>11, <1>14, <2>1, <2>2 DEF Holds, e
<1>17. code[end] = last /\ end \in Nat \ {0} /\ end = mid + Size[r] + 1 /\ mid <= end /\ mid + Size[r] <= end
  <2>1. Size[n] \in 1 .. Size[n]
    BY <1>5
  <2>2. code[end] = last
    BY <1>11, <1>14, <2>1
  <2>3. end \in Nat \ {0} /\ end = mid + Size[r] + 1 /\ mid <= end /\ mid + Size[r] <= end
    BY <1>5 DEF mid
  <2>. QED
    BY <2>2, <2>3
<1>18. ValueOf(n, base, garbage) = Reg(end)
  BY DEF ValueOf
<1>19. ValIn(rs, Reg(end)) = rs[end]
  BY DEF ValIn, Reg
<1>20. end <= Len(rs) => rs[end] = Apply(heap[n].op, ValIn(rs, a), ValIn(rs, b))
  BY <1>1, <1>10, <1>17 DEF Executed
<1>. SUFFICES ASSUME Apply(heap[n].op, x, y) # Undefined
              PROVE  /\ \A i \in base + 1 .. end : i <= Len(rs) => rs[i] # Undefined
                     /\ end <= Len(rs) => rs[end] = Apply(heap[n].op, x, y)
  BY <1>18, <1>19 DEF Faithful
<1>21. x # Undefined /\ y # Undefined
  BY ApplyIsStrict
<1>. HIDE DEF end
<1>22. /\ \A i \in base + 1 .. mid : i <= Len(rs) => rs[i] # Undefined
       /\ mid <= Len(rs) => ValIn(rs, a) = x
  BY <1>12, <1>15, <1>21 DEF Faithful, mid, a
<1>23. /\ \A i \in mid + 1 .. mid + Size[r] : i <= Len(rs) => rs[i] # Undefined
       /\ mid + Size[r] <= Len(rs) => ValIn(rs, b) = y
  BY <1>12, <1>16, <1>21 DEF Faithful, b
<1>24. end <= Len(rs) => rs[end] = Apply(heap[n].op, x, y)
  <2>1. end <= Len(rs) => mid <= Len(rs) /\ mid + Size[r] <= Len(rs)
    BY <1>5, <1>7, <1>17
  <2>. QED
    BY <1>20, <1>22, <1>23, <2>1
<1>25. \A i \in base + 1 .. end : i \in base + 1 .. mid \/ i \in mid + 1 .. mid + Size[r] \/ i = end
  BY <1>5, <1>7, <1>17
<1>. QED
  BY <1>22, <1>23, <1>24, <1>25

(* What the text in hand means, and that the code of a node says it.       *)
Meant(as) == Means(input, text, as)[<<"expr", Start(input), Len(input)>>]

FaithfulTo(garbage, rs, meant, n) ==
  ~DeclErr(n, Names(ReadVars)) =>
    \A base \in Nat : Len(ReadVars) <= base /\ Holds(garbage, n, base) => Faithful(garbage, rs, meant, n, base)

(* So the code of the whole tree does what the text means.                 *)
LEMMA TreeIsFaithful ==
  ASSUME Handed, Checked, Spelled, Fits(input, text), NEW garbage \in [TooBig -> Garbage],
         NEW rs, Executed(rs), Len(rs) \in Nat, Len(code) \in Nat, NEW as, Agreed(rs, as)
  PROVE  FaithfulTo(garbage, rs, Meant(as), TreeOf)
<1>. DEFINE M == Means(input, text, as)
            Q == [n \in 1 .. N |-> {p \in Spans(input) : FaithfulTo(garbage, rs, M[p], n)}]
<1>0. Len(input) \in Nat /\ N \in Nat /\ Acyclic(heap) /\ N = Len(heap) /\ Sound
  BY LenProperties, MadeAcyclic DEF Handed, Sound, TypeOK, N, HeapIsMade
<1>1. ASSUME NEW x \in 1 .. N, NEW nt \in Nonterminals, NEW a \in 1 .. Len(input) + 1, NEW b \in 0 .. Len(input)
      PROVE  <<nt, a, b>> \in Q[x] <=> FaithfulTo(garbage, rs, M[<<nt, a, b>>], x)
  <2>1. <<nt, a, b>> \in Spans(input)
    BY <1>0, SpanIs
  <2>. QED
    BY <2>1
<1>2. \A nt \in {"expr", "term"} : nt \in Nonterminals /\ Below(nt) \in Nonterminals
  BY BelowIs DEF Nonterminals
<1>3. "expr" \in Nonterminals /\ "factor" \in Nonterminals
  BY DEF Nonterminals
<1>. HIDE DEF Q
<1>4. ASSUME NEW a \in 1 .. Len(input) + 1, NEW b \in 0 .. Len(input)
      PROVE  MeantByRules(input, text, as, M, a, b)
  BY <1>0, MeaningRules
<1>. HIDE DEF M
<1>5. ReadsLeaf(input, heap, Q)
  <2>. SUFFICES ASSUME NEW x \in 1 .. N, NEW a \in 1 .. Len(input), heap[x].kind = "Factor", heap[x].vals[1] = a
                PROVE  <<"factor", a, a>> \in Q[x]
    BY <1>0 DEF ReadsLeaf
  <2>1. a \in 1 .. Len(input) + 1 /\ a \in 0 .. Len(input)
    BY <1>0
  <2>2. M[<<"factor", a, a>>] = LeafMeans(input, text, as, Declared(input), heap[x].vals[1])
    BY <1>4, <2>1 DEF MeantByRules
  <2>3. FaithfulTo(garbage, rs, M[<<"factor", a, a>>], x)
    BY <2>2, LeafIsFaithful DEF FaithfulTo
  <2>. QED
    BY <1>1, <1>3, <2>1, <2>3
<1>6. ReadsParen(input, heap, Q)
  <2>. SUFFICES ASSUME NEW x \in 1 .. N, NEW a \in 1 .. Len(input), NEW b \in 1 .. Len(input), a < b,
                       <<"expr", a + 1, b - 1>> \in Q[x]
                PROVE  <<"factor", a, b>> \in Q[x]
    BY <1>0 DEF ReadsParen
  <2>1. /\ a + 1 \in 1 .. Len(input) + 1 /\ b - 1 \in 0 .. Len(input)
        /\ a \in 1 .. Len(input) + 1 /\ b \in 0 .. Len(input)
    BY <1>0
  <2>2. M[<<"factor", a, b>>] = M[<<"expr", a + 1, b - 1>>]
    BY <1>4, <2>1 DEF MeantByRules
  <2>3. FaithfulTo(garbage, rs, M[<<"expr", a + 1, b - 1>>], x)
    BY <1>1, <1>3, <2>1
  <2>. QED
    BY <1>1, <1>3, <2>1, <2>2, <2>3
<1>7. ReadsBelow(input, heap, Q)
  <2>. SUFFICES ASSUME NEW x \in 1 .. N, NEW nt \in {"expr", "term"},
                       NEW a \in 1 .. Len(input) + 1, NEW b \in 0 .. Len(input),
                       SplitsOf(input, Derive(input), nt, a, b) = {}, <<Below(nt), a, b>> \in Q[x]
                PROVE  <<nt, a, b>> \in Q[x]
    BY <1>0 DEF ReadsBelow
  <2>1. M[<<nt, a, b>>] = M[<<Below(nt), a, b>>]
    BY <1>4 DEF MeantByRules
  <2>. QED
    BY <1>1, <1>2, <2>1
<1>8. ReadsSplit(input, heap, Q)
  <2>. SUFFICES ASSUME NEW x \in 1 .. Len(heap), NEW nt \in {"expr", "term"},
                       NEW a \in 1 .. Len(input) + 1, NEW b \in 0 .. Len(input), NEW k \in 1 .. Len(input)
                PROVE  SplitRead(input, heap, Q, x, nt, a, b, k)
    BY DEF ReadsSplit
  <2>. DEFINE l == heap[x].left
              r == heap[x].right
              u == k - 1
              v == k + 1
  <2>. SUFFICES ASSUME k \in SplitsOf(input, Derive(input), nt, a, b), heap[x].kind # "Factor",
                       heap[x].op = input[k], l \in 1 .. x - 1, r \in 1 .. x - 1,
                       <<nt, a, u>> \in Q[l], <<Below(nt), v, b>> \in Q[r]
                PROVE  <<nt, a, b>> \in Q[x]
    BY DEF SplitRead
  <2>1. x \in 1 .. N /\ l \in 1 .. N /\ r \in 1 .. N
    <3>1. \A y \in 1 .. Len(heap) : y \in 1 .. N /\ \A z \in 1 .. y - 1 : z \in 1 .. N
      BY <1>0
    <3>. HIDE DEF l, r
    <3>. QED
      BY <3>1
  <2>2. u \in 0 .. Len(input) /\ v \in 1 .. Len(input) + 1
    BY <1>0
  <2>3. M[<<nt, a, b>>] = Apply(heap[x].op, M[<<nt, a, u>>], M[<<Below(nt), v, b>>])
    BY <1>4 DEF MeantByRules
  <2>. HIDE DEF u, v
  <2>4. FaithfulTo(garbage, rs, M[<<nt, a, u>>], l) /\ FaithfulTo(garbage, rs, M[<<Below(nt), v, b>>], r)
    BY <1>1, <1>2, <2>1, <2>2
  <2>5. heap[x].kind = "BinaryOp"
    <3>1. /\ heap[x].kind \in {"Factor", "BinaryOp", "With"}
          /\ heap[x].kind = "With" => heap[x].right = Null
      BY <1>0, <2>1, SoundNodes
    <3>2. heap[x].right # Null
      BY <2>1 DEF Null
    <3>. QED
      BY <3>1, <3>2
  <2>. SUFFICES FaithfulTo(garbage, rs, M[<<nt, a, b>>], x)
    BY <1>1, <1>2, <2>1
  <2>. SUFFICES ASSUME ~DeclErr(x, Names(ReadVars)), NEW base \in Nat, Len(ReadVars) <= base,
                       Holds(garbage, x, base)
                PROVE  Faithful(garbage, rs, M[<<nt, a, b>>], x, base)
    BY DEF FaithfulTo
  <2>6. ~DeclErr(l, Names(ReadVars)) /\ ~DeclErr(r, Names(ReadVars))
    <3>1. l # Null /\ r # Null
      BY <2>1 DEF Null
    <3>. QED
      BY <1>0, <2>1, <2>5, <3>1, DeclErrIs
  <2>7. base + Size[l] \in Nat /\ Len(ReadVars) <= base + Size[l]
    <3>1. \A y \in 1 .. N : y \in 0 .. N
      BY <1>0
    <3>2. l \in 0 .. N
      BY <2>1, <3>1
    <3>. HIDE DEF l
    <3>3. Size[l] \in Nat
      BY <1>0, <3>2, SizeIs
    <3>4. Len(ReadVars) \in Nat
      BY <1>0, TreeParts
    <3>. QED
      BY <3>3, <3>4, PastLeft
  <2>8. /\ Holds(garbage, l, base) => Faithful(garbage, rs, M[<<nt, a, u>>], l, base)
        /\ Holds(garbage, r, base + Size[l]) => Faithful(garbage, rs, M[<<Below(nt), v, b>>], r, base + Size[l])
    BY <2>4, <2>6, <2>7 DEF FaithfulTo
  <2>. QED
    BY <2>1, <2>3, <2>5, <2>8, OperatorIsFaithful
<1>9. /\ TreeOf \in 1 .. N /\ Unfold(heap, TreeOf) = Derive(input)[<<"expr", Start(input), Len(input)>>]
      /\ Derive(input)[<<"expr", Start(input), Len(input)>>] # NoTree
      /\ <<"expr", Start(input), Len(input)>> \in Spans(input)
      /\ Start(input) \in 1 .. Len(input) + 1 /\ Len(input) \in 0 .. Len(input)
  BY HandedParts, ProgramParts
<1>10. <<"expr", Start(input), Len(input)>> \in Q[TreeOf]
  BY <1>0, <1>5, <1>6, <1>7, <1>8, <1>9, TreesMatch
<1>. QED
  BY <1>1, <1>3, <1>9, <1>10 DEF M, Meant

(* What the emitted program computes is what the text means.               *)
LEMMA RunsAsMeant ==
  ASSUME Handed, Checked, Spelled, Fits(input, text), NEW garbage \in [TooBig -> Garbage], CodeOf(garbage),
         NEW rs, Executed(rs), Len(rs) \in Nat, Len(code) \in Nat, Len(rs) <= Len(code),
         NEW as, Agreed(rs, as)
  PROVE  \/ Meant(as) = Undefined
         \/ /\ \A i \in Len(ReadVars) + 1 .. Len(rs) : rs[i] # Undefined
            /\ Len(rs) = Len(code) => ValIn(rs, value) = Meant(as)
<1>1. FaithfulTo(garbage, rs, Meant(as), TreeOf)
  BY TreeIsFaithful
<1>2. Sound /\ Len(ReadVars) \in Nat /\ ~DeclErr(TreeOf, Names(ReadVars)) /\ TreeOf \in 1 .. N
  BY TreeParts DEF Handed
<1>3. Faithful(garbage, rs, Meant(as), TreeOf, Len(ReadVars))
  <2>1. Len(ReadVars) <= Len(ReadVars) /\ Holds(garbage, TreeOf, Len(ReadVars))
    BY <1>2 DEF CodeOf
  <2>. QED
    BY <1>1, <1>2, <2>1 DEF FaithfulTo
<1>4. Len(code) = Len(ReadVars) + Size[TreeOf] /\ value = ValueOf(TreeOf, Len(ReadVars), garbage)
  BY DEF CodeOf
<1>5. \A i \in Len(ReadVars) + 1 .. Len(rs) :
        i \in Len(ReadVars) + 1 .. Len(ReadVars) + Size[TreeOf] /\ i <= Len(rs)
  BY <1>2, <1>4
<1>. QED
  BY <1>3, <1>4, <1>5 DEF Faithful

(* The invariant the refinement needs beside CompilerInv.                  *)
ParsedFirst == stage # "parse" => pc = "done"
RunsItsCode ==
  stage = "run" =>
    /\ ~err /\ Checked
    /\ \E garbage \in [TooBig -> Garbage] : CodeOf(garbage)
    /\ Executed(regs)
ReadInv == EndIsRead /\ ReadsRight
RefineInv ==
  /\ CompilerInv /\ ReadInv /\ ParsedFirst /\ RunsItsCode
  /\ AssertsOn => stage # "returned"

(* What depends only on the text and its tree stays as it is.              *)
LEMMA FrontFixed ==
  ASSUME UNCHANGED <<pvars, text>>
  PROVE  /\ TreeOf' = TreeOf /\ ReadVars' = ReadVars /\ Size' = Size /\ TooBig' = TooBig
         /\ \A garbage : (Emitted(garbage))' = Emitted(garbage)
         /\ \A n, base, garbage : (ValueOf(n, base, garbage))' = ValueOf(n, base, garbage)
         /\ Checked' <=> Checked
<1>. UNCHANGED <<input, heap, result, err, pc>>
  BY DEF pvars
<1>1. TreeOf' = TreeOf /\ ReadVars' = ReadVars /\ Size' = Size /\ TooBig' = TooBig
  BY DEF TreeOf, ReadVars, Size, TooBig
<1>2. \A n, base, garbage : (ValueOf(n, base, garbage))' = ValueOf(n, base, garbage)
  BY DEF ValueOf, Size, NameMap, NumberValue, ReadVars
<1>3. \A garbage : (Emitted(garbage))' = Emitted(garbage)
  BY DEF Emitted, ValueOf, Size, NameMap, NumberValue, ReadVars
<1>4. SemaErr(result)' = SemaErr(result)
  BY DEF SemaErr, DeclErr, DeclaredTwice, Names
<1>5. Checked' <=> Checked
  BY <1>4 DEF Checked, N, OperandsAreSet
<1>. QED
  BY <1>1, <1>2, <1>3, <1>5

LEMMA CodeFixed ==
  ASSUME UNCHANGED <<pvars, text, code, value>>
  PROVE  \A garbage : CodeOf(garbage)' <=> CodeOf(garbage)
BY FrontFixed DEF CodeOf, Holds

(* An operand keeps its value while the program goes on.                   *)
LEMMA OperandStays ==
  ASSUME NEW s, NEW t, Extends(s, t), Len(s) \in Nat, NEW i \in Nat, i <= Len(s) + 1, NEW v, Usable(v, i)
  PROVE  ValIn(t, v) = ValIn(s, v)
<1>1. CASE \E x \in Values : v = Const(x)
  BY <1>1 DEF ValIn, Const
<1>2. CASE \E j \in 1 .. i - 1 : v = Reg(j)
  <2>1. PICK j \in 1 .. i - 1 : v = Reg(j)
    BY <1>2
  <2>2. j \in 1 .. Len(s)
    OBVIOUS
  <2>. QED
    BY <2>1, <2>2 DEF ValIn, Reg, Extends
<1>. QED
  BY <1>1, <1>2 DEF Usable

(* Each instruction extends the execution.                                 *)
LEMMA ExecutedMore ==
  ASSUME ReadsFirst, NEW S, NEW rs \in Seq(S), NEW x \in S, Executed(rs),
         Len(code) \in Nat, Len(rs) < Len(code),
         code[Len(rs) + 1].op \in Operators =>
           x = Apply(code[Len(rs) + 1].op, ValIn(rs, code[Len(rs) + 1].left),
                     ValIn(rs, code[Len(rs) + 1].right))
  PROVE  Executed(Append(rs, x))
<1>. DEFINE t == Append(rs, x)
<1>1. Len(rs) \in Nat /\ Len(t) = Len(rs) + 1 /\ Extends(rs, t) /\ t[Len(rs) + 1] = x
  BY AppendExtends
<1>. HIDE DEF t
<1>2. ASSUME NEW i \in 1 .. Len(t), code[i].op \in Operators
      PROVE  t[i] = Apply(code[i].op, ValIn(t, code[i].left), ValIn(t, code[i].right))
  <2>1. i \in 1 .. Len(code) /\ i \in Nat /\ i <= Len(rs) + 1
    BY <1>1
  <2>2. Uses(code[i], i)
    BY <1>2, <2>1 DEF ReadsFirst, Operators
  <2>3. ValIn(t, code[i].left) = ValIn(rs, code[i].left) /\ ValIn(t, code[i].right) = ValIn(rs, code[i].right)
    BY <1>1, <2>1, <2>2, OperandStays DEF Uses
  <2>4. CASE i = Len(rs) + 1
    BY <1>1, <1>2, <2>3, <2>4
  <2>5. CASE i # Len(rs) + 1
    <3>1. i \in 1 .. Len(rs)
      BY <1>1, <2>1, <2>5
    <3>2. t[i] = rs[i]
      BY <1>1, <3>1 DEF Extends
    <3>. QED
      BY <1>2, <2>3, <3>1, <3>2 DEF Executed
  <2>. QED
    BY <2>4, <2>5
<1>. QED
  BY <1>2 DEF Executed, t

(* What Sema and CodeGen are handed comes from a program.                  *)
LEMMA HandedAtRun ==
  ASSUME RefineInv, stage = "run" \/ stage = "codegen" \/ (stage = "sema" /\ AssertsOn)
  PROVE  Handed /\ Spelled
<1>1. FrontInv /\ ReadsRight /\ EndIsRead /\ pc = "done"
  BY DEF RefineInv, CompilerInv, ReadInv, ParsedFirst
<1>2. ~err /\ result # Null
  BY DEF RefineInv, CompilerInv, BackInv, PassedOn, RunsItsCode, Checked, Null
<1>3. Sound
  BY <1>1, FrontIsSound
<1>4. result \in 1 .. N /\ \A n \in 1 .. N : OperandsAreSet(heap[n])
  <2>1. result \in Nat /\ result <= Len(heap) /\ Len(heap) \in Nat /\ result # 0
    BY <1>1, <1>2, LenProperties DEF FrontInv, IInv, Typed, TypeOK, Shape, PointersInHeap, Null
  <2>. QED
    BY <1>1, <1>2, <2>1 DEF FrontInv, IInv, NullIsReported, N
<1>5. ParsedAs(input)
  <2>1. Reads(input)
    BY <1>1, OwnFuture DEF ReadsRight, FrontInv, IInv, Typed
  <2>. QED
    BY <1>1, <1>2, <2>1 DEF Reads
<1>. QED
  BY <1>1, <1>3, <1>4, <1>5 DEF Handed, FrontInv

(* CodeGen's output is what CodeOf says.                                   *)
LEMMA CompileMakesCode ==
  ASSUME RefineInv, Compile
  PROVE  Checked /\ ~err /\ \E garbage \in [TooBig -> Garbage] : CodeOf(garbage)'
<1>1. stage = "codegen" /\ CompilerInv
  BY DEF Compile, RefineInv
<1>2. Checked /\ ~err /\ Sound /\ Spelled
  BY <1>1, PassedIsChecked, FrontIsSound DEF CompilerInv, BackInv, PassedOn, FrontInv
<1>3. PICK garbage \in [TooBig -> Garbage] :
        /\ code' = [v \in 1 .. Len(ReadVars) |-> Read(text[ReadVars[v]])]
                    \o Emitted(garbage)[TreeOf][Len(ReadVars)]
        /\ value' = ValueOf(TreeOf, Len(ReadVars), garbage)
  BY DEF Compile
<1>. DEFINE k == Len(ReadVars)
            reads == [v \in 1 .. k |-> Read(text[ReadVars[v]])]
            body == Emitted(garbage)[TreeOf][k]
<1>4. TreeOf \in 1 .. N /\ k \in Nat /\ ~DeclErr(TreeOf, Names(ReadVars)) /\ heap[TreeOf].kind # "With"
  BY <1>2, TreeParts
<1>5. body \in Seq(Instructions) /\ Len(body) = Size[TreeOf] /\ Size[TreeOf] \in Nat
  <2>1. GoodAt(TreeOf, garbage)
    BY <1>2, <1>4, EmittedIsGood
  <2>. QED
    BY <1>4, <2>1, LenProperties DEF GoodAt
<1>. DEFINE Any == Instructions \cup {reads[v] : v \in 1 .. k}
<1>6. reads \in Seq(Any) /\ Len(reads) = k /\ \A i \in 1 .. k : reads[i].op = "read"
  <2>1. \A i \in 1 .. k : reads[i].op = "read"
    BY DEF Read
  <2>2. reads \in [1 .. k -> Any]
    OBVIOUS
  <2>. HIDE DEF k, reads, Any
  <2>3. reads \in Seq(Any)
    BY <1>4, <2>2 DEF Seq
  <2>4. Len(reads) = k
    BY <1>4, <2>2, <2>3, LenProperties
  <2>. QED
    BY <2>1, <2>3, <2>4
<1>7. code' = reads \o body /\ value' = ValueOf(TreeOf, k, garbage)
  BY <1>3
<1>. HIDE DEF k, reads, body
<1>8. body \in Seq(Any)
  <2>1. Instructions \subseteq Any
    OBVIOUS
  <2>. HIDE DEF Any
  <2>. QED
    BY <1>5, <2>1, SeqMonotonic
<1>. HIDE DEF Any
<1>9. /\ Len(code') = k + Size[TreeOf]
      /\ \A i \in 1 .. k + Size[TreeOf] : code'[i] = IF i <= k THEN reads[i] ELSE body[i - k]
  <2>1. /\ Len(reads \o body) = Len(reads) + Len(body)
        /\ \A i \in 1 .. Len(reads) + Len(body) :
             (reads \o body)[i] = IF i <= Len(reads) THEN reads[i] ELSE body[i - Len(reads)]
    BY <1>6, <1>8, ConcatProperties
  <2>. QED
    BY <1>5, <1>6, <1>7, <2>1
<1>. DEFINE size == Size[TreeOf]
            new == code'
<1>. HIDE DEF size, new
<1>a. /\ size \in Nat /\ Len(new) = k + size
      /\ \A i \in 1 .. k + size : new[i] = IF i <= k THEN reads[i] ELSE body[i - k]
  BY <1>5, <1>9 DEF size, new
<1>10. \A i \in 1 .. k : code'[i].op = "read"
  <2>1. \A i \in 1 .. k : i \in 1 .. k + size /\ i <= k
    BY <1>4, <1>a
  <2>2. \A i \in 1 .. k : new[i] = reads[i]
    BY <2>1, <1>a
  <2>. QED
    BY <1>6, <2>2 DEF new
<1>11. \A i \in 1 .. Size[TreeOf] : code'[k + i] = body[i]
  <2>1. size \in Nat /\ k \in Nat
    BY <1>4, <1>a
  <2>2. ASSUME NEW i \in 1 .. size
        PROVE  new[k + i] = body[i]
    <3>. DEFINE j == k + i
    <3>1. j \in 1 .. k + size /\ ~(j <= k) /\ j - k = i
      BY <2>1, Past
    <3>. HIDE DEF j
    <3>2. new[j] = body[j - k]
      BY <1>a, <3>1
    <3>. QED
      BY <3>1, <3>2 DEF j
  <2>. QED
    BY <2>2 DEF new, size
<1>12. k + Size[TreeOf] <= Len(code')
  BY <1>4, <1>5, <1>9
<1>13. UNCHANGED <<pvars, text>>
  BY DEF Compile
<1>14. CodeOf(garbage)'
  BY <1>7, <1>9, <1>10, <1>11, <1>12, <1>13, FrontFixed DEF CodeOf, Holds, k, body
<1>. QED
  BY <1>2, <1>14

LEMMA WaitingTyped == RefineInv => stdin \in Seq(Piece)
BY DEF RefineInv, CompilerInv, BackInv, RunTyped

LEMMA NextRunsItsCode ==
  ASSUME RefineInv, [NextAll]_vars_all
  PROVE  RunsItsCode'
<1>1. CASE stage' # "run"
  BY <1>1 DEF RunsItsCode
<1>2. CASE stage' = "run" /\ stage # "run"
  <2>1. Compile
    BY <1>2 DEF NextAll, MainStep, ProgramStep, Parse, AfterParse, RunSema, CalcRead, CalcReadRest,
           Compute, CalcWrite, Running, vars_all
  <2>2. /\ Checked /\ ~err /\ UNCHANGED <<pvars, text>> /\ regs' = regs /\ stage = "codegen"
        /\ \E garbage \in [TooBig -> Garbage] : CodeOf(garbage)'
    BY <2>1, CompileMakesCode DEF Compile, runvars
  <2>3. Checked' /\ TooBig' = TooBig /\ err' = err
    BY <2>2, FrontFixed DEF pvars
  <2>4. regs' = <<>>
    BY <2>2 DEF RefineInv, CompilerInv, BackInv, NothingEmitted, BeforeRun
  <2>5. Executed(regs)'
    <3>1. Len(regs') = 0
      BY <2>4, EmptySeq
    <3>. QED
      BY <3>1 DEF Executed
  <2>. QED
    BY <2>2, <2>3, <2>5 DEF RunsItsCode
<1>3. CASE stage' = "run" /\ stage = "run"
  <2>1. UNCHANGED <<pvars, text, code, value>>
    BY <1>3 DEF NextAll, MainStep, ProgramStep, Parse, AfterParse, RunSema, Compile, CalcRead, CalcReadRest,
           Compute, CalcWrite, Running, vars_all, cgvars
  <2>2. /\ ~err /\ Checked /\ Executed(regs) /\ ReadsFirst
        /\ regs \in Seq(Values) /\ Len(code) \in Nat
    BY <1>3, LenProperties DEF RefineInv, RunsItsCode, CompilerInv, BackInv, Translated, RunTyped, BeforeRun
  <2>3. PICK garbage \in [TooBig -> Garbage] : CodeOf(garbage)
    BY <1>3 DEF RefineInv, RunsItsCode
  <2>4. Checked' /\ CodeOf(garbage)' /\ TooBig' = TooBig /\ err' = err
    BY <2>1, <2>2, <2>3, FrontFixed, CodeFixed DEF pvars
  <2>5. Executed(regs')
    <3>1. CASE regs' = regs
      BY <2>2, <3>1
    <3>2. CASE (CalcRead \/ CalcReadRest) /\ regs' # regs
      <4>1. Len(regs) < Len(code) /\ code[Len(regs) + 1].op = "read"
        BY <3>2 DEF CalcRead, CalcReadRest, Running, Current
      <4>2. PICK x \in Values : regs' = Append(regs, x)
        BY <3>2, WaitingTyped, PieceIsScanned
      <4>3. code[Len(regs) + 1].op \notin Operators
        BY <4>1 DEF Operators
      <4>. QED
        BY <2>2, <4>1, <4>2, <4>3, ExecutedMore
    <3>3. CASE Compute /\ regs' # regs
      <4>1. /\ Len(regs) < Len(code)
            /\ regs' = Append(regs, Apply(Current.op, Operand(Current.left), Operand(Current.right)))
        BY <3>3 DEF Compute, Running
      <4>2. regs' = Append(regs, Apply(code[Len(regs) + 1].op, ValIn(regs, code[Len(regs) + 1].left),
                                       ValIn(regs, code[Len(regs) + 1].right)))
        BY <4>1 DEF Current, Operand, ValIn
      <4>. QED
        BY <2>2, <4>1, <4>2, ApplyTyped, ExecutedMore
    <3>. QED
      BY <1>3, <3>1, <3>2, <3>3 DEF NextAll, MainStep, ProgramStep, Parse, AfterParse, RunSema, Compile,
           CalcReadRest, CalcWrite, vars_all, runvars
  <2>6. Executed(regs)'
    BY <2>1, <2>5 DEF Executed
  <2>. QED
    BY <2>2, <2>4, <2>6 DEF RunsItsCode
<1>. QED
  BY <1>1, <1>2, <1>3

LEMMA RefineInvariant == SpecAll => []RefineInv
<1>1. InitAll => RefineInv
  <2>. SUFFICES ASSUME InitAll PROVE RefineInv
    OBVIOUS
  <2>1. CompilerInv /\ ReadInv
    BY InitCompiler, InitReads DEF InitAll, ReadInv
  <2>2. stage = "parse"
    BY DEF InitAll
  <2>. QED
    BY <2>1, <2>2 DEF RefineInv, ParsedFirst, RunsItsCode
<1>2. RefineInv /\ [NextAll]_vars_all => RefineInv'
  <2>. SUFFICES ASSUME RefineInv, [NextAll]_vars_all PROVE RefineInv'
    OBVIOUS
  <2>1. CompilerInv'
    BY NextCompiler DEF RefineInv
  <2>2. [Next]_pvars
    BY DEF NextAll, MainStep, ProgramStep, Parse, Next, AfterParse, RunSema, Compile, CalcRead, CalcReadRest,
           Compute, CalcWrite, vars_all
  <2>3. ReadInv'
    <3>1. IInv /\ Shape /\ EndIsRead /\ ReadsRight /\ Typed
      BY DEF RefineInv, CompilerInv, FrontInv, ReadInv, IInv
    <3>2. IInv' /\ Shape' /\ EndIsRead'
      BY <2>2, <3>1, NextIInv, NextShape, NextEndIsRead
    <3>3. TypeOK'
      BY <3>2 DEF IInv, Typed
    <3>. QED
      BY <2>2, <3>1, <3>2, <3>3, NextReads DEF ReadInv
  <2>4. ParsedFirst'
    <3>1. CASE Parse
      BY <3>1 DEF ParsedFirst, Parse
    <3>2. CASE AfterParse
      BY <3>2 DEF ParsedFirst, AfterParse, pvars
    <3>3. CASE ~Parse /\ ~AfterParse
      <4>1. UNCHANGED pvars /\ (stage' # "parse" => stage # "parse")
        BY <3>3 DEF NextAll, MainStep, ProgramStep, RunSema, Compile, CalcRead, CalcReadRest,
             Compute, CalcWrite, Running, vars_all
      <4>. QED
        BY <4>1 DEF RefineInv, ParsedFirst, pvars
    <3>. QED
      BY <3>1, <3>2, <3>3
  <2>5. RunsItsCode'
    BY NextRunsItsCode
  <2>6. AssertsOn => stage' # "returned"
    BY DEF RefineInv, NextAll, MainStep, ProgramStep, Parse, AfterParse, RunSema, Compile,
           CalcRead, CalcReadRest, Scan,
           Compute, CalcWrite, Running, vars_all
  <2>. QED
    BY <2>1, <2>3, <2>4, <2>5, <2>6 DEF RefineInv
<1>. QED
  BY <1>1, <1>2, PTL DEF SpecAll

-----------------------------------------------------------------------------
(* The values of the abstract variables.                                   *)
Source == IF stage \in {"parse", "sema", "codegen"} THEN <<>> ELSE <<input, text>>
Verdict == CASE stage \in {"parse", "sema", "codegen"} -> "unread"
             [] stage \in {"rejected", "aborted"} -> "rejected"
             [] stage = "run" -> "accepted"
             [] OTHER -> stage

(* The answers among the values produced so far.                           *)
LEMMA AnswersAre ==
  ASSUME NEW S, NEW rs \in Seq(S), NEW k \in Nat
  PROVE  /\ Len(rs) \in Nat /\ AnswersOf(rs, k) \in Seq(S)
         /\ Len(rs) <= k => AnswersOf(rs, k) = rs
         /\ k <= Len(rs) => /\ Len(AnswersOf(rs, k)) = k
                            /\ \A v \in 1 .. k : AnswersOf(rs, k)[v] = rs[v]
<1>1. Len(rs) \in Nat /\ \A i \in 1 .. Len(rs) : rs[i] \in S
  BY LenProperties, ElementOfSeq
<1>. DEFINE n == IF Len(rs) < k THEN Len(rs) ELSE k
            as == SubSeq(rs, 1, n)
<1>2. n \in Nat /\ n <= Len(rs)
  BY <1>1
<1>3. (Len(rs) <= k => n = Len(rs)) /\ (k <= Len(rs) => n = k)
  BY <1>1
<1>4. AnswersOf(rs, k) = as
  BY DEF AnswersOf
<1>. HIDE DEF n
<1>5. /\ as \in Seq(S) /\ Len(as) = (IF 1 <= n THEN n - 1 + 1 ELSE 0)
      /\ \A i \in 1 .. n - 1 + 1 : as[i] = rs[1 + i - 1]
  <2>1. \A i \in 1 .. n : rs[i] \in S
    BY <1>1, <1>2
  <2>. QED
    BY <1>2, <2>1, SubSeqProperties
<1>. HIDE DEF as
<1>6. Len(as) = n /\ \A i \in 1 .. n : as[i] = rs[i]
  <2>1. n - 1 + 1 = n /\ (1 <= n <=> n # 0) /\ \A i \in 1 .. n : 1 + i - 1 = i
    BY <1>2
  <2>2. Len(as) = n
    BY <1>2, <1>5, <2>1
  <2>3. ASSUME NEW i \in 1 .. n
        PROVE  as[i] = rs[i]
    <3>1. as[i] = rs[1 + i - 1] /\ 1 + i - 1 = i
      BY <1>5, <2>1
    <3>. QED
      BY <3>1
  <2>. QED
    BY <2>2, <2>3
<1>7. n = Len(rs) => as = rs
  BY <1>1, <1>5, <1>6, SeqEqual
<1>. QED
  BY <1>1, <1>3, <1>4, <1>5, <1>6, <1>7

(* The operators' results are no answers.                                  *)
LEMMA SameAnswers ==
  ASSUME NEW S, NEW rs \in Seq(S), NEW t \in Seq(S), NEW k \in Nat, k <= Len(rs), Len(t) = Len(rs) + 1,
         \A i \in 1 .. Len(rs) : t[i] = rs[i]
  PROVE  AnswersOf(t, k) = AnswersOf(rs, k)
<1>1. Len(rs) \in Nat /\ k <= Len(t)
  BY LenProperties
<1>. DEFINE a == AnswersOf(t, k)
            b == AnswersOf(rs, k)
<1>2. /\ a \in Seq(S) /\ Len(a) = k /\ \A v \in 1 .. k : a[v] = t[v]
      /\ b \in Seq(S) /\ Len(b) = k /\ \A v \in 1 .. k : b[v] = rs[v]
  BY <1>1, AnswersAre
<1>. HIDE DEF a, b
<1>3. \A v \in 1 .. k : a[v] = b[v]
  BY <1>1, <1>2
<1>4. a = b
  BY <1>2, <1>3, SeqEqual
<1>. QED
  BY <1>4 DEF a, b

LEMMA NoAnswers == \A k \in Nat : AnswersOf(<<>>, k) = <<>>
<1>. SUFFICES ASSUME NEW k \in Nat PROVE AnswersOf(<<>>, k) = <<>>
  OBVIOUS
<1>1. <<>> \in Seq(Values) /\ Len(<<>>) <= k
  BY EmptySeq
<1>. QED
  BY <1>1, AnswersAre

(* A code that starts with k reads, and has no others, has k of them.      *)
LEMMA ReadsCounted ==
  ASSUME NEW c, Len(c) \in Nat, NEW k \in Nat, k <= Len(c),
         \A i \in 1 .. Len(c) : c[i].op = "read" <=> i <= k
  PROVE  Cardinality({i \in 1 .. Len(c) : c[i].op = "read"}) = k
<1>1. {i \in 1 .. Len(c) : c[i].op = "read"} = 1 .. k
  OBVIOUS
<1>2. Cardinality(1 .. k) = k
  BY FS_Interval
<1>. QED
  BY <1>1, <1>2

(* What holds while the emitted program runs.                              *)
RunFacts ==
  LET k == Len(ReadVars) IN
  /\ k \in Nat /\ Len(code) \in Nat /\ k <= Len(code)
  /\ regs \in Seq(Values) /\ Len(regs) \in Nat /\ Len(regs) <= Len(code)
  /\ NumReads = k /\ Declared(input) = ReadVars /\ Fits(input, text)
  /\ \A i \in 1 .. Len(code) : IF i <= k THEN code[i].op = "read" ELSE code[i].op \in Operators

LEMMA AtRun == RefineInv /\ stage = "run" => RunFacts
<1>. SUFFICES ASSUME RefineInv, stage = "run" PROVE RunFacts
  OBVIOUS
<1>. DEFINE k == Len(ReadVars)
<1>1. Handed /\ Spelled /\ Checked /\ Sound
  BY HandedAtRun DEF RefineInv, RunsItsCode, Handed
<1>2. PICK garbage \in [TooBig -> Garbage] : CodeOf(garbage)
  BY DEF RefineInv, RunsItsCode
<1>3. /\ TreeOf \in 1 .. N /\ k \in Nat /\ ~DeclErr(TreeOf, Names(ReadVars)) /\ heap[TreeOf].kind # "With"
  BY <1>1, TreeParts
<1>4. GoodAt(TreeOf, garbage)
  BY <1>1, <1>3, EmittedIsGood
<1>5. /\ Size[TreeOf] \in Nat /\ Len(code) = k + Size[TreeOf]
      /\ \A i \in 1 .. k : code[i].op = "read"
      /\ \A i \in 1 .. Size[TreeOf] : code[k + i].op \in Operators
  <2>1. /\ Len(Emitted(garbage)[TreeOf][k]) = Size[TreeOf]
        /\ Emitted(garbage)[TreeOf][k] \in Seq(Instructions)
        /\ \A i \in 1 .. Size[TreeOf] : Uses(Emitted(garbage)[TreeOf][k][i], k + i)
    BY <1>3, <1>4 DEF GoodAt
  <2>2. Size[TreeOf] \in Nat
    BY <2>1, LenProperties
  <2>3. /\ Len(code) = k + Size[TreeOf]
        /\ \A i \in 1 .. k : code[i].op = "read"
        /\ \A i \in 1 .. Size[TreeOf] : code[k + i] = Emitted(garbage)[TreeOf][k][i]
    BY <1>2 DEF CodeOf, Holds
  <2>. QED
    BY <2>1, <2>2, <2>3 DEF Uses
<1>. DEFINE size == Size[TreeOf]
<1>. HIDE DEF k, size
<1>6. \A i \in 1 .. Len(code) : IF i <= k THEN code[i].op = "read" ELSE code[i].op \in Operators
  <2>. SUFFICES ASSUME NEW i \in 1 .. Len(code), ~(i <= k) PROVE code[i].op \in Operators
    BY <1>3, <1>5 DEF size, k
  <2>1. i - k \in 1 .. size /\ k + (i - k) = i
    BY <1>3, <1>5 DEF size
  <2>. QED
    BY <1>5, <2>1 DEF size
<1>7. Len(code) \in Nat /\ k <= Len(code)
  BY <1>3, <1>5 DEF size
<1>8. NumReads = k
  <2>1. \A i \in 1 .. Len(code) : code[i].op = "read" <=> i <= k
    BY <1>6 DEF Operators
  <2>. QED
    BY <1>3, <1>7, <2>1, ReadsCounted DEF NumReads
<1>9. regs \in Seq(Values) /\ Len(regs) \in Nat /\ Len(regs) <= Len(code)
  BY LenProperties DEF RefineInv, CompilerInv, BackInv, RunTyped, OnePiecePerRead
<1>10. Declared(input) = ReadVars /\ Fits(input, text)
  BY <1>1, HandedParts, SemaJudges DEF Checked
<1>. QED
  BY <1>3, <1>6, <1>7, <1>8, <1>9, <1>10 DEF RunFacts, k

LEMMA NothingGiven ==
  ASSUME RefineInv, stage \in BeforeRun
  PROVE  Given = <<>> /\ NumReads = 0 /\ regs = <<>>
<1>1. code = <<>> /\ regs = <<>>
  BY DEF RefineInv, CompilerInv, BackInv, NothingEmitted
<1>2. NumReads = 0
  <2>1. {i \in 1 .. Len(code) : code[i].op = "read"} = {}
    BY <1>1, EmptySeq
  <2>. QED
    BY <2>1, FS_EmptySet DEF NumReads
<1>3. AnswersOf(<<>>, 0) = <<>>
  BY NoAnswers
<1>. QED
  BY <1>1, <1>2, <1>3 DEF Given

(* Steps the specification does not see.                                   *)
LEMMA Stutters ==
  ASSUME Source' = Source, Verdict' = Verdict, Given' = Given, printed' = printed
  PROVE  UNCHANGED Language!avars
BY DEF Language!avars, Source, Verdict, Given, AnswersOf

(* A step that ends in a verdict.                                          *)
LEMMA Judged ==
  ASSUME stage \in Unread, stage' \in {"rejected", "aborted", "run"},
         stage' = "run" <=> Fits(input', text'), Given' = Given, printed' = printed
  PROVE  Language!Judge
<1>1. Language!WellFormed' <=> Fits(input', text')
  BY FitsIsWellFormed DEF Unread
<1>2. (Language!WellFormed)' \in BOOLEAN
  BY DEF Language!WellFormed
<1>3. (stage' = "run") = (Language!WellFormed)'
  BY <1>1, <1>2
<1>. QED
  BY <1>3 DEF Language!Judge, Unread, Given, AnswersOf

LEMMA ParserJudges ==
  ASSUME RefineInv, AssertsOn, AfterParse
  PROVE  [Language!Next]_(Language!avars)
<1>1. /\ stage = "parse" /\ pc = "done" /\ UNCHANGED <<input, text, regs, code, printed>>
  BY DEF AfterParse, pvars, cgvars, runvars
<1>2. Given' = Given
  BY <1>1 DEF Given, NumReads
<1>3. IInv /\ ReadsRight
  BY DEF RefineInv, CompilerInv, FrontInv, ReadInv
<1>4. CASE err
  <2>1. ~IsProgram(input)
    <3>1. Reads(input)
      BY <1>3, OwnFuture DEF ReadsRight, IInv, Typed
    <3>. QED
      BY <1>4, <3>1 DEF Reads
  <2>2. stage' \in {"rejected", "aborted"} /\ ~Fits(input', text')
    BY <1>1, <1>4, <2>1 DEF AfterParse, Fits
  <2>. QED
    BY <1>1, <1>2, <2>2, Judged DEF Unread, Language!Next
<1>5. CASE ~err
  <2>1. result # Null
    BY <1>1, <1>3, <1>5 DEF IInv, NullIsReported
  <2>2. stage' = "sema"
    BY <1>1, <1>5, <2>1 DEF AfterParse
  <2>3. Source' = Source /\ Verdict' = Verdict
    BY <1>1, <2>2 DEF Source, Verdict
  <2>. QED
    BY <1>1, <1>2, <2>3, Stutters
<1>. QED
  BY <1>4, <1>5

LEMMA SemaJudgesText ==
  ASSUME RefineInv, AssertsOn, RunSema
  PROVE  [Language!Next]_(Language!avars)
<1>1. /\ stage = "sema" /\ UNCHANGED <<input, text, regs, code, printed>>
      /\ stage' = IF SemaErr(result) THEN "aborted" ELSE "codegen"
  BY DEF RunSema, pvars, cgvars, runvars
<1>2. Given' = Given
  BY <1>1 DEF Given, NumReads
<1>3. SemaErr(result) <=> ~Fits(input, text)
  BY <1>1, HandedAtRun, SemaJudges
<1>4. CASE SemaErr(result)
  <2>1. stage' = "aborted" /\ ~Fits(input', text')
    BY <1>1, <1>3, <1>4 DEF Fits
  <2>. QED
    BY <1>1, <1>2, <2>1, Judged DEF Unread, Language!Next
<1>5. CASE ~SemaErr(result)
  <2>1. Source' = Source /\ Verdict' = Verdict
    BY <1>1, <1>5 DEF Source, Verdict
  <2>. QED
    BY <1>1, <1>2, <2>1, Stutters
<1>. QED
  BY <1>4, <1>5

LEMMA CompileAccepts ==
  ASSUME RefineInv, Compile, RunFacts'
  PROVE  Language!Judge
<1>1. /\ stage = "codegen" /\ stage' = "run" /\ UNCHANGED <<input, text, regs, printed>>
  BY DEF Compile, pvars, runvars
<1>2. Given = <<>> /\ regs' = <<>>
  BY <1>1, NothingGiven DEF BeforeRun
<1>3. Given' = <<>>
  <2>1. NumReads' \in Nat
    BY DEF RunFacts
  <2>2. AnswersOf(<<>>, NumReads') = <<>>
    BY <2>1, NoAnswers
  <2>. QED
    BY <1>2, <2>2 DEF Given, AnswersOf
<1>4. Fits(input', text')
  BY DEF RunFacts, Fits, VarsOf
<1>. QED
  BY <1>1, <1>2, <1>3, <1>4, Judged DEF Unread


LEMMA SeenRunning ==
  ASSUME stage = "run", RunFacts
  PROVE  /\ Len(Language!Declared(Language!kinds)) = NumReads
         /\ Language!Ints = Ints /\ Language!Undefined = Undefined
         /\ Language!Meaning = Meant(Given)
<1>1. Language!kinds = input
  BY DEF Language!kinds
<1>2. Len(Language!Declared(Language!kinds)) = NumReads
  BY <1>1, SameDeclared DEF RunFacts
<1>3. stage \notin Unread
  BY DEF Unread
<1>. QED
  BY <1>2, <1>3, SameOps, MeaningIsMeans DEF Meant, Start

LEMMA AnswerIsTaken ==
  ASSUME RefineInv, RunFacts, CalcRead \/ CalcReadRest
  PROVE  Language!Next
<1>. DEFINE k == Len(ReadVars)
<1>1. /\ stage = "run" /\ Len(regs) < Len(code) /\ code[Len(regs) + 1].op = "read"
      /\ UNCHANGED <<input, text, code, printed>>
  BY DEF CalcRead, CalcReadRest, Running, Current, pvars, cgvars
<1>2. NumReads = k /\ k \in Nat /\ NumReads' = NumReads /\ regs \in Seq(Values)
  BY <1>1 DEF RunFacts, NumReads
<1>3. Len(regs) \in Nat /\ Len(regs) < k
  <2>1. Len(regs) + 1 \in 1 .. Len(code) /\ Len(regs) \in Nat
    BY <1>1 DEF RunFacts
  <2>2. ~(Len(regs) + 1 <= k) => code[Len(regs) + 1].op \in Operators
    BY <2>1 DEF RunFacts
  <2>. QED
    BY <1>1, <1>2, <2>1, <2>2 DEF Operators
<1>4. Given = regs
  BY <1>2, <1>3, AnswersAre DEF Given
<1>5. /\ Len(Language!Declared(Language!kinds)) = NumReads /\ Language!Ints = Ints
  BY <1>1, SeenRunning
<1>6. CASE stage' = "run"
  <2>1. PICK n \in Ints : <<n>> \in Values /\ regs' = Append(regs, <<n>>)
    BY <1>1, <1>6, WaitingTyped, PieceIsScanned
  <2>2. <<n>> \in Values /\ n \in Ints
    BY <2>1
  <2>3. regs' \in Seq(Values) /\ Len(regs') = Len(regs) + 1
    BY <1>2, <2>1, <2>2, AppendProperties
  <2>4. Given' = Append(Given, <<n>>)
    <3>1. AnswersOf(regs', k) = regs'
      BY <1>2, <1>3, <2>3, AnswersAre
    <3>2. Given' = AnswersOf(regs', k)
      BY <1>2 DEF Given, AnswersOf
    <3>. QED
      BY <1>4, <2>1, <3>1, <3>2
  <2>5. Len(Given) < Len(Language!Declared(Language!kinds))
    BY <1>2, <1>3, <1>4, <1>5
  <2>6. Language!Answer
    BY <1>1, <1>5, <1>6, <2>2, <2>4, <2>5 DEF Language!Answer, Given, AnswersOf
  <2>. QED
    BY <2>6 DEF Language!Next
<1>7. CASE stage' # "run"
  <2>1. stage' = "exited" /\ regs' = regs
    BY <1>1, <1>7, WaitingTyped, PieceIsScanned
  <2>2. Given' = Given
    BY <1>2, <2>1 DEF Given
  <2>3. Len(Given) < Len(Language!Declared(Language!kinds))
    BY <1>2, <1>3, <1>4, <1>5
  <2>4. Language!BadAnswer
    BY <1>1, <2>1, <2>2, <2>3 DEF Language!BadAnswer, Given, AnswersOf
  <2>. QED
    BY <2>4 DEF Language!Next
<1>. QED
  BY <1>6, <1>7

(* The answers are all there once an operator is reached, or the end.      *)
LEMMA AllAnswered ==
  ASSUME RunFacts, \/ Len(regs) = Len(code)
                   \/ Len(regs) < Len(code) /\ code[Len(regs) + 1].op \in Operators
  PROVE  Len(ReadVars) <= Len(regs) /\ Len(Given) = NumReads /\ Agreed(regs, Given)
<1>. DEFINE k == Len(ReadVars)
<1>1. k \in Nat /\ NumReads = k /\ regs \in Seq(Values) /\ Len(regs) \in Nat
  BY DEF RunFacts
<1>2. k <= Len(regs)
  <2>1. CASE Len(regs) = Len(code)
    BY <2>1 DEF RunFacts
  <2>2. CASE Len(regs) < Len(code) /\ code[Len(regs) + 1].op \in Operators
    <3>1. Len(regs) + 1 \in 1 .. Len(code)
      BY <1>1, <2>2 DEF RunFacts
    <3>2. ~(Len(regs) + 1 <= k)
      BY <2>2, <3>1 DEF RunFacts, Operators
    <3>. QED
      BY <1>1, <3>2
  <2>. QED
    BY <2>1, <2>2
<1>3. Len(Given) = k /\ \A v \in 1 .. k : Given[v] = regs[v]
  BY <1>1, <1>2, AnswersAre DEF Given
<1>. QED
  BY <1>1, <1>2, <1>3 DEF Agreed

LEMMA RunMeans ==
  ASSUME RefineInv, stage = "run", RunFacts, NEW rs, Executed(rs), Len(rs) \in Nat, Len(rs) <= Len(code),
         Agreed(rs, Given)
  PROVE  \/ Meant(Given) = Undefined
         \/ /\ \A i \in Len(ReadVars) + 1 .. Len(rs) : rs[i] # Undefined
            /\ Len(rs) = Len(code) => ValIn(rs, value) = Meant(Given)
<1>1. Handed /\ Spelled
  BY HandedAtRun
<1>2. PICK garbage \in [TooBig -> Garbage] : CodeOf(garbage)
  BY DEF RefineInv, RunsItsCode
<1>3. Checked /\ Fits(input, text) /\ Len(code) \in Nat
  BY DEF RefineInv, RunsItsCode, RunFacts
<1>. QED
  BY <1>1, <1>2, <1>3, RunsAsMeant

LEMMA ComputeIsHidden ==
  ASSUME RefineInv, RunFacts, Compute
  PROVE  [Language!Next]_(Language!avars)
<1>. DEFINE k == Len(ReadVars)
            x == Apply(Current.op, Operand(Current.left), Operand(Current.right))
<1>1. /\ stage = "run" /\ Len(regs) < Len(code) /\ code[Len(regs) + 1].op \in Operators
      /\ UNCHANGED <<input, text, code, printed>>
  BY DEF Compute, Running, Current, pvars, cgvars
<1>2. k <= Len(regs) /\ Len(Given) = NumReads /\ Agreed(regs, Given)
  BY <1>1, AllAnswered
<1>3. NumReads = k /\ k \in Nat /\ NumReads' = NumReads /\ regs \in Seq(Values) /\ Len(regs) \in Nat
  BY <1>1 DEF RunFacts, NumReads
<1>. DEFINE t == Append(regs, x)
<1>4. /\ t \in Seq(Values) /\ Len(t) = Len(regs) + 1 /\ t[Len(regs) + 1] = x
      /\ \A i \in 1 .. Len(regs) : t[i] = regs[i]
  BY <1>3, ApplyTyped, AppendProperties
<1>5. CASE regs' = t /\ UNCHANGED stage
  <2>1. Given' = Given
    <3>1. Given' = AnswersOf(t, k) /\ Given = AnswersOf(regs, k)
      BY <1>3, <1>5 DEF Given, AnswersOf
    <3>2. AnswersOf(t, k) = AnswersOf(regs, k)
      <4>. HIDE DEF t
      <4>. QED
        BY <1>2, <1>3, <1>4, SameAnswers
    <3>. QED
      BY <3>1, <3>2
  <2>2. Source' = Source /\ Verdict' = Verdict
    BY <1>1, <1>5 DEF Source, Verdict
  <2>. QED
    BY <1>1, <2>1, <2>2, Stutters
<1>6. CASE x = Undefined /\ stage' = "trapped" /\ UNCHANGED regs
  <2>1. Executed(t)
    <3>1. x = Apply(code[Len(regs) + 1].op, ValIn(regs, code[Len(regs) + 1].left),
                    ValIn(regs, code[Len(regs) + 1].right))
      BY DEF Current, Operand, ValIn
    <3>2. ReadsFirst /\ Executed(regs) /\ Len(code) \in Nat
      BY <1>1 DEF RefineInv, CompilerInv, BackInv, Translated, BeforeRun, RunsItsCode, RunFacts
    <3>3. x \in Values
      BY ApplyTyped
    <3>. HIDE DEF x
    <3>. QED
      BY <1>1, <1>3, <3>1, <3>2, <3>3, ExecutedMore
  <2>2. Len(t) \in Nat /\ Len(t) <= Len(code) /\ Len(regs) + 1 \in k + 1 .. Len(t)
    BY <1>1, <1>2, <1>3, <1>4 DEF RunFacts
  <2>3. Agreed(t, Given)
    <3>. HIDE DEF t
    <3>1. \A v \in 1 .. k : v \in 1 .. Len(regs)
      BY <1>2, <1>3
    <3>. QED
      BY <1>2, <1>3, <1>4, <2>2, <3>1 DEF Agreed
  <2>4. Meant(Given) = Undefined
    <3>. HIDE DEF t, x
    <3>. QED
      BY <1>1, <1>4, <1>6, <2>1, <2>2, <2>3, RunMeans
  <2>5. Given' = Given
    BY <1>3, <1>6 DEF Given
  <2>6. /\ Len(Language!Declared(Language!kinds)) = NumReads
        /\ Language!Meaning = Language!Undefined
    BY <1>1, <2>4, SeenRunning
  <2>7. Language!Trap
    BY <1>1, <1>2, <1>6, <2>5, <2>6 DEF Language!Trap, Given, AnswersOf
  <2>. QED
    BY <2>7 DEF Language!Next
<1>. QED
  BY <1>5, <1>6 DEF Compute

LEMMA MeaningIsPrinted ==
  ASSUME RefineInv, RunFacts, CalcWrite
  PROVE  Language!Next
<1>1. /\ stage = "run" /\ stage' = "finished" /\ Len(regs) = Len(code)
      /\ UNCHANGED <<input, text, code, regs>>
  BY DEF CalcWrite, pvars, cgvars
<1>2. PICK n \in Ints : printed' = <<n>> /\ (ValIn(regs, value) # Undefined => <<n>> = ValIn(regs, value))
  BY DEF CalcWrite, Operand, ValIn
<1>3. Len(Given) = NumReads /\ Agreed(regs, Given)
  BY <1>1, AllAnswered
<1>4. Meant(Given) # Undefined => printed' = Meant(Given)
  <2>1. Executed(regs) /\ Len(regs) \in Nat /\ Len(regs) <= Len(code)
    BY <1>1 DEF RefineInv, RunsItsCode, RunFacts
  <2>. QED
    BY <1>1, <1>2, <1>3, <2>1, RunMeans
<1>5. Given' = Given
  BY <1>1 DEF Given, NumReads
<1>6. /\ Len(Language!Declared(Language!kinds)) = NumReads /\ Language!Ints = Ints
      /\ Language!Undefined = Undefined /\ Language!Meaning = Meant(Given)
  BY <1>1, SeenRunning
<1>7. Language!WriteValue
  BY <1>1, <1>2, <1>3, <1>4, <1>5, <1>6 DEF Language!WriteValue, Given, AnswersOf
<1>. QED
  BY <1>7 DEF Language!Next

(* Every step of main() and of the emitted program is a step of the        *)
(* specification or leaves the specification's variables alone.            *)
LEMMA StepsAreAllowed ==
  ASSUME RefineInv, stage = "run" => RunFacts, (stage = "run" => RunFacts)', AssertsOn, [NextAll]_vars_all
  PROVE  [Language!Next]_(Language!avars)
<1>1. CASE Parse
  <2>1. stage = "parse" /\ UNCHANGED <<stage, code, regs, printed>>
    BY <1>1 DEF Parse, cgvars, runvars
  <2>2. Given' = Given /\ Source' = Source /\ Verdict' = Verdict
    BY <2>1 DEF Given, NumReads, Source, Verdict
  <2>. QED
    BY <2>1, <2>2, Stutters
<1>2. CASE AfterParse
  BY <1>2, ParserJudges
<1>3. CASE RunSema
  BY <1>3, SemaJudgesText
<1>4. CASE Compile
  <2>1. RunFacts'
    BY <1>4 DEF Compile
  <2>. QED
    BY <1>4, <2>1, CompileAccepts DEF Language!Next
<1>5. CASE CalcRead \/ CalcReadRest
  BY <1>5, AnswerIsTaken DEF CalcRead, CalcReadRest, Running
<1>6. CASE Compute
  BY <1>6, ComputeIsHidden DEF Compute, Running
<1>7. CASE CalcWrite
  BY <1>7, MeaningIsPrinted DEF CalcWrite
<1>8. CASE UNCHANGED vars_all
  <2>1. UNCHANGED <<input, text, stage, code, regs, printed>>
    BY <1>8 DEF vars_all, pvars, cgvars, runvars
  <2>2. Given' = Given /\ Source' = Source /\ Verdict' = Verdict
    BY <2>1 DEF Given, NumReads, Source, Verdict
  <2>. QED
    BY <2>1, <2>2, Stutters
<1>. QED
  BY <1>1, <1>2, <1>3, <1>4, <1>5, <1>6, <1>7, <1>8 DEF NextAll, MainStep, ProgramStep

(* The compiler and the programs it emits implement CalcLanguage, for every*)
(* text, width of the integers and sequence of answers: the parser and Sema*)
(* accept exactly the well-formed texts, and a program asks for its        *)
(* variables in order and prints what its text means, when it means        *)
(* anything.  In a build without assertions main() skips sema and compile, *)
(* which ParsedTextIsCompiled shows: the hypothesis excludes that build.   *)
THEOREM CompilerImplementsLanguage == AssertsOn => (SpecAll => ImplementsLanguage)
<1>. SUFFICES ASSUME AssertsOn PROVE SpecAll => ImplementsLanguage
  OBVIOUS
<1>1. InitAll /\ RefineInv => Language!Init
  <2>. SUFFICES ASSUME InitAll, RefineInv PROVE Language!Init
    OBVIOUS
  <2>1. stage = "parse" /\ printed = <<>>
    BY DEF InitAll
  <2>2. Given = <<>>
    BY <2>1, NothingGiven DEF BeforeRun
  <2>. QED
    BY <2>1, <2>2 DEF Language!Init, Given, AnswersOf
<1>2. RefineInv => (stage = "run" => RunFacts)
  BY AtRun
<1>3. (RefineInv => (stage = "run" => RunFacts))'
  BY AtRun, PTL
<1>4. RefineInv /\ RefineInv' /\ [NextAll]_vars_all => [Language!Next]_(Language!avars)
  BY <1>2, <1>3, StepsAreAllowed
<1>. QED
  BY <1>1, <1>4, RefineInvariant, PTL DEF SpecAll, ImplementsLanguage, Language!Spec
=============================================================================
