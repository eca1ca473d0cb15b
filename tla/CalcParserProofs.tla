-------------------------- MODULE CalcParserProofs --------------------------
(***************************************************************************)
(* Proofs about CalcParser, for every set of token kinds and every bound:  *)
(* type correctness; no null pointer leaves the parser unless an error was *)
(* reported; the parser accepts exactly the programs of the grammar,       *)
(* builds the trees the grammar derives, reports the first error where no  *)
(* program goes on, and takes a number of steps linear in the text.        *)
(*                                                                         *)
(* The grammar comes first, for texts of any length: the tree of a span    *)
(* obeys its rules, depends on the span's tokens alone, and is unique,     *)
(* since a span splits at its last operator outside parentheses, which the *)
(* depth of parentheses shows.  Then the invariants of the parser, and at  *)
(* the end the cost of its steps.                                          *)
(***************************************************************************)
EXTENDS CalcParser, StackLemmas

(* Spans in the order their trees are found.                               *)
Rank(nt) == IF nt = "expr" THEN 2 ELSE IF nt = "term" THEN 1 ELSE 0
Extent(i, j) == IF i <= j THEN j - i + 1 ELSE 0
Measure(p) == 3 * Extent(p[2], p[3]) + Rank(p[1])

Grown(s, d, p) == IF p[1] = "factor" THEN FactorTree(s, d, p[2], p[3])
                                     ELSE LevelTree(s, d, p[1], p[2], p[3])

(* Span q is read, and its tree found, before that of p.                   *)
Before(q, p) == Measure(q) < Measure(p) /\ p[2] <= q[2] /\ q[3] <= p[3]

LEMMA SpanParts ==
  ASSUME NEW s, Len(s) \in Nat, NEW p \in Spans(s)
  PROVE  /\ p = <<p[1], p[2], p[3]>>
         /\ p[1] \in Nonterminals /\ p[2] \in 1 .. Len(s) + 1 /\ p[3] \in 0 .. Len(s)
         /\ Measure(p) \in Nat
<1>1. /\ p = <<p[1], p[2], p[3]>>
      /\ p[1] \in Nonterminals /\ p[2] \in 1 .. Len(s) + 1 /\ p[3] \in 0 .. Len(s)
  BY DEF Spans
<1>2. Measure(p) \in Nat
  BY <1>1 DEF Measure, Extent, Rank
<1>. QED
  BY <1>1, <1>2

LEMMA SpanIs ==
  ASSUME NEW s, Len(s) \in Nat, NEW nt \in Nonterminals, NEW i \in 1 .. Len(s) + 1, NEW j \in 0 .. Len(s)
  PROVE  <<nt, i, j>> \in Spans(s)
BY DEF Spans

LEMMA BelowIs == \A nt \in Nonterminals : Below(nt) \in Nonterminals
BY DEF Below, Nonterminals

(* The spans whose trees a span's tree is made of.                         *)
LEMMA PartsBefore ==
  ASSUME NEW i \in Nat, NEW j \in Nat, NEW nt \in Nonterminals
  PROVE  /\ nt # "factor" => Before(<<Below(nt), i, j>>, <<nt, i, j>>)
         /\ i < j => Before(<<"expr", i + 1, j - 1>>, <<"factor", i, j>>)
         /\ \A k \in i + 1 .. j - 1 : /\ Before(<<nt, i, k - 1>>, <<nt, i, j>>)
                                      /\ Before(<<Below(nt), k + 1, j>>, <<nt, i, j>>)
<1>1. nt # "factor" => Rank(Below(nt)) < Rank(nt)
  BY DEF Rank, Below, Nonterminals
<1>2. \A x \in Nonterminals : Rank(x) \in 0 .. 2
  BY DEF Rank
<1>3. Below(nt) \in Nonterminals /\ "expr" \in Nonterminals /\ "factor" \in Nonterminals
  BY BelowIs DEF Nonterminals
<1>4. nt # "factor" => Before(<<Below(nt), i, j>>, <<nt, i, j>>)
  BY <1>1, <1>2, <1>3 DEF Before, Measure, Extent
<1>5. i < j => Before(<<"expr", i + 1, j - 1>>, <<"factor", i, j>>)
  BY <1>2, <1>3 DEF Before, Measure, Extent
<1>6. ASSUME NEW k \in i + 1 .. j - 1
      PROVE  /\ Before(<<nt, i, k - 1>>, <<nt, i, j>>)
             /\ Before(<<Below(nt), k + 1, j>>, <<nt, i, j>>)
  <2>1. Extent(i, k - 1) + 1 <= Extent(i, j) /\ Extent(k + 1, j) + 1 <= Extent(i, j)
        /\ Extent(i, k - 1) \in Nat /\ Extent(k + 1, j) \in Nat /\ Extent(i, j) \in Nat
    BY DEF Extent
  <2>. QED
    BY <1>2, <1>3, <2>1 DEF Before, Measure
<1>. QED
  BY <1>4, <1>5, <1>6

(* A span's tree depends on its own tokens and on the trees before it.     *)
LEMMA GrownLocal ==
  ASSUME NEW s, NEW t, Len(s) \in Nat, Len(t) \in Nat,
         NEW p \in Spans(s), p \in Spans(t),
         \A k \in p[2] .. p[3] : s[k] = t[k],
         NEW f, NEW g,
         \A q \in Spans(s) : q \in Spans(t) /\ Before(q, p) => f[q] = g[q]
  PROVE  Grown(s, f, p) = Grown(t, g, p)
<1>. DEFINE nt == p[1]
            i == p[2]
            j == p[3]
<1>1. /\ p = <<nt, i, j>> /\ nt \in Nonterminals
      /\ i \in 1 .. Len(s) + 1 /\ j \in 0 .. Len(s)
      /\ i \in 1 .. Len(t) + 1 /\ j \in 0 .. Len(t)
  BY SpanParts
<1>2. \A k \in i .. j : s[k] = t[k]
  OBVIOUS
<1>. HIDE DEF nt, i, j
<1>3. ASSUME NEW x \in Nonterminals, NEW a \in 1 .. Len(s) + 1, NEW b \in 0 .. Len(s),
             a <= Len(t) + 1, b <= Len(t), Before(<<x, a, b>>, p)
      PROVE  f[<<x, a, b>>] = g[<<x, a, b>>]
  <2>1. <<x, a, b>> \in Spans(s) /\ <<x, a, b>> \in Spans(t)
    BY <1>3, SpanIs
  <2>. QED
    BY <1>3, <2>1
<1>4. i \in Nat /\ j \in Nat /\ Below(nt) \in Nonterminals /\ "expr" \in Nonterminals
  BY <1>1, BelowIs DEF Nonterminals
<1>5. CASE nt = "factor"
  <2>1. i < j => f[<<"expr", i + 1, j - 1>>] = g[<<"expr", i + 1, j - 1>>]
    <3>. SUFFICES ASSUME i < j PROVE f[<<"expr", i + 1, j - 1>>] = g[<<"expr", i + 1, j - 1>>]
      OBVIOUS
    <3>1. /\ i + 1 \in 1 .. Len(s) + 1 /\ j - 1 \in 0 .. Len(s)
          /\ i + 1 <= Len(t) + 1 /\ j - 1 <= Len(t)
      BY <1>1
    <3>2. Before(<<"expr", i + 1, j - 1>>, p)
      BY <1>1, <1>4, <1>5, PartsBefore
    <3>. QED
      BY <1>3, <1>4, <3>1, <3>2
  <2>2. FactorTree(s, f, i, j) = FactorTree(t, g, i, j)
    BY <1>2, <1>4, <2>1 DEF FactorTree
  <2>. QED
    BY <1>5, <2>2 DEF Grown, nt, i, j
<1>6. CASE nt # "factor"
  <2>1. f[<<Below(nt), i, j>>] = g[<<Below(nt), i, j>>]
    <3>1. Before(<<Below(nt), i, j>>, p)
      BY <1>1, <1>4, <1>6, PartsBefore
    <3>. QED
      BY <1>1, <1>3, <1>4, <3>1
  <2>2. ASSUME NEW k \in i + 1 .. j - 1
        PROVE  /\ f[<<nt, i, k - 1>>] = g[<<nt, i, k - 1>>]
               /\ f[<<Below(nt), k + 1, j>>] = g[<<Below(nt), k + 1, j>>]
    <3>. DEFINE u == k - 1
                v == k + 1
    <3>1. Before(<<nt, i, u>>, p) /\ Before(<<Below(nt), v, j>>, p)
      BY <1>1, <1>4, PartsBefore
    <3>2. /\ u \in 0 .. Len(s) /\ u <= Len(t) /\ i <= Len(t) + 1
          /\ v \in 1 .. Len(s) + 1 /\ v <= Len(t) + 1 /\ j <= Len(t)
      BY <1>1
    <3>. HIDE DEF u, v
    <3>3. f[<<nt, i, u>>] = g[<<nt, i, u>>]
      BY <1>1, <1>3, <3>1, <3>2
    <3>4. f[<<Below(nt), v, j>>] = g[<<Below(nt), v, j>>]
      BY <1>1, <1>3, <1>4, <3>1, <3>2
    <3>. QED
      BY <3>3, <3>4 DEF u, v
  <2>3. \A k \in i + 1 .. j - 1 : s[k] = t[k]
    BY <1>1, <1>2
  <2>4. SplitsOf(s, f, nt, i, j) = SplitsOf(t, g, nt, i, j)
    BY <2>2, <2>3 DEF SplitsOf
  <2>. DEFINE ks == SplitsOf(s, f, nt, i, j)
  <2>5. ks \subseteq i + 1 .. j - 1
    BY DEF SplitsOf
  <2>6. ks # {} => SplitAt(ks) \in i + 1 .. j - 1
    <3>. HIDE DEF ks
    <3>. QED
      BY <2>5 DEF SplitAt
  <2>. HIDE DEF ks
  <2>7. LevelTree(s, f, nt, i, j) = LevelTree(t, g, nt, i, j)
    BY <2>1, <2>2, <2>3, <2>4, <2>6 DEF LevelTree, ks
  <2>. QED
    BY <1>6, <2>7 DEF Grown, nt, i, j
<1>. QED
  BY <1>5, <1>6

(* Derive satisfies its equation: every span has its tree.                 *)
LEMMA DeriveIs ==
  ASSUME NEW s, Len(s) \in Nat
  PROVE  \A p \in Spans(s) : Derive(s)[p] = Grown(s, Derive(s), p)
<1>. DEFINE Equation(d) == d = [p \in Spans(s) |-> Grown(s, d, p)]
            Upto(m, d) == \A p \in Spans(s) : Measure(p) < m => d[p] = Grown(s, d, p)
            Made(m) == \E d : d = [p \in Spans(s) |-> d[p]] /\ Upto(m, d)
            S == {m \in Nat : Made(m)}
<1>. HIDE DEF Made
<1>1. \A m \in Nat : m \in S <=> Made(m)
  OBVIOUS
<1>. HIDE DEF S
<1>2. \A p \in Spans(s) : Measure(p) \in Nat
  BY SpanParts
<1>3. ASSUME NEW d, NEW g, NEW p \in Spans(s),
             \A q \in Spans(s) : Measure(q) < Measure(p) => d[q] = g[q]
      PROVE  Grown(s, d, p) = Grown(s, g, p)
  BY <1>3, GrownLocal DEF Before
<1>4. 0 \in S
  <2>. DEFINE d == [p \in Spans(s) |-> NoTree]
  <2>1. d = [p \in Spans(s) |-> d[p]] /\ Upto(0, d)
    BY <1>2
  <2>2. Made(0)
    BY <2>1 DEF Made
  <2>. QED
    BY <1>1, <2>2
<1>5. ASSUME NEW m \in Nat, m \in S
      PROVE  m + 1 \in S
  <2>1. PICK d : Upto(m, d)
    <3>1. Made(m)
      BY <1>1, <1>5
    <3>. QED
      BY <3>1 DEF Made
  <2>. DEFINE g == [p \in Spans(s) |-> IF Measure(p) < m THEN d[p] ELSE Grown(s, d, p)]
  <2>2. \A p \in Spans(s) : g[p] = IF Measure(p) < m THEN d[p] ELSE Grown(s, d, p)
    OBVIOUS
  <2>3. g = [p \in Spans(s) |-> g[p]]
    OBVIOUS
  <2>. HIDE DEF g
  <2>4. ASSUME NEW p \in Spans(s), Measure(p) < m + 1
        PROVE  g[p] = Grown(s, g, p)
    <3>1. \A q \in Spans(s) : Measure(q) < Measure(p) => d[q] = g[q]
      BY <1>2, <2>2, <2>4
    <3>2. Grown(s, d, p) = Grown(s, g, p)
      BY <1>3, <3>1
    <3>3. g[p] = Grown(s, d, p)
      BY <2>1, <2>2
    <3>. QED
      BY <3>2, <3>3
  <2>5. Made(m + 1)
    BY <2>3, <2>4 DEF Made
  <2>. QED
    BY <1>1, <2>5
<1>6. \A m \in Nat : m \in S
  BY <1>4, <1>5, StepByStep
<1>7. \A p \in Spans(s) : Measure(p) < 3 * (Len(s) + 1) + 3
  BY SpanParts DEF Measure, Extent, Rank
<1>8. PICK d : d = [p \in Spans(s) |-> d[p]] /\ Upto(3 * (Len(s) + 1) + 3, d)
  <2>1. 3 * (Len(s) + 1) + 3 \in Nat
    OBVIOUS
  <2>2. Made(3 * (Len(s) + 1) + 3)
    BY <1>1, <1>6, <2>1
  <2>. QED
    BY <2>2 DEF Made
<1>9. Equation(d)
  <2>1. \A p \in Spans(s) : d[p] = Grown(s, d, p)
    BY <1>7, <1>8
  <2>. QED
    BY <1>8, <2>1
<1>10. Derive(s) = CHOOSE e : Equation(e)
  BY DEF Derive, Grown
<1>. HIDE DEF Equation
<1>11. Equation(Derive(s))
  BY <1>9, <1>10
<1>12. ASSUME NEW e, Equation(e)
       PROVE  \A p \in Spans(s) : e[p] = Grown(s, e, p)
  BY <1>12 DEF Equation
<1>. QED
  BY <1>11, <1>12

TreeOn(s, nt, i, j) == Derive(s)[<<nt, i, j>>]

LEMMA TreeEquations ==
  ASSUME NEW s, Len(s) \in Nat, NEW nt \in Nonterminals, NEW i \in 1 .. Len(s) + 1, NEW j \in 0 .. Len(s)
  PROVE  /\ nt = "factor" => TreeOn(s, nt, i, j) = FactorTree(s, Derive(s), i, j)
         /\ nt # "factor" => TreeOn(s, nt, i, j) = LevelTree(s, Derive(s), nt, i, j)
<1>1. <<nt, i, j>> \in Spans(s)
  BY SpanIs
<1>2. Derive(s)[<<nt, i, j>>] = Grown(s, Derive(s), <<nt, i, j>>)
  BY <1>1, DeriveIs
<1>. QED
  BY <1>2 DEF TreeOn, Grown

(* A span has the same tree in every text that has it.                     *)
LEMMA TreeLocal ==
  ASSUME NEW s, NEW t, Len(s) \in Nat, Len(t) \in Nat, NEW nt \in Nonterminals,
         NEW i \in Nat \ {0}, NEW j \in Nat,
         i <= Len(s) + 1, i <= Len(t) + 1, j <= Len(s), j <= Len(t),
         \A k \in i .. j : s[k] = t[k]
  PROVE  TreeOn(s, nt, i, j) = TreeOn(t, nt, i, j)
<1>. DEFINE Agree(p) == \A k \in p[2] .. p[3] : s[k] = t[k]
            Same(m) == \A p \in Spans(s) : p \in Spans(t) /\ Measure(p) = m /\ Agree(p)
                         => Derive(s)[p] = Derive(t)[p]
            S == {m \in Nat : Same(m)}
<1>1. ASSUME NEW m \in Nat, \A k \in Nat : k < m => k \in S
      PROVE  m \in S
  <2>. SUFFICES ASSUME NEW p \in Spans(s), p \in Spans(t), Measure(p) = m, Agree(p)
                PROVE  Derive(s)[p] = Derive(t)[p]
    OBVIOUS
  <2>1. ASSUME NEW q \in Spans(s), q \in Spans(t), Before(q, p)
        PROVE  Derive(s)[q] = Derive(t)[q]
    <3>1. Measure(q) \in Nat /\ Measure(q) < m
      BY <2>1, SpanParts DEF Before
    <3>2. /\ p[2] \in Nat /\ p[3] \in Nat /\ q[2] \in Nat /\ q[3] \in Nat
          /\ p[2] <= q[2] /\ q[3] <= p[3]
      BY <2>1, SpanParts DEF Before
    <3>3. Agree(q)
      <4>1. \A k \in q[2] .. q[3] : k \in p[2] .. p[3]
        BY <3>2
      <4>2. \A k \in p[2] .. p[3] : s[k] = t[k]
        OBVIOUS
      <4>. QED
        BY <4>1, <4>2
    <3>4. Same(Measure(q))
      BY <1>1, <3>1
    <3>. HIDE DEF Agree
    <3>. QED
      BY <2>1, <3>3, <3>4
  <2>2. Grown(s, Derive(s), p) = Grown(t, Derive(t), p)
    BY <2>1, GrownLocal
  <2>. QED
    BY <2>2, DeriveIs
<1>. HIDE DEF S
<1>2. \A m \in Nat : m \in S
  BY <1>1, CourseOfValues
<1>. DEFINE p == <<nt, i, j>>
<1>3. p \in Spans(s) /\ p \in Spans(t)
  <2>1. i \in 1 .. Len(s) + 1 /\ i \in 1 .. Len(t) + 1 /\ j \in 0 .. Len(s) /\ j \in 0 .. Len(t)
    OBVIOUS
  <2>. QED
    BY <2>1, SpanIs
<1>4. Agree(p)
  OBVIOUS
<1>5. Measure(p) \in Nat
  BY <1>3, SpanParts
<1>6. Same(Measure(p))
  BY <1>2, <1>5 DEF S
<1>. HIDE DEF Agree, p
<1>7. Derive(s)[p] = Derive(t)[p]
  BY <1>3, <1>4, <1>6
<1>. QED
  BY <1>7 DEF p, TreeOn

-----------------------------------------------------------------------------
(* How many parentheses are open after each token.                         *)
Opens(x) == IF x = "l_paren" THEN 1 ELSE IF x = "r_paren" THEN -1 ELSE 0
Depth(s) == LET d[p \in 0 .. Len(s)] == IF p = 0 THEN 0 ELSE d[p - 1] + Opens(s[p])
            IN d

LEMMA DepthIs ==
  ASSUME NEW s, Len(s) \in Nat
  PROVE  /\ \A p \in 0 .. Len(s) : Depth(s)[p] \in Int
         /\ Depth(s)[0] = 0
         /\ \A p \in 1 .. Len(s) : Depth(s)[p] = Depth(s)[p - 1] + Opens(s[p])
<1>. DEFINE K == Len(s)
            previous == [n \in 1 .. K |-> n - 1]
            comb == [n \in 1 .. K |-> [x \in Int |-> [y \in Int |-> x + Opens(s[n])]]]
            Body(d, p) == IF p = 0 THEN 0 ELSE d[p - 1] + Opens(s[p])
            Equation(d) == d = [p \in 0 .. Len(s) |-> Body(d, p)]
            dep == Depth(s)
<1>1. comb \in [1 .. K -> [Int -> [Int -> Int]]] /\ IsTree(K, previous, previous) /\ 0 \in Int
  BY DEF Opens, IsTree
<1>2. PICK f \in [0 .. K -> Int] :
        f[0] = 0 /\ \A n \in 1 .. K : f[n] = comb[n][f[previous[n]]][f[previous[n]]]
  <2>. HIDE DEF comb, previous, K
  <2>1. TreeFunctions(K, previous, previous, Int, 0, comb) # {}
    BY <1>1, TreeRecursion
  <2>. QED
    BY <2>1 DEF TreeFunctions
<1>3. ASSUME NEW p \in 0 .. Len(s)
      PROVE  f[p] = Body(f, p)
  <2>1. CASE p = 0
    BY <1>2, <2>1
  <2>2. CASE p # 0
    <3>1. p \in 1 .. K /\ p - 1 \in 0 .. K /\ f[p - 1] \in Int
      BY <2>2
    <3>. QED
      BY <1>2, <2>2, <3>1
  <2>. QED
    BY <2>1, <2>2
<1>4. Equation(f)
  BY <1>3
<1>5. Depth(s) = CHOOSE d : Equation(d)
  BY DEF Depth
<1>. HIDE DEF Equation
<1>6. Equation(dep)
  BY <1>4, <1>5
<1>. HIDE DEF dep
<1>7. \A p \in 0 .. Len(s) : dep[p] = Body(dep, p)
  <2>1. ASSUME NEW d, Equation(d)
        PROVE  \A p \in 0 .. Len(s) : d[p] = Body(d, p)
    BY <2>1 DEF Equation
  <2>. QED
    BY <1>6, <2>1
<1>. DEFINE S == {p \in Nat : p <= Len(s) => dep[p] \in Int}
<1>8. 0 \in S
  BY <1>7
<1>9. ASSUME NEW p \in Nat, p \in S
      PROVE  p + 1 \in S
  <2>. SUFFICES ASSUME p + 1 <= Len(s) PROVE dep[p + 1] \in Int
    OBVIOUS
  <2>1. p + 1 \in 0 .. Len(s) /\ p + 1 # 0 /\ (p + 1) - 1 = p /\ dep[p] \in Int
    BY <1>9
  <2>2. dep[p + 1] = dep[p] + Opens(s[p + 1])
    BY <1>7, <2>1
  <2>. QED
    BY <2>1, <2>2 DEF Opens
<1>. HIDE DEF S
<1>10. \A p \in Nat : p \in S
  BY <1>8, <1>9, StepByStep
<1>11. \A p \in 0 .. Len(s) : dep[p] \in Int
  BY <1>10 DEF S
<1>12. \A p \in 1 .. Len(s) : p \in 0 .. Len(s) /\ p # 0
  OBVIOUS
<1>. QED
  BY <1>7, <1>11, <1>12 DEF dep

-----------------------------------------------------------------------------
(* What the tokens of an expression, a term or a factor look like.         *)
Openers == {"ident", "number", "l_paren"}
Enders  == {"ident", "number", "r_paren"}
Follows(x, y) == IF x \in Enders THEN y \in {"plus", "minus", "star", "slash", "r_paren"}
                                 ELSE y \in Openers

(* The operators a nonterminal has only inside parentheses.                *)
Loud(nt) == CASE nt = "expr" -> {}
              [] nt = "term" -> {"plus", "minus"}
              [] OTHER -> {"plus", "minus", "star", "slash"}

Sentence(s, D, nt, i, j) ==
  /\ i <= j /\ s[i] \in Openers /\ s[j] \in Enders
  /\ \A p \in i + 1 .. j : Follows(s[p - 1], s[p])
  /\ D[j] = D[i - 1]
  /\ \A p \in i .. j : D[p] >= D[i - 1]
  /\ \A p \in i .. j : s[p] \in Loud(nt) => D[p] > D[i - 1]

(* D is the depth of parentheses of s.                                     *)
Measures(D, s) ==
  /\ Len(s) \in Nat
  /\ \A p \in 0 .. Len(s) : D[p] \in Int
  /\ \A p \in 1 .. Len(s) : D[p] = D[p - 1] + Opens(s[p])

LEMMA DepthMeasures ==
  ASSUME NEW s, Len(s) \in Nat
  PROVE  Measures(Depth(s), s)
BY DepthIs DEF Measures

LEMMA SentenceLeaf ==
  ASSUME NEW s, NEW D, Measures(D, s), NEW i \in 1 .. Len(s), s[i] \in {"ident", "number"}
  PROVE  Sentence(s, D, "factor", i, i)
<1>1. D[i] = D[i - 1] /\ D[i] \in Int
  BY DEF Measures, Opens
<1>. QED
  BY <1>1 DEF Sentence, Openers, Enders, Loud

LEMMA SentenceParen ==
  ASSUME NEW s, NEW D, Measures(D, s), NEW i \in 1 .. Len(s), NEW j \in 1 .. Len(s),
         s[i] = "l_paren", s[j] = "r_paren", Sentence(s, D, "expr", i + 1, j - 1)
  PROVE  Sentence(s, D, "factor", i, j)
<1>1. /\ D[i] = D[i - 1] + 1 /\ D[j] = D[j - 1] - 1
      /\ D[i] \in Int /\ D[i - 1] \in Int /\ D[j] \in Int /\ D[j - 1] \in Int
  <2>1. i \in 0 .. Len(s) /\ i - 1 \in 0 .. Len(s) /\ j \in 0 .. Len(s) /\ j - 1 \in 0 .. Len(s)
    BY DEF Measures
  <2>2. D[i] = D[i - 1] + Opens(s[i]) /\ D[j] = D[j - 1] + Opens(s[j])
    BY DEF Measures
  <2>3. D[i] \in Int /\ D[i - 1] \in Int /\ D[j] \in Int /\ D[j - 1] \in Int
    BY <2>1 DEF Measures
  <2>4. Opens(s[i]) = 1 /\ Opens(s[j]) = -1
    BY DEF Opens
  <2>. QED
    BY <2>2, <2>3, <2>4
<1>2. /\ i + 1 <= j - 1 /\ s[i + 1] \in Openers /\ s[j - 1] \in Enders
      /\ \A p \in i + 2 .. j - 1 : Follows(s[p - 1], s[p])
      /\ D[j - 1] = D[i]
      /\ \A p \in i + 1 .. j - 1 : D[p] >= D[i]
  BY DEF Sentence
<1>3. \A p \in i + 1 .. j : p = i + 1 \/ p \in i + 2 .. j - 1 \/ p = j
  OBVIOUS
<1>4. Follows(s[i], s[i + 1]) /\ Follows(s[j - 1], s[j])
  BY <1>2 DEF Follows, Openers, Enders
<1>5. \A p \in i + 1 .. j : Follows(s[p - 1], s[p])
  BY <1>2, <1>3, <1>4
<1>6. \A p \in i .. j : p = i \/ p \in i + 1 .. j - 1 \/ p = j
  OBVIOUS
<1>7. \A p \in i + 1 .. j - 1 : D[p] \in Int
  BY DEF Measures
<1>8. \A p \in i .. j : p = j \/ D[p] > D[i - 1]
  BY <1>1, <1>2, <1>6, <1>7
<1>9. D[j] = D[i - 1]
  BY <1>1, <1>2
<1>10. s[j] \notin Loud("factor")
  BY DEF Loud
<1>11. \A p \in i .. j : D[p] >= D[i - 1] /\ (s[p] \in Loud("factor") => D[p] > D[i - 1])
  <2>. SUFFICES ASSUME NEW p \in i .. j
                PROVE  D[p] >= D[i - 1] /\ (s[p] \in Loud("factor") => D[p] > D[i - 1])
    OBVIOUS
  <2>1. CASE p = j
    BY <1>1, <1>9, <1>10, <2>1
  <2>2. CASE p # j
    <3>1. D[p] \in Int
      BY <1>1, <1>6, <1>7, <2>2
    <3>. QED
      BY <1>1, <1>8, <2>2, <3>1
  <2>. QED
    BY <2>1, <2>2
<1>. QED
  BY <1>2, <1>5, <1>9, <1>11 DEF Sentence, Openers, Enders

LEMMA LoudBelow == \A nt \in {"expr", "term"} : Loud(Below(nt)) = Loud(nt) \cup LevelOps(nt)
BY DEF Loud, Below, LevelOps

LEMMA SentenceBelow ==
  ASSUME NEW s, NEW D, NEW nt \in {"expr", "term"}, NEW i, NEW j, Sentence(s, D, Below(nt), i, j)
  PROVE  Sentence(s, D, nt, i, j)
BY LoudBelow DEF Sentence

LEMMA SentenceSplit ==
  ASSUME NEW s, NEW D, Measures(D, s), NEW nt \in {"expr", "term"},
         NEW i \in 1 .. Len(s), NEW j \in 1 .. Len(s), NEW k \in i + 1 .. j - 1,
         s[k] \in LevelOps(nt),
         Sentence(s, D, nt, i, k - 1), Sentence(s, D, Below(nt), k + 1, j)
  PROVE  Sentence(s, D, nt, i, j) /\ D[k] = D[i - 1]
<1>1. s[k] \in {"plus", "minus", "star", "slash"} /\ s[k] \notin Loud(nt)
  BY DEF LevelOps, Loud
<1>2. D[k] = D[k - 1] /\ \A p \in i - 1 .. j : D[p] \in Int
  <2>1. k \in 1 .. Len(s) /\ \A p \in i - 1 .. j : p \in 0 .. Len(s)
    BY DEF Measures
  <2>2. D[k] = D[k - 1] + Opens(s[k]) /\ \A p \in i - 1 .. j : D[p] \in Int
    BY <2>1 DEF Measures
  <2>3. Opens(s[k]) = 0 /\ k - 1 \in i - 1 .. j
    BY <1>1 DEF Opens
  <2>4. D[k - 1] \in Int
    BY <2>2, <2>3
  <2>. QED
    BY <2>2, <2>3, <2>4
<1>3. /\ s[i] \in Openers /\ s[k - 1] \in Enders
      /\ \A p \in i + 1 .. k - 1 : Follows(s[p - 1], s[p])
      /\ D[k - 1] = D[i - 1]
      /\ \A p \in i .. k - 1 : D[p] >= D[i - 1]
      /\ \A p \in i .. k - 1 : s[p] \in Loud(nt) => D[p] > D[i - 1]
  BY DEF Sentence
<1>4. /\ s[k + 1] \in Openers /\ s[j] \in Enders
      /\ \A p \in k + 2 .. j : Follows(s[p - 1], s[p])
      /\ D[j] = D[k]
      /\ \A p \in k + 1 .. j : D[p] >= D[k]
      /\ \A p \in k + 1 .. j : s[p] \in Loud(nt) => D[p] > D[k]
  BY LoudBelow DEF Sentence
<1>5. Follows(s[k - 1], s[k]) /\ Follows(s[k], s[k + 1])
  BY <1>1, <1>3, <1>4 DEF Follows, Enders
<1>6. \A p \in i + 1 .. j : p \in i + 1 .. k - 1 \/ p = k \/ p = k + 1 \/ p \in k + 2 .. j
  OBVIOUS
<1>7. \A p \in i + 1 .. j : Follows(s[p - 1], s[p])
  BY <1>3, <1>4, <1>5, <1>6
<1>8. \A p \in i .. j : p \in i .. k - 1 \/ p = k \/ p \in k + 1 .. j
  OBVIOUS
<1>9. D[k] = D[i - 1] /\ D[j] = D[i - 1]
  BY <1>2, <1>3, <1>4
<1>10. \A p \in i .. j : D[p] >= D[i - 1] /\ (s[p] \in Loud(nt) => D[p] > D[i - 1])
  BY <1>1, <1>2, <1>3, <1>4, <1>8, <1>9
<1>. QED
  BY <1>3, <1>4, <1>7, <1>9, <1>10 DEF Sentence

(* What has a tree is a sentence.                                          *)
LEMMA TreeSentence ==
  ASSUME NEW s, Len(s) \in Nat, NEW nt \in Nonterminals,
         NEW i \in 1 .. Len(s) + 1, NEW j \in 0 .. Len(s), TreeOn(s, nt, i, j) # NoTree
  PROVE  Sentence(s, Depth(s), nt, i, j)
<1>. DEFINE D == Depth(s)
            Good(x, a, b) == TreeOn(s, x, a, b) # NoTree => Sentence(s, D, x, a, b)
            AllGood(m) == \A x \in Nonterminals : \A a \in 1 .. Len(s) + 1 : \A b \in 0 .. Len(s) :
                            Measure(<<x, a, b>>) = m => Good(x, a, b)
            S == {m \in Nat : AllGood(m)}
<1>0. Measures(D, s)
  BY DepthMeasures
<1>. HIDE DEF D
<1>1. ASSUME NEW m \in Nat, \A k \in Nat : k < m => k \in S,
             NEW x \in Nonterminals, NEW a \in 1 .. Len(s) + 1, NEW b \in 0 .. Len(s),
             Measure(<<x, a, b>>) = m, TreeOn(s, x, a, b) # NoTree
      PROVE  Sentence(s, D, x, a, b)
  <2>. HIDE DEF Good
  <2>0. a \in Nat /\ b \in Nat
    OBVIOUS
  <2>1. ASSUME NEW y \in Nonterminals, NEW c \in 1 .. Len(s) + 1, NEW d \in 0 .. Len(s),
               Before(<<y, c, d>>, <<x, a, b>>)
        PROVE  Good(y, c, d)
    <3>1. Measure(<<y, c, d>>) \in Nat
      BY SpanIs, SpanParts
    <3>2. Measure(<<y, c, d>>) < m
      BY <1>1, <2>1 DEF Before
    <3>3. AllGood(Measure(<<y, c, d>>))
      BY <1>1, <3>1, <3>2
    <3>. QED
      BY <3>3
  <2>2. CASE x = "factor"
    <3>1. TreeOn(s, "factor", a, b) = FactorTree(s, Derive(s), a, b)
      BY <2>2, TreeEquations
    <3>2. CASE a = b /\ s[a] \in {"ident", "number"}
      BY <1>0, <2>2, <3>2, SentenceLeaf
    <3>3. CASE a < b /\ s[a] = "l_paren" /\ s[b] = "r_paren"
      <4>1. TreeOn(s, "expr", a + 1, b - 1) # NoTree
        BY <1>1, <2>2, <3>1, <3>3 DEF FactorTree, TreeOn
      <4>. DEFINE c == a + 1
                  d == b - 1
      <4>2. Before(<<"expr", c, d>>, <<x, a, b>>)
        BY <2>0, <2>2, <3>3, PartsBefore
      <4>3. c \in 1 .. Len(s) + 1 /\ d \in 0 .. Len(s) /\ "expr" \in Nonterminals
        BY <3>3 DEF Nonterminals
      <4>. HIDE DEF c, d
      <4>4. Good("expr", c, d)
        BY <2>1, <4>2, <4>3
      <4>5. Sentence(s, D, "expr", a + 1, b - 1)
        BY <4>1, <4>4 DEF Good, c, d
      <4>6. a \in 1 .. Len(s) /\ b \in 1 .. Len(s)
        BY <3>3
      <4>. QED
        BY <1>0, <2>2, <3>3, <4>5, <4>6, SentenceParen
    <3>4. (a = b /\ s[a] \in {"ident", "number"}) \/ (a < b /\ s[a] = "l_paren" /\ s[b] = "r_paren")
      BY <1>1, <2>2, <3>1 DEF FactorTree
    <3>. QED
      BY <3>2, <3>3, <3>4
  <2>3. CASE x # "factor"
    <3>. DEFINE ks == SplitsOf(s, Derive(s), x, a, b)
                k == SplitAt(ks)
                y == Below(x)
    <3>1. TreeOn(s, x, a, b) = LevelTree(s, Derive(s), x, a, b)
      BY <2>3, TreeEquations
    <3>2. x \in {"expr", "term"} /\ y \in Nonterminals
      BY <2>3, BelowIs DEF Nonterminals
    <3>3. CASE ks = {}
      <4>1. TreeOn(s, y, a, b) # NoTree
        BY <1>1, <3>1, <3>3 DEF LevelTree, TreeOn
      <4>2. Before(<<y, a, b>>, <<x, a, b>>)
        BY <2>0, <2>3, PartsBefore
      <4>3. Sentence(s, D, y, a, b)
        BY <2>1, <3>2, <4>1, <4>2 DEF Good
      <4>. QED
        BY <3>2, <4>3, SentenceBelow
    <3>4. CASE ks # {}
      <4>1. k \in ks
        <5>. HIDE DEF ks
        <5>. QED
          BY <3>4 DEF SplitAt
      <4>. HIDE DEF k
      <4>2. /\ k \in a + 1 .. b - 1 /\ s[k] \in LevelOps(x)
            /\ TreeOn(s, y, k + 1, b) # NoTree /\ TreeOn(s, x, a, k - 1) # NoTree
        BY <4>1 DEF SplitsOf, TreeOn
      <4>. DEFINE c == k - 1
                  d == k + 1
      <4>3. Before(<<x, a, c>>, <<x, a, b>>) /\ Before(<<y, d, b>>, <<x, a, b>>)
        BY <2>0, <4>2, PartsBefore
      <4>4. c \in 0 .. Len(s) /\ d \in 1 .. Len(s) + 1
        BY <4>2
      <4>5. TreeOn(s, x, a, c) # NoTree /\ TreeOn(s, y, d, b) # NoTree
        BY <4>2
      <4>. HIDE DEF c, d
      <4>6. Sentence(s, D, x, a, c) /\ Sentence(s, D, y, d, b)
        BY <2>1, <3>2, <4>3, <4>4, <4>5 DEF Good
      <4>7. a \in 1 .. Len(s) /\ b \in 1 .. Len(s)
        BY <4>2
      <4>. QED
        BY <1>0, <3>2, <4>2, <4>6, <4>7, SentenceSplit DEF c, d
    <3>. QED
      BY <3>3, <3>4
  <2>. QED
    BY <2>2, <2>3
<1>2. \A m \in Nat : (\A k \in Nat : k < m => k \in S) => m \in S
  BY <1>1
<1>3. \A m \in Nat : m \in S
  <2>. HIDE DEF S
  <2>. QED
    BY <1>2, CourseOfValues
<1>4. Measure(<<nt, i, j>>) \in Nat
  BY SpanIs, SpanParts
<1>5. AllGood(Measure(<<nt, i, j>>))
  BY <1>3, <1>4
<1>. QED
  BY <1>5 DEF D

-----------------------------------------------------------------------------
(* The rules of the grammar, as the parser applies them.                   *)
LEMMA LeafRule ==
  ASSUME NEW s, Len(s) \in Nat, NEW i \in 1 .. Len(s), s[i] \in {"ident", "number"}
  PROVE  TreeOn(s, "factor", i, i) = Leaf(i) /\ Leaf(i) # NoTree
<1>1. TreeOn(s, "factor", i, i) = FactorTree(s, Derive(s), i, i)
  BY TreeEquations DEF Nonterminals
<1>. QED
  BY <1>1 DEF FactorTree, Leaf, NoTree

LEMMA ParenRule ==
  ASSUME NEW s, Len(s) \in Nat, NEW i \in 1 .. Len(s), NEW j \in 1 .. Len(s), i < j,
         s[i] = "l_paren", s[j] = "r_paren"
  PROVE  TreeOn(s, "factor", i, j) = TreeOn(s, "expr", i + 1, j - 1)
<1>1. TreeOn(s, "factor", i, j) = FactorTree(s, Derive(s), i, j)
  BY TreeEquations DEF Nonterminals
<1>. QED
  BY <1>1 DEF FactorTree, TreeOn

(* A level's operator is not loud: it is where the parentheses are closed  *)
(* in a sentence of the level, and not in one of the level below.          *)
LEMMA NoLoudSplit ==
  ASSUME NEW s, Len(s) \in Nat, NEW nt \in {"expr", "term"},
         NEW i \in 1 .. Len(s) + 1, NEW j \in 0 .. Len(s),
         TreeOn(s, Below(nt), i, j) # NoTree, NEW k \in i .. j, s[k] \in LevelOps(nt)
  PROVE  Depth(s)[k] > Depth(s)[i - 1]
<1>1. Below(nt) \in Nonterminals
  BY DEF Below, Nonterminals
<1>2. Sentence(s, Depth(s), Below(nt), i, j)
  BY <1>1, TreeSentence
<1>3. s[k] \in Loud(Below(nt))
  BY LoudBelow
<1>. QED
  BY <1>2, <1>3 DEF Sentence

LEMMA SplitLevel ==
  ASSUME NEW s, Len(s) \in Nat, NEW nt \in {"expr", "term"},
         NEW i \in 1 .. Len(s) + 1, NEW j \in 0 .. Len(s),
         NEW k \in SplitsOf(s, Derive(s), nt, i, j)
  PROVE  /\ k \in i + 1 .. j - 1 /\ s[k] \in LevelOps(nt)
         /\ TreeOn(s, nt, i, k - 1) # NoTree /\ TreeOn(s, Below(nt), k + 1, j) # NoTree
         /\ Depth(s)[k] = Depth(s)[i - 1]
<1>1. /\ k \in i + 1 .. j - 1 /\ s[k] \in LevelOps(nt)
      /\ TreeOn(s, nt, i, k - 1) # NoTree /\ TreeOn(s, Below(nt), k + 1, j) # NoTree
  BY DEF SplitsOf, TreeOn
<1>. DEFINE c == k - 1
            d == k + 1
<1>2. /\ c \in 0 .. Len(s) /\ d \in 1 .. Len(s) + 1
      /\ nt \in Nonterminals /\ Below(nt) \in Nonterminals
  BY <1>1 DEF Nonterminals, Below
<1>3. TreeOn(s, nt, i, c) # NoTree /\ TreeOn(s, Below(nt), d, j) # NoTree
  BY <1>1
<1>. HIDE DEF c, d
<1>4. Sentence(s, Depth(s), nt, i, c) /\ Sentence(s, Depth(s), Below(nt), d, j)
  BY <1>2, <1>3, TreeSentence
<1>5. i \in 1 .. Len(s) /\ j \in 1 .. Len(s) /\ Measures(Depth(s), s)
  BY <1>1, DepthMeasures
<1>6. Depth(s)[k] = Depth(s)[i - 1]
  BY <1>1, <1>4, <1>5, SentenceSplit DEF c, d
<1>. QED
  BY <1>1, <1>6

(* The grammar is not ambiguous: a span splits at one place at most.       *)
LEMMA UniqueSplit ==
  ASSUME NEW s, Len(s) \in Nat, NEW nt \in {"expr", "term"},
         NEW i \in 1 .. Len(s) + 1, NEW j \in 0 .. Len(s),
         NEW k \in SplitsOf(s, Derive(s), nt, i, j), NEW l \in SplitsOf(s, Derive(s), nt, i, j)
  PROVE  k = l
<1>1. ASSUME NEW x \in SplitsOf(s, Derive(s), nt, i, j), NEW y \in SplitsOf(s, Derive(s), nt, i, j), x < y
      PROVE  FALSE
  <2>1. /\ x \in i + 1 .. j - 1 /\ TreeOn(s, Below(nt), x + 1, j) # NoTree
        /\ Depth(s)[x] = Depth(s)[i - 1]
    BY SplitLevel
  <2>2. y \in i + 1 .. j - 1 /\ s[y] \in LevelOps(nt) /\ Depth(s)[y] = Depth(s)[i - 1]
    BY SplitLevel
  <2>. DEFINE d == x + 1
  <2>3. d \in 1 .. Len(s) + 1 /\ y \in d .. j /\ d - 1 = x
    BY <1>1, <2>1, <2>2
  <2>4. TreeOn(s, Below(nt), d, j) # NoTree
    BY <2>1
  <2>. HIDE DEF d
  <2>5. Depth(s)[y] > Depth(s)[d - 1]
    BY <2>2, <2>3, <2>4, NoLoudSplit
  <2>6. Depth(s)[y] \in Int
    BY <2>2, DepthIs
  <2>. QED
    BY <2>1, <2>2, <2>3, <2>5, <2>6
<1>2. k \in Int /\ l \in Int
  BY SplitLevel
<1>. QED
  BY <1>1, <1>2

LEMMA LevelRule ==
  ASSUME NEW s, Len(s) \in Nat, NEW nt \in {"expr", "term"},
         NEW i \in 1 .. Len(s) + 1, NEW j \in 0 .. Len(s), TreeOn(s, Below(nt), i, j) # NoTree
  PROVE  TreeOn(s, nt, i, j) = TreeOn(s, Below(nt), i, j)
<1>. DEFINE ks == SplitsOf(s, Derive(s), nt, i, j)
<1>1. ASSUME NEW k \in ks PROVE FALSE
  <2>1. k \in i + 1 .. j - 1 /\ s[k] \in LevelOps(nt) /\ Depth(s)[k] = Depth(s)[i - 1]
    BY SplitLevel
  <2>2. Depth(s)[k] > Depth(s)[i - 1]
    BY <2>1, NoLoudSplit
  <2>3. Depth(s)[k] \in Int
    BY <2>1, DepthIs
  <2>. QED
    BY <2>1, <2>2, <2>3
<1>2. TreeOn(s, nt, i, j) = LevelTree(s, Derive(s), nt, i, j)
  BY TreeEquations DEF Nonterminals
<1>3. ks = {}
  BY <1>1
<1>. QED
  BY <1>2, <1>3 DEF LevelTree, TreeOn

LEMMA SplitRule ==
  ASSUME NEW s, Len(s) \in Nat, NEW nt \in {"expr", "term"},
         NEW i \in 1 .. Len(s) + 1, NEW j \in 0 .. Len(s), NEW k \in i + 1 .. j - 1,
         s[k] \in LevelOps(nt),
         TreeOn(s, nt, i, k - 1) # NoTree, TreeOn(s, Below(nt), k + 1, j) # NoTree
  PROVE  TreeOn(s, nt, i, j) = Tree(s[k], TreeOn(s, nt, i, k - 1), TreeOn(s, Below(nt), k + 1, j))
<1>. DEFINE ks == SplitsOf(s, Derive(s), nt, i, j)
<1>1. k \in ks
  BY DEF SplitsOf, TreeOn
<1>2. SplitAt(ks) = k
  <2>1. \A l \in ks : l = k
    BY <1>1, UniqueSplit
  <2>. HIDE DEF ks
  <2>. QED
    BY <1>1, <2>1 DEF SplitAt
<1>3. TreeOn(s, nt, i, j) = LevelTree(s, Derive(s), nt, i, j)
  BY TreeEquations DEF Nonterminals
<1>4. LevelTree(s, Derive(s), nt, i, j) = Tree(s[k], Derive(s)[<<nt, i, k - 1>>], Derive(s)[<<Below(nt), k + 1, j>>])
  BY <1>1, <1>2 DEF LevelTree
<1>. QED
  BY <1>3, <1>4 DEF TreeOn

-----------------------------------------------------------------------------
(* The functions that need a frame of their own have one.                  *)
FrameWhenRunning == pc \in {"enter", "skip"} => stack # <<>>

(* Recovery loops run only after an error.                                 *)
RecoveryIsReported == pc \in {"skip", "recover"} => err

(* Without an error, an operator waits only for its right operand.         *)
LeftIsSet(frame) == frame.op # NoOp => frame.left # Null
LeftOperandsAreSet == ~err => \A k \in 1 .. Len(stack) : LeftIsSet(stack[k])

Typed == TypeOK /\ FrameWhenRunning
IInv  == Typed /\ RecoveryIsReported /\ LeftOperandsAreSet /\ NullIsReported

-----------------------------------------------------------------------------
(* Typing of the pieces the actions are built from.                        *)
LEMMA AdvanceTyped ==
  ASSUME TypeOK, Advance
  PROVE  input' \in Seq(Kinds) /\ fuel' \in Nat /\ tok' \in Kinds \cup {"eoi"}
<1>1. CASE \E k \in Kinds : tok' = k /\ input' = Append(input, k) /\ fuel > 0 /\ fuel' = fuel - 1
  BY <1>1, AppendProperties DEF TypeOK
<1>2. CASE tok' = "eoi" /\ UNCHANGED input /\ fuel' = 0
  BY <1>2 DEF TypeOK
<1>. QED
  BY <1>1, <1>2 DEF Advance, NextToken

LEMMA ErrorTyped ==
  ASSUME TypeOK, Error
  PROVE  /\ input' \in Seq(Kinds) /\ fuel' \in Nat /\ tok' \in Kinds \cup {"eoi"}
         /\ err' \in BOOLEAN
BY BoundsAssumption DEF TypeOK, Error, FuelAfterError

LEMMA FrameTyped ==
  ASSUME NEW f \in Functions
  PROVE  Frame(f) \in FrameType
BY DEF Frame, FrameType, Null

LEMMA BelowTyped == \A f \in Functions : Below(f) \in Functions
BY DEF Below, Functions

LEMMA LevelOpsTyped == \A f \in Functions : LevelOps(f) \subseteq Operators
BY DEF LevelOps, Operators

LEMMA TopTyped ==
  ASSUME TypeOK, stack # <<>>
  PROVE  /\ Top \in FrameType /\ Top.fn \in Functions
         /\ Top.left \in Nat /\ Top.op \in Operators \cup {NoOp}
         /\ Rest \in Seq(FrameType)
<1>1. Top \in FrameType /\ Rest \in Seq(FrameType)
  BY StackParts DEF TypeOK, Top, Rest
<1>. QED
  BY <1>1 DEF FrameType

LEMMA JoinedTyped ==
  ASSUME TypeOK, stack # <<>>
  PROVE  JoinedHeap \in Seq(NodeType) /\ Joined \in Nat
<1>1. CASE Top.op = NoOp
  BY <1>1 DEF TypeOK, JoinedHeap, Joined
<1>2. CASE Top.op # NoOp
  <2>1. BinaryNode(Top.op, Top.left, ret) \in NodeType
    BY <1>2, TopTyped, EmptySeq DEF BinaryNode, NodeType, TypeOK
  <2>2. Append(heap, BinaryNode(Top.op, Top.left, ret)) \in Seq(NodeType)
    BY <2>1, AppendProperties DEF TypeOK
  <2>3. Len(heap) \in Nat
    BY LenProperties DEF TypeOK
  <2>. QED
    BY <1>2, <2>2, <2>3 DEF JoinedHeap, Joined
<1>. QED
  BY <1>1, <1>2

-----------------------------------------------------------------------------
(* Type correctness: the variables of the parser hold values of their      *)
(* types and a running function has its frame (Parser.h, Parser.cc).       *)
LEMMA InitTyped == Init => Typed
<1>. SUFFICES ASSUME Init
              PROVE  Typed
  OBVIOUS
<1>1. tok \in Kinds \cup {"eoi"} /\ input \in Seq(Kinds) /\ fuel \in Nat
  <2>1. ASSUME MaxTokens > 0, NEW k \in Kinds, tok = k, input = <<k>>, fuel = MaxTokens - 1
        PROVE  tok \in Kinds \cup {"eoi"} /\ input \in Seq(Kinds) /\ fuel \in Nat
    BY <2>1, BoundsAssumption
  <2>2. CASE tok = "eoi" /\ input = <<>> /\ fuel = 0
    BY <2>2, EmptySeq
  <2>. QED
    BY <2>1, <2>2 DEF Init
<1>2. <<>> \in Seq(FrameType) /\ <<>> \in Seq(Nat) /\ <<>> \in Seq(NodeType)
  BY EmptySeq
<1>. QED
  BY <1>1, <1>2 DEF Init, Typed, TypeOK, FrameWhenRunning, Null

LEMMA NextTyped == Typed /\ [Next]_pvars => Typed'
<1>. SUFFICES ASSUME Typed, [Next]_pvars
              PROVE  Typed'
  OBVIOUS
<1>. USE DEF Typed
<1>0. Len(input) \in Nat /\ Len(heap) \in Nat
  BY LenProperties DEF TypeOK
<1>. DEFINE LexTyped == input' \in Seq(Kinds) /\ fuel' \in Nat /\ tok' \in Kinds \cup {"eoi"}
<1>1. CASE CalcWith
  BY <1>1, AdvanceTyped DEF CalcWith, TypeOK, FrameWhenRunning
<1>2. ASSUME CallExpr
      PROVE  stack' \in Seq(FrameType) /\ stack' # <<>> /\ pc' = "enter"
  <2>1. Frame("expr") \in FrameType
    BY FrameTyped DEF Functions
  <2>. QED
    BY <1>2, <2>1 DEF CallExpr
<1>3. CASE CalcNoWith
  BY <1>2, <1>3 DEF CalcNoWith, TypeOK, FrameWhenRunning, lexVars
<1>4. CASE DeclareIdent
  <2>1. Append(vars, Len(input)) \in Seq(Nat)
    BY <1>0, AppendProperties DEF TypeOK
  <2>. QED
    BY <1>4, <2>1, AdvanceTyped DEF DeclareIdent, TypeOK, FrameWhenRunning
<1>5. CASE DeclareComma
  BY <1>5, AdvanceTyped DEF DeclareComma, TypeOK, FrameWhenRunning
<1>6. CASE DeclareColon
  BY <1>2, <1>6, AdvanceTyped DEF DeclareColon, TypeOK, FrameWhenRunning
<1>7. CASE DeclareError
  BY <1>7, ErrorTyped DEF DeclareError, TypeOK, FrameWhenRunning
<1>8. CASE EnterLevel
  <2>1. stack # <<>> /\ Frame(Below(Top.fn)) \in FrameType
    BY <1>8, TopTyped, BelowTyped, FrameTyped DEF EnterLevel, FrameWhenRunning
  <2>2. stack' \in Seq(FrameType) /\ stack' # <<>>
    BY <1>8, <2>1, AppendProperties DEF EnterLevel, TypeOK
  <2>. QED
    BY <1>8, <2>2 DEF EnterLevel, TypeOK, FrameWhenRunning, lexVars
<1>9. CASE LevelOperator
  <2>. DEFINE mine == [fn |-> Top.fn, left |-> Joined, op |-> tok]
  <2>1. /\ Top.fn \in Functions /\ tok \in Operators
        /\ JoinedHeap \in Seq(NodeType) /\ Joined \in Nat /\ Rest \in Seq(FrameType)
    BY <1>9, TopTyped, JoinedTyped, LevelOpsTyped DEF LevelOperator
  <2>2. mine \in FrameType /\ Frame(Below(Top.fn)) \in FrameType
    BY <2>1, BelowTyped, FrameTyped DEF FrameType
  <2>3. Append(Rest, mine) \in Seq(FrameType)
    BY <2>1, <2>2, AppendProperties
  <2>4. stack' \in Seq(FrameType) /\ stack' # <<>>
    BY <1>9, <2>2, <2>3, AppendProperties DEF LevelOperator
  <2>. QED
    BY <1>9, <2>1, <2>4, AdvanceTyped DEF LevelOperator, TypeOK, FrameWhenRunning
<1>10. CASE LevelReturn
  BY <1>10, TopTyped, JoinedTyped DEF LevelReturn, Return, TypeOK, FrameWhenRunning, lexVars
<1>11. CASE FactorLeaf
  <2>1. FactorNode(Len(input)) \in NodeType
    BY <1>0 DEF FactorNode, NodeType, Null
  <2>2. heap' \in Seq(NodeType) /\ Rest \in Seq(FrameType)
    BY <1>11, <2>1, AppendProperties, TopTyped DEF FactorLeaf, TypeOK, FrameWhenRunning
  <2>. QED
    BY <1>0, <1>11, <2>2, AdvanceTyped DEF FactorLeaf, Return, TypeOK, FrameWhenRunning
<1>12. CASE FactorParen
  <2>1. Frame("expr") \in FrameType
    BY FrameTyped DEF Functions
  <2>2. stack' \in Seq(FrameType) /\ stack' # <<>>
    BY <1>12, <2>1, AppendProperties DEF FactorParen, TypeOK
  <2>. QED
    BY <1>12, <2>2, AdvanceTyped DEF FactorParen, TypeOK, FrameWhenRunning
<1>13. CASE FactorBadToken
  BY <1>13, ErrorTyped DEF FactorBadToken, TypeOK, FrameWhenRunning
<1>14. CASE FactorClose
  BY <1>14, TopTyped, AdvanceTyped DEF FactorClose, Return, TypeOK, FrameWhenRunning
<1>15. CASE FactorUnclosed
  <2>1. [Top EXCEPT !.left = ret] \in FrameType /\ Rest \in Seq(FrameType)
    BY <1>15, TopTyped DEF FactorUnclosed, FrameType, TypeOK
  <2>2. stack' \in Seq(FrameType) /\ stack' # <<>>
    BY <1>15, <2>1, AppendProperties DEF FactorUnclosed
  <2>. QED
    BY <1>15, <2>2, ErrorTyped DEF FactorUnclosed, TypeOK, FrameWhenRunning
<1>16. CASE Skip
  BY <1>16, AdvanceTyped DEF Skip, TypeOK, FrameWhenRunning
<1>17. CASE SkipDone
  BY <1>17, TopTyped DEF SkipDone, Return, TypeOK, FrameWhenRunning, lexVars
<1>18. CASE CalcTail
  <2>1. WithNode(vars, ret) \in NodeType
    BY DEF WithNode, NodeType, Null, TypeOK
  <2>2. Append(heap, WithNode(vars, ret)) \in Seq(NodeType)
    BY <2>1, AppendProperties DEF TypeOK
  <2>3. heap' \in Seq(NodeType) /\ result' \in Nat
    <3>1. CASE vars = <<>>
      BY <1>18, <3>1 DEF CalcTail, TypeOK
    <3>2. CASE vars # <<>>
      BY <1>0, <1>18, <2>2, <3>2 DEF CalcTail
    <3>. QED
      BY <3>1, <3>2
  <2>. QED
    BY <1>18, <2>3 DEF CalcTail, TypeOK, FrameWhenRunning, lexVars
<1>19. CASE CalcTailError
  BY <1>19, ErrorTyped DEF CalcTailError, TypeOK, FrameWhenRunning
<1>20. CASE Recover
  BY <1>20, AdvanceTyped DEF Recover, TypeOK, FrameWhenRunning
<1>21. CASE RecoverDone
  BY <1>21 DEF RecoverDone, TypeOK, FrameWhenRunning, lexVars, Null
<1>22. CASE ParseReturn
  BY <1>22, ErrorTyped DEF ParseReturn, TypeOK, FrameWhenRunning, lexVars
<1>23. CASE UNCHANGED pvars
  BY <1>23 DEF pvars, TypeOK, FrameWhenRunning
<1>. QED
  BY <1>1, <1>3, <1>4, <1>5, <1>6, <1>7, <1>8, <1>9, <1>10, <1>11, <1>12, <1>13,
     <1>14, <1>15, <1>16, <1>17, <1>18, <1>19, <1>20, <1>21, <1>22, <1>23
     DEF Next, ParseStep

THEOREM ParserTypeCorrect == Spec => []TypeOK
<1>1. Spec => []Typed
  BY InitTyped, NextTyped, PTL DEF Spec
<1>2. Typed => TypeOK
  BY DEF Typed
<1>. QED
  BY <1>1, <1>2, PTL

-----------------------------------------------------------------------------
(* A node or a frame that is in order keeps the heap or the stack so.      *)
LEMMA NodeAdded ==
  ASSUME NEW h \in Seq(NodeType), NEW x \in NodeType,
         \A n \in 1 .. Len(h) : OperandsAreSet(h[n]), OperandsAreSet(x)
  PROVE  \A n \in 1 .. Len(Append(h, x)) : OperandsAreSet(Append(h, x)[n])
<1>1. /\ Len(h) \in Nat /\ Len(Append(h, x)) = Len(h) + 1
      /\ \A n \in 1 .. Len(h) : Append(h, x)[n] = h[n]
      /\ Append(h, x)[Len(h) + 1] = x
  BY AppendProperties, LenProperties
<1>. SUFFICES ASSUME NEW n \in 1 .. Len(Append(h, x))
              PROVE  OperandsAreSet(Append(h, x)[n])
  OBVIOUS
<1>2. n \in 1 .. Len(h) \/ n = Len(h) + 1
  BY <1>1
<1>. QED
  BY <1>1, <1>2

LEMMA FrameAdded ==
  ASSUME NEW s \in Seq(FrameType), NEW x \in FrameType,
         \A n \in 1 .. Len(s) : LeftIsSet(s[n]), LeftIsSet(x)
  PROVE  \A n \in 1 .. Len(Append(s, x)) : LeftIsSet(Append(s, x)[n])
<1>1. /\ Len(s) \in Nat /\ Len(Append(s, x)) = Len(s) + 1
      /\ \A n \in 1 .. Len(s) : Append(s, x)[n] = s[n]
      /\ Append(s, x)[Len(s) + 1] = x
  BY AppendProperties, LenProperties
<1>. SUFFICES ASSUME NEW n \in 1 .. Len(Append(s, x))
              PROVE  LeftIsSet(Append(s, x)[n])
  OBVIOUS
<1>2. n \in 1 .. Len(s) \/ n = Len(s) + 1
  BY <1>1
<1>. QED
  BY <1>1, <1>2

(* A function that has just been called has no left operand yet.           *)
LEMMA NewFrameSet == \A f \in Functions : LeftIsSet(Frame(f))
BY DEF LeftIsSet, Frame

LEMMA RestSet ==
  ASSUME TypeOK, stack # <<>>, \A k \in 1 .. Len(stack) : LeftIsSet(stack[k])
  PROVE  /\ LeftIsSet(Top)
         /\ \A k \in 1 .. Len(Rest) : LeftIsSet(Rest[k])
<1>1. /\ Len(stack) \in Nat \ {0} /\ Len(Rest) = Len(stack) - 1
      /\ \A k \in 1 .. Len(stack) - 1 : Rest[k] = stack[k]
  BY StackParts DEF TypeOK, Rest
<1>2. LeftIsSet(Top)
  BY <1>1 DEF Top
<1>3. ASSUME NEW k \in 1 .. Len(Rest)
      PROVE  LeftIsSet(Rest[k])
  <2>1. k \in 1 .. Len(stack) - 1 /\ k \in 1 .. Len(stack)
    BY <1>1
  <2>. QED
    BY <1>1, <2>1
<1>. QED
  BY <1>2, <1>3

(* Joining a returned operand to a pending one makes a node with both.     *)
LEMMA JoinedSet ==
  ASSUME Typed, LeftOperandsAreSet, NullIsReported, ~err,
         pc = "resume", stack # <<>>
  PROVE  /\ Joined # Null
         /\ \A n \in 1 .. Len(JoinedHeap) : OperandsAreSet(JoinedHeap[n])
<1>1. LeftIsSet(Top) /\ ret # Null /\ \A n \in 1 .. Len(heap) : OperandsAreSet(heap[n])
  BY RestSet DEF Typed, LeftOperandsAreSet, NullIsReported
<1>2. CASE Top.op = NoOp
  BY <1>1, <1>2 DEF Joined, JoinedHeap
<1>3. CASE Top.op # NoOp
  <2>. DEFINE x == BinaryNode(Top.op, Top.left, ret)
  <2>1. x \in NodeType
    BY <1>3, TopTyped, EmptySeq DEF BinaryNode, NodeType, Typed, TypeOK
  <2>2. OperandsAreSet(x)
    BY <1>1, <1>3 DEF BinaryNode, OperandsAreSet, LeftIsSet
  <2>3. heap \in Seq(NodeType) /\ Len(heap) \in Nat
    BY LenProperties DEF Typed, TypeOK
  <2>. HIDE DEF x
  <2>4. \A n \in 1 .. Len(Append(heap, x)) : OperandsAreSet(Append(heap, x)[n])
    BY <1>1, <2>1, <2>2, <2>3, NodeAdded
  <2>. QED
    BY <1>3, <2>3, <2>4 DEF Joined, JoinedHeap, x, Null
<1>. QED
  BY <1>2, <1>3

-----------------------------------------------------------------------------
(* The inductive invariant holds at the start and every step keeps it.     *)
LEMMA InitIInv == Init => IInv
<1>1. Init => Typed
  BY InitTyped
<1>2. Init => RecoveryIsReported /\ LeftOperandsAreSet /\ NullIsReported
  BY EmptySeq DEF Init, RecoveryIsReported, LeftOperandsAreSet, NullIsReported
<1>. QED
  BY <1>1, <1>2 DEF IInv

LEMMA NextIInv == IInv /\ [Next]_pvars => IInv'
<1>. SUFFICES ASSUME IInv, [Next]_pvars
              PROVE  IInv'
  OBVIOUS
<1>0. Typed /\ Typed' /\ TypeOK
  BY NextTyped DEF IInv, Typed
<1>. SUFFICES (RecoveryIsReported /\ LeftOperandsAreSet /\ NullIsReported)'
  BY <1>0 DEF IInv
<1>. USE DEF IInv
<1>a. ASSUME err' = TRUE
      PROVE  (RecoveryIsReported /\ LeftOperandsAreSet /\ NullIsReported)'
  BY <1>a DEF RecoveryIsReported, LeftOperandsAreSet, NullIsReported
<1>. SUFFICES ASSUME ~err'
              PROVE  (RecoveryIsReported /\ LeftOperandsAreSet /\ NullIsReported)'
  BY <1>0, <1>a DEF Typed, TypeOK
<1>b. ASSUME Error PROVE FALSE
  BY <1>b DEF Error
(* The actions that leave the stack, the heap and the value alone.         *)
<1>1. CASE CalcWith \/ DeclareIdent \/ DeclareComma
  BY <1>1 DEF CalcWith, DeclareIdent, DeclareComma, RecoveryIsReported,
              LeftOperandsAreSet, NullIsReported
<1>2. ASSUME CallExpr, UNCHANGED <<err, heap>>
      PROVE  (RecoveryIsReported /\ LeftOperandsAreSet /\ NullIsReported)'
  <2>1. LeftIsSet(Frame("expr"))
    BY NewFrameSet DEF Functions
  <2>. QED
    BY <1>2, <2>1 DEF CallExpr, RecoveryIsReported, LeftOperandsAreSet, NullIsReported
<1>3. CASE CalcNoWith \/ DeclareColon
  BY <1>2, <1>3 DEF CalcNoWith, DeclareColon
<1>4. CASE DeclareError \/ FactorBadToken \/ FactorUnclosed \/ CalcTailError
  BY <1>4, <1>b DEF DeclareError, FactorBadToken, FactorUnclosed, CalcTailError
<1>5. CASE EnterLevel
  <2>1. Frame(Below(Top.fn)) \in FrameType /\ LeftIsSet(Frame(Below(Top.fn)))
    BY <1>0, <1>5, TopTyped, BelowTyped, FrameTyped, NewFrameSet
       DEF EnterLevel, Typed, FrameWhenRunning
  <2>2. LeftOperandsAreSet'
    BY <1>0, <1>5, <2>1, FrameAdded DEF EnterLevel, LeftOperandsAreSet, TypeOK
  <2>. QED
    BY <1>5, <2>2 DEF EnterLevel, RecoveryIsReported, NullIsReported
<1>6. CASE LevelOperator
  <2>. DEFINE mine == [fn |-> Top.fn, left |-> Joined, op |-> tok]
              callee == Frame(Below(Top.fn))
  <2>1. /\ Top.fn \in Functions /\ tok \in Operators
        /\ Joined \in Nat /\ Rest \in Seq(FrameType)
    BY <1>0, <1>6, TopTyped, JoinedTyped, LevelOpsTyped DEF LevelOperator
  <2>2. ~err /\ pc = "resume" /\ stack # <<>>
    BY <1>6 DEF LevelOperator
  <2>3. Joined # Null /\ \A n \in 1 .. Len(JoinedHeap) : OperandsAreSet(JoinedHeap[n])
    BY <1>0, <2>2, JoinedSet
  <2>4. mine \in FrameType /\ LeftIsSet(mine)
    BY <2>1, <2>3 DEF FrameType, LeftIsSet
  <2>5. callee \in FrameType /\ LeftIsSet(callee)
    BY <2>1, BelowTyped, FrameTyped, NewFrameSet
  <2>6. \A k \in 1 .. Len(Rest) : LeftIsSet(Rest[k])
    BY <1>0, <2>2, RestSet DEF LeftOperandsAreSet
  <2>7. stack' = Append(Append(Rest, mine), callee)
    BY <1>6 DEF LevelOperator
  <2>. HIDE DEF mine, callee
  <2>8. /\ Append(Rest, mine) \in Seq(FrameType)
        /\ \A k \in 1 .. Len(Append(Rest, mine)) : LeftIsSet(Append(Rest, mine)[k])
    BY <2>1, <2>4, <2>6, FrameAdded, AppendProperties
  <2>9. LeftOperandsAreSet'
    BY <2>5, <2>7, <2>8, FrameAdded DEF LeftOperandsAreSet
  <2>10. RecoveryIsReported' /\ NullIsReported'
    BY <1>6, <2>3 DEF LevelOperator, RecoveryIsReported, NullIsReported
  <2>. QED
    BY <2>9, <2>10
<1>7. CASE LevelReturn
  <2>1. ~err /\ pc = "resume" /\ stack # <<>>
    BY <1>7 DEF LevelReturn
  <2>2. /\ Joined # Null
        /\ \A n \in 1 .. Len(JoinedHeap) : OperandsAreSet(JoinedHeap[n])
        /\ \A k \in 1 .. Len(Rest) : LeftIsSet(Rest[k])
    BY <1>0, <2>1, JoinedSet, RestSet DEF LeftOperandsAreSet
  <2>. QED
    BY <1>7, <2>2 DEF LevelReturn, Return, RecoveryIsReported, LeftOperandsAreSet,
                      NullIsReported
<1>8. CASE FactorLeaf
  <2>. DEFINE x == FactorNode(Len(input))
  <2>1. x \in NodeType /\ OperandsAreSet(x)
    BY <1>0, LenProperties DEF FactorNode, NodeType, Null, OperandsAreSet, TypeOK
  <2>2. ~err /\ stack # <<>> /\ Len(heap) \in Nat /\ heap \in Seq(NodeType)
    BY <1>0, <1>8, LenProperties DEF FactorLeaf, Typed, TypeOK, FrameWhenRunning
  <2>3. \A k \in 1 .. Len(Rest) : LeftIsSet(Rest[k])
    BY <1>0, <2>2, RestSet DEF LeftOperandsAreSet
  <2>4. heap' = Append(heap, x)
    BY <1>8 DEF FactorLeaf
  <2>. HIDE DEF x
  <2>5. \A n \in 1 .. Len(heap') : OperandsAreSet(heap'[n])
    BY <2>1, <2>2, <2>4, NodeAdded DEF NullIsReported
  <2>. QED
    BY <1>8, <2>2, <2>3, <2>5 DEF FactorLeaf, Return, RecoveryIsReported,
                                  LeftOperandsAreSet, NullIsReported, Null
<1>9. CASE FactorParen
  <2>1. Frame("expr") \in FrameType /\ LeftIsSet(Frame("expr"))
    BY FrameTyped, NewFrameSet DEF Functions
  <2>2. LeftOperandsAreSet'
    BY <1>0, <1>9, <2>1, FrameAdded DEF FactorParen, LeftOperandsAreSet, TypeOK
  <2>. QED
    BY <1>9, <2>2 DEF FactorParen, RecoveryIsReported, NullIsReported
<1>10. CASE FactorClose
  <2>1. ~err /\ stack # <<>>
    BY <1>10 DEF FactorClose
  <2>2. \A k \in 1 .. Len(Rest) : LeftIsSet(Rest[k])
    BY <1>0, <2>1, RestSet DEF LeftOperandsAreSet
  <2>. QED
    BY <1>10, <2>2 DEF FactorClose, Return, RecoveryIsReported, LeftOperandsAreSet,
                       NullIsReported
(* Recovery implies an error, and so cannot run here.                      *)
<1>11. CASE Skip \/ SkipDone \/ Recover \/ RecoverDone
  BY <1>11 DEF Skip, SkipDone, Recover, RecoverDone, RecoveryIsReported
<1>12. CASE CalcTail
  <2>1. ~err /\ ret # Null /\ \A n \in 1 .. Len(heap) : OperandsAreSet(heap[n])
    BY <1>12 DEF CalcTail, NullIsReported
  <2>2. heap \in Seq(NodeType) /\ Len(heap) \in Nat
    BY <1>0, LenProperties DEF TypeOK
  <2>3. result' # Null /\ \A n \in 1 .. Len(heap') : OperandsAreSet(heap'[n])
    <3>1. CASE vars = <<>>
      BY <1>12, <2>1, <3>1 DEF CalcTail
    <3>2. CASE vars # <<>>
      <4>. DEFINE x == WithNode(vars, ret)
      <4>1. x \in NodeType /\ OperandsAreSet(x)
        BY <1>0, <2>1 DEF WithNode, NodeType, Null, OperandsAreSet, TypeOK
      <4>2. heap' = Append(heap, x) /\ result' = Len(heap) + 1
        BY <1>12, <3>2 DEF CalcTail
      <4>. HIDE DEF x
      <4>. QED
        BY <2>1, <2>2, <4>1, <4>2, NodeAdded DEF Null
    <3>. QED
      BY <3>1, <3>2
  <2>. QED
    BY <1>12, <2>3 DEF CalcTail, RecoveryIsReported, LeftOperandsAreSet, NullIsReported
<1>13. CASE ParseReturn
  <2>1. UNCHANGED err
    BY <1>13, <1>b DEF ParseReturn
  <2>. QED
    BY <1>13, <2>1 DEF ParseReturn, RecoveryIsReported, LeftOperandsAreSet, NullIsReported
<1>14. CASE UNCHANGED pvars
  BY <1>14 DEF pvars, RecoveryIsReported, LeftOperandsAreSet, NullIsReported
<1>. QED
  BY <1>1, <1>3, <1>4, <1>5, <1>6, <1>7, <1>8, <1>9, <1>10, <1>11, <1>12, <1>13, <1>14
     DEF Next, ParseStep

(* No null operand or tree without a reported error: what main.cc's test   *)
(* of hasErr() has to guarantee before CodeGen follows pointers unchecked. *)
THEOREM NoUnreportedNull == Spec => []NullIsReported
<1>1. Spec => []IInv
  BY InitIInv, NextIInv, PTL DEF Spec
<1>2. IInv => NullIsReported
  BY DEF IInv
<1>. QED
  BY <1>1, <1>2, PTL

-----------------------------------------------------------------------------
(* The shape of what the parser has built: leaves name operand tokens of   *)
(* the text, children come before their parents, and the With node, if     *)
(* any, is the last thing made.                                            *)
Extends(s, t) == Len(s) <= Len(t) /\ \A i \in 1 .. Len(s) : t[i] = s[i]

LookaheadIsLast == tok # "eoi" => input # <<>> /\ input[Len(input)] = tok

NamedIn(text_, p) == p \in 1 .. Len(text_) /\ text_[p] = "ident"
VarsAreNames == \A v \in 1 .. Len(vars) : NamedIn(input, vars[v])

PointersInHeap ==
  /\ ret <= Len(heap) /\ result <= Len(heap)
  /\ \A k \in 1 .. Len(stack) : stack[k].left <= Len(heap)

WellMade(text_, node, n) ==
  \/ /\ node.kind = "Factor"
     /\ \E p \in 1 .. Len(text_) : node.vals = <<p>> /\ text_[p] \in {"number", "ident"}
  \/ /\ node.kind = "BinaryOp" /\ node.op \in Operators
     /\ node.left < n /\ node.right < n
  \/ /\ node.kind = "With" /\ node.left < n /\ node.right = Null
     /\ \A v \in 1 .. Len(node.vals) : NamedIn(text_, node.vals[v])

HeapIsMade == \A n \in 1 .. Len(heap) : WellMade(input, heap[n], n)
WithIsLast ==
  \A n \in 1 .. Len(heap) :
    heap[n].kind = "With" => n = Len(heap) /\ pc \in {"parsed", "done"}

Shape == LookaheadIsLast /\ VarsAreNames /\ PointersInHeap /\ HeapIsMade /\ WithIsLast

(* What a step adds to the text and to the heap goes at their ends.        *)
LEMMA AppendExtends ==
  ASSUME NEW S, NEW s \in Seq(S), NEW x \in S
  PROVE  /\ Len(s) \in Nat /\ Len(Append(s, x)) = Len(s) + 1
         /\ Extends(s, Append(s, x)) /\ Append(s, x)[Len(s) + 1] = x
BY AppendProperties, LenProperties DEF Extends

LEMMA ExtendsItself ==
  ASSUME NEW S, NEW s \in Seq(S)
  PROVE  Extends(s, s)
BY LenProperties DEF Extends

LEMMA AdvanceExtends ==
  ASSUME TypeOK, Advance
  PROVE  Extends(input, input') /\ LookaheadIsLast'
<1>1. CASE \E k \in Kinds : tok' = k /\ input' = Append(input, k) /\ fuel > 0 /\ fuel' = fuel - 1
  <2>1. PICK k \in Kinds : tok' = k /\ input' = Append(input, k)
    BY <1>1
  <2>2. Len(input) \in Nat /\ Len(input') = Len(input) + 1 /\ Extends(input, input') /\ input'[Len(input) + 1] = k
    BY <2>1, AppendExtends DEF TypeOK
  <2>3. input' # <<>>
    BY <2>2
  <2>. QED
    BY <2>1, <2>2, <2>3 DEF LookaheadIsLast
<1>2. CASE tok' = "eoi" /\ UNCHANGED input /\ fuel' = 0
  BY <1>2, ExtendsItself DEF TypeOK, LookaheadIsLast
<1>. QED
  BY <1>1, <1>2 DEF Advance, NextToken

LEMMA StepLexes ==
  ASSUME TypeOK, LookaheadIsLast, [Next]_pvars
  PROVE  Extends(input, input') /\ LookaheadIsLast'
<1>1. Extends(input, input)
  BY ExtendsItself DEF TypeOK
<1>2. CASE Advance
  BY <1>2, AdvanceExtends
<1>3. CASE UNCHANGED <<input, tok>>
  BY <1>1, <1>3 DEF LookaheadIsLast
<1>. QED
  BY <1>2, <1>3
     DEF Next, ParseStep, pvars, lexVars, Error, CalcWith, CalcNoWith, DeclareIdent, DeclareComma,
         DeclareColon, DeclareError, EnterLevel, LevelOperator, LevelReturn, FactorLeaf, FactorParen,
         FactorBadToken, FactorClose, FactorUnclosed, Skip, SkipDone, CalcTail, CalcTailError,
         Recover, RecoverDone, ParseReturn

(* A node stays in order while the text grows.                             *)
LEMMA NamedStays ==
  ASSUME NEW s, NEW t, Len(s) \in Nat, Len(t) \in Nat, Extends(s, t), NEW p, NamedIn(s, p)
  PROVE  NamedIn(t, p)
BY DEF Extends, NamedIn

LEMMA MadeStays ==
  ASSUME NEW s, NEW t, Len(s) \in Nat, Len(t) \in Nat, Extends(s, t),
         NEW x, NEW n, WellMade(s, x, n)
  PROVE  WellMade(t, x, n)
<1>1. CASE x.kind = "Factor" /\ \E p \in 1 .. Len(s) : x.vals = <<p>> /\ s[p] \in {"number", "ident"}
  <2>1. PICK p \in 1 .. Len(s) : x.vals = <<p>> /\ s[p] \in {"number", "ident"}
    BY <1>1
  <2>2. p \in 1 .. Len(t) /\ t[p] = s[p]
    BY DEF Extends
  <2>. QED
    BY <1>1, <2>1, <2>2 DEF WellMade
<1>2. CASE x.kind = "BinaryOp" /\ x.op \in Operators /\ x.left < n /\ x.right < n
  BY <1>2 DEF WellMade
<1>3. CASE x.kind = "With" /\ x.left < n /\ x.right = Null /\ \A v \in 1 .. Len(x.vals) : NamedIn(s, x.vals[v])
  BY <1>3, NamedStays DEF WellMade
<1>. QED
  BY <1>1, <1>2, <1>3 DEF WellMade

(* The heap after a step: the same, or one node in order more.             *)
HeapKept == UNCHANGED heap
HeapAdds(x) == /\ x \in NodeType /\ heap' = Append(heap, x)
               /\ WellMade(input, x, Len(heap) + 1)

LEMMA ShapeKept ==
  ASSUME TypeOK, TypeOK', Shape, Extends(input, input'), LookaheadIsLast', VarsAreNames',
         HeapKept \/ \E x \in NodeType : HeapAdds(x) /\ (x.kind = "With" => pc' \in {"parsed", "done"}),
         pc \in {"parsed", "done"} => pc' \in {"parsed", "done"} /\ HeapKept,
         PointersInHeap'
  PROVE  Shape'
<1>1. Len(input) \in Nat /\ Len(input') \in Nat /\ Len(heap) \in Nat
  BY LenProperties DEF TypeOK
<1>2. CASE HeapKept
  <2>1. HeapIsMade'
    BY <1>1, <1>2, MadeStays DEF HeapKept, Shape, HeapIsMade
  <2>2. WithIsLast'
    BY <1>2 DEF HeapKept, Shape, WithIsLast
  <2>. QED
    BY <2>1, <2>2 DEF Shape
<1>3. CASE ~HeapKept
  <2>1. PICK x \in NodeType : HeapAdds(x) /\ (x.kind = "With" => pc' \in {"parsed", "done"})
    BY <1>3
  <2>2. /\ Len(heap') = Len(heap) + 1 /\ heap'[Len(heap) + 1] = x
        /\ \A n \in 1 .. Len(heap) : heap'[n] = heap[n]
    BY <2>1, AppendExtends DEF HeapAdds, TypeOK, Extends
  <2>3. pc \notin {"parsed", "done"}
    BY <1>3
  <2>4. \A n \in 1 .. Len(heap) : heap[n].kind # "With"
    BY <2>3 DEF Shape, WithIsLast
  <2>5. \A n \in 1 .. Len(heap') : n \in 1 .. Len(heap) \/ n = Len(heap) + 1
    BY <1>1, <2>2
  <2>6. WithIsLast'
    BY <2>1, <2>2, <2>4, <2>5 DEF WithIsLast
  <2>7. WellMade(input', x, Len(heap) + 1)
    BY <1>1, <2>1, MadeStays DEF HeapAdds
  <2>8. \A n \in 1 .. Len(heap) : WellMade(input', heap[n], n)
    BY <1>1, MadeStays DEF Shape, HeapIsMade
  <2>9. HeapIsMade'
    BY <2>2, <2>5, <2>7, <2>8 DEF HeapIsMade
  <2>. QED
    BY <2>6, <2>9 DEF Shape
<1>. QED
  BY <1>2, <1>3

(* The stack after a step: pointers of frames stay in the heap.            *)
LeftsIn(s, h) == \A k \in 1 .. Len(s) : s[k].left <= Len(h)

LEMMA LeftsPushed ==
  ASSUME NEW s \in Seq(FrameType), NEW x \in FrameType, NEW h, LeftsIn(s, h), x.left <= Len(h)
  PROVE  LeftsIn(Append(s, x), h)
<1>1. /\ Len(s) \in Nat /\ Len(Append(s, x)) = Len(s) + 1
      /\ \A n \in 1 .. Len(s) : Append(s, x)[n] = s[n]
      /\ Append(s, x)[Len(s) + 1] = x
  BY AppendExtends DEF Extends
<1>2. \A k \in 1 .. Len(Append(s, x)) : k \in 1 .. Len(s) \/ k = Len(s) + 1
  BY <1>1
<1>. QED
  BY <1>1, <1>2 DEF LeftsIn

LEMMA LeftsPopped ==
  ASSUME TypeOK, stack # <<>>, NEW h, LeftsIn(stack, h)
  PROVE  LeftsIn(Rest, h) /\ Top.left <= Len(h)
<1>1. /\ Len(stack) \in Nat \ {0} /\ Len(Rest) = Len(stack) - 1
      /\ \A k \in 1 .. Len(stack) - 1 : Rest[k] = stack[k]
  BY StackParts DEF TypeOK, Rest
<1>. QED
  BY <1>1 DEF LeftsIn, Top

LEMMA LeftsGrow ==
  ASSUME NEW s \in Seq(FrameType), NEW h, NEW g, Len(h) \in Nat, Len(g) \in Nat,
         Len(h) <= Len(g), LeftsIn(s, h)
  PROVE  LeftsIn(s, g)
<1>1. \A k \in 1 .. Len(s) : s[k] \in FrameType
  BY ElementOfSeq
<1>2. \A k \in 1 .. Len(s) : s[k].left \in Nat
  BY <1>1 DEF FrameType
<1>. QED
  BY <1>2 DEF LeftsIn

LEMMA NewFrameIn == \A f : Frame(f).left = 0
BY DEF Frame, Null

(* Joining operands of the heap makes a node of the heap.                  *)
LEMMA JoinedMade ==
  ASSUME TypeOK, Shape, stack # <<>>
  PROVE  /\ Joined \in Nat /\ Joined <= Len(JoinedHeap) /\ Len(heap) <= Len(JoinedHeap)
         /\ Len(JoinedHeap) \in Nat
         /\ \/ JoinedHeap = heap
            \/ LET x == BinaryNode(Top.op, Top.left, ret)
               IN  x \in NodeType /\ JoinedHeap = Append(heap, x) /\ WellMade(input, x, Len(heap) + 1)
<1>1. /\ Len(heap) \in Nat /\ ret <= Len(heap) /\ Top.left <= Len(heap) /\ ret \in Nat /\ Top.left \in Nat
      /\ Top.op \in Operators \cup {NoOp}
  <2>1. LeftsIn(stack, heap)
    BY DEF Shape, PointersInHeap, LeftsIn
  <2>. QED
    BY <2>1, LeftsPopped, TopTyped, LenProperties DEF TypeOK, Shape, PointersInHeap
<1>2. CASE Top.op = NoOp
  BY <1>1, <1>2 DEF JoinedHeap, Joined
<1>3. CASE Top.op # NoOp
  <2>. DEFINE x == BinaryNode(Top.op, Top.left, ret)
  <2>1. x \in NodeType
    BY <1>1, EmptySeq DEF BinaryNode, NodeType
  <2>2. WellMade(input, x, Len(heap) + 1)
    BY <1>1, <1>3 DEF WellMade, BinaryNode
  <2>3. JoinedHeap = Append(heap, x) /\ Joined = Len(heap) + 1
    BY <1>3 DEF JoinedHeap, Joined
  <2>. HIDE DEF x
  <2>4. Len(JoinedHeap) = Len(heap) + 1
    BY <2>1, <2>3, AppendExtends DEF TypeOK
  <2>. QED
    BY <1>1, <2>1, <2>2, <2>3, <2>4 DEF x
<1>. QED
  BY <1>2, <1>3

LEMMA InitShape == Init => Shape
<1>. SUFFICES ASSUME Init PROVE Shape
  OBVIOUS
<1>1. Len(heap) = 0 /\ Len(stack) = 0 /\ Len(vars) = 0
  BY EmptySeq DEF Init
<1>2. LookaheadIsLast
  BY DEF Init, LookaheadIsLast
<1>. QED
  BY <1>1, <1>2 DEF Init, Null, Shape, VarsAreNames, PointersInHeap, HeapIsMade, WithIsLast

LEMMA NextShape == Typed /\ Shape /\ [Next]_pvars => Shape'
<1>. SUFFICES ASSUME Typed, Shape, [Next]_pvars
              PROVE  Shape'
  OBVIOUS
<1>0. TypeOK /\ TypeOK' /\ Extends(input, input') /\ LookaheadIsLast'
  <2>1. TypeOK /\ TypeOK'
    BY NextTyped DEF Typed
  <2>. QED
    BY <2>1, StepLexes DEF Shape
<1>1. /\ Len(heap) \in Nat /\ Len(input) \in Nat /\ Len(input') \in Nat
      /\ LeftsIn(stack, heap) /\ ret <= Len(heap) /\ result <= Len(heap)
      /\ ret \in Nat /\ result \in Nat
  BY <1>0, LenProperties DEF TypeOK, Shape, PointersInHeap, LeftsIn
<1>2. stack # <<>> => Top \in FrameType /\ Rest \in Seq(FrameType) /\ LeftsIn(Rest, heap) /\ Top.left <= Len(heap)
  BY <1>0, <1>1, TopTyped, LeftsPopped
<1>3. UNCHANGED vars => VarsAreNames'
  BY <1>0, <1>1, NamedStays DEF Shape, VarsAreNames
<1>4. ASSUME VarsAreNames', UNCHANGED <<heap, ret, result>>, LeftsIn(stack', heap),
             pc \in {"parsed", "done"} => pc' \in {"parsed", "done"}
      PROVE  Shape'
  <2>1. PointersInHeap'
    BY <1>1, <1>4 DEF PointersInHeap, LeftsIn
  <2>. QED
    BY <1>0, <1>4, <2>1, ShapeKept DEF HeapKept
<1>5. LeftsIn(<<Frame("expr")>>, heap)
  BY <1>1, NewFrameIn DEF LeftsIn
<1>6. CASE CalcWith \/ DeclareComma \/ FactorBadToken \/ Skip \/ CalcTailError \/ Recover \/ DeclareError
  <2>1. /\ UNCHANGED <<stack, vars, heap, ret, result>>
        /\ pc \notin {"parsed", "done"}
    BY <1>6 DEF CalcWith, DeclareComma, FactorBadToken, Skip, CalcTailError, Recover, DeclareError
  <2>. QED
    BY <1>1, <1>3, <1>4, <2>1
<1>7. CASE CalcNoWith \/ DeclareColon
  <2>1. /\ UNCHANGED <<vars, heap, ret, result>> /\ stack' = <<Frame("expr")>>
        /\ pc \notin {"parsed", "done"}
    BY <1>7 DEF CalcNoWith, DeclareColon, CallExpr
  <2>. QED
    BY <1>3, <1>4, <1>5, <2>1
<1>8. CASE DeclareIdent
  <2>1. /\ UNCHANGED <<stack, heap, ret, result>> /\ pc \notin {"parsed", "done"}
        /\ vars' = Append(vars, Len(input)) /\ tok = "ident"
    BY <1>8 DEF DeclareIdent
  <2>2. NamedIn(input, Len(input))
    BY <1>1, <2>1 DEF Shape, LookaheadIsLast, NamedIn
  <2>3. NamedIn(input', Len(input))
    BY <1>0, <1>1, <2>2, NamedStays
  <2>4. /\ Len(vars) \in Nat /\ Len(vars') = Len(vars) + 1
        /\ \A v \in 1 .. Len(vars) : vars'[v] = vars[v]
        /\ vars'[Len(vars) + 1] = Len(input)
    BY <1>0, <1>1, <2>1, AppendExtends DEF TypeOK, Extends
  <2>5. \A v \in 1 .. Len(vars') : v \in 1 .. Len(vars) \/ v = Len(vars) + 1
    BY <2>4
  <2>6. \A v \in 1 .. Len(vars) : NamedIn(input', vars[v])
    BY <1>0, <1>1, NamedStays DEF Shape, VarsAreNames
  <2>7. VarsAreNames'
    BY <2>3, <2>4, <2>5, <2>6 DEF VarsAreNames
  <2>. QED
    BY <1>1, <1>4, <2>1, <2>7
<1>9. CASE EnterLevel \/ FactorParen
  <2>1. stack # <<>> /\ Top.fn \in Functions
    BY <1>0, <1>9, TopTyped DEF EnterLevel, FactorParen, Typed, FrameWhenRunning
  <2>2. PICK f \in Functions : stack' = Append(stack, Frame(f))
    <3>1. "expr" \in Functions /\ Below(Top.fn) \in Functions
      BY <2>1, BelowTyped DEF Functions
    <3>. QED
      BY <1>9, <3>1 DEF EnterLevel, FactorParen
  <2>3. Frame(f) \in FrameType
    BY FrameTyped
  <2>4. LeftsIn(stack', heap)
    <3>1. stack \in Seq(FrameType) /\ Frame(f).left <= Len(heap)
      BY <1>0, <1>1, NewFrameIn DEF TypeOK
    <3>. QED
      BY <1>1, <2>2, <2>3, <3>1, LeftsPushed
  <2>5. UNCHANGED <<vars, heap, ret, result>> /\ pc \notin {"parsed", "done"}
    BY <1>9 DEF EnterLevel, FactorParen
  <2>. QED
    BY <1>3, <1>4, <2>4, <2>5
<1>10. CASE LevelOperator
  <2>. DEFINE mine == [fn |-> Top.fn, left |-> Joined, op |-> tok]
              callee == Frame(Below(Top.fn))
              h == JoinedHeap
  <2>1. /\ stack # <<>> /\ stack' = Append(Append(Rest, mine), callee) /\ heap' = h
        /\ UNCHANGED <<vars, ret, result>> /\ pc \notin {"parsed", "done"}
    BY <1>10 DEF LevelOperator
  <2>2. /\ Joined \in Nat /\ Joined <= Len(h) /\ Len(heap) <= Len(h) /\ Len(h) \in Nat
        /\ HeapKept \/ \E x \in NodeType : HeapAdds(x) /\ x.kind # "With"
    BY <1>0, <2>1, JoinedMade DEF HeapKept, HeapAdds, BinaryNode
  <2>3. mine \in FrameType /\ callee \in FrameType /\ callee.left = 0
    BY <1>0, <1>10, <2>1, <2>2, TopTyped, LevelOpsTyped, BelowTyped, FrameTyped, NewFrameIn
       DEF LevelOperator, FrameType
  <2>4. mine.left = Joined
    OBVIOUS
  <2>. HIDE DEF mine, callee, h
  <2>5. Append(Rest, mine) \in Seq(FrameType) /\ LeftsIn(Append(Rest, mine), h)
    BY <1>1, <1>2, <2>1, <2>2, <2>3, <2>4, LeftsGrow, LeftsPushed, AppendProperties
  <2>6. LeftsIn(stack', heap')
    <3>1. callee.left <= Len(h)
      BY <2>2, <2>3
    <3>2. LeftsIn(Append(Append(Rest, mine), callee), h)
      BY <2>3, <2>5, <3>1, LeftsPushed
    <3>. QED
      BY <2>1, <3>2
  <2>7. PointersInHeap'
    BY <1>1, <2>1, <2>2, <2>6 DEF PointersInHeap, LeftsIn
  <2>. QED
    BY <1>0, <1>3, <2>1, <2>2, <2>7, ShapeKept
<1>11. CASE LevelReturn
  <2>. DEFINE h == JoinedHeap
  <2>1. /\ stack # <<>> /\ stack' = Rest /\ heap' = h /\ ret' = Joined
        /\ UNCHANGED <<vars, result>> /\ pc \notin {"parsed", "done"}
    BY <1>11 DEF LevelReturn, Return
  <2>2. /\ Joined \in Nat /\ Joined <= Len(h) /\ Len(heap) <= Len(h) /\ Len(h) \in Nat
        /\ HeapKept \/ \E x \in NodeType : HeapAdds(x) /\ x.kind # "With"
    BY <1>0, <2>1, JoinedMade DEF HeapKept, HeapAdds, BinaryNode
  <2>. HIDE DEF h
  <2>3. LeftsIn(stack', heap')
    BY <1>1, <1>2, <2>1, <2>2, LeftsGrow
  <2>4. PointersInHeap'
    BY <1>1, <2>1, <2>2, <2>3 DEF PointersInHeap, LeftsIn
  <2>. QED
    BY <1>0, <1>3, <2>1, <2>2, <2>4, ShapeKept
<1>12. CASE FactorLeaf
  <2>. DEFINE x == FactorNode(Len(input))
  <2>1. /\ stack # <<>> /\ stack' = Rest /\ heap' = Append(heap, x) /\ ret' = Len(heap) + 1
        /\ UNCHANGED <<vars, result>> /\ pc \notin {"parsed", "done"} /\ tok \in {"number", "ident"}
    BY <1>12 DEF FactorLeaf, Return, Typed, FrameWhenRunning
  <2>2. x \in NodeType /\ x.kind = "Factor" /\ x.vals = <<Len(input)>>
    BY <1>1 DEF FactorNode, NodeType, Null
  <2>. HIDE DEF x
  <2>3. WellMade(input, x, Len(heap) + 1)
    <3>1. Len(input) \in 1 .. Len(input) /\ input[Len(input)] = tok
      BY <1>1, <2>1 DEF Shape, LookaheadIsLast
    <3>. QED
      BY <2>1, <2>2, <3>1 DEF WellMade
  <2>4. HeapAdds(x) /\ Len(heap') = Len(heap) + 1
    BY <1>0, <2>1, <2>2, <2>3, AppendExtends DEF HeapAdds, TypeOK
  <2>5. LeftsIn(stack', heap')
    <3>1. Len(heap') \in Nat /\ Len(heap) <= Len(heap') /\ Rest \in Seq(FrameType) /\ LeftsIn(Rest, heap)
      BY <1>1, <1>2, <2>1, <2>4
    <3>2. LeftsIn(Rest, heap')
      BY <1>1, <3>1, LeftsGrow
    <3>. QED
      BY <2>1, <3>2
  <2>6. PointersInHeap'
    BY <1>1, <2>1, <2>4, <2>5 DEF PointersInHeap, LeftsIn
  <2>. QED
    BY <1>0, <1>3, <2>1, <2>2, <2>4, <2>6, ShapeKept
<1>13. CASE FactorClose \/ SkipDone
  <2>1. /\ stack # <<>> /\ stack' = Rest /\ (ret' = ret \/ ret' = Top.left)
        /\ UNCHANGED <<vars, heap, result>> /\ pc \notin {"parsed", "done"}
    BY <1>13 DEF FactorClose, SkipDone, Return, Typed, FrameWhenRunning
  <2>2. PointersInHeap'
    BY <1>1, <1>2, <2>1 DEF PointersInHeap, LeftsIn
  <2>. QED
    BY <1>0, <1>3, <2>1, <2>2, ShapeKept DEF HeapKept
<1>14. CASE FactorUnclosed
  <2>. DEFINE mine == [Top EXCEPT !.left = ret]
  <2>1. /\ stack # <<>> /\ stack' = Append(Rest, mine)
        /\ UNCHANGED <<vars, heap, ret, result>> /\ pc \notin {"parsed", "done"}
    BY <1>14 DEF FactorUnclosed
  <2>2. mine \in FrameType /\ mine.left = ret
    BY <1>1, <1>2, <2>1 DEF FrameType
  <2>. HIDE DEF mine
  <2>3. LeftsIn(stack', heap)
    BY <1>1, <1>2, <2>1, <2>2, LeftsPushed
  <2>. QED
    BY <1>3, <1>4, <2>1, <2>3
<1>15. CASE CalcTail
  <2>1. /\ UNCHANGED <<stack, vars, ret>> /\ pc \notin {"parsed", "done"} /\ pc' = "parsed"
    BY <1>15 DEF CalcTail
  <2>2. CASE vars = <<>>
    <3>1. HeapKept /\ result' = ret
      BY <1>15, <2>2 DEF CalcTail, HeapKept
    <3>2. PointersInHeap'
      BY <1>1, <2>1, <3>1 DEF PointersInHeap, LeftsIn, HeapKept
    <3>. QED
      BY <1>0, <1>3, <2>1, <3>1, <3>2, ShapeKept
  <2>3. CASE vars # <<>>
    <3>. DEFINE x == WithNode(vars, ret)
    <3>1. heap' = Append(heap, x) /\ result' = Len(heap) + 1
      BY <1>15, <2>3 DEF CalcTail
    <3>2. x \in NodeType /\ x.kind = "With" /\ x.left = ret /\ x.right = Null /\ x.vals = vars
      BY <1>0 DEF WithNode, NodeType, Null, TypeOK
    <3>. HIDE DEF x
    <3>3. WellMade(input, x, Len(heap) + 1)
      BY <1>1, <3>2 DEF WellMade, Shape, VarsAreNames
    <3>4. HeapAdds(x) /\ Len(heap') = Len(heap) + 1
      BY <1>0, <3>1, <3>2, <3>3, AppendExtends DEF HeapAdds, TypeOK
    <3>5. LeftsIn(stack', heap')
      BY <1>0, <1>1, <2>1, <3>4, LeftsGrow DEF TypeOK
    <3>6. PointersInHeap'
      BY <1>1, <2>1, <3>1, <3>4, <3>5 DEF PointersInHeap, LeftsIn
    <3>. QED
      BY <1>0, <1>3, <2>1, <3>2, <3>4, <3>6, ShapeKept
  <2>. QED
    BY <2>2, <2>3
<1>16. CASE RecoverDone
  <2>1. /\ UNCHANGED <<stack, vars, heap, ret>> /\ pc \notin {"parsed", "done"} /\ result' = 0
    BY <1>16 DEF RecoverDone, Null
  <2>2. PointersInHeap'
    BY <1>1, <2>1 DEF PointersInHeap, LeftsIn
  <2>. QED
    BY <1>0, <1>3, <2>1, <2>2, ShapeKept DEF HeapKept
<1>17. CASE ParseReturn \/ UNCHANGED pvars
  <2>1. UNCHANGED <<stack, vars, heap, ret, result>> /\ (pc' = "done" \/ UNCHANGED pc)
    BY <1>17 DEF ParseReturn, pvars
  <2>. QED
    BY <1>1, <1>3, <1>4, <2>1
<1>. QED
  BY <1>6, <1>7, <1>8, <1>9, <1>10, <1>11, <1>12, <1>13, <1>14, <1>15, <1>16, <1>17
     DEF Next, ParseStep

-----------------------------------------------------------------------------
(* What has been read of the text, and the texts it may turn out to be.    *)
Seen == IF tok = "eoi" THEN Len(input) ELSE Len(input) - 1
Future(t) == t \in Seq(TokenKinds) /\ Extends(input, t) /\ (tok = "eoi" => t = input)

(* The names of a variable list and the commas between them.               *)
ListRead(t) ==
  /\ t[1] = "KW_with"
  /\ \A p \in 2 .. Seen : t[p] = IF p % 2 = 0 THEN "ident" ELSE "comma"
  /\ \A v \in 1 .. Len(vars) : vars[v] = 2 * v
  /\ Seen = IF pc = "declare" THEN 2 * Len(vars) + 1 ELSE 2 * Len(vars)
  /\ pc = "declared" => vars # <<>>

(* The nonterminal the k-th frame, or the one after the last, reads.       *)
Callee(fn) == IF fn = "factor" THEN "expr" ELSE Below(fn)
Called(w, k) == IF k = 1 THEN "expr" ELSE Callee(w[k - 1].fn)

(* A frame that began at i waits for a callee that began at j.             *)
Link(t, h, f, i, j) ==
  /\ f.fn = "factor" => t[i] = "l_paren" /\ j = i + 1
  /\ f.fn # "factor" /\ f.op = NoOp => j = i
  /\ f.fn # "factor" /\ f.op # NoOp =>
       /\ i <= j - 2 /\ f.op \in LevelOps(f.fn) /\ t[j - 1] = f.op
       /\ TreeOn(t, f.fn, i, j - 2) = Unfold(h, f.left)
       /\ TreeOn(t, f.fn, i, j - 2) # NoTree

(* The frames of w wait, each for the one above it; b says where each      *)
(* began, and where the one that is missing at the end begins.             *)
Chain(t, h, w, b) ==
  \A k \in 1 .. Len(w) : w[k].fn = Called(w, k) /\ Link(t, h, w[k], b[k], b[k + 1])

StartsAt(t, vs, b) == ExprStarts(t) = {b[1]} /\ Declared(t) = vs /\ b[1] \in Nat \ {0}
InRange(w, b, r) == \A k \in 1 .. Len(w) + 1 : b[k] \in b[1] .. r + 1

(* A function is called where an operand is due.                           *)
Entering(t, w, b) ==
  LET m == Len(w) + 1 IN
  /\ stack = Append(w, Frame(Called(w, m)))
  /\ b[m] = Seen + 1
  /\ Seen + 1 = b[1] \/ t[Seen] \notin Enders

(* A function has returned the tree of what it read.                       *)
Resuming(t, w, b) ==
  LET m == Len(w) + 1 IN
  /\ stack = w
  /\ TreeOn(t, Called(w, m), b[m], Seen) = Unfold(heap, ret)
  /\ TreeOn(t, Called(w, m), b[m], Seen) # NoTree
  /\ tok \in Operators => tok \in Loud(Called(w, m))

Waiting == IF pc = "enter" THEN Rest ELSE stack

Within(t, b) ==
  /\ StartsAt(t, vars, b) /\ InRange(Waiting, b, Seen) /\ Chain(t, heap, Waiting, b)
  /\ pc = "enter" => Entering(t, Waiting, b)
  /\ pc = "resume" => Resuming(t, Waiting, b)

ParsedAs(t) ==
  LET top == heap[result]
      e   == IF top.kind = "With" THEN top.left ELSE result
  IN /\ IsProgram(t)
     /\ (top.kind = "With") <=> (Declared(t) # <<>>)
     /\ top.kind = "With" => top.vals = Declared(t)
     /\ Unfold(heap, e) = ProgramTree(t)

Reads(t) ==
  IF err THEN ~IsProgram(t)
  ELSE /\ pc = "calc" => Seen = 0 /\ vars = <<>>
       /\ pc \in {"declare", "declared"} => ListRead(t)
       /\ pc \in {"enter", "resume"} => \E b \in [Nat -> Nat] : Within(t, b)
       /\ pc \in {"parsed", "done"} => ParsedAs(t)

EndIsRead == pc \in {"parsed", "done"} => tok = "eoi"
ReadsRight == \A t : Future(t) => Reads(t)

-----------------------------------------------------------------------------
(* A heap whose nodes come after their children holds trees.               *)
Acyclic(h) ==
  /\ Len(h) \in Nat
  /\ \A n \in 1 .. Len(h) : h[n].kind # "Factor" => /\ h[n].left \in Nat /\ h[n].left < n
                                                   /\ h[n].right \in Nat /\ h[n].right < n

NodeTree(h, u, n) == IF n = Null THEN NoTree
                     ELSE IF h[n].kind = "Factor" THEN Leaf(h[n].vals[1])
                     ELSE Tree(h[n].op, u[h[n].left], u[h[n].right])

LEMMA MadeAcyclic ==
  ASSUME NEW h \in Seq(NodeType), NEW s, \A n \in 1 .. Len(h) : WellMade(s, h[n], n)
  PROVE  Acyclic(h) /\ Len(h) \in Nat
<1>1. Len(h) \in Nat /\ \A n \in 1 .. Len(h) : h[n] \in NodeType
  BY LenProperties, ElementOfSeq
<1>2. \A n \in 1 .. Len(h) : h[n].left \in Nat /\ h[n].right \in Nat
  BY <1>1 DEF NodeType
<1>3. \A n \in 1 .. Len(h) : h[n].kind # "Factor" => h[n].left < n /\ h[n].right < n
  BY DEF WellMade, Null
<1>. QED
  BY <1>1, <1>2, <1>3 DEF Acyclic

LEMMA NodeTreeLocal ==
  ASSUME NEW h, Acyclic(h), NEW n \in 0 .. Len(h), NEW g, NEW u, NEW v,
         n # 0 => g[n] = h[n],
         \A m \in 0 .. Len(h) : m < n => u[m] = v[m]
  PROVE  NodeTree(h, u, n) = NodeTree(g, v, n)
<1>1. CASE n = 0
  BY <1>1 DEF NodeTree, Null
<1>2. CASE n # 0 /\ h[n].kind = "Factor"
  BY <1>2 DEF NodeTree, Null
<1>3. CASE n # 0 /\ h[n].kind # "Factor"
  <2>1. /\ h[n].left \in 0 .. Len(h) /\ h[n].left < n
        /\ h[n].right \in 0 .. Len(h) /\ h[n].right < n
    BY <1>3 DEF Acyclic
  <2>2. u[h[n].left] = v[h[n].left] /\ u[h[n].right] = v[h[n].right]
    BY <2>1
  <2>. QED
    BY <1>3, <2>2 DEF NodeTree, Null
<1>. QED
  BY <1>1, <1>2, <1>3

(* Unfold satisfies its equation.                                          *)
LEMMA UnfoldIs ==
  ASSUME NEW h, Acyclic(h)
  PROVE  \A n \in 0 .. Len(h) :
           Unfold(h, n) = IF n = 0 THEN NoTree
                          ELSE IF h[n].kind = "Factor" THEN Leaf(h[n].vals[1])
                          ELSE Tree(h[n].op, Unfold(h, h[n].left), Unfold(h, h[n].right))
<1>. DEFINE K == Len(h)
            Unfolded(u, n) == CASE n = Null -> NoTree
                             [] n # Null /\ h[n].kind = "Factor" -> Leaf(h[n].vals[1])
                             [] OTHER -> Tree(h[n].op, u[h[n].left], u[h[n].right])
            Equation(u) == u = [n \in 0 .. Len(h) |-> Unfolded(u, n)]
            Upto(m, u) == \A n \in 0 .. K : n < m => u[n] = NodeTree(h, u, n)
            Made(m) == \E u : u = [n \in 0 .. K |-> u[n]] /\ Upto(m, u)
            S == {m \in Nat : Made(m)}
<1>0. K \in Nat
  BY DEF Acyclic
<1>a. \A u, n : Unfolded(u, n) = NodeTree(h, u, n)
  BY DEF NodeTree, Null
<1>. HIDE DEF Made, K
<1>1. \A m \in Nat : m \in S <=> Made(m)
  OBVIOUS
<1>. HIDE DEF S
<1>2. 0 \in S
  <2>. DEFINE u == [n \in 0 .. K |-> NoTree]
  <2>1. u = [n \in 0 .. K |-> u[n]] /\ Upto(0, u)
    BY <1>0
  <2>2. Made(0)
    BY <2>1 DEF Made
  <2>. QED
    BY <1>1, <2>2
<1>3. ASSUME NEW m \in Nat, m \in S
      PROVE  m + 1 \in S
  <2>1. PICK u : Upto(m, u)
    <3>1. Made(m)
      BY <1>1, <1>3
    <3>. QED
      BY <3>1 DEF Made
  <2>. DEFINE g == [n \in 0 .. K |-> IF n < m THEN u[n] ELSE NodeTree(h, u, n)]
  <2>2. \A n \in 0 .. K : g[n] = IF n < m THEN u[n] ELSE NodeTree(h, u, n)
    OBVIOUS
  <2>3. g = [n \in 0 .. K |-> g[n]]
    OBVIOUS
  <2>. HIDE DEF g
  <2>4. ASSUME NEW n \in 0 .. K, n < m + 1
        PROVE  g[n] = NodeTree(h, g, n)
    <3>1. \A j \in 0 .. K : j < n => u[j] = g[j]
      BY <1>0, <2>2, <2>4
    <3>2. NodeTree(h, u, n) = NodeTree(h, g, n)
      BY <3>1, NodeTreeLocal DEF K
    <3>3. g[n] = NodeTree(h, u, n)
      BY <2>1, <2>2
    <3>. QED
      BY <3>2, <3>3
  <2>5. Made(m + 1)
    BY <2>3, <2>4 DEF Made
  <2>. QED
    BY <1>1, <2>5
<1>4. \A m \in Nat : m \in S
  BY <1>2, <1>3, StepByStep
<1>5. PICK u : u = [n \in 0 .. K |-> u[n]] /\ Upto(K + 1, u)
  <2>1. Made(K + 1)
    BY <1>0, <1>1, <1>4
  <2>. QED
    BY <2>1 DEF Made
<1>. HIDE DEF Unfolded
<1>6. Equation(u)
  <2>1. \A n \in 0 .. K : u[n] = Unfolded(u, n)
    BY <1>0, <1>5, <1>a
  <2>. QED
    BY <1>5, <2>1 DEF K
<1>. DEFINE w == CHOOSE u_ : Equation(u_)
<1>7. \A n : Unfold(h, n) = w[n]
  BY DEF Unfold, Unfolded
<1>. HIDE DEF Equation
<1>8. Equation(w)
  BY <1>6
<1>9. ASSUME NEW e, Equation(e)
      PROVE  \A n \in 0 .. Len(h) : e[n] = NodeTree(h, e, n)
  BY <1>9, <1>a DEF Equation
<1>. HIDE DEF w
<1>10. \A n \in 0 .. Len(h) : Unfold(h, n) = NodeTree(h, w, n)
  BY <1>7, <1>8, <1>9
<1>. QED
  BY <1>7, <1>10 DEF NodeTree, Null

(* A tree stays while the heap grows.                                      *)
LEMMA UnfoldGrows ==
  ASSUME NEW h, NEW g, Acyclic(h), Acyclic(g), Extends(h, g)
  PROVE  \A n \in 0 .. Len(h) : Unfold(g, n) = Unfold(h, n)
<1>. DEFINE S == {n \in Nat : n <= Len(h) => Unfold(g, n) = Unfold(h, n)}
<1>1. ASSUME NEW n \in Nat, \A m \in Nat : m < n => m \in S
      PROVE  n \in S
  <2>. SUFFICES ASSUME n <= Len(h) PROVE Unfold(g, n) = Unfold(h, n)
    OBVIOUS
  <2>1. n \in 0 .. Len(h) /\ n \in 0 .. Len(g) /\ Len(h) \in Nat
    BY DEF Extends, Acyclic
  <2>2. n # 0 => g[n] = h[n]
    BY <2>1 DEF Extends
  <2>3. CASE n = 0 \/ h[n].kind = "Factor"
    BY <2>1, <2>2, <2>3, UnfoldIs
  <2>4. CASE n # 0 /\ h[n].kind # "Factor"
    <3>1. /\ h[n].left \in Nat /\ h[n].left < n /\ h[n].left <= Len(h)
          /\ h[n].right \in Nat /\ h[n].right < n /\ h[n].right <= Len(h)
      BY <2>1, <2>4 DEF Acyclic
    <3>2. Unfold(g, h[n].left) = Unfold(h, h[n].left) /\ Unfold(g, h[n].right) = Unfold(h, h[n].right)
      BY <1>1, <3>1
    <3>. QED
      BY <2>1, <2>2, <2>4, <3>2, UnfoldIs
  <2>. QED
    BY <2>3, <2>4
<1>. HIDE DEF S
<1>2. \A n \in Nat : n \in S
  BY <1>1, CourseOfValues
<1>. QED
  BY <1>2 DEF S, Acyclic

-----------------------------------------------------------------------------
(* The variable list.                                                      *)
Listed(t, q) == t[1] = "KW_with" /\ \A p \in 2 .. q : t[p] = IF p % 2 = 0 THEN "ident" ELSE "comma"

(* The colon of a list is not among its names and commas, and all before   *)
(* it are.                                                                 *)
LEMMA ColonAfterList ==
  ASSUME NEW t, Len(t) \in Nat \ {0}, NEW q \in Nat, q >= 1, Listed(t, q), NEW c \in ExprStarts(t)
  PROVE  /\ c \in 4 .. Len(t) + 1 /\ c % 2 = 0 /\ c >= q + 2 /\ t[c - 1] = "colon"
         /\ c > q + 2 => t[q + 1] = IF (q + 1) % 2 = 0 THEN "ident" ELSE "comma"
<1>1. t # <<>> /\ t[1] = "KW_with"
  BY DEF Listed
<1>2. /\ c \in 4 .. Len(t) + 1 /\ c % 2 = 0 /\ t[c - 1] = "colon"
      /\ \A p \in 2 .. c - 2 : t[p] = IF p % 2 = 0 THEN "ident" ELSE "comma"
  BY <1>1 DEF ExprStarts
<1>3. ASSUME c - 1 <= q PROVE FALSE
  <2>1. c - 1 \in 2 .. q
    BY <1>2, <1>3
  <2>2. t[c - 1] \in {"ident", "comma"}
    BY <2>1 DEF Listed
  <2>. QED
    BY <1>2, <2>2
<1>4. c >= q + 2
  BY <1>2, <1>3
<1>5. c > q + 2 => q + 1 \in 2 .. c - 2
  BY <1>2
<1>. QED
  BY <1>2, <1>4, <1>5

LEMMA NotAProgram ==
  ASSUME NEW t, ExprStarts(t) = {}
  PROVE  ~IsProgram(t)
BY DEF IsProgram, ProgramTree

LEMMA TheProgram ==
  ASSUME NEW t, NEW c, ExprStarts(t) = {c}
  PROVE  ProgramTree(t) = TreeOn(t, "expr", c, Len(t)) /\ (IsProgram(t) <=> TreeOn(t, "expr", c, Len(t)) # NoTree)
<1>1. (CHOOSE x \in ExprStarts(t) : TRUE) = c /\ ExprStarts(t) # {}
  OBVIOUS
<1>2. ProgramTree(t) = Derive(t)[<<"expr", CHOOSE x \in ExprStarts(t) : TRUE, Len(t)>>]
  BY <1>1 DEF ProgramTree
<1>. QED
  BY <1>1, <1>2 DEF IsProgram, TreeOn

(* A list that breaks off, or is followed by what no list has.             *)
LEMMA NameMissing ==
  ASSUME NEW t, Len(t) \in Nat \ {0}, NEW n \in Nat, Listed(t, 2 * n + 1),
         Len(t) = 2 * n + 1 \/ t[2 * n + 2] # "ident"
  PROVE  ~IsProgram(t)
<1>1. ASSUME NEW c \in ExprStarts(t) PROVE FALSE
  <2>1. /\ c \in 4 .. Len(t) + 1 /\ c % 2 = 0 /\ c >= 2 * n + 3
        /\ c > 2 * n + 3 => t[2 * n + 2] = IF (2 * n + 2) % 2 = 0 THEN "ident" ELSE "comma"
    BY ColonAfterList
  <2>2. (2 * n + 2) % 2 = 0 /\ (2 * n + 3) % 2 # 0
    OBVIOUS
  <2>. QED
    BY <2>1, <2>2
<1>. QED
  BY <1>1, NotAProgram

LEMMA SeparatorMissing ==
  ASSUME NEW t, Len(t) \in Nat \ {0}, NEW n \in Nat \ {0}, Listed(t, 2 * n),
         Len(t) = 2 * n \/ t[2 * n + 1] \notin {"comma", "colon"}
  PROVE  ~IsProgram(t)
<1>1. ASSUME NEW c \in ExprStarts(t) PROVE FALSE
  <2>1. /\ c \in 4 .. Len(t) + 1 /\ c >= 2 * n + 2 /\ t[c - 1] = "colon"
        /\ c > 2 * n + 2 => t[2 * n + 1] = IF (2 * n + 1) % 2 = 0 THEN "ident" ELSE "comma"
    BY ColonAfterList
  <2>2. (2 * n + 1) % 2 # 0
    OBVIOUS
  <2>3. c = 2 * n + 2 => c - 1 = 2 * n + 1
    OBVIOUS
  <2>. QED
    BY <2>1, <2>2, <2>3
<1>. QED
  BY <1>1, NotAProgram

LEMMA ListDone ==
  ASSUME NEW t, Len(t) \in Nat, NEW n \in Nat \ {0}, Listed(t, 2 * n),
         2 * n + 1 <= Len(t), t[2 * n + 1] = "colon"
  PROVE  ExprStarts(t) = {2 * n + 2} /\ Declared(t) = [v \in 1 .. n |-> 2 * v]
<1>. DEFINE c == 2 * n + 2
<1>1. c % 2 = 0 /\ c - 1 = 2 * n + 1 /\ c - 2 = 2 * n /\ (c - 2) \div 2 = n /\ (2 * n + 1) % 2 # 0
  OBVIOUS
<1>2. t # <<>> /\ t[1] = "KW_with"
  BY DEF Listed
<1>3. c \in ExprStarts(t)
  BY <1>1, <1>2 DEF ExprStarts, Listed
<1>4. ASSUME NEW d \in ExprStarts(t) PROVE d = c
  <2>1. /\ d \in 4 .. Len(t) + 1 /\ d >= 2 * n + 2
        /\ d > 2 * n + 2 => t[2 * n + 1] = IF (2 * n + 1) % 2 = 0 THEN "ident" ELSE "comma"
    BY ColonAfterList
  <2>. QED
    BY <1>1, <2>1
<1>5. ExprStarts(t) = {c}
  BY <1>3, <1>4
<1>. HIDE DEF c
<1>6. (CHOOSE x \in ExprStarts(t) : TRUE) = c
  BY <1>5
<1>7. Declared(t) = [v \in 1 .. (c - 2) \div 2 |-> 2 * v]
  BY <1>2, <1>6 DEF Declared
<1>. QED
  BY <1>1, <1>5, <1>7 DEF c

LEMMA NoList ==
  ASSUME NEW t, t = <<>> \/ t[1] # "KW_with"
  PROVE  ExprStarts(t) = {1} /\ Declared(t) = <<>>
BY DEF ExprStarts, Declared

-----------------------------------------------------------------------------
(* Futures of the text.                                                    *)
LEMMA FutureFacts ==
  ASSUME TypeOK, LookaheadIsLast, NEW t, Future(t)
  PROVE  /\ Len(t) \in Nat /\ Seen \in Nat /\ Seen <= Len(t)
         /\ tok # "eoi" => Seen + 1 <= Len(t) /\ t[Seen + 1] = tok /\ Len(input) = Seen + 1
         /\ tok = "eoi" => Len(t) = Seen /\ t = input /\ Len(input) = Seen
<1>1. Len(t) \in Nat /\ Len(input) \in Nat
  BY LenProperties DEF TypeOK, Future
<1>2. tok # "eoi" => Len(input) # 0 /\ input[Len(input)] = tok
  BY EmptySeq DEF TypeOK, LookaheadIsLast
<1>. QED
  BY <1>1, <1>2 DEF Future, Extends, Seen

LEMMA FutureKept ==
  ASSUME TypeOK, TypeOK', LookaheadIsLast, [Next]_pvars, NEW t, Future(t)'
  PROVE  Future(t)
<1>1. Extends(input, input')
  BY StepLexes
<1>2. Len(t) \in Nat /\ Len(input) \in Nat /\ Len(input') \in Nat
  BY LenProperties DEF TypeOK, Future
<1>3. Extends(input, t)
  BY <1>1, <1>2 DEF Extends, Future
<1>4. ASSUME tok = "eoi" PROVE tok' = "eoi" /\ input' = input
  <2>1. CASE Advance
    BY <1>4, <2>1 DEF Advance, NextToken
  <2>2. CASE UNCHANGED <<input, tok>>
    BY <1>4, <2>2
  <2>. QED
    BY <2>1, <2>2
       DEF Next, ParseStep, pvars, lexVars, Error, CalcWith, CalcNoWith, DeclareIdent, DeclareComma,
           DeclareColon, DeclareError, EnterLevel, LevelOperator, LevelReturn, FactorLeaf, FactorParen,
           FactorBadToken, FactorClose, FactorUnclosed, Skip, SkipDone, CalcTail, CalcTailError,
           Recover, RecoverDone, ParseReturn
<1>. QED
  BY <1>3, <1>4 DEF Future

LEMMA ReadAdvances ==
  ASSUME TypeOK, tok # "eoi", Advance
  PROVE  Seen' = Seen + 1
<1>1. Len(input) \in Nat
  BY LenProperties DEF TypeOK
<1>2. ASSUME NEW k \in Kinds, tok' = k, input' = Append(input, k) PROVE Seen' = Seen + 1
  <2>1. k # "eoi"
    BY KindsAssumption
  <2>2. Len(input') = Len(input) + 1
    BY <1>2, AppendExtends DEF TypeOK
  <2>. QED
    BY <1>1, <1>2, <2>1, <2>2 DEF Seen
<1>3. CASE tok' = "eoi" /\ UNCHANGED input
  BY <1>1, <1>3 DEF Seen
<1>. QED
  BY <1>2, <1>3 DEF Advance, NextToken

LEMMA ReadStays ==
  ASSUME UNCHANGED <<input, tok>>
  PROVE  Seen' = Seen
BY DEF Seen

-----------------------------------------------------------------------------
(* Stacks of waiting frames.                                               *)
LEMMA PushPop ==
  ASSUME NEW S, NEW w \in Seq(S), NEW x \in S
  PROVE  LET s == Append(w, x)
         IN  /\ s # <<>> /\ s \in Seq(S) /\ Len(s) = Len(w) + 1 /\ Len(w) \in Nat
             /\ s[Len(s)] = x /\ SubSeq(s, 1, Len(s) - 1) = w
             /\ \A k \in 1 .. Len(w) : s[k] = w[k]
<1>. DEFINE s == Append(w, x)
            r == SubSeq(s, 1, Len(s) - 1)
<1>1. /\ s \in Seq(S) /\ Len(s) = Len(w) + 1 /\ Len(w) \in Nat
      /\ s[Len(w) + 1] = x /\ \A k \in 1 .. Len(w) : s[k] = w[k]
  BY AppendProperties, LenProperties
<1>. HIDE DEF s
<1>2. s # <<>>
  BY <1>1
<1>3. r \in Seq(S) /\ Len(r) = Len(w) /\ \A k \in 1 .. Len(w) : r[k] = s[k]
  BY <1>1, <1>2, StackParts
<1>4. r = w
  <2>. HIDE DEF r
  <2>. QED
    BY <1>1, <1>3, SeqEqual
<1>. QED
  BY <1>1, <1>2, <1>4 DEF s

LEMMA CalledTyped ==
  ASSUME NEW w \in Seq(FrameType), NEW k \in 1 .. Len(w) + 1
  PROVE  Called(w, k) \in Functions
<1>1. CASE k = 1
  BY <1>1 DEF Called, Functions
<1>2. CASE k # 1
  <2>1. k - 1 \in 1 .. Len(w)
    BY <1>2, LenProperties
  <2>2. w[k - 1] \in FrameType
    BY <2>1, ElementOfSeq
  <2>3. w[k - 1].fn \in Functions
    BY <2>2 DEF FrameType
  <2>. QED
    BY <1>2, <2>3, BelowTyped DEF Called, Callee, Functions
<1>. QED
  BY <1>1, <1>2

Pushed(t, h, w, f, j, b) ==
  \E c \in [Nat -> Nat] :
    /\ Chain(t, h, Append(w, f), c)
    /\ c[Len(w) + 2] = j /\ \A k \in 1 .. Len(w) + 1 : c[k] = b[k]

LEMMA ChainPush ==
  ASSUME NEW t, NEW h, NEW w \in Seq(FrameType), NEW b \in [Nat -> Nat], Chain(t, h, w, b),
         NEW f \in FrameType, f.fn = Called(w, Len(w) + 1),
         NEW j \in Nat, Link(t, h, f, b[Len(w) + 1], j)
  PROVE  Pushed(t, h, w, f, j, b)
<1>. DEFINE n == Len(w)
            c == [b EXCEPT ![n + 2] = j]
            s == Append(w, f)
<1>1. /\ n \in Nat /\ Len(s) = n + 1 /\ s[n + 1] = f /\ \A k \in 1 .. n : s[k] = w[k]
  BY PushPop
<1>. HIDE DEF s, n
<1>2. c \in [Nat -> Nat] /\ c[n + 2] = j /\ \A k \in 1 .. n + 1 : c[k] = b[k]
  <2>1. n + 2 \in Nat /\ \A k \in 1 .. n + 1 : k \in Nat /\ k # n + 2
    BY <1>1
  <2>. DEFINE l == n + 2
  <2>. HIDE DEF l
  <2>2. l \in Nat => LET d == [b EXCEPT ![l] = j]
                     IN  d \in [Nat -> Nat] /\ d[l] = j /\ \A k \in Nat : k # l => d[k] = b[k]
    OBVIOUS
  <2>. QED
    BY <2>1, <2>2 DEF l
<1>. HIDE DEF c
<1>3. \A k \in 1 .. n + 1 : Called(s, k) = Called(w, k)
  <2>1. \A k \in 1 .. n + 1 : k = 1 \/ k - 1 \in 1 .. n
    BY <1>1
  <2>. QED
    BY <1>1, <2>1 DEF Called
<1>4. ASSUME NEW k \in 1 .. n + 1
      PROVE  s[k].fn = Called(s, k) /\ Link(t, h, s[k], c[k], c[k + 1])
  <2>1. CASE k = n + 1
    <3>1. k + 1 = n + 2
      BY <1>1, <2>1
    <3>. QED
      BY <1>1, <1>2, <1>3, <2>1, <3>1 DEF n
  <2>2. CASE k # n + 1
    <3>1. k \in 1 .. n /\ k + 1 \in 1 .. n + 1
      BY <1>1, <2>2
    <3>2. w[k].fn = Called(w, k) /\ Link(t, h, w[k], b[k], b[k + 1])
      BY <3>1 DEF Chain, n
    <3>. QED
      BY <1>1, <1>2, <1>3, <3>1, <3>2
  <2>. QED
    BY <2>1, <2>2
<1>5. Chain(t, h, s, c)
  BY <1>1, <1>4 DEF Chain
<1>. QED
  BY <1>2, <1>5 DEF n, s, Pushed

LEMMA ChainPop ==
  ASSUME NEW t, NEW h, NEW w \in Seq(FrameType), NEW f \in FrameType, NEW b,
         Chain(t, h, Append(w, f), b)
  PROVE  /\ Chain(t, h, w, b) /\ f.fn = Called(w, Len(w) + 1)
         /\ Link(t, h, f, b[Len(w) + 1], b[Len(w) + 2])
<1>. DEFINE n == Len(w)
            s == Append(w, f)
<1>1. /\ n \in Nat /\ Len(s) = n + 1 /\ s[n + 1] = f /\ \A k \in 1 .. n : s[k] = w[k]
  BY PushPop
<1>. HIDE DEF s, n
<1>2. \A k \in 1 .. n + 1 : s[k].fn = Called(s, k) /\ Link(t, h, s[k], b[k], b[k + 1])
  BY <1>1 DEF Chain, s
<1>3. \A k \in 1 .. n + 1 : Called(s, k) = Called(w, k)
  <2>1. \A k \in 1 .. n + 1 : k = 1 \/ k - 1 \in 1 .. n
    BY <1>1
  <2>. QED
    BY <1>1, <2>1 DEF Called
<1>4. \A k \in 1 .. n : w[k].fn = Called(w, k) /\ Link(t, h, w[k], b[k], b[k + 1])
  BY <1>1, <1>2, <1>3
<1>5. (n + 1) + 1 = n + 2 /\ n + 1 \in 1 .. n + 1
  BY <1>1
<1>6. f.fn = Called(w, n + 1) /\ Link(t, h, f, b[n + 1], b[n + 2])
  BY <1>1, <1>2, <1>3, <1>5
<1>. QED
  BY <1>4, <1>6 DEF Chain, n

LEMMA CalledOnTop ==
  ASSUME NEW w \in Seq(FrameType), NEW f \in FrameType
  PROVE  Called(Append(w, f), Len(w) + 2) = Callee(f.fn)
<1>. DEFINE n == Len(w)
            s == Append(w, f)
<1>1. n \in Nat /\ s[n + 1] = f
  BY PushPop
<1>. HIDE DEF s, n
<1>2. (n + 2) - 1 = n + 1 /\ n + 2 # 1
  BY <1>1
<1>3. Called(s, n + 2) = Callee(s[n + 1].fn)
  BY <1>2 DEF Called
<1>. QED
  BY <1>1, <1>3 DEF n, s

LEMMA ChainGrows ==
  ASSUME NEW t, NEW h, NEW g, Acyclic(h), Acyclic(g), Extends(h, g),
         NEW w \in Seq(FrameType), LeftsIn(w, h), NEW b, Chain(t, h, w, b)
  PROVE  Chain(t, g, w, b)
<1>. SUFFICES ASSUME NEW k \in 1 .. Len(w)
              PROVE  w[k].fn = Called(w, k) /\ Link(t, g, w[k], b[k], b[k + 1])
  BY DEF Chain
<1>1. w[k].fn = Called(w, k) /\ Link(t, h, w[k], b[k], b[k + 1])
  BY DEF Chain
<1>2. w[k] \in FrameType
  BY ElementOfSeq
<1>3. w[k].left \in 0 .. Len(h)
  BY <1>2 DEF LeftsIn, FrameType, Acyclic
<1>4. Unfold(g, w[k].left) = Unfold(h, w[k].left)
  BY <1>3, UnfoldGrows
<1>. QED
  BY <1>1, <1>4 DEF Link

-----------------------------------------------------------------------------
(* What the invariant says where a function is called, and where one has   *)
(* returned to the frame on top.                                           *)
EnteredAt(t, b, w) ==
  LET m == Len(w) + 1 IN
  /\ w \in Seq(FrameType) /\ m \in Nat \ {0} /\ stack = Append(w, Top)
  /\ Top \in FrameType /\ Top = Frame(Called(w, m)) /\ Top.fn = Called(w, m)
  /\ LeftsIn(w, heap) /\ StartsAt(t, vars, b) /\ InRange(w, b, Seen) /\ Chain(t, heap, w, b)
  /\ b[m] = Seen + 1
  /\ Seen + 1 = b[1] \/ t[Seen] \notin Enders

LEMMA Entered ==
  ASSUME TypeOK, Shape, pc = "enter", stack # <<>>, NEW t, NEW b, Within(t, b)
  PROVE  EnteredAt(t, b, Rest)
<1>1. /\ Rest \in Seq(FrameType) /\ Len(Rest) + 1 \in Nat \ {0} /\ stack = Append(Rest, Top)
      /\ Top \in FrameType
  BY StackIsTopOnRest, TopTyped, LenProperties DEF TypeOK, Top, Rest
<1>2. LeftsIn(Rest, heap)
  BY LeftsPopped DEF Shape, PointersInHeap, LeftsIn
<1>3. /\ StartsAt(t, vars, b) /\ InRange(Rest, b, Seen) /\ Chain(t, heap, Rest, b)
      /\ stack = Append(Rest, Frame(Called(Rest, Len(Rest) + 1)))
      /\ b[Len(Rest) + 1] = Seen + 1
      /\ Seen + 1 = b[1] \/ t[Seen] \notin Enders
  BY DEF Within, Waiting, Entering
<1>. DEFINE w == Rest
            f == Frame(Called(w, Len(w) + 1))
<1>4. f \in FrameType /\ f.fn = Called(w, Len(w) + 1)
  <2>1. Called(w, Len(w) + 1) \in Functions
    <3>1. Len(w) + 1 \in 1 .. Len(w) + 1
      BY <1>1
    <3>. QED
      BY <1>1, <3>1, CalledTyped
  <2>. QED
    BY <2>1, FrameTyped DEF Frame
<1>5. Top = f
  <2>. HIDE DEF f
  <2>1. stack = Append(w, f) /\ w \in Seq(FrameType)
    BY <1>1, <1>3 DEF f
  <2>. HIDE DEF w
  <2>2. stack[Len(stack)] = f
    BY <1>4, <2>1, PushPop
  <2>. QED
    BY <2>2 DEF Top
<1>. QED
  BY <1>1, <1>2, <1>3, <1>4, <1>5 DEF EnteredAt

ResumedAt(t, b, w) ==
  LET n == Len(w) + 1 IN
  /\ w \in Seq(FrameType) /\ n \in Nat \ {0} /\ stack = Append(w, Top)
  /\ Top \in FrameType /\ Top.fn = Called(w, n)
  /\ LeftsIn(w, heap) /\ StartsAt(t, vars, b) /\ InRange(w, b, Seen) /\ Chain(t, heap, w, b)
  /\ Link(t, heap, Top, b[n], b[n + 1])
  /\ b[n] \in b[1] .. Seen + 1 /\ b[n + 1] \in b[1] .. Seen + 1
  /\ TreeOn(t, Callee(Top.fn), b[n + 1], Seen) = Unfold(heap, ret)
  /\ TreeOn(t, Callee(Top.fn), b[n + 1], Seen) # NoTree
  /\ tok \in Operators => tok \in Loud(Callee(Top.fn))

LEMMA Resumed ==
  ASSUME TypeOK, Shape, pc = "resume", stack # <<>>, NEW t, NEW b, Within(t, b)
  PROVE  ResumedAt(t, b, Rest)
<1>. DEFINE w == Rest
            n == Len(w) + 1
            f == Top
<1>1. /\ w \in Seq(FrameType) /\ n \in Nat \ {0} /\ stack = Append(w, f)
      /\ f \in FrameType /\ Len(w) \in Nat
  BY StackIsTopOnRest, TopTyped, LenProperties DEF TypeOK, Top, Rest
<1>2. LeftsIn(w, heap)
  BY LeftsPopped DEF Shape, PointersInHeap, LeftsIn
<1>3. /\ StartsAt(t, vars, b) /\ InRange(stack, b, Seen) /\ Chain(t, heap, stack, b)
      /\ TreeOn(t, Called(stack, Len(stack) + 1), b[Len(stack) + 1], Seen) = Unfold(heap, ret)
      /\ TreeOn(t, Called(stack, Len(stack) + 1), b[Len(stack) + 1], Seen) # NoTree
      /\ tok \in Operators => tok \in Loud(Called(stack, Len(stack) + 1))
  BY DEF Within, Waiting, Resuming
<1>. HIDE DEF w, f
<1>4. Len(stack) = n /\ Len(stack) + 1 = Len(w) + 2 /\ n + 1 = Len(w) + 2
  BY <1>1, PushPop
<1>5. Called(stack, Len(stack) + 1) = Callee(f.fn)
  BY <1>1, <1>4, CalledOnTop
<1>6. Chain(t, heap, w, b) /\ f.fn = Called(w, n) /\ Link(t, heap, f, b[n], b[n + 1])
  BY <1>1, <1>3, <1>4, ChainPop
<1>7. \A k \in 1 .. n + 1 : b[k] \in b[1] .. Seen + 1
  BY <1>3, <1>4 DEF InRange
<1>8. InRange(w, b, Seen) /\ b[n] \in b[1] .. Seen + 1 /\ b[n + 1] \in b[1] .. Seen + 1
  <2>1. n \in 1 .. n + 1 /\ n + 1 \in 1 .. n + 1 /\ \A k \in 1 .. Len(w) + 1 : k \in 1 .. n + 1
    BY <1>1
  <2>. QED
    BY <1>7, <2>1 DEF InRange
<1>. QED
  BY <1>1, <1>2, <1>3, <1>4, <1>5, <1>6, <1>8 DEF ResumedAt, w, f

(* The invariant after a call, and after a return.                         *)
LEMMA BodyEnters ==
  ASSUME NEW t, NEW w \in Seq(FrameType), NEW c \in [Nat -> Nat], err' = FALSE, pc' = "enter",
         stack' = Append(w, Frame(Called(w, Len(w) + 1))),
         StartsAt(t, vars', c), InRange(w, c, Seen'), Chain(t, heap', w, c),
         c[Len(w) + 1] = Seen' + 1, Seen' + 1 = c[1] \/ t[Seen'] \notin Enders
  PROVE  Reads(t)'
<1>. DEFINE f == Frame(Called(w, Len(w) + 1))
<1>1. Rest' = w
  <2>1. Len(w) + 1 \in 1 .. Len(w) + 1
    BY LenProperties
  <2>2. f \in FrameType
    BY <2>1, CalledTyped, FrameTyped
  <2>. HIDE DEF f
  <2>3. SubSeq(Append(w, f), 1, Len(Append(w, f)) - 1) = w
    BY <2>2, PushPop
  <2>. QED
    BY <2>3 DEF Rest, f
<1>2. Within(t, c)'
  BY <1>1 DEF Within, Waiting, Entering
<1>. QED
  BY <1>2 DEF Reads

LEMMA BodyResumes ==
  ASSUME NEW t, NEW w, NEW c \in [Nat -> Nat], err' = FALSE, pc' = "resume", stack' = w,
         StartsAt(t, vars', c), InRange(w, c, Seen'), Chain(t, heap', w, c),
         TreeOn(t, Called(w, Len(w) + 1), c[Len(w) + 1], Seen') = Unfold(heap', ret'),
         TreeOn(t, Called(w, Len(w) + 1), c[Len(w) + 1], Seen') # NoTree,
         tok' \in Operators => tok' \in Loud(Called(w, Len(w) + 1))
  PROVE  Reads(t)'
<1>1. Within(t, c)'
  BY DEF Within, Waiting, Resuming
<1>. QED
  BY <1>1 DEF Reads

LEMMA BodyBegins ==
  ASSUME NEW t, err' = FALSE, pc' = "enter", stack' = <<Frame("expr")>>, Seen' \in Nat,
         ExprStarts(t) = {Seen' + 1}, Declared(t) = vars'
  PROVE  Reads(t)'
<1>. DEFINE r == Seen' + 1
            c == [n \in Nat |-> r]
            w == <<>>
<1>0. r \in Nat \ {0}
  <2>1. \A n \in Nat : n + 1 \in Nat \ {0}
    OBVIOUS
  <2>. QED
    BY <2>1
<1>1. w \in Seq(FrameType) /\ Len(w) = 0
  BY EmptySeq
<1>2. c \in [Nat -> Nat] /\ c[1] = Seen' + 1 /\ c[Len(w) + 1] = Seen' + 1
  <2>. HIDE DEF r
  <2>1. c \in [Nat -> Nat] /\ c[1] = r /\ c[Len(w) + 1] = r
    BY <1>0, <1>1
  <2>. QED
    BY <2>1 DEF r
<1>3. stack' = Append(w, Frame(Called(w, Len(w) + 1)))
  BY <1>1 DEF Called
<1>4. Chain(t, heap', w, c)
  BY <1>1 DEF Chain
<1>5. InRange(w, c, Seen')
  BY <1>1, <1>2 DEF InRange
<1>. HIDE DEF c
<1>6. StartsAt(t, vars', c)
  BY <1>0, <1>2 DEF StartsAt
<1>. HIDE DEF w
<1>. QED
  BY <1>1, <1>2, <1>3, <1>4, <1>5, <1>6, BodyEnters

-----------------------------------------------------------------------------
(* The steps of a parser that has met no error.                            *)
Going(t) ==
  /\ Typed /\ TypeOK /\ TypeOK' /\ Shape /\ Shape' /\ Future(t) /\ Reads(t)
  /\ err = FALSE

LEMMA GoingHeaps ==
  ASSUME NEW t, Going(t)
  PROVE  Acyclic(heap) /\ Acyclic(heap') /\ Len(heap) \in Nat
<1>1. heap \in Seq(NodeType) /\ \A n \in 1 .. Len(heap) : WellMade(input, heap[n], n)
  BY DEF Going, TypeOK, Shape, HeapIsMade
<1>2. heap' \in Seq(NodeType) /\ \A n \in 1 .. Len(heap') : WellMade(input', heap'[n], n)
  BY DEF Going, TypeOK, Shape, HeapIsMade
<1>. QED
  BY <1>1, <1>2, MadeAcyclic

LEMMA GoingReads ==
  ASSUME NEW t, Going(t)
  PROVE  /\ Len(t) \in Nat /\ Seen \in Nat /\ Seen <= Len(t)
         /\ tok # "eoi" => Seen + 1 <= Len(t) /\ t[Seen + 1] = tok /\ Len(input) = Seen + 1
         /\ tok = "eoi" => Len(t) = Seen /\ t = input /\ Len(input) = Seen
         /\ tok # "eoi" /\ Advance => Seen' = Seen + 1
         /\ UNCHANGED <<input, tok>> => Seen' = Seen
BY FutureFacts, ReadAdvances, ReadStays DEF Going, Shape

(* The two calls of parseExpr from parseCalc.                              *)
LEMMA StepNoWith ==
  ASSUME NEW t, Going(t), CalcNoWith
  PROVE  Reads(t)'
<1>1. /\ Seen = 0 /\ vars = <<>> /\ vars' = vars /\ pc' = "enter" /\ stack' = <<Frame("expr")>>
      /\ tok # "KW_with" /\ Seen' = Seen /\ err' = FALSE
  BY GoingReads DEF CalcNoWith, CallExpr, lexVars, Going, Reads
<1>2. t = <<>> \/ t[1] # "KW_with"
  <2>1. CASE tok = "eoi"
    <3>1. t \in Seq(TokenKinds) /\ Len(t) = 0
      BY <1>1, <2>1, GoingReads DEF Going, Future
    <3>. QED
      BY <3>1, EmptySeq
  <2>2. CASE tok # "eoi"
    <3>1. t[0 + 1] = tok
      BY <1>1, <2>2, GoingReads
    <3>. QED
      BY <1>1, <3>1
  <2>. QED
    BY <2>1, <2>2
<1>3. ExprStarts(t) = {1} /\ Declared(t) = <<>>
  BY <1>2, NoList
<1>4. Seen' \in Nat /\ Seen' + 1 = 1
  BY <1>1
<1>. QED
  BY <1>1, <1>3, <1>4, BodyBegins

(* The variable list, token by token.                                      *)
LEMMA StepWith ==
  ASSUME NEW t, Going(t), CalcWith
  PROVE  Reads(t)'
<1>1. /\ Seen = 0 /\ vars = <<>> /\ vars' = vars /\ pc' = "declare" /\ tok = "KW_with"
      /\ Seen' = Seen + 1 /\ err' = FALSE /\ t[Seen + 1] = tok
  BY GoingReads DEF CalcWith, Going, Reads
<1>2. Seen' = 1 /\ t[1] = "KW_with" /\ Len(vars') = 0
  BY <1>1
<1>3. ListRead(t)'
  BY <1>1, <1>2 DEF ListRead
<1>. QED
  BY <1>1, <1>3 DEF Reads

(* The token after a list's prefix continues it.                           *)
LEMMA ListGrows ==
  ASSUME NEW t, NEW q \in Nat, q >= 1, Listed(t, q),
         t[q + 1] = IF (q + 1) % 2 = 0 THEN "ident" ELSE "comma"
  PROVE  Listed(t, q + 1)
<1>1. \A p \in 2 .. q + 1 : p \in 2 .. q \/ p = q + 1
  OBVIOUS
<1>. QED
  BY <1>1 DEF Listed

LEMMA ReadList ==
  ASSUME TypeOK, NEW t, ListRead(t)
  PROVE  /\ Len(vars) \in Nat /\ Listed(t, Seen)
         /\ Seen = IF pc = "declare" THEN 2 * Len(vars) + 1 ELSE 2 * Len(vars)
         /\ pc = "declared" => Len(vars) \in Nat \ {0}
<1>1. Len(vars) \in Nat /\ (vars # <<>> => Len(vars) # 0)
  BY LenProperties, EmptySeq DEF TypeOK
<1>. QED
  BY <1>1 DEF ListRead, Listed

LEMMA StepIdent ==
  ASSUME NEW t, Going(t), DeclareIdent
  PROVE  Reads(t)'
<1>. DEFINE n == Len(vars)
            q == Seen
<1>1. /\ pc = "declare" /\ ListRead(t) /\ vars' = Append(vars, Len(input)) /\ pc' = "declared" /\ tok = "ident"
      /\ Seen' = q + 1 /\ err' = FALSE /\ t[q + 1] = tok /\ q \in Nat /\ Len(input) = q + 1
      /\ vars \in Seq(Nat) /\ TypeOK
  BY GoingReads DEF DeclareIdent, Going, Reads, TypeOK
<1>2. n \in Nat /\ Listed(t, q) /\ q = 2 * n + 1
  BY <1>1, ReadList
<1>3. \A v \in 1 .. n : vars[v] = 2 * v
  BY <1>1 DEF ListRead
<1>. HIDE DEF q
<1>4. /\ Len(vars') = n + 1 /\ vars'[n + 1] = q + 1 /\ \A v \in 1 .. n : vars'[v] = vars[v]
      /\ vars' # <<>>
  <2>1. q + 1 \in Nat
    BY <1>1
  <2>2. /\ Len(Append(vars, q + 1)) = n + 1 /\ Append(vars, q + 1)[n + 1] = q + 1
        /\ \A v \in 1 .. n : Append(vars, q + 1)[v] = vars[v]
        /\ Append(vars, q + 1) # <<>>
    BY <1>1, <2>1, PushPop, AppendProperties
  <2>. QED
    BY <1>1, <2>2
<1>. HIDE DEF n
<1>5. (q + 1) % 2 = 0 /\ q + 1 = 2 * (n + 1) /\ q >= 1
  BY <1>2
<1>6. Listed(t, q + 1)
  BY <1>1, <1>2, <1>5, ListGrows
<1>7. \A v \in 1 .. n + 1 : v \in 1 .. n \/ v = n + 1
  BY <1>2
<1>8. \A v \in 1 .. Len(vars') : vars'[v] = 2 * v
  BY <1>3, <1>4, <1>5, <1>7
<1>9. ListRead(t)'
  BY <1>1, <1>4, <1>5, <1>6, <1>8 DEF ListRead, Listed
<1>. QED
  BY <1>1, <1>9 DEF Reads

LEMMA StepComma ==
  ASSUME NEW t, Going(t), DeclareComma
  PROVE  Reads(t)'
<1>. DEFINE n == Len(vars)
            q == Seen
<1>1. /\ pc = "declared" /\ ListRead(t) /\ vars' = vars /\ pc' = "declare" /\ tok = "comma"
      /\ Seen' = q + 1 /\ err' = FALSE /\ t[q + 1] = tok /\ q \in Nat /\ TypeOK
  BY GoingReads DEF DeclareComma, Going, Reads
<1>2. n \in Nat \ {0} /\ Listed(t, q) /\ q = 2 * n
  BY <1>1, ReadList
<1>3. \A v \in 1 .. n : vars[v] = 2 * v
  BY <1>1 DEF ListRead
<1>. HIDE DEF q
<1>4. (q + 1) % 2 # 0 /\ q >= 1
  BY <1>2
<1>5. Listed(t, q + 1)
  BY <1>1, <1>2, <1>4, ListGrows
<1>6. ListRead(t)'
  BY <1>1, <1>2, <1>3, <1>5 DEF ListRead, Listed
<1>. QED
  BY <1>1, <1>6 DEF Reads

LEMMA StepColon ==
  ASSUME NEW t, Going(t), DeclareColon
  PROVE  Reads(t)'
<1>. DEFINE n == Len(vars)
            q == Seen
<1>1. /\ pc = "declared" /\ ListRead(t) /\ vars' = vars /\ pc' = "enter" /\ stack' = <<Frame("expr")>>
      /\ tok = "colon" /\ Seen' = q + 1 /\ err' = FALSE /\ t[q + 1] = tok /\ q \in Nat /\ q + 1 <= Len(t)
      /\ TypeOK /\ vars \in Seq(Nat) /\ Len(t) \in Nat
  BY GoingReads DEF DeclareColon, CallExpr, Going, Reads, TypeOK
<1>2. n \in Nat \ {0} /\ Listed(t, q) /\ q = 2 * n
  BY <1>1, ReadList
<1>3. vars = [v \in 1 .. n |-> 2 * v]
  <2>1. vars = [v \in 1 .. n |-> vars[v]]
    BY <1>1
  <2>2. \A v \in 1 .. n : vars[v] = 2 * v
    BY <1>1 DEF ListRead
  <2>. QED
    BY <2>1, <2>2
<1>. HIDE DEF q, n
<1>4. ExprStarts(t) = {2 * n + 2} /\ Declared(t) = vars
  BY <1>1, <1>2, <1>3, ListDone
<1>5. Seen' \in Nat /\ Seen' + 1 = 2 * n + 2
  BY <1>1, <1>2
<1>. QED
  BY <1>1, <1>4, <1>5, BodyBegins

-----------------------------------------------------------------------------
(* A call of the level below: its operand begins where the caller began.   *)
LEMMA StepEnterLevel ==
  ASSUME NEW t, Going(t), EnterLevel
  PROVE  Reads(t)'
<1>. DEFINE w == Rest
            m == Len(w) + 1
            f == Top
<1>1. /\ pc = "enter" /\ stack # <<>> /\ TypeOK /\ Shape
      /\ f.fn # "factor" /\ stack' = Append(stack, Frame(Below(f.fn)))
      /\ pc' = "enter" /\ err' = FALSE /\ vars' = vars /\ heap' = heap
      /\ Seen' = Seen /\ Seen \in Nat
      /\ \E b \in [Nat -> Nat] : Within(t, b)
  BY GoingReads DEF EnterLevel, Going, Reads, Typed, FrameWhenRunning, lexVars
<1>2. PICK b \in [Nat -> Nat] : Within(t, b)
  BY <1>1
<1>3. EnteredAt(t, b, w)
  BY <1>1, <1>2, Entered
<1>. HIDE DEF w, f
<1>4. /\ w \in Seq(FrameType) /\ m \in Nat \ {0} /\ stack = Append(w, f)
      /\ f \in FrameType /\ f = Frame(Called(w, m)) /\ f.fn = Called(w, m)
      /\ StartsAt(t, vars, b) /\ InRange(w, b, Seen) /\ Chain(t, heap, w, b)
      /\ b[m] = Seen + 1
      /\ Seen + 1 = b[1] \/ t[Seen] \notin Enders
  BY <1>3 DEF EnteredAt, w, f
<1>. DEFINE s == Append(w, f)
<1>5. s \in Seq(FrameType) /\ Len(s) + 1 = Len(w) + 2 /\ Len(w) \in Nat
  BY <1>4, PushPop
<1>6. Called(s, Len(s) + 1) = Below(f.fn)
  BY <1>1, <1>4, <1>5, CalledOnTop DEF Callee
<1>7. Link(t, heap, f, b[m], b[m])
  BY <1>1, <1>4 DEF Link, Frame
<1>8. PICK c \in [Nat -> Nat] :
        Chain(t, heap, s, c) /\ c[Len(w) + 2] = b[m] /\ \A k \in 1 .. Len(w) + 1 : c[k] = b[k]
  <2>1. b[m] \in Nat
    BY <1>4
  <2>2. Pushed(t, heap, w, f, b[m], b)
    BY <1>4, <1>7, <2>1, ChainPush
  <2>. QED
    BY <2>2 DEF Pushed
<1>. HIDE DEF s
<1>9. /\ c[1] = b[1] /\ c[Len(s) + 1] = Seen + 1 /\ b[1] \in Nat
      /\ \A k \in 1 .. Len(w) + 1 : b[k] \in b[1] .. Seen + 1
  BY <1>4, <1>5, <1>8 DEF InRange, StartsAt
<1>10. InRange(s, c, Seen)
  <2>1. \A k \in 1 .. Len(s) + 1 : k \in 1 .. Len(w) + 1 \/ k = Len(s) + 1
    BY <1>5
  <2>2. Seen + 1 \in b[1] .. Seen + 1
    <3>1. m \in 1 .. Len(w) + 1
      BY <1>5
    <3>. QED
      BY <1>4, <1>9, <3>1
  <2>. QED
    BY <1>8, <1>9, <2>1, <2>2 DEF InRange
<1>11. StartsAt(t, vars', c)
  BY <1>1, <1>4, <1>9 DEF StartsAt
<1>. QED
  BY <1>1, <1>4, <1>5, <1>6, <1>8, <1>9, <1>10, <1>11, BodyEnters DEF s

(* An opening parenthesis: the factor waits for the expression after it.   *)
LEMMA StepParen ==
  ASSUME NEW t, Going(t), FactorParen
  PROVE  Reads(t)'
<1>. DEFINE w == Rest
            m == Len(w) + 1
            f == Top
            q == Seen
<1>1. /\ pc = "enter" /\ stack # <<>> /\ TypeOK /\ Shape
      /\ f.fn = "factor" /\ tok = "l_paren" /\ stack' = Append(stack, Frame("expr"))
      /\ pc' = "enter" /\ err' = FALSE /\ vars' = vars /\ heap' = heap
      /\ Seen' = q + 1 /\ q \in Nat /\ t[q + 1] = tok
      /\ \E b \in [Nat -> Nat] : Within(t, b)
  BY GoingReads DEF FactorParen, Going, Reads, Typed, FrameWhenRunning
<1>2. PICK b \in [Nat -> Nat] : Within(t, b)
  BY <1>1
<1>3. EnteredAt(t, b, w)
  BY <1>1, <1>2, Entered
<1>. HIDE DEF w, f
<1>4. /\ w \in Seq(FrameType) /\ m \in Nat \ {0} /\ stack = Append(w, f)
      /\ f \in FrameType /\ f.fn = Called(w, m)
      /\ StartsAt(t, vars, b) /\ InRange(w, b, q) /\ Chain(t, heap, w, b)
      /\ b[m] = q + 1
  BY <1>3 DEF EnteredAt, w, f
<1>. HIDE DEF q
<1>. DEFINE s == Append(w, f)
            j == q + 2
<1>5. s \in Seq(FrameType) /\ Len(s) + 1 = Len(w) + 2 /\ Len(w) \in Nat /\ j \in Nat
  <2>1. s \in Seq(FrameType) /\ Len(s) = Len(w) + 1 /\ Len(w) \in Nat
    BY <1>4, PushPop
  <2>. HIDE DEF s
  <2>. QED
    BY <1>1, <2>1
<1>6. Called(s, Len(s) + 1) = "expr"
  BY <1>1, <1>4, <1>5, CalledOnTop DEF Callee
<1>7. Link(t, heap, f, b[m], j)
  BY <1>1, <1>4 DEF Link
<1>. HIDE DEF j
<1>8. PICK c \in [Nat -> Nat] :
        Chain(t, heap, s, c) /\ c[Len(w) + 2] = j /\ \A k \in 1 .. Len(w) + 1 : c[k] = b[k]
  <2>1. Pushed(t, heap, w, f, j, b)
    BY <1>4, <1>5, <1>7, ChainPush
  <2>. QED
    BY <2>1 DEF Pushed
<1>. HIDE DEF s
<1>9. /\ c[1] = b[1] /\ c[Len(s) + 1] = j /\ b[1] \in Nat /\ b[1] <= q + 1
      /\ \A k \in 1 .. Len(w) + 1 : b[k] \in b[1] .. q + 1
  <2>1. 1 \in 1 .. Len(w) + 1
    BY <1>5
  <2>. QED
    BY <1>4, <1>5, <1>8, <2>1 DEF InRange, StartsAt
<1>10. InRange(s, c, q + 1)
  <2>1. \A k \in 1 .. Len(s) + 1 : k \in 1 .. Len(w) + 1 \/ k = Len(s) + 1
    BY <1>5
  <2>2. j \in b[1] .. (q + 1) + 1 /\ \A x \in b[1] .. q + 1 : x \in b[1] .. (q + 1) + 1
    <3>1. q \in Nat /\ b[1] \in Nat /\ b[1] <= q + 1
      BY <1>1, <1>9
    <3>. QED
      BY <3>1 DEF j
  <2>. QED
    BY <1>8, <1>9, <2>1, <2>2 DEF InRange
<1>11. StartsAt(t, vars', c)
  BY <1>1, <1>4, <1>9 DEF StartsAt
<1>12. t[Seen'] \notin Enders /\ c[Len(s) + 1] = Seen' + 1
  BY <1>1, <1>9 DEF Enders, j
<1>. QED
  BY <1>1, <1>4, <1>5, <1>6, <1>8, <1>10, <1>11, <1>12, BodyEnters DEF s

(* A name or a number is a factor.                                         *)
LEMMA StepLeaf ==
  ASSUME NEW t, Going(t), FactorLeaf
  PROVE  Reads(t)'
<1>. DEFINE w == Rest
            m == Len(w) + 1
            f == Top
            q == Seen
            x == FactorNode(Len(input))
<1>1. /\ pc = "enter" /\ stack # <<>> /\ TypeOK /\ Shape
      /\ f.fn = "factor" /\ tok \in {"number", "ident"} /\ stack' = w
      /\ pc' = "resume" /\ err' = FALSE /\ vars' = vars /\ heap' = Append(heap, x) /\ ret' = Len(heap) + 1
      /\ Seen' = q + 1 /\ q \in Nat /\ t[q + 1] = tok /\ Len(input) = q + 1 /\ q + 1 <= Len(t)
      /\ Len(t) \in Nat /\ heap \in Seq(NodeType) /\ Acyclic(heap) /\ Acyclic(heap')
      /\ \E b \in [Nat -> Nat] : Within(t, b)
  BY GoingReads, GoingHeaps DEF FactorLeaf, Return, Going, Reads, Typed, FrameWhenRunning, TypeOK
<1>2. PICK b \in [Nat -> Nat] : Within(t, b)
  BY <1>1
<1>3. EnteredAt(t, b, w)
  BY <1>1, <1>2, Entered
<1>. HIDE DEF w, f
<1>4. /\ w \in Seq(FrameType) /\ m \in Nat \ {0} /\ Len(w) \in Nat
      /\ f.fn = Called(w, m) /\ LeftsIn(w, heap)
      /\ StartsAt(t, vars, b) /\ InRange(w, b, q) /\ Chain(t, heap, w, b)
      /\ b[m] = q + 1
  BY <1>3, LenProperties DEF EnteredAt, w, f
<1>. HIDE DEF q
<1>5. /\ Extends(heap, heap') /\ Len(heap') = Len(heap) + 1 /\ Len(heap) \in Nat
      /\ heap'[Len(heap) + 1] = x
  <2>1. x \in NodeType
    <3>1. Len(input) \in Nat
      BY <1>1
    <3>. QED
      BY <3>1 DEF FactorNode, NodeType, Null
  <2>. QED
    BY <1>1, <2>1, AppendExtends
<1>6. Chain(t, heap', w, b)
  BY <1>1, <1>4, <1>5, ChainGrows
<1>7. Unfold(heap', ret') = Leaf(q + 1)
  <2>1. ret' \in 0 .. Len(heap') /\ ret' # 0 /\ heap'[ret'] = x
    <3>1. ret' = Len(heap) + 1
      BY <1>1
    <3>. HIDE DEF x
    <3>. QED
      BY <1>5, <3>1
  <2>2. x.kind = "Factor" /\ x.vals[1] = q + 1
    BY <1>1 DEF FactorNode
  <2>. HIDE DEF x
  <2>. QED
    BY <1>1, <2>1, <2>2, UnfoldIs
<1>8. TreeOn(t, "factor", q + 1, q + 1) = Leaf(q + 1) /\ Leaf(q + 1) # NoTree
  <2>. DEFINE i == q + 1
  <2>1. i \in 1 .. Len(t) /\ t[i] \in {"ident", "number"}
    BY <1>1
  <2>. HIDE DEF i
  <2>2. TreeOn(t, "factor", i, i) = Leaf(i) /\ Leaf(i) # NoTree
    BY <1>1, <2>1, LeafRule
  <2>. QED
    BY <2>2 DEF i
<1>9. InRange(w, b, q + 1)
  <2>1. \A k \in 1 .. Len(w) + 1 : b[k] \in Nat
    BY <1>4
  <2>2. \A y \in Nat : y \in b[1] .. q + 1 => y \in b[1] .. (q + 1) + 1
    BY <1>1
  <2>. QED
    BY <1>4, <2>1, <2>2 DEF InRange
<1>10. Operators = Loud("factor")
  BY DEF Operators, Loud
<1>. QED
  BY <1>1, <1>4, <1>6, <1>7, <1>8, <1>9, <1>10, BodyResumes

-----------------------------------------------------------------------------
(* The operand that was returned, joined to what is left of it, is the     *)
(* tree of all the level has read.                                         *)
LEMMA TreeNotEmpty == \A o, l, r : Tree(o, l, r) # NoTree
BY DEF Tree, NoTree

LEMMA LevelJoined ==
  ASSUME NEW t, Going(t), NEW b, pc = "resume", stack # <<>>, ResumedAt(t, b, Rest), Top.fn # "factor",
         Acyclic(JoinedHeap)
  PROVE  LET i == b[Len(Rest) + 1]
         IN /\ TreeOn(t, Top.fn, i, Seen) = Unfold(JoinedHeap, Joined)
            /\ TreeOn(t, Top.fn, i, Seen) # NoTree
            /\ i <= Seen /\ Extends(heap, JoinedHeap)
<1>. DEFINE n == Len(Rest) + 1
            i == b[n]
            j == b[n + 1]
            q == Seen
            f == Top
            nt == f.fn
<1>1. /\ f \in FrameType /\ b[1] \in Nat \ {0}
      /\ Link(t, heap, f, i, j)
      /\ i \in b[1] .. q + 1 /\ j \in b[1] .. q + 1
      /\ TreeOn(t, Callee(nt), j, q) = Unfold(heap, ret)
      /\ TreeOn(t, Callee(nt), j, q) # NoTree
  BY DEF ResumedAt, StartsAt
<1>2. /\ Len(t) \in Nat /\ q \in Nat /\ q <= Len(t) /\ Acyclic(heap) /\ heap \in Seq(NodeType) /\ Len(heap) \in Nat
      /\ ret \in Nat /\ ret <= Len(heap) /\ f.left <= Len(heap)
  <2>1. LeftsIn(stack, heap) /\ TypeOK
    BY DEF Going, Shape, PointersInHeap, LeftsIn
  <2>. QED
    BY <2>1, LeftsPopped, GoingReads, GoingHeaps DEF Going, TypeOK, Shape, PointersInHeap
<1>3. nt \in {"expr", "term"} /\ Callee(nt) = Below(nt) /\ Below(nt) \in Nonterminals
      /\ f.left \in Nat /\ f.op \in Operators \cup {NoOp}
  BY <1>1 DEF FrameType, Functions, Callee, Below, Nonterminals
<1>. HIDE DEF i, j, q, f, n
<1>4. i \in 1 .. Len(t) + 1 /\ j \in 1 .. Len(t) + 1 /\ q \in 0 .. Len(t)
  BY <1>1, <1>2
<1>5. Sentence(t, Depth(t), Below(nt), j, q)
  BY <1>1, <1>2, <1>3, <1>4, TreeSentence
<1>6. j <= q
  BY <1>5 DEF Sentence
<1>7. CASE f.op = NoOp
  <2>1. j = i /\ JoinedHeap = heap /\ Joined = ret
    BY <1>1, <1>3, <1>7 DEF Link, JoinedHeap, Joined, f
  <2>2. TreeOn(t, nt, i, q) = TreeOn(t, Below(nt), i, q)
    BY <1>1, <1>2, <1>3, <1>4, <2>1, LevelRule
  <2>3. Extends(heap, JoinedHeap)
    BY <1>2, <2>1, ExtendsItself
  <2>. QED
    BY <1>1, <1>3, <1>6, <2>1, <2>2, <2>3 DEF i, j, q, f, n
<1>8. CASE f.op # NoOp
  <2>. DEFINE k == j - 1
              x == BinaryNode(f.op, f.left, ret)
              g == JoinedHeap
  <2>1. /\ i <= j - 2 /\ f.op \in LevelOps(nt) /\ t[k] = f.op
        /\ TreeOn(t, nt, i, j - 2) = Unfold(heap, f.left)
        /\ TreeOn(t, nt, i, j - 2) # NoTree
    BY <1>1, <1>3, <1>8 DEF Link
  <2>2. k \in i + 1 .. q - 1 /\ k - 1 = j - 2 /\ k + 1 = j
    BY <1>4, <1>6, <2>1
  <2>3. TreeOn(t, nt, i, q) = Tree(t[k], TreeOn(t, nt, i, k - 1), TreeOn(t, Below(nt), k + 1, q))
    <3>1. TreeOn(t, nt, i, k - 1) # NoTree /\ TreeOn(t, Below(nt), k + 1, q) # NoTree
      BY <1>1, <1>3, <2>1, <2>2
    <3>. HIDE DEF k
    <3>. QED
      BY <1>2, <1>3, <1>4, <2>1, <2>2, <3>1, SplitRule
  <2>4. TreeOn(t, nt, i, q) = Tree(f.op, Unfold(heap, f.left), Unfold(heap, ret))
    BY <1>1, <1>3, <2>1, <2>2, <2>3
  <2>5. g = Append(heap, x) /\ Joined = Len(heap) + 1
    BY <1>8 DEF JoinedHeap, Joined, f
  <2>6. x \in NodeType /\ x.kind = "BinaryOp" /\ x.op = f.op /\ x.left = f.left /\ x.right = ret
    BY <1>2, <1>3, EmptySeq DEF BinaryNode, NodeType
  <2>. HIDE DEF x, g, k
  <2>7. Extends(heap, g) /\ Len(g) = Len(heap) + 1 /\ g[Len(heap) + 1] = x
    BY <1>2, <2>5, <2>6, AppendExtends
  <2>8. Acyclic(g)
    BY DEF g
  <2>9. Unfold(g, f.left) = Unfold(heap, f.left) /\ Unfold(g, ret) = Unfold(heap, ret)
    <3>1. f.left \in 0 .. Len(heap) /\ ret \in 0 .. Len(heap)
      BY <1>2, <1>3
    <3>. QED
      BY <1>2, <2>7, <2>8, <3>1, UnfoldGrows
  <2>10. Unfold(g, Joined) = Tree(f.op, Unfold(g, f.left), Unfold(g, ret))
    <3>1. Joined \in 0 .. Len(g) /\ Joined # 0 /\ g[Joined] = x
      BY <1>2, <2>5, <2>7
    <3>. QED
      BY <2>6, <2>8, <3>1, UnfoldIs
  <2>11. i <= q
    BY <1>2, <1>4, <2>2
  <2>. QED
    BY <2>4, <2>7, <2>9, <2>10, <2>11, TreeNotEmpty DEF g, i, q, f, n
<1>. QED
  BY <1>7, <1>8

(* A level ends at a token that is none of its operators.                  *)
LEMMA StepLevelReturn ==
  ASSUME NEW t, Going(t), LevelReturn
  PROVE  Reads(t)'
<1>. DEFINE w == Rest
            m == Len(w) + 1
            f == Top
            q == Seen
            h == JoinedHeap
            p == Joined
<1>1. /\ pc = "resume" /\ stack # <<>> /\ TypeOK /\ Shape
      /\ f.fn # "factor" /\ tok \notin LevelOps(f.fn) /\ stack' = w
      /\ pc' = "resume" /\ err' = FALSE /\ vars' = vars /\ heap' = h /\ ret' = p
      /\ Seen' = q /\ tok' = tok /\ Acyclic(heap) /\ Acyclic(heap')
      /\ \E b \in [Nat -> Nat] : Within(t, b)
  BY GoingReads, GoingHeaps DEF LevelReturn, Return, Going, Reads, lexVars
<1>2. PICK b \in [Nat -> Nat] : Within(t, b)
  BY <1>1
<1>3. ResumedAt(t, b, w)
  BY <1>1, <1>2, Resumed
<1>4. /\ TreeOn(t, f.fn, b[m], q) = Unfold(h, p)
      /\ TreeOn(t, f.fn, b[m], q) # NoTree /\ Extends(heap, h)
  BY <1>1, <1>3, LevelJoined
<1>. HIDE DEF w, f, q, h, p
<1>5. /\ w \in Seq(FrameType) /\ f \in FrameType /\ f.fn = Called(w, m) /\ LeftsIn(w, heap)
      /\ StartsAt(t, vars, b) /\ InRange(w, b, q) /\ Chain(t, heap, w, b)
      /\ tok \in Operators => tok \in Loud(Callee(f.fn))
  BY <1>3 DEF ResumedAt, w, f, q
<1>6. Chain(t, heap', w, b)
  BY <1>1, <1>4, <1>5, ChainGrows
<1>7. tok \in Operators => tok \in Loud(f.fn)
  <2>1. f.fn \in {"expr", "term"} /\ Callee(f.fn) = Below(f.fn)
    BY <1>1, <1>5 DEF FrameType, Functions, Callee
  <2>2. Loud(Below(f.fn)) = Loud(f.fn) \cup LevelOps(f.fn)
    BY <2>1, LoudBelow
  <2>. QED
    BY <1>1, <1>5, <2>1, <2>2
<1>. QED
  BY <1>1, <1>4, <1>5, <1>6, <1>7, BodyResumes

(* After an operator the level waits for its right operand.                *)
LEMMA StepLevelOperator ==
  ASSUME NEW t, Going(t), LevelOperator
  PROVE  Reads(t)'
<1>. DEFINE w == Rest
            m == Len(w) + 1
            f == Top
            q == Seen
            h == JoinedHeap
            p == Joined
            g == [fn |-> f.fn, left |-> p, op |-> tok]
<1>1. /\ pc = "resume" /\ stack # <<>> /\ TypeOK /\ Shape
      /\ f.fn # "factor" /\ tok \in LevelOps(f.fn) /\ stack' = Append(Append(w, g), Frame(Below(f.fn)))
      /\ pc' = "enter" /\ err' = FALSE /\ vars' = vars /\ heap' = h
      /\ Acyclic(heap) /\ Acyclic(heap') /\ p \in Nat
      /\ \E b \in [Nat -> Nat] : Within(t, b)
  BY GoingReads, GoingHeaps, JoinedTyped DEF LevelOperator, Going, Reads
<1>2. PICK b \in [Nat -> Nat] : Within(t, b)
  BY <1>1
<1>3. ResumedAt(t, b, w)
  BY <1>1, <1>2, Resumed
<1>4. /\ TreeOn(t, f.fn, b[m], q) = Unfold(h, p)
      /\ TreeOn(t, f.fn, b[m], q) # NoTree /\ Extends(heap, h) /\ b[m] <= q
  BY <1>1, <1>3, LevelJoined
<1>5. Seen' = q + 1 /\ q \in Nat /\ t[q + 1] = tok
  <2>1. tok # "eoi" /\ Advance
    BY <1>1 DEF LevelOperator, LevelOps
  <2>. QED
    BY <2>1, GoingReads
<1>. HIDE DEF w, f, q, h, p
<1>6. /\ w \in Seq(FrameType) /\ m \in Nat \ {0} /\ Len(w) \in Nat
      /\ f \in FrameType /\ f.fn = Called(w, m) /\ LeftsIn(w, heap)
      /\ StartsAt(t, vars, b) /\ InRange(w, b, q) /\ Chain(t, heap, w, b)
      /\ b[1] \in Nat \ {0} /\ b[m] \in b[1] .. q + 1
  BY <1>3, LenProperties DEF ResumedAt, StartsAt, w, f, q
<1>7. Chain(t, heap', w, b)
  BY <1>1, <1>4, <1>6, ChainGrows
<1>8. f.fn \in {"expr", "term"} /\ tok \in Operators
  BY <1>1, <1>6, LevelOpsTyped DEF FrameType, Functions
<1>9. g \in FrameType /\ g.fn = f.fn /\ g.op = tok /\ g.left = p /\ tok # NoOp
  BY <1>1, <1>8 DEF FrameType, Functions, NoOp, Operators
<1>. HIDE DEF g
<1>. DEFINE s == Append(w, g)
            j == q + 2
<1>10. s \in Seq(FrameType) /\ Len(s) + 1 = Len(w) + 2 /\ j \in Nat
  <2>1. s \in Seq(FrameType) /\ Len(s) = Len(w) + 1 /\ Len(w) \in Nat
    BY <1>6, <1>9, PushPop
  <2>. HIDE DEF s
  <2>. QED
    BY <1>5, <2>1
<1>11. Called(s, Len(s) + 1) = Below(f.fn)
  BY <1>8, <1>6, <1>9, <1>10, CalledOnTop DEF Callee
<1>12. Link(t, heap', g, b[m], j)
  <2>1. b[m] <= j - 2 /\ j - 1 = q + 1 /\ j - 2 = q
    BY <1>4, <1>5, <1>6
  <2>. HIDE DEF j
  <2>. QED
    BY <1>1, <1>4, <1>5, <1>9, <2>1 DEF Link
<1>. HIDE DEF j
<1>13. PICK c \in [Nat -> Nat] :
        Chain(t, heap', s, c) /\ c[Len(w) + 2] = j /\ \A k \in 1 .. Len(w) + 1 : c[k] = b[k]
  <2>1. Pushed(t, heap', w, g, j, b)
    BY <1>6, <1>7, <1>9, <1>10, <1>12, ChainPush
  <2>. QED
    BY <2>1 DEF Pushed
<1>. HIDE DEF s
<1>14. /\ c[1] = b[1] /\ c[Len(s) + 1] = j /\ b[1] \in Nat /\ b[1] <= q + 1
       /\ \A k \in 1 .. Len(w) + 1 : b[k] \in b[1] .. q + 1
  <2>1. \A k \in 1 .. Len(w) + 1 : b[k] \in b[1] .. q + 1
    BY <1>6 DEF InRange
  <2>2. 1 \in 1 .. Len(w) + 1
    BY <1>6
  <2>3. b[1] <= q + 1
    BY <1>4, <1>5, <1>6
  <2>. QED
    BY <1>6, <1>10, <1>13, <2>1, <2>2, <2>3
<1>15. InRange(s, c, q + 1)
  <2>1. \A k \in 1 .. Len(s) + 1 : k \in 1 .. Len(w) + 1 \/ k = Len(s) + 1
    BY <1>6, <1>10
  <2>2. j \in b[1] .. (q + 1) + 1 /\ \A x \in b[1] .. q + 1 : x \in b[1] .. (q + 1) + 1
    <3>1. q \in Nat /\ b[1] \in Nat /\ b[1] <= q + 1
      BY <1>5, <1>14
    <3>. QED
      BY <3>1 DEF j
  <2>. QED
    BY <1>13, <1>14, <2>1, <2>2 DEF InRange
<1>16. StartsAt(t, vars', c)
  BY <1>1, <1>6, <1>14 DEF StartsAt
<1>17. t[Seen'] \notin Enders /\ c[Len(s) + 1] = Seen' + 1
  <2>1. t[Seen'] = tok
    BY <1>5
  <2>2. j = (q + 1) + 1
    BY <1>5 DEF j
  <2>. QED
    BY <1>5, <1>8, <1>14, <2>1, <2>2 DEF Enders, Operators
<1>. QED
  BY <1>1, <1>5, <1>10, <1>11, <1>13, <1>15, <1>16, <1>17, BodyEnters DEF s

(* A closing parenthesis ends the factor that the opening one began.       *)
LEMMA StepClose ==
  ASSUME NEW t, Going(t), FactorClose
  PROVE  Reads(t)'
<1>. DEFINE w == Rest
            m == Len(w) + 1
            f == Top
            q == Seen
<1>1. /\ pc = "resume" /\ stack # <<>> /\ TypeOK /\ Shape
      /\ f.fn = "factor" /\ tok = "r_paren" /\ stack' = w
      /\ pc' = "resume" /\ err' = FALSE /\ vars' = vars /\ heap' = heap /\ ret' = ret
      /\ Seen' = q + 1 /\ q \in Nat /\ t[q + 1] = tok /\ q + 1 <= Len(t) /\ Len(t) \in Nat
      /\ \E b \in [Nat -> Nat] : Within(t, b)
  BY GoingReads DEF FactorClose, Return, Going, Reads
<1>2. PICK b \in [Nat -> Nat] : Within(t, b)
  BY <1>1
<1>3. ResumedAt(t, b, w)
  BY <1>1, <1>2, Resumed
<1>. HIDE DEF w, f, q
<1>4. /\ w \in Seq(FrameType) /\ m \in Nat \ {0} /\ Len(w) \in Nat
      /\ f.fn = Called(w, m)
      /\ StartsAt(t, vars, b) /\ InRange(w, b, q) /\ Chain(t, heap, w, b)
      /\ b[1] \in Nat \ {0} /\ b[m] \in b[1] .. q + 1 /\ b[m + 1] \in b[1] .. q + 1
      /\ t[b[m]] = "l_paren" /\ b[m + 1] = b[m] + 1
      /\ TreeOn(t, "expr", b[m + 1], q) = Unfold(heap, ret)
      /\ TreeOn(t, "expr", b[m + 1], q) # NoTree
  BY <1>1, <1>3, LenProperties DEF ResumedAt, StartsAt, Link, Callee, w, f, q
<1>. DEFINE i == b[m]
            j == b[m + 1]
            r == q + 1
<1>5. /\ i \in 1 .. Len(t) /\ j \in 1 .. Len(t) + 1 /\ r \in 1 .. Len(t) /\ r - 1 = q /\ j = i + 1
      /\ q \in 0 .. Len(t)
  <2>. DEFINE a == b[1]
  <2>1. /\ a \in Nat \ {0} /\ i \in a .. q + 1 /\ j \in a .. q + 1 /\ j = i + 1
        /\ q \in Nat /\ q + 1 <= Len(t) /\ Len(t) \in Nat
    BY <1>1, <1>4
  <2>. HIDE DEF a, i, j
  <2>. QED
    BY <2>1
<1>6. t[i] = "l_paren" /\ TreeOn(t, "expr", j, q) # NoTree /\ TreeOn(t, "expr", j, q) = Unfold(heap, ret) /\ t[r] = "r_paren"
  BY <1>1, <1>4
<1>. HIDE DEF i, j, r
<1>7. j <= q
  <2>1. Sentence(t, Depth(t), "expr", j, q)
    BY <1>1, <1>5, <1>6, TreeSentence DEF Nonterminals
  <2>. QED
    BY <2>1 DEF Sentence
<1>8. TreeOn(t, "factor", i, r) = TreeOn(t, "expr", j, q)
  <2>1. i < r
    BY <1>5, <1>7
  <2>2. TreeOn(t, "factor", i, r) = TreeOn(t, "expr", i + 1, r - 1)
    BY <1>1, <1>5, <1>6, <2>1, ParenRule
  <2>. QED
    BY <1>5, <2>2
<1>9. InRange(w, b, r)
  <2>1. \A k \in 1 .. Len(w) + 1 : b[k] \in Nat
    BY <1>4
  <2>2. \A y \in Nat : y \in b[1] .. q + 1 => y \in b[1] .. r + 1
    BY <1>1 DEF r
  <2>. QED
    BY <1>4, <2>1, <2>2 DEF InRange
<1>10. Operators = Loud("factor")
  BY DEF Operators, Loud
<1>11. Seen' = r
  BY <1>1 DEF r
<1>12. /\ TreeOn(t, Called(w, m), b[m], Seen') = Unfold(heap', ret')
       /\ TreeOn(t, Called(w, m), b[m], Seen') # NoTree
  BY <1>1, <1>4, <1>6, <1>8, <1>11 DEF i
<1>13. InRange(w, b, Seen') /\ StartsAt(t, vars', b) /\ Chain(t, heap', w, b)
  BY <1>1, <1>4, <1>9, <1>11
<1>14. tok' \in Operators => tok' \in Loud(Called(w, m))
  BY <1>1, <1>4, <1>10
<1>. QED
  BY <1>1, <1>12, <1>13, <1>14, BodyResumes

(* The end of the text: the expression is the program's.                   *)
LEMMA StepTail ==
  ASSUME NEW t, Going(t), NullIsReported, CalcTail
  PROVE  Reads(t)'
<1>1. /\ pc = "resume" /\ stack = <<>> /\ TypeOK /\ Shape /\ tok = "eoi"
      /\ pc' = "parsed" /\ err' = FALSE /\ vars' = vars /\ ret # 0
      /\ Seen = Len(t) /\ Len(t) \in Nat /\ Acyclic(heap) /\ Acyclic(heap') /\ Len(heap) \in Nat
      /\ ret \in Nat /\ ret <= Len(heap) /\ heap \in Seq(NodeType)
      /\ \E b \in [Nat -> Nat] : Within(t, b)
  BY GoingReads, GoingHeaps
     DEF CalcTail, Going, Reads, NullIsReported, Null, TypeOK, Shape, PointersInHeap
<1>2. PICK b \in [Nat -> Nat] : Within(t, b)
  BY <1>1
<1>3. /\ StartsAt(t, vars, b)
      /\ TreeOn(t, "expr", b[1], Len(t)) = Unfold(heap, ret)
      /\ TreeOn(t, "expr", b[1], Len(t)) # NoTree
  <2>1. Called(stack, Len(stack) + 1) = "expr" /\ Len(stack) + 1 = 1
    BY <1>1, EmptySeq DEF Called
  <2>. QED
    BY <1>1, <1>2, <2>1 DEF Within, Waiting, Resuming
<1>4. /\ ExprStarts(t) = {b[1]} /\ Declared(t) = vars
      /\ ProgramTree(t) = Unfold(heap, ret) /\ IsProgram(t)
  BY <1>3, TheProgram DEF StartsAt
<1>5. CASE vars = <<>>
  <2>1. result' = ret /\ heap' = heap
    BY <1>1, <1>5 DEF CalcTail
  <2>2. heap[ret].kind # "With"
    <3>1. ret \in 1 .. Len(heap) /\ pc \notin {"parsed", "done"}
      BY <1>1
    <3>. QED
      BY <1>1, <3>1 DEF Shape, WithIsLast
  <2>3. ParsedAs(t)'
    BY <1>4, <1>5, <2>1, <2>2 DEF ParsedAs
  <2>. QED
    BY <1>1, <2>3 DEF Reads
<1>6. CASE vars # <<>>
  <2>. DEFINE x == WithNode(vars, ret)
  <2>1. result' = Len(heap) + 1 /\ heap' = Append(heap, x)
    BY <1>1, <1>6 DEF CalcTail
  <2>2. x \in NodeType /\ x.kind = "With" /\ x.left = ret /\ x.vals = vars
    BY <1>1 DEF WithNode, NodeType, Null, TypeOK
  <2>. HIDE DEF x
  <2>3. heap'[result'] = x /\ Extends(heap, heap')
    BY <1>1, <2>1, <2>2, AppendExtends
  <2>4. Unfold(heap', ret) = Unfold(heap, ret)
    BY <1>1, <2>3, UnfoldGrows
  <2>5. ParsedAs(t)'
    BY <1>4, <1>6, <2>2, <2>3, <2>4 DEF ParsedAs
  <2>. QED
    BY <1>1, <2>5 DEF Reads
<1>. QED
  BY <1>5, <1>6

-----------------------------------------------------------------------------
(* What a frame waits for is at least as deep in parentheses as itself,    *)
(* and deeper when the frame is that of an opened parenthesis.             *)
LEMMA LinkDepth ==
  ASSUME NEW t, Len(t) \in Nat, NEW h, NEW f, f.fn \in Functions,
         NEW i \in 1 .. Len(t) + 1, NEW j \in 1 .. Len(t) + 1, Link(t, h, f, i, j)
  PROVE  /\ Depth(t)[j - 1] >= Depth(t)[i - 1]
         /\ f.fn = "factor" => Depth(t)[j - 1] > Depth(t)[i - 1]
         /\ Depth(t)[i - 1] \in Int /\ Depth(t)[j - 1] \in Int
<1>. DEFINE D == Depth(t)
<1>1. /\ \A p \in 0 .. Len(t) : D[p] \in Int
      /\ \A p \in 1 .. Len(t) : D[p] = D[p - 1] + Opens(t[p])
  BY DepthIs
<1>. HIDE DEF D
<1>2. D[i - 1] \in Int /\ D[j - 1] \in Int
  BY <1>1
<1>3. CASE f.fn = "factor"
  <2>1. t[i] = "l_paren" /\ j = i + 1
    BY <1>3 DEF Link
  <2>2. i \in 1 .. Len(t) /\ j - 1 = i
    BY <2>1
  <2>3. D[i] = D[i - 1] + 1
    BY <1>1, <2>1, <2>2 DEF Opens
  <2>. QED
    BY <1>2, <2>2, <2>3 DEF D
<1>4. CASE f.fn # "factor" /\ f.op = NoOp
  <2>1. j = i
    BY <1>4 DEF Link
  <2>. QED
    BY <1>2, <1>4, <2>1 DEF D
<1>5. CASE f.fn # "factor" /\ f.op # NoOp
  <2>. DEFINE l == j - 2
              k == j - 1
  <2>1. /\ i <= l /\ f.op \in LevelOps(f.fn) /\ t[k] = f.op
        /\ TreeOn(t, f.fn, i, l) # NoTree
    BY <1>5 DEF Link
  <2>2. l \in 0 .. Len(t) /\ k \in 1 .. Len(t) /\ k - 1 = l /\ f.fn \in Nonterminals
    BY <2>1 DEF Functions, Nonterminals
  <2>. HIDE DEF l, k
  <2>3. Sentence(t, D, f.fn, i, l)
    BY <2>1, <2>2, TreeSentence DEF D
  <2>4. D[l] = D[i - 1]
    BY <2>3 DEF Sentence
  <2>5. D[k] = D[l]
    <3>1. Opens(t[k]) = 0
      BY <2>1 DEF Opens, LevelOps
    <3>2. D[k] = D[k - 1] + Opens(t[k])
      BY <1>1, <2>2
    <3>. QED
      BY <1>2, <2>2, <2>4, <3>1, <3>2
  <2>. QED
    BY <1>2, <1>5, <2>4, <2>5 DEF D, k
<1>. QED
  BY <1>3, <1>4, <1>5

LEMMA ChainDepth ==
  ASSUME NEW t, Len(t) \in Nat, NEW h, NEW w \in Seq(FrameType), NEW b, NEW q \in Nat, q <= Len(t),
         b[1] \in Nat \ {0}, InRange(w, b, q), Chain(t, h, w, b)
  PROVE  \A k \in 1 .. Len(w) + 1 : Depth(t)[b[k] - 1] \in Int /\ Depth(t)[b[k] - 1] >= Depth(t)[b[1] - 1]
<1>. DEFINE n == Len(w)
            D == Depth(t)
            E(k) == D[b[k] - 1]
            S == {k \in Nat : k <= n => E(k + 1) \in Int /\ E(k + 1) >= E(1)}
<1>1. n \in Nat /\ \A k \in 1 .. n : w[k] \in FrameType
  BY LenProperties, ElementOfSeq
<1>2. \A k \in 1 .. n + 1 : b[k] \in 1 .. Len(t) + 1
  BY DEF InRange
<1>3. ASSUME NEW k \in 1 .. n
      PROVE  E(k) \in Int /\ E(k + 1) \in Int /\ E(k + 1) >= E(k)
  <2>1. b[k] \in 1 .. Len(t) + 1 /\ b[k + 1] \in 1 .. Len(t) + 1
    BY <1>1, <1>2
  <2>2. w[k].fn \in Functions /\ Link(t, h, w[k], b[k], b[k + 1])
    BY <1>1 DEF Chain, FrameType
  <2>. QED
    BY <2>1, <2>2, LinkDepth
<1>. DEFINE e == E(1)
<1>4. e \in Int
  <2>1. b[1] \in 1 .. Len(t) + 1
    BY <1>1, <1>2
  <2>2. \A x \in 1 .. Len(t) + 1 : D[x - 1] \in Int
    BY DepthIs
  <2>. QED
    BY <2>1, <2>2
<1>. HIDE DEF E, n
<1>5. 0 \in S
  BY <1>4
<1>6. ASSUME NEW k \in Nat, k \in S
      PROVE  k + 1 \in S
  <2>. SUFFICES ASSUME k + 1 <= n
                PROVE  E((k + 1) + 1) \in Int /\ E((k + 1) + 1) >= E(1)
    OBVIOUS
  <2>1. k + 1 \in 1 .. n /\ k <= n
    BY <1>1
  <2>2. E(k + 1) \in Int /\ E((k + 1) + 1) \in Int /\ E((k + 1) + 1) >= E(k + 1)
    BY <1>3, <2>1
  <2>3. E(k + 1) >= E(1)
    BY <1>6, <2>1
  <2>. QED
    BY <1>4, <2>2, <2>3
<1>. HIDE DEF S
<1>7. \A k \in Nat : k \in S
  BY <1>5, <1>6, StepByStep
<1>8. ASSUME NEW k \in 1 .. n + 1
      PROVE  E(k) \in Int /\ E(k) >= E(1)
  <2>1. k - 1 \in Nat /\ k - 1 <= n /\ (k - 1) + 1 = k
    BY <1>1
  <2>2. k - 1 \in S
    BY <1>7, <2>1
  <2>. QED
    BY <2>1, <2>2 DEF S
<1>. QED
  BY <1>8 DEF E, n

-----------------------------------------------------------------------------
(* An error is reported where no program can go on.                        *)

(* Any text that is a program is a sentence from where its expression      *)
(* starts.                                                                 *)
LEMMA ProgramSentence ==
  ASSUME NEW t, Len(t) \in Nat, NEW vs, NEW b, StartsAt(t, vs, b), b[1] <= Len(t) + 1, IsProgram(t)
  PROVE  Sentence(t, Depth(t), "expr", b[1], Len(t))
<1>1. b[1] \in 1 .. Len(t) + 1 /\ Len(t) \in 0 .. Len(t) /\ "expr" \in Nonterminals
  BY DEF StartsAt, Nonterminals
<1>2. TreeOn(t, "expr", b[1], Len(t)) # NoTree
  BY TheProgram DEF StartsAt
<1>. HIDE DEF StartsAt
<1>. QED
  BY <1>1, <1>2, TreeSentence

LEMMA ErrorInList ==
  ASSUME NEW t, Going(t), DeclareError
  PROVE  ~IsProgram(t)
<1>. DEFINE n == Len(vars)
            q == Seen
<1>1. /\ TypeOK /\ ListRead(t) /\ Len(t) \in Nat /\ q <= Len(t) /\ q \in Nat
      /\ tok # "eoi" => t[q + 1] = tok
      /\ tok = "eoi" => Len(t) = q
  BY GoingReads DEF DeclareError, Going, Reads
<1>2. n \in Nat /\ Listed(t, q) /\ q = (IF pc = "declare" THEN 2 * n + 1 ELSE 2 * n)
      /\ (pc = "declared" => n \in Nat \ {0})
  BY <1>1, ReadList
<1>. HIDE DEF q, n
<1>3. CASE pc = "declare" /\ tok # "ident"
  <2>1. q = 2 * n + 1 /\ q + 1 = 2 * n + 2 /\ Len(t) \in Nat \ {0}
    BY <1>1, <1>2, <1>3
  <2>2. Len(t) = 2 * n + 1 \/ t[2 * n + 2] # "ident"
    BY <1>1, <1>3, <2>1
  <2>. QED
    BY <1>2, <2>1, <2>2, NameMissing
<1>4. CASE pc = "declared" /\ tok \notin {"comma", "colon"}
  <2>1. n \in Nat \ {0} /\ q = 2 * n /\ q + 1 = 2 * n + 1 /\ Len(t) \in Nat \ {0}
    BY <1>1, <1>2, <1>4
  <2>2. Len(t) = 2 * n \/ t[2 * n + 1] \notin {"comma", "colon"}
    BY <1>1, <1>4, <2>1
  <2>. QED
    BY <1>2, <2>1, <2>2, SeparatorMissing
<1>. QED
  BY <1>3, <1>4 DEF DeclareError

LEMMA ErrorAtOperand ==
  ASSUME NEW t, Going(t), FactorBadToken
  PROVE  ~IsProgram(t)
<1>. SUFFICES ASSUME IsProgram(t) PROVE FALSE
  OBVIOUS
<1>. DEFINE w == Rest
            q == Seen
<1>1. /\ pc = "enter" /\ stack # <<>> /\ TypeOK /\ Shape
      /\ tok \notin Openers
      /\ Len(t) \in Nat /\ q <= Len(t) /\ q \in Nat
      /\ tok # "eoi" => t[q + 1] = tok /\ q + 1 <= Len(t)
      /\ tok = "eoi" => Len(t) = q
      /\ \E b \in [Nat -> Nat] : Within(t, b)
  BY GoingReads DEF FactorBadToken, Openers, Going, Reads, Typed, FrameWhenRunning
<1>2. PICK b \in [Nat -> Nat] : Within(t, b)
  BY <1>1
<1>3. EnteredAt(t, b, w)
  BY <1>1, <1>2, Entered
<1>. HIDE DEF w
<1>. DEFINE c == b[1]
<1>4. /\ StartsAt(t, vars, b) /\ InRange(w, b, q) /\ Len(w) \in Nat
      /\ q + 1 = c \/ t[q] \notin Enders
  BY <1>3, LenProperties DEF EnteredAt
<1>. HIDE DEF q
<1>5. c \in Nat \ {0} /\ c <= q + 1
  <2>1. 1 \in 1 .. Len(w) + 1
    BY <1>4
  <2>. QED
    BY <1>4, <2>1 DEF StartsAt, InRange
<1>6. Sentence(t, Depth(t), "expr", c, Len(t))
  <2>1. c <= Len(t) + 1
    BY <1>1, <1>5
  <2>. QED
    BY <1>1, <1>4, <2>1, ProgramSentence
<1>. HIDE DEF c
<1>7. /\ c <= Len(t) /\ t[c] \in Openers /\ t[Len(t)] \in Enders
      /\ \A p \in c + 1 .. Len(t) : Follows(t[p - 1], t[p])
  BY <1>6 DEF Sentence
<1>8. CASE tok = "eoi"
  <2>1. Len(t) = q /\ q + 1 # c
    BY <1>1, <1>5, <1>7, <1>8
  <2>. QED
    BY <1>4, <1>7, <2>1
<1>9. CASE tok # "eoi" /\ q + 1 = c
  BY <1>1, <1>7, <1>9
<1>10. CASE tok # "eoi" /\ q + 1 # c
  <2>1. q + 1 \in c + 1 .. Len(t) /\ (q + 1) - 1 = q
    BY <1>1, <1>5, <1>10
  <2>2. Follows(t[q], t[q + 1])
    BY <1>7, <2>1
  <2>. QED
    BY <1>1, <1>4, <1>10, <2>2 DEF Follows
<1>. QED
  BY <1>8, <1>9, <1>10

(* After an operand a program goes on with an operator or a parenthesis.   *)
LEMMA ErrorAfterOperand ==
  ASSUME NEW t, Going(t), pc = "resume", tok \notin Operators, tok \notin {"eoi", "r_paren"}
  PROVE  ~IsProgram(t)
<1>. SUFFICES ASSUME IsProgram(t) PROVE FALSE
  OBVIOUS
<1>. DEFINE q == Seen
            m == Len(stack) + 1
<1>1. /\ TypeOK /\ Len(t) \in Nat /\ q \in Nat
      /\ t[q + 1] = tok /\ q + 1 <= Len(t) /\ Len(stack) \in Nat
      /\ \E b \in [Nat -> Nat] : Within(t, b)
  BY GoingReads, LenProperties DEF Going, Reads, TypeOK
<1>2. PICK b \in [Nat -> Nat] : Within(t, b)
  BY <1>1
<1>. DEFINE c == b[1]
            j == b[m]
            nt == Called(stack, m)
<1>3. /\ StartsAt(t, vars, b) /\ InRange(stack, b, q)
      /\ TreeOn(t, nt, j, q) # NoTree
  BY <1>2 DEF Within, Waiting, Resuming
<1>4. nt \in Nonterminals
  <2>1. m \in 1 .. Len(stack) + 1
    BY <1>1
  <2>2. nt \in Functions
    BY <1>1, <2>1, CalledTyped DEF TypeOK
  <2>. QED
    BY <2>2 DEF Functions, Nonterminals
<1>5. c \in Nat \ {0} /\ j \in c .. q + 1
  <2>1. m \in 1 .. Len(stack) + 1
    BY <1>1
  <2>. QED
    BY <1>3, <2>1 DEF StartsAt, InRange
<1>. HIDE DEF q, j, nt
<1>6. j <= q /\ t[q] \in Enders
  <2>1. j \in 1 .. Len(t) + 1 /\ q \in 0 .. Len(t)
    <3>. HIDE DEF c
    <3>1. q \in Nat /\ Len(t) \in Nat /\ q + 1 <= Len(t)
      BY <1>1
    <3>2. c \in Nat /\ c >= 1 /\ j \in c .. q + 1
      BY <1>5
    <3>. QED
      BY <3>1, <3>2
  <2>2. Sentence(t, Depth(t), nt, j, q)
    BY <1>1, <1>3, <1>4, <2>1, TreeSentence
  <2>. QED
    BY <2>2 DEF Sentence
<1>7. Sentence(t, Depth(t), "expr", c, Len(t))
  <2>1. c <= Len(t) + 1
    BY <1>1, <1>5
  <2>. QED
    BY <1>1, <1>3, <2>1, ProgramSentence
<1>8. Follows(t[q], t[q + 1])
  <2>. HIDE DEF c
  <2>1. q + 1 \in c + 1 .. Len(t) /\ (q + 1) - 1 = q
    BY <1>1, <1>5, <1>6
  <2>. QED
    BY <1>7, <2>1 DEF Sentence
<1>. QED
  BY <1>1, <1>6, <1>8 DEF Follows, Operators

(* The frame of an open parenthesis: the text before it goes deeper than   *)
(* any program that ends here may.                                         *)
LEMMA ErrorUnclosed ==
  ASSUME NEW t, Going(t), FactorUnclosed
  PROVE  ~IsProgram(t)
<1>1. pc = "resume" /\ stack # <<>> /\ Top.fn = "factor" /\ tok # "r_paren" /\ TypeOK /\ Shape
  BY DEF FactorUnclosed, Going
<1>2. /\ Len(t) \in Nat /\ Seen \in Nat /\ Seen <= Len(t)
      /\ tok = "eoi" => Len(t) = Seen
      /\ \E b \in [Nat -> Nat] : Within(t, b)
  BY <1>1, GoingReads DEF Going, Reads
<1>3. PICK b \in [Nat -> Nat] : Within(t, b)
  BY <1>2
<1>. DEFINE w == Rest
            n == Len(w) + 1
            q == Seen
            f == Top
<1>4. ResumedAt(t, b, w)
  BY <1>1, <1>3, Resumed
<1>. HIDE DEF w, f
<1>5. /\ w \in Seq(FrameType) /\ n \in Nat \ {0} /\ f.fn = "factor"
      /\ StartsAt(t, vars, b) /\ InRange(w, b, q) /\ Chain(t, heap, w, b)
      /\ Link(t, heap, f, b[n], b[n + 1])
      /\ b[n] \in b[1] .. q + 1 /\ b[n + 1] \in b[1] .. q + 1
      /\ TreeOn(t, "expr", b[n + 1], q) # NoTree
      /\ tok \in Operators => tok \in Loud("expr")
  BY <1>1, <1>4 DEF ResumedAt, Callee, w, f
<1>6. tok \notin Operators
  BY <1>5 DEF Operators, Loud, LevelOps, Below
<1>7. CASE tok # "eoi"
  BY <1>1, <1>6, <1>7, ErrorAfterOperand
<1>8. CASE tok = "eoi"
  <2>. SUFFICES ASSUME IsProgram(t) PROVE FALSE
    OBVIOUS
  <2>. DEFINE D == Depth(t)
              c == b[1]
              i == b[n]
              j == b[n + 1]
  <2>1. q = Len(t) /\ q \in Nat /\ c \in Nat \ {0}
    BY <1>2, <1>5, <1>8 DEF StartsAt
  <2>2. Link(t, heap, f, i, j) /\ i \in c .. q + 1 /\ j \in c .. q + 1 /\ TreeOn(t, "expr", j, q) # NoTree
    BY <1>5
  <2>3. D[i - 1] \in Int /\ D[i - 1] >= D[c - 1]
    <3>1. n \in 1 .. Len(w) + 1
      BY <1>5
    <3>. QED
      BY <1>2, <1>5, <2>1, <3>1, ChainDepth
  <2>. HIDE DEF c, i, j, D, q
  <2>4. D[j - 1] > D[i - 1] /\ D[j - 1] \in Int
    <3>1. i \in 1 .. Len(t) + 1 /\ j \in 1 .. Len(t) + 1
      BY <2>1, <2>2
    <3>2. f.fn \in Functions /\ Link(t, heap, f, i, j)
      BY <1>5, <2>2 DEF Functions
    <3>. QED
      BY <1>2, <1>5, <3>1, <3>2, LinkDepth DEF D
  <2>5. D[q] = D[j - 1]
    <3>1. j \in 1 .. Len(t) + 1 /\ q \in 0 .. Len(t) /\ "expr" \in Nonterminals
      BY <1>2, <2>1, <2>2 DEF Nonterminals
    <3>2. Sentence(t, D, "expr", j, q)
      BY <1>2, <2>2, <3>1, TreeSentence DEF D
    <3>. QED
      BY <3>2 DEF Sentence
  <2>6. D[q] = D[c - 1]
    <3>1. c <= Len(t) + 1
      BY <2>1, <2>2
    <3>2. Sentence(t, D, "expr", c, Len(t))
      BY <1>2, <1>5, <3>1, ProgramSentence DEF c, D
    <3>. QED
      BY <2>1, <3>2 DEF Sentence
  <2>7. D[c - 1] \in Int
    BY <2>4, <2>5, <2>6
  <2>. QED
    BY <2>3, <2>4, <2>5, <2>6, <2>7
<1>. QED
  BY <1>7, <1>8

(* A closing parenthesis that nothing opened.                              *)
LEMMA ErrorAtTail ==
  ASSUME NEW t, Going(t), CalcTailError
  PROVE  ~IsProgram(t)
<1>1. pc = "resume" /\ stack = <<>> /\ tok # "eoi" /\ TypeOK
  BY DEF CalcTailError, Going
<1>. DEFINE q == Seen
<1>2. /\ Len(t) \in Nat /\ q \in Nat /\ q + 1 <= Len(t) /\ t[q + 1] = tok
      /\ \E b \in [Nat -> Nat] : Within(t, b)
  BY <1>1, GoingReads DEF Going, Reads
<1>3. PICK b \in [Nat -> Nat] : Within(t, b)
  BY <1>2
<1>. DEFINE c == b[1]
<1>4. /\ StartsAt(t, vars, b) /\ c \in Nat \ {0} /\ c \in c .. q + 1
      /\ TreeOn(t, "expr", c, q) # NoTree
      /\ tok \in Operators => tok \in Loud("expr")
  <2>1. Called(stack, Len(stack) + 1) = "expr" /\ Len(stack) + 1 = 1
    BY <1>1, EmptySeq DEF Called
  <2>. QED
    BY <1>1, <1>3, <2>1 DEF Within, Waiting, Resuming, InRange, StartsAt
<1>5. tok \notin Operators
  BY <1>4 DEF Operators, Loud, LevelOps, Below
<1>6. CASE tok # "r_paren"
  BY <1>1, <1>5, <1>6, ErrorAfterOperand
<1>7. CASE tok = "r_paren"
  <2>. SUFFICES ASSUME IsProgram(t) PROVE FALSE
    OBVIOUS
  <2>. DEFINE D == Depth(t)
  <2>0. c <= Len(t) + 1 => Sentence(t, D, "expr", c, Len(t))
    BY <1>2, <1>4, ProgramSentence
  <2>. HIDE DEF c, q, D
  <2>1. Sentence(t, D, "expr", c, Len(t))
    BY <1>2, <1>4, <2>0
  <2>2. c <= q /\ D[q] = D[c - 1]
    <3>0. q \in Nat /\ Len(t) \in Nat /\ q + 1 <= Len(t)
      BY <1>2
    <3>a. c \in Nat /\ c >= 1 /\ c <= q + 1
      BY <1>4, <3>0
    <3>1. c \in 1 .. Len(t) + 1 /\ q \in 0 .. Len(t) /\ "expr" \in Nonterminals
      BY <3>0, <3>a DEF Nonterminals
    <3>2. Sentence(t, D, "expr", c, q)
      BY <1>2, <1>4, <3>1, TreeSentence DEF D
    <3>. QED
      BY <3>2 DEF Sentence
  <2>3. D[q + 1] >= D[c - 1]
    <3>1. q + 1 \in c .. Len(t)
      BY <1>2, <1>4, <2>2
    <3>. QED
      BY <2>1, <3>1 DEF Sentence
  <2>4. D[q + 1] = D[q] - 1 /\ D[q] \in Int
    <3>1. q + 1 \in 1 .. Len(t) /\ q \in 0 .. Len(t) /\ (q + 1) - 1 = q
      BY <1>2
    <3>2. /\ D[q] \in Int /\ D[q + 1] = D[(q + 1) - 1] + Opens(t[q + 1])
      BY <1>2, <3>1, DepthIs DEF D
    <3>. QED
      BY <1>2, <1>7, <3>1, <3>2 DEF Opens
  <2>. QED
    BY <2>2, <2>3, <2>4
<1>. QED
  BY <1>6, <1>7

-----------------------------------------------------------------------------
(* The invariant, put together.                                            *)
LEMMA InitReads == Init => ReadsRight /\ EndIsRead
<1>. SUFFICES ASSUME Init PROVE ReadsRight /\ EndIsRead
  OBVIOUS
<1>1. /\ err = FALSE /\ pc = "calc" /\ vars = <<>>
      /\ \/ tok \in Kinds /\ input = <<tok>>
         \/ tok = "eoi" /\ input = <<>>
  BY DEF Init
<1>2. Seen = 0
  <2>1. tok \in Kinds => tok # "eoi"
    BY KindsAssumption
  <2>2. input = <<>> => Len(input) = 0
    BY EmptySeq
  <2>3. input = <<tok>> => Len(input) = 1
    OBVIOUS
  <2>. QED
    BY <1>1, <2>1, <2>2, <2>3 DEF Seen
<1>. QED
  BY <1>1, <1>2 DEF ReadsRight, Reads, EndIsRead

LEMMA NextEndIsRead == EndIsRead /\ [Next]_pvars => EndIsRead'
<1>. SUFFICES ASSUME EndIsRead, [Next]_pvars PROVE EndIsRead'
  OBVIOUS
<1>1. CASE CalcTail \/ RecoverDone \/ ParseReturn \/ UNCHANGED pvars
  <2>1. tok' = tok
    BY <1>1 DEF CalcTail, RecoverDone, ParseReturn, Error, lexVars, pvars
  <2>2. pc' \in {"parsed", "done"} => tok = "eoi"
    BY <1>1 DEF EndIsRead, CalcTail, RecoverDone, ParseReturn, pvars
  <2>. QED
    BY <2>1, <2>2 DEF EndIsRead
<1>2. CASE /\ Next /\ ~CalcTail /\ ~RecoverDone /\ ~ParseReturn
  <2>1. pc' \notin {"parsed", "done"} \/ (pc' = pc /\ pc \notin {"parsed", "done"})
    BY <1>2 DEF Next, ParseStep, CalcWith, CalcNoWith, CallExpr, DeclareIdent, DeclareComma,
           DeclareColon, DeclareError, EnterLevel, LevelOperator, LevelReturn, FactorLeaf, FactorParen,
           FactorBadToken, FactorClose, FactorUnclosed, Skip, SkipDone, CalcTailError, Recover, Return
  <2>. QED
    BY <2>1 DEF EndIsRead
<1>. QED
  BY <1>1, <1>2

(* Nothing the parser does reads a text any other way than the grammar.    *)
LEMMA NextReads ==
  ASSUME IInv, Shape, EndIsRead, ReadsRight, [Next]_pvars, TypeOK', Shape'
  PROVE  ReadsRight'
<1>. SUFFICES ASSUME NEW t, Future(t)' PROVE Reads(t)'
  BY DEF ReadsRight
<1>1. Typed /\ TypeOK /\ NullIsReported /\ RecoveryIsReported /\ LookaheadIsLast
  BY DEF IInv, Typed, Shape
<1>2. Future(t) /\ Reads(t)
  BY <1>1, FutureKept DEF ReadsRight
<1>3. CASE err
  <2>1. err'
    BY <1>3 DEF Next, ParseStep, pvars, lexVars, Error, CalcWith, CalcNoWith, DeclareIdent, DeclareComma,
           DeclareColon, DeclareError, EnterLevel, LevelOperator, LevelReturn, FactorLeaf, FactorParen,
           FactorBadToken, FactorClose, FactorUnclosed, Skip, SkipDone, CalcTail, CalcTailError,
           Recover, RecoverDone, ParseReturn
  <2>2. ~IsProgram(t)
    BY <1>2, <1>3 DEF Reads
  <2>. QED
    BY <2>1, <2>2 DEF Reads
<1>4. CASE ~err
  <2>1. Going(t)
    BY <1>1, <1>2, <1>4 DEF Going, TypeOK
  <2>2. CASE DeclareError \/ FactorBadToken \/ FactorUnclosed \/ CalcTailError
    <3>1. err' = TRUE
      BY <2>2 DEF DeclareError, FactorBadToken, FactorUnclosed, CalcTailError, Error
    <3>2. ~IsProgram(t)
      BY <2>1, <2>2, ErrorInList, ErrorAtOperand, ErrorUnclosed, ErrorAtTail
    <3>. QED
      BY <3>1, <3>2 DEF Reads
  <2>3. ~Skip /\ ~SkipDone /\ ~Recover /\ ~RecoverDone
    BY <1>1, <1>4 DEF RecoveryIsReported, Skip, SkipDone, Recover, RecoverDone
  <2>4. CASE ParseReturn
    <3>1. /\ pc = "parsed" /\ pc' = "done" /\ tok = "eoi"
          /\ UNCHANGED <<err, result, heap>>
      BY <2>4 DEF ParseReturn, EndIsRead
    <3>2. ParsedAs(t)
      BY <1>2, <1>4, <3>1 DEF Reads
    <3>3. ParsedAs(t)'
      BY <3>1, <3>2 DEF ParsedAs
    <3>. QED
      BY <1>4, <3>1, <3>3 DEF Reads
  <2>5. CASE UNCHANGED pvars
    <3>1. UNCHANGED <<tok, err, pc, stack, ret, vars, heap, result>> /\ UNCHANGED <<Seen, Rest>>
      BY <2>5 DEF pvars, Seen, Rest
    <3>2. Waiting' = Waiting
      BY <3>1 DEF Waiting
    <3>3. \A b : Within(t, b)' = Within(t, b)
      BY <3>1, <3>2 DEF Within, Entering, Resuming
    <3>4. ListRead(t)' = ListRead(t) /\ ParsedAs(t)' = ParsedAs(t)
      BY <3>1 DEF ListRead, ParsedAs
    <3>. QED
      BY <1>2, <3>1, <3>3, <3>4 DEF Reads
  <2>6. CASE CalcWith \/ CalcNoWith
    BY <2>1, <2>6, StepWith, StepNoWith
  <2>7. CASE DeclareIdent \/ DeclareComma \/ DeclareColon
    BY <2>1, <2>7, StepIdent, StepComma, StepColon
  <2>8. CASE EnterLevel \/ LevelOperator \/ LevelReturn
    BY <2>1, <2>8, StepEnterLevel, StepLevelOperator, StepLevelReturn
  <2>9. CASE FactorLeaf \/ FactorParen \/ FactorClose
    BY <2>1, <2>9, StepLeaf, StepParen, StepClose
  <2>10. CASE CalcTail
    BY <1>1, <2>1, <2>10, StepTail
  <2>. QED
    BY <2>2, <2>3, <2>4, <2>5, <2>6, <2>7, <2>8, <2>9, <2>10 DEF Next, ParseStep
<1>. QED
  BY <1>3, <1>4

ParserInv == IInv /\ Shape /\ EndIsRead /\ ReadsRight

LEMMA ParserInvariant == Spec => []ParserInv
<1>1. Init => ParserInv
  BY InitIInv, InitShape, InitReads DEF ParserInv
<1>2. ParserInv /\ [Next]_pvars => ParserInv'
  <2>. SUFFICES ASSUME ParserInv, [Next]_pvars PROVE ParserInv'
    OBVIOUS
  <2>1. IInv /\ Shape /\ EndIsRead /\ ReadsRight /\ Typed
    BY DEF ParserInv, IInv
  <2>2. IInv' /\ Shape' /\ EndIsRead'
    BY <2>1, NextIInv, NextShape, NextEndIsRead
  <2>3. TypeOK'
    BY <2>2 DEF IInv, Typed
  <2>4. ReadsRight'
    BY <2>1, <2>2, <2>3, NextReads
  <2>. QED
    BY <2>2, <2>4 DEF ParserInv
<1>. QED
  BY <1>1, <1>2, PTL DEF Spec

(* The text that has been read is one of the texts it may turn out to be,  *)
(* and the only one when its end has been met.                             *)
LEMMA OwnFuture ==
  ASSUME TypeOK
  PROVE  Future(input) /\ input \in Seq(TokenKinds)
<1>1. input \in Seq(TokenKinds)
  BY KindsAssumption, SeqMonotonic DEF TypeOK
<1>2. Extends(input, input)
  BY LenProperties DEF Extends, TypeOK
<1>. QED
  BY <1>1, <1>2 DEF Future

(* Parsing ends without an error exactly on the texts the grammar derives, *)
(* for every set of token kinds and texts of any length (calc-language's   *)
(* Parser::parse).                                                         *)
THEOREM ParserAcceptsPrograms == Spec => []AcceptsExactlyPrograms
<1>1. ParserInv => AcceptsExactlyPrograms
  <2>. SUFFICES ASSUME ParserInv, pc = "done" PROVE ~err <=> IsProgram(input)
    BY DEF AcceptsExactlyPrograms
  <2>1. TypeOK /\ tok = "eoi" /\ ReadsRight
    BY DEF ParserInv, IInv, Typed, EndIsRead
  <2>2. Reads(input)
    BY <2>1, OwnFuture DEF ReadsRight
  <2>. QED
    BY <2>2 DEF Reads, ParsedAs
<1>. QED
  BY <1>1, ParserInvariant, PTL

(* The tree parse() returns for an accepted text is the one the grammar    *)
(* derives, whatever the operators and parentheses of the text.            *)
THEOREM ParserBuildsTheDerivation == Spec => []TreeIsTheDerivation
<1>1. ParserInv => TreeIsTheDerivation
  <2>. SUFFICES ASSUME ParserInv, pc = "done", ~err PROVE TreeIsTheDerivation
    BY DEF TreeIsTheDerivation
  <2>1. TypeOK /\ tok = "eoi" /\ ReadsRight
    BY DEF ParserInv, IInv, Typed, EndIsRead
  <2>2. Reads(input)
    BY <2>1, OwnFuture DEF ReadsRight
  <2>3. ParsedAs(input)
    BY <2>2 DEF Reads
  <2>. QED
    BY <2>3 DEF ParsedAs, TreeIsTheDerivation
<1>. QED
  BY <1>1, ParserInvariant, PTL

-----------------------------------------------------------------------------
-----------------------------------------------------------------------------
(* The first error is reported at the first token no program can have.     *)

(* What a frame began can be completed when what it waits for can: the     *)
(* parentheses that close are there, q tokens have been read up to e.      *)
Agrees(s, t, q) == \A k \in 1 .. q : s[k] = t[k]
Closed(s, e) == \A k \in e + 1 .. Len(s) : s[k] = "r_paren"

LEMMA LevelReads ==
  ASSUME NEW s, Len(s) \in Nat, NEW nt \in {"expr", "term"},
         NEW i \in 1 .. Len(s) + 1, NEW j \in 0 .. Len(s),
         \/ TreeOn(s, Below(nt), i, j) # NoTree
         \/ \E k \in i + 1 .. j - 1 : /\ s[k] \in LevelOps(nt)
                                      /\ TreeOn(s, nt, i, k - 1) # NoTree
                                      /\ TreeOn(s, Below(nt), k + 1, j) # NoTree
  PROVE  TreeOn(s, nt, i, j) # NoTree
<1>1. CASE TreeOn(s, Below(nt), i, j) # NoTree
  BY <1>1, LevelRule
<1>2. ASSUME NEW k \in i + 1 .. j - 1, s[k] \in LevelOps(nt),
             TreeOn(s, nt, i, k - 1) # NoTree, TreeOn(s, Below(nt), k + 1, j) # NoTree
      PROVE  TreeOn(s, nt, i, j) # NoTree
  BY <1>2, SplitRule, TreeNotEmpty
<1>. QED
  BY <1>1, <1>2

LEMMA OperandCloses ==
  ASSUME NEW t, NEW s, Len(t) \in Nat, Len(s) \in Nat,
         NEW fn \in {"expr", "term"}, NEW i \in Nat \ {0}, NEW k \in Nat, NEW r \in Nat,
         i < k, k <= Len(t), k <= Len(s), r <= Len(s), \A p \in i .. k : s[p] = t[p],
         t[k] \in LevelOps(fn), TreeOn(t, fn, i, k - 1) # NoTree,
         TreeOn(s, Below(fn), k + 1, r) # NoTree
  PROVE  TreeOn(s, fn, i, r) # NoTree
<1>1. k < r
  <2>. DEFINE l == k + 1
  <2>1. l \in 1 .. Len(s) + 1 /\ Below(fn) \in Nonterminals /\ r \in 0 .. Len(s)
    <3>1. fn \in Nonterminals
      BY DEF Nonterminals
    <3>2. Below(fn) \in Nonterminals
      BY <3>1, BelowIs
    <3>. QED
      BY <3>2
  <2>. HIDE DEF l
  <2>2. Sentence(s, Depth(s), Below(fn), l, r)
    BY <2>1, TreeSentence DEF l
  <2>. QED
    BY <2>2 DEF Sentence, l
<1>2. s[k] \in LevelOps(fn)
  OBVIOUS
<1>3. TreeOn(s, fn, i, k - 1) # NoTree
  <2>1. k - 1 \in Nat /\ i <= Len(s) + 1 /\ i <= Len(t) + 1 /\ k - 1 <= Len(s) /\ k - 1 <= Len(t)
    BY <1>1
  <2>2. \A p \in i .. k - 1 : s[p] = t[p]
    OBVIOUS
  <2>3. fn \in Nonterminals
    BY DEF Nonterminals
  <2>. DEFINE l == k - 1
  <2>. HIDE DEF l
  <2>4. TreeOn(s, fn, i, l) = TreeOn(t, fn, i, l)
    BY <2>1, <2>2, <2>3, TreeLocal DEF l
  <2>. QED
    BY <2>4 DEF l
<1>4. k \in i + 1 .. r - 1 /\ i \in 1 .. Len(s) + 1 /\ r \in 0 .. Len(s)
  BY <1>1
<1>. QED
  BY <1>2, <1>3, <1>4, LevelReads

(* Read on from position i, s has a tree of nt that ends with at most one   *)
(* parenthesis for each token from i to q.                                 *)
Closes(s, q, e, nt, i) == \E m \in 0 .. q + 1 - i : TreeOn(s, nt, i, e + m) # NoTree

LEMMA LinkCloses ==
  ASSUME NEW t, NEW s, Len(t) \in Nat, Len(s) \in Nat, NEW q \in Nat, q <= Len(t),
         NEW e \in Nat, q <= e, e + q <= Len(s), Agrees(s, t, q), Closed(s, e),
         NEW h, NEW f, f.fn \in Functions, NEW i \in 1 .. q + 1, NEW j \in 1 .. q + 1,
         Link(t, h, f, i, j),
         Closes(s, q, e, Callee(f.fn), j)
  PROVE  Closes(s, q, e, f.fn, i)
<1>. PICK m \in 0 .. q + 1 - j : TreeOn(s, Callee(f.fn), j, e + m) # NoTree
  BY DEF Closes
<1>. SUFFICES \E l \in 0 .. q + 1 - i : TreeOn(s, f.fn, i, e + l) # NoTree
  BY DEF Closes
<1>0. i \in 1 .. Len(s) + 1 /\ j \in 1 .. Len(s) + 1 /\ e + m \in 0 .. Len(s)
  OBVIOUS
<1>1. CASE f.fn = "factor"
  <2>1. t[i] = "l_paren" /\ j = i + 1 /\ Callee(f.fn) = "expr"
    BY <1>1 DEF Link, Callee
  <2>2. i \in 1 .. q /\ i \in 1 .. Len(s) /\ m + 1 \in 0 .. q + 1 - i
    BY <2>1
  <2>. DEFINE r == e + (m + 1)
  <2>3. r \in e + 1 .. Len(s) /\ r \in 1 .. Len(s) /\ i < r /\ r - 1 = e + m
    BY <2>1, <2>2
  <2>. HIDE DEF r
  <2>4. s[i] = "l_paren" /\ s[r] = "r_paren"
    BY <2>1, <2>2, <2>3 DEF Agrees, Closed
  <2>5. TreeOn(s, "factor", i, r) # NoTree
    BY <2>1, <2>2, <2>3, <2>4, ParenRule
  <2>. QED
    BY <1>1, <2>2, <2>5 DEF r
<1>2. CASE f.fn # "factor" /\ f.op = NoOp
  <2>1. j = i /\ Callee(f.fn) = Below(f.fn) /\ f.fn \in {"expr", "term"}
    BY <1>2 DEF Link, Callee, Functions
  <2>2. TreeOn(s, f.fn, i, e + m) # NoTree
    BY <1>0, <2>1, LevelReads
  <2>. QED
    BY <2>1, <2>2
<1>3. CASE f.fn # "factor" /\ f.op # NoOp
  <2>. DEFINE k == j - 1
              r == e + m
  <2>1. /\ i <= j - 2 /\ t[k] \in LevelOps(f.fn) /\ TreeOn(t, f.fn, i, j - 2) # NoTree
        /\ Callee(f.fn) = Below(f.fn) /\ f.fn \in {"expr", "term"}
    BY <1>3 DEF Link, Callee, Functions
  <2>2. k \in Nat /\ i < k /\ k <= q /\ k <= Len(t) /\ k <= Len(s) /\ k + 1 = j /\ k - 1 = j - 2
    BY <2>1
  <2>3. r \in Nat /\ r <= Len(s) /\ i \in Nat \ {0} /\ m \in 0 .. q + 1 - i
    BY <2>1
  <2>. HIDE DEF k, r
  <2>4. \A p \in i .. k : s[p] = t[p]
    <3>1. \A p \in i .. k : p \in 1 .. q
      BY <2>2, <2>3
    <3>. QED
      BY <3>1 DEF Agrees
  <2>5. TreeOn(t, f.fn, i, k - 1) # NoTree
    BY <2>1, <2>2
  <2>6. TreeOn(s, Below(f.fn), k + 1, r) # NoTree
    BY <2>1, <2>2 DEF r
  <2>7. TreeOn(s, f.fn, i, r) # NoTree
    BY <2>1, <2>2, <2>3, <2>4, <2>5, <2>6, OperandCloses
  <2>. QED
    BY <2>3, <2>7 DEF r
<1>. QED
  BY <1>1, <1>2, <1>3

LEMMA ChainCloses ==
  ASSUME NEW t, NEW s, Len(t) \in Nat, Len(s) \in Nat, NEW q \in Nat, q <= Len(t),
         NEW e \in Nat, q <= e, e + q <= Len(s), Agrees(s, t, q), Closed(s, e),
         NEW h, NEW w \in Seq(FrameType), NEW b, b[1] \in Nat \ {0}, InRange(w, b, q), Chain(t, h, w, b),
         TreeOn(s, Called(w, Len(w) + 1), b[Len(w) + 1], e) # NoTree
  PROVE  Closes(s, q, e, "expr", b[1])
<1>. DEFINE n == Len(w)
            Reached(k) == Closes(s, q, e, Called(w, k), b[k])
            S == {d \in Nat : d <= n => Reached((n + 1) - d)}
<1>1. n \in Nat /\ \A k \in 1 .. n : w[k] \in FrameType
  BY LenProperties, ElementOfSeq
<1>2. \A k \in 1 .. n + 1 : b[k] \in 1 .. q + 1
  BY DEF InRange
<1>3. ASSUME NEW k \in 1 .. n, Reached(k + 1) PROVE Reached(k)
  <2>. DEFINE f == w[k]
              i == b[k]
              j == b[k + 1]
  <2>1. i \in 1 .. q + 1 /\ j \in 1 .. q + 1
    BY <1>1, <1>2
  <2>2. f.fn \in Functions /\ f.fn = Called(w, k) /\ Link(t, h, f, i, j)
    BY <1>1 DEF Chain, FrameType
  <2>3. Called(w, k + 1) = Callee(f.fn)
    BY <1>1 DEF Called
  <2>. HIDE DEF f, i, j, S
  <2>4. Closes(s, q, e, Callee(f.fn), j)
    BY <1>3, <2>3 DEF j
  <2>5. Closes(s, q, e, f.fn, i)
    BY <2>1, <2>2, <2>4, LinkCloses
  <2>. QED
    BY <2>2, <2>5 DEF i
<1>4. Reached(n + 1)
  <2>1. n + 1 \in 1 .. n + 1
    BY <1>1
  <2>2. b[n + 1] \in 1 .. q + 1
    BY <1>2, <2>1
  <2>3. 0 \in 0 .. q + 1 - b[n + 1] /\ e + 0 = e
    BY <2>2
  <2>. QED
    BY <2>3 DEF Closes
<1>. HIDE DEF Reached, n
<1>5. 0 \in S
  BY <1>1, <1>4
<1>6. ASSUME NEW d \in Nat, d \in S PROVE d + 1 \in S
  <2>. SUFFICES ASSUME d + 1 <= n PROVE Reached((n + 1) - (d + 1))
    OBVIOUS
  <2>. DEFINE k == (n + 1) - (d + 1)
  <2>1. k \in 1 .. n /\ k + 1 = (n + 1) - d /\ d <= n
    BY <1>1
  <2>2. Reached(k + 1)
    BY <1>6, <2>1
  <2>. HIDE DEF k
  <2>3. Reached(k)
    BY <1>3, <2>1, <2>2
  <2>. QED
    BY <2>3 DEF k
<1>7. n \in S
  <2>. HIDE DEF S
  <2>1. \A d \in Nat : d \in S
    BY <1>5, <1>6, StepByStep
  <2>. QED
    BY <1>1, <2>1
<1>8. Reached(1)
  <2>1. (n + 1) - n = 1
    BY <1>1
  <2>. QED
    BY <1>1, <1>7, <2>1
<1>. QED
  BY <1>8 DEF Reached, Called

-----------------------------------------------------------------------------
(* What completes a text: h and o, then parentheses.                       *)
Completion(s, h, o, m) == s \o h \o o \o [i \in 1 .. m |-> "r_paren"]

IsCompletion(x, s, h, o, m) ==
  /\ x \in Seq(TokenKinds) /\ Len(x) = Len(s) + Len(h) + Len(o) + m
  /\ Agrees(x, s, Len(s))
  /\ \A k \in 1 .. Len(h) : x[Len(s) + k] = h[k]
  /\ \A k \in 1 .. Len(o) : x[Len(s) + Len(h) + k] = o[k]
  /\ Closed(x, Len(s) + Len(h) + Len(o))

LEMMA CompletionIs ==
  ASSUME NEW s \in Seq(TokenKinds), NEW h \in Seq(TokenKinds), NEW o \in Seq(TokenKinds), NEW m \in Nat
  PROVE  IsCompletion(Completion(s, h, o, m), s, h, o, m)
<1>. DEFINE p == [i \in 1 .. m |-> "r_paren"]
            a == s \o h
            b == a \o o
            x == b \o p
<1>1. p \in Seq(TokenKinds) /\ Len(p) = m /\ \A k \in 1 .. m : p[k] = "r_paren"
  BY DEF TokenKinds
<1>. HIDE DEF p
<1>2. Len(s) \in Nat /\ Len(h) \in Nat /\ Len(o) \in Nat
  BY LenProperties
<1>3. /\ a \in Seq(TokenKinds) /\ Len(a) = Len(s) + Len(h)
      /\ \A i \in 1 .. Len(s) + Len(h) : a[i] = IF i <= Len(s) THEN s[i] ELSE h[i - Len(s)]
  BY ConcatProperties
<1>. HIDE DEF a
<1>a. a \in Seq(TokenKinds)
  BY <1>3
<1>4. /\ b \in Seq(TokenKinds) /\ Len(b) = Len(a) + Len(o)
      /\ \A i \in 1 .. Len(a) + Len(o) : b[i] = IF i <= Len(a) THEN a[i] ELSE o[i - Len(a)]
  BY <1>a, ConcatProperties
<1>. HIDE DEF b
<1>5. /\ x \in Seq(TokenKinds) /\ Len(x) = Len(b) + Len(p)
      /\ \A i \in 1 .. Len(b) + Len(p) : x[i] = IF i <= Len(b) THEN b[i] ELSE p[i - Len(b)]
  BY <1>1, <1>4, ConcatProperties
<1>6. x = Completion(s, h, o, m)
  BY DEF x, b, a, p, Completion
<1>. HIDE DEF x
<1>7. Len(x) = Len(s) + Len(h) + Len(o) + m
  BY <1>1, <1>3, <1>4, <1>5
<1>8. Agrees(x, s, Len(s))
  BY <1>1, <1>2, <1>3, <1>4, <1>5 DEF Agrees
<1>9. \A k \in 1 .. Len(h) : x[Len(s) + k] = h[k]
  BY <1>1, <1>2, <1>3, <1>4, <1>5
<1>10. \A k \in 1 .. Len(o) : x[Len(s) + Len(h) + k] = o[k]
  BY <1>1, <1>2, <1>3, <1>4, <1>5
<1>11. Closed(x, Len(s) + Len(h) + Len(o))
  <2>. SUFFICES ASSUME NEW k \in Len(s) + Len(h) + Len(o) + 1 .. Len(x) PROVE x[k] = "r_paren"
    BY DEF Closed
  <2>1. k \in 1 .. Len(b) + Len(p) /\ ~(k <= Len(b)) /\ k - Len(b) \in 1 .. m
    BY <1>1, <1>2, <1>3, <1>4, <1>5, <1>7
  <2>. QED
    BY <1>1, <1>5, <2>1
<1>. QED
  BY <1>5, <1>6, <1>7, <1>8, <1>9, <1>10, <1>11 DEF IsCompletion

(* The expression starts where it did.                                     *)
LEMMA StartStays ==
  ASSUME NEW t, NEW x, Len(t) \in Nat, Len(x) \in Nat,
         NEW q \in Nat, q <= Len(t), q <= Len(x), Agrees(x, t, q),
         NEW c \in Nat \ {0}, c <= q + 1, ExprStarts(t) = {c},
         q = 0 => x = <<>> \/ x[1] # "KW_with"
  PROVE  ExprStarts(x) = {c}
<1>1. CASE t # <<>> /\ t[1] = "KW_with"
  <2>1. /\ c \in 4 .. Len(t) + 1 /\ c % 2 = 0 /\ t[c - 1] = "colon"
        /\ \A p \in 2 .. c - 2 : t[p] = IF p % 2 = 0 THEN "ident" ELSE "comma"
    BY <1>1 DEF ExprStarts
  <2>. DEFINE n == (c - 2) \div 2
  <2>2. n \in Nat \ {0} /\ c = 2 * n + 2
    BY <2>1
  <2>. HIDE DEF n
  <2>3. \A p \in 1 .. 2 * n + 1 : x[p] = t[p]
    <3>1. \A p \in 1 .. 2 * n + 1 : p \in 1 .. q
      BY <2>2
    <3>. QED
      BY <3>1 DEF Agrees
  <2>4. Listed(x, 2 * n) /\ x[2 * n + 1] = "colon" /\ 2 * n + 1 <= Len(x)
    <3>1. c - 1 = 2 * n + 1 /\ c - 2 = 2 * n /\ 2 * n + 1 <= Len(x) /\ 2 * n + 1 \in 1 .. 2 * n + 1
          /\ 1 \in 1 .. 2 * n + 1
          /\ \A p \in 2 .. 2 * n : p \in 1 .. 2 * n + 1
      BY <2>2
    <3>. QED
      BY <1>1, <2>1, <2>3, <3>1 DEF Listed
  <2>. QED
    BY <2>2, <2>4, ListDone
<1>2. CASE t = <<>> \/ t[1] # "KW_with"
  <2>1. c = 1
    BY <1>2, NoList
  <2>2. x = <<>> \/ x[1] # "KW_with"
    <3>1. CASE q = 0
      BY <3>1
    <3>2. CASE q # 0
      <4>1. 1 \in 1 .. q /\ x[1] = t[1]
        BY <3>2 DEF Agrees
      <4>2. t # <<>>
        BY <3>2, EmptySeq
      <4>. QED
        BY <1>2, <4>1, <4>2
    <3>. QED
      BY <3>1, <3>2
  <2>. QED
    BY <2>1, <2>2, NoList
<1>. QED
  BY <1>1, <1>2

-----------------------------------------------------------------------------
(* A frame chain that is there, and the operand it waits for, make a       *)
(* program.                                                                *)
LEMMA SameExpr ==
  ASSUME NEW x, NEW y, Len(x) \in Nat, Len(y) \in Nat, NEW c \in Nat \ {0}, NEW l \in Nat,
         c <= Len(x) + 1, c <= Len(y) + 1, l <= Len(x), l <= Len(y), \A k \in c .. l : y[k] = x[k],
         TreeOn(x, "expr", c, l) # NoTree
  PROVE  TreeOn(y, "expr", c, l) # NoTree
<1>. DEFINE nt == "expr"
<1>1. nt \in Nonterminals
  BY DEF Nonterminals
<1>. HIDE DEF nt
<1>2. TreeOn(y, nt, c, l) = TreeOn(x, nt, c, l)
  BY <1>1, TreeLocal
<1>. QED
  BY <1>2 DEF nt

LEMMA ChainCompletes ==
  ASSUME NEW t, NEW s \in Seq(TokenKinds), Len(t) \in Nat, Len(s) <= Len(t), Agrees(s, t, Len(s)),
         NEW o \in {<<>>, <<"ident">>}, NEW g, NEW w \in Seq(FrameType), NEW b, NEW vs,
         StartsAt(t, vs, b), InRange(w, b, Len(s)), Chain(t, g, w, b),
         Len(s) = 0 => o # <<>>,
         LET x == Completion(s, <<>>, o, Len(s))
         IN TreeOn(x, Called(w, Len(w) + 1), b[Len(w) + 1], Len(s) + Len(o)) # NoTree
  PROVE  Viable(s)
<1>. DEFINE q == Len(s)
            e == q + Len(o)
            x == Completion(s, <<>>, o, q)
            c == b[1]
<1>1. q \in Nat /\ o \in Seq(TokenKinds) /\ Len(o) \in {0, 1} /\ (q = 0 => Len(o) = 1 /\ o[1] = "ident")
      /\ <<>> \in Seq(TokenKinds) /\ Len(<<>>) = 0
  <2>1. <<>> \in Seq(TokenKinds) /\ Len(<<>>) = 0 /\ q \in Nat
    BY LenProperties, EmptySeq
  <2>2. <<"ident">> \in Seq(TokenKinds) /\ Len(<<"ident">>) = 1 /\ <<"ident">>[1] = "ident"
    BY DEF TokenKinds
  <2>. QED
    BY <2>1, <2>2
<1>2. IsCompletion(x, s, <<>>, o, q)
  BY <1>1, CompletionIs
<1>. HIDE DEF x
<1>3. Len(x) = e + q /\ Agrees(x, t, q) /\ Closed(x, e) /\ Len(x) \in Nat /\ e \in Nat /\ q <= e
  <2>1. Len(s) + Len(<<>>) + Len(o) = e /\ Len(s) + Len(<<>>) + Len(o) + q = e + q
    BY <1>1
  <2>2. Agrees(x, t, q)
    BY <1>2 DEF IsCompletion, Agrees
  <2>. QED
    BY <1>1, <1>2, <2>1, <2>2 DEF IsCompletion
<1>4. c \in Nat \ {0} /\ c <= q + 1 /\ ExprStarts(t) = {c}
  <2>1. Len(w) \in Nat /\ 1 \in 1 .. Len(w) + 1
    BY LenProperties
  <2>. QED
    BY <2>1, <1>1 DEF StartsAt, InRange
<1>. HIDE DEF e, q
<1>5. Closes(x, q, e, "expr", c)
  <2>1. InRange(w, b, q) /\ q <= Len(t) /\ b[1] \in Nat \ {0}
    BY <1>1 DEF q, StartsAt
  <2>2. TreeOn(x, Called(w, Len(w) + 1), b[Len(w) + 1], e) # NoTree
    BY DEF q, e, x
  <2>3. e + q <= Len(x)
    BY <1>1, <1>3
  <2>. QED
    BY <1>1, <1>3, <2>1, <2>2, <2>3, ChainCloses
<1>. HIDE DEF c
<1>6. PICK m \in 0 .. q + 1 - c : TreeOn(x, "expr", c, e + m) # NoTree
  BY <1>5 DEF Closes
<1>. DEFINE y == Completion(s, <<>>, o, m)
<1>7. m \in 0 .. q /\ m \in Nat
  BY <1>1, <1>4
<1>8. IsCompletion(y, s, <<>>, o, m)
  BY <1>1, <1>7, CompletionIs
<1>. HIDE DEF y
<1>9. IsProgram(y)
  <2>1. Len(y) = e + m /\ Agrees(y, t, q) /\ Closed(y, e) /\ Len(y) \in Nat
    <3>1. Len(s) + Len(<<>>) + Len(o) = e /\ Len(s) + Len(<<>>) + Len(o) + m = e + m
      BY <1>1 DEF e, q
    <3>2. Agrees(y, t, q)
      BY <1>8 DEF IsCompletion, Agrees, q
    <3>. QED
      BY <1>1, <1>3, <1>7, <1>8, <3>1, <3>2 DEF IsCompletion
  <2>2. \A k \in c .. e + m : y[k] = x[k]
    <3>1. \A k \in 1 .. q : y[k] = x[k]
      BY <1>3, <2>1 DEF Agrees
    <3>2. q + 1 \in 1 .. e => y[q + 1] = x[q + 1] /\ e = q + 1
      <4>1. CASE Len(o) = 0
        <5>1. e = q /\ ~(q + 1 \in 1 .. e)
          BY <1>1, <4>1 DEF e
        <5>. QED
          BY <5>1
      <4>2. CASE Len(o) = 1
        <5>1. 1 \in 1 .. Len(o) /\ Len(s) + Len(<<>>) + 1 = q + 1 /\ e = q + 1
          BY <1>1, <4>2 DEF e, q
        <5>. QED
          BY <1>2, <1>8, <5>1 DEF IsCompletion
      <4>. QED
        BY <1>1, <4>1, <4>2
    <3>3. \A k \in e + 1 .. e + m : y[k] = x[k]
      BY <1>3, <1>7, <1>1, <2>1 DEF Closed
    <3>4. ASSUME NEW k \in c .. e + m PROVE k \in 1 .. q \/ (k = q + 1 /\ k \in 1 .. e) \/ k \in e + 1 .. e + m
      <4>1. e = q \/ e = q + 1
        <5>. DEFINE n == Len(o)
        <5>1. n \in {0, 1} /\ e = q + n
          BY <1>1 DEF e
        <5>. HIDE DEF n
        <5>. QED
          BY <1>1, <5>1
      <4>. QED
        BY <1>1, <1>3, <1>4, <1>7, <4>1
    <3>. QED
      BY <3>1, <3>2, <3>3, <3>4
  <2>3. TreeOn(y, "expr", c, e + m) # NoTree
    <3>1. "expr" \in Nonterminals /\ e + m \in Nat /\ c <= Len(x) + 1 /\ c <= Len(y) + 1
          /\ e + m <= Len(x) /\ e + m <= Len(y)
      BY <1>1, <1>3, <1>4, <1>7, <2>1 DEF Nonterminals
    <3>. DEFINE l == e + m
    <3>a. l \in Nat /\ l <= Len(x) /\ l <= Len(y) /\ \A k \in c .. l : y[k] = x[k]
      BY <2>2, <3>1
    <3>. HIDE DEF l
    <3>2. TreeOn(x, "expr", c, l) # NoTree
      BY <1>6 DEF l
    <3>3. TreeOn(y, "expr", c, l) # NoTree
      BY <1>3, <1>4, <2>1, <3>1, <3>2, <3>a, SameExpr
    <3>. QED
      BY <3>3 DEF l
  <2>4. q = 0 => y = <<>> \/ y[1] # "KW_with"
    <3>1. ASSUME q = 0 PROVE y[1] = "ident"
      <4>1. Len(o) = 1 /\ o[1] = "ident" /\ 1 \in 1 .. Len(o) /\ Len(s) + Len(<<>>) + 1 = 1
        BY <1>1, <3>1 DEF q
      <4>. QED
        BY <1>8, <4>1 DEF IsCompletion
    <3>. QED
      BY <3>1
  <2>5. q <= Len(t) /\ q <= Len(y)
    BY <1>1, <1>3, <1>7, <2>1 DEF q
  <2>6. ExprStarts(y) = {c}
    BY <1>1, <1>4, <2>1, <2>4, <2>5, StartStays
  <2>. QED
    BY <2>1, <2>3, <2>6, TheProgram
<1>. QED
  BY <1>7, <1>9 DEF Viable, Completion, y, q

(* After an operand only parentheses are missing.                          *)
LEMMA OperandCompletes ==
  ASSUME NEW t, NEW s \in Seq(TokenKinds), Len(t) \in Nat, Len(s) <= Len(t), Agrees(s, t, Len(s)),
         NEW g, NEW w \in Seq(FrameType), NEW b, NEW vs,
         StartsAt(t, vs, b), InRange(w, b, Len(s)), Chain(t, g, w, b),
         TreeOn(t, Called(w, Len(w) + 1), b[Len(w) + 1], Len(s)) # NoTree
  PROVE  Viable(s)
<1>. DEFINE q == Len(s)
            m == Len(w) + 1
            nt == Called(w, m)
            i == b[m]
            c == b[1]
            x == Completion(s, <<>>, <<>>, q)
<1>1. q \in Nat /\ q <= Len(t) /\ Agrees(s, t, q) /\ TreeOn(t, nt, i, q) # NoTree
  BY LenProperties
<1>2. m \in 1 .. Len(w) + 1
  BY LenProperties
<1>3. nt \in Nonterminals
  BY <1>2, CalledTyped DEF Functions, Nonterminals
<1>4. c \in Nat \ {0} /\ i \in c .. q + 1
  BY <1>2 DEF StartsAt, InRange
<1>5. <<>> \in Seq(TokenKinds) /\ Len(<<>>) = 0 /\ <<>> \in {<<>>, <<"ident">>}
  BY EmptySeq
<1>6. IsCompletion(x, s, <<>>, <<>>, q)
  BY <1>1, <1>5, CompletionIs
<1>. HIDE DEF x, c, i, nt, m
<1>7. Len(x) = q + q /\ Agrees(x, t, q)
  <2>1. Len(s) + Len(<<>>) + Len(<<>>) + q = q + q
    BY <1>1, <1>5
  <2>2. Agrees(x, t, q)
    BY <1>1, <1>6 DEF IsCompletion, Agrees
  <2>. QED
    BY <1>6, <2>1, <2>2 DEF IsCompletion
<1>. HIDE DEF q
<1>8. i \in Nat \ {0} /\ i <= q + 1 /\ i \in 1 .. Len(t) + 1 /\ q \in 0 .. Len(t)
  BY <1>1, <1>4
<1>9. i <= q
  <2>1. Sentence(t, Depth(t), nt, i, q)
    BY <1>1, <1>3, <1>8, TreeSentence
  <2>. QED
    BY <2>1 DEF Sentence
<1>10. Len(x) \in Nat /\ i <= Len(x) + 1 /\ i <= Len(t) + 1 /\ q <= Len(x) /\ q # 0
  BY <1>1, <1>7, <1>8, <1>9
<1>11. \A k \in i .. q : x[k] = t[k]
  <2>1. \A k \in i .. q : k \in 1 .. q
    BY <1>1, <1>8
  <2>. QED
    BY <1>7, <2>1 DEF Agrees
<1>12. TreeOn(x, nt, i, q) = TreeOn(t, nt, i, q)
  BY <1>1, <1>3, <1>8, <1>10, <1>11, TreeLocal
<1>13. TreeOn(x, nt, i, q) # NoTree /\ Len(s) # 0 /\ Len(s) + Len(<<>>) = q
  BY <1>1, <1>5, <1>10, <1>12 DEF q
<1>14. TreeOn(x, Called(w, Len(w) + 1), b[Len(w) + 1], Len(s) + Len(<<>>)) # NoTree
  BY <1>13 DEF nt, i, m
<1>. QED
  BY <1>5, <1>13, <1>14, ChainCompletes DEF x, q

LEMMA NameIsExpr ==
  ASSUME NEW s, Len(s) \in Nat, NEW i \in 1 .. Len(s), s[i] \in {"ident", "number"}
  PROVE  TreeOn(s, "factor", i, i) # NoTree /\ TreeOn(s, "expr", i, i) # NoTree
<1>1. TreeOn(s, "factor", i, i) # NoTree
  BY LeafRule
<1>2. i \in 1 .. Len(s) + 1 /\ i \in 0 .. Len(s)
  OBVIOUS
<1>3. TreeOn(s, "term", i, i) # NoTree
  BY <1>1, <1>2, LevelReads DEF Below
<1>4. TreeOn(s, "expr", i, i) # NoTree
  BY <1>2, <1>3, LevelReads DEF Below
<1>. QED
  BY <1>1, <1>4

LEMMA ViableIs ==
  ASSUME NEW s \in Seq(TokenKinds), NEW h \in {<<>>, <<"colon">>, <<"ident", "colon">>},
         NEW o \in {<<>>, <<"ident">>}, NEW m \in 0 .. Len(s), IsProgram(Completion(s, h, o, m))
  PROVE  Viable(s)
BY Zenon DEF Viable, Completion

(* A variable list that breaks off can be ended, and a name follows.       *)
LEMMA ListCompletes ==
  ASSUME NEW s \in Seq(TokenKinds), NEW n \in Nat,
         \/ Listed(s, 2 * n + 1) /\ Len(s) = 2 * n + 1
         \/ Listed(s, 2 * n) /\ Len(s) = 2 * n /\ n # 0
  PROVE  Viable(s)
<1>. DEFINE o == <<"ident">>
<1>1. o \in Seq(TokenKinds) /\ Len(o) = 1 /\ o[1] = "ident"
  BY DEF TokenKinds
<1>2. ASSUME NEW l \in Nat \ {0}, NEW x, x \in Seq(TokenKinds), Len(x) = 2 * l + 2, Listed(x, 2 * l),
             x[2 * l + 1] = "colon", x[2 * l + 2] = "ident"
      PROVE  IsProgram(x)
  <2>. DEFINE c == 2 * l + 2
  <2>1. ExprStarts(x) = {c}
    <3>1. 2 * l + 1 <= Len(x) /\ Len(x) \in Nat
      BY <1>2
    <3>. QED
      BY <1>2, <3>1, ListDone
  <2>2. Len(x) \in Nat /\ c \in 1 .. Len(x) /\ x[c] = "ident" /\ c = Len(x)
    BY <1>2
  <2>. HIDE DEF c
  <2>. QED
    BY <2>1, <2>2, NameIsExpr, TheProgram
<1>. HIDE DEF o
<1>3. CASE Listed(s, 2 * n + 1) /\ Len(s) = 2 * n + 1
  <2>. DEFINE h == <<"ident", "colon">>
              x == Completion(s, h, o, 0)
              l == n + 1
  <2>1. h \in Seq(TokenKinds) /\ Len(h) = 2 /\ h[1] = "ident" /\ h[2] = "colon"
    BY DEF TokenKinds
  <2>. HIDE DEF h
  <2>2. IsCompletion(x, s, h, o, 0)
    BY <1>1, <2>1, CompletionIs
  <2>. HIDE DEF x
  <2>3. l \in Nat \ {0} /\ 2 * l = 2 * n + 2 /\ 2 * l + 1 = 2 * n + 3 /\ 2 * l + 2 = 2 * n + 4
    OBVIOUS
  <2>4. /\ x \in Seq(TokenKinds) /\ Len(x) = 2 * n + 4
        /\ x[2 * n + 2] = "ident" /\ x[2 * n + 3] = "colon" /\ x[2 * n + 4] = "ident"
    <3>1. /\ 1 \in 1 .. Len(h) /\ 2 \in 1 .. Len(h) /\ 1 \in 1 .. Len(o)
          /\ Len(s) + 1 = 2 * n + 2 /\ Len(s) + 2 = 2 * n + 3 /\ Len(s) + Len(h) + 1 = 2 * n + 4
          /\ Len(s) + Len(h) + Len(o) + 0 = 2 * n + 4
      BY <1>1, <1>3, <2>1
    <3>. QED
      BY <1>1, <2>1, <2>2, <3>1 DEF IsCompletion
  <2>5. Listed(x, 2 * l)
    <3>1. \A p \in 1 .. 2 * n + 1 : x[p] = s[p]
      BY <1>3, <2>2 DEF IsCompletion, Agrees
    <3>2. x[1] = "KW_with"
      <4>1. 1 \in 1 .. 2 * n + 1
        OBVIOUS
      <4>. QED
        BY <1>3, <3>1, <4>1 DEF Listed
    <3>3. ASSUME NEW p \in 2 .. 2 * n + 2 PROVE x[p] = IF p % 2 = 0 THEN "ident" ELSE "comma"
      <4>1. CASE p = 2 * n + 2
        <5>1. p % 2 = 0
          BY <4>1
        <5>. QED
          BY <2>4, <4>1, <5>1
      <4>2. CASE p # 2 * n + 2
        <5>1. p \in 2 .. 2 * n + 1 /\ p \in 1 .. 2 * n + 1
          BY <4>2
        <5>. QED
          BY <1>3, <3>1, <5>1 DEF Listed
      <4>. QED
        BY <4>1, <4>2
    <3>. QED
      BY <2>3, <3>2, <3>3 DEF Listed
  <2>. HIDE DEF l
  <2>6. IsProgram(x)
    BY <1>2, <2>3, <2>4, <2>5
  <2>7. h \in {<<>>, <<"colon">>, <<"ident", "colon">>} /\ o \in {<<>>, <<"ident">>}
    BY Zenon DEF h, o
  <2>8. 0 \in 0 .. Len(s)
    BY LenProperties
  <2>. QED
    BY <2>6, <2>7, <2>8, ViableIs DEF x
<1>4. CASE Listed(s, 2 * n) /\ Len(s) = 2 * n /\ n # 0
  <2>. DEFINE h == <<"colon">>
              x == Completion(s, h, o, 0)
  <2>1. h \in Seq(TokenKinds) /\ Len(h) = 1 /\ h[1] = "colon"
    BY DEF TokenKinds
  <2>. HIDE DEF h
  <2>2. IsCompletion(x, s, h, o, 0)
    BY <1>1, <2>1, CompletionIs
  <2>. HIDE DEF x
  <2>3. /\ x \in Seq(TokenKinds) /\ Len(x) = 2 * n + 2
        /\ x[2 * n + 1] = "colon" /\ x[2 * n + 2] = "ident"
    <3>1. /\ 1 \in 1 .. Len(h) /\ 1 \in 1 .. Len(o)
          /\ Len(s) + 1 = 2 * n + 1 /\ Len(s) + Len(h) + 1 = 2 * n + 2
          /\ Len(s) + Len(h) + Len(o) + 0 = 2 * n + 2
      BY <1>1, <1>4, <2>1
    <3>. QED
      BY <1>1, <2>1, <2>2, <3>1 DEF IsCompletion
  <2>4. Listed(x, 2 * n)
    <3>1. \A p \in 1 .. 2 * n : x[p] = s[p]
      BY <1>4, <2>2 DEF IsCompletion, Agrees
    <3>2. 1 \in 1 .. 2 * n /\ \A p \in 2 .. 2 * n : p \in 1 .. 2 * n
      BY <1>4
    <3>. QED
      BY <1>4, <3>1, <3>2 DEF Listed
  <2>5. IsProgram(x)
    BY <1>2, <1>4, <2>3, <2>4
  <2>6. h \in {<<>>, <<"colon">>, <<"ident", "colon">>} /\ o \in {<<>>, <<"ident">>}
    BY Zenon DEF h, o
  <2>7. 0 \in 0 .. Len(s)
    BY LenProperties
  <2>. QED
    BY <2>5, <2>6, <2>7, ViableIs DEF x
<1>. QED
  BY <1>3, <1>4

-----------------------------------------------------------------------------
LEMMA ConsumedIsRead ==
  ASSUME TypeOK, LookaheadIsLast
  PROVE  /\ Consumed \in Seq(TokenKinds) /\ Len(Consumed) = Seen /\ Seen \in Nat
         /\ Len(input) \in Nat /\ Seen <= Len(input) /\ Agrees(input, Consumed, Seen)
<1>1. input \in Seq(TokenKinds) /\ Len(input) \in Nat /\ \A k \in 1 .. Len(input) : input[k] \in TokenKinds
  BY OwnFuture, LenProperties, ElementOfSeq
<1>2. CASE tok = "eoi"
  BY <1>1, <1>2 DEF Consumed, Seen, Agrees
<1>3. CASE tok # "eoi"
  <2>. DEFINE n == Len(input) - 1
  <2>1. n \in Nat /\ n + 1 = Len(input)
    BY <1>1, <1>3, EmptySeq DEF LookaheadIsLast
  <2>2. Consumed = SubSeq(input, 1, n) /\ Seen = n
    BY <1>3 DEF Consumed, Seen
  <2>3. \A k \in 1 .. n : input[k] \in TokenKinds /\ k \in 1 .. Len(input)
    BY <1>1, <2>1
  <2>. HIDE DEF n
  <2>4. /\ SubSeq(input, 1, n) \in Seq(TokenKinds)
        /\ Len(SubSeq(input, 1, n)) = IF 1 <= n THEN n - 1 + 1 ELSE 0
        /\ \A i \in 1 .. n - 1 + 1 : SubSeq(input, 1, n)[i] = input[1 + i - 1]
    BY <2>1, <2>3, SubSeqProperties
  <2>5. n - 1 + 1 = n /\ \A i \in 1 .. n : 1 + i - 1 = i
    BY <2>1
  <2>6. Len(SubSeq(input, 1, n)) = n /\ \A i \in 1 .. n : SubSeq(input, 1, n)[i] = input[i]
    BY <2>1, <2>4, <2>5
  <2>. QED
    BY <1>1, <2>1, <2>2, <2>4, <2>6 DEF Agrees
<1>. QED
  BY <1>2, <1>3

(* The error is not early.                                                 *)
LEMMA ErrorNotEarly ==
  ASSUME ParserInv, ~err, DeclareError \/ FactorBadToken \/ FactorUnclosed \/ CalcTailError
  PROVE  Viable(Consumed)
<1>. DEFINE s == Consumed
            q == Seen
            t == input
<1>1. TypeOK /\ Typed /\ Shape /\ LookaheadIsLast /\ ReadsRight /\ stack \in Seq(FrameType)
  BY DEF ParserInv, IInv, Typed, Shape, TypeOK
<1>2. Reads(t)
  BY <1>1, OwnFuture DEF ReadsRight
<1>3. s \in Seq(TokenKinds) /\ Len(s) = q /\ q \in Nat /\ Len(t) \in Nat /\ q <= Len(t) /\ Agrees(t, s, q)
  BY <1>1, ConsumedIsRead
<1>a. Agrees(s, t, q)
  BY <1>3 DEF Agrees
<1>. HIDE DEF s
<1>4. CASE DeclareError
  <2>. DEFINE n == Len(vars)
  <2>1. ListRead(t) /\ pc \in {"declare", "declared"}
    BY <1>2, <1>4 DEF DeclareError, Reads
  <2>2. n \in Nat /\ (pc = "declared" => n # 0)
        /\ q = (IF pc = "declare" THEN 2 * n + 1 ELSE 2 * n)
    <3>1. vars \in Seq(Nat)
      BY <1>1 DEF TypeOK
    <3>. QED
      BY <2>1, <3>1, LenProperties, EmptySeq DEF ListRead
  <2>3. Listed(s, q)
    <3>1. t[1] = "KW_with" /\ \A p \in 2 .. q : t[p] = IF p % 2 = 0 THEN "ident" ELSE "comma"
      BY <2>1 DEF ListRead
    <3>. HIDE DEF q, n
    <3>2. 1 \in 1 .. q /\ \A p \in 2 .. q : p \in 1 .. q
      BY <1>3, <2>1, <2>2
    <3>. QED
      BY <1>a, <3>1, <3>2 DEF Agrees, Listed
  <2>. HIDE DEF n, q
  <2>. QED
    BY <1>3, <2>1, <2>2, <2>3, ListCompletes DEF s
<1>5. CASE FactorBadToken
  <2>1. pc = "enter" /\ stack # <<>> /\ Top.fn = "factor"
    BY <1>1, <1>5 DEF FactorBadToken, Typed, FrameWhenRunning
  <2>2. PICK b \in [Nat -> Nat] : Within(t, b)
    BY <1>2, <2>1 DEF Reads
  <2>. DEFINE w == Rest
  <2>3. EnteredAt(t, b, w)
    BY <1>1, <2>1, <2>2, Entered
  <2>. HIDE DEF w
  <2>4. /\ w \in Seq(FrameType) /\ StartsAt(t, vars, b) /\ InRange(w, b, q) /\ Chain(t, heap, w, b)
        /\ b[Len(w) + 1] = q + 1 /\ Called(w, Len(w) + 1) = "factor"
    BY <2>1, <2>3 DEF EnteredAt
  <2>. HIDE DEF q
  <2>. DEFINE o == <<"ident">>
              x == Completion(s, <<>>, o, Len(s))
  <2>5. o \in Seq(TokenKinds) /\ Len(o) = 1 /\ o[1] = "ident" /\ o # <<>>
    BY DEF TokenKinds
  <2>6. <<>> \in Seq(TokenKinds) /\ Len(<<>>) = 0
    BY EmptySeq
  <2>7. o \in {<<>>, <<"ident">>}
    OBVIOUS
  <2>. HIDE DEF o
  <2>8. IsCompletion(x, s, <<>>, o, q)
    BY <1>3, <2>5, <2>6, CompletionIs
  <2>. HIDE DEF x
  <2>9. Len(x) = q + 1 + q /\ Len(x) \in Nat /\ x[q + 1] = "ident" /\ q + 1 \in 1 .. Len(x)
    <3>1. /\ Len(s) + Len(<<>>) + 1 = q + 1 /\ 1 \in 1 .. Len(o)
          /\ Len(s) + Len(<<>>) + Len(o) + q = q + 1 + q
      BY <1>3, <2>5, <2>6
    <3>2. Len(x) = q + 1 + q /\ x[q + 1] = "ident"
      BY <2>5, <2>8, <3>1 DEF IsCompletion
    <3>. QED
      BY <1>3, <3>2
  <2>10. TreeOn(x, Called(w, Len(w) + 1), b[Len(w) + 1], Len(s) + Len(o)) # NoTree
    <3>1. TreeOn(x, "factor", q + 1, q + 1) # NoTree
      BY <2>9, NameIsExpr
    <3>. QED
      BY <1>3, <2>4, <2>5, <3>1
  <2>. QED
    BY <1>3, <1>a, <2>4, <2>5, <2>7, <2>10, ChainCompletes DEF s, x
<1>6. CASE FactorUnclosed \/ CalcTailError
  <2>1. pc = "resume"
    BY <1>6 DEF FactorUnclosed, CalcTailError
  <2>2. PICK b \in [Nat -> Nat] : Within(t, b)
    BY <1>2, <2>1 DEF Reads
  <2>3. /\ StartsAt(t, vars, b) /\ InRange(stack, b, q) /\ Chain(t, heap, stack, b)
        /\ TreeOn(t, Called(stack, Len(stack) + 1), b[Len(stack) + 1], q) # NoTree
    BY <2>1, <2>2 DEF Within, Waiting, Resuming
  <2>. HIDE DEF q
  <2>4. Viable(s)
    BY <1>1, <1>3, <1>a, <2>3, OperandCompletes
  <2>. QED
    BY <2>4 DEF s
<1>. QED
  BY <1>4, <1>5, <1>6

(* The error is not late: nothing the text may turn into is a program.     *)
LEMMA ErrorNotLate ==
  ASSUME TypeOK, TypeOK', ReadsRight', err', UNCHANGED <<input, tok>>
  PROVE  ~ IF tok = "eoi" THEN IsProgram(input) ELSE Viable(input)
<1>1. ASSUME NEW x, x \in Seq(TokenKinds), Extends(input, x), tok = "eoi" => x = input
      PROVE  ~IsProgram(x)
  <2>1. Future(x)'
    BY <1>1 DEF Future
  <2>2. Reads(x)'
    BY <2>1 DEF ReadsRight
  <2>. QED
    BY <2>2 DEF Reads
<1>2. CASE tok = "eoi"
  BY <1>1, <1>2, OwnFuture DEF Future
<1>3. CASE tok # "eoi"
  <2>. SUFFICES ASSUME NEW h \in {<<>>, <<"colon">>, <<"ident", "colon">>}, NEW o \in {<<>>, <<"ident">>},
                       NEW m \in 0 .. Len(input)
                PROVE  ~IsProgram(Completion(input, h, o, m))
    BY <1>3 DEF Viable, Completion
  <2>. DEFINE x == Completion(input, h, o, m)
  <2>1. input \in Seq(TokenKinds) /\ Len(input) \in Nat
    BY OwnFuture, LenProperties
  <2>2. h \in Seq(TokenKinds) /\ o \in Seq(TokenKinds) /\ m \in Nat
    <3>1. /\ <<>> \in Seq(TokenKinds) /\ <<"ident">> \in Seq(TokenKinds)
          /\ <<"colon">> \in Seq(TokenKinds) /\ <<"ident", "colon">> \in Seq(TokenKinds)
      BY EmptySeq DEF TokenKinds
    <3>2. h \in Seq(TokenKinds)
      BY <3>1, Zenon
    <3>3. o \in Seq(TokenKinds)
      BY <3>1, Zenon
    <3>4. m \in Nat
      BY <2>1
    <3>. QED
      BY <3>2, <3>3, <3>4
  <2>3. IsCompletion(x, input, h, o, m)
    BY <2>1, <2>2, CompletionIs
  <2>. HIDE DEF x
  <2>4. x \in Seq(TokenKinds) /\ Extends(input, x)
    <3>1. Len(h) \in Nat /\ Len(o) \in Nat
      BY <2>2, LenProperties
    <3>2. Len(input) <= Len(x)
      BY <2>1, <2>2, <2>3, <3>1 DEF IsCompletion
    <3>. QED
      BY <2>3, <3>2 DEF IsCompletion, Extends, Agrees
  <2>. QED
    BY <1>1, <1>3, <2>4 DEF x
<1>. QED
  BY <1>2, <1>3

(* The first error is reported at the first token that no program has      *)
(* there, and at the end of the text only when it is no program            *)
(* (calc-language's Parser: every call of error()).                        *)
THEOREM FirstErrorsAreExact == Spec => FirstErrorIsExact
<1>1. ASSUME ParserInv, ParserInv', [Next]_pvars, ~err, err'
      PROVE  Viable(Consumed) /\ ~ IF tok = "eoi" THEN IsProgram(input) ELSE Viable(input)
  <2>1. TypeOK /\ TypeOK' /\ ReadsRight' /\ RecoveryIsReported /\ EndIsRead
    BY <1>1 DEF ParserInv, IInv, Typed
  <2>2. DeclareError \/ FactorBadToken \/ FactorUnclosed \/ CalcTailError
    BY <1>1, <2>1 DEF Next, ParseStep, pvars, lexVars, CalcWith, CalcNoWith, DeclareIdent, DeclareComma,
           DeclareColon, EnterLevel, LevelOperator, LevelReturn, FactorLeaf, FactorParen,
           FactorClose, Skip, SkipDone, CalcTail, Recover, RecoverDone, ParseReturn, EndIsRead
  <2>3. UNCHANGED <<input, tok>>
    BY <2>2 DEF DeclareError, FactorBadToken, FactorUnclosed, CalcTailError, Error
  <2>4. Viable(Consumed)
    BY <1>1, <2>2, ErrorNotEarly
  <2>. QED
    BY <1>1, <2>1, <2>3, <2>4, ErrorNotLate
<1>2. ParserInv /\ ParserInv' /\ [Next]_pvars =>
        [~err /\ err' => /\ Viable(Consumed)
                         /\ ~ IF tok = "eoi" THEN IsProgram(input) ELSE Viable(input)]_pvars
  BY <1>1
<1>. QED
  BY <1>2, ParserInvariant, PTL DEF Spec, FirstErrorIsExact

-----------------------------------------------------------------------------
(* How much parsing costs.                                                 *)
LEMMA CostTyped == Typed => Cost \in Nat
<1>. SUFFICES ASSUME Typed PROVE Cost \in Nat
  OBVIOUS
<1>1. Ahead \in Nat /\ Len(stack) \in Nat
  BY LenProperties DEF Typed, TypeOK, Ahead
<1>2. BeforeReading \in Nat
  <2>1. pc = "enter" => Top.fn \in Functions
    BY TopTyped DEF Typed, FrameWhenRunning
  <2>. QED
    BY <2>1 DEF Typed, TypeOK, BeforeReading, BeforeCalls, Functions
<1>. QED
  BY <1>1, <1>2 DEF Cost

(* Reading on uses up at least one of the tokens ahead.                    *)
LEMMA AdvanceUses ==
  ASSUME TypeOK, Advance, tok # "eoi"
  PROVE  Ahead' + 1 <= Ahead /\ Ahead' \in Int /\ Ahead \in Int
BY KindsAssumption DEF TypeOK, Advance, NextToken, Ahead

LEMMA ErrorUses ==
  ASSUME TypeOK, Error
  PROVE  Ahead' <= Ahead /\ Ahead' \in Int /\ Ahead \in Int
BY BoundsAssumption DEF TypeOK, Error, FuelAfterError, Ahead

(* The height and the top of a stack that something was pushed on.         *)
LEMMA PushedOn ==
  ASSUME NEW s \in Seq(FrameType), NEW f \in Functions
  PROVE  /\ Append(s, Frame(f)) \in Seq(FrameType) /\ Len(Append(s, Frame(f))) = Len(s) + 1
         /\ Append(s, Frame(f))[Len(Append(s, Frame(f)))].fn = f
<1>1. Frame(f) \in FrameType /\ Frame(f).fn = f
  BY DEF Frame, FrameType, Null
<1>. QED
  BY <1>1, AppendProperties

LEMMA StepCosts ==
  ASSUME Typed, Next
  PROVE  Cost' < Cost
<1>. DEFINE n == Len(stack)
            a == Ahead
            b == BeforeReading
<1>1. TypeOK /\ n \in Nat /\ a \in Nat
  BY LenProperties DEF Typed, TypeOK, Ahead
<1>2. stack # <<>> =>
        /\ n >= 1 /\ Len(Rest) = n - 1 /\ Rest \in Seq(FrameType) /\ Top.fn \in Functions
  BY <1>1, TopTyped, StackParts DEF TypeOK, Rest
<1>3. pc \in {"enter", "skip"} => stack # <<>>
  BY DEF Typed, FrameWhenRunning
<1>4. SUFFICES 12 * a' + 3 * n' + b' < 12 * a + 3 * n + b
  BY DEF Cost
<1>5. Advance /\ tok # "eoi" => a' + 1 <= a /\ a' \in Int
  BY <1>1, AdvanceUses
<1>6. Error => a' <= a /\ a' \in Int
  BY <1>1, ErrorUses
<1>7. UNCHANGED lexVars => a' = a
  BY DEF lexVars, Ahead
<1>8. CallExpr => n' = 1 /\ b' = 11
  <2>1. ASSUME CallExpr
        PROVE  n' = 1 /\ Top.fn' = "expr" /\ pc' = "enter"
    BY <2>1 DEF CallExpr, Frame, Top
  <2>. QED
    BY <2>1 DEF BeforeReading, BeforeCalls
<1>9. \A p : Return(p) /\ stack # <<>> => n' = n - 1 /\ b' = 3
  BY <1>2 DEF Return, BeforeReading
<1>. HIDE DEF a, n, b
<1>10. CASE CalcWith
  <2>1. b = 15 /\ b' = 15 /\ n' = n /\ Advance /\ tok # "eoi"
    BY <1>10 DEF CalcWith, BeforeReading, n, b
  <2>. QED
    BY <1>1, <1>5, <2>1
<1>11. CASE CalcNoWith
  <2>1. b = 15 /\ CallExpr /\ UNCHANGED lexVars
    BY <1>11 DEF CalcNoWith, BeforeReading, b
  <2>. QED
    BY <1>1, <1>7, <1>8, <2>1
<1>12. CASE DeclareIdent \/ DeclareComma
  <2>1. b = 15 /\ b' = 15 /\ n' = n /\ Advance /\ tok # "eoi"
    BY <1>12 DEF DeclareIdent, DeclareComma, BeforeReading, n, b
  <2>. QED
    BY <1>1, <1>5, <2>1
<1>13. CASE DeclareColon
  <2>1. b = 15 /\ CallExpr /\ Advance /\ tok # "eoi"
    BY <1>13 DEF DeclareColon, BeforeReading, b
  <2>. QED
    BY <1>1, <1>5, <1>8, <2>1
<1>14. CASE DeclareError
  <2>1. b = 15 /\ b' = 2 /\ n' = n /\ Error
    BY <1>14 DEF DeclareError, BeforeReading, n, b
  <2>. QED
    BY <1>1, <1>6, <2>1
<1>15. CASE EnterLevel
  <2>1. /\ pc = "enter" /\ pc' = "enter" /\ UNCHANGED lexVars /\ stack' = Append(stack, Frame(Below(Top.fn)))
        /\ Top.fn \in {"expr", "term"} /\ stack \in Seq(FrameType)
    BY <1>1, <1>2, <1>3, <1>15 DEF EnterLevel, Functions, TypeOK
  <2>2. Below(Top.fn) \in Functions
    BY <2>1 DEF Below, Functions
  <2>3. n' = n + 1 /\ Top.fn' = Below(Top.fn)
    BY <2>1, <2>2, PushedOn DEF n, Top
  <2>4. (b = 11 /\ b' = 7) \/ (b = 7 /\ b' = 3)
    BY <2>1, <2>3 DEF b, BeforeReading, BeforeCalls, Below
  <2>5. a' = a /\ n' = n + 1
    BY <1>7, <2>1, <2>3
  <2>. QED
    BY <1>1, <2>4, <2>5
<1>16. CASE LevelOperator
  <2>. DEFINE f == [fn |-> Top.fn, left |-> Joined, op |-> tok]
  <2>1. /\ pc = "resume" /\ pc' = "enter" /\ Advance /\ tok # "eoi" /\ stack # <<>>
        /\ stack' = Append(Append(Rest, f), Frame(Below(Top.fn)))
        /\ Top.fn \in {"expr", "term"} /\ tok \in Operators
    BY <1>2, <1>16 DEF LevelOperator, Functions, LevelOps, Operators
  <2>2. Below(Top.fn) \in Functions /\ Below(Top.fn) # "expr"
    BY <2>1 DEF Below, Functions
  <2>3. f \in FrameType
    <3>1. Joined \in Nat
      BY <1>1, LenProperties DEF Joined, TypeOK
    <3>. QED
      BY <1>2, <2>1, <3>1 DEF FrameType
  <2>. HIDE DEF f
  <2>4. Append(Rest, f) \in Seq(FrameType) /\ Len(Append(Rest, f)) = n
    BY <1>1, <1>2, <2>1, <2>3, AppendProperties
  <2>5. n' = n + 1 /\ Top.fn' = Below(Top.fn)
    BY <2>1, <2>2, <2>4, PushedOn DEF n, Top
  <2>6. b = 3 /\ b' \in {3, 7}
    BY <2>1, <2>2, <2>5 DEF b, BeforeReading, BeforeCalls, Functions
  <2>. QED
    BY <1>1, <1>5, <2>1, <2>5, <2>6
<1>17. CASE LevelReturn
  <2>1. b = 3 /\ Return(Joined) /\ stack # <<>> /\ UNCHANGED lexVars
    BY <1>17 DEF LevelReturn, BeforeReading, b
  <2>2. n' = n - 1 /\ b' = 3
    BY <1>9, <2>1
  <2>. QED
    BY <1>1, <1>7, <2>1, <2>2
<1>18. CASE FactorLeaf
  <2>1. b = 3 /\ Return(Len(heap) + 1) /\ stack # <<>> /\ Advance /\ tok # "eoi"
    BY <1>3, <1>18 DEF FactorLeaf, BeforeReading, BeforeCalls, b
  <2>2. n' = n - 1 /\ b' = 3
    BY <1>9, <2>1
  <2>. QED
    BY <1>1, <1>5, <2>1, <2>2
<1>19. CASE FactorParen
  <2>1. /\ pc = "enter" /\ pc' = "enter" /\ Top.fn = "factor" /\ Advance /\ tok # "eoi"
        /\ stack' = Append(stack, Frame("expr")) /\ stack \in Seq(FrameType) /\ "expr" \in Functions
    BY <1>1, <1>19 DEF FactorParen, Functions, TypeOK
  <2>2. n' = n + 1 /\ Top.fn' = "expr"
    BY <2>1, PushedOn DEF n, Top
  <2>3. b = 3 /\ b' = 11
    BY <2>1, <2>2 DEF b, BeforeReading, BeforeCalls
  <2>. QED
    BY <1>1, <1>5, <2>1, <2>2, <2>3
<1>20. CASE FactorBadToken
  <2>1. b = 3 /\ b' = 2 /\ n' = n /\ Error
    BY <1>20 DEF FactorBadToken, BeforeReading, BeforeCalls, n, b
  <2>. QED
    BY <1>1, <1>6, <2>1
<1>21. CASE FactorClose
  <2>1. b = 3 /\ Return(ret) /\ stack # <<>> /\ Advance /\ tok # "eoi"
    BY <1>21 DEF FactorClose, BeforeReading, b
  <2>2. n' = n - 1 /\ b' = 3
    BY <1>9, <2>1
  <2>. QED
    BY <1>1, <1>5, <2>1, <2>2
<1>22. CASE FactorUnclosed
  <2>. DEFINE f == [Top EXCEPT !.left = ret]
  <2>1. b = 3 /\ b' = 2 /\ Error /\ stack # <<>> /\ stack' = Append(Rest, f)
    BY <1>22 DEF FactorUnclosed, BeforeReading, b
  <2>. HIDE DEF f
  <2>2. n' = n
    <3>1. Len(Append(Rest, f)) = Len(Rest) + 1
      <4>1. f \in FrameType
        BY <1>1, <2>1, TopTyped DEF f, FrameType, TypeOK
      <4>. QED
        BY <1>2, <2>1, <4>1, AppendProperties
    <3>. QED
      BY <1>1, <1>2, <2>1, <3>1 DEF n
  <2>. QED
    BY <1>1, <1>6, <2>1, <2>2
<1>23. CASE Skip \/ Recover
  <2>1. b = 2 /\ b' = 2 /\ n' = n /\ Advance /\ tok # "eoi"
    BY <1>23 DEF Skip, Recover, SyncTokens, BeforeReading, n, b
  <2>. QED
    BY <1>1, <1>5, <2>1
<1>24. CASE SkipDone
  <2>1. b = 2 /\ Return(Top.left) /\ stack # <<>> /\ UNCHANGED lexVars
    BY <1>3, <1>24 DEF SkipDone, BeforeReading, b
  <2>2. n' = n - 1 /\ b' = 3
    BY <1>9, <2>1
  <2>. QED
    BY <1>1, <1>7, <2>1, <2>2
<1>25. CASE CalcTail
  <2>1. b = 3 /\ b' = 1 /\ n' = n /\ UNCHANGED lexVars
    BY <1>25 DEF CalcTail, BeforeReading, n, b
  <2>. QED
    BY <1>1, <1>7, <2>1
<1>26. CASE CalcTailError
  <2>1. b = 3 /\ b' = 2 /\ n' = n /\ Error
    BY <1>26 DEF CalcTailError, BeforeReading, n, b
  <2>. QED
    BY <1>1, <1>6, <2>1
<1>27. CASE RecoverDone
  <2>1. b = 2 /\ b' = 1 /\ n' = n /\ UNCHANGED lexVars
    BY <1>27 DEF RecoverDone, BeforeReading, n, b
  <2>. QED
    BY <1>1, <1>7, <2>1
<1>28. CASE ParseReturn
  <2>1. b = 1 /\ b' = 0 /\ n' = n /\ (Error \/ UNCHANGED lexVars)
    BY <1>28 DEF ParseReturn, BeforeReading, n, b
  <2>. QED
    BY <1>1, <1>6, <1>7, <2>1
<1>. QED
  BY <1>10, <1>11, <1>12, <1>13, <1>14, <1>15, <1>16, <1>17, <1>18, <1>19, <1>20, <1>21, <1>22, <1>23,
     <1>24, <1>25, <1>26, <1>27, <1>28 DEF Next, ParseStep

(* Parsing takes at most 12 steps a token and 15 more, for texts of every  *)
(* length and nesting (Parser::parse with its recovery): Cost starts there *)
(* and every step lowers it within the natural numbers.                    *)
THEOREM ParserTakesLinearTime ==
  Spec => (Cost <= 12 * MaxTokens + 15) /\ [](Cost \in Nat) /\ StepsAreCounted
<1>1. Init => Cost <= 12 * MaxTokens + 15
  <2>. SUFFICES ASSUME Init PROVE Cost <= 12 * MaxTokens + 15
    OBVIOUS
  <2>1. Len(stack) = 0 /\ BeforeReading = 15
    BY EmptySeq DEF Init, BeforeReading
  <2>2. Ahead \in Nat /\ Ahead <= MaxTokens /\ MaxTokens \in Nat
    <3>1. CASE tok = "eoi" /\ fuel = 0
      BY <3>1, BoundsAssumption DEF Ahead
    <3>2. CASE tok \in Kinds /\ MaxTokens > 0 /\ fuel = MaxTokens - 1
      BY <3>2, BoundsAssumption DEF Ahead
    <3>. QED
      BY <3>1, <3>2 DEF Init
  <2>. QED
    BY <2>1, <2>2 DEF Cost
<1>2. Typed /\ [Next]_pvars => [Cost' < Cost]_pvars
  BY StepCosts
<1>3. Spec => []Typed
  BY InitTyped, NextTyped, PTL DEF Spec
<1>. QED
  BY <1>1, <1>2, <1>3, CostTyped, PTL DEF Spec, StepsAreCounted
=============================================================================
