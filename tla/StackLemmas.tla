----------------------------- MODULE StackLemmas -----------------------------
(***************************************************************************)
(* A sequence used as a stack: its top s[Len(s)] and the rest below it.    *)
(* And induction on numbers, stated with a set in place of a predicate.    *)
(***************************************************************************)
EXTENDS Integers, Sequences, SequenceTheorems, WellFoundedInduction, TLAPS

(* The last frame of a non-empty stack and the frames below it.            *)
LEMMA StackParts ==
  ASSUME NEW S, NEW s \in Seq(S), s # <<>>
  PROVE  /\ Len(s) \in Nat \ {0}
         /\ s[Len(s)] \in S
         /\ SubSeq(s, 1, Len(s) - 1) \in Seq(S)
         /\ Len(SubSeq(s, 1, Len(s) - 1)) = Len(s) - 1
         /\ \A k \in 1 .. Len(s) - 1 : SubSeq(s, 1, Len(s) - 1)[k] = s[k]
<1>1. Len(s) \in Nat \ {0}
  BY EmptySeq
<1>2. \A k \in 1 .. Len(s) : s[k] \in S
  BY ElementOfSeq
<1>3. 1 \in Int /\ Len(s) - 1 \in Int /\ \A k \in 1 .. Len(s) - 1 : s[k] \in S
  BY <1>1, <1>2
<1>. DEFINE n == Len(s) - 1
<1>4. /\ SubSeq(s, 1, n) \in Seq(S)
      /\ Len(SubSeq(s, 1, n)) = IF 1 <= n THEN n - 1 + 1 ELSE 0
      /\ \A k \in 1 .. n - 1 + 1 : SubSeq(s, 1, n)[k] = s[1 + k - 1]
  BY <1>3, SubSeqProperties
<1>5. n \in Nat /\ Len(SubSeq(s, 1, n)) = n
  <2>1. n \in Nat
    BY <1>1
  <2>. HIDE DEF n
  <2>. QED
    BY <2>1, <1>4
<1>6. ASSUME NEW k \in 1 .. n
      PROVE  SubSeq(s, 1, n)[k] = s[k]
  <2>1. k \in 1 .. n - 1 + 1 /\ 1 + k - 1 = k
    BY <1>5
  <2>. QED
    BY <1>4, <2>1
<1>. QED
  BY <1>1, <1>2, <1>4, <1>5, <1>6

(* A nonempty stack is its top pushed on the rest.                         *)
LEMMA StackIsTopOnRest ==
  ASSUME NEW S, NEW s \in Seq(S), s # <<>>
  PROVE  s = Append(SubSeq(s, 1, Len(s) - 1), s[Len(s)])
<1> DEFINE r == SubSeq(s, 1, Len(s) - 1)
           t == Append(r, s[Len(s)])
<1>1. /\ Len(s) \in Nat \ {0} /\ s[Len(s)] \in S
      /\ r \in Seq(S) /\ Len(r) = Len(s) - 1
      /\ \A k \in 1 .. Len(s) - 1 : r[k] = s[k]
  BY StackParts
<1> HIDE DEF r
<1>2. t \in Seq(S) /\ Len(t) = Len(s)
  BY <1>1
<1>3. \A k \in 1 .. Len(s) : t[k] = s[k]
  BY <1>1
<1> QED BY <1>2, <1>3, SeqEqual

-----------------------------------------------------------------------------
(* A set holds every number if it holds each whose predecessors it holds.  *)
LEMMA CourseOfValues ==
  ASSUME NEW S, \A n \in Nat : (\A m \in Nat : m < n => m \in S) => n \in S
  PROVE  \A n \in Nat : n \in S
<1>. DEFINE R == OpToRel(<, Nat)
            D == Nat \ S
<1>1. IsWellFoundedOn(R, Nat)
  BY NatLessThanWellFounded
<1>2. \A x, y \in Nat : <<y, x>> \in R <=> y < x
  BY DEF OpToRel
<1>. HIDE DEF R
<1>3. ASSUME D # {}
      PROVE  \E x \in D : \A y \in D : ~(<<y, x>> \in R)
  <2>1. D \subseteq Nat
    OBVIOUS
  <2>. HIDE DEF D
  <2>. QED
    BY <1>1, <1>3, <2>1, WFMin
<1>4. ASSUME D # {} PROVE FALSE
  <2>1. PICK x \in D : \A y \in D : ~(y < x)
    BY <1>2, <1>3, <1>4
  <2>2. \A m \in Nat : m < x => m \in S
    BY <2>1
  <2>. QED
    BY <2>1, <2>2
<1>. QED
  BY <1>4

LEMMA StepByStep ==
  ASSUME NEW S, 0 \in S, \A n \in Nat : n \in S => n + 1 \in S
  PROVE  \A n \in Nat : n \in S
<1>1. ASSUME NEW n \in Nat, \A m \in Nat : m < n => m \in S
      PROVE  n \in S
  <2>1. CASE n = 0
    BY <2>1
  <2>2. CASE n # 0
    <3>1. n - 1 \in Nat /\ n - 1 < n
      BY <2>2
    <3>2. n - 1 \in S
      BY <1>1, <3>1
    <3>3. (n - 1) + 1 \in S
      BY <3>1, <3>2
    <3>. QED
      BY <3>3
  <2>. QED
    BY <2>1, <2>2
<1>. QED
  BY <1>1, CourseOfValues

(* A non-empty set of numbers of an interval has a greatest.               *)
LEMMA GreatestExists ==
  ASSUME NEW N \in Nat, NEW T, T \subseteq 1 .. N, T # {}
  PROVE  \E k \in T : \A j \in T : j <= k
<1>. DEFINE R == OpToRel(<, Nat)
            D == {N - k : k \in T}
<1>1. D \subseteq Nat /\ D # {}
  <2>1. \A k \in T : k \in 1 .. N
    OBVIOUS
  <2>2. \A k \in T : N - k \in Nat
    BY <2>1
  <2>. QED
    BY <2>2
<1>2. IsWellFoundedOn(R, Nat)
  BY NatLessThanWellFounded
<1>3. \A x, y \in Nat : <<y, x>> \in R <=> y < x
  BY DEF OpToRel
<1>. HIDE DEF R
<1>4. \E x \in D : \A y \in D : ~(<<y, x>> \in R)
  <2>. HIDE DEF D
  <2>. QED
    BY <1>1, <1>2, WFMin
<1>5. PICK x \in D : \A y \in D : ~(y < x)
  BY <1>1, <1>3, <1>4
<1>6. PICK k \in T : x = N - k
  BY <1>5
<1>7. ASSUME NEW j \in T
      PROVE  j <= k
  <2>1. N - j \in D
    OBVIOUS
  <2>2. ~(N - j < N - k)
    BY <1>5, <1>6, <2>1
  <2>3. j \in 1 .. N /\ k \in 1 .. N
    OBVIOUS
  <2>. QED
    BY <2>2, <2>3
<1>. QED
  BY <1>7

(* Nodes 1 .. N whose children l[n] and r[n] come before them, 0 standing  *)
(* for no child: what is computed from a node and its children's values    *)
(* is defined on all of them.                                              *)
IsTree(N, l, r) ==
  /\ N \in Nat /\ l \in [1 .. N -> Nat] /\ r \in [1 .. N -> Nat]
  /\ \A n \in 1 .. N : l[n] < n /\ r[n] < n

TreeFunctions(N, l, r, V, z, comb) ==
  {f \in [0 .. N -> V] :
     f[0] = z /\ \A n \in 1 .. N : f[n] = comb[n][f[l[n]]][f[r[n]]]}

LEMMA TreeRecursion ==
  ASSUME NEW N, NEW l, NEW r, IsTree(N, l, r),
         NEW V, NEW z \in V, NEW comb \in [1 .. N -> [V -> [V -> V]]]
  PROVE  TreeFunctions(N, l, r, V, z, comb) # {}
<1>. USE DEF IsTree
<1>. DEFINE Upto(k, f) == f[0] = z /\ \A n \in 1 .. k : f[n] = comb[n][f[l[n]]][f[r[n]]]
            Made(k) == k <= N => \E f \in [0 .. k -> V] : Upto(k, f)
            S == {k \in Nat : Made(k)}
<1>. HIDE DEF Made
<1>0. \A k \in Nat : k \in S <=> Made(k)
  OBVIOUS
<1>. HIDE DEF S
<1>1. 0 \in S
  <2>1. [n \in 0 .. 0 |-> z] \in [0 .. 0 -> V] /\ Upto(0, [n \in 0 .. 0 |-> z])
    OBVIOUS
  <2>. QED
    BY <1>0, <2>1 DEF Made
<1>2. ASSUME NEW k \in Nat, k \in S
      PROVE  k + 1 \in S
  <2>. SUFFICES Made(k + 1)
    BY <1>0
  <2>. SUFFICES ASSUME k + 1 <= N
                PROVE  \E f \in [0 .. k + 1 -> V] : Upto(k + 1, f)
    BY DEF Made
  <2>1. PICK f \in [0 .. k -> V] : Upto(k, f)
    <3>1. Made(k)
      BY <1>0, <1>2
    <3>. QED
      BY <3>1 DEF Made
  <2>. DEFINE g == [n \in 0 .. k + 1 |-> IF n <= k THEN f[n] ELSE comb[k + 1][f[l[k + 1]]][f[r[k + 1]]]]
  <2>2. /\ k + 1 \in 1 .. N
        /\ l[k + 1] \in 0 .. k /\ r[k + 1] \in 0 .. k
    OBVIOUS
  <2>3. comb[k + 1] \in [V -> [V -> V]] /\ f[l[k + 1]] \in V /\ f[r[k + 1]] \in V
    BY <2>2
  <2>4. comb[k + 1][f[l[k + 1]]][f[r[k + 1]]] \in V
    BY <2>3
  <2>5. g \in [0 .. k + 1 -> V]
    BY <2>4
  <2>6. \A n \in 0 .. k : g[n] = f[n]
    OBVIOUS
  <2>7. g[k + 1] = comb[k + 1][f[l[k + 1]]][f[r[k + 1]]]
    OBVIOUS
  <2>. HIDE DEF g
  <2>8. \A n \in 1 .. k : l[n] \in 0 .. k /\ r[n] \in 0 .. k
    OBVIOUS
  <2>9. Upto(k + 1, g)
    <3>1. \A n \in 1 .. k : g[n] = comb[n][g[l[n]]][g[r[n]]]
      BY <2>1, <2>6, <2>8
    <3>2. g[k + 1] = comb[k + 1][g[l[k + 1]]][g[r[k + 1]]]
      BY <2>2, <2>6, <2>7
    <3>3. \A n \in 1 .. k + 1 : n \in 1 .. k \/ n = k + 1
      OBVIOUS
    <3>4. g[0] = z
      BY <2>1, <2>6
    <3>. QED
      BY <3>1, <3>2, <3>3, <3>4
  <2>. QED
    BY <2>5, <2>9
<1>3. \A k \in Nat : k \in S
  BY <1>1, <1>2, StepByStep
<1>4. Made(N)
  BY <1>0, <1>3
<1>. QED
  BY <1>4 DEF Made, TreeFunctions
=============================================================================
