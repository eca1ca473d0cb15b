-------------------------- MODULE AmanParserProofs --------------------------
(***************************************************************************)
(* Proofs about aman-lang's parser as RecursiveDescent runs it, for every  *)
(* set of tokens and bound on the nesting: an answer always finds the      *)
(* caller it belongs to; and, from what the table of routines says of each *)
(* call and each handler, that Sema is told of things in their place and   *)
(* in the order of SemaProtocol.                                           *)
(***************************************************************************)
EXTENDS AmanParser, StackLemmas

Frames == {[fun |-> f, at |-> p] : f \in DOMAIN Routines, p \in UNION {Points(g) \cup Ends : g \in DOMAIN Routines}}
Placed(frame) == /\ frame.fun \in DOMAIN Routines
                 /\ frame.at \in Points(frame.fun) \cup Ends
                 /\ frame = [fun |-> frame.fun, at |-> frame.at]

(* A frame that waits does so at the call of the function above it.        *)
WaitsFor(frame, callee) ==
  /\ frame.at \in Points(frame.fun)
  /\ StepAt(frame).op = "call" /\ StepAt(frame).name = callee.fun

(* A call stack: frames of a routine each, the first the root's.           *)
WellStacked(s) ==
  /\ s \in Seq({x \in Frames : Placed(x)})
  /\ s # <<>> => s[1].fun = Root
  /\ \A k \in 1 .. Len(s) - 1 : WaitsFor(s[k], s[k + 1])

IInv == WellStacked(stack) /\ tok \in Kinds \cup EndOf

-----------------------------------------------------------------------------
(* Frames and the steps they take.                                         *)
LEMMA PlacedFrame ==
  ASSUME NEW f \in DOMAIN Routines, NEW p \in Points(f) \cup Ends
  PROVE  LET x == [fun |-> f, at |-> p] IN x \in Frames /\ Placed(x) /\ x.fun = f /\ x.at = p
BY DEF Frames, Placed

LEMMA StepsOfRoutines ==
  ASSUME NEW frame, Placed(frame), frame.at \notin Ends
  PROVE  /\ StepAt(frame).yes \in Points(frame.fun) \cup Ends
         /\ StepAt(frame).no \in Points(frame.fun) \cup Ends
         /\ StepAt(frame).op = "call" => StepAt(frame).name \in DOMAIN Routines
BY RoutinesAssumption DEF Placed, StepAt

(* The frames of a stack: its top, and those that wait below it.           *)
LEMMA StackedParts ==
  ASSUME NEW s, WellStacked(s), s # <<>>
  PROVE  /\ s \in Seq({x \in Frames : Placed(x)}) /\ Len(s) \in Nat \ {0}
         /\ \A k \in 1 .. Len(s) : Placed(s[k])
         /\ s[1].fun = Root
BY StackParts, ElementOfSeq DEF WellStacked

(* The top frame goes on to another of its points.                         *)
LEMMA TopMoves ==
  ASSUME NEW s, WellStacked(s), s # <<>>, NEW p \in Points(s[Len(s)].fun) \cup Ends
  PROVE  WellStacked([s EXCEPT ![Len(s)].at = p])
<1>. DEFINE S == {x \in Frames : Placed(x)}
            n == Len(s)
            y == [fun |-> s[n].fun, at |-> p]
            t == [s EXCEPT ![n].at = p]
<1>1. /\ s \in Seq(S) /\ n \in Nat \ {0} /\ s[1].fun = Root
      /\ \A k \in 1 .. n : Placed(s[k])
  BY StackedParts
<1>2. y \in S /\ y.fun = s[n].fun
  <2>1. s[n].fun \in DOMAIN Routines
    BY <1>1 DEF Placed
  <2>. QED
    BY <2>1, PlacedFrame
<1>3. t = [s EXCEPT ![n] = y]
  <2>1. s[n] = [fun |-> s[n].fun, at |-> s[n].at]
    BY <1>1 DEF Placed
  <2>2. [s[n] EXCEPT !.at = p] = y
    BY <2>1
  <2>. QED
    BY <2>2
<1>. HIDE DEF y, t
<1>4. /\ t \in Seq(S) /\ Len(t) = n
      /\ \A k \in 1 .. n : t[k] = IF k = n THEN y ELSE s[k]
  BY <1>1, <1>2, <1>3, ExceptSeq
<1>5. t # <<>> => t[1].fun = Root
  BY <1>1, <1>2, <1>4
<1>6. \A k \in 1 .. Len(t) - 1 : WaitsFor(t[k], t[k + 1])
  <2>. SUFFICES ASSUME NEW k \in 1 .. n - 1 PROVE WaitsFor(t[k], t[k + 1])
    BY <1>4
  <2>1. WaitsFor(s[k], s[k + 1]) /\ k \in 1 .. n /\ k # n /\ k + 1 \in 1 .. n
    BY <1>1 DEF WellStacked
  <2>2. t[k] = s[k] /\ t[k + 1].fun = s[k + 1].fun
    BY <1>2, <1>4, <2>1
  <2>. QED
    BY <2>1, <2>2 DEF WaitsFor
<1>. QED
  BY <1>4, <1>5, <1>6 DEF WellStacked, t

(* A function is called from the point the top frame stands at.            *)
LEMMA TopCalls ==
  ASSUME NEW s, WellStacked(s), s # <<>>, NEW f \in DOMAIN Routines,
         s[Len(s)].at \notin Ends, StepAt(s[Len(s)]).op = "call", StepAt(s[Len(s)]).name = f
  PROVE  WellStacked(Append(s, Frame(f)))
<1>. DEFINE S == {x \in Frames : Placed(x)}
            n == Len(s)
            y == Frame(f)
            t == Append(s, y)
<1>1. /\ s \in Seq(S) /\ n \in Nat \ {0} /\ s[1].fun = Root
      /\ \A k \in 1 .. n : Placed(s[k])
  BY StackedParts
<1>2. y \in S /\ y.fun = f
  BY RoutinesAssumption, PlacedFrame DEF Frame
<1>. HIDE DEF y
<1>3. /\ t \in Seq(S) /\ Len(t) = n + 1 /\ t[n + 1] = y
      /\ \A k \in 1 .. n : t[k] = s[k]
  BY <1>1, <1>2, AppendProperties
<1>. HIDE DEF t
<1>4. t[1].fun = Root
  BY <1>1, <1>3
<1>5. \A k \in 1 .. Len(t) - 1 : WaitsFor(t[k], t[k + 1])
  <2>. SUFFICES ASSUME NEW k \in 1 .. n PROVE WaitsFor(t[k], t[k + 1])
    BY <1>1, <1>3
  <2>1. CASE k = n
    <3>1. s[n].at \in Points(s[n].fun)
      BY <1>1 DEF Placed
    <3>. QED
      BY <1>1, <1>2, <1>3, <2>1, <3>1 DEF WaitsFor
  <2>2. CASE k # n
    <3>1. k \in 1 .. n - 1 /\ k + 1 \in 1 .. n
      BY <1>1, <2>2
    <3>2. WaitsFor(s[k], s[k + 1])
      BY <3>1 DEF WellStacked
    <3>. QED
      BY <1>3, <3>1, <3>2
  <2>. QED
    BY <2>1, <2>2
<1>6. WellStacked(t)
  BY <1>3, <1>4, <1>5 DEF WellStacked
<1>. QED
  BY <1>6 DEF t, y

(* The top frame is gone, and the one below it has the answer.             *)
LEMMA TopAnswers ==
  ASSUME IInv, ~Over, NEW b \in BOOLEAN, Answer(b)
  PROVE  WellStacked(stack')
<1>. DEFINE S == {x \in Frames : Placed(x)}
            n == Len(stack)
<1>1. /\ stack \in Seq(S) /\ n \in Nat \ {0} /\ WellStacked(stack) /\ stack # <<>>
      /\ stack[1].fun = Root
  BY StackedParts DEF IInv, Over
<1>2. CASE n = 1
  <2>1. stack' = <<>>
    BY <1>2 DEF Answer
  <2>2. Len(stack') = 0 /\ stack' \in Seq(S)
    BY <2>1, EmptySeq
  <2>. QED
    BY <2>1, <2>2 DEF WellStacked
<1>3. CASE n # 1
  <2>. DEFINE r == Below
  <2>1. /\ r \in Seq(S) /\ Len(r) = n - 1 /\ \A k \in 1 .. n - 1 : r[k] = stack[k]
    BY <1>1, StackParts DEF Below
  <2>. HIDE DEF r
  <2>2. WellStacked(r) /\ r # <<>>
    <3>1. Len(r) # 0 /\ r[1] = stack[1]
      BY <1>1, <1>3, <2>1
    <3>2. \A k \in 1 .. Len(r) - 1 : WaitsFor(r[k], r[k + 1])
      <4>. SUFFICES ASSUME NEW k \in 1 .. Len(r) - 1 PROVE WaitsFor(r[k], r[k + 1])
        OBVIOUS
      <4>1. k \in 1 .. n - 1 /\ k + 1 \in 1 .. n - 1
        BY <1>1, <2>1
      <4>. QED
        BY <1>1, <2>1, <4>1 DEF WellStacked
    <3>3. r # <<>>
      BY <2>1, <3>1, EmptySeq
    <3>. QED
      BY <1>1, <2>1, <3>1, <3>2, <3>3 DEF WellStacked
  <2>. DEFINE x == stack[n - 1]
              p == IF b THEN StepAt(x).yes ELSE StepAt(x).no
  <2>3. r[Len(r)] = x /\ n - 1 \in 1 .. n - 1
    BY <1>1, <1>3, <2>1
  <2>4. p \in Points(x.fun) \cup Ends
    <3>1. Placed(x)
      BY <2>1, <2>2, <2>3, StackedParts
    <3>2. WaitsFor(x, stack[(n - 1) + 1])
      BY <1>1, <2>3 DEF WellStacked
    <3>3. x.at \notin Ends
      BY <3>1, <3>2, RoutinesAssumption DEF WaitsFor, Placed
    <3>. QED
      BY <3>1, <3>3, StepsOfRoutines
  <2>5. stack' = [r EXCEPT ![Len(r)].at = p]
    BY <1>3, <2>1 DEF Answer, r
  <2>. HIDE DEF p
  <2>6. WellStacked([r EXCEPT ![Len(r)].at = p])
    BY <2>2, <2>3, <2>4, TopMoves
  <2>. QED
    BY <2>5, <2>6
<1>. QED
  BY <1>2, <1>3

-----------------------------------------------------------------------------
(* The invariant.                                                          *)
LEMMA ReadTyped ==
  ASSUME IInv, ReadToken
  PROVE  tok' \in Kinds \cup EndOf
BY DEF IInv, ReadToken, Upcoming, EndOf

LEMMA InitIInv == Init => IInv
<1>. SUFFICES ASSUME Init PROVE IInv
  OBVIOUS
<1>. DEFINE y == Frame(Root)
            S == {x \in Frames : Placed(x)}
<1>1. y \in S /\ y.fun = Root
  BY RoutinesAssumption, PlacedFrame DEF Frame
<1>. HIDE DEF y, S
<1>2. <<y>> \in Seq(S) /\ Len(<<y>>) = 1 /\ <<y>>[1] = y
  BY <1>1
<1>3. stack = <<y>>
  BY DEF Init, y
<1>4. WellStacked(stack)
  BY <1>1, <1>2, <1>3 DEF WellStacked, S
<1>. QED
  BY <1>4 DEF IInv, Init

LEMMA NextIInv == IInv /\ [Next]_vars => IInv'
<1>. SUFFICES ASSUME IInv, [Next]_vars PROVE IInv'
  OBVIOUS
<1>. DEFINE n == Len(stack)
<1>1. WellStacked(stack) /\ tok \in Kinds \cup EndOf
  BY DEF IInv
<1>2. ASSUME ~Over
      PROVE  /\ stack # <<>> /\ Placed(Top) /\ n \in Nat \ {0} /\ Top = stack[n]
             /\ Top.at \notin Ends =>
                  /\ StepAt(Top).yes \in Points(Top.fun) \cup Ends
                  /\ StepAt(Top).no \in Points(Top.fun) \cup Ends
                  /\ StepAt(Top).op = "call" => StepAt(Top).name \in DOMAIN Routines
  <2>1. stack # <<>> /\ Placed(Top) /\ n \in Nat \ {0} /\ Top = stack[n]
    <3>1. n \in Nat \ {0} /\ \A k \in 1 .. n : Placed(stack[k])
      BY <1>1, <1>2, StackedParts DEF Over
    <3>2. n \in 1 .. n
      BY <3>1
    <3>. QED
      BY <1>2, <3>1, <3>2 DEF Over, Top
  <2>. QED
    BY <2>1, StepsOfRoutines
<1>3. ASSUME ~Over, NEW p \in Points(Top.fun) \cup Ends, Goto(p)
      PROVE  WellStacked(stack')
  BY <1>1, <1>2, <1>3, TopMoves DEF Goto, Top
<1>4. ASSUME stack' = <<>> PROVE WellStacked(stack')
  BY <1>4, EmptySeq DEF WellStacked
<1>5. CASE Test
  <2>1. ~Over /\ Top.at \notin Ends
    BY <1>5 DEF Test, At
  <2>2. WellStacked(stack')
    BY <1>2, <1>3, <1>5, <2>1 DEF Test
  <2>. QED
    BY <1>1, <1>5, <2>2 DEF Test, IInv
<1>6. CASE Consume
  <2>1. ~Over /\ Top.at \notin Ends
    BY <1>6 DEF Consume, At
  <2>2. WellStacked(stack')
    BY <1>2, <1>3, <1>6, <2>1 DEF Consume
  <2>3. tok' \in Kinds \cup EndOf
    BY <1>1, <1>6, ReadTyped DEF Consume
  <2>. QED
    BY <2>2, <2>3 DEF IInv
<1>7. CASE Advance
  <2>1. ~Over /\ Top.at \notin Ends
    BY <1>7 DEF Advance, At
  <2>2. WellStacked(stack')
    BY <1>2, <1>3, <1>7, <2>1 DEF Advance
  <2>3. tok' \in Kinds \cup EndOf
    BY <1>7, ReadTyped DEF Advance
  <2>. QED
    BY <2>2, <2>3 DEF IInv
<1>8. CASE Call
  <2>1. ~Over /\ Top.at \notin Ends /\ StepAt(Top).op = "call"
    BY <1>8 DEF Call, At
  <2>2. WellStacked(stack')
    BY <1>1, <1>2, <1>8, <2>1, TopCalls DEF Call
  <2>. QED
    BY <1>1, <1>8, <2>2 DEF Call, IInv
<1>9. CASE Act \/ Either
  <2>1. ~Over /\ Top.at \notin Ends
    BY <1>9 DEF Act, Either, At
  <2>2. WellStacked(stack')
    BY <1>2, <1>3, <1>4, <1>9, <2>1 DEF Act, Either
  <2>. QED
    BY <1>1, <1>9, <2>2 DEF Act, Either, IInv
<1>10. CASE Return \/ Recover
  <2>1. ~Over /\ UNCHANGED tok /\ \E b \in BOOLEAN : Answer(b)
    BY <1>10 DEF Return, Recover
  <2>2. WellStacked(stack')
    BY <2>1, TopAnswers
  <2>. QED
    BY <1>1, <2>1, <2>2 DEF IInv
<1>11. CASE Skip
  BY <1>1, <1>11, ReadTyped DEF Skip, IInv
<1>12. CASE IgnoreAnswer
  <2>1. ~Over /\ Goto("true") /\ "true" \in Ends /\ UNCHANGED tok
    BY <1>12 DEF IgnoreAnswer, Ends
  <2>2. WellStacked(stack')
    BY <1>3, <2>1
  <2>. QED
    BY <1>1, <2>1, <2>2 DEF IInv
<1>13. CASE UNCHANGED vars
  BY <1>1, <1>13 DEF vars, IInv
<1>. QED
  BY <1>5, <1>6, <1>7, <1>8, <1>9, <1>10, <1>11, <1>12, <1>13 DEF Next

LEMMA Invariant == Spec => []IInv
BY InitIInv, NextIInv, PTL DEF Spec

(* Whatever the routines are: every frame stands at a point of its         *)
(* function, and every frame but the top one at the call of the function   *)
(* above it, so that each answer finds its caller (Parser.h, the handlers  *)
(* that return to their callers).                                          *)
THEOREM AnswersFindTheirCallers == Spec => []TypeOK
<1>1. IInv => TypeOK
  <2>. SUFFICES ASSUME IInv PROVE TypeOK
    OBVIOUS
  <2>1. CASE stack = <<>>
    BY <2>1, EmptySeq DEF IInv, TypeOK, Over
  <2>2. CASE stack # <<>>
    <3>1. WellStacked(stack) /\ tok \in Kinds \cup EndOf
      BY DEF IInv
    <3>2. \A k \in 1 .. Len(stack) : Placed(stack[k])
      BY <2>2, <3>1, StackedParts
    <3>. QED
      BY <2>2, <3>1, <3>2 DEF TypeOK, WellStacked, WaitsFor, Placed, Over
  <2>. QED
    BY <2>1, <2>2
<1>. QED
  BY <1>1, Invariant, PTL

-----------------------------------------------------------------------------
(* The open declarations of a stack, frame by frame.                       *)
PlaceNames == {"imports", "formals", "block", "stmt", "end"}
OpenSeqs   == Seq(PlaceNames)
Joined(s, k, u) == IF HoldsDecl(s[k]) THEN Append(u, PlaceOf(s, k)) ELSE u

LEMMA PlaceNamed ==
  ASSUME NEW s, NEW k PROVE PlaceOf(s, k) \in PlaceNames
BY DEF PlaceOf, PlaceOfBlock, PlaceNames

LEMMA JoinedTyped ==
  ASSUME NEW s, NEW k, NEW u \in OpenSeqs PROVE Joined(s, k, u) \in OpenSeqs
BY PlaceNamed DEF Joined, OpenSeqs

LEMMA NoneOpen == <<>> \in OpenSeqs
BY EmptySeq DEF OpenSeqs

LEMMA OpenUptoIs ==
  ASSUME NEW s, Len(s) \in Nat
  PROVE  /\ OpenUpto(s)[0] = <<>>
         /\ \A k \in 1 .. Len(s) : OpenUpto(s)[k] = Joined(s, k, OpenUpto(s)[k - 1])
         /\ \A k \in 0 .. Len(s) : OpenUpto(s)[k] \in OpenSeqs
<1>. DEFINE K == Len(s)
            previous == [n \in 1 .. K |-> n - 1]
            comb == [n \in 1 .. K |-> [u \in OpenSeqs |-> [v \in OpenSeqs |-> Joined(s, n, u)]]]
            none == <<>>
            Body(d, k) == IF k = 0 THEN none
                          ELSE IF HoldsDecl(s[k]) THEN Append(d[k - 1], PlaceOf(s, k)) ELSE d[k - 1]
            Equation(d) == d = [k \in 0 .. Len(s) |-> Body(d, k)]
            opened == OpenUpto(s)
<1>0. opened = CHOOSE d : Equation(d)
  BY DEF OpenUpto
<1>. HIDE DEF opened
<1>a. none \in OpenSeqs
  BY NoneOpen
<1>. HIDE DEF none
<1>1. comb \in [1 .. K -> [OpenSeqs -> [OpenSeqs -> OpenSeqs]]] /\ IsTree(K, previous, previous)
  BY JoinedTyped DEF IsTree
<1>2. PICK f \in [0 .. K -> OpenSeqs] :
        f[0] = none /\ \A n \in 1 .. K : f[n] = comb[n][f[previous[n]]][f[previous[n]]]
  <2>. HIDE DEF comb, previous, K
  <2>1. TreeFunctions(K, previous, previous, OpenSeqs, none, comb) # {}
    BY <1>1, <1>a, TreeRecursion
  <2>. QED
    BY <2>1 DEF TreeFunctions
<1>3. ASSUME NEW k \in 0 .. K
      PROVE  f[k] = Body(f, k)
  <2>1. CASE k = 0
    BY <1>2, <2>1
  <2>2. CASE k # 0
    <3>1. k \in 1 .. K /\ k - 1 \in 0 .. K /\ f[k - 1] \in OpenSeqs
      BY <2>2
    <3>. QED
      BY <1>2, <2>2, <3>1 DEF Joined
  <2>. QED
    BY <2>1, <2>2
<1>4. Equation(f)
  BY <1>3
<1>. HIDE DEF Equation
<1>6. Equation(opened)
  BY <1>4, <1>0
<1>7. \A k \in 0 .. Len(s) : opened[k] = Body(opened, k)
  <2>1. ASSUME NEW d, Equation(d)
        PROVE  \A k \in 0 .. Len(s) : d[k] = Body(d, k)
    BY <2>1 DEF Equation
  <2>. QED
    BY <1>6, <2>1
<1>b. opened[0] = none /\ \A k \in 1 .. Len(s) : opened[k] = Joined(s, k, opened[k - 1])
  <2>1. 0 \in 0 .. Len(s) /\ \A k \in 1 .. Len(s) : k \in 0 .. Len(s) /\ k # 0
    OBVIOUS
  <2>. QED
    BY <1>7, <2>1 DEF Joined
<1>. DEFINE S == {k \in Nat : k <= Len(s) => opened[k] \in OpenSeqs}
<1>8. 0 \in S
  BY <1>a, <1>b
<1>9. ASSUME NEW k \in Nat, k \in S
      PROVE  k + 1 \in S
  <2>. SUFFICES ASSUME k + 1 <= Len(s) PROVE opened[k + 1] \in OpenSeqs
    OBVIOUS
  <2>1. k + 1 \in 1 .. Len(s) /\ (k + 1) - 1 = k /\ opened[k] \in OpenSeqs
    BY <1>9
  <2>2. opened[k + 1] = Joined(s, k + 1, opened[k])
    BY <1>b, <2>1
  <2>. QED
    BY <2>1, <2>2, JoinedTyped
<1>. HIDE DEF S
<1>10. \A k \in Nat : k \in S
  BY <1>8, <1>9, StepByStep
<1>11. \A k \in 0 .. Len(s) : opened[k] \in OpenSeqs
  BY <1>10 DEF S
<1>. QED
  BY <1>b, <1>11 DEF opened, none

(* Stacks whose first k frames hold the same places.                       *)
LEMMA SameOpen ==
  ASSUME NEW s, NEW t, Len(s) \in Nat, Len(t) \in Nat,
         NEW k \in Nat, k <= Len(s), k <= Len(t),
         \A j \in 1 .. k : \A u : Joined(s, j, u) = Joined(t, j, u)
  PROVE  OpenUpto(s)[k] = OpenUpto(t)[k]
<1>. DEFINE S == {j \in Nat : j <= k => OpenUpto(s)[j] = OpenUpto(t)[j]}
<1>1. 0 \in S
  BY OpenUptoIs
<1>2. ASSUME NEW j \in Nat, j \in S PROVE j + 1 \in S
  <2>. SUFFICES ASSUME j + 1 <= k PROVE OpenUpto(s)[j + 1] = OpenUpto(t)[j + 1]
    OBVIOUS
  <2>1. /\ j + 1 \in 1 .. Len(s) /\ j + 1 \in 1 .. Len(t) /\ j + 1 \in 1 .. k /\ (j + 1) - 1 = j
        /\ OpenUpto(s)[j] = OpenUpto(t)[j]
    BY <1>2
  <2>. QED
    BY <2>1, OpenUptoIs
<1>. HIDE DEF S
<1>3. \A j \in Nat : j \in S
  BY <1>1, <1>2, StepByStep
<1>. QED
  BY <1>3 DEF S

(* Frames above the innermost declaration add nothing.                     *)
LEMMA NothingAbove ==
  ASSUME NEW s, Len(s) \in Nat, NEW h \in Nat, NEW k \in Nat, h <= k, k <= Len(s),
         \A j \in h + 1 .. k : ~HoldsDecl(s[j])
  PROVE  OpenUpto(s)[k] = OpenUpto(s)[h]
<1>. DEFINE S == {j \in Nat : h + j <= k => OpenUpto(s)[h + j] = OpenUpto(s)[h]}
<1>1. 0 \in S
  OBVIOUS
<1>2. ASSUME NEW j \in Nat, j \in S PROVE j + 1 \in S
  <2>. SUFFICES ASSUME h + (j + 1) <= k PROVE OpenUpto(s)[h + (j + 1)] = OpenUpto(s)[h]
    OBVIOUS
  <2>1. /\ h + (j + 1) \in 1 .. Len(s) /\ h + (j + 1) \in h + 1 .. k /\ (h + (j + 1)) - 1 = h + j
        /\ OpenUpto(s)[h + j] = OpenUpto(s)[h]
    BY <1>2
  <2>. QED
    BY <2>1, OpenUptoIs DEF Joined
<1>. HIDE DEF S
<1>3. \A j \in Nat : j \in S
  BY <1>1, <1>2, StepByStep
<1>4. k - h \in Nat /\ h + (k - h) = k
  OBVIOUS
<1>5. k - h \in S
  BY <1>3, <1>4
<1>. QED
  BY <1>4, <1>5 DEF S

InBody == {"parseStatementSequence", "parseStatement", "parseIfStatement", "parseWhileStatement",
           "parseReturnStatement", "parseSelectors", "parseExprList", "parseExpression", "parseRelation",
           "parseSimpleExpression", "parseAddOperator", "parseMulOperator", "parseTerm", "parseFactor"}
Unit == "parseCompilationUnit"
Proc == "parseProcedureDeclaration"

(* Where a function may be called from, all functions but those of bodies. *)
CallSites(f, p, g) ==
  /\ g # Unit
  /\ g = "parseImport" <=> f = Unit /\ p = "import"
  /\ g = "parseBlock" <=> f \in {Unit, Proc} /\ p = "block"
  /\ g = "parseDeclaration" <=> f = "parseBlock" /\ p = "declaration"
  /\ g = "parseConstantDeclaration" <=> f = "parseDeclaration" /\ p = "constant"
  /\ g = "parseVariableDeclaration" <=> f = "parseDeclaration" /\ p = "variable"
  /\ g = Proc <=> f = "parseDeclaration" /\ p = "procedure"
  /\ g = "parseFormalParameters" <=> f = Proc /\ p = "formals"
  /\ g = "parseFormalParameterList" <=> f = "parseFormalParameters" /\ p = "params"
  /\ g = "parseFormalParameter" <=> f = "parseFormalParameterList"
  /\ g = "parseIdentList" => f \in {"parseImport", "parseVariableDeclaration", "parseFormalParameter"}
  /\ g = "parseQualident" =>
       f \in {"parseVariableDeclaration", "parseFormalParameters", "parseFormalParameter"} \cup InBody
  /\ g \in InBody => \/ f \in InBody
                     \/ f = "parseBlock" /\ p = "body"
                     \/ f = "parseConstantDeclaration"
  /\ f \in InBody => g \in InBody \cup {"parseQualident"}
  /\ f # "parseQualident"

LEMMA Table ==
  /\ DOMAIN Routines =
       {"parseCompilationUnit", "parseImport", "parseBlock", "parseDeclaration",
        "parseConstantDeclaration", "parseVariableDeclaration", "parseProcedureDeclaration",
        "parseFormalParameters", "parseFormalParameterList", "parseFormalParameter",
        "parseIdentList", "parseQualident", "parseStatementSequence", "parseStatement",
        "parseIfStatement", "parseWhileStatement", "parseReturnStatement", "parseSelectors",
        "parseExprList", "parseExpression", "parseRelation", "parseSimpleExpression",
        "parseAddOperator", "parseMulOperator", "parseTerm", "parseFactor"}
  /\ Routines["parseCompilationUnit"] = ParseCompilationUnit
  /\ Routines["parseImport"] = ParseImport
  /\ Routines["parseBlock"] = ParseBlock
  /\ Routines["parseDeclaration"] = ParseDeclaration
  /\ Routines["parseConstantDeclaration"] = ParseConstantDeclaration
  /\ Routines["parseVariableDeclaration"] = ParseVariableDeclaration
  /\ Routines["parseProcedureDeclaration"] = ParseProcedureDeclaration
  /\ Routines["parseFormalParameters"] = ParseFormalParameters
  /\ Routines["parseFormalParameterList"] = ParseFormalParameterList
  /\ Routines["parseFormalParameter"] = ParseFormalParameter
  /\ Routines["parseIdentList"] = ParseIdentList
  /\ Routines["parseQualident"] = ParseQualident
  /\ Routines["parseStatementSequence"] = ParseStatementSequence
  /\ Routines["parseStatement"] = ParseStatement
  /\ Routines["parseIfStatement"] = ParseIfStatement
  /\ Routines["parseWhileStatement"] = ParseWhileStatement
  /\ Routines["parseReturnStatement"] = ParseReturnStatement
  /\ Routines["parseSelectors"] = ParseSelectors
  /\ Routines["parseExprList"] = ParseExprList
  /\ Routines["parseExpression"] = ParseExpression
  /\ Routines["parseRelation"] = ParseRelation
  /\ Routines["parseSimpleExpression"] = ParseSimpleExpression
  /\ Routines["parseAddOperator"] = ParseAddOperator
  /\ Routines["parseMulOperator"] = ParseMulOperator
  /\ Routines["parseTerm"] = ParseTerm
  /\ Routines["parseFactor"] = ParseFactor
BY ParserAssumption DEF ParserRoutines

LEMMA Callers ==
  ASSUME NEW f \in DOMAIN Routines, NEW p \in Points(f), StepAt([fun |-> f, at |-> p]).op = "call"
  PROVE  CallSites(f, p, StepAt([fun |-> f, at |-> p]).name)
<1>. USE DEF Points, StepAt, If, Take, Telling, Parsing, Expecting, Advancing, Step, CallSites, InBody,
             Unit, Proc, None
<1>1. CASE f = "parseCompilationUnit"
  BY <1>1, Table DEF ParseCompilationUnit
<1>2. CASE f = "parseImport"
  BY <1>2, Table DEF ParseImport
<1>3. CASE f = "parseBlock"
  BY <1>3, Table DEF ParseBlock
<1>4. CASE f = "parseDeclaration"
  BY <1>4, Table DEF ParseDeclaration
<1>5. CASE f = "parseConstantDeclaration"
  BY <1>5, Table DEF ParseConstantDeclaration
<1>6. CASE f = "parseVariableDeclaration"
  BY <1>6, Table DEF ParseVariableDeclaration
<1>7. CASE f = "parseProcedureDeclaration"
  BY <1>7, Table DEF ParseProcedureDeclaration
<1>8. CASE f = "parseFormalParameters"
  BY <1>8, Table DEF ParseFormalParameters
<1>9. CASE f = "parseFormalParameterList"
  BY <1>9, Table DEF ParseFormalParameterList
<1>10. CASE f = "parseFormalParameter"
  BY <1>10, Table DEF ParseFormalParameter
<1>11. CASE f = "parseIdentList"
  BY <1>11, Table DEF ParseIdentList
<1>12. CASE f = "parseQualident"
  BY <1>12, Table DEF ParseQualident
<1>13. CASE f = "parseStatementSequence"
  BY <1>13, Table DEF ParseStatementSequence
<1>14. CASE f = "parseStatement"
  BY <1>14, Table DEF ParseStatement
<1>15. CASE f = "parseIfStatement"
  BY <1>15, Table DEF ParseIfStatement
<1>16. CASE f = "parseWhileStatement"
  BY <1>16, Table DEF ParseWhileStatement
<1>17. CASE f = "parseReturnStatement"
  BY <1>17, Table DEF ParseReturnStatement
<1>18. CASE f = "parseSelectors"
  BY <1>18, Table DEF ParseSelectors
<1>19. CASE f = "parseExprList"
  BY <1>19, Table DEF ParseExprList
<1>20. CASE f = "parseExpression"
  BY <1>20, Table DEF ParseExpression
<1>21. CASE f = "parseRelation"
  BY <1>21, Table DEF ParseRelation, Operator
<1>22. CASE f = "parseSimpleExpression"
  BY <1>22, Table DEF ParseSimpleExpression
<1>23. CASE f = "parseAddOperator"
  BY <1>23, Table DEF ParseAddOperator, Operator
<1>24. CASE f = "parseMulOperator"
  BY <1>24, Table DEF ParseMulOperator, Operator
<1>25. CASE f = "parseTerm"
  BY <1>25, Table DEF ParseTerm
<1>26. CASE f = "parseFactor"
  BY <1>26, Table DEF ParseFactor
<1>. QED
  BY Table, <1>1, <1>2, <1>3, <1>4, <1>5, <1>6, <1>7, <1>8, <1>9, <1>10, <1>11, <1>12, <1>13, <1>14,
     <1>15, <1>16, <1>17, <1>18, <1>19, <1>20, <1>21, <1>22, <1>23, <1>24, <1>25, <1>26

(* Points no text reaches: parseDeclaration is called before a word that   *)
(* begins a declaration, and asks for an identifier where CONST is.        *)
Dead(f, p) ==
  \/ f = "parseConstantDeclaration"
  \/ f = "parseDeclaration" /\ p \in {"constants", "constant", "constEnd"}
  \/ f = "parseSelectors" /\ p \in {"deref", "index", "close", "indexed"}

(* What Sema is told where.                                                *)
Tells(f, p, a) ==
  \/ f = Unit /\ p = "enter" /\ a = "enterScope"
  \/ f = Unit /\ p = "finish" /\ a = "actOnModuleDeclaration"
  \/ f = Proc /\ p = "act" /\ a = "actOnProcedureDeclaration"
  \/ f = Proc /\ p = "enter" /\ a = "enterScope"
  \/ f = Proc /\ p = "heading" /\ a = "actOnProcedureHeading"
  \/ f = Proc /\ p = "finish" /\ a = "actOnProcedureDeclarationLists"
  \/ f = "parseImport" /\ a = "actOnImport"
  \/ f = "parseVariableDeclaration" /\ a = "actOnVariableDeclaration"
  \/ f = "parseFormalParameter" /\ a = "actOnFormalParameterDeclaration"
  \/ f = "parseQualident" /\ a \in {"actOnQualIdentPart", "isa<ModuleDecl>"}
  \/ f \in InBody /\ a \in Expected("stmt")

LEMMA Tellings ==
  ASSUME NEW f \in DOMAIN Routines, NEW p \in Points(f), ~Dead(f, p), StepAt([fun |-> f, at |-> p]).op = "act"
  PROVE  Tells(f, p, StepAt([fun |-> f, at |-> p]).name)
<1>. USE DEF Points, StepAt, If, Take, Telling, Parsing, Expecting, Advancing, Step, InBody, Unit, Proc,
             None, Dead, Tells, Expected, NameCalls, ExpressionCalls
<1>1. CASE f = "parseCompilationUnit"
  BY <1>1, Table DEF ParseCompilationUnit
<1>2. CASE f = "parseImport"
  BY <1>2, Table DEF ParseImport
<1>3. CASE f = "parseBlock"
  BY <1>3, Table DEF ParseBlock
<1>4. CASE f = "parseDeclaration"
  BY <1>4, Table DEF ParseDeclaration
<1>5. CASE f = "parseConstantDeclaration"
  BY <1>5, Table DEF ParseConstantDeclaration
<1>6. CASE f = "parseVariableDeclaration"
  BY <1>6, Table DEF ParseVariableDeclaration
<1>7. CASE f = "parseProcedureDeclaration"
  BY <1>7, Table DEF ParseProcedureDeclaration
<1>8. CASE f = "parseFormalParameters"
  BY <1>8, Table DEF ParseFormalParameters
<1>9. CASE f = "parseFormalParameterList"
  BY <1>9, Table DEF ParseFormalParameterList
<1>10. CASE f = "parseFormalParameter"
  BY <1>10, Table DEF ParseFormalParameter
<1>11. CASE f = "parseIdentList"
  BY <1>11, Table DEF ParseIdentList
<1>12. CASE f = "parseQualident"
  BY <1>12, Table DEF ParseQualident
<1>13. CASE f = "parseStatementSequence"
  BY <1>13, Table DEF ParseStatementSequence
<1>14. CASE f = "parseStatement"
  BY <1>14, Table DEF ParseStatement
<1>15. CASE f = "parseIfStatement"
  BY <1>15, Table DEF ParseIfStatement
<1>16. CASE f = "parseWhileStatement"
  BY <1>16, Table DEF ParseWhileStatement
<1>17. CASE f = "parseReturnStatement"
  BY <1>17, Table DEF ParseReturnStatement
<1>18. CASE f = "parseSelectors"
  BY <1>18, Table DEF ParseSelectors
<1>19. CASE f = "parseExprList"
  BY <1>19, Table DEF ParseExprList
<1>20. CASE f = "parseExpression"
  BY <1>20, Table DEF ParseExpression
<1>21. CASE f = "parseRelation"
  BY <1>21, Table DEF ParseRelation, Operator
<1>22. CASE f = "parseSimpleExpression"
  BY <1>22, Table DEF ParseSimpleExpression
<1>23. CASE f = "parseAddOperator"
  BY <1>23, Table DEF ParseAddOperator, Operator
<1>24. CASE f = "parseMulOperator"
  BY <1>24, Table DEF ParseMulOperator, Operator
<1>25. CASE f = "parseTerm"
  BY <1>25, Table DEF ParseTerm
<1>26. CASE f = "parseFactor"
  BY <1>26, Table DEF ParseFactor
<1>. QED
  BY Table, <1>1, <1>2, <1>3, <1>4, <1>5, <1>6, <1>7, <1>8, <1>9, <1>10, <1>11, <1>12, <1>13, <1>14,
     <1>15, <1>16, <1>17, <1>18, <1>19, <1>20, <1>21, <1>22, <1>23, <1>24, <1>25, <1>26

(* Where a function may go on with a token at hand.                        *)
GoesTo(s, t, q) ==
  \/ q = s.yes /\ (s.op \in {"test", "consume"} => t \in s.kinds)
  \/ q = s.no /\ (s.op \in {"test", "consume"} => t \notin s.kinds)

Live(f, p, t) == ~Dead(f, p) /\ (f = "parseDeclaration" /\ p = "start" => t \in DeclarationStart)

LEMMA LiveMoves ==
  ASSUME NEW f \in DOMAIN Routines, NEW p \in Points(f),
         NEW t \in Kinds \cup EndOf, NEW q, Live(f, p, t),
         StepAt([fun |-> f, at |-> p]).op # "call", GoesTo(StepAt([fun |-> f, at |-> p]), t, q)
  PROVE  /\ ~Dead(f, q) /\ (f = "parseDeclaration" => q # "start")
         /\ f = "parseBlock" /\ q = "declaration" =>
              t \in DeclarationStart /\ StepAt([fun |-> f, at |-> p]).op = "test"
<1>. USE DEF Points, StepAt, If, Take, Telling, Parsing, Expecting, Advancing, Step, None, Dead, GoesTo,
             Live, DeclarationStart
<1>. "caret" \notin Kinds \cup EndOf /\ "l_square" \notin Kinds \cup EndOf
  BY ParserAssumption DEF EndOf, Eof, Stuck
<1>1. CASE f = "parseCompilationUnit"
  BY <1>1, Table DEF ParseCompilationUnit
<1>2. CASE f = "parseImport"
  BY <1>2, Table DEF ParseImport
<1>3. CASE f = "parseBlock"
  BY <1>3, Table DEF ParseBlock
<1>4. CASE f = "parseDeclaration"
  BY <1>4, Table DEF ParseDeclaration
<1>5. CASE f = "parseConstantDeclaration"
  BY <1>5, Table DEF ParseConstantDeclaration
<1>6. CASE f = "parseVariableDeclaration"
  BY <1>6, Table DEF ParseVariableDeclaration
<1>7. CASE f = "parseProcedureDeclaration"
  BY <1>7, Table DEF ParseProcedureDeclaration
<1>8. CASE f = "parseFormalParameters"
  BY <1>8, Table DEF ParseFormalParameters
<1>9. CASE f = "parseFormalParameterList"
  BY <1>9, Table DEF ParseFormalParameterList
<1>10. CASE f = "parseFormalParameter"
  BY <1>10, Table DEF ParseFormalParameter
<1>11. CASE f = "parseIdentList"
  BY <1>11, Table DEF ParseIdentList
<1>12. CASE f = "parseQualident"
  BY <1>12, Table DEF ParseQualident
<1>13. CASE f = "parseStatementSequence"
  BY <1>13, Table DEF ParseStatementSequence
<1>14. CASE f = "parseStatement"
  BY <1>14, Table DEF ParseStatement
<1>15. CASE f = "parseIfStatement"
  BY <1>15, Table DEF ParseIfStatement
<1>16. CASE f = "parseWhileStatement"
  BY <1>16, Table DEF ParseWhileStatement
<1>17. CASE f = "parseReturnStatement"
  BY <1>17, Table DEF ParseReturnStatement
<1>18. CASE f = "parseSelectors"
  BY <1>18, Table DEF ParseSelectors
<1>19. CASE f = "parseExprList"
  BY <1>19, Table DEF ParseExprList
<1>20. CASE f = "parseExpression"
  BY <1>20, Table DEF ParseExpression
<1>21. CASE f = "parseRelation"
  BY <1>21, Table DEF ParseRelation, Operator
<1>22. CASE f = "parseSimpleExpression"
  BY <1>22, Table DEF ParseSimpleExpression
<1>23. CASE f = "parseAddOperator"
  BY <1>23, Table DEF ParseAddOperator, Operator
<1>24. CASE f = "parseMulOperator"
  BY <1>24, Table DEF ParseMulOperator, Operator
<1>25. CASE f = "parseTerm"
  BY <1>25, Table DEF ParseTerm
<1>26. CASE f = "parseFactor"
  BY <1>26, Table DEF ParseFactor
<1>. QED
  BY Table, <1>1, <1>2, <1>3, <1>4, <1>5, <1>6, <1>7, <1>8, <1>9, <1>10, <1>11, <1>12, <1>13, <1>14,
     <1>15, <1>16, <1>17, <1>18, <1>19, <1>20, <1>21, <1>22, <1>23, <1>24, <1>25, <1>26

(* Where a function goes on after a call: on a false answer to its handler *)
(* with the exception of parseExpression's second operand.                 *)
AnsweredAt(f, p, s) ==
  /\ f # "parseExpression" => s.no = "error"
  /\ f = Unit => (p = "import" /\ s.yes = "imports") \/ (p = "block" /\ s.yes = "end")
  /\ f = Proc => (p = "formals" /\ s.yes = "heading") \/ (p = "block" /\ s.yes = "end")
  /\ f = "parseBlock" => (p = "declaration" /\ s.yes = "start") \/ (p = "body" /\ s.yes = "true")

LEMMA Answers ==
  ASSUME NEW f \in DOMAIN Routines, NEW p \in Points(f), ~Dead(f, p),
         StepAt([fun |-> f, at |-> p]).op = "call"
  PROVE  LET s == StepAt([fun |-> f, at |-> p])
         IN  /\ AnsweredAt(f, p, s)
             /\ \A q \in {s.yes, s.no} :
                  ~Dead(f, q) /\ (f = "parseDeclaration" => q # "start") /\ (f = "parseBlock" => q # "declaration")
<1>. USE DEF Points, StepAt, If, Take, Telling, Parsing, Expecting, Advancing, Step, None, Dead,
             AnsweredAt, Unit, Proc
<1>1. CASE f = "parseCompilationUnit"
  BY <1>1, Table DEF ParseCompilationUnit
<1>2. CASE f = "parseImport"
  BY <1>2, Table DEF ParseImport
<1>3. CASE f = "parseBlock"
  BY <1>3, Table DEF ParseBlock
<1>4. CASE f = "parseDeclaration"
  BY <1>4, Table DEF ParseDeclaration
<1>5. CASE f = "parseConstantDeclaration"
  BY <1>5, Table DEF ParseConstantDeclaration
<1>6. CASE f = "parseVariableDeclaration"
  BY <1>6, Table DEF ParseVariableDeclaration
<1>7. CASE f = "parseProcedureDeclaration"
  BY <1>7, Table DEF ParseProcedureDeclaration
<1>8. CASE f = "parseFormalParameters"
  BY <1>8, Table DEF ParseFormalParameters
<1>9. CASE f = "parseFormalParameterList"
  BY <1>9, Table DEF ParseFormalParameterList
<1>10. CASE f = "parseFormalParameter"
  BY <1>10, Table DEF ParseFormalParameter
<1>11. CASE f = "parseIdentList"
  BY <1>11, Table DEF ParseIdentList
<1>12. CASE f = "parseQualident"
  BY <1>12, Table DEF ParseQualident
<1>13. CASE f = "parseStatementSequence"
  BY <1>13, Table DEF ParseStatementSequence
<1>14. CASE f = "parseStatement"
  BY <1>14, Table DEF ParseStatement
<1>15. CASE f = "parseIfStatement"
  BY <1>15, Table DEF ParseIfStatement
<1>16. CASE f = "parseWhileStatement"
  BY <1>16, Table DEF ParseWhileStatement
<1>17. CASE f = "parseReturnStatement"
  BY <1>17, Table DEF ParseReturnStatement
<1>18. CASE f = "parseSelectors"
  BY <1>18, Table DEF ParseSelectors
<1>19. CASE f = "parseExprList"
  BY <1>19, Table DEF ParseExprList
<1>20. CASE f = "parseExpression"
  BY <1>20, Table DEF ParseExpression
<1>21. CASE f = "parseRelation"
  BY <1>21, Table DEF ParseRelation, Operator
<1>22. CASE f = "parseSimpleExpression"
  BY <1>22, Table DEF ParseSimpleExpression
<1>23. CASE f = "parseAddOperator"
  BY <1>23, Table DEF ParseAddOperator, Operator
<1>24. CASE f = "parseMulOperator"
  BY <1>24, Table DEF ParseMulOperator, Operator
<1>25. CASE f = "parseTerm"
  BY <1>25, Table DEF ParseTerm
<1>26. CASE f = "parseFactor"
  BY <1>26, Table DEF ParseFactor
<1>. QED
  BY Table, <1>1, <1>2, <1>3, <1>4, <1>5, <1>6, <1>7, <1>8, <1>9, <1>10, <1>11, <1>12, <1>13, <1>14,
     <1>15, <1>16, <1>17, <1>18, <1>19, <1>20, <1>21, <1>22, <1>23, <1>24, <1>25, <1>26

-----------------------------------------------------------------------------
(* No frame is at a dead point, and a declaration is read where a word     *)
(* begins one.                                                             *)
Begins(frame) == \/ frame.fun = "parseBlock" /\ frame.at = "declaration"
                 \/ frame.fun = "parseDeclaration" /\ frame.at = "start"
AllLive(s, t) ==
  /\ \A k \in 1 .. Len(s) : ~Dead(s[k].fun, s[k].at)
  /\ s # <<>> /\ Begins(s[Len(s)]) => t \in DeclarationStart

Alive == AllLive(stack, tok)

(* The steps, by what they do to the stack.                                *)
Moved(p)  == ~Over /\ Goto(p) /\ tok' \in Kinds \cup EndOf
StepKinds ==
  \/ \E q \in Points(Top.fun) \cup Ends :
        /\ Moved(q) /\ Top.at \notin Ends /\ StepAt(Top).op # "call" /\ GoesTo(StepAt(Top), tok, q)
        /\ StepAt(Top).op = "test" => UNCHANGED tok
  \/ Call
  \/ \E b \in BOOLEAN : /\ ~Over /\ Top.at \in Ends /\ Answer(b) /\ UNCHANGED tok
                        /\ Top.at = "error" => tok \in Sync \cup {Eof} /\ (b <=> tok \notin Sync)
                        /\ Top.at # "error" => Top.at \in {"true", "false"} /\ (b <=> Top.at = "true")
  \/ ~Over /\ Top.at \in Ends /\ UNCHANGED stack /\ tok' \in Kinds \cup EndOf
  \/ Top.at = "ignored" /\ Moved("true") /\ UNCHANGED tok
  \/ ~Over /\ stack' = <<>> /\ tok' = tok
  \/ UNCHANGED vars

LEMMA TopPlaced ==
  ASSUME NEW s, WellStacked(s), s # <<>>
  PROVE  /\ Len(s) \in Nat \ {0} /\ Len(s) \in 1 .. Len(s) /\ Placed(s[Len(s)])
         /\ s[Len(s)].fun \in DOMAIN Routines
         /\ s[Len(s)].at \in Points(s[Len(s)].fun) \cup Ends
<1>1. Len(s) \in Nat \ {0} /\ \A k \in 1 .. Len(s) : Placed(s[k])
  BY StackedParts
<1>. QED
  BY <1>1 DEF Placed

LEMMA StepsAreOfKinds ==
  ASSUME IInv, [Next]_vars
  PROVE  StepKinds
<1>1. tok \in Kinds \cup EndOf
  BY DEF IInv
<1>2. ASSUME ~Over, Top.at \notin Ends
      PROVE  /\ StepAt(Top).yes \in Points(Top.fun) \cup Ends
             /\ StepAt(Top).no \in Points(Top.fun) \cup Ends
  <2>1. Placed(Top)
    BY <1>2, TopPlaced DEF IInv, Over, Top
  <2>. QED
    BY <1>2, <2>1, StepsOfRoutines
<1>3. CASE Test
  BY <1>1, <1>2, <1>3 DEF Test, At, Moved, GoesTo, StepKinds
<1>4. CASE Consume
  BY <1>1, <1>2, <1>4, ReadTyped DEF Consume, At, Moved, GoesTo, StepKinds
<1>5. CASE Advance
  BY <1>2, <1>5, ReadTyped DEF Advance, At, Moved, GoesTo, StepKinds
<1>6. CASE Act
  BY <1>1, <1>2, <1>6 DEF Act, At, Moved, GoesTo, StepKinds
<1>7. CASE Either
  BY <1>1, <1>2, <1>7 DEF Either, At, Moved, GoesTo, StepKinds
<1>8. CASE Return
  BY <1>8 DEF Return, Ends, StepKinds
<1>9. CASE Recover
  BY <1>9 DEF Recover, Ends, StepKinds
<1>10. CASE Skip
  BY <1>10, ReadTyped DEF Skip, Ends, StepKinds
<1>11. CASE IgnoreAnswer
  BY <1>1, <1>11 DEF IgnoreAnswer, Moved, StepKinds
<1>12. CASE UNCHANGED vars \/ Call
  BY <1>12 DEF StepKinds
<1>. QED
  BY <1>3, <1>4, <1>5, <1>6, <1>7, <1>8, <1>9, <1>10, <1>11, <1>12 DEF Next

(* What a step leaves of the stack s: the top frame at another point, a    *)
(* frame more, or the caller at another point.                             *)
MovedTo(s, t, q) ==
  /\ Len(t) = Len(s) /\ t # <<>> /\ \A k \in 1 .. Len(s) : k # Len(s) => t[k] = s[k]
  /\ t[Len(s)] = [fun |-> s[Len(s)].fun, at |-> q]

LEMMA GotoMoves ==
  ASSUME NEW s, WellStacked(s), s # <<>>, NEW q
  PROVE  MovedTo(s, [s EXCEPT ![Len(s)].at = q], q)
<1>. DEFINE y == [fun |-> s[Len(s)].fun, at |-> q]
            t == [s EXCEPT ![Len(s)].at = q]
<1>1. /\ Len(s) \in Nat \ {0} /\ DOMAIN s = 1 .. Len(s) /\ Len(s) \in 1 .. Len(s)
      /\ s[Len(s)] = [fun |-> s[Len(s)].fun, at |-> s[Len(s)].at]
  <2>1. s \in Seq({x \in Frames : Placed(x)})
    BY StackedParts
  <2>2. DOMAIN s = 1 .. Len(s)
    BY <2>1
  <2>. QED
    BY <2>2, TopPlaced DEF Placed
<1>2. [s[Len(s)] EXCEPT !.at = q] = y
  BY <1>1
<1>3. DOMAIN t = 1 .. Len(s) /\ t[Len(s)] = y /\ \A k \in 1 .. Len(s) : k # Len(s) => t[k] = s[k]
  BY <1>1, <1>2
<1>4. Len(t) = Len(s)
  <2>. HIDE DEF y
  <2>1. t = [s EXCEPT ![Len(s)] = y]
    BY <1>2
  <2>. QED
    BY <1>1, <2>1, ExceptSeq, StackedParts
<1>. HIDE DEF t
<1>5. t # <<>>
  BY <1>1, <1>4, EmptySeq
<1>. QED
  BY <1>3, <1>4, <1>5 DEF MovedTo, t

Pushed(s, t, f) ==
  /\ Len(t) = Len(s) + 1 /\ t # <<>> /\ \A k \in 1 .. Len(s) : t[k] = s[k]
  /\ t[Len(s) + 1] = [fun |-> f, at |-> "start"]

LEMMA AppendPushes ==
  ASSUME NEW s, WellStacked(s), s # <<>>, NEW f \in DOMAIN Routines
  PROVE  Pushed(s, Append(s, Frame(f)), f)
<1>. DEFINE S == {x \in Frames : Placed(x)}
            y == Frame(f)
            t == Append(s, y)
<1>1. s \in Seq(S) /\ Len(s) \in Nat
  BY StackedParts
<1>2. y \in S /\ y = [fun |-> f, at |-> "start"]
  BY RoutinesAssumption, PlacedFrame DEF Frame
<1>. HIDE DEF y, S
<1>3. t \in Seq(S) /\ Len(t) = Len(s) + 1 /\ t[Len(s) + 1] = y /\ \A k \in 1 .. Len(s) : t[k] = s[k]
  BY <1>1, <1>2, AppendProperties
<1>. HIDE DEF t
<1>4. t # <<>>
  BY <1>1, <1>3, EmptySeq
<1>. QED
  BY <1>2, <1>3, <1>4 DEF Pushed, t, y

Popped(s, t, q) ==
  /\ Len(s) > 1 /\ Len(t) = Len(s) - 1 /\ t # <<>>
  /\ \A k \in 1 .. Len(s) - 1 : k # Len(s) - 1 => t[k] = s[k]
  /\ t[Len(s) - 1] = [fun |-> s[Len(s) - 1].fun, at |-> q]

AnswerOf(frame, b) == IF b THEN StepAt(frame).yes ELSE StepAt(frame).no

LEMMA AnswerPops ==
  ASSUME IInv, ~Over, NEW b \in BOOLEAN, Answer(b), Len(stack) # 1
  PROVE  Popped(stack, stack', AnswerOf(stack[Len(stack) - 1], b))
<1>. DEFINE S == {x \in Frames : Placed(x)}
            n == Len(stack)
            r == Below
            q == AnswerOf(stack[n - 1], b)
            y == [fun |-> stack[n - 1].fun, at |-> q]
<1>1. /\ stack \in Seq(S) /\ n \in Nat \ {0} /\ WellStacked(stack) /\ stack # <<>>
      /\ \A k \in 1 .. n : Placed(stack[k])
  BY StackedParts DEF IInv, Over
<1>2. /\ r \in Seq(S) /\ Len(r) = n - 1 /\ \A k \in 1 .. n - 1 : r[k] = stack[k]
  BY <1>1, StackParts DEF Below
<1>3. n - 1 \in 1 .. n - 1 /\ n > 1 /\ r[n - 1] = [fun |-> stack[n - 1].fun, at |-> stack[n - 1].at]
  BY <1>1, <1>2 DEF Placed
<1>4. stack' = [r EXCEPT ![n - 1].at = q]
  BY DEF Answer, AnswerOf
<1>. HIDE DEF r, q
<1>5. [r[n - 1] EXCEPT !.at = q] = y
  BY <1>3
<1>6. DOMAIN r = 1 .. n - 1
  BY <1>2, <1>3
<1>7. stack' = [r EXCEPT ![n - 1] = y]
  BY <1>4, <1>5, <1>6
<1>. HIDE DEF y
<1>8. /\ DOMAIN stack' = 1 .. n - 1 /\ stack'[n - 1] = y
      /\ \A k \in 1 .. n - 1 : k # n - 1 => stack'[k] = r[k]
  BY <1>3, <1>6, <1>7
<1>9. Len(stack') = n - 1
  BY <1>2, <1>3, <1>7, <1>8, ExceptSeq
<1>10. stack' # <<>>
  BY <1>1, <1>3, <1>9, EmptySeq
<1>. QED
  BY <1>2, <1>3, <1>8, <1>9, <1>10 DEF Popped, q, y

(* Each frame is called from a place CallSites allows.                     *)
LEMMA Called ==
  ASSUME NEW s, WellStacked(s), s # <<>>, NEW k \in 1 .. Len(s) - 1
  PROVE  /\ s[k].fun \in DOMAIN Routines /\ s[k].at \in Points(s[k].fun)
         /\ StepAt(s[k]) = StepAt([fun |-> s[k].fun, at |-> s[k].at])
         /\ StepAt(s[k]).op = "call" /\ StepAt(s[k]).name = s[k + 1].fun
         /\ CallSites(s[k].fun, s[k].at, s[k + 1].fun)
<1>1. Len(s) \in Nat \ {0} /\ k \in 1 .. Len(s) /\ Placed(s[k]) /\ WaitsFor(s[k], s[k + 1])
  BY StackedParts DEF WellStacked
<1>2. StepAt(s[k]) = StepAt([fun |-> s[k].fun, at |-> s[k].at])
  BY DEF StepAt
<1>. QED
  BY <1>1, <1>2, Callers DEF Placed, WaitsFor

LEMMA InitAlive == Init => Alive
<1>. SUFFICES ASSUME Init PROVE Alive
  OBVIOUS
<1>1. Len(stack) = 1 /\ stack[1] = Frame(Root)
  BY DEF Init
<1>2. stack[1].fun = Unit /\ stack[1].at = "start"
  BY <1>1, ParserAssumption DEF Frame, Unit
<1>3. ~Dead(stack[1].fun, stack[1].at) /\ ~Begins(stack[1])
  BY <1>2 DEF Dead, Begins, Unit
<1>. QED
  BY <1>1, <1>3 DEF Alive, AllLive

LEMMA NextAlive ==
  ASSUME IInv, Alive, [Next]_vars
  PROVE  Alive'
<1>. DEFINE n == Len(stack)
<1>1. StepKinds /\ WellStacked(stack) /\ tok \in Kinds \cup EndOf /\ AllLive(stack, tok)
  BY StepsAreOfKinds DEF IInv, Alive
<1>. SUFFICES AllLive(stack', tok')
  BY DEF Alive
<1>2. ASSUME ~Over
      PROVE  /\ stack # <<>> /\ n \in Nat \ {0} /\ n \in 1 .. n /\ Top = stack[n]
             /\ Top.fun \in DOMAIN Routines /\ Top.at \in Points(Top.fun) \cup Ends
             /\ Live(Top.fun, Top.at, tok)
             /\ StepAt(Top) = StepAt([fun |-> Top.fun, at |-> Top.at])
  <2>1. stack # <<>> /\ n \in 1 .. n /\ Top = stack[n] /\ n \in Nat \ {0}
        /\ Top.fun \in DOMAIN Routines /\ Top.at \in Points(Top.fun) \cup Ends
    BY <1>1, <1>2, TopPlaced DEF Over, Top
  <2>2. Live(Top.fun, Top.at, tok)
    BY <1>1, <2>1 DEF AllLive, Begins, Live
  <2>3. StepAt(Top) = StepAt([fun |-> Top.fun, at |-> Top.at])
    BY DEF StepAt
  <2>. QED
    BY <2>1, <2>2, <2>3
<1>3. ASSUME ~Over, NEW q, Goto(q), ~Dead(Top.fun, q),
             Top.fun = "parseDeclaration" => q # "start",
             Top.fun = "parseBlock" /\ q = "declaration" => tok' \in DeclarationStart
      PROVE  AllLive(stack', tok')
  <2>1. MovedTo(stack, stack', q)
    BY <1>1, <1>2, <1>3, GotoMoves DEF Goto
  <2>. QED
    BY <1>1, <1>2, <1>3, <2>1 DEF MovedTo, AllLive, Begins
<1>4. ASSUME NEW q \in Points(Top.fun) \cup Ends, Moved(q), Top.at \notin Ends, StepAt(Top).op # "call",
             GoesTo(StepAt(Top), tok, q), StepAt(Top).op = "test" => UNCHANGED tok
      PROVE  AllLive(stack', tok')
  <2>1. ~Over /\ Goto(q)
    BY <1>4 DEF Moved
  <2>2. /\ ~Dead(Top.fun, q) /\ (Top.fun = "parseDeclaration" => q # "start")
        /\ Top.fun = "parseBlock" /\ q = "declaration" => tok \in DeclarationStart /\ StepAt(Top).op = "test"
    <3>1. Top.at \in Points(Top.fun)
      BY <1>2, <1>4, <2>1
    <3>. QED
      BY <1>1, <1>2, <1>4, <2>1, <3>1, LiveMoves
  <2>. QED
    BY <1>3, <1>4, <2>1, <2>2
<1>5. CASE Call
  <2>. DEFINE g == StepAt(Top).name
  <2>1. ~Over /\ Top.at \notin Ends /\ StepAt(Top).op = "call" /\ stack' = Append(stack, Frame(g)) /\ tok' = tok
    BY <1>5 DEF Call, At
  <2>2. Top.at \in Points(Top.fun) /\ g \in DOMAIN Routines /\ CallSites(Top.fun, Top.at, g)
    <3>1. Top.at \in Points(Top.fun)
      BY <1>2, <2>1
    <3>2. Placed(Top)
      BY <1>1, <1>2, <2>1, TopPlaced
    <3>. QED
      BY <1>2, <2>1, <3>1, <3>2, Callers, StepsOfRoutines
  <2>3. Pushed(stack, stack', g)
    BY <1>1, <1>2, <2>1, <2>2, AppendPushes
  <2>4. ~Dead(g, "start")
    BY <1>2, <2>1, <2>2 DEF CallSites, Dead, Live
  <2>5. g = "parseDeclaration" => tok \in DeclarationStart
    BY <1>1, <1>2, <2>1, <2>2 DEF CallSites, AllLive, Begins
  <2>. HIDE DEF g
  <2>. QED
    BY <1>1, <1>2, <2>1, <2>3, <2>4, <2>5 DEF Pushed, AllLive, Begins
<1>6. ASSUME NEW b \in BOOLEAN, ~Over, Answer(b), UNCHANGED tok PROVE AllLive(stack', tok')
  <2>1. CASE n = 1
    <3>1. stack' = <<>>
      BY <1>6, <2>1 DEF Answer
    <3>. QED
      BY <3>1, EmptySeq DEF AllLive
  <2>2. CASE n # 1
    <3>. DEFINE x == stack[n - 1]
                q == AnswerOf(x, b)
    <3>1. Popped(stack, stack', q) /\ n - 1 \in 1 .. n - 1 /\ n - 1 \in 1 .. n
      BY <1>2, <1>6, <2>2, AnswerPops DEF Popped
    <3>2. /\ x.fun \in DOMAIN Routines /\ x.at \in Points(x.fun) /\ StepAt(x).op = "call"
          /\ StepAt(x) = StepAt([fun |-> x.fun, at |-> x.at])
      BY <1>1, <1>2, <1>6, <3>1, Called
    <3>3. ~Dead(x.fun, x.at) /\ q \in {StepAt(x).yes, StepAt(x).no}
      BY <1>1, <3>1 DEF AllLive, AnswerOf
    <3>4. /\ ~Dead(x.fun, q) /\ (x.fun = "parseDeclaration" => q # "start")
          /\ x.fun = "parseBlock" => q # "declaration"
      BY <3>2, <3>3, Answers
    <3>. HIDE DEF q
    <3>. QED
      BY <1>1, <1>2, <1>6, <3>1, <3>4 DEF Popped, AllLive, Begins
  <2>. QED
    BY <2>1, <2>2
<1>7. CASE ~Over /\ Top.at \in Ends /\ UNCHANGED stack
  <2>1. ~Begins(Top)
    BY <1>7 DEF Begins, Ends
  <2>. QED
    BY <1>1, <1>2, <1>7, <2>1 DEF AllLive
<1>8. CASE Top.at = "ignored" /\ Moved("true") /\ UNCHANGED tok
  <2>1. ~Dead(Top.fun, "true")
    BY <1>2, <1>8 DEF Moved, Live, Dead
  <2>. QED
    BY <1>3, <1>8, <2>1 DEF Moved
<1>9. CASE stack' = <<>>
  BY <1>9, EmptySeq DEF AllLive
<1>10. CASE UNCHANGED vars
  BY <1>1, <1>10 DEF vars
<1>. QED
  BY <1>1, <1>4, <1>5, <1>6, <1>7, <1>8, <1>9, <1>10 DEF StepKinds

-----------------------------------------------------------------------------
(* The place a frame sees: the one of the innermost declaration below it.  *)
Sees(s, k, place) ==
  \E h \in 1 .. k - 1 : /\ HoldsDecl(s[h]) /\ PlaceOf(s, h) = place
                        /\ \A j \in h + 1 .. k - 1 : ~HoldsDecl(s[j])

LEMMA SeesBelow ==
  ASSUME NEW s, NEW k \in Nat \ {0, 1}, HoldsDecl(s[k - 1])
  PROVE  Sees(s, k, PlaceOf(s, k - 1))
<1>1. k - 1 \in 1 .. k - 1 /\ (k - 1) + 1 .. k - 1 = {}
  OBVIOUS
<1>. QED
  BY <1>1 DEF Sees

LEMMA SeesThrough ==
  ASSUME NEW s, NEW k \in Nat \ {0, 1}, ~HoldsDecl(s[k - 1]), NEW place, Sees(s, k - 1, place)
  PROVE  Sees(s, k, place)
<1>1. PICK h \in 1 .. (k - 1) - 1 : /\ HoldsDecl(s[h]) /\ PlaceOf(s, h) = place
                                    /\ \A j \in h + 1 .. (k - 1) - 1 : ~HoldsDecl(s[j])
  BY DEF Sees
<1>2. h \in 1 .. k - 1 /\ \A j \in h + 1 .. k - 1 : j = k - 1 \/ j \in h + 1 .. (k - 1) - 1
  OBVIOUS
<1>. QED
  BY <1>1, <1>2 DEF Sees

(* What is open for a frame that sees a place, itself no declaration.      *)
LEMMA SeenIsOpen ==
  ASSUME NEW s, Len(s) \in Nat, NEW k \in 1 .. Len(s), NEW place, Sees(s, k, place)
  PROVE  LET o == OpenUpto(s)[k - 1]
         IN  o \in OpenSeqs /\ o # <<>> /\ o[Len(o)] = place
<1>1. PICK h \in 1 .. k - 1 : /\ HoldsDecl(s[h]) /\ PlaceOf(s, h) = place
                              /\ \A j \in h + 1 .. k - 1 : ~HoldsDecl(s[j])
  BY DEF Sees
<1>. DEFINE u == OpenUpto(s)[h - 1]
            o == OpenUpto(s)[k - 1]
<1>2. h \in Nat /\ k - 1 \in Nat /\ h <= k - 1 /\ k - 1 <= Len(s) /\ h \in 1 .. Len(s) /\ h - 1 \in 0 .. Len(s)
  OBVIOUS
<1>3. o = OpenUpto(s)[h]
  BY <1>1, <1>2, NothingAbove
<1>4. u \in OpenSeqs /\ OpenUpto(s)[h] = Append(u, place)
  BY <1>1, <1>2, OpenUptoIs DEF Joined
<1>. HIDE DEF u, o
<1>5. place \in PlaceNames
  BY <1>1, PlaceNamed
<1>6. o \in OpenSeqs /\ Len(o) = Len(u) + 1 /\ o[Len(u) + 1] = place /\ Len(u) \in Nat
  BY <1>3, <1>4, <1>5 DEF OpenSeqs
<1>7. o # <<>>
  BY <1>6, EmptySeq
<1>. QED
  BY <1>6, <1>7 DEF o

(* Where the frames are: what they see follows from what calls them.       *)
Seated(s, k) ==
  LET f == s[k].fun IN
  /\ f = "parseImport" => Sees(s, k, "imports")
  /\ f \in {"parseDeclaration", "parseVariableDeclaration", Proc} => Sees(s, k, "block")
  /\ f \in {"parseFormalParameters", "parseFormalParameterList", "parseFormalParameter"} => Sees(s, k, "formals")
  /\ f \in InBody => Sees(s, k, "stmt")
  /\ f = "parseQualident" => \E place \in {"block", "formals", "stmt"} : Sees(s, k, place)
  /\ f = "parseBlock" => Sees(s, k, PlaceOfBlock(s, k))
  /\ f = Unit => k = 1

LEMMA AllSeated ==
  ASSUME NEW s, WellStacked(s), s # <<>>, \A k \in 1 .. Len(s) : ~Dead(s[k].fun, s[k].at)
  PROVE  \A k \in 1 .. Len(s) : Seated(s, k)
<1>1. Len(s) \in Nat \ {0} /\ s[1].fun = Unit
  BY StackedParts, ParserAssumption DEF Unit
<1>2. Seated(s, 1)
  BY <1>1 DEF Seated, Unit, Proc, InBody
<1>3. ASSUME NEW k \in Nat \ {0}, k + 1 \in 1 .. Len(s), Seated(s, k)
      PROVE  Seated(s, k + 1)
  <2>. DEFINE f == s[k].fun
              p == s[k].at
              g == s[k + 1].fun
  <2>1. CallSites(f, p, g) /\ ~Dead(f, p) /\ k \in 1 .. Len(s)
    <3>1. k \in 1 .. Len(s) - 1 /\ k \in 1 .. Len(s)
      BY <1>1, <1>3
    <3>. QED
      BY <3>1, Called
  <2>2. k + 1 \in Nat \ {0, 1} /\ (k + 1) - 1 = k /\ k + 1 <= Len(s)
    BY <1>3
  <2>3. HoldsDecl(s[k]) => Sees(s, k + 1, PlaceOf(s, k))
    BY <2>2, SeesBelow
  <2>4. \A place : ~HoldsDecl(s[k]) /\ Sees(s, k, place) => Sees(s, k + 1, place)
    BY <2>2, SeesThrough
  <2>. HIDE DEF f, p, g
  <2>5. HoldsDecl(s[k]) <=> f \in {Unit, Proc} /\ p \notin {"start", "name", "act", "enter"}
    BY DEF HoldsDecl, f, p, Unit, Proc
  <2>6. g = "parseImport" => Sees(s, k + 1, "imports")
    <3>1. p = "import" => PlaceOf(s, k) = "imports"
      BY DEF PlaceOf, p
    <3>. QED
      BY <2>1, <2>3, <2>5, <3>1 DEF CallSites
  <2>7. g = "parseBlock" => Sees(s, k + 1, PlaceOfBlock(s, k + 1))
    <3>1. p = "block" => PlaceOf(s, k) = PlaceOfBlock(s, k + 1)
      BY DEF PlaceOf, p
    <3>. QED
      BY <2>1, <2>3, <2>5, <3>1 DEF CallSites
  <2>8. g = "parseDeclaration" => Sees(s, k + 1, "block")
    <3>1. f = "parseBlock" /\ p = "declaration" => Sees(s, k, "block")
      BY <1>3, <2>1, <2>2 DEF Seated, PlaceOfBlock, f, p
    <3>. QED
      BY <2>1, <2>4, <2>5, <3>1 DEF CallSites, Unit, Proc
  <2>9. g \in {"parseVariableDeclaration", Proc} => Sees(s, k + 1, "block")
    <3>1. f = "parseDeclaration" => Sees(s, k, "block")
      BY <1>3 DEF Seated, f
    <3>. QED
      BY <2>1, <2>4, <2>5, <3>1 DEF CallSites, Unit, Proc
  <2>10. g = "parseFormalParameters" => Sees(s, k + 1, "formals")
    <3>1. p = "formals" => PlaceOf(s, k) = "formals"
      BY DEF PlaceOf, p
    <3>. QED
      BY <2>1, <2>3, <2>5, <3>1 DEF CallSites
  <2>11. g \in {"parseFormalParameterList", "parseFormalParameter"} => Sees(s, k + 1, "formals")
    <3>1. f \in {"parseFormalParameters", "parseFormalParameterList"} => Sees(s, k, "formals")
      BY <1>3 DEF Seated, f
    <3>. QED
      BY <2>1, <2>4, <2>5, <3>1 DEF CallSites, Unit, Proc
  <2>12. g \in InBody => Sees(s, k + 1, "stmt")
    <3>1. f \in InBody => Sees(s, k, "stmt")
      BY <1>3 DEF Seated, f
    <3>2. f = "parseBlock" /\ p = "body" => Sees(s, k, "stmt")
      BY <1>3, <2>1, <2>2 DEF Seated, PlaceOfBlock, f, p
    <3>. QED
      BY <2>1, <2>4, <2>5, <3>1, <3>2 DEF CallSites, Unit, Proc, InBody, Dead
  <2>13. g = "parseQualident" => \E place \in {"block", "formals", "stmt"} : Sees(s, k + 1, place)
    <3>1. /\ f = "parseVariableDeclaration" => Sees(s, k, "block")
          /\ f \in {"parseFormalParameters", "parseFormalParameter"} => Sees(s, k, "formals")
          /\ f \in InBody => Sees(s, k, "stmt")
      BY <1>3 DEF Seated, f
    <3>. QED
      BY <2>1, <2>4, <2>5, <3>1 DEF CallSites, Unit, Proc, InBody
  <2>14. g # Unit
    BY <2>1 DEF CallSites
  <2>. QED
    BY <2>6, <2>7, <2>8, <2>9, <2>10, <2>11, <2>12, <2>13, <2>14 DEF Seated, g
<1>. DEFINE S == {k \in Nat : k + 1 \in 1 .. Len(s) => Seated(s, k + 1)}
<1>4. 0 \in S
  BY <1>2
<1>5. ASSUME NEW k \in Nat, k \in S PROVE k + 1 \in S
  <2>. SUFFICES ASSUME (k + 1) + 1 \in 1 .. Len(s) PROVE Seated(s, (k + 1) + 1)
    OBVIOUS
  <2>1. k + 1 \in Nat \ {0} /\ k + 1 \in 1 .. Len(s)
    BY <1>1
  <2>. QED
    BY <1>3, <1>5, <2>1
<1>. HIDE DEF S
<1>6. \A k \in Nat : k \in S
  BY <1>4, <1>5, StepByStep
<1>. SUFFICES ASSUME NEW k \in 1 .. Len(s) PROVE Seated(s, k)
  OBVIOUS
<1>7. k - 1 \in Nat /\ (k - 1) + 1 = k
  BY <1>1
<1>8. k - 1 \in S
  BY <1>6, <1>7
<1>. QED
  BY <1>7, <1>8 DEF S

(* Sema is never told of something it is not ready for, whatever the text  *)
(* and however the parser recovers from its errors (Parser.cc).            *)
THEOREM SemaIsToldInPlace == Spec => []CallsAreExpected
<1>1. IInv /\ Alive => CallsAreExpected
  <2>. SUFFICES ASSUME IInv, Alive, At("act"), ~Lost
                PROVE  IF Open = <<>> THEN StepAt(Top).name = "enterScope"
                       ELSE StepAt(Top).name \in Expected(Open[Len(Open)])
    BY DEF CallsAreExpected
  <2>. DEFINE n == Len(stack)
              a == StepAt(Top).name
              f == Top.fun
              p == Top.at
              o == OpenUpto(stack)[n]
              u == OpenUpto(stack)[n - 1]
  <2>1. WellStacked(stack) /\ stack # <<>> /\ ~Over /\ Top.at \notin Ends /\ StepAt(Top).op = "act"
    BY DEF IInv, At, Over
  <2>2. /\ n \in Nat \ {0} /\ n \in 1 .. n /\ Top = stack[n] /\ stack[1].fun = Unit
        /\ f \in DOMAIN Routines /\ p \in Points(f)
    BY <2>1, TopPlaced, StackedParts, ParserAssumption DEF Top, Unit
  <2>3. ~Dead(f, p)
    BY <2>2 DEF Alive, AllLive
  <2>4. Tells(f, p, a)
    <3>1. StepAt(Top) = StepAt([fun |-> f, at |-> p])
      BY DEF StepAt
    <3>. QED
      BY <2>1, <2>2, <2>3, <3>1, Tellings
  <2>5. Seated(stack, n)
    BY <2>1, <2>2, AllSeated DEF Alive, AllLive
  <2>6. Open = o /\ o = Joined(stack, n, u) /\ u \in OpenSeqs /\ Len(u) \in Nat
    <3>1. Open = o
      BY <2>1 DEF Open
    <3>2. n - 1 \in 0 .. n
      BY <2>2
    <3>. QED
      BY <2>2, <3>1, <3>2, OpenUptoIs DEF OpenSeqs
  <2>7. HoldsDecl(Top) <=> f \in {Unit, Proc} /\ p \notin {"start", "name", "act", "enter"}
    BY DEF HoldsDecl, Unit, Proc
  <2>8. ASSUME HoldsDecl(Top)
        PROVE  o # <<>> /\ o[Len(o)] = PlaceOf(stack, n)
    <3>1. o = Append(u, PlaceOf(stack, n)) /\ PlaceOf(stack, n) \in PlaceNames
      BY <2>2, <2>6, <2>8, PlaceNamed DEF Joined
    <3>. HIDE DEF o, u
    <3>2. o \in OpenSeqs /\ Len(o) = Len(u) + 1 /\ o[Len(u) + 1] = PlaceOf(stack, n)
      BY <2>6, <3>1 DEF OpenSeqs
    <3>. QED
      BY <2>6, <3>2, EmptySeq
  <2>9. ASSUME ~HoldsDecl(Top), NEW place, Sees(stack, n, place)
        PROVE  o # <<>> /\ o[Len(o)] = place
    BY <2>2, <2>6, <2>9, SeenIsOpen DEF Joined
  <2>10. CASE HoldsDecl(Top)
    <3>1. p = "heading" => PlaceOf(stack, n) = "formals"
      BY <2>2 DEF PlaceOf
    <3>2. p = "finish" => PlaceOf(stack, n) = "end"
      BY <2>2 DEF PlaceOf
    <3>. QED
      BY <2>4, <2>6, <2>7, <2>8, <2>10, <3>1, <3>2 DEF Tells, Unit, Proc, InBody, Expected, NameCalls,
         ExpressionCalls
  <2>11. CASE f = Unit /\ ~HoldsDecl(Top)
    <3>1. n = 1
      BY <2>2, <2>5, <2>11 DEF Seated
    <3>2. Open = <<>>
      BY <2>2, <2>6, <2>11, <3>1, OpenUptoIs DEF Joined
    <3>3. a = "enterScope"
      BY <2>4, <2>7, <2>11 DEF Tells, Unit, Proc, InBody
    <3>. QED
      BY <3>2, <3>3
  <2>12. CASE f # Unit /\ ~HoldsDecl(Top)
    <3>1. \E place : Sees(stack, n, place) /\ a \in Expected(place)
      BY <2>2, <2>4, <2>5, <2>7, <2>12 DEF Seated, Tells, Unit, Proc, InBody, Expected, NameCalls,
         ExpressionCalls
    <3>. QED
      BY <2>6, <2>9, <2>12, <3>1
  <2>. QED
    BY <2>10, <2>11, <2>12
<1>2. IInv /\ Alive /\ [Next]_vars => (IInv /\ Alive)'
  BY NextIInv, NextAlive
<1>. QED
  BY <1>1, <1>2, InitIInv, InitAlive, PTL DEF Spec

-----------------------------------------------------------------------------
(* The points of the three functions whose frames tell a place.            *)
UnitMoves(p, q) ==
  /\ p \in {"start", "name", "enter", "skip", "imports", "end", "finish", "last", "period"}
  /\ p = "start" => q = "name"
  /\ p = "name" => q = "enter"
  /\ p = "enter" => q = "skip"
  /\ p = "skip" => q = "imports"
  /\ p = "imports" => q \in {"import", "block"}
  /\ p = "end" => q = "finish"
  /\ p = "finish" => q = "last"
  /\ p = "last" => q = "period"
  /\ p = "period" => q = "true"
ProcMoves(p, q) ==
  /\ p \in {"start", "name", "act", "enter", "skip", "params", "heading", "semi", "end", "finish", "last"}
  /\ p = "start" => q = "name"
  /\ p = "name" => q = "act"
  /\ p = "act" => q = "enter"
  /\ p = "enter" => q = "skip"
  /\ p = "skip" => q = "params"
  /\ p = "params" => q \in {"formals", "heading"}
  /\ p = "heading" => q = "semi"
  /\ p = "semi" => q = "block"
  /\ p = "end" => q = "finish"
  /\ p = "finish" => q = "last"
  /\ p = "last" => q = "true"
BlockMoves(p, q) ==
  /\ p \in {"start", "begin", "end", "noEnd"}
  /\ p = "start" => q \in {"declaration", "begin"}
  /\ p = "begin" => q \in {"body", "end"}
  /\ p = "end" => q \in {"true", "noEnd"}
  /\ p = "noEnd" => q \in {"ignored", "true"}

LEMMA MovesOfPlaces ==
  ASSUME NEW f \in {Unit, Proc, "parseBlock"}, NEW p \in Points(f), StepAt([fun |-> f, at |-> p]).op # "call",
         NEW q \in {StepAt([fun |-> f, at |-> p]).yes, StepAt([fun |-> f, at |-> p]).no}, q # "error"
  PROVE  /\ f = Unit => UnitMoves(p, q)
         /\ f = Proc => ProcMoves(p, q)
         /\ f = "parseBlock" => BlockMoves(p, q)
<1>. USE DEF Points, StepAt, If, Take, Telling, Parsing, Expecting, Advancing, Step, None, Unit, Proc
<1>1. CASE f = Unit
  BY <1>1, Table DEF ParseCompilationUnit, UnitMoves
<1>2. CASE f = Proc
  BY <1>2, Table DEF ParseProcedureDeclaration, ProcMoves
<1>3. CASE f = "parseBlock"
  BY <1>3, Table DEF ParseBlock, BlockMoves
<1>. QED
  BY <1>1, <1>2, <1>3

-----------------------------------------------------------------------------
(* Below a frame that is no part of a body, every false answer is passed   *)
(* on: parseExpression alone swallows one.                                 *)
Passing(s, k) == \A j \in 1 .. k - 1 : ~Swallows(s[j])
Outside(frame) == frame.fun \notin InBody \cup {"parseQualident"}

LEMMA OutsidePasses ==
  ASSUME NEW s, WellStacked(s), s # <<>>, \A k \in 1 .. Len(s) : ~Dead(s[k].fun, s[k].at)
  PROVE  /\ \A k \in 1 .. Len(s) : Outside(s[k]) => Passing(s, k)
         /\ \A k \in 1 .. Len(s) - 1 : AnsweredAt(s[k].fun, s[k].at, StepAt(s[k]))
<1>1. Len(s) \in Nat \ {0}
  BY StackedParts
<1>2. ASSUME NEW k \in 1 .. Len(s) - 1
      PROVE  /\ AnsweredAt(s[k].fun, s[k].at, StepAt(s[k]))
             /\ s[k].fun \notin InBody => ~Swallows(s[k])
             /\ Outside(s[k + 1]) => Outside(s[k])
  <2>1. AnsweredAt(s[k].fun, s[k].at, StepAt(s[k])) /\ CallSites(s[k].fun, s[k].at, s[k + 1].fun)
    <3>1. k \in 1 .. Len(s)
      BY <1>1
    <3>2. /\ s[k].fun \in DOMAIN Routines /\ s[k].at \in Points(s[k].fun)
          /\ StepAt(s[k]) = StepAt([fun |-> s[k].fun, at |-> s[k].at])
          /\ StepAt(s[k]).op = "call"
          /\ CallSites(s[k].fun, s[k].at, s[k + 1].fun)
      BY Called
    <3>3. ~Dead(s[k].fun, s[k].at)
      BY <3>1
    <3>. QED
      BY <3>2, <3>3, Answers
  <2>2. s[k].fun \notin InBody => ~Swallows(s[k])
    BY <2>1 DEF AnsweredAt, InBody, Swallows
  <2>. QED
    BY <2>1, <2>2 DEF CallSites, Outside
<1>. DEFINE S == {k \in Nat : k + 1 \in 1 .. Len(s) => (Outside(s[k + 1]) => Passing(s, k + 1))}
<1>3. 0 \in S
  BY DEF Passing
<1>4. ASSUME NEW k \in Nat, k \in S PROVE k + 1 \in S
  <2>. SUFFICES ASSUME (k + 1) + 1 \in 1 .. Len(s), Outside(s[(k + 1) + 1]) PROVE Passing(s, (k + 1) + 1)
    OBVIOUS
  <2>1. k + 1 \in 1 .. Len(s) - 1 /\ k + 1 \in 1 .. Len(s)
    BY <1>1
  <2>2. Outside(s[k + 1]) /\ ~Swallows(s[k + 1])
    BY <1>2, <2>1 DEF Outside
  <2>3. Passing(s, k + 1)
    BY <1>4, <2>1, <2>2
  <2>4. \A j \in 1 .. ((k + 1) + 1) - 1 : j = k + 1 \/ j \in 1 .. (k + 1) - 1
    OBVIOUS
  <2>. QED
    BY <2>2, <2>3, <2>4 DEF Passing
<1>. HIDE DEF S
<1>5. \A k \in Nat : k \in S
  BY <1>3, <1>4, StepByStep
<1>6. ASSUME NEW k \in 1 .. Len(s), Outside(s[k]) PROVE Passing(s, k)
  <2>1. k - 1 \in Nat /\ (k - 1) + 1 = k
    BY <1>1
  <2>2. k - 1 \in S
    BY <1>5, <2>1
  <2>. QED
    BY <1>6, <2>1, <2>2 DEF S
<1>. QED
  BY <1>2, <1>6

(* Lost, of a stack and a token.                                           *)
LostIn(s, t) == s # <<>> /\ (t = Eof \/ (s[Len(s)].at = "error" /\ Passing(s, Len(s))))

LEMMA LostIs == Lost <=> LostIn(stack, tok)
BY DEF Lost, LostIn, Passing, Over, Top

LEMMA LostIsPrimed == Lost' <=> LostIn(stack', tok')
BY DEF Lost, LostIn, Passing, Over, Top, Swallows, StepAt

(* What is lost stays so.                                                  *)
LEMMA LostStays ==
  ASSUME IInv, Alive, [Next]_vars, Over \/ Lost
  PROVE  stack' = <<>> \/ LostIn(stack', tok')
<1>. DEFINE n == Len(stack)
<1>1. StepKinds /\ WellStacked(stack)
  BY StepsAreOfKinds DEF IInv
<1>2. CASE Over
  BY <1>1, <1>2 DEF StepKinds, Moved, Call, At, Over, vars
<1>3. CASE tok = Eof
  <2>1. tok' = Eof
    <3>1. ReadToken => tok' = Eof
      BY <1>3 DEF ReadToken, Upcoming, EndOf
    <3>. QED
      BY <1>3, <3>1 DEF Next, Test, Consume, Advance, Call, Act, Either, Return, Skip, Recover,
         IgnoreAnswer, vars
  <2>. QED
    BY <2>1 DEF LostIn
<1>4. CASE ~Over /\ LostIn(stack, tok) /\ tok # Eof
  <2>1. stack # <<>> /\ Top.at = "error" /\ Passing(stack, n) /\ n \in Nat \ {0} /\ Top = stack[n]
    BY <1>1, <1>4, TopPlaced DEF LostIn, Top
  <2>2. "error" \in Ends /\ "error" # "ignored" /\ "error" \notin {"true", "false"}
    BY DEF Ends
  <2>3. ASSUME NEW b \in BOOLEAN, Answer(b), UNCHANGED tok, tok \in Sync \cup {Eof}, b <=> tok \notin Sync
        PROVE  stack' = <<>> \/ LostIn(stack', tok')
    <3>1. b = FALSE
      BY <1>4, <2>3
    <3>2. CASE n = 1
      BY <2>3, <3>2 DEF Answer
    <3>3. CASE n # 1
      <4>. DEFINE q == AnswerOf(stack[n - 1], b)
      <4>1. Popped(stack, stack', q)
        BY <1>4, <2>3, <3>3, AnswerPops
      <4>2. n - 1 \in 1 .. n - 1 /\ n - 1 \in Nat
        <5>1. n \in Nat \ {0}
          BY <2>1
        <5>. HIDE DEF n
        <5>. QED
          BY <3>3, <5>1
      <4>3. q = "error"
        BY <2>1, <3>1, <4>2 DEF Passing, Swallows, AnswerOf
      <4>. HIDE DEF q
      <4>4. stack' # <<>> /\ Len(stack') = n - 1 /\ stack'[n - 1].at = "error"
            /\ \A k \in 1 .. n - 1 : k # n - 1 => stack'[k] = stack[k]
        BY <4>1, <4>2, <4>3 DEF Popped
      <4>5. \A k \in 1 .. (n - 1) - 1 : k \in 1 .. n - 1 /\ k # n - 1
        BY <4>2
      <4>6. Passing(stack', n - 1)
        BY <2>1, <4>4, <4>5 DEF Passing
      <4>. QED
        BY <4>4, <4>6 DEF LostIn
    <3>. QED
      BY <3>2, <3>3
  <2>4. CASE UNCHANGED stack
    BY <1>4, <2>4 DEF LostIn
  <2>. QED
    BY <1>1, <1>4, <2>1, <2>2, <2>3, <2>4 DEF StepKinds, Call, At, vars
<1>. QED
  BY <1>2, <1>3, <1>4, LostIs

-----------------------------------------------------------------------------
(* What is open before and after a step.                                   *)
LEMMA JoinedSame ==
  ASSUME NEW s, NEW t, NEW j, s[j] = t[j],
         HoldsDecl(s[j]) /\ s[j].at = "block" => PlaceOfBlock(s, j + 1) = PlaceOfBlock(t, j + 1)
  PROVE  \A u : Joined(s, j, u) = Joined(t, j, u)
BY DEF Joined, PlaceOf

(* Frames that are left alone, when no place depends on the one above.     *)
LEMMA OpenSame ==
  ASSUME NEW s, WellStacked(s), s # <<>>, NEW t, Len(t) \in Nat, NEW k \in Nat, k + 1 \in 1 .. Len(s), k <= Len(t),
         \A j \in 1 .. k : s[j] = t[j], s[k + 1].fun # "parseBlock"
  PROVE  OpenUpto(s)[k] = OpenUpto(t)[k]
<1>1. Len(s) \in Nat \ {0}
  BY StackedParts
<1>2. ASSUME NEW j \in 1 .. k
      PROVE  \A u : Joined(s, j, u) = Joined(t, j, u)
  <2>1. s[j] = t[j] /\ j \in 1 .. Len(s) - 1
    BY <1>1
  <2>2. CASE j = k
    <3>1. CallSites(s[j].fun, s[j].at, s[j + 1].fun) /\ s[j + 1].fun # "parseBlock"
      BY <2>1, <2>2, Called
    <3>2. ~(HoldsDecl(s[j]) /\ s[j].at = "block")
      BY <3>1 DEF CallSites, HoldsDecl, Unit, Proc
    <3>. QED
      BY <2>1, <3>2, JoinedSame
  <2>3. CASE j # k
    <3>1. s[j + 1] = t[j + 1] /\ ~(j + 1 > Len(s)) /\ ~(j + 1 > Len(t))
      BY <1>1, <2>3
    <3>2. PlaceOfBlock(s, j + 1) = PlaceOfBlock(t, j + 1)
      BY <3>1 DEF PlaceOfBlock
    <3>. QED
      BY <2>1, <3>2 DEF Joined, PlaceOf
  <2>. QED
    BY <2>2, <2>3
<1>. QED
  BY <1>1, <1>2, SameOpen

(* A block above the innermost declaration tells its place.                *)
ToldByBlock(s, t, k) ==
  \E u \in OpenSeqs : /\ OpenUpto(s)[k] = Append(u, PlaceOfBlock(s, k))
                      /\ OpenUpto(t)[k] = Append(u, PlaceOfBlock(t, k))

LEMMA BlockTells ==
  ASSUME NEW s, WellStacked(s), s # <<>>, NEW t, Len(t) \in Nat, NEW k \in 1 .. Len(s), k <= Len(t),
         s[k].fun = "parseBlock", t[k].fun = "parseBlock", \A j \in 1 .. k - 1 : s[j] = t[j]
  PROVE  ToldByBlock(s, t, k)
<1>1. Len(s) \in Nat \ {0} /\ s[1].fun = Unit
  BY StackedParts, ParserAssumption DEF Unit
<1>2. k # 1 /\ k \in Nat
  BY <1>1 DEF Unit
<1>3. k - 1 \in 1 .. Len(s) - 1 /\ (k - 1) + 1 = k /\ k - 1 \in 1 .. Len(s)
      /\ k - 1 \in 1 .. Len(t) /\ k \in 1 .. Len(t)
      /\ k - 1 \in 1 .. k - 1 /\ (k - 1) - 1 \in 0 .. Len(s) /\ (k - 1) - 1 \in Nat /\ ((k - 1) - 1) + 1 = k - 1
  BY <1>1, <1>2
<1>4. CallSites(s[k - 1].fun, s[k - 1].at, s[k].fun)
  BY <1>3, Called
<1>5. s[k - 1] = t[k - 1] /\ HoldsDecl(s[k - 1]) /\ s[k - 1].at = "block" /\ s[k - 1].fun # "parseBlock"
  BY <1>3, <1>4 DEF CallSites, HoldsDecl, Unit, Proc
<1>6. PlaceOf(s, k - 1) = PlaceOfBlock(s, k) /\ PlaceOf(t, k - 1) = PlaceOfBlock(t, k)
  BY <1>3, <1>5 DEF PlaceOf
<1>7. ~HoldsDecl(s[k]) /\ ~HoldsDecl(t[k])
  BY DEF HoldsDecl
<1>. DEFINE m == (k - 1) - 1
            u == OpenUpto(s)[m]
<1>8. u = OpenUpto(t)[m] /\ u \in OpenSeqs
  <2>1. /\ m \in Nat /\ m + 1 \in 1 .. Len(s) /\ m \in 0 .. Len(s) /\ m <= Len(t) /\ s[m + 1].fun # "parseBlock"
        /\ \A j \in 1 .. m : s[j] = t[j]
    BY <1>1, <1>3, <1>5
  <2>. HIDE DEF m
  <2>2. u = OpenUpto(t)[m]
    BY <2>1, OpenSame
  <2>. QED
    BY <1>1, <2>1, <2>2, OpenUptoIs
<1>9. OpenUpto(s)[k] = OpenUpto(s)[k - 1] /\ OpenUpto(t)[k] = OpenUpto(t)[k - 1]
  BY <1>1, <1>3, <1>7, OpenUptoIs DEF Joined
<1>10. OpenUpto(s)[k - 1] = Append(u, PlaceOfBlock(s, k)) /\ OpenUpto(t)[k - 1] = Append(u, PlaceOfBlock(t, k))
  BY <1>1, <1>3, <1>5, <1>6, <1>8, OpenUptoIs DEF Joined
<1>. QED
  BY <1>8, <1>9, <1>10 DEF ToldByBlock

-----------------------------------------------------------------------------
(* The steps of the protocol, for what is open before and after: v and w.  *)
Innermost(v, place) == v # <<>> /\ v[Len(v)] = place
Advances(v, w) ==
  \E u \in OpenSeqs, a \in PlaceNames, b \in PlaceNames :
    /\ v = Append(u, a) /\ w = Append(u, b)
    /\ \/ a = "imports" /\ b = "block"
       \/ a = "formals" /\ b = "block"
       \/ a = "block" /\ b \in {"stmt", "end"}
       \/ a = "stmt" /\ b = "end"
ProtocolStep(v, w) ==
  \/ v = w
  \/ v = <<>> /\ w = <<"imports">>
  \/ v \in OpenSeqs /\ Innermost(v, "block") /\ w = Append(v, "formals")
  \/ w \in OpenSeqs /\ w # <<>> /\ v = Append(w, "end")
  \/ Advances(v, w)

LEMMA AppendParts ==
  ASSUME NEW u \in OpenSeqs, NEW a \in PlaceNames, NEW b \in PlaceNames
  PROVE  LET v == Append(u, a)
         IN  /\ v # <<>> /\ v[Len(v)] = a /\ Len(v) = Len(u) + 1
             /\ [v EXCEPT ![Len(v)] = b] = Append(u, b)
             /\ SubSeq(v, 1, Len(v) - 1) = u
<1>. DEFINE v == Append(u, a)
            w == Append(u, b)
            x == [v EXCEPT ![Len(v)] = b]
            r == SubSeq(v, 1, Len(v) - 1)
<1>1. u \in Seq(PlaceNames) /\ Len(u) \in Nat
  BY DEF OpenSeqs
<1>2. v \in Seq(PlaceNames) /\ Len(v) = Len(u) + 1 /\ v[Len(u) + 1] = a /\ \A i \in 1 .. Len(u) : v[i] = u[i]
  BY <1>1
<1>3. w \in Seq(PlaceNames) /\ Len(w) = Len(u) + 1 /\ w[Len(u) + 1] = b /\ \A i \in 1 .. Len(u) : w[i] = u[i]
  BY <1>1
<1>. HIDE DEF v, w
<1>4. v # <<>>
  BY <1>1, <1>2, EmptySeq
<1>5. x = w
  <2>1. /\ x \in Seq(PlaceNames) /\ Len(x) = Len(v)
        /\ \A i \in 1 .. Len(v) : x[i] = IF i = Len(v) THEN b ELSE v[i]
    <3>1. Len(v) \in 1 .. Len(v)
      BY <1>1, <1>2
    <3>. QED
      BY <1>2, <3>1, ExceptSeq
  <2>. HIDE DEF x
  <2>2. \A i \in 1 .. Len(v) : x[i] = w[i]
    BY <1>1, <1>2, <1>3, <2>1
  <2>. QED
    BY <1>2, <1>3, <2>1, <2>2, SeqEqual
<1>6. r = u
  <2>1. r \in Seq(PlaceNames) /\ Len(r) = Len(v) - 1 /\ \A i \in 1 .. Len(v) - 1 : r[i] = v[i]
    BY <1>2, <1>4, StackParts
  <2>. HIDE DEF r
  <2>. QED
    BY <1>1, <1>2, <2>1, SeqEqual
<1>. QED
  BY <1>1, <1>2, <1>4, <1>5, <1>6 DEF v, w

(* The places a moving frame tells.                                        *)
LEMMA PlacesOfUnit ==
  ASSUME NEW s, NEW t, NEW p, NEW q, UnitMoves(p, q), s[1].at = p, t[1].at = q, 1 + 1 > Len(t)
  PROVE  LET a == PlaceOf(s, 1)
             b == PlaceOf(t, 1)
             held == p \notin {"start", "name", "act", "enter"}
             holds == q \notin {"start", "name", "act", "enter"}
         IN  \/ ~held /\ ~holds
             \/ ~held /\ holds /\ b = "imports"
             \/ held /\ holds /\ a = b
             \/ held /\ holds /\ a = "imports" /\ b = "block"
<1>1. CASE p \in {"start", "name"}
  BY <1>1 DEF UnitMoves
<1>2. CASE p = "enter"
  BY <1>2 DEF UnitMoves, PlaceOf
<1>3. CASE p = "skip"
  BY <1>3 DEF UnitMoves, PlaceOf
<1>4. CASE p = "imports" /\ q = "import"
  BY <1>4 DEF UnitMoves, PlaceOf
<1>5. CASE p = "imports" /\ q = "block"
  BY <1>5 DEF UnitMoves, PlaceOf, PlaceOfBlock
<1>6. CASE p \in {"end", "finish", "last", "period"}
  BY <1>6 DEF UnitMoves, PlaceOf
<1>. QED
  BY <1>1, <1>2, <1>3, <1>4, <1>5, <1>6 DEF UnitMoves

(* The top frame moves on.                                                 *)
LEMMA MoveFollows ==
  ASSUME NEW s, WellStacked(s), s # <<>>, NEW t, NEW f, NEW p, NEW q, MovedTo(s, t, q),
         f = s[Len(s)].fun, p = s[Len(s)].at, Seated(s, Len(s)),
         \/ p = "ignored" /\ q = "true"
         \/ /\ f = Unit => UnitMoves(p, q)
            /\ f = Proc => ProcMoves(p, q)
            /\ f = "parseBlock" => BlockMoves(p, q)
  PROVE  ProtocolStep(OpenUpto(s)[Len(s)], OpenUpto(t)[Len(t)])
<1>. DEFINE n == Len(s)
            u == OpenUpto(s)[n - 1]
<1>1. /\ n \in Nat \ {0} /\ n \in 1 .. n /\ Len(t) = n
      /\ \A j \in 1 .. n - 1 : s[j] = t[j]
      /\ t[n].fun = f /\ t[n].at = q
  BY TopPlaced DEF MovedTo
<1>2. n - 1 \in Nat /\ (n - 1) + 1 = n /\ n - 1 \in 0 .. n /\ n - 1 <= n
  BY <1>1
<1>3. OpenUpto(s)[n] = Joined(s, n, u) /\ u \in OpenSeqs
  BY <1>1, <1>2, OpenUptoIs
<1>4. ASSUME f # "parseBlock"
      PROVE  OpenUpto(t)[n] = Joined(t, n, u)
  <2>1. u = OpenUpto(t)[n - 1]
    <3>. DEFINE m == n - 1
    <3>1. /\ m \in Nat /\ m + 1 \in 1 .. n /\ m <= Len(t) /\ Len(t) \in Nat
          /\ \A j \in 1 .. m : s[j] = t[j]
          /\ s[m + 1].fun # "parseBlock"
      BY <1>1, <1>2, <1>4
    <3>. HIDE DEF m
    <3>2. OpenUpto(s)[m] = OpenUpto(t)[m]
      BY <3>1, OpenSame
    <3>. QED
      BY <3>2 DEF m
  <2>. QED
    BY <1>1, <1>2, <2>1, OpenUptoIs
<1>5. CASE f \notin {Unit, Proc, "parseBlock"}
  <2>1. ~HoldsDecl(s[n]) /\ ~HoldsDecl(t[n])
    BY <1>1, <1>5 DEF HoldsDecl, Unit, Proc
  <2>. QED
    BY <1>1, <1>3, <1>4, <1>5, <2>1 DEF Joined, ProtocolStep
<1>6. CASE f = "parseBlock"
  <2>1. PICK r \in OpenSeqs : /\ OpenUpto(s)[n] = Append(r, PlaceOfBlock(s, n))
                              /\ OpenUpto(t)[n] = Append(r, PlaceOfBlock(t, n))
    <3>. DEFINE k == n
    <3>1. /\ k \in 1 .. Len(s) /\ k <= Len(t) /\ Len(t) \in Nat
          /\ s[k].fun = "parseBlock" /\ t[k].fun = "parseBlock"
          /\ \A j \in 1 .. k - 1 : s[j] = t[j]
      BY <1>1, <1>6
    <3>. HIDE DEF k
    <3>2. ToldByBlock(s, t, k)
      BY <3>1, BlockTells
    <3>. QED
      BY <3>2 DEF k, ToldByBlock
  <2>. DEFINE a == PlaceOfBlock(s, n)
              b == PlaceOfBlock(t, n)
  <2>2. a \in PlaceNames /\ b \in PlaceNames
    BY DEF PlaceOfBlock, PlaceNames
  <2>3. a = b \/ (a = "block" /\ b \in {"stmt", "end"})
    BY <1>1, <1>6 DEF PlaceOfBlock, BlockMoves, Unit, Proc
  <2>. HIDE DEF a, b
  <2>4. a = b => ProtocolStep(Append(r, a), Append(r, b))
    BY DEF ProtocolStep
  <2>5. a # b => Advances(Append(r, a), Append(r, b))
    BY <2>2, <2>3 DEF Advances
  <2>. QED
    BY <1>1, <2>1, <2>4, <2>5 DEF ProtocolStep, a, b
<1>7. CASE f \in {Unit, Proc}
  <2>. DEFINE a == PlaceOf(s, n)
              b == PlaceOf(t, n)
  <2>1. a \in PlaceNames /\ b \in PlaceNames
    BY PlaceNamed
  <2>2. /\ HoldsDecl(s[n]) <=> p \notin {"start", "name", "act", "enter"}
        /\ HoldsDecl(t[n]) <=> q \notin {"start", "name", "act", "enter"}
    BY <1>1, <1>7 DEF HoldsDecl, Unit, Proc
  <2>3. f = Unit => n = 1
    BY DEF Seated
  <2>4. f = Proc => n # 1
    <3>1. s[1].fun = Unit
      BY StackedParts, ParserAssumption DEF Unit
    <3>. QED
      BY <3>1 DEF Unit, Proc
  <2>5. p = "ignored" /\ q = "true" =>
          HoldsDecl(s[n]) /\ HoldsDecl(t[n]) /\ a = b
    BY <1>1, <2>2 DEF PlaceOf
  <2>6. ASSUME f = Unit, UnitMoves(p, q)
        PROVE  \/ ~HoldsDecl(s[n]) /\ ~HoldsDecl(t[n])
               \/ ~HoldsDecl(s[n]) /\ HoldsDecl(t[n]) /\ b = "imports"
               \/ HoldsDecl(s[n]) /\ HoldsDecl(t[n]) /\ a = b
               \/ HoldsDecl(s[n]) /\ HoldsDecl(t[n]) /\ a = "imports" /\ b = "block"
    <3>1. n = 1 /\ s[1].at = p /\ t[1].at = q /\ 1 + 1 > Len(t)
      BY <1>1, <2>3, <2>6
    <3>. QED
      BY <2>2, <2>6, <3>1, PlacesOfUnit
  <2>7. ASSUME f = Proc, ProcMoves(p, q)
        PROVE  \/ ~HoldsDecl(s[n]) /\ ~HoldsDecl(t[n])
               \/ ~HoldsDecl(s[n]) /\ HoldsDecl(t[n]) /\ b = "formals"
               \/ HoldsDecl(s[n]) /\ HoldsDecl(t[n]) /\ a = b
               \/ HoldsDecl(s[n]) /\ HoldsDecl(t[n]) /\ a = "formals" /\ b = "block"
    <3>1. n + 1 > Len(t)
      BY <1>1
    <3>. QED
      BY <1>1, <2>2, <2>4, <2>7, <3>1 DEF ProcMoves, PlaceOf, PlaceOfBlock
  <2>8. f = Unit => u = <<>>
    BY <1>1, <2>3, OpenUptoIs
  <2>9. f = Proc => Innermost(u, "block")
    BY <1>1, SeenIsOpen DEF Seated, Innermost
  <2>10. f # "parseBlock"
    BY <1>7 DEF Unit, Proc
  <2>. HIDE DEF a, b
  <2>11. a = b => ProtocolStep(Append(u, a), Append(u, b))
    BY DEF ProtocolStep
  <2>12. a \in {"imports", "formals"} /\ b = "block" => Advances(Append(u, a), Append(u, b))
    BY <1>3, <2>1 DEF Advances
  <2>13. u = <<>> => Append(u, "imports") = <<"imports">>
    OBVIOUS
  <2>14. f = Unit => ProtocolStep(Joined(s, n, u), Joined(t, n, u))
    BY <2>5, <2>6, <2>8, <2>11, <2>12, <2>13, Zenon DEF Joined, ProtocolStep, a, b
  <2>15. f = Proc => ProtocolStep(Joined(s, n, u), Joined(t, n, u))
    BY <1>3, <2>5, <2>7, <2>9, <2>11, <2>12 DEF Joined, ProtocolStep, a, b
  <2>. QED
    BY <1>1, <1>3, <1>4, <1>7, <2>10, <2>14, <2>15
<1>. QED
  BY <1>5, <1>6, <1>7

(* A function is called.                                                   *)
LEMMA CallFollows ==
  ASSUME NEW s, WellStacked(s), s # <<>>, NEW t, NEW g, Pushed(s, t, g)
  PROVE  OpenUpto(s)[Len(s)] = OpenUpto(t)[Len(t)]
<1>. DEFINE n == Len(s)
<1>1. /\ n \in Nat \ {0} /\ Len(t) = n + 1 /\ Len(t) \in Nat /\ n + 1 \in 1 .. Len(t) /\ (n + 1) - 1 = n
      /\ \A j \in 1 .. n : s[j] = t[j]
      /\ t[n + 1].at = "start"
  BY TopPlaced DEF Pushed
<1>2. ASSUME NEW j \in 1 .. n
      PROVE  \A u : Joined(s, j, u) = Joined(t, j, u)
  <2>1. PlaceOfBlock(s, j + 1) = PlaceOfBlock(t, j + 1)
    <3>1. CASE j = n
      BY <1>1, <3>1 DEF PlaceOfBlock
    <3>2. CASE j # n
      <4>1. j + 1 \in 1 .. n /\ ~(j + 1 > n) /\ ~(j + 1 > n + 1)
        <5>1. n \in Nat
          BY <1>1
        <5>. HIDE DEF n
        <5>. QED
          BY <3>2, <5>1
      <4>. QED
        BY <1>1, <4>1 DEF PlaceOfBlock
    <3>. QED
      BY <3>1, <3>2
  <2>. QED
    BY <1>1, <2>1 DEF Joined, PlaceOf
<1>3. OpenUpto(s)[n] = OpenUpto(t)[n]
  BY <1>1, <1>2, SameOpen
<1>4. ~HoldsDecl(t[n + 1])
  BY <1>1 DEF HoldsDecl
<1>5. OpenUpto(t)[n + 1] = OpenUpto(t)[n]
  BY <1>1, <1>4, OpenUptoIs DEF Joined
<1>. QED
  BY <1>1, <1>3, <1>5

(* A function returns true, or into parseExpression.                       *)
LEMMA AnswerFollows ==
  ASSUME NEW s, WellStacked(s), s # <<>>, NEW t, NEW x, NEW b \in BOOLEAN, Popped(s, t, AnswerOf(x, b)),
         x = s[Len(s) - 1], AnsweredAt(x.fun, x.at, StepAt(x)), Seated(s, Len(s)),
         s[Len(s)].at \in Ends, s[Len(s)].fun = Proc => s[Len(s)].at = "true",
         x.fun \in {Unit, Proc, "parseBlock"} => b = TRUE
  PROVE  ProtocolStep(OpenUpto(s)[Len(s)], OpenUpto(t)[Len(t)])
<1>. DEFINE n == Len(s)
            m == n - 1
            l == m - 1
            g == s[n].fun
            q == AnswerOf(x, b)
<1>1. n \in Nat \ {0} /\ n > 1
  BY TopPlaced DEF Popped
<1>2. /\ n \in 1 .. n /\ n \in Nat /\ m \in Nat /\ m \in 1 .. n - 1 /\ m \in 1 .. n
      /\ l \in Nat /\ l + 1 = m /\ m + 1 = n
      /\ l \in 0 .. n /\ l \in 0 .. m /\ m \in 0 .. n /\ l + 1 \in 1 .. n /\ m \in 1 .. m /\ m \in Nat \ {0}
  BY <1>1
<1>3. /\ Len(t) = m /\ t[m].fun = x.fun /\ t[m].at = q /\ s[m] = x
      /\ \A j \in 1 .. m : j # m => s[j] = t[j]
  BY DEF Popped
<1>4. CallSites(x.fun, x.at, g)
  BY <1>2, <1>3, Called
<1>. HIDE DEF n, m, l, q
<1>5. \A j \in 1 .. l : s[j] = t[j]
  BY <1>2, <1>3
<1>. DEFINE u == OpenUpto(s)[l]
            v == OpenUpto(s)[n]
            r == OpenUpto(s)[m]
            w == OpenUpto(t)[m]
<1>6. /\ v = Joined(s, n, r) /\ r = Joined(s, m, u)
      /\ u \in OpenSeqs /\ r \in OpenSeqs /\ w \in OpenSeqs
      /\ w = Joined(t, m, OpenUpto(t)[l])
  <2>1. n - 1 = m /\ m - 1 = l /\ Len(s) = n /\ Len(s) \in Nat /\ Len(t) \in Nat
    BY <1>2, <1>3 DEF n
  <2>. QED
    BY <1>2, <1>3, <2>1, OpenUptoIs
<1>7. ASSUME x.fun # "parseBlock" PROVE w = Joined(t, m, u)
  <2>1. u = OpenUpto(t)[l]
    <3>1. Len(t) \in Nat /\ l <= Len(t) /\ l + 1 \in 1 .. Len(s) /\ s[l + 1].fun # "parseBlock"
      BY <1>2, <1>3, <1>7 DEF n
    <3>. QED
      BY <1>2, <1>5, <3>1, OpenSame
  <2>. QED
    BY <1>6, <2>1
<1>8. g # Unit
  BY <1>4 DEF CallSites
<1>9. CASE x.fun \notin {Unit, Proc, "parseBlock"}
  <2>1. w = r
    <3>1. ~HoldsDecl(s[m]) /\ ~HoldsDecl(t[m])
      BY <1>3, <1>9 DEF HoldsDecl, Unit, Proc
    <3>. QED
      BY <1>6, <1>7, <1>9, <3>1 DEF Joined
  <2>2. CASE g = Proc
    <3>1. HoldsDecl(s[n]) /\ PlaceOf(s, n) = "end"
      BY <2>2 DEF HoldsDecl, PlaceOf, Proc, n
    <3>2. r # <<>>
      <4>1. Sees(s, n, "block")
        BY <2>2 DEF Seated, n
      <4>2. n - 1 = m /\ n \in 1 .. Len(s) /\ Len(s) \in Nat
        BY <1>2 DEF n
      <4>. QED
        BY <4>1, <4>2, SeenIsOpen
    <3>3. v = Append(w, "end")
      BY <1>6, <2>1, <3>1 DEF Joined
    <3>. QED
      BY <1>3, <1>6, <2>1, <3>2, <3>3 DEF ProtocolStep, n
  <2>3. CASE g # Proc
    <3>1. ~HoldsDecl(s[n])
      BY <1>8, <2>3 DEF HoldsDecl, Unit, Proc
    <3>2. v = w
      BY <1>6, <2>1, <3>1 DEF Joined
    <3>. QED
      BY <1>3, <3>2 DEF ProtocolStep, n
  <2>. QED
    BY <2>2, <2>3
<1>10. CASE x.fun \in {Unit, Proc}
  <2>1. b = TRUE /\ q = StepAt(x).yes
    BY <1>10 DEF q, AnswerOf
  <2>2. \/ x.at = "import" /\ q = "imports"
        \/ x.at = "formals" /\ q = "heading"
        \/ x.at = "block" /\ q = "end"
    BY <1>10, <2>1 DEF AnsweredAt, Unit, Proc
  <2>3. HoldsDecl(s[m]) /\ HoldsDecl(t[m]) /\ ~HoldsDecl(s[n])
    BY <1>3, <1>4, <1>8, <1>10, <2>2 DEF HoldsDecl, CallSites, Unit, Proc
  <2>4. PlaceOf(s, m) = PlaceOf(t, m)
    <3>1. CASE x.at = "block"
      <4>1. PlaceOf(t, m) = "end"
        BY <1>3, <2>2, <3>1 DEF PlaceOf
      <4>2. PlaceOf(s, m) = PlaceOfBlock(s, n)
        BY <1>2, <1>3, <3>1 DEF PlaceOf
      <4>3. PlaceOfBlock(s, n) = "end"
        BY <1>2 DEF PlaceOfBlock, Ends, n
      <4>. QED
        BY <4>1, <4>2, <4>3
    <3>2. CASE x.at # "block"
      BY <1>3, <2>2, <3>2 DEF PlaceOf
    <3>. QED
      BY <3>1, <3>2
  <2>5. x.fun # "parseBlock"
    BY <1>10 DEF Unit, Proc
  <2>6. v = w
    BY <1>6, <1>7, <2>3, <2>4, <2>5 DEF Joined
  <2>. QED
    BY <1>3, <2>6 DEF ProtocolStep, n
<1>11. CASE x.fun = "parseBlock"
  <2>1. b = TRUE /\ q = StepAt(x).yes
    BY <1>11 DEF q, AnswerOf
  <2>2. (x.at = "declaration" /\ q = "start") \/ (x.at = "body" /\ q = "true")
    BY <1>11, <2>1 DEF AnsweredAt, Unit, Proc
  <2>3. ~HoldsDecl(s[n])
    BY <1>4, <1>8, <1>11, <2>2 DEF HoldsDecl, CallSites, Unit, Proc
  <2>4. ToldByBlock(s, t, m)
    <3>1. m \in 1 .. Len(s) /\ m <= Len(t) /\ Len(t) \in Nat /\ \A j \in 1 .. m - 1 : s[j] = t[j]
      BY <1>2, <1>3 DEF n
    <3>2. s[m].fun = "parseBlock" /\ t[m].fun = "parseBlock"
      BY <1>3, <1>11
    <3>. QED
      BY <3>1, <3>2, BlockTells
  <2>. DEFINE a == PlaceOfBlock(s, m)
              c == PlaceOfBlock(t, m)
  <2>5. PICK z \in OpenSeqs : r = Append(z, a) /\ w = Append(z, c)
    BY <2>4 DEF ToldByBlock
  <2>6. (a = "block" /\ c = "block") \/ (a = "stmt" /\ c = "end")
    <3>1. ~(m > Len(s)) /\ ~(m > Len(t))
      BY <1>2, <1>3 DEF n
    <3>. QED
      BY <1>3, <2>2, <3>1 DEF PlaceOfBlock
  <2>. HIDE DEF a, c
  <2>7. v = r
    BY <1>6, <2>3 DEF Joined
  <2>8. CASE a = c
    BY <1>3, <2>5, <2>7, <2>8 DEF ProtocolStep, n
  <2>9. CASE a = "stmt" /\ c = "end"
    <3>1. Advances(v, w)
      BY <2>5, <2>7, <2>9 DEF Advances, PlaceNames
    <3>. QED
      BY <1>3, <3>1 DEF ProtocolStep, n
  <2>. QED
    BY <2>6, <2>8, <2>9
<1>. QED
  BY <1>9, <1>10, <1>11

-----------------------------------------------------------------------------
(* A handler outside the bodies is beyond repair.                          *)
LEMMA ErrorIsLost ==
  ASSUME NEW s, NEW t, NEW k \in Nat, NEW c, Len(t) = k, t # <<>>, t[k].at = "error",
         \A j \in 1 .. k - 1 : s[j] = t[j], Passing(s, k)
  PROVE  LostIn(t, c)
BY DEF LostIn, Passing

LEMMA StandsStill ==
  ASSUME NEW v, NEW w, v = w PROVE ProtocolStep(v, w)
BY DEF ProtocolStep

(* While nothing is lost, a step of the parser is a step of the protocol.  *)
LEMMA OpenSteps ==
  ASSUME IInv, Alive, [Next]_vars, ~Over, ~Lost, stack' # <<>>, ~LostIn(stack', tok')
  PROVE  ProtocolStep(OpenUpto(stack)[Len(stack)], OpenUpto(stack')[Len(stack')])
<1>. DEFINE n == Len(stack)
            f == Top.fun
            p == Top.at
            Goal == ProtocolStep(OpenUpto(stack)[n], OpenUpto(stack')[Len(stack')])
<1>1. /\ StepKinds /\ WellStacked(stack) /\ stack # <<>>
      /\ \A k \in 1 .. n : ~Dead(stack[k].fun, stack[k].at)
  BY StepsAreOfKinds DEF IInv, Over, Alive, AllLive
<1>2. /\ n \in Nat \ {0} /\ n \in 1 .. n /\ Top = stack[n] /\ Placed(Top)
      /\ f \in DOMAIN Routines /\ p \in Points(f) \cup Ends
      /\ StepAt(Top) = StepAt([fun |-> f, at |-> p])
  BY <1>1, TopPlaced DEF Top, StepAt
<1>3. /\ Seated(stack, n)
      /\ \A k \in 1 .. n : Outside(stack[k]) => Passing(stack, k)
      /\ \A k \in 1 .. n - 1 : AnsweredAt(stack[k].fun, stack[k].at, StepAt(stack[k]))
  BY <1>1, <1>2, AllSeated, OutsidePasses
<1>4. f \in {Unit, Proc, "parseBlock"} => Outside(Top)
  BY DEF Outside, InBody, Unit, Proc
<1>. SUFFICES Goal
  OBVIOUS
<1>. HIDE DEF Goal, n, f, p
<1>5. ASSUME NEW q \in Points(f) \cup Ends, Moved(q), p \notin Ends, StepAt(Top).op # "call",
             GoesTo(StepAt(Top), tok, q)
      PROVE  Goal
  <2>1. MovedTo(stack, stack', q)
    BY <1>1, <1>5, GotoMoves DEF Moved, Goto
  <2>2. q \in {StepAt(Top).yes, StepAt(Top).no}
    BY <1>5 DEF GoesTo
  <2>3. ASSUME f \in {Unit, Proc, "parseBlock"}
        PROVE  q # "error"
    <3>1. Passing(stack, n)
      BY <1>2, <1>3, <1>4, <2>3
    <3>2. n \in Nat /\ Len(stack') = n /\ stack'[n].at = q /\ \A j \in 1 .. n - 1 : stack[j] = stack'[j]
      BY <1>2, <2>1 DEF MovedTo, n
    <3>. QED
      BY <3>1, <3>2, ErrorIsLost
  <2>4. p \in Points(f)
    BY <1>2, <1>5
  <2>5. /\ f = Unit => UnitMoves(p, q)
        /\ f = Proc => ProcMoves(p, q)
        /\ f = "parseBlock" => BlockMoves(p, q)
    BY <1>2, <1>5, <2>2, <2>3, <2>4, MovesOfPlaces
  <2>. QED
    BY <1>1, <1>2, <1>3, <2>1, <2>5, MoveFollows DEF Goal, n, f, p
<1>6. CASE Call
  <2>1. p \in Points(f) /\ StepAt(Top).op = "call" /\ stack' = Append(stack, Frame(StepAt(Top).name))
    BY <1>2, <1>6 DEF Call, At, p
  <2>2. StepAt(Top).name \in DOMAIN Routines
    <3>1. Top.at \notin Ends
      BY <1>6 DEF Call, At
    <3>. QED
      BY <1>2, <2>1, <3>1, StepsOfRoutines
  <2>3. Pushed(stack, stack', StepAt(Top).name)
    BY <1>1, <2>1, <2>2, AppendPushes
  <2>4. OpenUpto(stack)[n] = OpenUpto(stack')[Len(stack')]
    BY <1>1, <2>3, CallFollows DEF n
  <2>. QED
    BY <2>4, StandsStill DEF Goal, n
<1>7. ASSUME NEW b \in BOOLEAN, Answer(b), p \in Ends,
             p # "error" => p \in {"true", "false"} /\ (b <=> p = "true")
      PROVE  Goal
  <2>. DEFINE x == stack[n - 1]
              q == AnswerOf(x, b)
  <2>1. n # 1
    BY <1>7 DEF Answer, n
  <2>2. Popped(stack, stack', q)
    BY <1>7, <2>1, AnswerPops DEF n
  <2>3. n - 1 \in 1 .. n - 1 /\ n - 1 \in 1 .. n /\ n - 1 \in Nat /\ (n - 1) + 1 = n
    BY <1>2, <2>1
  <2>4. /\ AnsweredAt(x.fun, x.at, StepAt(x)) /\ CallSites(x.fun, x.at, f)
        /\ (Outside(x) => Passing(stack, n - 1))
    <3>1. CallSites(stack[n - 1].fun, stack[n - 1].at, stack[(n - 1) + 1].fun)
      BY <1>1, <2>3, Called DEF n
    <3>. QED
      BY <1>2, <1>3, <2>3, <3>1 DEF f
  <2>5. ASSUME Outside(x)
        PROVE  b = TRUE
    <3>1. CASE b = FALSE
      <4>1. q = "error"
        BY <2>4, <2>5, <3>1 DEF AnswerOf, AnsweredAt, Outside, InBody
      <4>2. Len(stack') = n - 1 /\ stack'[n - 1].at = "error" /\ \A k \in 1 .. (n - 1) - 1 : stack[k] = stack'[k]
        <5>1. Len(stack') = n - 1 /\ stack'[n - 1].at = q /\ \A k \in 1 .. n - 1 : k # n - 1 => stack'[k] = stack[k]
          BY <2>2 DEF Popped, n
        <5>2. \A k \in 1 .. (n - 1) - 1 : k \in 1 .. n - 1 /\ k # n - 1
          BY <2>3
        <5>. QED
          BY <4>1, <5>1, <5>2
      <4>3. LostIn(stack', tok')
        <5>. DEFINE m == n - 1
        <5>1. /\ m \in Nat /\ Len(stack') = m /\ stack'[m].at = "error" /\ Passing(stack, m)
              /\ \A j \in 1 .. m - 1 : stack[j] = stack'[j]
          BY <2>3, <2>4, <2>5, <4>2
        <5>. HIDE DEF m
        <5>. QED
          BY <5>1, ErrorIsLost
      <4>. QED
        BY <4>3
    <3>. QED
      BY <1>7, <3>1
  <2>6. x.fun \in {Unit, Proc, "parseBlock"} => b = TRUE
    BY <2>5 DEF Outside, InBody, Unit, Proc
  <2>7. f = Proc => p = "true"
    <3>1. CASE p = "error" /\ f = Proc
      <4>1. Passing(stack, n) /\ stack[n].at = "error"
        BY <1>2, <1>3, <1>4, <3>1 DEF p
      <4>. QED
        BY <1>1, <4>1, LostIs DEF LostIn, n
    <3>2. CASE p # "error" /\ f = Proc
      <4>1. x.fun = "parseDeclaration"
        BY <2>4, <3>2 DEF CallSites
      <4>2. b = TRUE
        BY <2>5, <4>1 DEF Outside, InBody
      <4>. QED
        BY <1>7, <3>2, <4>2
    <3>. QED
      BY <3>1, <3>2
  <2>. HIDE DEF q
  <2>8. /\ x = stack[Len(stack) - 1] /\ stack[Len(stack)].at = p /\ stack[Len(stack)].fun = f
        /\ Seated(stack, Len(stack))
    BY <1>2, <1>3 DEF n, f, p
  <2>. HIDE DEF x
  <2>. QED
    BY <1>1, <1>7, <2>2, <2>4, <2>6, <2>7, <2>8, AnswerFollows DEF Goal, n, q
<1>8. CASE UNCHANGED stack
  BY <1>8, StandsStill DEF Goal, n
<1>9. CASE p = "ignored" /\ Moved("true")
  <2>1. MovedTo(stack, stack', "true")
    BY <1>1, <1>9, GotoMoves DEF Moved, Goto
  <2>. QED
    BY <1>1, <1>2, <1>3, <1>9, <2>1, MoveFollows DEF Goal, n, p
<1>. QED
  <2>. USE DEF f, p
  <2>1. CASE \E q \in Points(Top.fun) \cup Ends :
          /\ Moved(q) /\ Top.at \notin Ends /\ StepAt(Top).op # "call" /\ GoesTo(StepAt(Top), tok, q)
    BY <1>5, <2>1
  <2>2. CASE \E b \in BOOLEAN :
          /\ ~Over /\ Top.at \in Ends /\ Answer(b)
          /\ Top.at # "error" => Top.at \in {"true", "false"} /\ (b <=> Top.at = "true")
    BY <1>7, <2>2
  <2>3. UNCHANGED vars => UNCHANGED stack
    BY DEF vars
  <2>. QED
    BY <1>1, <1>6, <1>8, <1>9, <2>1, <2>2, <2>3 DEF StepKinds

-----------------------------------------------------------------------------
(* The same, in the words of the protocol.                                 *)
OpenIn(s, t) == IF s = <<>> \/ LostIn(s, t) THEN <<>> ELSE OpenUpto(s)[Len(s)]

LEMMA OpenIs == Open = OpenIn(stack, tok) /\ ((Over \/ Lost) <=> (stack = <<>> \/ LostIn(stack, tok)))
BY LostIs DEF Open, OpenIn, Over

LEMMA OpenIsPrimed ==
  Open' = OpenIn(stack', tok') /\ ((Over' \/ Lost') <=> (stack' = <<>> \/ LostIn(stack', tok')))
BY LostIsPrimed DEF Open, OpenIn, Over, OpenUpto, HoldsDecl, PlaceOf, PlaceOfBlock

LEMMA ParserInitProtocol == Init => Protocol!Init
<1>. SUFFICES ASSUME Init PROVE Protocol!Init
  OBVIOUS
<1>1. Open = <<>>
  <2>1. stack = <<Frame(Root)>>
    BY DEF Init
  <2>2. Len(stack) = 1 /\ stack[1].at = "start"
    BY <2>1 DEF Frame
  <2>3. ~HoldsDecl(stack[1])
    BY <2>2 DEF HoldsDecl
  <2>4. OpenUpto(stack)[1] = <<>>
    BY <2>2, <2>3, OpenUptoIs DEF Joined
  <2>. QED
    BY <2>2, <2>4 DEF Open
<1>. QED
  BY <1>1 DEF Protocol!Init

LEMMA ParserNextProtocol ==
  ASSUME IInv, Alive, [Next]_vars
  PROVE  Protocol!Next \/ UNCHANGED <<Open, Over \/ Lost>>
<1>. DEFINE v == Open
            w == Open'
            gone == Over \/ Lost
            gone2 == Over' \/ Lost'
<1>1. CASE gone
  <2>1. gone2 /\ w = <<>> /\ v = <<>>
    BY <1>1, LostStays, OpenIsPrimed DEF OpenIn, Open
  <2>2. (Over \/ Lost)' = (Over \/ Lost)
    BY <1>1, <2>1
  <2>. QED
    BY <2>1, <2>2
<1>2. CASE ~gone /\ gone2
  <2>1. w = <<>> /\ (Over \/ Lost)' = TRUE
    BY <1>2, OpenIsPrimed DEF OpenIn
  <2>. QED
    BY <1>2, <2>1 DEF Protocol!Next, Protocol!Stop
<1>3. CASE ~gone /\ ~gone2
  <2>1. ~Over /\ ~Lost /\ stack' # <<>> /\ ~LostIn(stack', tok')
    BY <1>3, OpenIsPrimed
  <2>2. v = OpenUpto(stack)[Len(stack)] /\ w = OpenUpto(stack')[Len(stack')]
    BY <1>3, <2>1, OpenIsPrimed DEF OpenIn, Open
  <2>3. ProtocolStep(v, w)
    BY <2>1, <2>2, OpenSteps
  <2>4. (Over \/ Lost)' = (Over \/ Lost)
    BY <1>3
  <2>5. CASE v = w
    BY <2>4, <2>5
  <2>6. CASE v = <<>> /\ w = <<"imports">>
    BY <1>3, <2>4, <2>6 DEF Protocol!Next, Protocol!EnterModule
  <2>7. CASE v \in OpenSeqs /\ Innermost(v, "block") /\ w = Append(v, "formals")
    BY <2>4, <2>7 DEF Innermost, Protocol!Next, Protocol!OpenProcedure, Protocol!Innermost
  <2>8. CASE w \in OpenSeqs /\ w # <<>> /\ v = Append(w, "end")
    <3>1. /\ v # <<>> /\ v[Len(v)] = "end" /\ Len(v) = Len(w) + 1 /\ w = SubSeq(v, 1, Len(v) - 1)
      <4>1. "end" \in PlaceNames
        BY DEF PlaceNames
      <4>. QED
        BY <2>8, <4>1, AppendParts
    <3>2. Len(v) > 1
      <4>. HIDE DEF v, w
      <4>1. Len(w) \in Nat /\ w \in Seq(PlaceNames)
        BY <2>8 DEF OpenSeqs
      <4>. QED
        BY <2>8, <3>1, <4>1, EmptySeq
    <3>. QED
      BY <2>4, <3>1, <3>2 DEF Protocol!Next, Protocol!CloseProcedure, Protocol!Innermost
  <2>9. CASE Advances(v, w)
    <3>1. PICK u \in OpenSeqs, a \in PlaceNames, b \in PlaceNames :
            /\ v = Append(u, a) /\ w = Append(u, b)
            /\ \/ a = "imports" /\ b = "block"
               \/ a = "formals" /\ b = "block"
               \/ a = "block" /\ b \in {"stmt", "end"}
               \/ a = "stmt" /\ b = "end"
      BY <2>9 DEF Advances
    <3>2. v # <<>> /\ v[Len(v)] = a /\ w = [v EXCEPT ![Len(v)] = b]
      BY <3>1, AppendParts
    <3>3. Protocol!Innermost(a) /\ Protocol!MoveTo(b)
      BY <2>4, <3>2 DEF Protocol!Innermost, Protocol!MoveTo
    <3>. HIDE DEF v, w
    <3>. QED
      BY <3>1, <3>3 DEF Protocol!Next, Protocol!EndImports, Protocol!EndHeading, Protocol!BeginBody,
         Protocol!EndBlockWithoutBody, Protocol!EndBody
  <2>. HIDE DEF v, w
  <2>. QED
    BY <2>3, <2>5, <2>6, <2>7, <2>8, <2>9 DEF ProtocolStep
<1>. QED
  BY <1>1, <1>2, <1>3

ParserStep == Protocol!Next \/ UNCHANGED <<Open, Over \/ Lost>>

(* Whatever the tokens and the recovery, the order in which the parser     *)
(* opens, advances and closes declarations is one of SemaProtocol's        *)
(* (parseCompilationUnit, parseBlock, parseProcedureDeclaration,           *)
(* skipUntil).                                                             *)
THEOREM ParserFollowsProtocol == Spec => FollowsProtocol
<1>1. Spec => Protocol!Init
  BY ParserInitProtocol DEF Spec
<1>2. Init => IInv /\ Alive
  BY InitIInv, InitAlive
<1>3. IInv /\ Alive /\ [Next]_vars => (IInv /\ Alive)'
  BY NextIInv, NextAlive
<1>4. IInv /\ Alive /\ [Next]_vars => ParserStep
  BY ParserNextProtocol DEF ParserStep
<1>. QED
  BY <1>1, <1>2, <1>3, <1>4, PTL DEF Spec, ParserStep, FollowsProtocol, Protocol!Spec, Protocol!vars
=============================================================================
