--------------------------- MODULE PProfilerProofs ---------------------------
(***************************************************************************)
(* Proofs about PProfiler, for any program, any number of runs of the pass *)
(* and any depth of calls.                                                 *)
(*                                                                         *)
(* The pass is safe to run again because run() looks for the runtime's     *)
(* symbols before it adds them: a profiled unit has them for ever, and the *)
(* runtime's own unit has them from the start (PassInv).  Hence nothing in *)
(* the runtime's unit makes profiler calls, which bounds their nesting     *)
(* (Nested), and an activation makes at most one call of each kind         *)
(* (EachOnce), which is what keeps the count of open events exact.         *)
(***************************************************************************)
EXTENDS PProfiler, StackLemmas, FiniteSetTheorems

PassInv ==
  /\ started => unit = NoUnit
  /\ \A f \in Functions : f \in symbols[UnitOf[f]]
  /\ \A f \in Functions : /\ enters[f] \in {0, 1}
                          /\ \A r \in Sites : exits[f][r] = enters[f]
                          /\ enters[f] = 1 => Enter \in symbols[UnitOf[f]]
                          /\ enters[f] = 1 => UnitOf[f] # Runtime
  /\ unit # NoUnit => /\ unit # Runtime
                      /\ Enter \in symbols[unit]
                      /\ \A f \in todo : UnitOf[f] = unit => enters[f] = 0
                      /\ \A f \in Named \ todo : UnitOf[f] = unit => enters[f] = 1
  /\ \A f, g \in Named : UnitOf[f] = UnitOf[g] /\ UnitOf[f] # unit
                           => enters[f] = enters[g]

(* What an activation has still to do is at most one call of each kind, in *)
(* order.                                                                  *)
EachOnce(a) ==
  /\ a.before <= enters[a.fn] /\ a.after <= enters[a.fn]
  /\ a.before > 0 => a.site = 0
  /\ a.site = 0 => a.after = 0

(* Above the profiler there are only other functions of the runtime.       *)
Nested(s) ==
  \A i, j \in 1 .. Len(s) :
    i < j /\ s[i].fn \in Profiler
      => s[j].fn \notin Profiler /\ UnitOf[s[j].fn] = Runtime

StackInv ==
  /\ ~started => stack = <<>>
  /\ \A i \in 1 .. Len(stack) : EachOnce(stack[i])
  /\ Nested(stack)

IInv == TypeOK /\ PassInv /\ StackInv /\ EventsMatchCalls

-----------------------------------------------------------------------------
(* Removing and adding the top of a stack, stated once for all the actions *)
(* of the program.                                                         *)

(* A nonempty stack is its rest and its top.                               *)
LEMMA StackSplit ==
  ASSUME stack \in Seq(ActivationType), Running
  PROVE  /\ Rest \in Seq(ActivationType)
         /\ Top \in ActivationType
         /\ Len(stack) \in Nat \ {0}
         /\ Len(Rest) = Len(stack) - 1
         /\ \A i \in 1 .. Len(Rest) : Rest[i] = stack[i]
         /\ stack = Append(Rest, Top)
  BY StackParts, StackIsTopOnRest DEF Running, Rest, Top

(* One activation more on a stack counts once when it is between its       *)
(* events.                                                                 *)
LEMMA CountPush ==
  ASSUME NEW s \in Seq(ActivationType), NEW a \in ActivationType,
         NEW f \in Functions
  PROVE  /\ OpenOnStack(s, f) \in Nat
         /\ a.fn = f /\ BetweenEvents(a) =>
              OpenOnStack(Append(s, a), f) = OpenOnStack(s, f) + 1
         /\ ~(a.fn = f /\ BetweenEvents(a)) =>
              OpenOnStack(Append(s, a), f) = OpenOnStack(s, f)
<1> DEFINE Counted(t) == {i \in 1 .. Len(t) : t[i].fn = f /\ BetweenEvents(t[i])}
           t == Append(s, a)
           n == Len(s) + 1
<1>1. IsFiniteSet(1 .. Len(s))
  BY FS_Interval
<1>2. IsFiniteSet(Counted(s))
  BY <1>1, FS_Subset
<1>3. OpenOnStack(s, f) \in Nat
  BY <1>2, FS_CardinalityType DEF OpenOnStack
<1>4. Len(t) = n /\ t[n] = a /\ \A i \in 1 .. Len(s) : t[i] = s[i]
  OBVIOUS
<1>5. n \notin Counted(s)
  OBVIOUS
<1>6. ASSUME a.fn = f, BetweenEvents(a)
      PROVE  OpenOnStack(t, f) = OpenOnStack(s, f) + 1
  <2>1. Counted(t) = Counted(s) \cup {n}
    BY <1>4, <1>6
  <2>2. Cardinality(Counted(t)) = Cardinality(Counted(s)) + 1
    BY <2>1, <1>2, <1>5, FS_AddElement
  <2> QED BY <2>2 DEF OpenOnStack
<1>7. ASSUME ~(a.fn = f /\ BetweenEvents(a))
      PROVE  OpenOnStack(t, f) = OpenOnStack(s, f)
  <2>1. Counted(t) = Counted(s)
    BY <1>4, <1>7
  <2> QED BY <2>1 DEF OpenOnStack
<1> QED BY <1>3, <1>6, <1>7

(* Nothing is open on an empty stack.                                      *)
LEMMA CountEmpty ==
  ASSUME NEW f PROVE OpenOnStack(<<>>, f) = 0
<1>1. {i \in 1 .. Len(<<>>) : <<>>[i].fn = f /\ BetweenEvents(<<>>[i])} = {}
  OBVIOUS
<1> QED BY <1>1, FS_EmptySet DEF OpenOnStack

(* Nested looks only at the functions, and survives a pop.                 *)
LEMMA NestedTop ==
  ASSUME NEW r \in Seq(ActivationType), NEW a \in ActivationType,
         NEW b \in ActivationType, Nested(Append(r, a)), a.fn = b.fn
  PROVE  Nested(r) /\ Nested(Append(r, b))
<1>1. /\ Len(Append(r, a)) = Len(r) + 1 /\ Len(Append(r, b)) = Len(r) + 1
      /\ Append(r, a)[Len(r) + 1] = a /\ Append(r, b)[Len(r) + 1] = b
      /\ \A i \in 1 .. Len(r) : Append(r, a)[i] = r[i] /\ Append(r, b)[i] = r[i]
  OBVIOUS
<1> QED BY <1>1 DEF Nested

(* A push over the profiler must be of the runtime, but not the profiler's.*)
LEMMA NestedPush ==
  ASSUME NEW s \in Seq(ActivationType), NEW a \in ActivationType, Nested(s),
         (\E i \in 1 .. Len(s) : s[i].fn \in Profiler)
           => a.fn \notin Profiler /\ UnitOf[a.fn] = Runtime
  PROVE  Nested(Append(s, a))
<1>1. /\ Len(Append(s, a)) = Len(s) + 1
      /\ Append(s, a)[Len(s) + 1] = a
      /\ \A i \in 1 .. Len(s) : Append(s, a)[i] = s[i]
  OBVIOUS
<1> QED BY <1>1 DEF Nested

-----------------------------------------------------------------------------
(* The pass preserves the invariant.                                       *)
LEMMA InitInv == Init => IInv
<1> SUFFICES ASSUME Init PROVE IInv
  OBVIOUS
<1>1. TypeOK
  <2>1. PICK declared \in [Units -> SUBSET Declarable] :
          symbols = [u \in Units |-> declared[u] \cup {f \in Functions : UnitOf[f] = u}]
    BY DEF Init
  <2>2. symbols \in [Units -> SUBSET Functions]
    BY <2>1, FunctionsAssumption
  <2>3. stack \in Seq(ActivationType)
    BY DEF Init
  <2> QED BY <2>2, <2>3 DEF Init, TypeOK
<1>2. PassInv
  BY FunctionsAssumption DEF Init, PassInv
<1>3. StackInv
  BY DEF Init, StackInv, Nested
<1>4. EventsMatchCalls
  BY CountEmpty DEF Init, EventsMatchCalls
<1> QED BY <1>1, <1>2, <1>3, <1>4 DEF IInv

(* While the program is not running there is nothing on the stack.         *)
LEMMA NotRunningInv ==
  ASSUME IInv, ~started, UNCHANGED programvars
  PROVE  StackInv' /\ EventsMatchCalls'
<1>1. stack = <<>> /\ stack' = <<>> /\ started' = started
  BY DEF IInv, StackInv, programvars
<1>2. StackInv'
  BY <1>1 DEF IInv, StackInv, Nested
<1>3. \A f \in Functions : OpenOnStack(stack, f)' = 0 /\ OpenOnStack(stack, f) = 0
  <2>1. ASSUME NEW f PROVE OpenOnStack(stack, f)' = 0
    <3>1. {i \in 1 .. Len(stack') : stack'[i].fn = f /\ BetweenEvents(stack[i])'} = {}
      BY <1>1
    <3> QED BY <3>1, FS_EmptySet DEF OpenOnStack
  <2> QED BY <2>1, CountEmpty, <1>1
<1>4. EventsMatchCalls'
  BY <1>3 DEF IInv, EventsMatchCalls, programvars
<1> QED BY <1>2, <1>4

LEMMA PassStepInv == IInv /\ PassStep => IInv'
<1> SUFFICES ASSUME IInv, PassStep PROVE IInv'
  OBVIOUS
<1> USE FunctionsAssumption, NoUnitAssumption DEF IInv
<1>1. unit # NoUnit => ~started
  BY DEF PassInv
<1>2. ASSUME NEW u \in Units, Skip(u) PROVE IInv'
  <2>1. TypeOK' /\ PassInv'
    BY <1>2 DEF Skip, TypeOK, PassInv, programvars
  <2> QED BY <2>1, <1>2, NotRunningInv DEF Skip
<1>3. ASSUME NEW u \in Units, Run(u) PROVE IInv'
  <2>1. TypeOK'
    BY <1>3 DEF Run, TypeOK, programvars, Profiler
  <2>2. Enter \notin symbols[u] /\ Enter \in symbols[Runtime]
    BY <1>3 DEF Run, Profiler, PassInv, Runtime
  <2>3. \A v \in Units : symbols'[v] = IF v = u THEN symbols[u] \cup Profiler ELSE symbols[v]
    BY <1>3 DEF Run, TypeOK
  <2>4. \A f \in Functions : UnitOf[f] = u => enters[f] = 0
    BY <2>2 DEF PassInv
  <2>5. /\ u # Runtime /\ Enter \in symbols'[u]
        /\ \A f \in Named \ todo' : UnitOf[f] # u
    BY <1>3, <2>2, <2>3 DEF Run, PassInv, Profiler
  <2>6. started' = started /\ unit' = u /\ enters' = enters /\ exits' = exits
        /\ todo' = symbols'[u] /\ unit = NoUnit
    BY <1>3 DEF Run, programvars
  <2>7. \A f \in Functions : symbols[UnitOf[f]] \subseteq symbols'[UnitOf[f]]
    BY <2>3
  <2>8. \A f, g \in Named : UnitOf[f] = UnitOf[g] => enters[f] = enters[g]
    BY <2>6 DEF PassInv
  <2>9. PassInv'
    <3>1. \A f \in todo' : UnitOf[f] = u => enters'[f] = 0
      BY <2>1, <2>4, <2>6 DEF TypeOK
    <3>2. \A f \in Functions : /\ f \in symbols'[UnitOf[f]]
                               /\ enters'[f] = 1 => Enter \in symbols'[UnitOf[f]]
      BY <2>6, <2>7 DEF PassInv
    <3>3. ~started'
      BY <1>3, <2>6 DEF Run
    <3> HIDE DEF IInv
    <3>4. \A f \in Functions : /\ enters'[f] \in {0, 1}
                               /\ \A r \in Sites : exits'[f][r] = enters'[f]
                               /\ enters'[f] = 1 => UnitOf[f] # Runtime
      BY <2>6 DEF PassInv, IInv
    <3> QED BY <2>5, <2>6, <2>8, <3>1, <3>2, <3>3, <3>4 DEF PassInv
  <2> QED BY <2>1, <2>9, <1>3, NotRunningInv DEF Run
<1>4. ASSUME NEW f \in Functions, Instrument(f) PROVE IInv'
  <2>1. TypeOK'
    BY <1>4 DEF Instrument, TypeOK, programvars
  <2>2. UnitOf[f] = unit /\ unit \in Units /\ enters[f] = 0
    BY <1>4 DEF Instrument, HasBody, PassInv, TypeOK
  <2>3. \A g \in Functions : /\ enters'[g] = IF g = f THEN 1 ELSE enters[g]
                             /\ \A r \in Sites : exits'[g][r] = enters'[g]
    BY <1>4, <2>2 DEF Instrument, TypeOK, PassInv
  <2>4. PassInv'
    BY <1>4, <2>2, <2>3 DEF Instrument, PassInv, programvars
  <2> QED BY <2>1, <2>4, <1>4, <1>1, NotRunningInv DEF Instrument
<1>5. ASSUME NEW f \in Functions, PassOver(f) PROVE IInv'
  <2>1. TypeOK' /\ PassInv'
    BY <1>5 DEF PassOver, HasBody, TypeOK, PassInv, programvars
  <2> QED BY <2>1, <1>5, <1>1, NotRunningInv DEF PassOver
<1>6. CASE RunReturns
  <2>1. TypeOK'
    BY <1>6 DEF RunReturns, TypeOK, programvars
  <2>2. \A f \in Named : UnitOf[f] = unit => enters[f] = 1
    BY <1>6 DEF RunReturns, PassInv
  <2>3. PassInv'
    BY <1>6, <2>2 DEF RunReturns, PassInv, programvars
  <2> QED BY <2>1, <2>3, <1>6, <1>1, NotRunningInv DEF RunReturns
<1> QED BY <1>2, <1>3, <1>4, <1>5, <1>6 DEF PassStep

-----------------------------------------------------------------------------
(* The program preserves the invariant.                                    *)

(* The program changes no code: what an activation owes is judged by the   *)
(* same enters before and after a step.                                    *)
LEMMA CodeIsFixed ==
  ASSUME UNCHANGED passvars
  PROVE  /\ \A f : OpenOnStack(stack, f)' = OpenOnStack(stack', f)
         /\ \A i : EachOnce(stack[i])' = EachOnce(stack'[i])
  BY DEF passvars, OpenOnStack, BetweenEvents, EachOnce

LEMMA PassInvKept ==
  ASSUME PassInv, UNCHANGED passvars, started' => started \/ unit = NoUnit
  PROVE  PassInv'
  BY DEF PassInv, passvars

(* A new activation owes its entry call, and nothing of it is open.        *)
LEMMA NewActivation ==
  ASSUME IInv, NEW f \in Functions
  PROVE  /\ Activation(f) \in ActivationType /\ Activation(f).fn = f
         /\ EachOnce(Activation(f))
         /\ ~BetweenEvents(Activation(f))
  BY DEF IInv, TypeOK, Activation, ActivationType, EachOnce, BetweenEvents

(* What the invariant says of the top of the stack.                        *)
LEMMA TopFacts ==
  ASSUME IInv, Running
  PROVE  /\ Rest \in Seq(ActivationType) /\ Top \in ActivationType
         /\ stack = Append(Rest, Top)
         /\ Nested(Append(Rest, Top)) /\ Nested(Rest)
         /\ EachOnce(Top) /\ \A i \in 1 .. Len(Rest) : EachOnce(Rest[i])
         /\ Top.fn \in Functions /\ enters[Top.fn] \in {0, 1}
         /\ \A r \in Sites : exits[Top.fn][r] = enters[Top.fn]
         /\ started
<1>1. /\ Rest \in Seq(ActivationType) /\ Top \in ActivationType
      /\ Len(stack) \in Nat \ {0} /\ Len(Rest) = Len(stack) - 1
      /\ \A i \in 1 .. Len(Rest) : Rest[i] = stack[i]
      /\ stack = Append(Rest, Top)
  BY StackSplit DEF IInv, TypeOK
<1>2. Nested(Append(Rest, Top)) /\ started
  BY <1>1 DEF IInv, StackInv, Running
<1>3. Nested(Rest)
  BY <1>1, <1>2, NestedTop
<1>4. EachOnce(Top) /\ \A i \in 1 .. Len(Rest) : EachOnce(Rest[i])
  <2>1. \A i \in 1 .. Len(stack) : EachOnce(stack[i])
    BY DEF IInv, StackInv
  <2>2. EachOnce(Top)
    BY <2>1, <1>1 DEF Top
  <2>3. \A i \in 1 .. Len(Rest) : EachOnce(Rest[i])
    BY <2>1, <1>1
  <2> QED BY <2>2, <2>3
<1>5. Top.fn \in Functions
  BY <1>1 DEF ActivationType
<1> QED BY <1>1, <1>2, <1>3, <1>4, <1>5 DEF IInv, PassInv

(* A function of the runtime owes no call, so the profiler is not running  *)
(* when one is made.                                                       *)
LEMMA OwingIsOutside ==
  ASSUME IInv, Running, enters[Top.fn] = 1
  PROVE  ~InRuntime
<1>1. UnitOf[Top.fn] # Runtime
  BY TopFacts DEF IInv, PassInv, ActivationType
<1>2. Top.fn \notin Profiler
  BY <1>1, FunctionsAssumption DEF Profiler, Runtime
<1>3. Len(stack) \in Nat \ {0}
  BY StackSplit DEF IInv, TypeOK
<1>4. ASSUME NEW i \in 1 .. Len(stack), stack[i].fn \in Profiler PROVE FALSE
  <2>1. CASE i = Len(stack)
    BY <2>1, <1>2, <1>4 DEF Top
  <2>2. CASE i < Len(stack)
    BY <2>2, <1>1, <1>3, <1>4 DEF IInv, StackInv, Nested, Top
  <2> QED BY <2>1, <2>2, <1>3
<1> QED BY <1>4 DEF InRuntime

(* One call less to make.                                                  *)
OneEnterLess(a) == [a EXCEPT !.before = @ - 1]
OneExitLess(a) == [a EXCEPT !.after = @ - 1]
LEMMA OneLess ==
  ASSUME NEW a \in ActivationType
  PROVE  /\ a.before = 1 =>
              LET t == OneEnterLess(a)
              IN /\ t \in ActivationType /\ t.fn = a.fn /\ t.before = 0
                 /\ t.site = a.site /\ t.after = a.after
         /\ a.after = 1 =>
              LET t == OneExitLess(a)
              IN /\ t \in ActivationType /\ t.fn = a.fn /\ t.before = a.before
                 /\ t.site = a.site /\ t.after = 0
  BY DEF ActivationType, OneEnterLess, OneExitLess

(* Replacing the top, and pushing on it, keeps each activation in order.   *)
LEMMA EachOncePush ==
  ASSUME NEW s \in Seq(ActivationType), NEW a \in ActivationType,
         \A i \in 1 .. Len(s) : EachOnce(s[i]), EachOnce(a)
  PROVE  /\ Append(s, a) \in Seq(ActivationType)
         /\ \A i \in 1 .. Len(Append(s, a)) : EachOnce(Append(s, a)[i])
<1>1. \A i \in 1 .. Len(Append(s, a)) :
        Append(s, a)[i] = IF i = Len(s) + 1 THEN a ELSE s[i]
  OBVIOUS
<1>2. \A i \in 1 .. Len(Append(s, a)) : i = Len(s) + 1 \/ i \in 1 .. Len(s)
  OBVIOUS
<1> QED BY <1>1, <1>2

LEMMA CallInv ==
  ASSUME IInv, NEW f \in Functions, Call(f)
  PROVE  TypeOK' /\ StackInv' /\ EventsMatchCalls'
<1>1. UNCHANGED <<passvars, started, open, lost>> /\ started
      /\ stack' = Append(stack, Activation(f))
  BY DEF Call
<1>2. stack \in Seq(ActivationType) /\ \A i \in 1 .. Len(stack) : EachOnce(stack[i])
  BY DEF IInv, TypeOK, StackInv
<1>3. /\ Activation(f) \in ActivationType /\ Activation(f).fn = f
      /\ EachOnce(Activation(f)) /\ ~BetweenEvents(Activation(f))
  BY NewActivation
<1>4. Nested(stack')
  <2>1. InRuntime => f \notin Profiler /\ UnitOf[f] = Runtime
    BY DEF Call
  <2> QED BY <1>1, <1>2, <1>3, <2>1, NestedPush DEF InRuntime, IInv, StackInv
<1>5. /\ stack' \in Seq(ActivationType)
      /\ \A i \in 1 .. Len(stack') : EachOnce(stack'[i])
  BY <1>1, <1>2, <1>3, EachOncePush
<1>6. StackInv'
  BY <1>1, <1>4, <1>5, CodeIsFixed DEF StackInv, Nested
<1>7. TypeOK'
  BY <1>1, <1>5 DEF IInv, TypeOK, passvars
<1>8. \A g \in Functions : OpenOnStack(stack', g) = OpenOnStack(stack, g)
  BY <1>1, <1>2, <1>3, CountPush
<1>9. EventsMatchCalls'
  BY <1>1, <1>8, CodeIsFixed DEF IInv, EventsMatchCalls
<1> QED BY <1>6, <1>7, <1>9

LEMMA CallEnterInv ==
  ASSUME IInv, CallEnter
  PROVE  TypeOK' /\ StackInv' /\ EventsMatchCalls'
<1> DEFINE t == OneEnterLess(Top)
           p == Activation(Enter)
<1>1. /\ UNCHANGED <<passvars, started, lost>>
      /\ Running /\ Top.before > 0
      /\ stack' = Append(Append(Rest, t), p)
      /\ open' = [open EXCEPT ![Top.fn] = @ + 1]
  BY DEF CallEnter, OneEnterLess
<1>2. /\ t \in ActivationType /\ t.fn = Top.fn /\ EachOnce(t)
      /\ enters[Top.fn] = 1 /\ ~BetweenEvents(Top) /\ BetweenEvents(t)
  <2>1. enters[Top.fn] = 1 /\ Top.before = 1 /\ Top.site = 0 /\ Top.after = 0
    BY <1>1, TopFacts DEF EachOnce, ActivationType
  <2>2. t \in ActivationType /\ t.fn = Top.fn /\ t.before = 0 /\ t.site = 0 /\ t.after = 0
    <3>1. Top \in ActivationType
      BY <1>1, TopFacts
    <3> QED BY <2>1, <3>1, OneLess
  <2> HIDE DEF t
  <2> QED BY <2>1, <2>2 DEF EachOnce, BetweenEvents
<1>3. /\ p \in ActivationType /\ EachOnce(p) /\ ~BetweenEvents(p) /\ p.fn = Enter
  BY NewActivation, FunctionsAssumption DEF Profiler
<1> HIDE DEF t, p
<1>4. /\ Append(Rest, t) \in Seq(ActivationType)
      /\ \A i \in 1 .. Len(Append(Rest, t)) : EachOnce(Append(Rest, t)[i])
  BY <1>1, <1>2, TopFacts, EachOncePush
<1>5. /\ stack' \in Seq(ActivationType)
      /\ \A i \in 1 .. Len(stack') : EachOnce(stack'[i])
  BY <1>1, <1>3, <1>4, EachOncePush
<1>6. Nested(stack')
  <2>1. Nested(Append(Rest, t))
    BY <1>1, <1>2, TopFacts, NestedTop
  <2>2. ~InRuntime
    BY <1>1, <1>2, OwingIsOutside
  <2>3. \A i \in 1 .. Len(Append(Rest, t)) : Append(Rest, t)[i].fn \notin Profiler
    <3>1. Len(stack) \in Nat \ {0} /\ Len(Rest) = Len(stack) - 1 /\ Rest \in Seq(ActivationType)
          /\ \A i \in 1 .. Len(Rest) : Rest[i] = stack[i]
      BY <1>1, StackSplit DEF IInv, TypeOK
    <3>2. \A i \in 1 .. Len(Append(Rest, t)) : Append(Rest, t)[i].fn = stack[i].fn /\ i \in 1 .. Len(stack)
      BY <3>1, <1>2 DEF Top
    <3> QED BY <3>2, <2>2 DEF InRuntime
  <2> QED BY <2>1, <2>3, <1>1, <1>3, <1>4, NestedPush
<1>7. StackInv'
  BY <1>1, <1>5, <1>6, TopFacts, CodeIsFixed DEF StackInv, Nested
<1>8. TypeOK'
  <2>1. open' \in [Functions -> Nat]
    BY <1>1, TopFacts DEF IInv, TypeOK
  <2> QED BY <1>1, <1>5, <2>1 DEF IInv, TypeOK, passvars
<1>9. ASSUME NEW g \in Functions
      PROVE  OpenOnStack(stack', g) = OpenOnStack(stack, g) + (IF g = Top.fn THEN 1 ELSE 0)
  <2>1. OpenOnStack(stack, g) = OpenOnStack(Rest, g)
    BY <1>1, <1>2, TopFacts, CountPush
  <2>2. OpenOnStack(stack', g) = OpenOnStack(Append(Rest, t), g)
    BY <1>1, <1>3, <1>4, CountPush
  <2>3. OpenOnStack(Append(Rest, t), g) = OpenOnStack(Rest, g) + (IF g = Top.fn THEN 1 ELSE 0)
    BY <1>1, <1>2, TopFacts, CountPush
  <2> QED BY <2>1, <2>2, <2>3
<1>10. EventsMatchCalls'
  <2>1. \A g \in Functions : OpenOnStack(stack, g) \in Nat
    BY CountPush, <1>3 DEF IInv, TypeOK
  <2>2. \A g \in Functions : open'[g] = open[g] + (IF g = Top.fn THEN 1 ELSE 0)
    BY <1>1 DEF IInv, TypeOK
  <2> QED BY <1>1, <1>9, <2>1, <2>2, CodeIsFixed DEF IInv, TypeOK, EventsMatchCalls
<1> QED BY <1>7, <1>8, <1>10

LEMMA CallExitInv ==
  ASSUME IInv, CallExit
  PROVE  TypeOK' /\ StackInv' /\ EventsMatchCalls'
<1> DEFINE t == OneExitLess(Top)
           p == Activation(Exit)
<1>1. /\ UNCHANGED <<passvars, started, lost>>
      /\ Running /\ Top.site # 0 /\ Top.after > 0
      /\ stack' = Append(Append(Rest, t), p)
      /\ open' = [open EXCEPT ![Top.fn] = @ - 1]
  BY DEF CallExit, OneExitLess
<1>2. /\ t \in ActivationType /\ t.fn = Top.fn /\ EachOnce(t)
      /\ enters[Top.fn] = 1 /\ BetweenEvents(Top) /\ ~BetweenEvents(t)
  <2>1. enters[Top.fn] = 1 /\ Top.before = 0 /\ Top.site # 0 /\ Top.after = 1
    BY <1>1, TopFacts DEF EachOnce, ActivationType
  <2>2. t \in ActivationType /\ t.fn = Top.fn /\ t.before = 0 /\ t.site # 0 /\ t.after = 0
    <3>1. Top \in ActivationType
      BY <1>1, TopFacts
    <3> QED BY <2>1, <3>1, OneLess
  <2> HIDE DEF t
  <2> QED BY <2>1, <2>2 DEF EachOnce, BetweenEvents
<1>3. /\ p \in ActivationType /\ EachOnce(p) /\ ~BetweenEvents(p) /\ p.fn = Exit
  BY NewActivation, FunctionsAssumption DEF Profiler
<1> HIDE DEF t, p
<1>4. /\ Append(Rest, t) \in Seq(ActivationType)
      /\ \A i \in 1 .. Len(Append(Rest, t)) : EachOnce(Append(Rest, t)[i])
  BY <1>1, <1>2, TopFacts, EachOncePush
<1>5. /\ stack' \in Seq(ActivationType)
      /\ \A i \in 1 .. Len(stack') : EachOnce(stack'[i])
  BY <1>1, <1>3, <1>4, EachOncePush
<1>6. Nested(stack')
  <2>1. Nested(Append(Rest, t))
    BY <1>1, <1>2, TopFacts, NestedTop
  <2>2. ~InRuntime
    BY <1>1, <1>2, OwingIsOutside
  <2>3. \A i \in 1 .. Len(Append(Rest, t)) : Append(Rest, t)[i].fn \notin Profiler
    <3>1. Len(stack) \in Nat \ {0} /\ Len(Rest) = Len(stack) - 1 /\ Rest \in Seq(ActivationType)
          /\ \A i \in 1 .. Len(Rest) : Rest[i] = stack[i]
      BY <1>1, StackSplit DEF IInv, TypeOK
    <3>2. \A i \in 1 .. Len(Append(Rest, t)) : Append(Rest, t)[i].fn = stack[i].fn /\ i \in 1 .. Len(stack)
      BY <3>1, <1>2 DEF Top
    <3> QED BY <3>2, <2>2 DEF InRuntime
  <2> QED BY <2>1, <2>3, <1>1, <1>3, <1>4, NestedPush
<1>7. StackInv'
  BY <1>1, <1>5, <1>6, TopFacts, CodeIsFixed DEF StackInv, Nested
<1>8. ASSUME NEW g \in Functions
      PROVE  /\ OpenOnStack(stack', g) \in Nat
             /\ OpenOnStack(stack, g) = OpenOnStack(stack', g) + (IF g = Top.fn THEN 1 ELSE 0)
  <2>1. /\ OpenOnStack(stack, g) = OpenOnStack(Rest, g) + (IF g = Top.fn THEN 1 ELSE 0)
        /\ OpenOnStack(Rest, g) \in Nat
    <3>1. /\ stack = Append(Rest, Top)
          /\ Rest \in Seq(ActivationType) /\ Top \in ActivationType
      BY <1>1, TopFacts
    <3>2. /\ OpenOnStack(Rest, g) \in Nat
          /\ Top.fn = g => OpenOnStack(Append(Rest, Top), g) = OpenOnStack(Rest, g) + 1
          /\ Top.fn # g => OpenOnStack(Append(Rest, Top), g) = OpenOnStack(Rest, g)
      BY <1>2, <3>1, CountPush
    <3> QED BY <3>1, <3>2
  <2>2. OpenOnStack(stack', g) = OpenOnStack(Append(Rest, t), g)
    BY <1>1, <1>3, <1>4, CountPush
  <2>3. OpenOnStack(Append(Rest, t), g) = OpenOnStack(Rest, g)
    BY <1>1, <1>2, TopFacts, CountPush
  <2> QED BY <2>1, <2>2, <2>3
<1>9. /\ \A g \in Functions : open'[g] = lost[g] + OpenOnStack(stack', g)
      /\ open' \in [Functions -> Nat]
  <2>1. \A g \in Functions : open'[g] = open[g] - (IF g = Top.fn THEN 1 ELSE 0)
    BY <1>1 DEF IInv, TypeOK
  <2>2. \A g \in Functions : open'[g] = lost[g] + OpenOnStack(stack', g) /\ open'[g] \in Nat
    <3>1. \A g \in Functions : /\ open[g] = lost[g] + OpenOnStack(stack, g)
                               /\ lost[g] \in Nat
      BY DEF IInv, TypeOK, EventsMatchCalls
    <3>2. ASSUME NEW g \in Functions
          PROVE  open'[g] = lost[g] + OpenOnStack(stack', g) /\ open'[g] \in Nat
      <4>1. CASE g = Top.fn
        BY <1>8, <2>1, <3>1, <4>1
      <4>2. CASE g # Top.fn
        BY <1>8, <2>1, <3>1, <4>2
      <4> QED BY <4>1, <4>2
    <3> QED BY <3>2
  <2>3. open' = [g \in Functions |-> open'[g]]
    BY <1>1 DEF IInv, TypeOK
  <2> QED BY <2>2, <2>3
<1>10. TypeOK'
  BY <1>1, <1>5, <1>9 DEF IInv, TypeOK, passvars
<1>11. EventsMatchCalls'
  BY <1>1, <1>9, CodeIsFixed DEF EventsMatchCalls
<1> QED BY <1>7, <1>10, <1>11

(* An activation that has reached return r with n calls to make.           *)
AtReturn(a, r, n) == [a EXCEPT !.site = r, !.after = n]
LEMMA AtReturnTyped ==
  ASSUME NEW a \in ActivationType, NEW r \in Sites, NEW n \in Nat
  PROVE  LET t == AtReturn(a, r, n)
         IN /\ t \in ActivationType /\ t.fn = a.fn /\ t.before = a.before
            /\ t.site = r /\ t.after = n
  BY DEF ActivationType, AtReturn

LEMMA ReturnInv ==
  ASSUME IInv, NEW r \in Sites, Return(r)
  PROVE  TypeOK' /\ StackInv' /\ EventsMatchCalls'
<1> DEFINE t == AtReturn(Top, r, exits[Top.fn][r])
<1>1. /\ UNCHANGED <<passvars, started, open, lost>>
      /\ Running /\ Top.before = 0 /\ Top.site = 0
      /\ stack' = Append(Rest, t)
  BY DEF Return, InBody, AtReturn
<1>2. /\ t \in ActivationType /\ t.fn = Top.fn /\ EachOnce(t)
      /\ BetweenEvents(t) <=> BetweenEvents(Top)
  <2>1. Top \in ActivationType /\ exits[Top.fn][r] = enters[Top.fn] /\ enters[Top.fn] \in {0, 1}
    BY <1>1, TopFacts
  <2>2. t \in ActivationType /\ t.fn = Top.fn /\ t.before = 0 /\ t.site = r
        /\ t.after = enters[Top.fn]
    BY <2>1, <1>1, AtReturnTyped
  <2>3. r # 0
    BY SitesAssumption
  <2> HIDE DEF t
  <2> QED BY <1>1, <2>1, <2>2, <2>3 DEF EachOnce, BetweenEvents
<1> HIDE DEF t
<1>3. /\ stack' \in Seq(ActivationType)
      /\ \A i \in 1 .. Len(stack') : EachOnce(stack'[i])
  BY <1>1, <1>2, TopFacts, EachOncePush
<1>4. StackInv'
  <2>1. Nested(stack')
    BY <1>1, <1>2, TopFacts, NestedTop
  <2> QED BY <1>1, <1>3, <2>1, TopFacts, CodeIsFixed DEF StackInv, Nested
<1>5. TypeOK'
  BY <1>1, <1>3 DEF IInv, TypeOK, passvars
<1>6. ASSUME NEW g \in Functions PROVE OpenOnStack(stack', g) = OpenOnStack(stack, g)
  <2>1. /\ stack = Append(Rest, Top)
        /\ Rest \in Seq(ActivationType) /\ Top \in ActivationType
    BY <1>1, TopFacts
  <2>2. CASE g = Top.fn /\ BetweenEvents(Top)
    BY <1>1, <1>2, <2>1, <2>2, CountPush
  <2>3. CASE ~(g = Top.fn /\ BetweenEvents(Top))
    BY <1>1, <1>2, <2>1, <2>3, CountPush
  <2> QED BY <2>2, <2>3
<1>7. EventsMatchCalls'
  BY <1>1, <1>6, CodeIsFixed DEF IInv, EventsMatchCalls
<1> QED BY <1>4, <1>5, <1>7

(* Leave and Unwind pop the top.                                           *)
LEMMA PopInv ==
  ASSUME IInv, Running, stack' = Rest, UNCHANGED <<passvars, started>>
  PROVE  /\ stack' \in Seq(ActivationType) /\ StackInv'
         /\ \A g \in Functions :
              /\ OpenOnStack(stack', g) \in Nat
              /\ g = Top.fn /\ BetweenEvents(Top)
                   => OpenOnStack(stack, g) = OpenOnStack(stack', g) + 1
              /\ ~(g = Top.fn /\ BetweenEvents(Top))
                   => OpenOnStack(stack, g) = OpenOnStack(stack', g)
<1>1. StackInv' /\ stack' \in Seq(ActivationType)
  BY TopFacts, CodeIsFixed DEF StackInv, Nested
<1>2. stack = Append(Rest, Top) /\ Rest \in Seq(ActivationType) /\ Top \in ActivationType
  BY TopFacts
<1> QED BY <1>1, <1>2, CountPush

LEMMA LeaveInv ==
  ASSUME IInv, Leave
  PROVE  TypeOK' /\ StackInv' /\ EventsMatchCalls'
<1>1. /\ UNCHANGED <<passvars, started, open, lost>>
      /\ Running /\ Top.site # 0 /\ Top.after = 0 /\ stack' = Rest
  BY DEF Leave
<1>2. ~BetweenEvents(Top)
  BY <1>1 DEF BetweenEvents
<1>3. TypeOK'
  BY <1>1, PopInv DEF IInv, TypeOK, passvars
<1>4. EventsMatchCalls'
  BY <1>1, <1>2, PopInv, CodeIsFixed DEF IInv, EventsMatchCalls
<1> QED BY <1>1, <1>3, <1>4, PopInv

LEMMA UnwindInv ==
  ASSUME IInv, Unwind
  PROVE  TypeOK' /\ StackInv' /\ EventsMatchCalls'
<1>1. /\ UNCHANGED <<passvars, started, open>>
      /\ Running /\ Top.before = 0 /\ Top.site = 0 /\ stack' = Rest
      /\ lost' = [lost EXCEPT ![Top.fn] = @ + enters[Top.fn]]
  BY DEF Unwind, InBody
<1>2. Top.fn \in Functions /\ enters[Top.fn] \in {0, 1}
  BY <1>1, TopFacts
<1>3. BetweenEvents(Top) <=> enters[Top.fn] = 1
  BY <1>1, <1>2 DEF BetweenEvents
<1>4. /\ lost' \in [Functions -> Nat]
      /\ \A g \in Functions : lost'[g] = IF g = Top.fn THEN lost[g] + enters[g] ELSE lost[g]
  BY <1>1, <1>2 DEF IInv, TypeOK
<1>5. TypeOK'
  BY <1>1, <1>4, PopInv DEF IInv, TypeOK, passvars
<1>6. ASSUME NEW g \in Functions PROVE open[g] = lost'[g] + OpenOnStack(stack', g)
  <2>1. open[g] = lost[g] + OpenOnStack(stack, g) /\ lost[g] \in Nat
    BY DEF IInv, TypeOK, EventsMatchCalls
  <2>2. CASE g = Top.fn /\ enters[Top.fn] = 1
    BY <1>1, <1>3, <1>4, <2>1, <2>2, PopInv
  <2>3. CASE g = Top.fn /\ enters[Top.fn] = 0
    BY <1>1, <1>3, <1>4, <2>1, <2>3, PopInv
  <2>4. CASE g # Top.fn
    BY <1>1, <1>4, <2>1, <2>4, PopInv
  <2> QED BY <1>2, <2>2, <2>3, <2>4
<1>7. EventsMatchCalls'
  BY <1>1, <1>6, CodeIsFixed DEF EventsMatchCalls
<1> QED BY <1>1, <1>5, <1>7, PopInv

LEMMA StartInv ==
  ASSUME IInv, Start
  PROVE  TypeOK' /\ StackInv' /\ EventsMatchCalls'
<1>1. UNCHANGED <<passvars, stack, open, lost>> /\ started' = TRUE
  BY DEF Start
<1>2. TypeOK' /\ StackInv'
  BY <1>1, CodeIsFixed DEF IInv, TypeOK, StackInv, Nested, passvars
<1>3. EventsMatchCalls'
  BY <1>1, CodeIsFixed DEF IInv, EventsMatchCalls
<1> QED BY <1>2, <1>3

LEMMA ProgramStepInv == IInv /\ ProgramStep => IInv'
<1> SUFFICES ASSUME IInv, ProgramStep PROVE IInv'
  OBVIOUS
<1>1. UNCHANGED passvars /\ (started' => started \/ unit = NoUnit)
  <2>1. CASE Start
    BY <2>1 DEF Start
  <2>2. ASSUME NEW f \in Functions, Call(f)
        PROVE  UNCHANGED passvars /\ started' = started
    BY <2>2 DEF Call
  <2>3. ASSUME NEW r \in Sites, Return(r)
        PROVE  UNCHANGED passvars /\ started' = started
    BY <2>3 DEF Return
  <2>4. CASE CallEnter \/ CallExit \/ Leave \/ Unwind
    BY <2>4 DEF CallEnter, CallExit, Leave, Unwind
  <2> QED BY <2>1, <2>2, <2>3, <2>4 DEF ProgramStep
<1>2. PassInv'
  BY <1>1, PassInvKept DEF IInv
<1>3. TypeOK' /\ StackInv' /\ EventsMatchCalls'
  BY CallInv, CallEnterInv, CallExitInv, ReturnInv, LeaveInv, UnwindInv, StartInv
     DEF ProgramStep
<1> QED BY <1>2, <1>3 DEF IInv

LEMMA StutterInv == IInv /\ UNCHANGED vars => IInv'
<1> SUFFICES ASSUME IInv, UNCHANGED vars PROVE IInv'
  OBVIOUS
<1>1. UNCHANGED passvars /\ UNCHANGED <<started, stack, open, lost>>
  BY DEF vars, programvars
<1>2. TypeOK' /\ PassInv' /\ StackInv'
  BY <1>1, PassInvKept, CodeIsFixed DEF IInv, TypeOK, StackInv, Nested, passvars
<1>3. EventsMatchCalls'
  BY <1>1, CodeIsFixed DEF IInv, EventsMatchCalls
<1> QED BY <1>2, <1>3 DEF IInv

LEMMA Inductive == Spec => []IInv
<1>1. IInv /\ [Next]_vars => IInv'
  BY PassStepInv, ProgramStepInv, StutterInv DEF Next
<1> QED BY InitInv, <1>1, PTL DEF Spec

-----------------------------------------------------------------------------
(* The theorems.                                                           *)

(* Every variable keeps its type; in particular no exit is recorded before *)
(* its entry, so that open never goes below zero.                          *)
THEOREM ProfilerTypeCorrect == Spec => []TypeOK
<1>1. IInv => TypeOK
  BY DEF IInv
<1> QED BY <1>1, Inductive, PTL

(* However often run() is called, the functions of a unit are instrumented *)
(* once or not at all.                                                     *)
THEOREM PassIsIdempotent == Spec => []ProfiledOnce
<1>1. IInv => ProfiledOnce
  BY DEF IInv, PassInv, ProfiledOnce
<1> QED BY <1>1, Inductive, PTL

(* A call of __ppp_enter or __ppp_exit never leads to another one before   *)
(* it returns.                                                             *)
THEOREM NoReentry == Spec => []ProfilerIsNotReentered
<1>1. IInv => ProfilerIsNotReentered
  BY DEF IInv, StackInv, Nested, ProfilerIsNotReentered
<1> QED BY <1>1, Inductive, PTL

(* The recorded events determine how many activations of a function are    *)
(* running, up to those an exception ended.                                *)
THEOREM EventsAreBalanced == Spec => []EventsMatchCalls
<1>1. IInv => EventsMatchCalls
  BY DEF IInv
<1> QED BY <1>1, Inductive, PTL
=============================================================================
