------------------------------ MODULE PProfiler ------------------------------
(***************************************************************************)
(* The instrumentation pass of pprofiler (PProfiler.cc), run any number of *)
(* times over the units of a program, and the program it leaves: a call    *)
(* stack whose functions call the profiler's runtime where the pass put a  *)
(* call.  The runtime itself is external: a unit that defines __ppp_enter  *)
(* and __ppp_exit and may use functions of its own.                        *)
(***************************************************************************)
EXTENDS Integers, Sequences, FiniteSets

CONSTANTS
  Units, Functions,
  UnitOf,       \* the unit that holds a function's body
  Named,        \* the functions that have a name
  Sites,        \* the return instructions of a function
  Declarable,   \* what a unit may declare in its source
  Enter, Exit,  \* __ppp_enter, __ppp_exit
  MaxRuns,      \* bound: runs of the pass
  MaxDepth,     \* bound: the call stack
  MaxLost       \* bound: activations that end by unwinding

Runtime == UnitOf[Enter]
Profiler == {Enter, Exit}

ASSUME FunctionsAssumption ==
  /\ UnitOf \in [Functions -> Units]
  /\ Profiler \subseteq Functions
  /\ UnitOf[Exit] = Runtime
  /\ Named \subseteq Functions /\ Declarable \subseteq Functions
ASSUME SitesAssumption == 0 \notin Sites
ASSUME PProfilerBounds == MaxRuns \in Nat /\ MaxDepth \in Nat /\ MaxLost \in Nat

VARIABLES
  symbols,  \* the functions a unit defines or declares
  runs,     \* bound: runs of the pass so far
  unit,     \* the unit run() is working on, or NoUnit
  todo,     \* the functions its loop has still to visit
  enters,   \* enters[f]: calls of __ppp_enter at the entry of f
  exits,    \* exits[f][r]: calls of __ppp_exit before return r of f
  started,  \* the program runs
  stack,    \* its activations
  open,     \* open[f]: calls of __ppp_enter(f) less calls of __ppp_exit(f)
  lost      \* lost[f]: profiled activations of f ended by unwinding

passvars    == <<symbols, runs, unit, todo, enters, exits>>
programvars == <<started, stack, open, lost>>
vars        == <<passvars, programvars>>

CONSTANT NoUnit
ASSUME NoUnitAssumption == NoUnit \notin Units

HasBody(f, u) == UnitOf[f] = u

-----------------------------------------------------------------------------
(* The pass.  RegisterCBs offers it both by name and at the start of every *)
(* optimisation pipeline, so that one compilation may run it again.        *)
Skip(u) ==
  /\ ~started /\ unit = NoUnit /\ runs < MaxRuns
  /\ symbols[u] \cap Profiler # {}
  /\ runs' = runs + 1
  /\ UNCHANGED <<symbols, unit, todo, enters, exits, programvars>>

(* Variant: the pass does not look for the runtime's functions.            *)
RunAlways(u) ==
  /\ ~started /\ unit = NoUnit /\ runs < MaxRuns
  /\ runs' = runs + 1
  /\ symbols' = [symbols EXCEPT ![u] = @ \cup Profiler]
  /\ unit' = u
  /\ todo' = symbols'[u]
  /\ UNCHANGED <<enters, exits, programvars>>

Run(u) ==
  /\ ~started /\ unit = NoUnit /\ runs < MaxRuns
  /\ symbols[u] \cap Profiler = {}
  /\ runs' = runs + 1
  /\ symbols' = [symbols EXCEPT ![u] = @ \cup Profiler]
  /\ unit' = u
  /\ todo' = symbols'[u]
  /\ UNCHANGED <<enters, exits, programvars>>

(* Variant: the call at the entry is forgotten.                            *)
InstrumentReturns(f) ==
  /\ unit # NoUnit /\ f \in todo
  /\ HasBody(f, unit) /\ f \in Named
  /\ exits' = [exits EXCEPT ![f] = [r \in Sites |-> @[r] + 1]]
  /\ todo' = todo \ {f}
  /\ UNCHANGED <<symbols, runs, unit, enters, programvars>>

(* Variant: only the first return of a function is instrumented.           *)
InstrumentFirst(f) ==
  /\ unit # NoUnit /\ f \in todo
  /\ HasBody(f, unit) /\ f \in Named
  /\ enters' = [enters EXCEPT ![f] = @ + 1]
  /\ exits' = [exits EXCEPT ![f] =
                 [r \in Sites |-> IF \A q \in Sites : r <= q THEN @[r] + 1 ELSE @[r]]]
  /\ todo' = todo \ {f}
  /\ UNCHANGED <<symbols, runs, unit, programvars>>

Instrument(f) ==
  /\ unit # NoUnit /\ f \in todo
  /\ HasBody(f, unit) /\ f \in Named
  /\ enters' = [enters EXCEPT ![f] = @ + 1]
  /\ exits' = [exits EXCEPT ![f] = [r \in Sites |-> @[r] + 1]]
  /\ todo' = todo \ {f}
  /\ UNCHANGED <<symbols, runs, unit, programvars>>

PassOver(f) ==
  /\ unit # NoUnit /\ f \in todo
  /\ ~(HasBody(f, unit) /\ f \in Named)
  /\ todo' = todo \ {f}
  /\ UNCHANGED <<symbols, runs, unit, enters, exits, programvars>>

RunReturns ==
  /\ unit # NoUnit /\ todo = {}
  /\ unit' = NoUnit
  /\ UNCHANGED <<symbols, runs, todo, enters, exits, programvars>>

-----------------------------------------------------------------------------
(* The program.  An activation has `before' calls of __ppp_enter to make,  *)
(* then runs its body (site = 0), then leaves at a return after `after'    *)
(* calls of __ppp_exit.                                                    *)
Activation(f) == [fn |-> f, before |-> enters[f], site |-> 0, after |-> 0]
Top == stack[Len(stack)]
Rest == SubSeq(stack, 1, Len(stack) - 1)
Running == stack # <<>>
InBody == Running /\ Top.before = 0 /\ Top.site = 0
InRuntime == \E i \in 1 .. Len(stack) : stack[i].fn \in Profiler

Start ==
  /\ ~started /\ unit = NoUnit
  /\ started' = TRUE
  /\ UNCHANGED <<passvars, stack, open, lost>>

(* Only inserted code calls the profiler, and the runtime calls nothing    *)
(* outside its unit.                                                       *)
Call(f) ==
  /\ started
  /\ ~Running \/ InBody
  /\ Len(stack) < MaxDepth
  /\ f \notin Profiler
  /\ InRuntime => UnitOf[f] = Runtime
  /\ stack' = Append(stack, Activation(f))
  /\ UNCHANGED <<passvars, started, open, lost>>

CallEnter ==
  /\ Running /\ Top.before > 0
  /\ stack' = Append(Append(Rest, [Top EXCEPT !.before = @ - 1]), Activation(Enter))
  /\ open' = [open EXCEPT ![Top.fn] = @ + 1]
  /\ UNCHANGED <<passvars, started, lost>>

Return(r) ==
  /\ InBody
  /\ stack' = Append(Rest, [Top EXCEPT !.site = r, !.after = exits[Top.fn][r]])
  /\ UNCHANGED <<passvars, started, open, lost>>

CallExit ==
  /\ Running /\ Top.site # 0 /\ Top.after > 0
  /\ stack' = Append(Append(Rest, [Top EXCEPT !.after = @ - 1]), Activation(Exit))
  /\ open' = [open EXCEPT ![Top.fn] = @ - 1]
  /\ UNCHANGED <<passvars, started, lost>>

Leave ==
  /\ Running /\ Top.site # 0 /\ Top.after = 0
  /\ stack' = Rest
  /\ UNCHANGED <<passvars, started, open, lost>>

(* An exception passes through the activation: no return instruction runs. *)
NumLost == Cardinality({p \in Functions \X (1 .. MaxLost) : p[2] <= lost[p[1]]})
Unwind ==
  /\ InBody /\ ~InRuntime
  /\ NumLost < MaxLost
  /\ stack' = Rest
  /\ lost' = [lost EXCEPT ![Top.fn] = @ + enters[Top.fn]]
  /\ UNCHANGED <<passvars, started, open>>

-----------------------------------------------------------------------------
(* A unit starts with its own functions and perhaps with declarations of   *)
(* the profiler's written by hand.                                         *)
Init ==
  /\ \E declared \in [Units -> SUBSET Declarable] :
       symbols = [u \in Units |-> declared[u] \cup {f \in Functions : UnitOf[f] = u}]
  /\ runs = 0 /\ unit = NoUnit /\ todo = {}
  /\ enters = [f \in Functions |-> 0]
  /\ exits = [f \in Functions |-> [r \in Sites |-> 0]]
  /\ started = FALSE /\ stack = <<>>
  /\ open = [f \in Functions |-> 0]
  /\ lost = [f \in Functions |-> 0]

PassStep ==
  \/ \E u \in Units : Skip(u) \/ Run(u)
  \/ \E f \in Functions : Instrument(f) \/ PassOver(f)
  \/ RunReturns
ProgramStep ==
  \/ Start
  \/ \E f \in Functions : Call(f)
  \/ \E r \in Sites : Return(r)
  \/ CallEnter \/ CallExit \/ Leave \/ Unwind

Next == PassStep \/ ProgramStep
Spec == Init /\ [][Next]_vars

-----------------------------------------------------------------------------
(* The type invariant.                                                     *)
ActivationType == [fn : Functions, before : Nat, site : Sites \cup {0}, after : Nat]
TypeOK ==
  /\ symbols \in [Units -> SUBSET Functions]
  /\ runs \in Nat
  /\ unit \in Units \cup {NoUnit}
  /\ todo \in SUBSET Functions
  /\ enters \in [Functions -> Nat]
  /\ exits \in [Functions -> [Sites -> Nat]]
  /\ started \in BOOLEAN
  /\ stack \in Seq(ActivationType)
  /\ open \in [Functions -> Nat]
  /\ lost \in [Functions -> Nat]

(* However often the pass runs, a function has one call of __ppp_enter and *)
(* one of __ppp_exit before each of its returns, or none at all; and apart *)
(* from the unit being worked on, a unit is profiled entirely or not.      *)
ProfiledOnce ==
  /\ \A f \in Functions :
       /\ enters[f] <= 1
       /\ \A r \in Sites : exits[f][r] = enters[f]
  /\ \A f, g \in Named : UnitOf[f] = UnitOf[g] /\ UnitOf[f] # unit
                           => enters[f] = enters[g]

(* The runtime's functions are not instrumented (PProfiler.cc:11): the     *)
(* profiler never enters itself while it records an event.                 *)
ProfilerIsNotReentered ==
  \A i, j \in 1 .. Len(stack) :
    i < j /\ stack[i].fn \in Profiler => stack[j].fn \notin Profiler

(* The events tell the call stack: the activations of f recorded as open   *)
(* are those on the stack between their two events, and those an exception *)
(* unwound, which stay open for ever.                                      *)
BetweenEvents(a) ==
  /\ enters[a.fn] > 0 /\ a.before = 0
  /\ a.site # 0 => a.after > 0
OpenOnStack(s, f) ==
  Cardinality({i \in 1 .. Len(s) : s[i].fn = f /\ BetweenEvents(s[i])})
EventsMatchCalls ==
  \A f \in Functions : open[f] = lost[f] + OpenOnStack(stack, f)
=============================================================================
