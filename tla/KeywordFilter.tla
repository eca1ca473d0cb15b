---------------------------- MODULE KeywordFilter ----------------------------
(***************************************************************************)
(* The keyword table of tablegen: emitKeywordFilter (TableGenEmitter.cc)   *)
(* collects the tokens of a TokenFilter with their flags, sorts them, and  *)
(* emits lookupKeyword, which searches the table with std::lower_bound.    *)
(* Names are integers: only their order matters.  A flag word is the set   *)
(* of its bits.                                                            *)
(***************************************************************************)
EXTENDS Integers, Sequences, Functions

CONSTANTS
  Names,      \* what a token or an identifier can be called
  Bits,       \* the bits of a flag
  MaxRecords  \* bound: tokens of the filter

ASSUME NamesAssumption == Names \subseteq Int
ASSUME RecordsAssumption == MaxRecords \in Nat

VARIABLES
  filter,  \* the tokens collected, in the order of the TokenFilter
  table,   \* the emitted Table
  pc,      \* "collect", then "ready", "search" and "answer" in turn
  query,   \* the Keyword looked up
  first,   \* std::lower_bound: where the rest of the search starts
  count    \*   and how many entries it has

searchvars == <<query, first, count>>
vars == <<filter, table, pc, searchvars>>

Record == [name : Names, flags : SUBSET SUBSET Bits]
Entry  == [value : SUBSET Bits, keyword : Names]

(* One turn of the loop: Val is the union of the record's flags.           *)
EntryOf(r) == [value |-> UNION r.flags, keyword |-> r.name]

Collect ==
  /\ pc = "collect" /\ Len(filter) < MaxRecords
  /\ \E r \in Record : filter' = Append(filter, EntryOf(r))
  /\ UNCHANGED <<table, pc, searchvars>>

(* Variant: the table is emitted in the order of the filter.               *)
EmitUnsorted ==
  /\ pc = "collect"
  /\ table' = filter
  /\ pc' = "ready"
  /\ UNCHANGED <<filter, searchvars>>

(* llvm::sort by name, in any order among equals, and the emission.        *)
Sorted(t) == \A i, j \in 1 .. Len(t) : i < j => t[i].keyword <= t[j].keyword
Emit ==
  /\ pc = "collect"
  /\ \E p \in Surjection(1 .. Len(filter), 1 .. Len(filter)) :
       table' = [i \in 1 .. Len(filter) |-> filter[p[i]]]
  /\ Sorted(table')
  /\ pc' = "ready"
  /\ UNCHANGED <<filter, searchvars>>

-----------------------------------------------------------------------------
(* The emitted lookupKeyword.                                              *)
Lookup ==
  /\ pc \in {"ready", "answer"}
  /\ query' \in Names
  /\ first' = 1
  /\ count' = Len(table)
  /\ pc' = "search"
  /\ UNCHANGED <<filter, table>>

Half == count \div 2
Mid == first + Half

(* Variant: the upper part of the search keeps its middle.                 *)
ProbeKeepsMiddle ==
  /\ pc = "search" /\ count > 0
  /\ IF table[Mid].keyword < query
     THEN first' = Mid /\ count' = count - Half
     ELSE first' = first /\ count' = Half
  /\ UNCHANGED <<filter, table, pc, query>>

(* Variant: the upper part of the search is taken one entry too long.      *)
ProbePastEnd ==
  /\ pc = "search" /\ count > 0
  /\ IF table[Mid].keyword < query
     THEN first' = Mid + 1 /\ count' = count - Half
     ELSE first' = first /\ count' = Half
  /\ UNCHANGED <<filter, table, pc, query>>

(* std::lower_bound, external: one turn of its loop.                       *)
Probe ==
  /\ pc = "search" /\ count > 0
  /\ IF table[Mid].keyword < query
     THEN first' = Mid + 1 /\ count' = count - Half - 1
     ELSE first' = first /\ count' = Half
  /\ UNCHANGED <<filter, table, pc, query>>

Answer ==
  /\ pc = "search" /\ count = 0
  /\ pc' = "answer"
  /\ UNCHANGED <<filter, table, searchvars>>

(* What lookupKeyword returns, and the Value it sets.                      *)
Found == first # Len(table) + 1
Value == table[first].value

-----------------------------------------------------------------------------
Init ==
  /\ filter = <<>> /\ table = <<>>
  /\ pc = "collect"
  /\ query \in Names
  /\ first = 1 /\ count = 0

Next == Collect \/ Emit \/ Lookup \/ Probe \/ Answer
Spec == Init /\ [][Next]_vars
(* A call of lookupKeyword runs on.                                        *)
FairSpec == Spec /\ WF_vars(Probe \/ Answer)

-----------------------------------------------------------------------------
(* The type invariant; the search never leaves the table.                  *)
TypeOK ==
  /\ filter \in Seq(Entry) /\ table \in Seq(Entry)
  /\ pc \in {"collect", "ready", "search", "answer"}
  /\ query \in Names
  /\ first \in 1 .. Len(table) + 1
  /\ count \in 0 .. Len(table) + 1 - first

(* Every token of the filter is found, with the flags of a token of that   *)
(* name.                                                                   *)
KeywordsAreFound ==
  pc = "answer" /\ (\E k \in 1 .. Len(filter) : filter[k].keyword = query)
    => /\ Found
       /\ \E k \in 1 .. Len(filter) :
            filter[k] = [value |-> Value, keyword |-> query]

(* Every call of lookupKeyword returns.                                    *)
LookupReturns == (pc = "search") ~> (pc = "answer")

(* The lookup succeeds when "we found the keyword in the list"             *)
(* (TableGenEmitter.cc:256).                                               *)
OnlyKeywordsAreFound ==
  pc = "answer" /\ Found => \E k \in 1 .. Len(filter) : filter[k].keyword = query
=============================================================================
