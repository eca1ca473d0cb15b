------------------------- MODULE KeywordFilterProofs -------------------------
(***************************************************************************)
(* The search of KeywordFilter is right for every table: names below first *)
(* are smaller than the query and names from first + count on are not, so  *)
(* that the search ends at the query's entry when there is one.            *)
(***************************************************************************)
EXTENDS KeywordFilter, SequenceTheorems, TLAPS

TableInv ==
  /\ pc = "collect" => first = 1 /\ count = 0
  /\ pc # "collect" =>
       /\ Sorted(table)
       /\ \A k \in 1 .. Len(filter) : \E i \in 1 .. Len(table) : table[i] = filter[k]
       /\ \A i \in 1 .. Len(table) : \E k \in 1 .. Len(filter) : table[i] = filter[k]

SearchInv ==
  /\ pc \in {"search", "answer"} =>
       /\ \A i \in 1 .. Len(table) : i < first => table[i].keyword < query
       /\ \A i \in 1 .. Len(table) : i >= first + count => query <= table[i].keyword
  /\ pc = "answer" => count = 0

IInv == TypeOK /\ TableInv /\ SearchInv

LEMMA EntryTyped ==
  ASSUME NEW r \in Record
  PROVE  EntryOf(r) \in Entry
BY DEF Record, Entry, EntryOf

LEMMA TableFacts ==
  ASSUME TypeOK
  PROVE  /\ Len(table) \in Nat /\ first \in Int /\ count \in Int /\ query \in Int
         /\ \A i \in 1 .. Len(table) : table[i] \in Entry /\ table[i].keyword \in Int
<1>1. Len(table) \in Nat /\ first \in Int /\ count \in Int /\ query \in Int
  BY NamesAssumption DEF TypeOK
<1>2. ASSUME NEW i \in 1 .. Len(table)
      PROVE  table[i] \in Entry /\ table[i].keyword \in Int
  <2>1. table[i] \in Entry
    BY <1>2 DEF TypeOK
  <2>2. table[i].keyword \in Names
    BY <2>1 DEF Entry
  <2> QED BY <2>1, <2>2, NamesAssumption
<1> QED BY <1>1, <1>2

(* A sorted table, with equal indices allowed.                             *)
LEMMA TableOrder ==
  ASSUME TypeOK, Sorted(table),
         NEW i \in 1 .. Len(table), NEW j \in 1 .. Len(table), i <= j
  PROVE  table[i].keyword <= table[j].keyword
<1>1. CASE i < j
  BY <1>1 DEF Sorted
<1>2. CASE i = j
  BY <1>2, TableFacts
<1> QED BY <1>1, <1>2

LEMMA InitInv == Init => IInv
BY DEF Init, IInv, TypeOK, TableInv, SearchInv

(* The emitted table holds what was collected, sorted.                     *)
LEMMA EmitInv == IInv /\ Emit => IInv'
<1> SUFFICES ASSUME IInv, Emit PROVE IInv'
  OBVIOUS
<1> DEFINE n == Len(filter)
<1>1. PICK p \in Surjection(1 .. n, 1 .. n) : table' = [i \in 1 .. n |-> filter[p[i]]]
  BY DEF Emit
<1>2. p \in [1 .. n -> 1 .. n] /\ \A k \in 1 .. n : \E i \in 1 .. n : p[i] = k
  BY <1>1 DEF Surjection
<1>3. n \in Nat /\ \A k \in 1 .. n : filter[k] \in Entry
  BY DEF IInv, TypeOK
<1>4. table' \in Seq(Entry) /\ Len(table') = n
  <2>1. \A i \in 1 .. n : p[i] \in 1 .. n
    BY <1>2
  <2>2. \A i \in 1 .. n : filter[p[i]] \in Entry
    BY <1>3, <2>1
  <2>3. table' \in [1 .. n -> Entry]
    BY <1>1, <2>2
  <2> QED BY <1>3, <2>3
<1>5. TypeOK'
  BY <1>3, <1>4 DEF Emit, IInv, TypeOK, TableInv, searchvars
<1>6. TableInv'
  BY <1>1, <1>2, <1>4 DEF Emit, TableInv
<1>7. SearchInv'
  BY DEF Emit, SearchInv
<1> QED BY <1>5, <1>6, <1>7 DEF IInv

(* A turn of the search keeps the entry it looks for inside the rest.      *)
LEMMA ProbeInv == IInv /\ Probe => IInv'
<1> SUFFICES ASSUME IInv, Probe PROVE IInv'
  OBVIOUS
<1>1. /\ Half \in Nat /\ Half < count /\ Mid \in 1 .. Len(table)
      /\ Mid = first + Half
  BY TableFacts DEF IInv, TypeOK, Probe, Half, Mid
<1>2. /\ UNCHANGED <<filter, table, pc, query>> /\ pc = "search"
  BY DEF Probe
<1>3. CASE table[Mid].keyword < query
  <2>1. first' = Mid + 1 /\ count' = count - Half - 1
    BY <1>3 DEF Probe
  <2>2. TypeOK'
    BY <1>1, <1>2, <2>1, TableFacts DEF IInv, TypeOK
  <2>3. \A i \in 1 .. Len(table) : i <= Mid => table[i].keyword <= table[Mid].keyword
    BY <1>1, <1>2, TableOrder DEF IInv, TableInv
  <2>4. \A i \in 1 .. Len(table) : i < Mid + 1 => table[i].keyword < query
    BY <1>1, <1>3, <2>3, TableFacts DEF IInv
  <2>5. \A i \in 1 .. Len(table) : i >= first' + count' => query <= table[i].keyword
    BY <1>1, <1>2, <2>1, TableFacts DEF IInv, SearchInv
  <2>6. SearchInv'
    BY <1>2, <2>1, <2>4, <2>5 DEF SearchInv
  <2>7. TableInv'
    BY <1>2 DEF IInv, TableInv, Sorted
  <2> QED BY <2>2, <2>6, <2>7 DEF IInv
<1>4. CASE ~(table[Mid].keyword < query)
  <2>1. first' = first /\ count' = Half
    BY <1>4 DEF Probe
  <2>2. TypeOK'
    BY <1>1, <1>2, <2>1, TableFacts DEF IInv, TypeOK
  <2>3. \A i \in 1 .. Len(table) : i >= Mid => table[Mid].keyword <= table[i].keyword
    BY <1>1, <1>2, TableOrder, TableFacts DEF IInv, TableInv
  <2>4. \A i \in 1 .. Len(table) : i >= first' + count' => query <= table[i].keyword
    BY <1>1, <1>4, <2>1, <2>3, TableFacts DEF IInv
  <2>5. SearchInv'
    BY <1>2, <2>1, <2>4 DEF IInv, SearchInv
  <2>6. TableInv'
    BY <1>2 DEF IInv, TableInv, Sorted
  <2> QED BY <2>2, <2>5, <2>6 DEF IInv
<1> QED BY <1>3, <1>4

LEMMA StepInv == IInv /\ [Next]_vars => IInv'
<1> SUFFICES ASSUME IInv, [Next]_vars PROVE IInv'
  OBVIOUS
<1>1. CASE Collect
  <2>1. PICK r \in Record : filter' = Append(filter, EntryOf(r))
    BY <1>1 DEF Collect
  <2>2. filter' \in Seq(Entry)
    BY <2>1, EntryTyped DEF IInv, TypeOK
  <2>3. UNCHANGED <<table, pc, query, first, count>> /\ pc = "collect"
    BY <1>1 DEF Collect, searchvars
  <2> QED BY <2>2, <2>3 DEF IInv, TypeOK, TableInv, SearchInv
<1>2. CASE Emit
  BY <1>2, EmitInv
<1>3. CASE Lookup
  <2>1. TypeOK'
    BY <1>3, TableFacts DEF Lookup, IInv, TypeOK
  <2>2. TableInv' /\ SearchInv'
    BY <1>3, TableFacts DEF Lookup, IInv, TableInv, SearchInv, Sorted
  <2> QED BY <2>1, <2>2 DEF IInv
<1>4. CASE Probe
  BY <1>4, ProbeInv
<1>5. CASE Answer
  BY <1>5 DEF Answer, searchvars, IInv, TypeOK, TableInv, SearchInv, Sorted
<1>6. CASE UNCHANGED vars
  BY <1>6 DEF vars, searchvars, IInv, TypeOK, TableInv, SearchInv, Sorted
<1> QED BY <1>1, <1>2, <1>3, <1>4, <1>5, <1>6 DEF Next

LEMMA Inductive == Spec => []IInv
BY InitInv, StepInv, PTL DEF Spec

(* The search stays inside the table.                                      *)
THEOREM SearchStaysInTable == Spec => []TypeOK
<1>1. IInv => TypeOK
  BY DEF IInv
<1> QED BY <1>1, Inductive, PTL

(* Whatever the tokens of the filter, each one is found with its flags.    *)
THEOREM EveryKeywordIsFound == Spec => []KeywordsAreFound
<1>1. IInv => KeywordsAreFound
  <2> SUFFICES ASSUME IInv, pc = "answer",
                      NEW k \in 1 .. Len(filter), filter[k].keyword = query
               PROVE  /\ Found
                      /\ \E j \in 1 .. Len(filter) :
                           filter[j] = [value |-> Value, keyword |-> query]
    BY DEF KeywordsAreFound
  <2>1. PICK i \in 1 .. Len(table) : table[i] = filter[k]
    BY DEF IInv, TableInv
  <2>2. first <= i
    BY <2>1, TableFacts DEF IInv, SearchInv
  <2>3. first \in 1 .. Len(table) /\ Found
    BY <2>2, TableFacts DEF IInv, TypeOK, Found
  <2>4. table[first].keyword = query
    <3>1. table[first].keyword <= query
      BY <2>1, <2>2, <2>3, TableOrder DEF IInv, TableInv
    <3>2. query <= table[first].keyword
      BY <2>3, TableFacts DEF IInv, SearchInv
    <3> QED BY <2>3, <3>1, <3>2, TableFacts DEF IInv
  <2>5. PICK j \in 1 .. Len(filter) : table[first] = filter[j]
    BY <2>3 DEF IInv, TableInv
  <2>6. table[first] \in Entry
    BY <2>3, TableFacts DEF IInv
  <2>7. table[first] = [value |-> Value, keyword |-> query]
    BY <2>4, <2>6 DEF Value, Entry
  <2> QED BY <2>3, <2>5, <2>7
<1> QED BY <1>1, Inductive, PTL
=============================================================================
