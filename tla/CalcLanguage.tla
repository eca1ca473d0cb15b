---------------------------- MODULE CalcLanguage ----------------------------
(***************************************************************************)
(* What calc-language promises its user, with no compiler in sight: a text *)
(* is judged once; a well-formed one becomes a program that asks for its   *)
(* variables in the order they are declared and then prints the value of   *)
(* its expression.  CalcCompiler implements this specification.            *)
(***************************************************************************)
EXTENDS CalcGrammar, MachineInt

VARIABLES
  source,   \* the text: its tokens' kinds, and what each one spells
  verdict,  \* "unread", "rejected", "accepted", then how the program ended
  answers,  \* the values the user gave, in order
  printed   \* what the program printed: <<>> or one number

avars == <<source, verdict, answers, printed>>

kinds == source[1]
lexemes == source[2]

Names(ps) == {lexemes[ps[v]] : v \in 1 .. Len(ps)}

(* A program in which every variable is declared, and declared once.       *)
WellFormed ==
  /\ IsProgram(kinds)
  /\ \A v, w \in 1 .. Len(Declared(kinds)) :
       v # w => lexemes[Declared(kinds)[v]] # lexemes[Declared(kinds)[w]]
  /\ \A p \in 1 .. Len(kinds) :
       kinds[p] = "ident" => lexemes[p] \in Names(Declared(kinds))

(* The value of a leaf: a number that fits, or the answer for its name.    *)
LeafValue(p) ==
  IF kinds[p] = "number" THEN Defined(lexemes[p])
  ELSE answers[CHOOSE v \in 1 .. Len(Declared(kinds)) :
                 lexemes[Declared(kinds)[v]] = lexemes[p]]

Meaning ==
  LET s == kinds
      d == Derive(s)
      m[p \in Spans(s)] ==
        LET nt == p[1]
            i == p[2]
            j == p[3]
            ks == SplitsOf(s, d, nt, i, j)
            k == SplitAt(ks)
        IN IF nt = "factor"
           THEN IF i < j THEN m[<<"expr", i + 1, j - 1>>] ELSE LeafValue(i)
           ELSE IF ks = {} THEN m[<<Below(nt), i, j>>]
           ELSE Apply(s[k], m[<<nt, i, k - 1>>], m[<<Below(nt), k + 1, j>>])
  IN m[<<"expr", CHOOSE c \in ExprStarts(s) : TRUE, Len(s)>>]

Init ==
  /\ source = <<>>
  /\ verdict = "unread"
  /\ answers = <<>>
  /\ printed = <<>>

Judge ==
  /\ verdict = "unread"
  /\ verdict' \in {"rejected", "accepted"}
  /\ (verdict' = "accepted") = WellFormed'
  /\ UNCHANGED <<answers, printed>>

(* An answer that is not a number may stand for any value or end the       *)
(* program.                                                                *)
Answer ==
  /\ verdict = "accepted"
  /\ Len(answers) < Len(Declared(kinds))
  /\ \E n \in Ints : answers' = Append(answers, <<n>>)
  /\ UNCHANGED <<source, verdict, printed>>

BadAnswer ==
  /\ verdict = "accepted"
  /\ Len(answers) < Len(Declared(kinds))
  /\ verdict' = "exited"
  /\ UNCHANGED <<source, answers, printed>>

(* The number printed is the expression's value when it has one.           *)
WriteValue ==
  /\ verdict = "accepted"
  /\ Len(answers) = Len(Declared(kinds))
  /\ \E n \in Ints : printed' = <<n>>
  /\ Meaning # Undefined => printed' = Meaning
  /\ verdict' = "finished"
  /\ UNCHANGED <<source, answers>>

(* An undefined operation may also stop the machine.                       *)
Trap ==
  /\ verdict = "accepted"
  /\ Len(answers) = Len(Declared(kinds))
  /\ verdict' = "trapped"
  /\ Meaning = Undefined
  /\ UNCHANGED <<source, answers, printed>>

Next == Judge \/ Answer \/ BadAnswer \/ WriteValue \/ Trap

Spec == Init /\ [][Next]_avars
=============================================================================
