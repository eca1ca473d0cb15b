---------------------------- MODULE SemaProtocol ----------------------------
(***************************************************************************)
(* What aman-lang's Sema is promised by the parser that drives it: which   *)
(* declarations are open, innermost last, and how far each has come.  The  *)
(* token-level parser (AmanParser) keeps to it; the semantic analysis      *)
(* (AmanSema) keeps to it too and offers each of its steps within its      *)
(* bounds (EveryOrderIsOffered), which is what entitles AmanSema to leave  *)
(* the tokens out.                                                         *)
(***************************************************************************)
EXTENDS Naturals, Sequences

VARIABLES
  open,   \* the declarations whose scope is entered, each at a place
  over    \* nothing more will reach the tree

vars == <<open, over>>

Places == {"imports", "formals", "block", "stmt", "end"}

(* An empty text is over from the start.                                   *)
Init == open = <<>> /\ over \in BOOLEAN

Innermost(place) == open # <<>> /\ open[Len(open)] = place
MoveTo(place) == open' = [open EXCEPT ![Len(open)] = place] /\ UNCHANGED over

EnterModule == open = <<>> /\ ~over /\ open' = <<"imports">> /\ UNCHANGED over
EndImports  == Innermost("imports") /\ MoveTo("block")

OpenProcedure ==
  Innermost("block") /\ open' = Append(open, "formals") /\ UNCHANGED over
EndHeading  == Innermost("formals") /\ MoveTo("block")

(* A block without a body goes to its end at once.                         *)
BeginBody   == Innermost("block") /\ MoveTo("stmt")
EndBlockWithoutBody == Innermost("block") /\ MoveTo("end")
EndBody     == Innermost("stmt") /\ MoveTo("end")

CloseProcedure ==
  /\ Innermost("end") /\ Len(open) > 1
  /\ open' = SubSeq(open, 1, Len(open) - 1)
  /\ UNCHANGED over

(* The text is over, or beyond repair.                                     *)
Stop == ~over /\ over' = TRUE /\ open' = <<>>

Next == \/ EnterModule \/ EndImports \/ OpenProcedure \/ EndHeading
        \/ BeginBody \/ EndBlockWithoutBody \/ EndBody \/ CloseProcedure \/ Stop

Spec == Init /\ [][Next]_vars
=============================================================================
