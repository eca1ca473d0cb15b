-------------------------- MODULE RecursiveDescent --------------------------
(***************************************************************************)
(* How aman-lang's parser runs (Parser.h): parse functions that call each  *)
(* other, test and read the token, tell Sema, and on an error leave by a   *)
(* handler that skips tokens.  Routines says what each function does, as   *)
(* named points with the step taken there; AmanParser gives it.            *)
(*                                                                         *)
(* stack is the C++ call stack, each frame a function and the point it has *)
(* reached.  The text is chosen one token at a time, when it is read, and  *)
(* not remembered: texts of every length are covered, and the nesting is   *)
(* bounded by ending the text where the stack is MaxDepth high.            *)
(***************************************************************************)
EXTENDS Naturals, Sequences

CONSTANTS Routines,   \* function -> [sync |-> tokens its handler stops at, code |-> its points]
          Root,       \* the function parse() calls
          Kinds,      \* the kinds of token the lexer makes, beside the two below
          MaxDepth    \* bound: the height of the stack where the text must end

Eof     == "eof"
Stuck   == "stuck"    \* a character that starts no token: Ptr stays on it
EndOf   == {Eof, Stuck}

Ops  == {"test", "consume", "advance", "call", "act", "either"}
Ends == {"true", "false", "error", "ignored"}
Points(f) == DOMAIN Routines[f].code

ASSUME RoutinesAssumption ==
  /\ Root \in DOMAIN Routines
  /\ \A f \in DOMAIN Routines :
       /\ "start" \in Points(f)
       /\ Points(f) \cap Ends = {}
       /\ \A p \in Points(f) :
            LET s == Routines[f].code[p] IN
            /\ s.op \in Ops
            /\ {s.yes, s.no} \subseteq Points(f) \cup Ends
            /\ s.op = "call" => s.name \in DOMAIN Routines

ASSUME TextAssumption == MaxDepth \in Nat /\ EndOf \cap Kinds = {}

VARIABLES stack, tok
vars == <<stack, tok>>

Over  == stack = <<>>
Top   == stack[Len(stack)]
Below == SubSeq(stack, 1, Len(stack) - 1)
StepAt(f) == Routines[f.fun].code[f.at]
Frame(f)  == [fun |-> f, at |-> "start"]

(* Lexer::next: the end of the text is met again and again, and so is a    *)
(* character for which nothing moves Ptr.                                  *)
Upcoming == IF tok \in EndOf THEN {tok}
            ELSE IF Len(stack) >= MaxDepth THEN {Eof}
            ELSE Kinds \cup EndOf
ReadToken == tok' \in Upcoming

Init == stack = << Frame(Root) >> /\ tok \in Kinds \cup EndOf

Goto(p) == stack' = [stack EXCEPT ![Len(stack)].at = p]
At(op)  == ~Over /\ Top.at \notin Ends /\ StepAt(Top).op = op

Test ==
  /\ At("test")
  /\ Goto(IF tok \in StepAt(Top).kinds THEN StepAt(Top).yes ELSE StepAt(Top).no)
  /\ UNCHANGED tok

(* consume advances on a match only.                                       *)
Consume ==
  /\ At("consume")
  /\ \/ tok \in StepAt(Top).kinds /\ ReadToken /\ Goto(StepAt(Top).yes)
     \/ tok \notin StepAt(Top).kinds /\ Goto(StepAt(Top).no) /\ UNCHANGED tok

Advance == At("advance") /\ ReadToken /\ Goto(StepAt(Top).yes)

(* Variant: the caller goes on before it has the answer.                   *)
CallForgetful ==
  /\ At("call")
  /\ stack' = Append([stack EXCEPT ![Len(stack)].at = StepAt(Top).yes], Frame(StepAt(Top).name))
  /\ UNCHANGED tok

Call ==
  /\ At("call")
  /\ stack' = Append(stack, Frame(StepAt(Top).name))
  /\ UNCHANGED tok

(* Sema is told.  Some of its functions end the process (see AmanSema).    *)
Act ==
  /\ At("act")
  /\ Goto(StepAt(Top).yes) \/ stack' = <<>>
  /\ UNCHANGED tok

(* Two outcomes the build chooses between.                                 *)
Either ==
  /\ At("either")
  /\ Goto(StepAt(Top).yes) \/ Goto(StepAt(Top).no)
  /\ UNCHANGED tok

(* The function returns, and its caller goes on after the call.            *)
Answer(b) ==
  stack' = IF Len(stack) = 1 THEN <<>>
           ELSE LET caller == StepAt(stack[Len(stack) - 1]) IN
                [Below EXCEPT ![Len(stack) - 1].at = IF b THEN caller.yes ELSE caller.no]

Return ==
  /\ ~Over /\ Top.at \in {"true", "false"}
  /\ Answer(Top.at = "true")
  /\ UNCHANGED tok

(* skipUntil, in a handler: past every token that is not in its set.       *)
Sync == Routines[Top.fun].sync
Skip ==
  /\ ~Over /\ Top.at \in {"error", "ignored"}
  /\ tok \notin Sync \cup {Eof}
  /\ ReadToken
  /\ UNCHANGED stack

(* Variant: it does not stop at the end of the text.                       *)
RecoverAtSyncOnly ==
  /\ ~Over /\ Top.at = "error"
  /\ tok \in Sync
  /\ Answer(FALSE)
  /\ UNCHANGED tok

(* It answers false at a token of the set and true at the end of the text, *)
(* and the handler's caller returns that.                                  *)
Recover ==
  /\ ~Over /\ Top.at = "error"
  /\ tok \in Sync \cup {Eof}
  /\ Answer(tok \notin Sync)
  /\ UNCHANGED tok

IgnoreAnswer ==
  /\ ~Over /\ Top.at = "ignored"
  /\ tok \in Sync \cup {Eof}
  /\ Goto("true")
  /\ UNCHANGED tok

Next == \/ Test \/ Consume \/ Advance \/ Call \/ Act \/ Either
        \/ Return \/ Skip \/ Recover \/ IgnoreAnswer

Spec == Init /\ [][Next]_vars

(* One thread that waits for nothing.                                      *)
FairSpec == Spec /\ WF_vars(Next)

-----------------------------------------------------------------------------
(* Every frame is at a point of its function, and every frame but the top  *)
(* one is at a call of the function above it: an answer has a place to go  *)
(* to.                                                                     *)
TypeOK ==
  /\ \A k \in 1 .. Len(stack) :
       /\ stack[k].fun \in DOMAIN Routines
       /\ stack[k].at \in Points(stack[k].fun) \cup Ends
  /\ tok \in Kinds \cup EndOf
  /\ ~Over => stack[1].fun = Root
  /\ \A k \in 1 .. Len(stack) - 1 :
       /\ stack[k].at \in Points(stack[k].fun)
       /\ StepAt(stack[k]).op = "call" /\ StepAt(stack[k]).name = stack[k + 1].fun

(* At the end of the text the parser returns, from every point of every    *)
(* function (skipUntil's test for eof, Parser.h:99).                       *)
ReturnsAtEndOfText == (tok = Eof) ~> Over

(* No loop of the parser goes on without reading: unless it returns it     *)
(* reads new tokens again and again, or stands before a character for      *)
(* which the lexer does not move (Lexer.cc:197).                           *)
Reads == tok \notin EndOf /\ (Advance \/ Skip \/ (Consume /\ tok \in StepAt(Top).kinds))
KeepsReading == <>Over \/ <>[](tok = Stuck) \/ []<><<Reads>>_vars
=============================================================================
