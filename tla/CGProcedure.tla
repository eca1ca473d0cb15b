---------------------------- MODULE CGProcedure -----------------------------
(***************************************************************************)
(* The code generator of aman-lang for one procedure (CGProcedure.cc): how *)
(* the walk over its statements builds basic blocks and seals them.  The   *)
(* statements are chosen while they are walked; of an expression only what *)
(* evaluating it may do to the process is kept.  Sealing is the call of    *)
(* sealBlock: BlockDefs is never filled, so the call itself finds nothing. *)
(***************************************************************************)
EXTENDS Naturals, Sequences

CONSTANTS MaxStatements,  \* a bound on the statements of the procedure
          MaxNesting      \* a bound on the IFs and WHILEs open at a time

ASSUME CGAssumption == MaxStatements \in Nat /\ MaxNesting \in Nat

VARIABLES
  code,        \* the instructions of each block; a block is its place here
  sealed,      \* the blocks sealBlock was called with
  curr,        \* CurrBlk, where the builder inserts
  open,        \* the statements whose lists are being walked, innermost last
  statements,  \* how many statements were met
  simple,      \* no IF was met, nor a RETURN anything can follow
  phase        \* "walking", "done" or "aborted"
vars == <<code, sealed, curr, open, statements, simple, phase>>

Entry   == 1
NoBlock == 0      \* the null pointer
Blocks  == DOMAIN code

(* An instruction and the blocks it may go to.                             *)
Inst(op, to) == [op |-> op, to |-> to]
Store        == Inst("store", {})
Br(block)    == Inst("br", {block})
CondBr(then, else) == Inst("condbr", {then, else})
Ret          == Inst("ret", {})
Instructions == [op : {"store", "br", "condbr", "ret"}, to : SUBSET Nat]

(* What is left to do for an open statement: the list being walked, the    *)
(* else block of an IF (or none), the test of a WHILE, the block after it, *)
(* and whether a statement of the list was met.                            *)
Lists  == {"then", "else", "while"}
Frames == [list : Lists, else : Nat, test : Nat, after : Nat, met : BOOLEAN]
Frame(list, else, test, after) ==
  [list |-> list, else |-> else, test |-> test, after |-> after, met |-> FALSE]

(* The blocks an open statement goes to later on.                          *)
Pending(frame) == {frame.else, frame.test, frame.after} \ {NoBlock}

Top   == open[Len(open)]
Outer == SubSeq(open, 1, Len(open) - 1)

(* BasicBlock::getTerminator.                                              *)
Terminated(block) ==
  code[block] # <<>> /\ code[block][Len(code[block])].op # "store"

AddBlocks(n) == code \o [i \in 1 .. n |-> <<>>]
Emit(c, block, inst) == [c EXCEPT ![block] = Append(@, inst)]
EmitUnlessTerminated(inst)  == IF Terminated(curr) THEN code ELSE Emit(code, curr, inst)

(* The innermost list has met a statement.                                 *)
Met == IF open = <<>> THEN open ELSE [open EXCEPT ![Len(open)].met = TRUE]

-----------------------------------------------------------------------------
(* run() up to the statements; a parameter would be written to a block     *)
(* BlockDefs does not know.                                                *)
Init ==
  /\ code = <<<<>>>> /\ sealed = {} /\ curr = Entry
  /\ open = <<>> /\ statements = 0 /\ simple = TRUE
  /\ phase = "walking"

Statement ==
  /\ phase = "walking" /\ statements < MaxStatements
  /\ statements' = statements + 1
  /\ UNCHANGED phase

(* A global's address is null and a local is unknown, so what is stored is *)
(* anything, if the process survives it.                                   *)
Assignment ==
  /\ Statement
  /\ code' = Emit(code, curr, Store)
  /\ open' = Met
  /\ simple' = (simple /\ ~Terminated(curr))
  /\ UNCHANGED <<sealed, curr>>

Return ==
  /\ Statement
  /\ code' = Emit(code, curr, Ret)
  /\ open' = Met
  /\ simple' = (simple /\ open = <<>> /\ ~Terminated(curr))
  /\ UNCHANGED <<sealed, curr>>

(* The statements of THEN go on in the block of the branch.                *)
If ==
  /\ Statement /\ Len(open) < MaxNesting
  /\ \E hasElse \in BOOLEAN :
       LET if    == Len(code) + 1
           else  == IF hasElse THEN if + 1 ELSE NoBlock
           after == IF hasElse THEN if + 2 ELSE if + 1 IN
       /\ code' = Emit(AddBlocks(IF hasElse THEN 3 ELSE 2), curr, CondBr(if, else))
       /\ open' = Append(Met, Frame("then", else, NoBlock, after))
  /\ sealed' = sealed \cup {curr}
  /\ simple' = FALSE
  /\ UNCHANGED curr

WhileSealingTheTest ==
  /\ Statement /\ Len(open) < MaxNesting
  /\ LET test  == Len(code) + 1
         body  == test + 1
         after == test + 2 IN
     /\ code' = Emit(Emit(AddBlocks(3), curr, Br(test)), test, CondBr(body, after))
     /\ open' = Append(Met, Frame("while", NoBlock, test, after))
     /\ curr' = body
     /\ sealed' = sealed \cup {curr, test}
  /\ simple' = (simple /\ ~Terminated(curr))

While ==
  /\ Statement /\ Len(open) < MaxNesting
  /\ LET test  == Len(code) + 1
         body  == test + 1
         after == test + 2 IN
     /\ code' = Emit(Emit(AddBlocks(3), curr, Br(test)), test, CondBr(body, after))
     /\ open' = Append(Met, Frame("while", NoBlock, test, after))
     /\ curr' = body
  /\ sealed' = sealed \cup {curr}
  /\ simple' = (simple /\ ~Terminated(curr))

(* The end of the innermost list.  The list of a WHILE or of THEN may be   *)
(* empty; HasElse asks for a statement in the list of ELSE.                *)
EndOf(list) ==
  /\ phase = "walking" /\ open # <<>> /\ Top.list = list
  /\ list = "else" => Top.met
  /\ UNCHANGED <<statements, simple, phase>>

EndThenIntoElse ==
  /\ EndOf("then")
  /\ code' = EmitUnlessTerminated(Br(Top.after))
  /\ sealed' = sealed \cup {curr}
  /\ curr' = Top.else
  /\ open' = [open EXCEPT ![Len(open)] = Frame("else", NoBlock, NoBlock, Top.after)]

EndThen ==
  /\ EndOf("then")
  /\ code' = EmitUnlessTerminated(Br(Top.after))
  /\ sealed' = sealed \cup {curr}
  /\ IF Top.else # NoBlock
     THEN /\ curr' = Top.else
          /\ open' = [open EXCEPT ![Len(open)] = Frame("else", NoBlock, NoBlock, Top.after)]
     ELSE /\ curr' = Top.after
          /\ open' = Outer

EndElse ==
  /\ EndOf("else")
  /\ code' = EmitUnlessTerminated(Br(Top.after))
  /\ sealed' = sealed \cup {curr}
  /\ curr' = Top.after
  /\ open' = Outer

EndWhileAfterwards ==
  /\ EndOf("while")
  /\ code' = Emit(code, Top.after, Br(Top.test))
  /\ sealed' = sealed \cup {Top.test, curr}
  /\ curr' = Top.after
  /\ open' = Outer

EndWhile ==
  /\ EndOf("while")
  /\ code' = Emit(code, curr, Br(Top.test))
  /\ sealed' = sealed \cup {Top.test, curr}
  /\ curr' = Top.after
  /\ open' = Outer

EndProcedureUnsealed ==
  /\ phase = "walking" /\ open = <<>>
  /\ code' = EmitUnlessTerminated(Ret)
  /\ phase' = "done"
  /\ UNCHANGED <<sealed, curr, open, statements, simple>>

(* The rest of run().                                                      *)
EndProcedure ==
  /\ phase = "walking" /\ open = <<>>
  /\ code' = EmitUnlessTerminated(Ret)
  /\ sealed' = sealed \cup {curr}
  /\ phase' = "done"
  /\ UNCHANGED <<curr, open, statements, simple>>

(* Any statement may end the process: a call is not implemented, a         *)
(* variable is looked up in vain, and the functions for an infix           *)
(* expression, a list and a WHILE run off their end without a return.      *)
Abort ==
  /\ phase = "walking"
  /\ phase' = "aborted"
  /\ UNCHANGED <<code, sealed, curr, open, statements, simple>>

Next ==
  \/ Assignment \/ Return \/ If \/ While
  \/ EndThen \/ EndElse \/ EndWhile \/ EndProcedure \/ Abort

Spec == Init /\ [][Next]_vars

-----------------------------------------------------------------------------
PredecessorsIn(c, block) == {b \in DOMAIN c : \E i \in DOMAIN c[b] : block \in c[b][i].to}
Predecessors(block)      == PredecessorsIn(code, block)

(* The state is well formed: what the builder inserts into, and what is    *)
(* left to do, are blocks of the function, never the null pointer the IF   *)
(* without ELSE works with.                                                *)
TypeOK ==
  /\ code \in Seq(Seq(Instructions))
  /\ curr \in Blocks /\ sealed \subseteq Blocks
  /\ open \in Seq(Frames)
  /\ \A i \in DOMAIN open :
       /\ Pending(open[i]) \subseteq Blocks /\ open[i].after # NoBlock
       /\ open[i].list = "while" => open[i].test # NoBlock
  /\ statements \in Nat /\ simple \in BOOLEAN
  /\ phase \in {"walking", "done", "aborted"}

(* "Block is sealed => no more predesscors", CGProcedure.h:36: a block is  *)
(* sealed when every branch to it is there, the back edge of a loop and    *)
(* both ends of an IF included.  Sealing completes the phi nodes of the    *)
(* block from the predecessors it has by then.                             *)
SealedBlocksGetNoPredecessor ==
  [][\A block \in sealed : Predecessors(block)' = Predecessors(block)]_vars

(* Every block that has instructions is sealed by the end of run(), which  *)
(* has to seal the last one itself (CGProcedure.cc:30).  The block of      *)
(* THEN has none: nothing makes it the current one, and nothing seals it.  *)
FilledBlocksAreSealed ==
  phase = "done" => \A block \in Blocks : code[block] # <<>> => block \in sealed

(* Without an IF, and with a RETURN at the end at most, the function is    *)
(* one LLVM accepts: every block ends in its only terminator, a single one *)
(* of them returns, and every block can be reached from the entry and can  *)
(* reach the return: no set of blocks but the whole contains the entry and *)
(* is closed under successors, or contains the return and is closed under  *)
(* predecessors.                                                           *)
ClosedForwards(bs)  == \A b \in Blocks : Predecessors(b) \cap bs # {} => b \in bs
ClosedBackwards(bs) == \A b \in bs : Predecessors(b) \subseteq bs

LoopsAreWellFormed ==
  phase = "done" /\ simple =>
    /\ \A b \in Blocks :
         /\ Terminated(b)
         /\ \A i \in 1 .. Len(code[b]) - 1 : code[b][i].op = "store"
    /\ \E r \in Blocks :
         /\ \A b \in Blocks : code[b][Len(code[b])].op = "ret" <=> b = r
         /\ \A bs \in (SUBSET Blocks) \ {Blocks} :
              ~(Entry \in bs /\ ClosedForwards(bs)) /\ ~(r \in bs /\ ClosedBackwards(bs))
=============================================================================
