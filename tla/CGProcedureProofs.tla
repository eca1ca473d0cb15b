-------------------------- MODULE CGProcedureProofs --------------------------
(***************************************************************************)
(* CGProcedure never seals a block too early, for procedures of any size.  *)
(* The blocks an open statement goes to later (Pending) are neither sealed *)
(* nor current, and no two statements share one: they were made for it.    *)
(* The last part is about procedures without an IF: what LLVM asks of the  *)
(* graph of their blocks holds of a prefix of it after every statement.    *)
(***************************************************************************)
EXTENDS CGProcedure, StackLemmas

PendingIsUntouched ==
  \A i \in DOMAIN open :
    /\ Pending(open[i]) \cap (sealed \cup {curr}) = {}
    /\ open[i].else # open[i].after

PendingIsOwn ==
  \A i, j \in DOMAIN open : i # j => Pending(open[i]) \cap Pending(open[j]) = {}

IInv == TypeOK /\ PendingIsUntouched /\ PendingIsOwn

-----------------------------------------------------------------------------
Code == Seq(Seq(Instructions))

LEMMA EmptyList == <<>> \in Seq(Instructions) /\ Len(<<>>) = 0 /\ DOMAIN <<>> = {}
<1>1. <<>> \in Seq(Instructions) /\ Len(<<>>) = 0
  BY EmptySeq
<1> QED BY <1>1

(* New blocks come after the others, empty, and lead nowhere.              *)
LEMMA AddedBlocks ==
  ASSUME code \in Code, NEW n \in Nat
  PROVE  /\ AddBlocks(n) \in Code
         /\ Len(AddBlocks(n)) = Len(code) + n
         /\ DOMAIN AddBlocks(n) = 1 .. Len(code) + n
         /\ \A b \in DOMAIN code : AddBlocks(n)[b] = code[b]
         /\ \A b \in DOMAIN AddBlocks(n) \ DOMAIN code : AddBlocks(n)[b] = <<>>
         /\ \A block : PredecessorsIn(AddBlocks(n), block) = PredecessorsIn(code, block)
<1> DEFINE new == [i \in 1 .. n |-> <<>>]
<1>1. new \in Code /\ Len(new) = n
  BY EmptyList DEF Code
<1>2. \A i \in 1 .. n : new[i] = <<>>
  OBVIOUS
<1> HIDE DEF new
<1> DEFINE all == code \o new
<1>3. /\ all \in Code /\ Len(all) = Len(code) + n
      /\ \A i \in 1 .. Len(code) + n :
           all[i] = IF i <= Len(code) THEN code[i] ELSE new[i - Len(code)]
  BY <1>1, ConcatProperties DEF Code
<1> HIDE DEF all
<1>4. Len(code) \in Nat /\ DOMAIN code = 1 .. Len(code) /\ DOMAIN all = 1 .. Len(code) + n
  BY <1>3 DEF Code
<1>5. \A b \in DOMAIN code : all[b] = code[b]
  BY <1>3, <1>4
<1>6. \A b \in DOMAIN all \ DOMAIN code : all[b] = <<>>
  BY <1>2, <1>3, <1>4
<1>7. ASSUME NEW block
      PROVE  PredecessorsIn(all, block) = PredecessorsIn(code, block)
  BY <1>4, <1>5, <1>6, EmptyList DEF PredecessorsIn
<1>8. AddBlocks(n) = all
  BY DEF AddBlocks, all, new
<1> QED BY <1>3, <1>4, <1>5, <1>6, <1>7, <1>8

(* An instruction changes the predecessors of the blocks it goes to only.  *)
LEMMA Emitted ==
  ASSUME NEW c \in Code, NEW b \in DOMAIN c, NEW inst \in Instructions
  PROVE  /\ Emit(c, b, inst) \in Code
         /\ Len(Emit(c, b, inst)) = Len(c)
         /\ DOMAIN Emit(c, b, inst) = DOMAIN c
         /\ \A o \in DOMAIN c : o # b => Emit(c, b, inst)[o] = c[o]
         /\ \A block : block \notin inst.to =>
              PredecessorsIn(Emit(c, b, inst), block) = PredecessorsIn(c, block)
<1> DEFINE d == Emit(c, b, inst)
<1>1. c[b] \in Seq(Instructions) /\ Append(c[b], inst) \in Seq(Instructions)
  BY ElementOfSeq DEF Code
<1>2. d \in Code /\ Len(d) = Len(c) /\ DOMAIN d = DOMAIN c
  BY <1>1 DEF Emit, Code
<1>3. /\ d[b] = Append(c[b], inst)
      /\ \A o \in DOMAIN c : o # b => d[o] = c[o]
  BY DEF Emit
<1>4. /\ DOMAIN d[b] = DOMAIN c[b] \cup {Len(c[b]) + 1}
      /\ Len(c[b]) + 1 \notin DOMAIN c[b]
      /\ d[b][Len(c[b]) + 1] = inst
      /\ \A i \in DOMAIN c[b] : d[b][i] = c[b][i]
  BY <1>1, <1>3
<1> HIDE DEF d
<1>5. ASSUME NEW block, block \notin inst.to
      PROVE  PredecessorsIn(d, block) = PredecessorsIn(c, block)
  BY <1>2, <1>3, <1>4, <1>5 DEF PredecessorsIn
<1> QED BY <1>2, <1>3, <1>5 DEF d

LEMMA InstIn ==
  ASSUME NEW op \in {"store", "br", "condbr", "ret"}, NEW to \in SUBSET Nat
  PROVE  Inst(op, to) \in Instructions /\ Inst(op, to).to = to
BY DEF Inst, Instructions

(* Marking that the innermost list has met a statement moves no block.     *)
LEMMA MetMovesNothing ==
  ASSUME open \in Seq(Frames)
  PROVE  /\ Met \in Seq(Frames) /\ Len(Met) = Len(open) /\ DOMAIN Met = DOMAIN open
         /\ \A i \in DOMAIN open :
              /\ Met[i].list = open[i].list /\ Met[i].else = open[i].else
              /\ Met[i].test = open[i].test /\ Met[i].after = open[i].after
              /\ Pending(Met[i]) = Pending(open[i])
<1>1. CASE open = <<>>
  BY <1>1 DEF Met
<1>2. CASE open # <<>>
  <2>1. Len(open) \in DOMAIN open /\ open[Len(open)] \in Frames
    BY <1>2, StackParts
  <2>2. [open[Len(open)] EXCEPT !.met = TRUE] \in Frames
    BY <2>1 DEF Frames
  <2>3. Met = [open EXCEPT ![Len(open)] = [open[Len(open)] EXCEPT !.met = TRUE]]
    BY <1>2 DEF Met
  <2>4. Met \in Seq(Frames) /\ Len(Met) = Len(open) /\ DOMAIN Met = DOMAIN open
    BY <2>1, <2>2, <2>3
  <2>5. \A i \in DOMAIN open :
          Met[i] = IF i = Len(open) THEN [open[i] EXCEPT !.met = TRUE] ELSE open[i]
    BY <2>3
  <2>6. \A i \in DOMAIN open : open[i] \in Frames
    BY ElementOfSeq
  <2> QED BY <2>4, <2>5, <2>6 DEF Frames, Pending
<1> QED BY <1>1, <1>2

-----------------------------------------------------------------------------
LEMMA InitIInv == Init => IInv
<1> SUFFICES ASSUME Init PROVE IInv
  OBVIOUS
<1>1. code \in Code /\ DOMAIN code = {1}
  BY EmptyList DEF Init, Code
<1>2. open \in Seq(Frames) /\ DOMAIN open = {}
  BY EmptySeq DEF Init
<1> QED BY <1>1, <1>2 DEF Init, IInv, TypeOK, PendingIsUntouched, PendingIsOwn, Blocks, Entry, Code

(* What TypeOK says of the blocks and of the innermost open statement.     *)
LEMMA BlockFacts ==
  ASSUME TypeOK
  PROVE  /\ code \in Code /\ Len(code) \in Nat /\ Blocks = 1 .. Len(code)
         /\ curr \in DOMAIN code /\ sealed \subseteq DOMAIN code /\ NoBlock \notin Blocks
         /\ \A i \in DOMAIN open : open[i] \in Frames
BY ElementOfSeq DEF TypeOK, Blocks, Code, NoBlock

LEMMA TopFacts ==
  ASSUME TypeOK, open # <<>>
  PROVE  /\ Len(open) \in DOMAIN open /\ Top \in Frames /\ Top = open[Len(open)]
         /\ Pending(Top) \subseteq Blocks /\ Top.after \in Pending(Top)
         /\ Top.list = "while" => Top.test \in Pending(Top)
         /\ Top.else # NoBlock => Top.else \in Pending(Top)
         /\ Outer \in Seq(Frames) /\ DOMAIN Outer = DOMAIN open \ {Len(open)}
         /\ \A i \in DOMAIN Outer : Outer[i] = open[i]
<1>1. /\ Len(open) \in Nat \ {0} /\ open[Len(open)] \in Frames
      /\ Outer \in Seq(Frames) /\ Len(Outer) = Len(open) - 1
      /\ \A i \in 1 .. Len(open) - 1 : Outer[i] = open[i]
  BY StackParts DEF Outer, TypeOK
<1>2. Len(open) \in DOMAIN open /\ DOMAIN open = 1 .. Len(open)
  BY <1>1 DEF TypeOK
<1>3. DOMAIN Outer = 1 .. Len(open) - 1
  BY <1>1
<1>4. 1 .. Len(open) - 1 = (1 .. Len(open)) \ {Len(open)}
  BY <1>1
<1>5. Pending(Top) \subseteq Blocks /\ Top.after # NoBlock /\ (Top.list = "while" => Top.test # NoBlock)
  BY <1>2 DEF TypeOK, Top
<1> QED BY <1>1, <1>2, <1>3, <1>4, <1>5 DEF Top, Pending

(* A new list is pushed: its blocks are new.                               *)
LEMMA NewList ==
  ASSUME IInv, NEW list \in Lists, NEW else \in Nat, NEW test \in Nat, NEW after \in Nat,
         NEW n \in Nat,
         open' = Append(Met, Frame(list, else, test, after)),
         Pending(Frame(list, else, test, after)) \subseteq (Len(code) + 1 .. Len(code) + n) \ {curr'},
         else # after, after # NoBlock, list = "while" => test # NoBlock,
         code' \in Code, Len(code') = Len(code) + n,
         curr' = curr \/ curr' \notin DOMAIN code,
         sealed' = sealed \cup {curr}
  PROVE  /\ open' \in Seq(Frames)
         /\ \A i \in DOMAIN open' :
              /\ Pending(open'[i]) \subseteq DOMAIN code' /\ open'[i].after # NoBlock
              /\ open'[i].list = "while" => open'[i].test # NoBlock
         /\ PendingIsUntouched' /\ PendingIsOwn'
<1> DEFINE f == Frame(list, else, test, after)
<1>1. f \in Frames /\ f.list = list /\ f.else = else /\ f.test = test /\ f.after = after
  BY DEF Frame, Frames
<1>2. /\ Met \in Seq(Frames) /\ Len(Met) = Len(open) /\ DOMAIN Met = DOMAIN open
      /\ Len(open) \in Nat /\ DOMAIN open = 1 .. Len(open)
      /\ \A i \in DOMAIN open :
           /\ Met[i].list = open[i].list /\ Met[i].else = open[i].else
           /\ Met[i].test = open[i].test /\ Met[i].after = open[i].after
           /\ Pending(Met[i]) = Pending(open[i])
  BY MetMovesNothing DEF IInv, TypeOK
<1> HIDE DEF f
<1>3. /\ open' \in Seq(Frames) /\ DOMAIN open' = DOMAIN open \cup {Len(open) + 1}
      /\ open'[Len(open) + 1] = f
      /\ \A i \in DOMAIN open : open'[i] = Met[i] /\ i # Len(open) + 1
  BY <1>1, <1>2 DEF f
<1>4. /\ DOMAIN code = 1 .. Len(code) /\ DOMAIN code' = 1 .. Len(code) + n
      /\ Len(code) \in Nat /\ curr \in DOMAIN code /\ sealed \subseteq DOMAIN code
  BY BlockFacts DEF IInv, Blocks, Code
<1>5. Pending(f) \subseteq DOMAIN code' \ DOMAIN code /\ curr' \notin Pending(f)
  BY <1>4 DEF f
<1>6. DOMAIN code \subseteq DOMAIN code'
  BY <1>4
<1>7. \A i \in DOMAIN open :
        /\ Pending(open'[i]) = Pending(open[i]) /\ Pending(open[i]) \subseteq DOMAIN code
        /\ open'[i].after = open[i].after /\ open'[i].else = open[i].else
        /\ open[i].after # NoBlock
        /\ open'[i].list = "while" => open'[i].test # NoBlock
        /\ Pending(open[i]) \cap (sealed \cup {curr}) = {} /\ open[i].else # open[i].after
  <2> TAKE i \in DOMAIN open
  <2>1. open'[i] = Met[i]
    BY <1>3
  <2>2. /\ Pending(open[i]) \subseteq DOMAIN code /\ open[i].after # NoBlock
        /\ open[i].list = "while" => open[i].test # NoBlock
    BY DEF IInv, TypeOK, Blocks
  <2>3. Pending(open[i]) \cap (sealed \cup {curr}) = {} /\ open[i].else # open[i].after
    BY DEF IInv, PendingIsUntouched
  <2> QED BY <1>2, <2>1, <2>2, <2>3
<1>8. ASSUME NEW i \in DOMAIN open'
      PROVE  /\ Pending(open'[i]) \subseteq DOMAIN code' /\ open'[i].after # NoBlock
             /\ open'[i].list = "while" => open'[i].test # NoBlock
  <2>1. CASE i \in DOMAIN open
    BY <1>6, <1>7, <2>1
  <2>2. CASE i = Len(open) + 1
    BY <1>1, <1>3, <1>5, <2>2
  <2> QED BY <1>3, <2>1, <2>2
<1>9. PendingIsUntouched'
  <2>1. ASSUME NEW i \in DOMAIN open'
        PROVE  Pending(open'[i]) \cap (sealed' \cup {curr'}) = {} /\ open'[i].else # open'[i].after
    <3>1. CASE i \in DOMAIN open
      BY <1>7, <3>1
    <3>2. CASE i = Len(open) + 1
      BY <1>1, <1>3, <1>4, <1>5, <3>2
    <3> QED BY <1>3, <3>1, <3>2
  <2> QED BY <2>1 DEF PendingIsUntouched
<1>10. PendingIsOwn'
  <2>1. ASSUME NEW i \in DOMAIN open', NEW j \in DOMAIN open', i # j
        PROVE  Pending(open'[i]) \cap Pending(open'[j]) = {}
    <3>1. CASE i \in DOMAIN open /\ j \in DOMAIN open
      BY <1>7, <2>1, <3>1 DEF IInv, PendingIsOwn
    <3>2. CASE i \in DOMAIN open /\ j = Len(open) + 1
      BY <1>3, <1>5, <1>7, <3>2
    <3>3. CASE i = Len(open) + 1 /\ j \in DOMAIN open
      BY <1>3, <1>5, <1>7, <3>3
    <3> QED BY <1>3, <2>1, <3>1, <3>2, <3>3
  <2> QED BY <2>1 DEF PendingIsOwn
<1> QED BY <1>3, <1>8, <1>9, <1>10

(* The innermost statement is done with one of its blocks, which becomes   *)
(* the current one.                                                        *)
LEMMA Popped ==
  ASSUME IInv, open # <<>>, open' = Outer, DOMAIN code' = DOMAIN code,
         curr' \in Pending(Top), sealed' \subseteq sealed \cup {curr} \cup Pending(Top)
  PROVE  /\ open' \in Seq(Frames)
         /\ \A i \in DOMAIN open' :
              /\ Pending(open'[i]) \subseteq DOMAIN code' /\ open'[i].after # NoBlock
              /\ open'[i].list = "while" => open'[i].test # NoBlock
         /\ PendingIsUntouched' /\ PendingIsOwn'
<1>1. /\ Len(open) \in DOMAIN open /\ Top = open[Len(open)]
      /\ Outer \in Seq(Frames) /\ DOMAIN Outer = DOMAIN open \ {Len(open)}
      /\ \A i \in DOMAIN Outer : Outer[i] = open[i]
  BY TopFacts DEF IInv
<1>2. \A i \in DOMAIN Outer : Pending(open[i]) \cap Pending(Top) = {}
  BY <1>1 DEF IInv, PendingIsOwn
<1>3. PendingIsUntouched'
  BY <1>1, <1>2 DEF IInv, PendingIsUntouched
<1>4. PendingIsOwn'
  BY <1>1 DEF IInv, PendingIsOwn
<1> QED BY <1>1, <1>3, <1>4 DEF IInv, TypeOK, Blocks

(* A statement without lists: the innermost list has met it.               *)
LEMMA Marked ==
  ASSUME IInv, open' = Met, DOMAIN code' = DOMAIN code, curr' = curr, sealed' = sealed
  PROVE  /\ open' \in Seq(Frames)
         /\ \A i \in DOMAIN open' :
              /\ Pending(open'[i]) \subseteq DOMAIN code' /\ open'[i].after # NoBlock
              /\ open'[i].list = "while" => open'[i].test # NoBlock
         /\ PendingIsUntouched' /\ PendingIsOwn'
<1>1. /\ Met \in Seq(Frames) /\ DOMAIN Met = DOMAIN open
      /\ \A i \in DOMAIN open :
           /\ Met[i].list = open[i].list /\ Met[i].else = open[i].else
           /\ Met[i].test = open[i].test /\ Met[i].after = open[i].after
           /\ Pending(Met[i]) = Pending(open[i])
  BY MetMovesNothing DEF IInv, TypeOK
<1>2. ASSUME NEW i \in DOMAIN open
      PROVE  /\ Pending(open[i]) \subseteq DOMAIN code /\ open[i].after # NoBlock
             /\ open[i].list = "while" => open[i].test # NoBlock
             /\ Pending(open[i]) \cap (sealed \cup {curr}) = {} /\ open[i].else # open[i].after
  BY DEF IInv, TypeOK, PendingIsUntouched, Blocks
<1>3. PendingIsUntouched'
  BY <1>1, <1>2 DEF PendingIsUntouched
<1>4. PendingIsOwn'
  BY <1>1 DEF IInv, PendingIsOwn
<1> QED BY <1>1, <1>2, <1>3, <1>4

(* After THEN comes ELSE, in the block made for it.                        *)
LEMMA Turned ==
  ASSUME IInv, open # <<>>, Top.else # NoBlock, DOMAIN code' = DOMAIN code,
         open' = [open EXCEPT ![Len(open)] = Frame("else", NoBlock, NoBlock, Top.after)],
         curr' = Top.else, sealed' = sealed \cup {curr}
  PROVE  /\ open' \in Seq(Frames)
         /\ \A i \in DOMAIN open' :
              /\ Pending(open'[i]) \subseteq DOMAIN code' /\ open'[i].after # NoBlock
              /\ open'[i].list = "while" => open'[i].test # NoBlock
         /\ PendingIsUntouched' /\ PendingIsOwn'
<1> DEFINE f == Frame("else", NoBlock, NoBlock, Top.after)
<1>1. /\ Len(open) \in DOMAIN open /\ Top \in Frames /\ Top = open[Len(open)]
      /\ Pending(Top) \subseteq DOMAIN code /\ Top.after \in Pending(Top) /\ Top.else \in Pending(Top)
  BY TopFacts DEF IInv, Blocks
<1>2. /\ f \in Frames /\ f.list = "else" /\ f.else = NoBlock /\ f.after = Top.after
      /\ Pending(f) = {Top.after} /\ Top.after # NoBlock
  BY <1>1 DEF Frame, Frames, Lists, NoBlock, Pending
<1> HIDE DEF f
<1>3. /\ open' \in Seq(Frames) /\ DOMAIN open' = DOMAIN open /\ open'[Len(open)] = f
      /\ \A i \in DOMAIN open \ {Len(open)} : open'[i] = open[i]
  BY <1>1, <1>2 DEF IInv, TypeOK, f
<1>4. ASSUME NEW i \in DOMAIN open
      PROVE  /\ Pending(open[i]) \subseteq DOMAIN code /\ open[i].after # NoBlock
             /\ open[i].list = "while" => open[i].test # NoBlock
             /\ Pending(open[i]) \cap (sealed \cup {curr}) = {} /\ open[i].else # open[i].after
  BY DEF IInv, TypeOK, PendingIsUntouched, Blocks
<1>5. \A i \in DOMAIN open \ {Len(open)} : Pending(open[i]) \cap Pending(Top) = {}
  BY <1>1 DEF IInv, PendingIsOwn
<1>6. ASSUME NEW i \in DOMAIN open'
      PROVE  /\ Pending(open'[i]) \subseteq DOMAIN code' /\ open'[i].after # NoBlock
             /\ open'[i].list = "while" => open'[i].test # NoBlock
             /\ Pending(open'[i]) \cap (sealed' \cup {curr'}) = {}
             /\ open'[i].else # open'[i].after
  <2>1. CASE i = Len(open)
    BY <1>1, <1>2, <1>3, <1>4, <2>1
  <2>2. CASE i # Len(open)
    BY <1>1, <1>3, <1>4, <1>5, <2>2
  <2> QED BY <2>1, <2>2
<1>7. PendingIsOwn'
  <2>1. ASSUME NEW i \in DOMAIN open', NEW j \in DOMAIN open', i # j
        PROVE  Pending(open'[i]) \cap Pending(open'[j]) = {}
    <3>1. CASE i # Len(open) /\ j # Len(open)
      BY <1>3, <2>1, <3>1 DEF IInv, PendingIsOwn
    <3>2. CASE i = Len(open)
      BY <1>1, <1>2, <1>3, <1>5, <2>1, <3>2
    <3>3. CASE j = Len(open)
      BY <1>1, <1>2, <1>3, <1>5, <2>1, <3>3
    <3> QED BY <3>1, <3>2, <3>3
  <2> QED BY <2>1 DEF PendingIsOwn
<1> QED BY <1>3, <1>6, <1>7 DEF PendingIsUntouched

(* The branch at the end of a list, unless the block has ended already.    *)
LEMMA BranchedTo ==
  ASSUME TypeOK, NEW block \in Blocks, NEW c, c = EmitUnlessTerminated(Br(block))
  PROVE  /\ c \in Code /\ DOMAIN c = DOMAIN code
         /\ \A b : b # block => PredecessorsIn(c, b) = PredecessorsIn(code, b)
<1>1. block \in Nat /\ code \in Code /\ curr \in DOMAIN code
  BY BlockFacts
<1>2. Br(block) \in Instructions /\ Br(block).to = {block}
  BY <1>1, InstIn DEF Br
<1> QED BY <1>1, <1>2, Emitted DEF EmitUnlessTerminated

Keeps(c) == \A block \in sealed : PredecessorsIn(c, block) = PredecessorsIn(code, block)

LEMMA NextIInv ==
  ASSUME IInv, [Next]_vars
  PROVE  IInv' /\ Keeps(code')
<1>1. /\ code \in Code /\ Len(code) \in Nat /\ Blocks = 1 .. Len(code) /\ DOMAIN code = 1 .. Len(code)
      /\ curr \in DOMAIN code /\ sealed \subseteq DOMAIN code /\ NoBlock \notin Blocks
      /\ \A i \in DOMAIN open : open[i] \in Frames
  BY BlockFacts DEF IInv, Blocks, Code
<1>2. \A i \in DOMAIN open : Pending(open[i]) \cap (sealed \cup {curr}) = {}
  BY DEF IInv, PendingIsUntouched
<1>3. ASSUME /\ code' \in Code /\ curr' \in DOMAIN code' /\ sealed' \subseteq DOMAIN code'
             /\ open' \in Seq(Frames)
             /\ \A i \in DOMAIN open' :
                  /\ Pending(open'[i]) \subseteq DOMAIN code' /\ open'[i].after # NoBlock
                  /\ open'[i].list = "while" => open'[i].test # NoBlock
             /\ PendingIsUntouched' /\ PendingIsOwn'
             /\ statements' \in Nat /\ simple' \in BOOLEAN /\ phase' \in {"walking", "done", "aborted"}
      PROVE  IInv'
  BY <1>3 DEF IInv, TypeOK, Blocks, Code
<1>4. statements \in Nat /\ simple \in BOOLEAN /\ phase \in {"walking", "done", "aborted"}
  BY DEF IInv, TypeOK
<1>5. CASE Assignment \/ Return
  <2>1. Store \in Instructions /\ Store.to = {} /\ Ret \in Instructions /\ Ret.to = {}
    BY InstIn DEF Store, Ret
  <2>2. /\ code' \in Code /\ DOMAIN code' = DOMAIN code
        /\ \A b : PredecessorsIn(code', b) = PredecessorsIn(code, b)
    <3>1. PICK inst \in {Store, Ret} : code' = Emit(code, curr, inst)
      BY <1>5 DEF Assignment, Return
    <3>2. inst \in Instructions /\ inst.to = {}
      BY <2>1
    <3> QED BY <1>1, <3>1, <3>2, Emitted
  <2>3. /\ open' = Met /\ curr' = curr /\ sealed' = sealed
        /\ statements' \in Nat /\ simple' \in BOOLEAN /\ phase' = phase
    <3>1. CASE Assignment
      BY <1>4, <3>1 DEF Assignment, Statement
    <3>2. CASE Return
      BY <1>4, <3>2 DEF Return, Statement
    <3> QED BY <1>5, <3>1, <3>2
  <2>4. /\ open' \in Seq(Frames)
        /\ \A i \in DOMAIN open' :
             /\ Pending(open'[i]) \subseteq DOMAIN code' /\ open'[i].after # NoBlock
             /\ open'[i].list = "while" => open'[i].test # NoBlock
        /\ PendingIsUntouched' /\ PendingIsOwn'
    BY <2>2, <2>3, Marked
  <2>5. curr' \in DOMAIN code' /\ sealed' \subseteq DOMAIN code' /\ phase' \in {"walking", "done", "aborted"}
    BY <1>1, <1>4, <2>2, <2>3
  <2>6. IInv'
    BY <1>3, <2>2, <2>3, <2>4, <2>5
  <2> QED BY <2>2, <2>6 DEF Keeps
<1>6. CASE If
  <2>1. PICK hasElse \in BOOLEAN :
          LET if    == Len(code) + 1
              else  == IF hasElse THEN if + 1 ELSE NoBlock
              after == IF hasElse THEN if + 2 ELSE if + 1 IN
          /\ code' = Emit(AddBlocks(IF hasElse THEN 3 ELSE 2), curr, CondBr(if, else))
          /\ open' = Append(Met, Frame("then", else, NoBlock, after))
    BY <1>6 DEF If
  <2> DEFINE n == IF hasElse THEN 3 ELSE 2
             if    == Len(code) + 1
             else  == IF hasElse THEN if + 1 ELSE NoBlock
             after == IF hasElse THEN if + 2 ELSE if + 1
  <2>2. /\ n \in Nat /\ if \in Nat /\ else \in Nat /\ after \in Nat
        /\ if \notin DOMAIN code /\ else \notin DOMAIN code
        /\ else # after /\ after # NoBlock
        /\ {else, NoBlock, after} \ {NoBlock} \subseteq Len(code) + 1 .. Len(code) + n
    BY <1>1 DEF NoBlock
  <2>3. CondBr(if, else) \in Instructions /\ CondBr(if, else).to = {if, else}
    BY <2>2, InstIn DEF CondBr
  <2>4. /\ code' = Emit(AddBlocks(n), curr, CondBr(if, else))
        /\ open' = Append(Met, Frame("then", else, NoBlock, after))
    BY <2>1
  <2> HIDE DEF n, if, else, after
  <2>5. /\ AddBlocks(n) \in Code /\ Len(AddBlocks(n)) = Len(code) + n /\ curr \in DOMAIN AddBlocks(n)
        /\ \A block : PredecessorsIn(AddBlocks(n), block) = PredecessorsIn(code, block)
    <3>1. /\ AddBlocks(n) \in Code /\ Len(AddBlocks(n)) = Len(code) + n
          /\ DOMAIN AddBlocks(n) = 1 .. Len(code) + n
          /\ \A block : PredecessorsIn(AddBlocks(n), block) = PredecessorsIn(code, block)
      BY <1>1, <2>2, AddedBlocks
    <3>2. curr \in 1 .. Len(code) + n
      BY <1>1, <2>2
    <3> QED BY <3>1, <3>2
  <2>6. /\ code' \in Code /\ Len(code') = Len(code) + n
        /\ \A block : block \notin {if, else} => PredecessorsIn(code', block) = PredecessorsIn(code, block)
    BY <2>3, <2>4, <2>5, Emitted
  <2>7. /\ curr' = curr /\ sealed' = sealed \cup {curr}
        /\ statements' \in Nat /\ simple' = FALSE /\ phase' = phase
    BY <1>4, <1>6 DEF If, Statement
  <2>8. Pending(Frame("then", else, NoBlock, after)) \subseteq (Len(code) + 1 .. Len(code) + n) \ {curr'}
    BY <1>1, <2>2, <2>7 DEF Frame, Pending
  <2>9. /\ open' \in Seq(Frames)
        /\ \A i \in DOMAIN open' :
             /\ Pending(open'[i]) \subseteq DOMAIN code' /\ open'[i].after # NoBlock
             /\ open'[i].list = "while" => open'[i].test # NoBlock
        /\ PendingIsUntouched' /\ PendingIsOwn'
    <3>1. "then" \in Lists /\ NoBlock \in Nat /\ "then" # "while"
      BY DEF Lists, NoBlock
    <3> QED BY <2>2, <2>4, <2>6, <2>7, <2>8, <3>1, NewList
  <2>10. DOMAIN code \subseteq DOMAIN code'
    BY <1>1, <2>2, <2>6 DEF Code
  <2>11. IInv'
    BY <1>1, <1>3, <1>4, <2>6, <2>7, <2>9, <2>10
  <2> QED BY <1>1, <2>2, <2>6, <2>11 DEF Keeps
<1>7. CASE While
  <2> DEFINE test  == Len(code) + 1
             body  == test + 1
             after == test + 2
             half  == Emit(AddBlocks(3), curr, Br(test))
  <2>1. /\ test \in Nat /\ body \in Nat /\ after \in Nat
        /\ test \notin DOMAIN code /\ body \notin DOMAIN code /\ after \notin DOMAIN code
        /\ test # NoBlock /\ after # NoBlock /\ body # test /\ body # after
        /\ {NoBlock, test, after} \ {NoBlock} \subseteq Len(code) + 1 .. Len(code) + 3
        /\ test \in 1 .. Len(code) + 3 /\ body \in 1 .. Len(code) + 3
    BY <1>1 DEF NoBlock
  <2>2. /\ code' = Emit(half, test, CondBr(body, after))
        /\ open' = Append(Met, Frame("while", NoBlock, test, after))
        /\ curr' = body /\ sealed' = sealed \cup {curr}
        /\ statements' \in Nat /\ simple' \in BOOLEAN /\ phase' = phase
    BY <1>4, <1>7 DEF While, Statement
  <2>3. /\ Br(test) \in Instructions /\ Br(test).to = {test}
        /\ CondBr(body, after) \in Instructions /\ CondBr(body, after).to = {body, after}
    BY <2>1, InstIn DEF Br, CondBr
  <2> HIDE DEF test, body, after, half
  <2>4. /\ AddBlocks(3) \in Code /\ Len(AddBlocks(3)) = Len(code) + 3
        /\ DOMAIN AddBlocks(3) = 1 .. Len(code) + 3 /\ curr \in DOMAIN AddBlocks(3)
        /\ \A block : PredecessorsIn(AddBlocks(3), block) = PredecessorsIn(code, block)
    <3>1. 3 \in Nat /\ curr \in 1 .. Len(code) + 3
      BY <1>1
    <3> QED BY <1>1, <3>1, AddedBlocks
  <2>5. /\ half \in Code /\ Len(half) = Len(code) + 3 /\ DOMAIN half = 1 .. Len(code) + 3
        /\ \A block : block # test => PredecessorsIn(half, block) = PredecessorsIn(code, block)
    BY <2>3, <2>4, Emitted DEF half
  <2>6. /\ code' \in Code /\ Len(code') = Len(code) + 3
        /\ \A block : block \notin {test, body, after} =>
             PredecessorsIn(code', block) = PredecessorsIn(code, block)
    <3>1. test \in DOMAIN half
      BY <2>1, <2>5
    <3> QED BY <2>2, <2>3, <2>5, <3>1, Emitted
  <2>7. Pending(Frame("while", NoBlock, test, after)) \subseteq (Len(code) + 1 .. Len(code) + 3) \ {curr'}
    BY <2>1, <2>2 DEF Frame, Pending
  <2>8. /\ open' \in Seq(Frames)
        /\ \A i \in DOMAIN open' :
             /\ Pending(open'[i]) \subseteq DOMAIN code' /\ open'[i].after # NoBlock
             /\ open'[i].list = "while" => open'[i].test # NoBlock
        /\ PendingIsUntouched' /\ PendingIsOwn'
    <3>1. "while" \in Lists /\ NoBlock \in Nat /\ 3 \in Nat
      BY DEF Lists, NoBlock
    <3> QED BY <2>1, <2>2, <2>6, <2>7, <3>1, NewList
  <2>9. DOMAIN code \subseteq DOMAIN code' /\ curr' \in DOMAIN code'
    BY <1>1, <2>1, <2>2, <2>6 DEF Code
  <2>10. IInv'
    BY <1>1, <1>3, <1>4, <2>2, <2>6, <2>8, <2>9
  <2> QED BY <1>1, <2>1, <2>6, <2>10 DEF Keeps
<1>8. CASE EndThen \/ EndElse
  <2>1. open # <<>> /\ code' = EmitUnlessTerminated(Br(Top.after)) /\ sealed' = sealed \cup {curr}
        /\ statements' = statements /\ simple' = simple /\ phase' = phase
    BY <1>8 DEF EndThen, EndElse, EndOf
  <2>2. /\ Len(open) \in DOMAIN open /\ Top = open[Len(open)]
        /\ Pending(Top) \subseteq DOMAIN code /\ Top.after \in Pending(Top)
        /\ Top.else # NoBlock => Top.else \in Pending(Top)
    BY <2>1, TopFacts DEF IInv, Blocks
  <2>3. /\ code' \in Code /\ DOMAIN code' = DOMAIN code
        /\ \A b : b # Top.after => PredecessorsIn(code', b) = PredecessorsIn(code, b)
    BY <2>1, <2>2, BranchedTo DEF IInv, Blocks
  <2>4. Keeps(code')
    BY <1>2, <2>2, <2>3 DEF Keeps
  <2>5. CASE open' = Outer /\ curr' = Top.after
    <3>1. /\ open' \in Seq(Frames)
          /\ \A i \in DOMAIN open' :
               /\ Pending(open'[i]) \subseteq DOMAIN code' /\ open'[i].after # NoBlock
               /\ open'[i].list = "while" => open'[i].test # NoBlock
          /\ PendingIsUntouched' /\ PendingIsOwn'
      BY <2>1, <2>2, <2>3, <2>5, Popped
    <3> QED BY <1>1, <1>3, <1>4, <2>1, <2>2, <2>3, <2>4, <2>5, <3>1
  <2>6. CASE /\ Top.else # NoBlock /\ curr' = Top.else
             /\ open' = [open EXCEPT ![Len(open)] = Frame("else", NoBlock, NoBlock, Top.after)]
    <3>1. /\ open' \in Seq(Frames)
          /\ \A i \in DOMAIN open' :
               /\ Pending(open'[i]) \subseteq DOMAIN code' /\ open'[i].after # NoBlock
               /\ open'[i].list = "while" => open'[i].test # NoBlock
          /\ PendingIsUntouched' /\ PendingIsOwn'
      BY <2>1, <2>3, <2>6, Turned
    <3> QED BY <1>1, <1>3, <1>4, <2>1, <2>2, <2>3, <2>4, <2>6, <3>1
  <2> QED BY <1>8, <2>5, <2>6 DEF EndThen, EndElse
<1>9. CASE EndWhile
  <2>1. /\ open # <<>> /\ Top.list = "while" /\ code' = Emit(code, curr, Br(Top.test))
        /\ sealed' = sealed \cup {Top.test, curr} /\ curr' = Top.after /\ open' = Outer
        /\ statements' = statements /\ simple' = simple /\ phase' = phase
    BY <1>9 DEF EndWhile, EndOf
  <2>2. /\ Len(open) \in DOMAIN open /\ Top = open[Len(open)]
        /\ Pending(Top) \subseteq DOMAIN code /\ Top.after \in Pending(Top) /\ Top.test \in Pending(Top)
    BY <2>1, TopFacts DEF IInv, Blocks
  <2>3. Br(Top.test) \in Instructions /\ Br(Top.test).to = {Top.test}
    <3>1. Top.test \in Nat
      BY <1>1, <2>2
    <3> QED BY <3>1, InstIn DEF Br
  <2>4. /\ code' \in Code /\ DOMAIN code' = DOMAIN code
        /\ \A b : b # Top.test => PredecessorsIn(code', b) = PredecessorsIn(code, b)
    <3>1. /\ Emit(code, curr, Br(Top.test)) \in Code
          /\ DOMAIN Emit(code, curr, Br(Top.test)) = DOMAIN code
          /\ \A b : b \notin Br(Top.test).to =>
               PredecessorsIn(Emit(code, curr, Br(Top.test)), b) = PredecessorsIn(code, b)
      BY <1>1, <2>3, Emitted
    <3> QED BY <2>1, <2>3, <3>1
  <2>5. /\ open' \in Seq(Frames)
        /\ \A i \in DOMAIN open' :
             /\ Pending(open'[i]) \subseteq DOMAIN code' /\ open'[i].after # NoBlock
             /\ open'[i].list = "while" => open'[i].test # NoBlock
        /\ PendingIsUntouched' /\ PendingIsOwn'
    BY <2>1, <2>2, <2>4, Popped
  <2>6. IInv'
    BY <1>1, <1>3, <1>4, <2>1, <2>2, <2>4, <2>5
  <2> QED BY <1>2, <2>2, <2>4, <2>6 DEF Keeps
<1>10. CASE EndProcedure
  <2>1. /\ open = <<>> /\ code' = EmitUnlessTerminated(Ret) /\ sealed' = sealed \cup {curr}
        /\ curr' = curr /\ open' = open /\ statements' = statements /\ simple' = simple /\ phase' = "done"
    BY <1>10 DEF EndProcedure
  <2>2. Ret \in Instructions /\ Ret.to = {}
    BY InstIn DEF Ret
  <2>3. /\ code' \in Code /\ DOMAIN code' = DOMAIN code
        /\ \A b : PredecessorsIn(code', b) = PredecessorsIn(code, b)
    BY <1>1, <2>1, <2>2, Emitted DEF EmitUnlessTerminated
  <2>4. open' \in Seq(Frames) /\ DOMAIN open' = {}
    BY <2>1, EmptySeq
  <2>5. PendingIsUntouched' /\ PendingIsOwn'
    BY <2>4 DEF PendingIsUntouched, PendingIsOwn
  <2>6. IInv'
    BY <1>1, <1>3, <1>4, <2>1, <2>3, <2>4, <2>5
  <2> QED BY <2>3, <2>6 DEF Keeps
<1>11. CASE Abort \/ UNCHANGED vars
  <2>1. /\ code' = code /\ sealed' = sealed /\ curr' = curr /\ open' = open
        /\ statements' = statements /\ simple' = simple /\ phase' \in {"walking", "done", "aborted"}
    BY <1>4, <1>11 DEF Abort, vars
  <2>2. IInv'
    BY <2>1 DEF IInv, TypeOK, PendingIsUntouched, PendingIsOwn, Blocks
  <2> QED BY <2>1, <2>2 DEF Keeps
<1> QED BY <1>5, <1>6, <1>7, <1>8, <1>9, <1>10, <1>11 DEF Next

-----------------------------------------------------------------------------
(* A block with instructions is sealed, current, or the test of a WHILE    *)
(* whose body is being walked.                                             *)
FilledIsKnown ==
  \A b \in Blocks : code[b] # <<>> =>
    b \in sealed \/ b = curr \/ \E i \in DOMAIN open : b = open[i].test

OnlyWhileHasATest == \A i \in DOMAIN open : open[i].list # "while" => open[i].test = NoBlock

DoneIsSealed == phase = "done" => open = <<>> /\ curr \in sealed

Accounted == FilledIsKnown /\ OnlyWhileHasATest /\ DoneIsSealed

LEMMA InitAccounted == Init => Accounted
<1> SUFFICES ASSUME Init PROVE Accounted
  OBVIOUS
<1>1. DOMAIN code = {Entry} /\ DOMAIN open = {}
  BY EmptyList DEF Init, Entry
<1> QED BY <1>1 DEF Init, Accounted, FilledIsKnown, OnlyWhileHasATest, DoneIsSealed, Blocks

LEMMA NextAccounted ==
  ASSUME IInv, Accounted, [Next]_vars
  PROVE  Accounted'
<1>1. /\ code \in Code /\ Len(code) \in Nat /\ Blocks = DOMAIN code /\ DOMAIN code = 1 .. Len(code)
      /\ curr \in DOMAIN code
      /\ \A i \in DOMAIN open : open[i] \in Frames
  BY BlockFacts DEF IInv, Blocks, Code
<1>2. /\ \A b \in DOMAIN code : code[b] # <<>> =>
           b \in sealed \/ b = curr \/ \E i \in DOMAIN open : b = open[i].test
      /\ \A i \in DOMAIN open : open[i].list # "while" => open[i].test = NoBlock
  BY DEF Accounted, FilledIsKnown, OnlyWhileHasATest, Blocks
<1>3. /\ Met \in Seq(Frames) /\ DOMAIN Met = DOMAIN open /\ Len(Met) = Len(open)
      /\ \A i \in DOMAIN open : Met[i].list = open[i].list /\ Met[i].test = open[i].test
      /\ DOMAIN open = 1 .. Len(open) /\ Len(open) \in Nat
  BY MetMovesNothing DEF IInv, TypeOK
<1>4. CASE Assignment \/ Return
  <2>1. PICK inst \in {Store, Ret} : code' = Emit(code, curr, inst)
    BY <1>4 DEF Assignment, Return
  <2>2. inst \in Instructions
    BY InstIn DEF Store, Ret
  <2>3. DOMAIN code' = DOMAIN code /\ \A b \in DOMAIN code : b # curr => code'[b] = code[b]
    BY <1>1, <2>1, <2>2, Emitted
  <2>4. open' = Met /\ curr' = curr /\ sealed' = sealed /\ phase' = "walking"
    BY <1>4 DEF Assignment, Return, Statement
  <2> QED BY <1>2, <1>3, <2>3, <2>4 DEF Accounted, FilledIsKnown, OnlyWhileHasATest, DoneIsSealed, Blocks
<1>5. ASSUME NEW f \in Frames, open' = Append(Met, f), f.list # "while" => f.test = NoBlock
      PROVE  /\ OnlyWhileHasATest'
             /\ \E i \in DOMAIN open' : open'[i].test = f.test
             /\ \A i \in DOMAIN open : i \in DOMAIN open' /\ open'[i].test = open[i].test
  <2>1. /\ DOMAIN open' = DOMAIN open \cup {Len(open) + 1} /\ open'[Len(open) + 1] = f
        /\ \A i \in DOMAIN open : open'[i] = Met[i]
    BY <1>3, <1>5
  <2>2. OnlyWhileHasATest'
    BY <1>2, <1>3, <1>5, <2>1 DEF OnlyWhileHasATest
  <2> QED BY <1>3, <2>1, <2>2
<1>6. CASE If
  <2>1. PICK n \in {2, 3}, else \in Nat, if \in Nat, after \in Nat :
          /\ code' = Emit(AddBlocks(n), curr, CondBr(if, else))
          /\ open' = Append(Met, Frame("then", else, NoBlock, after))
    <3>1. PICK hasElse \in BOOLEAN :
          LET if    == Len(code) + 1
              else  == IF hasElse THEN if + 1 ELSE NoBlock
              after == IF hasElse THEN if + 2 ELSE if + 1 IN
          /\ code' = Emit(AddBlocks(IF hasElse THEN 3 ELSE 2), curr, CondBr(if, else))
          /\ open' = Append(Met, Frame("then", else, NoBlock, after))
      BY <1>6 DEF If
    <3>2. CASE hasElse
      <4>1. Len(code) + 1 \in Nat /\ Len(code) + 1 + 1 \in Nat /\ Len(code) + 1 + 2 \in Nat
        BY <1>1
      <4> QED BY <3>1, <3>2, <4>1
    <3>3. CASE ~hasElse
      <4>1. Len(code) + 1 \in Nat /\ Len(code) + 1 + 1 \in Nat /\ NoBlock \in Nat
        BY <1>1 DEF NoBlock
      <4> QED BY <3>1, <3>3, <4>1
    <3> QED BY <3>2, <3>3
  <2>2. /\ Frame("then", else, NoBlock, after) \in Frames
        /\ Frame("then", else, NoBlock, after).test = NoBlock
    BY DEF Frame, Frames, Lists, NoBlock
  <2>3. CondBr(if, else) \in Instructions
    BY InstIn DEF CondBr
  <2>4. /\ AddBlocks(n) \in Code /\ DOMAIN AddBlocks(n) = 1 .. Len(code) + n
        /\ \A b \in DOMAIN code : AddBlocks(n)[b] = code[b]
        /\ \A b \in DOMAIN AddBlocks(n) \ DOMAIN code : AddBlocks(n)[b] = <<>>
    BY <1>1, AddedBlocks
  <2>5. curr \in DOMAIN AddBlocks(n)
    BY <1>1, <2>4
  <2>6. /\ DOMAIN code' = DOMAIN AddBlocks(n)
        /\ \A b \in DOMAIN AddBlocks(n) : b # curr => code'[b] = AddBlocks(n)[b]
    BY <2>1, <2>3, <2>4, <2>5, Emitted
  <2>7. curr' = curr /\ sealed' = sealed \cup {curr} /\ phase' = "walking"
    BY <1>6 DEF If, Statement
  <2>8. /\ OnlyWhileHasATest'
        /\ \A i \in DOMAIN open : i \in DOMAIN open' /\ open'[i].test = open[i].test
    BY <1>5, <2>1, <2>2
  <2>9. FilledIsKnown'
    <3>1. ASSUME NEW b \in DOMAIN code', code'[b] # <<>>, b # curr
          PROVE  b \in sealed \/ \E i \in DOMAIN open' : b = open'[i].test
      <4>1. b \in DOMAIN code /\ code[b] # <<>>
        BY <2>4, <2>6, <3>1
      <4> QED BY <1>2, <2>8, <3>1, <4>1
    <3> QED BY <2>7, <3>1 DEF FilledIsKnown, Blocks
  <2> QED BY <2>7, <2>8, <2>9 DEF Accounted, DoneIsSealed
<1>7. CASE While
  <2> DEFINE test  == Len(code) + 1
             body  == test + 1
             after == test + 2
             half  == Emit(AddBlocks(3), curr, Br(test))
  <2>1. /\ test \in Nat /\ body \in Nat /\ after \in Nat /\ test \in 1 .. Len(code) + 3
        /\ 3 \in Nat /\ curr \in 1 .. Len(code) + 3
    BY <1>1
  <2>2. /\ code' = Emit(half, test, CondBr(body, after))
        /\ open' = Append(Met, Frame("while", NoBlock, test, after))
        /\ curr' = body /\ sealed' = sealed \cup {curr} /\ phase' = "walking"
    BY <1>7 DEF While, Statement
  <2>3. Br(test) \in Instructions /\ CondBr(body, after) \in Instructions
    BY <2>1, InstIn DEF Br, CondBr
  <2>4. /\ Frame("while", NoBlock, test, after) \in Frames
        /\ Frame("while", NoBlock, test, after).test = test
        /\ Frame("while", NoBlock, test, after).list = "while"
    BY <2>1 DEF Frame, Frames, Lists, NoBlock
  <2> HIDE DEF test, body, after, half
  <2>5. /\ AddBlocks(3) \in Code /\ DOMAIN AddBlocks(3) = 1 .. Len(code) + 3
        /\ \A b \in DOMAIN code : AddBlocks(3)[b] = code[b]
        /\ \A b \in DOMAIN AddBlocks(3) \ DOMAIN code : AddBlocks(3)[b] = <<>>
    BY <1>1, <2>1, AddedBlocks
  <2>6. /\ half \in Code /\ DOMAIN half = DOMAIN AddBlocks(3)
        /\ \A b \in DOMAIN half : b # curr => half[b] = AddBlocks(3)[b]
    <3>1. curr \in DOMAIN AddBlocks(3)
      BY <2>1, <2>5
    <3> QED BY <2>3, <2>5, <3>1, Emitted DEF half
  <2>7. /\ DOMAIN code' = DOMAIN half
        /\ \A b \in DOMAIN half : b # test => code'[b] = half[b]
    <3>1. test \in DOMAIN half
      BY <2>1, <2>5, <2>6
    <3> QED BY <2>2, <2>3, <2>6, <3>1, Emitted
  <2>8. /\ OnlyWhileHasATest'
        /\ \E i \in DOMAIN open' : open'[i].test = test
        /\ \A i \in DOMAIN open : i \in DOMAIN open' /\ open'[i].test = open[i].test
    BY <1>5, <2>2, <2>4
  <2>9. FilledIsKnown'
    <3>1. ASSUME NEW b \in DOMAIN code', code'[b] # <<>>, b # curr, b # test
          PROVE  b \in sealed \/ \E i \in DOMAIN open' : b = open'[i].test
      <4>1. b \in DOMAIN code /\ code[b] # <<>>
        BY <2>5, <2>6, <2>7, <3>1
      <4> QED BY <1>2, <2>8, <3>1, <4>1
    <3> QED BY <2>2, <2>8, <3>1 DEF FilledIsKnown, Blocks
  <2> QED BY <2>2, <2>8, <2>9 DEF Accounted, DoneIsSealed
<1>8. CASE EndThen \/ EndElse \/ EndWhile
  <2>1. /\ open # <<>> /\ sealed \cup {curr} \subseteq sealed' /\ phase' = "walking"
        /\ Top.list = "while" => Top.test \in sealed'
    BY <1>8 DEF EndThen, EndElse, EndWhile, EndOf
  <2>2. /\ Len(open) \in DOMAIN open /\ Top = open[Len(open)] /\ Top \in Frames
        /\ Pending(Top) \subseteq DOMAIN code /\ Top.after \in Pending(Top)
        /\ Top.list = "while" => Top.test \in Pending(Top)
        /\ DOMAIN Outer = DOMAIN open \ {Len(open)}
        /\ \A i \in DOMAIN Outer : Outer[i] = open[i]
    BY <2>1, TopFacts DEF IInv, Blocks
  <2>3. /\ Top.after \in Nat /\ Top.list = "while" => Top.test \in Nat
        /\ Br(Top.after) \in Instructions
        /\ Top.list = "while" => Br(Top.test) \in Instructions
    BY <1>1, <2>2, InstIn DEF Br
  <2>4. DOMAIN code' = DOMAIN code /\ \A b \in DOMAIN code : b # curr => code'[b] = code[b]
    <3>1. CASE EndThen \/ EndElse
      <4>1. code' = code \/ code' = Emit(code, curr, Br(Top.after))
        BY <3>1 DEF EndThen, EndElse, EmitUnlessTerminated
      <4>2. code' = Emit(code, curr, Br(Top.after)) =>
              DOMAIN code' = DOMAIN code /\ \A b \in DOMAIN code : b # curr => code'[b] = code[b]
        BY DEF Emit
      <4> QED BY <4>1, <4>2
    <3>2. CASE EndWhile
      <4>1. code' = Emit(code, curr, Br(Top.test))
        BY <3>2 DEF EndWhile, EndOf
      <4> QED BY <4>1 DEF Emit
    <3> QED BY <1>8, <3>1, <3>2
  <2>5. CASE open' = Outer
    <3>1. OnlyWhileHasATest'
      BY <1>2, <2>2, <2>5 DEF OnlyWhileHasATest
    <3>2. ASSUME NEW b \in DOMAIN code', code'[b] # <<>>, b \notin sealed'
          PROVE  \E i \in DOMAIN open' : b = open'[i].test
      <4>1. b \in DOMAIN code /\ code[b] # <<>> /\ b # curr /\ b \notin sealed
        BY <2>1, <2>4, <3>2
      <4>2. PICK i \in DOMAIN open : b = open[i].test
        BY <1>2, <4>1
      <4>3. i # Len(open)
        BY <1>1, <1>2, <2>1, <2>2, <3>2, <4>1, <4>2 DEF NoBlock
      <4> QED BY <2>2, <2>5, <4>2, <4>3
    <3> QED BY <2>1, <3>1, <3>2 DEF Accounted, FilledIsKnown, DoneIsSealed, Blocks
  <2>6. CASE Top.list = "then" /\ open' = [open EXCEPT ![Len(open)] = Frame("else", NoBlock, NoBlock, Top.after)]
    <3>1. /\ DOMAIN open' = DOMAIN open /\ open'[Len(open)].test = NoBlock
          /\ \A i \in DOMAIN open : i # Len(open) => open'[i] = open[i]
      BY <2>2, <2>6 DEF Frame
    <3>2. OnlyWhileHasATest'
      BY <1>2, <3>1 DEF OnlyWhileHasATest
    <3>3. ASSUME NEW b \in DOMAIN code', code'[b] # <<>>, b \notin sealed'
          PROVE  \E i \in DOMAIN open' : b = open'[i].test
      <4>1. b \in DOMAIN code /\ code[b] # <<>> /\ b # curr /\ b \notin sealed
        BY <2>1, <2>4, <3>3
      <4>2. PICK i \in DOMAIN open : b = open[i].test
        BY <1>2, <4>1
      <4>3. i # Len(open)
        BY <1>1, <1>2, <2>2, <2>6, <4>1, <4>2 DEF NoBlock
      <4> QED BY <3>1, <4>2, <4>3
    <3> QED BY <2>1, <3>2, <3>3 DEF Accounted, FilledIsKnown, DoneIsSealed, Blocks
  <2> QED BY <1>8, <2>5, <2>6 DEF EndThen, EndElse, EndWhile, EndOf
<1>9. CASE EndProcedure
  <2>1. Ret \in Instructions
    BY InstIn DEF Ret
  <2>2. DOMAIN code' = DOMAIN code /\ \A b \in DOMAIN code : b # curr => code'[b] = code[b]
    BY <1>1, <1>9, <2>1, Emitted DEF EndProcedure, EmitUnlessTerminated
  <2>3. open = <<>> /\ open' = open /\ curr' = curr /\ sealed' = sealed \cup {curr}
    BY <1>9 DEF EndProcedure
  <2> QED BY <1>2, <2>2, <2>3 DEF Accounted, FilledIsKnown, OnlyWhileHasATest, DoneIsSealed, Blocks
<1>10. CASE Abort
  BY <1>10 DEF Abort, Accounted, FilledIsKnown, OnlyWhileHasATest, DoneIsSealed, Blocks
<1>11. CASE UNCHANGED vars
  BY <1>11 DEF vars, Accounted, FilledIsKnown, OnlyWhileHasATest, DoneIsSealed, Blocks
<1> QED BY <1>4, <1>6, <1>7, <1>8, <1>9, <1>10, <1>11 DEF Next

(* When run() ends, every block it wrote instructions to is sealed         *)
(* (CGProcedure.cc:30), for any number of statements nested to any depth.  *)
THEOREM EveryFilledBlockIsSealed == Spec => []FilledBlocksAreSealed
<1>1. IInv /\ Accounted => FilledBlocksAreSealed
  <2> SUFFICES ASSUME IInv, Accounted, phase = "done" PROVE \A b \in Blocks : code[b] # <<>> => b \in sealed
    BY DEF FilledBlocksAreSealed
  <2>1. open = <<>> /\ curr \in sealed /\ DOMAIN open = {}
    BY EmptyList DEF Accounted, DoneIsSealed
  <2> QED BY <2>1 DEF Accounted, FilledIsKnown
<1>2. IInv /\ Accounted /\ [Next]_vars => (IInv /\ Accounted)'
  BY NextIInv, NextAccounted
<1> QED BY <1>1, <1>2, InitIInv, InitAccounted, PTL DEF Spec

(* The state of the walk over a procedure's statements is well formed at   *)
(* any size of the procedure (CGProcedure.cc).                             *)
THEOREM TypeCorrect == Spec => []TypeOK
<1>1. IInv => TypeOK
  BY DEF IInv
<1>2. IInv /\ [Next]_vars => IInv'
  BY NextIInv
<1> QED BY <1>1, <1>2, InitIInv, PTL DEF Spec

(* No block gets a predecessor after sealBlock was called for it           *)
(* (CGProcedure.h:36), for any number of statements nested to any depth.   *)
THEOREM SealedInTime == Spec => SealedBlocksGetNoPredecessor
<1> DEFINE Sealed == \A block \in sealed : Predecessors(block)' = Predecessors(block)
<1>1. IInv /\ [Next]_vars => IInv'
  BY NextIInv
<1>2. IInv /\ [Next]_vars => [Sealed]_vars
  BY NextIInv DEF Keeps, Predecessors
<1>3. [][Sealed]_vars <=> SealedBlocksGetNoPredecessor
  BY DEF SealedBlocksGetNoPredecessor
<1> HIDE DEF Sealed
<1> QED BY <1>1, <1>2, <1>3, InitIInv, PTL DEF Spec
-----------------------------------------------------------------------------
(* The graph of the blocks, for code c, open statements o and the current  *)
(* block k.                                                                *)
Last(c, b)     == c[b][Len(c[b])]
Straight(c, b) == \A i \in 1 .. Len(c[b]) - 1 : c[b][i].op = "store"
GoesOn(c, b)   == c[b] = <<>> \/ Last(c, b).op = "store"
Leaves(c, b)   == c[b] # <<>> /\ Last(c, b).op \in {"br", "condbr"}

LEMMA EmittedAt ==
  ASSUME NEW c \in Code, NEW b \in DOMAIN c, NEW inst \in Instructions
  PROVE  LET d == Emit(c, b, inst)
         IN  /\ d \in Code /\ DOMAIN d = DOMAIN c /\ \A o \in DOMAIN c : o # b => d[o] = c[o]
             /\ d[b] # <<>> /\ Last(d, b) = inst
             /\ Straight(c, b) /\ GoesOn(c, b) => Straight(d, b)
             /\ \A block : PredecessorsIn(c, block) \subseteq PredecessorsIn(d, block)
             /\ \A block \in inst.to : b \in PredecessorsIn(d, block)
<1> DEFINE d == Emit(c, b, inst)
<1>1. c[b] \in Seq(Instructions) /\ Len(c[b]) \in Nat
  BY ElementOfSeq DEF Code
<1>2. d \in Code /\ DOMAIN d = DOMAIN c /\ \A o \in DOMAIN c : o # b => d[o] = c[o]
  BY Emitted
<1>3. d[b] = Append(c[b], inst)
  BY DEF Emit
<1>4. /\ Len(d[b]) = Len(c[b]) + 1 /\ d[b] # <<>> /\ DOMAIN d[b] = DOMAIN c[b] \cup {Len(c[b]) + 1}
      /\ d[b][Len(c[b]) + 1] = inst /\ Len(c[b]) + 1 \notin DOMAIN c[b]
      /\ \A i \in 1 .. Len(c[b]) : d[b][i] = c[b][i] /\ i \in DOMAIN c[b]
  BY <1>1, <1>3
<1>a. DOMAIN c[b] = 1 .. Len(c[b])
  BY <1>1
<1> HIDE DEF d
<1>5. Last(d, b) = inst
  BY <1>4 DEF Last
<1>6. ASSUME Straight(c, b), GoesOn(c, b) PROVE Straight(d, b)
  <2>. SUFFICES ASSUME NEW i \in 1 .. Len(c[b]) PROVE d[b][i].op = "store"
    BY <1>1, <1>4 DEF Straight
  <2>1. CASE i = Len(c[b])
    <3>1. c[b] # <<>>
      BY <1>1, <2>1
    <3>. QED
      BY <1>4, <1>6, <2>1, <3>1 DEF GoesOn, Last
  <2>2. CASE i # Len(c[b])
    <3>1. i \in 1 .. Len(c[b]) - 1
      BY <1>1, <2>2
    <3>. QED
      BY <1>4, <1>6, <3>1 DEF Straight
  <2>. QED
    BY <2>1, <2>2
<1>7. ASSUME NEW block, NEW p \in PredecessorsIn(c, block)
      PROVE  p \in PredecessorsIn(d, block)
  BY <1>2, <1>4, <1>a DEF PredecessorsIn
<1>8. ASSUME NEW block \in inst.to
      PROVE  b \in PredecessorsIn(d, block)
  BY <1>2, <1>4 DEF PredecessorsIn
<1>. QED
  BY <1>2, <1>4, <1>5, <1>6, <1>7, <1>8 DEF d

(* A procedure with no other statements than WHILEs open: each block but   *)
(* the current one and those after the WHILEs has branched away; each but  *)
(* the entry is entered from an earlier one; and whoever can be left       *)
(* without an end leads to the current block or one of those after.        *)
IsAfter(o, b) == \E i \in DOMAIN o : b = o[i].after

OnlyLoops(c, o) ==
  \A i \in DOMAIN o : /\ o[i].list = "while" /\ o[i].after \in DOMAIN c /\ c[o[i].after] = <<>>
                      /\ o[i].test \in PredecessorsIn(c, o[i].after)
EndInJumps(c, o, k) == \A b \in DOMAIN c : Straight(c, b) /\ (b = k \/ IsAfter(o, b) \/ Leaves(c, b))
EnteredEarlier(c) == \A b \in DOMAIN c : b # Entry => \E p \in PredecessorsIn(c, b) : p < b
Closed(c, bs) == \A b \in bs : PredecessorsIn(c, b) \subseteq bs
LeadsTo(c, o, k) ==
  \A bs \in SUBSET DOMAIN c :
    Closed(c, bs) /\ k \in bs /\ (\A i \in DOMAIN o : o[i].after \in bs) => bs = DOMAIN c

Loops(c, o, k) == OnlyLoops(c, o) /\ EndInJumps(c, o, k) /\ EnteredEarlier(c) /\ LeadsTo(c, o, k)

LEMMA LoopsKept ==
  ASSUME NEW c, NEW o, NEW p, NEW k, Loops(c, o, k), DOMAIN p = DOMAIN o,
         \A i \in DOMAIN o : p[i].list = o[i].list /\ p[i].test = o[i].test /\ p[i].after = o[i].after
  PROVE  Loops(c, p, k)
<1>1. OnlyLoops(c, p)
  BY DEF Loops, OnlyLoops
<1>2. \A b : IsAfter(o, b) <=> IsAfter(p, b)
  BY DEF IsAfter
<1>3. EndInJumps(c, p, k)
  BY <1>2 DEF Loops, EndInJumps
<1>4. LeadsTo(c, p, k)
  BY DEF Loops, LeadsTo
<1>. QED
  BY <1>1, <1>3, <1>4 DEF Loops

(* Closed sets, when there are more predecessors or more blocks.           *)
LEMMA ClosedBefore ==
  ASSUME NEW c, NEW d, DOMAIN c \subseteq DOMAIN d,
         \A b : PredecessorsIn(c, b) \subseteq PredecessorsIn(d, b),
         NEW bs, bs \subseteq DOMAIN d, Closed(d, bs)
  PROVE  Closed(c, bs \cap DOMAIN c)
BY DEF Closed, PredecessorsIn

LEMMA LoopsStore ==
  ASSUME NEW c \in Code, NEW o, NEW k \in DOMAIN c, Loops(c, o, k), ~IsAfter(o, k), GoesOn(c, k),
         NEW inst \in Instructions
  PROVE  Loops(Emit(c, k, inst), o, k)
<1> DEFINE d == Emit(c, k, inst)
<1>1. /\ d \in Code /\ DOMAIN d = DOMAIN c /\ \A b \in DOMAIN c : b # k => d[b] = c[b]
      /\ Straight(c, k) /\ GoesOn(c, k) => Straight(d, k)
      /\ \A block : PredecessorsIn(c, block) \subseteq PredecessorsIn(d, block)
  BY EmittedAt
<1> HIDE DEF d
<1>2. OnlyLoops(d, o)
  <2>1. \A i \in DOMAIN o : o[i].after # k
    BY DEF IsAfter
  <2>. QED
    BY <1>1, <2>1 DEF Loops, OnlyLoops
<1>3. EndInJumps(d, o, k)
  <2>1. ASSUME NEW b \in DOMAIN c, b # k PROVE Straight(d, b) /\ (IsAfter(o, b) \/ Leaves(d, b))
    BY <1>1, <2>1 DEF Loops, EndInJumps, Straight, Leaves, Last
  <2>2. Straight(d, k)
    BY <1>1 DEF Loops, EndInJumps
  <2>. QED
    BY <1>1, <2>1, <2>2 DEF EndInJumps
<1>4. EnteredEarlier(d)
  BY <1>1 DEF Loops, EnteredEarlier
<1>5. LeadsTo(d, o, k)
  <2>. SUFFICES ASSUME NEW bs \in SUBSET DOMAIN d, Closed(d, bs), k \in bs,
                       \A i \in DOMAIN o : o[i].after \in bs
                PROVE  bs = DOMAIN d
    BY DEF LeadsTo
  <2>1. Closed(c, bs) /\ bs \in SUBSET DOMAIN c
    BY <1>1 DEF Closed
  <2>. QED
    BY <1>1, <2>1 DEF Loops, LeadsTo
<1>. QED
  BY <1>2, <1>3, <1>4, <1>5 DEF Loops, d

(* A WHILE begins: three blocks are new.                                   *)
LEMMA LoopsWhile ==
  ASSUME NEW c \in Code, NEW o \in Seq(Frames), NEW k \in DOMAIN c, Loops(c, o, k), ~IsAfter(o, k), GoesOn(c, k),
         NEW d, NEW test, NEW body, NEW after, test = Len(c) + 1, body = Len(c) + 2, after = Len(c) + 3,
         d = Emit(Emit(c \o [i \in 1 .. 3 |-> <<>>], k, Br(test)), test, CondBr(body, after)),
         NEW f, f \in Frames, f.list = "while", f.test = test, f.after = after
  PROVE  Loops(d, Append(o, f), body) /\ d[body] = <<>>
<1> DEFINE e == c \o [i \in 1 .. 3 |-> <<>>]
           g == Emit(e, k, Br(test))
           p == Append(o, f)
<1>1. /\ Len(c) \in Nat /\ DOMAIN c = 1 .. Len(c) /\ DOMAIN o = 1 .. Len(o) /\ Len(o) \in Nat
      /\ test \in Nat /\ body \in Nat /\ after \in Nat
  BY DEF Code
<1>2. /\ e \in Code /\ DOMAIN e = 1 .. Len(c) + 3
      /\ \A b \in DOMAIN c : e[b] = c[b]
      /\ \A b \in DOMAIN e \ DOMAIN c : e[b] = <<>>
  <2> DEFINE n == [i \in 1 .. 3 |-> <<>>]
  <2>1. n \in Code /\ Len(n) = 3 /\ \A i \in 1 .. 3 : n[i] = <<>>
    BY EmptyList DEF Code
  <2> HIDE DEF n
  <2>2. /\ c \o n \in Code /\ Len(c \o n) = Len(c) + 3
        /\ \A i \in 1 .. Len(c) + 3 : (c \o n)[i] = IF i <= Len(c) THEN c[i] ELSE n[i - Len(c)]
    <3>1. /\ c \o n \in Code /\ Len(c \o n) = Len(c) + Len(n)
          /\ \A i \in 1 .. Len(c) + Len(n) : (c \o n)[i] = IF i <= Len(c) THEN c[i] ELSE n[i - Len(c)]
      <4>1. c \in Seq(Seq(Instructions)) /\ n \in Seq(Seq(Instructions))
        BY <2>1 DEF Code
      <4>. QED
        BY <4>1, ConcatProperties DEF Code
    <3>. QED
      BY <2>1, <3>1
  <2>3. DOMAIN (c \o n) = 1 .. Len(c) + 3
    BY <1>1, <2>2 DEF Code
  <2>4. \A b \in 1 .. Len(c) + 3 : b \notin 1 .. Len(c) => b - Len(c) \in 1 .. 3 /\ ~(b <= Len(c))
    BY <1>1
  <2>. QED
    BY <1>1, <2>1, <2>2, <2>3, <2>4 DEF n
<1>3. /\ DOMAIN e = DOMAIN c \cup {test, body, after}
      /\ test \notin DOMAIN c /\ body \notin DOMAIN c /\ after \notin DOMAIN c
      /\ test # body /\ test # after /\ body # after /\ test # k
      /\ test # Entry /\ body # Entry /\ after # Entry
  BY <1>1, <1>2 DEF Entry
<1>4. /\ Br(test) \in Instructions /\ Br(test).to = {test} /\ Br(test).op = "br"
      /\ CondBr(body, after) \in Instructions /\ CondBr(body, after).to = {body, after}
      /\ CondBr(body, after).op = "condbr"
  BY <1>1 DEF Br, CondBr, Inst, Instructions
<1> HIDE DEF e
<1>5. /\ g \in Code /\ DOMAIN g = DOMAIN e /\ \A b \in DOMAIN e : b # k => g[b] = e[b]
      /\ g[k] # <<>> /\ Last(g, k) = Br(test)
      /\ Straight(e, k) /\ GoesOn(e, k) => Straight(g, k)
      /\ \A block : PredecessorsIn(e, block) \subseteq PredecessorsIn(g, block)
      /\ \A block \in Br(test).to : k \in PredecessorsIn(g, block)
  <2>1. k \in DOMAIN e
    BY <1>3
  <2>. QED
    BY <1>2, <1>4, <2>1, EmittedAt
<1> HIDE DEF g
<1>6. /\ d \in Code /\ DOMAIN d = DOMAIN g /\ \A b \in DOMAIN g : b # test => d[b] = g[b]
      /\ d[test] # <<>> /\ Last(d, test) = CondBr(body, after)
      /\ Straight(g, test) /\ GoesOn(g, test) => Straight(d, test)
      /\ \A block : PredecessorsIn(g, block) \subseteq PredecessorsIn(d, block)
      /\ \A block \in CondBr(body, after).to : test \in PredecessorsIn(d, block)
  <2>1. test \in DOMAIN g /\ d = Emit(g, test, CondBr(body, after))
    BY <1>3, <1>5 DEF e, g
  <2>. QED
    BY <1>4, <1>5, <2>1, EmittedAt
<1>7. DOMAIN d = DOMAIN c \cup {test, body, after}
  BY <1>3, <1>5, <1>6
<1>8. \A b : PredecessorsIn(c, b) \subseteq PredecessorsIn(d, b)
  <2>1. \A b : PredecessorsIn(c, b) \subseteq PredecessorsIn(e, b)
    BY <1>2, <1>3 DEF PredecessorsIn
  <2>. QED
    BY <1>5, <1>6, <2>1
<1>9. k \in PredecessorsIn(d, test) /\ test \in PredecessorsIn(d, body) /\ test \in PredecessorsIn(d, after)
  BY <1>4, <1>5, <1>6
<1>10. \A b \in DOMAIN c : b # k => d[b] = c[b]
  BY <1>2, <1>3, <1>5, <1>6
<1>11. d[body] = <<>> /\ d[after] = <<>>
  BY <1>2, <1>3, <1>5, <1>6
<1>12. Straight(d, k) /\ Leaves(d, k)
  <2>1. e[k] = c[k] /\ d[k] = g[k]
    BY <1>2, <1>3, <1>5, <1>6
  <2>2. Straight(g, k)
    BY <1>5, <2>1 DEF Loops, EndInJumps, Straight, GoesOn, Last
  <2>. QED
    BY <1>4, <1>5, <2>1, <2>2 DEF Straight, Leaves, Last
<1>13. Straight(d, test) /\ Leaves(d, test)
  <2>1. g[test] = <<>>
    BY <1>2, <1>3, <1>5
  <2>2. Straight(g, test) /\ GoesOn(g, test)
    BY <2>1, EmptyList DEF Straight, GoesOn
  <2>. QED
    BY <1>4, <1>6, <2>2 DEF Leaves
<1>14. /\ DOMAIN p = DOMAIN o \cup {Len(o) + 1} /\ p[Len(o) + 1] = f
       /\ \A i \in DOMAIN o : p[i] = o[i]
  BY <1>1
<1> HIDE DEF p
<1>15. \A b : IsAfter(p, b) <=> IsAfter(o, b) \/ b = after
  BY <1>1, <1>14 DEF IsAfter
<1>16. OnlyLoops(d, p)
  <2>1. ASSUME NEW i \in DOMAIN o
        PROVE  /\ o[i].list = "while" /\ o[i].after \in DOMAIN d /\ d[o[i].after] = <<>>
               /\ o[i].test \in PredecessorsIn(d, o[i].after)
    <3>1. o[i].after # k
      BY DEF IsAfter
    <3>. QED
      BY <1>7, <1>8, <1>10, <3>1 DEF Loops, OnlyLoops
  <2>. QED
    BY <1>7, <1>9, <1>11, <1>14, <2>1 DEF OnlyLoops
<1>17. EndInJumps(d, p, body)
  <2>1. ASSUME NEW b \in DOMAIN c, b # k PROVE Straight(d, b) /\ (IsAfter(p, b) \/ Leaves(d, b))
    BY <1>10, <1>15, <2>1 DEF Loops, EndInJumps, Straight, Leaves, Last
  <2>2. Straight(d, body) /\ Straight(d, after)
    BY <1>11, EmptyList DEF Straight
  <2>. QED
    BY <1>7, <1>12, <1>13, <1>15, <2>1, <2>2 DEF EndInJumps
<1>18. EnteredEarlier(d)
  <2>1. k < test /\ test < body /\ test < after
    BY <1>1
  <2>. QED
    BY <1>7, <1>8, <1>9, <2>1 DEF Loops, EnteredEarlier
<1>19. LeadsTo(d, p, body)
  <2>. SUFFICES ASSUME NEW bs \in SUBSET DOMAIN d, Closed(d, bs), body \in bs,
                       \A i \in DOMAIN p : p[i].after \in bs
                PROVE  bs = DOMAIN d
    BY DEF LeadsTo
  <2>1. after \in bs /\ test \in bs /\ k \in bs
    BY <1>9, <1>14 DEF Closed
  <2>2. Closed(c, bs \cap DOMAIN c)
    BY <1>7, <1>8, ClosedBefore
  <2>3. \A i \in DOMAIN o : o[i].after \in bs \cap DOMAIN c
    BY <1>14 DEF Loops, OnlyLoops
  <2>4. bs \cap DOMAIN c = DOMAIN c
    BY <2>1, <2>2, <2>3 DEF Loops, LeadsTo
  <2>. QED
    BY <1>7, <2>1, <2>4
<1>. QED
  BY <1>11, <1>16, <1>17, <1>18, <1>19 DEF Loops, p

(* A WHILE ends: the block branches back to the test.                      *)
LEMMA LoopsEnd ==
  ASSUME NEW c \in Code, NEW o \in Seq(Frames), o # <<>>, NEW k \in DOMAIN c, Loops(c, o, k), ~IsAfter(o, k), GoesOn(c, k),
         \A i, j \in DOMAIN o : i # j => o[i].after # o[j].after,
         NEW d, d = Emit(c, k, Br(o[Len(o)].test)), NEW p, p = SubSeq(o, 1, Len(o) - 1),
         o[Len(o)].test \in Nat
  PROVE  Loops(d, p, o[Len(o)].after) /\ d[o[Len(o)].after] = <<>>
<1> DEFINE n == Len(o)
           test == o[n].test
           after == o[n].after
<1>1. /\ n \in Nat \ {0} /\ DOMAIN o = 1 .. n /\ n \in DOMAIN o
      /\ DOMAIN p = 1 .. n - 1 /\ \A i \in 1 .. n - 1 : p[i] = o[i]
  BY StackParts
<1>2. DOMAIN p = DOMAIN o \ {n} /\ \A i \in DOMAIN p : p[i] = o[i]
  BY <1>1
<1>3. Br(test) \in Instructions /\ Br(test).to = {test} /\ Br(test).op = "br"
  BY DEF Br, Inst, Instructions
<1> HIDE DEF test, after, n
<1>4. /\ d \in Code /\ DOMAIN d = DOMAIN c /\ \A b \in DOMAIN c : b # k => d[b] = c[b]
      /\ d[k] # <<>> /\ Last(d, k) = Br(test)
      /\ Straight(c, k) /\ GoesOn(c, k) => Straight(d, k)
      /\ \A block : PredecessorsIn(c, block) \subseteq PredecessorsIn(d, block)
      /\ \A block \in Br(test).to : k \in PredecessorsIn(d, block)
  <2>1. d = Emit(c, k, Br(test))
    BY DEF test, n
  <2>. QED
    BY <1>3, <2>1, EmittedAt
<1>5. /\ after \in DOMAIN c /\ c[after] = <<>> /\ test \in PredecessorsIn(c, after) /\ after # k
  BY <1>1 DEF Loops, OnlyLoops, IsAfter, test, after, n
<1>6. d[after] = <<>> /\ test \in PredecessorsIn(d, after) /\ k \in PredecessorsIn(d, test)
  BY <1>3, <1>4, <1>5
<1>7. \A b : IsAfter(o, b) <=> IsAfter(p, b) \/ b = after
  BY <1>1, <1>2 DEF IsAfter, after, n
<1>8. OnlyLoops(d, p)
  <2>1. \A i \in DOMAIN o : o[i].after # k
    BY DEF IsAfter
  <2>. QED
    BY <1>2, <1>4, <2>1 DEF Loops, OnlyLoops
<1>9. EndInJumps(d, p, after)
  <2>1. ASSUME NEW b \in DOMAIN c, b # k
        PROVE  Straight(d, b) /\ (b = after \/ IsAfter(p, b) \/ Leaves(d, b))
    BY <1>4, <1>7, <2>1 DEF Loops, EndInJumps, Straight, Leaves, Last
  <2>2. Straight(d, k) /\ Leaves(d, k)
    BY <1>3, <1>4 DEF Loops, EndInJumps, Leaves
  <2>. QED
    BY <1>4, <2>1, <2>2 DEF EndInJumps
<1>10. EnteredEarlier(d)
  BY <1>4 DEF Loops, EnteredEarlier
<1>11. LeadsTo(d, p, after)
  <2>. SUFFICES ASSUME NEW bs \in SUBSET DOMAIN d, Closed(d, bs), after \in bs,
                       \A i \in DOMAIN p : p[i].after \in bs
                PROVE  bs = DOMAIN d
    BY DEF LeadsTo
  <2>1. k \in bs
    BY <1>6 DEF Closed
  <2>2. Closed(c, bs) /\ bs \in SUBSET DOMAIN c
    BY <1>4 DEF Closed
  <2>3. \A i \in DOMAIN o : o[i].after \in bs
    BY <1>2 DEF after
  <2>. QED
    BY <1>4, <2>1, <2>2, <2>3 DEF Loops, LeadsTo
<1>. QED
  BY <1>6, <1>8, <1>9, <1>10, <1>11 DEF Loops, after, n

-----------------------------------------------------------------------------
Looping ==
  simple => /\ Loops(code, open, curr)
            /\ GoesOn(code, curr) \/ (open = <<>> /\ Last(code, curr).op = "ret")
            /\ phase = "done" => open = <<>> /\ ~GoesOn(code, curr)

LEMMA InitLooping == Init => Looping
<1> SUFFICES ASSUME Init PROVE Looping
  OBVIOUS
<1>1. /\ DOMAIN code = {Entry} /\ code[Entry] = <<>> /\ DOMAIN open = {} /\ curr = Entry
      /\ phase = "walking"
  BY EmptyList DEF Init, Entry
<1>2. OnlyLoops(code, open) /\ EndInJumps(code, open, curr) /\ EnteredEarlier(code)
  BY <1>1, EmptyList DEF OnlyLoops, EndInJumps, EnteredEarlier, Straight
<1>3. LeadsTo(code, open, curr)
  BY <1>1 DEF LeadsTo
<1>4. Loops(code, open, curr)
  BY <1>2, <1>3 DEF Loops
<1>5. GoesOn(code, curr)
  BY <1>1 DEF GoesOn
<1>6. phase # "done"
  BY <1>1
<1>. QED
  BY <1>4, <1>5, <1>6 DEF Looping

LEMMA NextLooping ==
  ASSUME IInv, Looping, [Next]_vars
  PROVE  Looping'
<1>1. /\ code \in Code /\ Len(code) \in Nat /\ DOMAIN code = 1 .. Len(code) /\ Blocks = DOMAIN code
      /\ curr \in DOMAIN code /\ open \in Seq(Frames) /\ TypeOK
      /\ \A i \in DOMAIN open : open[i] \in Frames
  BY BlockFacts DEF IInv, TypeOK, Blocks, Code
<1>2. ~IsAfter(open, curr)
  BY DEF IInv, TypeOK, PendingIsUntouched, Pending, IsAfter
<1>3. \A i, j \in DOMAIN open : i # j => open[i].after # open[j].after
  BY DEF IInv, TypeOK, PendingIsOwn, Pending
<1>4. Terminated(curr) <=> ~GoesOn(code, curr)
  BY DEF Terminated, GoesOn, Last
<1>5. /\ Met \in Seq(Frames) /\ DOMAIN Met = DOMAIN open /\ (open = <<>> <=> Met = <<>>)
      /\ \A i \in DOMAIN open : Met[i].list = open[i].list /\ Met[i].test = open[i].test
                                /\ Met[i].after = open[i].after
  <2>1. Len(Met) = Len(open) /\ Len(open) \in Nat
    BY <1>1, MetMovesNothing
  <2>2. open = <<>> <=> Met = <<>>
    BY <1>1, <2>1, MetMovesNothing, EmptySeq
  <2>. QED
    BY <1>1, <2>2, MetMovesNothing
<1>6. CASE Assignment \/ Return
  <2>. SUFFICES ASSUME simple' PROVE Looping'
    BY DEF Looping
  <2>0. Store.op = "store" /\ Ret.op = "ret"
    BY DEF Store, Ret, Inst
  <2>1. PICK inst \in {Store, Ret} : code' = Emit(code, curr, inst) /\ (inst = Ret => open = <<>>)
    <3>1. CASE Assignment
      <4>1. code' = Emit(code, curr, Store) /\ Store # Ret
        BY <2>0, <3>1 DEF Assignment
      <4>. QED
        BY <4>1
    <3>2. CASE Return
      <4>1. code' = Emit(code, curr, Ret) /\ open = <<>>
        BY <3>2 DEF Return
      <4>. QED
        BY <4>1
    <3>. QED
      BY <1>6, <3>1, <3>2
  <2>2. inst \in Instructions /\ inst.op \in {"store", "ret"} /\ (inst.op = "ret" => inst = Ret)
    BY DEF Store, Ret, Inst, Instructions
  <2>3. simple /\ GoesOn(code, curr) /\ open' = Met /\ curr' = curr /\ phase' = "walking"
    BY <1>4, <1>6 DEF Assignment, Return, Statement
  <2>4. Loops(code', open, curr)
    BY <1>1, <1>2, <2>1, <2>2, <2>3, LoopsStore DEF Looping
  <2>5. Loops(code', Met, curr)
    BY <1>5, <2>4, LoopsKept
  <2>6. Last(code', curr) = inst /\ code'[curr] # <<>>
    BY <1>1, <2>1, <2>2, EmittedAt
  <2>7. Loops(code', open', curr')
    BY <2>3, <2>5
  <2>8. GoesOn(code', curr') \/ (open' = <<>> /\ Last(code', curr').op = "ret")
    <3>1. CASE inst.op = "store"
      BY <2>3, <2>6, <3>1 DEF GoesOn
    <3>2. CASE inst = Ret
      BY <1>5, <2>0, <2>1, <2>3, <2>6, <3>2
    <3>. QED
      BY <2>2, <3>1, <3>2
  <2>9. phase' # "done"
    BY <2>3
  <2>. QED
    BY <2>7, <2>8, <2>9 DEF Looping
<1>7. CASE While
  <2>. SUFFICES ASSUME simple' PROVE Looping'
    BY DEF Looping
  <2> DEFINE test  == Len(code) + 1
             body  == Len(code) + 2
             after == Len(code) + 3
             f     == Frame("while", NoBlock, test, after)
  <2>1. test + 1 = body /\ test + 2 = after /\ test \in Nat /\ body \in Nat /\ after \in Nat
    BY <1>1
  <2>2. f \in Frames /\ f.list = "while" /\ f.test = test /\ f.after = after
    BY <2>1 DEF Frame, Frames, Lists, NoBlock
  <2>3. /\ code' = Emit(Emit(AddBlocks(3), curr, Br(test)), test, CondBr(body, after))
        /\ open' = Append(Met, f) /\ curr' = body /\ phase' = "walking"
        /\ simple /\ GoesOn(code, curr)
    BY <1>4, <1>7, <2>1 DEF While, Statement
  <2>4. Loops(code, Met, curr) /\ ~IsAfter(Met, curr)
    BY <1>2, <1>5, <2>3, LoopsKept DEF Looping, IsAfter
  <2> HIDE DEF f
  <2>5. Loops(code', Append(Met, f), body) /\ code'[body] = <<>>
    BY <1>1, <1>5, <2>2, <2>3, <2>4, LoopsWhile DEF AddBlocks
  <2>6. Loops(code', open', curr')
    BY <2>3, <2>5
  <2>7. GoesOn(code', curr')
    BY <2>3, <2>5 DEF GoesOn
  <2>8. phase' # "done"
    BY <2>3
  <2>. QED
    BY <2>6, <2>7, <2>8 DEF Looping
<1>8. CASE If
  BY <1>8 DEF If, Looping
<1>9. CASE EndThen \/ EndElse
  <2>1. open # <<>> /\ Top.list # "while" /\ simple' = simple
    BY <1>9 DEF EndThen, EndElse, EndOf
  <2>2. Len(open) \in DOMAIN open /\ Top = open[Len(open)]
    BY <1>1, <2>1, TopFacts
  <2>3. ~simple
    BY <2>1, <2>2 DEF Looping, Loops, OnlyLoops
  <2>. QED
    BY <2>1, <2>3 DEF Looping
<1>10. CASE EndWhile
  <2>. SUFFICES ASSUME simple' PROVE Looping'
    BY DEF Looping
  <2>1. /\ open # <<>> /\ simple /\ phase' = "walking" /\ Top = open[Len(open)]
        /\ code' = Emit(code, curr, Br(open[Len(open)].test)) /\ curr' = open[Len(open)].after
        /\ open' = SubSeq(open, 1, Len(open) - 1)
    BY <1>10 DEF EndWhile, EndOf, Top, Outer
  <2>2. Loops(code, open, curr) /\ GoesOn(code, curr)
    BY <2>1 DEF Looping
  <2>3. open[Len(open)].test \in Nat
    BY <1>1, <2>1, TopFacts DEF Frames
  <2>4. Loops(code', open', curr') /\ code'[curr'] = <<>>
    BY <1>1, <1>2, <1>3, <2>1, <2>2, <2>3, LoopsEnd
  <2>5. GoesOn(code', curr')
    BY <2>4 DEF GoesOn
  <2>6. phase' # "done"
    BY <2>1
  <2>. QED
    BY <2>4, <2>5, <2>6 DEF Looping
<1>11. CASE EndProcedure
  <2>. SUFFICES ASSUME simple' PROVE Looping'
    BY DEF Looping
  <2>1. open = <<>> /\ open' = open /\ curr' = curr /\ simple /\ code' = EmitUnlessTerminated(Ret)
    BY <1>11 DEF EndProcedure
  <2>2. CASE Terminated(curr)
    <3>1. code' = code
      BY <2>1, <2>2 DEF EmitUnlessTerminated
    <3>. QED
      BY <1>4, <2>1, <2>2, <3>1 DEF Looping
  <2>3. CASE ~Terminated(curr)
    <3>1. code' = Emit(code, curr, Ret)
      BY <2>1, <2>3 DEF EmitUnlessTerminated
    <3>2. Ret \in Instructions /\ Ret.op = "ret"
      BY DEF Ret, Inst, Instructions
    <3>3. Loops(code', open, curr)
      BY <1>1, <1>2, <1>4, <2>1, <2>3, <3>1, <3>2, LoopsStore DEF Looping
    <3>4. Last(code', curr) = Ret /\ code'[curr] # <<>>
      BY <1>1, <3>1, <3>2, EmittedAt
    <3>. QED
      BY <2>1, <3>2, <3>3, <3>4 DEF Looping, GoesOn
  <2>. QED
    BY <2>2, <2>3
<1>12. CASE Abort \/ UNCHANGED vars
  BY <1>12 DEF Abort, vars, Looping
<1>. QED
  BY <1>6, <1>7, <1>8, <1>9, <1>10, <1>11, <1>12 DEF Next

(* What is entered from earlier blocks only is reached from the entry.     *)
LEMMA AllReached ==
  ASSUME NEW c, NEW n \in Nat, DOMAIN c = 1 .. n, EnteredEarlier(c),
         NEW bs \in SUBSET (1 .. n), Entry \in bs, \A b \in 1 .. n : PredecessorsIn(c, b) \cap bs # {} => b \in bs
  PROVE  bs = 1 .. n
<1> DEFINE S == {b \in Nat : b \in 1 .. n => b \in bs}
<1>1. ASSUME NEW b \in Nat, \A p \in Nat : p < b => p \in S PROVE b \in S
  <2>. SUFFICES ASSUME b \in 1 .. n, b # Entry PROVE b \in bs
    OBVIOUS
  <2>1. PICK p \in PredecessorsIn(c, b) : p < b
    BY DEF EnteredEarlier
  <2>2. p \in 1 .. n /\ p \in Nat
    BY DEF PredecessorsIn
  <2>3. p \in bs
    BY <1>1, <2>1, <2>2
  <2>. QED
    BY <2>1, <2>3
<1> HIDE DEF S
<1>2. \A b \in Nat : b \in S
  BY <1>1, CourseOfValues
<1>3. \A b \in 1 .. n : b \in bs
  <2>. TAKE b \in 1 .. n
  <2>1. b \in S
    BY <1>2
  <2>. QED
    BY <2>1 DEF S
<1>. QED
  BY <1>3

(* A function whose statements are assignments, WHILEs and a RETURN at its *)
(* end is one LLVM accepts, for any number of statements and any nesting   *)
(* (CGProcedure.cc: the IR that emitStmt leaves behind).                   *)
THEOREM LoopsAreAccepted == Spec => []LoopsAreWellFormed
<1>1. ASSUME IInv, Looping, phase = "done", simple PROVE LoopsAreWellFormed
  <2>1. /\ Loops(code, open, curr) /\ open = <<>> /\ ~GoesOn(code, curr)
        /\ Last(code, curr).op = "ret"
    BY <1>1 DEF Looping
  <2>2. curr \in DOMAIN code /\ Blocks = DOMAIN code /\ Len(code) \in Nat /\ DOMAIN code = 1 .. Len(code)
    BY <1>1, BlockFacts DEF IInv, Blocks
  <2>3. DOMAIN open = {} /\ \A b : ~IsAfter(open, b)
    BY <2>1, EmptyList DEF IsAfter
  <2>4. \A b \in Blocks : Straight(code, b) /\ (b = curr \/ Leaves(code, b))
    BY <2>1, <2>2, <2>3 DEF Loops, EndInJumps
  <2>5. \A b \in Blocks : Terminated(b) /\ \A i \in 1 .. Len(code[b]) - 1 : code[b][i].op = "store"
    BY <2>1, <2>4 DEF Terminated, Straight, Leaves, GoesOn, Last
  <2>6. \A b \in Blocks : code[b][Len(code[b])].op = "ret" <=> b = curr
    BY <2>1, <2>4 DEF Leaves, Last
  <2>7. ASSUME NEW bs \in SUBSET Blocks, Entry \in bs, ClosedForwards(bs) PROVE bs = Blocks
    <3>1. \A b \in 1 .. Len(code) : PredecessorsIn(code, b) \cap bs # {} => b \in bs
      BY <2>2, <2>7 DEF ClosedForwards, Predecessors
    <3>. QED
      BY <2>1, <2>2, <2>7, <3>1, AllReached DEF Loops
  <2>8. ASSUME NEW bs \in SUBSET Blocks, curr \in bs, ClosedBackwards(bs) PROVE bs = Blocks
    <3>1. Closed(code, bs)
      BY <2>8 DEF ClosedBackwards, Closed, Predecessors
    <3>. QED
      BY <2>1, <2>2, <2>3, <2>8, <3>1 DEF Loops, LeadsTo
  <2>9. \A bs \in (SUBSET Blocks) \ {Blocks} :
          ~(Entry \in bs /\ ClosedForwards(bs)) /\ ~(curr \in bs /\ ClosedBackwards(bs))
    BY <2>7, <2>8
  <2>10. \E r \in Blocks :
           /\ \A b \in Blocks : code[b][Len(code[b])].op = "ret" <=> b = r
           /\ \A bs \in (SUBSET Blocks) \ {Blocks} :
                ~(Entry \in bs /\ ClosedForwards(bs)) /\ ~(r \in bs /\ ClosedBackwards(bs))
    BY <2>2, <2>6, <2>9
  <2>. QED
    BY <2>5, <2>10 DEF LoopsAreWellFormed
<1>2. IInv /\ Looping => LoopsAreWellFormed
  BY <1>1 DEF LoopsAreWellFormed
<1>3. IInv /\ Looping /\ [Next]_vars => (IInv /\ Looping)'
  BY NextIInv, NextLooping
<1>. QED
  BY <1>2, <1>3, InitIInv, InitLooping, PTL DEF Spec
=============================================================================
