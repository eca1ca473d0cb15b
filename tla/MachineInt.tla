----------------------------- MODULE MachineInt -----------------------------
(***************************************************************************)
(* Signed integers of Width bits and the four operations the calculators'  *)
(* CodeGen emits (CodeGen.cc, visit(BinaryOp)): CreateNSWAdd, CreateNSWSub *)
(* and CreateNSWMul, undefined on overflow, and CreateSDiv, which truncates*)
(* and is undefined on a zero divisor and on overflow.  A value is <<n>>,  *)
(* or Undefined.                                                           *)
(***************************************************************************)
EXTENDS Integers

CONSTANT Width   \* 32 in the source
ASSUME WidthAssumption == Width \in Nat \ {0}

IntMin == -(2 ^ (Width - 1))
IntMax == 2 ^ (Width - 1) - 1
Ints == IntMin .. IntMax

Undefined == <<>>
Defined(n) == IF n \in Ints THEN <<n>> ELSE Undefined
Values == {<<n>> : n \in Ints} \cup {Undefined}

Abs(n) == IF n < 0 THEN -n ELSE n
Truncated(a, b) == LET q == Abs(a) \div Abs(b)
                   IN IF (a < 0) = (b < 0) THEN q ELSE -q

Apply(op, x, y) ==
  IF x = Undefined \/ y = Undefined \/ (op = "slash" /\ y = <<0>>)
  THEN Undefined
  ELSE Defined(CASE op = "plus"  -> x[1] + y[1]
                 [] op = "minus" -> x[1] - y[1]
                 [] op = "star"  -> x[1] * y[1]
                 [] op = "slash" -> Truncated(x[1], y[1]))
=============================================================================
