----------------------------- MODULE MCAmanSema -----------------------------
(* Texts over two identifiers of the user's and the name of a type.        *)
EXTENDS AmanSema, TLC

CONSTANTS p, q

MCNames == {p, q, "Integer"}
Identifiers == Permutations({p, q})
=============================================================================
