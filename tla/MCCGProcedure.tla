--------------------------- MODULE MCCGProcedure ----------------------------
(* Procedures of five statements, nested three deep: a loop in a branch in *)
(* a loop, with a statement before and after the innermost one.            *)
EXTENDS CGProcedure
MCMaxStatements == 5
MCMaxNesting    == 3
=============================================================================
