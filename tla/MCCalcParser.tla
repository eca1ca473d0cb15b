---------------------------- MODULE MCCalcParser ----------------------------
(* The parser over texts of every token kind but "unknown", which no case  *)
(* of the parser tells apart from a misplaced comma.                       *)
EXTENDS CalcParser

MCKinds == TokenKinds \ {"eoi", "unknown"}
=============================================================================
