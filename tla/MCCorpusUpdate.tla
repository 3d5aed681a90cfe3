--------------------------- MODULE MCCorpusUpdate ---------------------------
(***************************************************************************)
(* TLC instances of CorpusUpdate: two inputs that reach the same code and  *)
(* a third that reaches other code.                                        *)
(***************************************************************************)
EXTENDS CorpusUpdate, TLC

CONSTANTS a, b, c

MCCover(f) == IF f = c THEN {"rare"} ELSE {"common"}

\* a and b are interchangeable, c is not.
MCSymmetry == Permutations({a, b})
=============================================================================
