--------------------------------- MODULE Sums ---------------------------------
(***************************************************************************)
(* The one way this project adds up rows: the SUM of a column over a set of *)
(* rows; and the product of factors that compound.  Sums_proofs shows what  *)
(* a sum does when rows change.                                             *)
(***************************************************************************)
EXTENDS Integers, FiniteSets, Functions

SumOver(amounts, S) == FoldFunctionOnSet(+, 0, amounts, S)
ProductOver(factors, S) == FoldFunctionOnSet(LAMBDA x, y : x * y, 1, factors, S)
================================================================================
