-------------------------------- MODULE Sums --------------------------------
(***************************************************************************)
(* Sums of what a table has for the members of a finite set: the balances, *)
(* holds and costs of the components.  The terms are a function, not an    *)
(* operator, so that theorems about sums can be instantiated.              *)
(***************************************************************************)
EXTENDS Integers, FiniteSets, FiniteSetsExt

SumOver(f, S) == MapThenSumSet(LAMBDA x : f[x], S)
=============================================================================
