------------------------- MODULE MCBudgetContention -------------------------
(***************************************************************************)
(* Two chat requests of one key compete for its only slot, its credits and *)
(* the smaller budget of its owner; authorizations are replaced, holds are *)
(* overrun, and the two may have arrived in the same clock tick.           *)
(***************************************************************************)
EXTENDS BudgetBilling

CONSTANTS a, b, k, u

MCParentOf == <<>>
MCKeyOf == [r \in {a, b} |-> k]
MCOwnerOf == [r \in {k} |-> u]
MCGranted == [n \in {k, u} |-> IF n = k THEN 5 ELSE 3]
MCMaxConcurrency == [n \in {k} |-> 1]
MCIdRank == [r \in {a, b} |-> IF r = a THEN 1 ELSE 2]

Final(amount) == [status |-> "final", actual |-> amount, task |-> NoTask]

MCReceiptsFor == [r \in {a, b} |-> IF r = a THEN {Final(3)} ELSE {}]
=============================================================================
