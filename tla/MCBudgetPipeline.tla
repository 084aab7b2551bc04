-------------------------- MODULE MCBudgetPipeline --------------------------
(***************************************************************************)
(* One video request with its assist request: every order of the calls of  *)
(* a whole chain, with contradicting, late and repeated receipts.          *)
(***************************************************************************)
EXTENDS BudgetBilling

CONSTANTS v, c, k, u, t1, t2, declared

MCParentOf == [x \in {c} |-> v]
MCKeyOf == [x \in {v} |-> k]
MCOwnerOf == [x \in {k} |-> u]
MCGranted == [a \in {k, u} |-> 4]
MCMaxConcurrency == [x \in {k} |-> 1]
MCIdRank == [x \in {v} |-> 1]

Final(amount, t) == [status |-> "final", actual |-> amount, task |-> t]
NoCharge(amount) == [status |-> "failed_no_charge", actual |-> amount, task |-> NoTask]
Pending == [status |-> "pending", actual |-> NoActual, task |-> NoTask]

MCReceiptsFor ==
  [r \in {v, c} |->
     IF r = v THEN {Final(3, t1), NoCharge(NoActual), Pending}
              ELSE {Final(1, NoTask), Pending}]
=============================================================================
