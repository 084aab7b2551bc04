-------------------------- MODULE MCBudgetRecovery --------------------------
(***************************************************************************)
(* One video chain, from the client's request to the bridge and back, with *)
(* one crash anywhere: a worker for each of its two steps, and the feed.   *)
(***************************************************************************)
EXTENDS BudgetRecovery

CONSTANTS v, c, k, u, t, wv, wc

MCParentOf == [x \in {c} |-> v]
MCKeyOf == [x \in {v} |-> k]
MCOwnerOf == [x \in {k} |-> u]
MCGranted == [a \in {k} |-> 2]
MCMaxConcurrency == [x \in {k} |-> 1]
MCIdRank == [x \in {v} |-> 1]
MCServes == [w \in {wv, wc} |-> IF w = wv THEN v ELSE c]
MCTaskOf == [x \in {v} |-> t]

Final(task_) == [status |-> "final", actual |-> 1, task |-> task_]

MCReceiptsFor == [r \in {v, c} |-> {NoSend, Final(IF r = v THEN t ELSE NoTask)}]
=============================================================================
