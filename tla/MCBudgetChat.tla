---------------------------- MODULE MCBudgetChat ----------------------------
(***************************************************************************)
(* One chat whose bill the bridge may contradict, with two crashes and the *)
(* start-up sweep, and a client that repeats its request.                  *)
(***************************************************************************)
EXTENDS BudgetRecovery

CONSTANTS a, k, u, w, declared

MCKeyOf == [x \in {a} |-> k]
MCOwnerOf == [x \in {k} |-> u]
MCGranted == [x \in {k} |-> 2]
MCMaxConcurrency == [x \in {k} |-> 1]
MCIdRank == [x \in {a} |-> 1]
MCServes == [x \in {w} |-> a]
Nothing == <<>>

MCReceiptsFor == [r \in {a} |-> {NoSend, [status |-> "final", actual |-> 1, task |-> NoTask]}]
=============================================================================
