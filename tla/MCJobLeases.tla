----------------------------- MODULE MCJobLeases -----------------------------
(***************************************************************************)
(* A video and a streamed call compete for the one slot of an account:     *)
(* claims by two workers, heartbeats of the job and of the leases,         *)
(* cancellations, sweeps and late outcomes in every order.                 *)
(***************************************************************************)
EXTENDS JobLeases

CONSTANTS a

MCOwnerOf == [r \in {1, 2} |-> r]
MCFits == [r \in {1, 2} |-> {a}]
MCMaxConcurrency == [x \in {a} |-> 1]
=============================================================================
