----------------------------- MODULE BudgetHold -----------------------------
(***************************************************************************)
(* What the budget store promises about the money of one paid call, with   *)
(* nothing of how it keeps the promise: credits are promised once, the     *)
(* call is sent at most once, and the promise ends in exactly one of two   *)
(* ways.  A promise that was never sent may be returned; one that was sent *)
(* ends only by a charge, and is charged once.                             *)
(***************************************************************************)
EXTENDS Integers

CONSTANTS
  Requests,  \* the paid calls, one per row of budget_steps
  NoCharge   \* the charge of a call that has not been charged

VARIABLES
  promise,   \* where the promise of each call stands
  amount,    \* the credits promised for it
  charge     \* the credits it was charged

vars == <<promise, amount, charge>>

Stages == {"none", "held", "sent", "charged", "returned"}

Init ==
  /\ promise = [r \in Requests |-> "none"]
  /\ amount = [r \in Requests |-> 0]
  /\ charge = [r \in Requests |-> NoCharge]

\* Only the amount of call r may be different after the step, and it is positive.
Sized(r) ==
  /\ amount'[r] \in Nat \ {0}
  /\ amount' = [amount EXCEPT ![r] = amount'[r]]

Promise(r) ==
  /\ promise[r] = "none"
  /\ promise' = [promise EXCEPT ![r] = "held"]
  /\ Sized(r)
  /\ UNCHANGED charge

\* A new authorization replaces one that was never sent.
Resize(r) ==
  /\ promise[r] = "held"
  /\ Sized(r)
  /\ UNCHANGED <<promise, charge>>

Send(r) ==
  /\ promise[r] = "held"
  /\ promise' = [promise EXCEPT ![r] = "sent"]
  /\ UNCHANGED <<amount, charge>>

Charge(r) ==
  /\ promise[r] = "sent"
  /\ promise' = [promise EXCEPT ![r] = "charged"]
  /\ charge'[r] \in Nat
  /\ charge' = [charge EXCEPT ![r] = charge'[r]]
  /\ UNCHANGED amount

Return(r) ==
  /\ promise[r] = "held"
  /\ promise' = [promise EXCEPT ![r] = "returned"]
  /\ UNCHANGED <<amount, charge>>

Next ==
  \E r \in Requests :
    Promise(r) \/ Resize(r) \/ Send(r) \/ Charge(r) \/ Return(r)

Spec == Init /\ [][Next]_vars
=============================================================================
