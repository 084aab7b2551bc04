----------------------------- MODULE MCKeyQuota -----------------------------
(***************************************************************************)
(* One user with two keys, a hold of the user-level ledger that a pool may *)
(* adopt, and a hold on a key; the check takes one hold at a time.         *)
(***************************************************************************)
EXTENDS KeyQuota

CONSTANTS user, key, other, old, first

MCOwnerOf == [k \in Keys |-> user]
MCHolderOf == [h \in UserHolds |-> user]
MCKeyOf == [h \in KeyHolds |-> key]
=============================================================================
