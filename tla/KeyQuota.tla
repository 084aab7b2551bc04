------------------------------ MODULE KeyQuota ------------------------------
(***************************************************************************)
(* Quota accounts of one resource: the credits of API keys, the user_cap   *)
(* pool behind the keys of a user, and the rows of the user-level ledger   *)
(* that are older than both and that a pool adopts when it is created.     *)
(*                                                                         *)
(* The ledger only grows; what a row says is its delta.  The model keeps   *)
(* the sum of the rows of each account (balance), the sum of a user's rows *)
(* that name no account (loose), and for a hold what its own rows posted.  *)
(* Every operation is one IMMEDIATE transaction and one action here; an    *)
(* operation that returns an error changes nothing and has no action.      *)
(*                                                                         *)
(* A pass of the event-group check takes several transactions, and the     *)
(* accounts change between them.                                           *)
(***************************************************************************)
EXTENDS Integers, Sequences, FiniteSets, SequencesExt, Sums

CONSTANTS
  Users,          \* owners of keys
  Keys,           \* API keys
  OwnerOf,        \* the owner of a key
  UserHolds,      \* holds of the user-level ledger
  HolderOf,       \* the user of such a hold
  KeyHolds,       \* holds on a key, and on the pool behind it if there is one
  KeyOf,          \* the key of such a hold
  Amounts,        \* amounts to grant, move or hold
  Migrations,     \* migration ids
  UpstreamTotals, \* totals a fresh snapshot of the upstream credits may show
  BatchLimit,     \* holds in one batch of a pass
  MaxGiven,       \* bound on what is given to users
  MaxVersions,    \* bound on the versions of all accounts together
  Costs,          \* what a hold may turn out to have cost
  NoActual        \* Settlement::Commit without an actual amount

Accounts == Keys \cup Users
Holds == UserHolds \cup KeyHolds
NotMoved == [amount |-> 0]
NoSweep == [passes |-> FALSE]

ASSUME QuotaIdentities ==
  /\ IsFiniteSet(Accounts) /\ IsFiniteSet(Holds) /\ IsFiniteSet(Migrations)
  /\ Keys \cap Users = {}
  /\ UserHolds \cap KeyHolds = {} /\ OwnerOf \in [Keys -> Users]
  /\ HolderOf \in [UserHolds -> Users] /\ KeyOf \in [KeyHolds -> Keys]

ASSUME QuotaAmounts ==
  /\ Amounts \subseteq Nat \ {0} /\ UpstreamTotals \subseteq Nat /\ Costs \subseteq Nat
  /\ BatchLimit \in Nat \ {0} /\ MaxGiven \in Nat /\ MaxVersions \in Nat
  /\ NoActual \notin Int

VARIABLES
  active,   \* keys whose status is active
  deleted,  \* keys with a deleted_at_ms
  state,    \* quota_budget_accounts.migration_state, "absent" without a row
  version,  \* quota_budget_accounts.version, 0 without a row
  balance,  \* the sum of the ledger rows of each account
  loose,    \* the sum of a user's ledger rows without account and key
  rows,     \* users with such rows
  hold,     \* quota_reservations, with the ledger rows of their event group
  queue,    \* the holds by (created_at_ms, id)
  moved,    \* what each migration moved, and where
  sweep,    \* the cursor of a pass over the event groups
  given,    \* what administrators gave to each account, less what they took back
  outside   \* users with a key that has credits the pool did not count

accountVars == <<state, version, balance>>
looseVars == <<loose, rows>>
holdVars == <<hold, queue>>
keyVars == <<active, deleted>>
historyVars == <<given, outside>>
vars == <<keyVars, accountVars, looseVars, holdVars, moved, sweep, historyVars>>

-----------------------------------------------------------------------------
Open == {"held", "unknown"}

NoHold == [state |-> "absent", amount |-> 0, cost |-> 0, on |-> {}, stamps |-> {}]

Made(h) == hold[h].state # "absent"

Available(a) == balance[a]
HeldOn(a) == SumOver([h \in Holds |-> hold[h].amount],
                     {h \in Holds : a \in hold[h].on /\ hold[h].state \in Open})

\* The rows without account and those of the user's pool.
UserAvailable(u) == loose[u] + balance[u]

KeysOf(u) == {k \in Keys : OwnerOf[k] = u}

\* What the enabled accounts of the user's active keys have, held or not.
Allocated(u) == SumOver([k \in Keys |-> Available(k) + HeldOn(k)],
                        {k \in KeysOf(u) \cap active : state[k] # "absent"})

Larger(m, n) == IF m > n THEN m ELSE n

\* A slip in Allocatable: what keys have already is not taken off.
AllocatableTwice(u) == Larger(0, balance[u] + (IF state[u] = "absent" THEN loose[u] ELSE 0))

Allocatable(u) == Larger(0, balance[u] + (IF state[u] = "absent" THEN loose[u] ELSE 0) - Allocated(u))

\* Of every key, active or not.
Committed == SumOver([k \in Keys |-> Larger(0, Available(k) + HeldOn(k))], Keys)

\* A pool exists, or the user-level rows it would be made of do.
PoolConfigured(u) == state[u] # "absent" \/ u \in rows

\* The bound on versions.
MayAdvance == SumOver(version, Accounts) < MaxVersions

KeyUsable(k) == k \in active /\ state[k] \in {"absent", "ready"} /\ MayAdvance

\* The bound on what is given to users.
MayGive(n) == SumOver(given, Users) + n <= MaxGiven

-----------------------------------------------------------------------------
(* The pool of a user is made out of the rows without account.  The holds  *)
(* of those rows go with them, but not when a migration makes the pool.    *)

Adopted(u) == IF state[u] = "absent" THEN loose[u] ELSE 0

\* A slip in AdoptRows: the rows are copied to the pool, not moved.
CopyRows(u) == UNCHANGED looseVars

AdoptRows(u) ==
  IF state[u] = "absent"
  THEN loose' = [loose EXCEPT ![u] = 0] /\ rows' = rows \ {u}
  ELSE UNCHANGED looseVars

AdoptHolds(u) ==
  hold' = [h \in Holds |->
             IF /\ state[u] = "absent"
                /\ h \in UserHolds /\ Made(h) /\ HolderOf[h] = u /\ hold[h].on = {}
             THEN [hold[h] EXCEPT !.on = {u}]
             ELSE hold[h]]

\* A slip in ReadPool: the pool is inserted before it has a version.
ReadPoolUnversioned(u) ==
  /\ state' = [state EXCEPT ![u] = IF @ = "reconcile_required" THEN @ ELSE "ready"]
  /\ balance' = [balance EXCEPT ![u] = @ + Adopted(u)]
  /\ AdoptRows(u) /\ AdoptHolds(u) /\ UNCHANGED <<version, queue>>

\* A pool that is read is made by the read.
ReadPool(u) ==
  /\ state' = [state EXCEPT ![u] = IF @ = "reconcile_required" THEN @ ELSE "ready"]
  /\ version' = [version EXCEPT ![u] = Larger(1, @)]
  /\ balance' = [balance EXCEPT ![u] = @ + Adopted(u)]
  /\ AdoptRows(u) /\ AdoptHolds(u) /\ queue' = queue

Init ==
  /\ active = Keys /\ deleted = {}
  /\ state = [a \in Accounts |-> "absent"]
  /\ version = [a \in Accounts |-> 0]
  /\ balance = [a \in Accounts |-> 0]
  /\ loose = [u \in Users |-> 0] /\ rows = {}
  /\ hold = [h \in Holds |-> NoHold] /\ queue = <<>>
  /\ moved = [m \in Migrations |-> NotMoved]
  /\ sweep = NoSweep
  /\ given = [a \in Accounts |-> 0] /\ outside = {}

-----------------------------------------------------------------------------
(* What administrators do with a user's credits.                           *)

\* A row without account, of either sign, that may not overdraw the user.
GrantUser(u, delta) ==
  /\ UserAvailable(u) + delta >= 0 /\ MayGive(delta)
  /\ loose' = [loose EXCEPT ![u] = @ + delta] /\ rows' = rows \cup {u}
  /\ given' = [given EXCEPT ![u] = @ + delta]
  /\ UNCHANGED <<keyVars, accountVars, holdVars, moved, sweep, outside>>

PoolGrant(u, n) ==
  /\ state[u] # "reconcile_required"
  /\ MayAdvance /\ MayGive(n)
  /\ state' = [state EXCEPT ![u] = "ready"]
  /\ version' = [version EXCEPT ![u] = @ + 1]
  /\ balance' = [balance EXCEPT ![u] = @ + Adopted(u) + n]
  /\ AdoptRows(u) /\ AdoptHolds(u)
  /\ given' = [given EXCEPT ![u] = @ + n]
  /\ UNCHANGED <<keyVars, queue, moved, sweep, outside>>

PoolRead(u) ==
  /\ PoolConfigured(u) /\ state[u] # "reconcile_required"
  /\ ReadPool(u)
  /\ UNCHANGED <<keyVars, moved, sweep, historyVars>>

(* And with the credits of a key.  An account is made by its first grant.  *)

AllocateFromPool(k, n) ==
  LET u == OwnerOf[k] IN
  /\ KeyUsable(k)
  /\ PoolConfigured(u) /\ state[u] # "reconcile_required"
  /\ n <= Allocatable(u)
  /\ given' = [given EXCEPT ![k] = @ + n]
  /\ state' = [state EXCEPT ![u] = "ready", ![k] = "ready"]
  /\ version' = [version EXCEPT ![u] = Larger(1, @), ![k] = @ + 1]
  /\ balance' = [balance EXCEPT ![u] = @ + Adopted(u), ![k] = @ + n]
  /\ AdoptRows(u) /\ AdoptHolds(u)
  /\ UNCHANGED <<keyVars, queue, moved, sweep, outside>>

AddToKey(k, n) ==
  /\ KeyUsable(k)
  /\ given' = [given EXCEPT ![k] = @ + n]
  /\ state' = [state EXCEPT ![k] = "ready"]
  /\ version' = [version EXCEPT ![k] = @ + 1]
  /\ balance' = [balance EXCEPT ![k] = @ + n]
  /\ outside' = outside \cup {OwnerOf[k]}
  /\ UNCHANGED <<keyVars, looseVars, holdVars, moved, sweep>>

GrantKey(k, n) == AddToKey(k, n)

AllocateFromUpstream(k, n) ==
  /\ \E total \in UpstreamTotals : Committed + n <= total
  /\ AddToKey(k, n)

\* Moves user-level credits to a key, once for each migration id.  The pool it
\* makes is legacy_unassigned no longer than the transaction lasts, and no pool
\* is afterwards.
Migrate(m, k, n) ==
  LET u == OwnerOf[k] IN
  /\ moved[m] = NotMoved
  /\ KeyUsable(k)
  /\ state[u] = "absent" /\ u \in rows
  /\ n <= Adopted(u)
  /\ state' = [state EXCEPT ![u] = "ready", ![k] = "ready"]
  /\ version' = [version EXCEPT ![u] = @ + 1, ![k] = @ + 1]
  /\ balance' = [balance EXCEPT ![u] = Adopted(u) - n, ![k] = @ + n]
  /\ AdoptRows(u)
  /\ moved' = [moved EXCEPT ![m] = [amount |-> n, from |-> u, to |-> k]]
  /\ outside' = outside \cup {u}
  /\ UNCHANGED <<keyVars, holdVars, sweep, given>>

-----------------------------------------------------------------------------
(* Keys come and go.                                                       *)

DisableKey(k) ==
  /\ k \in active
  /\ active' = active \ {k}
  /\ UNCHANGED <<deleted, accountVars, looseVars, holdVars, moved, sweep, historyVars>>

\* Also of a key that was deleted.
EnableKey(k) ==
  /\ k \notin active
  /\ active' = active \cup {k}
  /\ outside' = outside \cup {OwnerOf[k]}
  /\ UNCHANGED <<deleted, accountVars, looseVars, holdVars, moved, sweep, given>>

\* What a deleted key has left is taken from it; an open hold keeps the key.
DeleteKey(k) ==
  LET left == Larger(0, balance[k]) IN
  /\ k \notin deleted
  /\ state[k] \in {"absent", "ready"}
  /\ \A h \in KeyHolds : KeyOf[h] = k => hold[h].state \notin Open
  /\ active' = active \ {k} /\ deleted' = deleted \cup {k}
  /\ IF left > 0
     THEN /\ MayAdvance
          /\ version' = [version EXCEPT ![k] = @ + 1]
          /\ balance' = [balance EXCEPT ![k] = 0]
          /\ given' = [given EXCEPT ![k] = @ - left]
     ELSE UNCHANGED <<version, balance, given>>
  /\ UNCHANGED <<state, looseVars, holdVars, moved, sweep, outside>>

-----------------------------------------------------------------------------
(* Holds.  The time a hold is created at is read before the store is       *)
(* locked and its id is random: it may sort before holds that were there.  *)

Enqueue(h) == \E i \in 1 .. Len(queue) + 1 : queue' = InsertAt(queue, i, h)

ReserveUser(h, n) ==
  LET u == HolderOf[h] IN
  /\ ~ Made(h) /\ n <= UserAvailable(u)
  /\ hold' = [hold EXCEPT ![h] = [NoHold EXCEPT !.state = "held", !.amount = n]]
  /\ Enqueue(h)
  /\ loose' = [loose EXCEPT ![u] = @ - n] /\ rows' = rows \cup {u}
  /\ UNCHANGED <<keyVars, accountVars, moved, sweep, historyVars>>

\* The accounts a hold of the key is on: its own, and the pool if it is there.
AccountsBehind(k) == {k} \cup {u \in {OwnerOf[k]} : state[u] # "absent"}

Stamps(accounts) == {<<a, version[a]>> : a \in accounts}

\* Whoever calls for the hold has seen that the key is active.
ReserveKey(h, n) ==
  LET on == AccountsBehind(KeyOf[h]) IN
  /\ ~ Made(h) /\ KeyOf[h] \in active
  /\ \A a \in on : state[a] = "ready" /\ n <= balance[a]
  /\ hold' = [hold EXCEPT ![h] = [state |-> "held", amount |-> n, cost |-> 0,
                                  on |-> on, stamps |-> Stamps(on)]]
  /\ Enqueue(h)
  /\ balance' = [a \in Accounts |-> IF a \in on THEN balance[a] - n ELSE balance[a]]
  /\ UNCHANGED <<keyVars, state, version, looseVars, moved, sweep, historyVars>>

\* A row for each account of the hold, or one without account for a user-level hold.
Refund(h, delta) ==
  IF h \in KeyHolds
  THEN /\ balance' = [a \in Accounts |-> IF a \in hold[h].on THEN balance[a] + delta ELSE balance[a]]
       /\ UNCHANGED looseVars
  ELSE /\ loose' = [loose EXCEPT ![HolderOf[h]] = @ + delta]
       /\ rows' = rows \cup {HolderOf[h]}
       /\ UNCHANGED balance

CloseHold(h, outcome, cost) ==
  /\ hold' = [hold EXCEPT ![h] = [hold[h] EXCEPT
       !.state = outcome, !.cost = cost,
       !.stamps = @ \cup (IF h \in KeyHolds THEN Stamps(hold[h].on) ELSE {})]]
  /\ Refund(h, hold[h].amount - cost)
  /\ UNCHANGED <<keyVars, state, version, queue, moved, sweep, historyVars>>

Release(h) == hold[h].state = "held" /\ CloseHold(h, "released", 0)

MakeUnknown(h) ==
  /\ hold' = [hold EXCEPT ![h].state = "unknown"]
  /\ UNCHANGED <<keyVars, accountVars, looseVars, queue, moved, sweep, historyVars>>

\* Without an actual amount a user-level hold costs all of it, and a key's is unknown.
Commit(h, actual) ==
  /\ hold[h].state = "held"
  /\ IF actual = NoActual
     THEN IF h \in KeyHolds THEN MakeUnknown(h) ELSE CloseHold(h, "committed", hold[h].amount)
     ELSE actual <= hold[h].amount /\ CloseHold(h, "committed", actual)

Doubt(h) == hold[h].state = "held" /\ MakeUnknown(h)

\* apply_credit_receipt: a final receipt settles what is open, even above the hold.
ReceiptSettles(h, actual) ==
  /\ h \in KeyHolds /\ hold[h].state \in Open
  /\ CloseHold(h, "committed", actual)

-----------------------------------------------------------------------------
(* The check of event groups, one batch at a time, up to the hold that was *)
(* last when the pass began.  A group of which some row was written at     *)
(* another version of its account than the present one is malformed.       *)

\* Receipts may settle an unknown hold; the other defects are there to stay.
Beyond(h) == \/ hold[h].cost > hold[h].amount
             \/ \E s \in hold[h].stamps : s[2] # version[s[1]]

Malformed(h) == h \in KeyHolds /\ (hold[h].state = "unknown" \/ Beyond(h))

Place(h) == CHOOSE i \in DOMAIN queue : queue[i] = h

Rest == IF sweep = NoSweep THEN queue
        ELSE SubSeq(queue, Place(sweep.after) + 1, Place(sweep.through))

Scanned == SubSeq(Rest, 1, IF Len(Rest) < BatchLimit THEN Len(Rest) ELSE BatchLimit)

\* A slip in Boundary: the cursor stands on the row read ahead.
BoundaryAhead == IF Len(Rest) > BatchLimit THEN Rest[BatchLimit + 1] ELSE Last(Scanned)

\* Where the next batch goes on: after the last hold of this one.
Boundary == Last(Scanned)

Quarantine(accounts) ==
  state' = [a \in Accounts |-> IF a \in accounts THEN "reconcile_required" ELSE state[a]]

Begun == IF sweep = NoSweep THEN {h \in KeyHolds : Beyond(h)} ELSE sweep.begun

SweepBatch ==
  /\ queue # <<>>
  /\ Quarantine(UNION {hold[h].on : h \in {g \in ToSet(Scanned) : Malformed(g)}})
  /\ sweep' = IF Len(Rest) > BatchLimit
              THEN [passes |-> TRUE, after |-> Boundary, begun |-> Begun,
                    through |-> IF sweep = NoSweep THEN Last(queue) ELSE sweep.through]
              ELSE NoSweep
  /\ UNCHANGED <<keyVars, version, balance, looseVars, holdVars, moved, historyVars>>

\* The cursor is lost with the process.
Crash ==
  /\ sweep # NoSweep
  /\ sweep' = NoSweep
  /\ UNCHANGED <<keyVars, accountVars, looseVars, holdVars, moved, historyVars>>

-----------------------------------------------------------------------------
UserNext ==
  \E u \in Users, n \in Amounts :
    \/ GrantUser(u, n)
    \/ GrantUser(u, -n)
    \/ PoolGrant(u, n)
    \/ PoolRead(u)

KeyNext ==
  \E k \in Keys :
    \/ \E n \in Amounts : \/ AllocateFromPool(k, n)
                          \/ GrantKey(k, n)
                          \/ AllocateFromUpstream(k, n)
                          \/ \E m \in Migrations : Migrate(m, k, n)
    \/ DisableKey(k)
    \/ EnableKey(k)
    \/ DeleteKey(k)

HoldNext ==
  \/ \E h \in UserHolds, n \in Amounts : ReserveUser(h, n)
  \/ \E h \in KeyHolds, n \in Amounts : ReserveKey(h, n)
  \/ \E h \in Holds :
       \/ Release(h)
       \/ Doubt(h)
       \/ \E actual \in Costs \cup {NoActual} : Commit(h, actual)
       \/ \E actual \in Costs : ReceiptSettles(h, actual)

Next == UserNext \/ KeyNext \/ HoldNext \/ SweepBatch \/ Crash

Spec == Init /\ [][Next]_vars

-----------------------------------------------------------------------------
(* Account rows appear with their first version, and every row of a hold's *)
(* group carries a version its account has had.                            *)
TypeOK ==
  /\ deleted \subseteq Keys /\ active \subseteq Keys
  /\ state \in [Accounts -> {"absent", "ready", "reconcile_required"}]
  /\ version \in [Accounts -> Nat]
  /\ \A a \in Accounts : state[a] = "absent" <=> version[a] = 0
  /\ balance \in [Accounts -> Int] /\ loose \in [Users -> Int] /\ rows \subseteq Users
  /\ \A h \in Holds :
       /\ hold[h].state \in {"absent", "held", "unknown", "released", "committed"}
       /\ hold[h].amount \in Nat /\ hold[h].cost \in Nat /\ hold[h].on \subseteq Accounts
       /\ \A s \in hold[h].stamps : s[1] \in hold[h].on /\ s[2] \in 1 .. version[s[1]]
  /\ ToSet(queue) = {h \in Holds : Made(h)}
  /\ Len(queue) = Cardinality(ToSet(queue))

\* What a hold has taken from each of its accounts, or from the user.
Taken(h) == CASE hold[h].state \in Open -> hold[h].amount
              [] hold[h].state = "committed" -> hold[h].cost
              [] OTHER -> 0

TakenFrom(S) == SumOver([h \in Holds |-> Taken(h)], S)

MovedBy(S) == SumOver([m \in Migrations |-> moved[m].amount], S)

MovesTo(k) == {m \in Migrations : moved[m] # NotMoved /\ moved[m].to = k}

HoldsOnPool(u) == {h \in KeyHolds : u \in hold[h].on}

(* No credit is counted twice or lost: adoption, migration, deletion,      *)
(* refunds to a hold whose rows were adopted meanwhile and receipts above  *)
(* a hold leave in each account what was given to it, less what its holds  *)
(* took; a user's rows without account and pool are one such account.      *)
QuotaBooks ==
  /\ \A k \in Keys :
       balance[k] = given[k] + MovedBy(MovesTo(k))
                    - TakenFrom({h \in KeyHolds : k \in hold[h].on})
  /\ \A u \in Users :
       loose[u] + balance[u] =
         given[u] - MovedBy(UNION {MovesTo(k) : k \in KeysOf(u)})
         - TakenFrom(HoldsOnPool(u) \cup {h \in UserHolds : HolderOf[h] = u /\ Made(h)})

\* What receipts took from a pool above the holds they settled.
Overrun(u) == SumOver([h \in Holds |-> Larger(0, hold[h].cost - hold[h].amount)], HoldsOnPool(u))

(* The pool of a user backs all that was allocated from it: what active    *)
(* keys have, held or not, is at most what the pool has, held or not, and  *)
(* what receipts took above their holds, as long as no key got credits     *)
(* elsewhere or came back with what it had.                                *)
PoolBacksKeys ==
  \A u \in Users \ outside :
    Allocated(u) <= balance[u] + TakenFrom({h \in HoldsOnPool(u) : hold[h].state \in Open})
                    + Overrun(u)

(* A pass that comes to its end has quarantined the accounts of every hold *)
(* that was malformed beyond repair when it began, although holds are      *)
(* made, settled and sorted in between its batches.                        *)
SweepComplete ==
  [][SweepBatch /\ sweep' = NoSweep =>
       \A h \in Begun : \A a \in hold[h].on : state'[a] = "reconcile_required"]_vars
=============================================================================
