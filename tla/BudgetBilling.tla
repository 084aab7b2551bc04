---------------------------- MODULE BudgetBilling ----------------------------
(***************************************************************************)
(* Budget V2 of the Core store: the operations that authorise, dispatch,   *)
(* execute, settle and release the paid steps of a request.                *)
(*                                                                         *)
(* Every operation of the store runs in one IMMEDIATE SQLite transaction   *)
(* under one mutex, so it is one action here; what interleaves are the     *)
(* calls of different router tasks, reconcilers and administrators, in any *)
(* order.  A call that returns an error or finds its work already done     *)
(* changes nothing: it is the absence of a step.                           *)
(*                                                                         *)
(* A variable is a column: a function from the request that owns the row   *)
(* to the value of the column, with "absent" for a row not yet inserted.   *)
(* A request has at most one step, one reservation and one settlement, so  *)
(* the rows of these tables share the request's identity.                  *)
(***************************************************************************)
EXTENDS Integers, Sequences, FiniteSets, Sums

CONSTANTS
  Videos,         \* client requests to the videos endpoint
  Chats,          \* client requests to the chat endpoint
  Children,       \* assist requests, each made for one video request
  ParentOf,       \* the video request an assist request is made for
  Keys,           \* API keys
  KeyOf,          \* the key that sent a client request
  Users,          \* owners of keys
  OwnerOf,        \* the owner of a key
  CappedUsers,    \* users with a user_cap budget account
  Granted,        \* credits granted to each budget account
  MaxConcurrency, \* api_keys.max_concurrency
  IdRank,         \* the order of request ids, arbitrary with respect to time
  HoldChoices,    \* amounts a bridge may ask Core to hold
  Lifetimes,      \* how long after its admission an authorization may expire
  Tasks,          \* video tasks of the bridge
  NoTask,
  ReceiptsFor,    \* the receipts a bridge may present for each step
  NoReceipt,
  NoActual,       \* the NULL of actual_microcredits
  OpaqueHashes,   \* evidence hashes of conflicts the bridge declares itself
  MaxTick,        \* bound on the clock
  MaxRevision     \* bound on the authorizations one step may go through

Parents == Videos \cup Chats
Requests == Parents \cup Children
Accounts == Keys \cup CappedUsers

Receipt == [status : {"final", "failed_no_charge", "pending"},
            actual : Nat \cup {NoActual},
            task : Tasks \cup {NoTask}]

\* Requests, keys and users are different things, and assist requests are one to a video.
ASSUME IdentityAssumption ==
  /\ IsFiniteSet(Requests) /\ IsFiniteSet(Accounts)
  /\ Videos \cap Chats = {} /\ Parents \cap Children = {} /\ Keys \cap Users = {}
  /\ ParentOf \in [Children -> Videos]
  /\ \A c, d \in Children : ParentOf[c] = ParentOf[d] => c = d
  /\ KeyOf \in [Parents -> Keys]
  /\ OwnerOf \in [Keys -> Users]
  /\ CappedUsers \subseteq Users
  /\ IdRank \in [Parents -> Nat]
  /\ \A p, q \in Parents : IdRank[p] = IdRank[q] => p = q

ASSUME AmountAssumption ==
  /\ Granted \in [Accounts -> Nat]
  /\ MaxConcurrency \in [Keys -> Nat]
  /\ HoldChoices \subseteq Nat \ {0} /\ Lifetimes \subseteq Nat \ {0}
  /\ MaxTick \in Nat /\ MaxRevision \in Nat
  /\ NoActual \notin Int /\ NoTask \notin Tasks

\* The shape apply_budget_receipt demands before it looks at the database.
ASSUME ReceiptAssumption ==
  /\ ReceiptsFor \in [Requests -> SUBSET Receipt]
  /\ \A r \in Requests : \A rc \in ReceiptsFor[r] :
       /\ rc.status = "final" => rc.actual \in Nat
       /\ rc.status = "failed_no_charge" => rc.actual \in {0, NoActual}
       /\ rc.status = "pending" => rc.actual = NoActual
  /\ \A r \in Requests : ReceiptsFor[r] \cap OpaqueHashes = {}
  /\ NoReceipt \notin OpaqueHashes \cup UNION {ReceiptsFor[r] : r \in Requests}

VARIABLES
  request,     \* requests.state
  createdAt,   \* requests.created_at_ms
  preparation, \* budget_preparations.state, by parent
  operation,   \* budget_operations.execution_state, by parent
  execution,   \* budget_steps.execution_state
  attempted,   \* budget_steps.dispatch_attempted
  financial,   \* budget_steps.financial_state
  hold,        \* budget_steps.hold_microcredits
  task,        \* budget_steps.task_ref
  actual,      \* budget_steps.actual_microcredits
  expiresAt,   \* budget_steps.expires_at_ms
  reservation, \* quota_reservations.state
  reserved,    \* quota_reservations.amount
  revisions,   \* the holds of budget_authorization_revisions, oldest first
  ledger,      \* quota_ledger: the rows of each account for each request
  evidence,    \* budget_receipt_evidence
  settlement,  \* budget_settlements
  blocks,      \* api_key_billing_blocks
  activeKeys,  \* the keys whose api_keys.status is 'active'
  clock        \* wall clock, as coarse as created_at_ms can tell times apart

stepVars == <<execution, attempted, financial, hold, task, actual, expiresAt>>
moneyVars == <<reservation, reserved, revisions, ledger>>
receiptVars == <<evidence, settlement, blocks>>
requestVars == <<request, createdAt, preparation>>
vars == <<requestVars, operation, stepVars, moneyVars, receiptVars, activeKeys, clock>>

-----------------------------------------------------------------------------
(* States and the sets the code matches on.                                *)

Active == {"ready", "running", "unknown"}
Terminal == {"succeeded", "failed", "canceled"}
ExecutionState == {"absent"} \cup Active \cup Terminal
FinancialState == {"absent", "held", "unknown", "settled", "released", "conflict"}
ReservationState == {"absent", "held", "unknown", "committed", "released"}
OpenReservation == {"held", "unknown"}

\* The request states a Budget V2 request can rest in between two transactions.
RequestState == {"absent", "received", "reserved", "dispatched"} \cup Terminal
Occupying == {"received", "reserved", "dispatched"}

Operation(r) == IF r \in Children THEN ParentOf[r] ELSE r
Key(r) == KeyOf[Operation(r)]
AccountsOf(r) == {Key(r)} \cup ({OwnerOf[Key(r)]} \cap CappedUsers)
Steps(p) == {r \in Requests : Operation(r) = p /\ execution[r] # "absent"}

-----------------------------------------------------------------------------
(* Budget accounts.                                                        *)

Row(kind, amount, delta, revision) ==
  [kind |-> kind, amount |-> amount, delta |-> delta, revision |-> revision]

\* A slip in insert_reservation_budget_event: the user account's row is forgotten.
PostToKeyOnly(r, row) ==
  ledger' = [ledger EXCEPT ![Key(r)][r] = Append(@, row)]

\* The same row goes to the key's account and, if its owner has one, the user's.
Post(r, row) ==
  ledger' = [a \in Accounts |->
               IF a \in AccountsOf(r)
               THEN [ledger[a] EXCEPT ![r] = Append(@, row)]
               ELSE ledger[a]]

Deltas(rows) == SumOver([i \in DOMAIN rows |-> rows[i].delta], DOMAIN rows)
Commits(rows) ==
  SumOver([i \in DOMAIN rows |-> rows[i].amount], {i \in DOMAIN rows : rows[i].kind = "commit"})

\* The balances budget_balance_in_transaction derives from ledger and reservations.
Available(a) == Granted[a] + SumOver([r \in Requests |-> Deltas(ledger[a][r])], Requests)
Held(a) ==
  SumOver(reserved, {r \in Requests : a \in AccountsOf(r) /\ reservation[r] \in OpenReservation})
Settled(a) == SumOver([r \in Requests |-> Commits(ledger[a][r])], Requests)

\* A slip in reserve_dual: only the key's own balance is compared with the amount.
CoveredByKeyOnly(r, amount) == Available(Key(r)) >= amount

\* The smaller of the two balances covers the amount.
Covered(r, amount) == \A a \in AccountsOf(r) : Available(a) >= amount

\* reserve_dual_in_transaction: a request reserves once, and only what both accounts have.
Reservable(r, amount) == reservation[r] = "absent" /\ Covered(r, amount)

Reserve(r, amount) ==
  /\ reservation' = [reservation EXCEPT ![r] = "held"]
  /\ reserved' = [reserved EXCEPT ![r] = amount]
  /\ revisions' = [revisions EXCEPT ![r] = <<amount>>]
  /\ Post(r, Row("reserve", amount, -amount, 1))

-----------------------------------------------------------------------------
(* Admission.                                                              *)

Blocked(k) ==
  \/ k \in blocks
  \/ \E r \in Requests : Key(r) = k /\ financial[r] = "conflict"

Earlier(q, p) ==
  \/ createdAt[q] < createdAt[p]
  \/ createdAt[q] = createdAt[p] /\ IdRank[q] < IdRank[p]

ActiveOperations(k) == {p \in Parents : KeyOf[p] = k /\ operation[p] \in Active}

\* A slip in the admission count: every waiting request counts, not only earlier ones.
WaitingBesides(p) ==
  {q \in Parents : /\ KeyOf[q] = KeyOf[p] /\ q # p
                   /\ request[q] \in Occupying /\ operation[q] = "absent"}

\* Requests of the key that hold a slot without an operation.  One that is still only
\* received counts against p only if it arrived before p; assist requests never count.
WaitingBefore(p) ==
  {q \in Parents : /\ KeyOf[q] = KeyOf[p] /\ q # p
                   /\ request[q] \in Occupying /\ operation[q] = "absent"
                   /\ request[q] = "received" => Earlier(q, p)}

\* A slip in begin_budget_operation: the limit itself is let through.
ConcurrencyUpToLimit(p) ==
  Cardinality(ActiveOperations(KeyOf[p])) + Cardinality(WaitingBefore(p))
    <= MaxConcurrency[KeyOf[p]]

ConcurrencyLeft(p) ==
  Cardinality(ActiveOperations(KeyOf[p])) + Cardinality(WaitingBefore(p))
    < MaxConcurrency[KeyOf[p]]

AdmissibleKey(r) == Key(r) \in activeKeys /\ ~Blocked(Key(r))

\* The row begin_budget_operation and add_budget_step insert for an authorization.
InsertStep(r, amount, lifetime) ==
  /\ execution' = [execution EXCEPT ![r] = "ready"]
  /\ financial' = [financial EXCEPT ![r] = "held"]
  /\ hold' = [hold EXCEPT ![r] = amount]
  /\ expiresAt' = [expiresAt EXCEPT ![r] = clock + lifetime]
  /\ UNCHANGED <<attempted, task, actual>>

-----------------------------------------------------------------------------
(* The requests themselves.                                                *)

Init ==
  /\ request = [r \in Requests |-> "absent"]
  /\ createdAt = [r \in Requests |-> 0]
  /\ preparation = [p \in Parents |-> "absent"]
  /\ operation = [p \in Parents |-> "absent"]
  /\ execution = [r \in Requests |-> "absent"]
  /\ attempted = [r \in Requests |-> FALSE]
  /\ financial = [r \in Requests |-> "absent"]
  /\ hold = [r \in Requests |-> 0]
  /\ task = [r \in Requests |-> NoTask]
  /\ actual = [r \in Requests |-> NoActual]
  /\ expiresAt = [r \in Requests |-> 0]
  /\ reservation = [r \in Requests |-> "absent"]
  /\ reserved = [r \in Requests |-> 0]
  /\ revisions = [r \in Requests |-> <<>>]
  /\ ledger = [a \in Accounts |-> [r \in Requests |-> <<>>]]
  /\ evidence = [r \in Requests |-> {}]
  /\ settlement = [r \in Requests |-> NoReceipt]
  /\ blocks = {}
  /\ activeKeys = Keys
  /\ clock = 0

InsertRequest(r) ==
  /\ request[r] = "absent"
  /\ request' = [request EXCEPT ![r] = "received"]
  /\ createdAt' = [createdAt EXCEPT ![r] = clock]

\* begin_request: a new client request of an active key.
BeginRequest(p) ==
  /\ KeyOf[p] \in activeKeys
  /\ InsertRequest(p)
  /\ UNCHANGED <<preparation, operation, stepVars, moneyVars, receiptVars, activeKeys, clock>>

\* begin_budget_assist_request: the helper request of a received video request that has
\* no operation and no preparation yet, with the preparation that joins the two.
BeginAssist(c) ==
  LET p == ParentOf[c] IN
  /\ KeyOf[p] \in activeKeys
  /\ request[p] = "received"
  /\ reservation[p] = "absent" /\ operation[p] = "absent" /\ preparation[p] = "absent"
  /\ InsertRequest(c)
  /\ preparation' = [preparation EXCEPT ![p] = "open"]
  /\ UNCHANGED <<operation, stepVars, moneyVars, receiptVars, activeKeys, clock>>

\* Neither request of the preparation has left received, and nothing was reserved,
\* admitted or dispatched for either.
Unadmitted(c) ==
  LET p == ParentOf[c] IN
  /\ request[p] = "received" /\ request[c] = "received"
  /\ reservation[p] = "absent" /\ reservation[c] = "absent"
  /\ operation[p] = "absent"
  /\ ~attempted[p] /\ ~attempted[c]

FailPreparations(cs) ==
  /\ request' = [r \in Requests |->
                   IF r \in cs \cup {ParentOf[c] : c \in cs} THEN "failed" ELSE request[r]]
  /\ preparation' = [p \in Parents |->
                       IF p \in {ParentOf[c] : c \in cs} THEN "aborted" ELSE preparation[p]]
  /\ UNCHANGED <<createdAt, operation, stepVars, moneyVars, receiptVars, activeKeys, clock>>

OpenPreparation(c) == preparation[ParentOf[c]] = "open" /\ Unadmitted(c)

\* abort_budget_preparation_with_result
AbortPreparation(c) ==
  /\ OpenPreparation(c)
  /\ FailPreparations({c})

\* recover_abandoned_budget_preparations_before: all that were opened strictly before
\* the cutoff, in one transaction.
RecoverPreparations(cutoff) ==
  LET abandoned == {c \in Children : OpenPreparation(c) /\ createdAt[c] < cutoff} IN
  /\ abandoned # {}
  /\ FailPreparations(abandoned)

\* A received request no budget, preparation or relation points at.
Unowned(r) ==
  /\ request[r] = "received"
  /\ reservation[r] = "absent" /\ execution[r] = "absent"
  /\ r \in Parents /\ operation[r] = "absent" /\ preparation[r] = "absent"

FailRequests(rs) ==
  /\ request' = [r \in Requests |-> IF r \in rs THEN "failed" ELSE request[r]]
  /\ UNCHANGED <<createdAt, preparation, operation, stepVars, moneyVars, receiptVars,
                 activeKeys, clock>>

\* finish_unadmitted_request: the owner of the request gives it up.
FinishUnadmitted(p) ==
  /\ Unowned(p)
  /\ FailRequests({p})

\* recover_abandoned_pre_dispatch_requests, at startup: every such request old enough.
RecoverPreDispatch(cutoff) ==
  LET abandoned == {p \in Parents : Unowned(p) /\ createdAt[p] < cutoff} IN
  /\ abandoned # {}
  /\ FailRequests(abandoned)

-----------------------------------------------------------------------------
(* The integrity check of a step's event group, which dispatch runs first   *)
(* and the quota reconciler runs on everything: validate_v2_quota_event_group. *)

\* A group's initial reserve, one adjustment per later authorization, and the row that
\* ended the reservation: on both accounts of the request, and on no other.
LedgerExact(r) ==
  LET n == Len(revisions[r])
      ended == reservation[r] \in {"committed", "released"}
      rows(a) == ledger[a][r]
      adjustment(i) == revisions[r][i - 1] - revisions[r][i]
  IN
  /\ \A a \in Accounts \ AccountsOf(r) : rows(a) = <<>>
  /\ \A a \in AccountsOf(r) :
       /\ Len(rows(a)) = IF ended THEN n + 1 ELSE n
       /\ rows(a)[1] = Row("reserve", revisions[r][1], -revisions[r][1], 1)
       /\ \A i \in 2..n :
            rows(a)[i] = Row("adjust", IF adjustment(i) < 0 THEN -adjustment(i) ELSE adjustment(i),
                             adjustment(i), i)
       /\ reservation[r] = "released" =>
            rows(a)[n + 1] = Row("release", reserved[r], reserved[r], n)
       /\ reservation[r] = "committed" =>
            rows(a)[n + 1] = Row("commit", actual[r], hold[r] - actual[r], n)

StatesAgree(r) ==
  /\ <<reservation[r], financial[r]>> \in
       {<<"held", "held">>, <<"held", "conflict">>, <<"unknown", "unknown">>,
        <<"unknown", "conflict">>, <<"released", "released">>,
        <<"committed", "settled">>, <<"committed", "conflict">>}
  /\ reservation[r] = "committed" <=> actual[r] # NoActual
  /\ reservation[r] = "released" => ~attempted[r]
  /\ reservation[r] = "committed" => attempted[r] /\ actual[r] >= 0

EvidenceRow(kind, hash, amount) == [kind |-> kind, hash |-> hash, actual |-> amount]
NoChargeOrZero(amount) == IF amount = NoActual THEN 0 ELSE amount

\* An evidence row has the shape of the receipt its hash stands for; conflict rows keep
\* the amount as reported, receipt rows of a settled no-charge keep zero.
EvidenceShaped(r, e) ==
  IF e.hash \in OpaqueHashes
  THEN e.kind = "conflict" /\ e.actual = NoActual
  ELSE /\ e.hash \in ReceiptsFor[r]
       /\ e.kind = "receipt" /\ e.hash.status = "failed_no_charge" => e.actual = 0
       /\ e.kind = "receipt" /\ e.hash.status # "failed_no_charge" => e.actual = e.hash.actual
       /\ e.kind = "conflict" => e.hash.status # "pending" /\ e.actual = e.hash.actual

\* A settled video was charged for the very task Core knows, or failed before it had one.
SettledForTask(r) ==
  r \in Videos =>
    \/ settlement[r].status = "final" /\ task[r] # NoTask /\ settlement[r].task = task[r]
    \/ /\ settlement[r].status = "failed_no_charge"
       /\ task[r] = NoTask /\ settlement[r].task = NoTask

SettlementExact(r) ==
  IF reservation[r] = "committed"
  THEN /\ settlement[r] # NoReceipt
       /\ actual[r] = NoChargeOrZero(settlement[r].actual)
       /\ EvidenceRow("receipt", settlement[r], actual[r]) \in evidence[r]
       /\ SettledForTask(r)
  ELSE settlement[r] = NoReceipt

EventGroupValid(r) ==
  /\ hold[r] = reserved[r]
  /\ revisions[r] # <<>> /\ revisions[r][Len(revisions[r])] = reserved[r]
  /\ r \in Children => preparation[ParentOf[r]] = "admitted"
  /\ StatesAgree(r)
  /\ LedgerExact(r)
  /\ SettlementExact(r)
  /\ \A e \in evidence[r] : EvidenceShaped(r, e)
  /\ financial[r] = "conflict" <=> \E e \in evidence[r] : e.kind = "conflict"

-----------------------------------------------------------------------------
(* Admitting, dispatching and releasing a step.                            *)

\* An assist step needs the open preparation that names it; any other first step needs
\* that there is none.
PreparationAllows(p, r) ==
  IF r \in Children THEN preparation[p] = "open" ELSE preparation[p] = "absent"

\* A slip in begin_budget_operation: the preparation is not marked admitted.
LeaveOpen(p) == UNCHANGED preparation

AdmitPreparation(p) ==
  preparation' = [preparation EXCEPT ![p] = IF @ = "open" THEN "admitted" ELSE @]

\* begin_budget_operation: r is the request the authorization names, the parent itself
\* or its assist request.
BeginOperation(r, amount, lifetime) ==
  LET p == Operation(r) IN
  /\ operation[p] = "absent"
  /\ PreparationAllows(p, r)
  /\ request[p] = "received" /\ request[r] = "received"
  /\ AdmissibleKey(r)
  /\ reservation[p] = "absent"
  /\ ConcurrencyLeft(p)
  /\ Reservable(r, amount)
  /\ Reserve(r, amount)
  /\ operation' = [operation EXCEPT ![p] = "ready"]
  /\ InsertStep(r, amount, lifetime)
  /\ request' = [request EXCEPT ![p] = "reserved"]
  /\ AdmitPreparation(p)
  /\ UNCHANGED <<createdAt, receiptVars, activeKeys, clock>>

AssistDone(p) ==
  \A c \in Children : ParentOf[c] = p => execution[c] \in {"absent"} \cup Terminal

\* add_budget_step: the parent's own step, after its assist step has ended.
AddStep(p, amount, lifetime) ==
  /\ operation[p] \in Active
  /\ execution[p] = "absent"
  /\ p \in Videos => AssistDone(p)
  /\ request[p] = "reserved"
  /\ AdmissibleKey(p)
  /\ Reservable(p, amount)
  /\ Reserve(p, amount)
  /\ InsertStep(p, amount, lifetime)
  /\ UNCHANGED <<requestVars, operation, receiptVars, activeKeys, clock>>

\* A slip in the two operations on an unsent step: it only has to hold its credits.
StillHeld(r) == financial[r] = "held"

\* The step was never sent, never ended and still holds its credits.
Unsent(r) == ~attempted[r] /\ execution[r] = "ready" /\ financial[r] = "held"

\* mark_budget_step_dispatched
Dispatch(r) ==
  LET p == Operation(r) IN
  /\ execution[r] # "absent"
  /\ EventGroupValid(r)
  /\ Unsent(r)
  /\ expiresAt[r] > clock
  /\ operation[p] \in {"ready", "running"}
  /\ AdmissibleKey(r)
  /\ Covered(r, 0)
  /\ request[r] \in {"received", "reserved"}
  /\ request' = [request EXCEPT ![r] = "dispatched"]
  /\ attempted' = [attempted EXCEPT ![r] = TRUE]
  /\ execution' = [execution EXCEPT ![r] = "running"]
  /\ operation' = [operation EXCEPT ![p] = "running"]
  /\ UNCHANGED <<createdAt, preparation, financial, hold, task, actual, expiresAt,
                 moneyVars, receiptVars, activeKeys, clock>>

\* sync_assist_request_execution: an assist request ends with its step, and can succeed
\* only once it was dispatched.
SyncAssist(r, state) ==
  IF r \in Children
  THEN /\ request[r] \in {"dispatched", state} \/ (request[r] = "received" /\ state # "succeeded")
       /\ request' = [request EXCEPT ![r] = state]
  ELSE UNCHANGED request

\* A slip in release_unattempted_budget_step: a step that was sent is released as well.
HeldAndEnded(r) ==
  /\ execution[r] \in {"ready", "failed", "canceled"}
  /\ financial[r] = "held" /\ reservation[r] = "held"

Releasable(r) ==
  /\ ~attempted[r]
  /\ execution[r] \in {"ready", "failed", "canceled"}
  /\ financial[r] = "held" /\ reservation[r] = "held"

\* release_unattempted_budget_step: the operation keeps its state and its slot.
Release(r) ==
  /\ Releasable(r)
  /\ IF execution[r] = "ready"
     THEN SyncAssist(r, "canceled") /\ execution' = [execution EXCEPT ![r] = "canceled"]
     ELSE UNCHANGED <<request, execution>>
  /\ reservation' = [reservation EXCEPT ![r] = "released"]
  /\ Post(r, Row("release", reserved[r], reserved[r], Len(revisions[r])))
  /\ financial' = [financial EXCEPT ![r] = "released"]
  /\ UNCHANGED <<createdAt, preparation, operation, attempted, hold, task, actual, expiresAt,
                 reserved, revisions, receiptVars, activeKeys, clock>>

-----------------------------------------------------------------------------
(* Execution.                                                              *)

\* A task is bound once, and not to a step that ended without a video.
Bindable(r) ==
  /\ r \in Videos /\ attempted[r] /\ task[r] = NoTask
  /\ execution[r] \notin {"failed", "canceled"}

\* bind_budget_video_task
BindTask(r, t) ==
  /\ Bindable(r)
  /\ task' = [task EXCEPT ![r] = t]
  /\ UNCHANGED <<requestVars, operation, execution, attempted, financial, hold, actual, expiresAt,
                 moneyVars, receiptVars, activeKeys, clock>>

\* What was never sent can only fail or be canceled; what was sent may be reported in any
\* state until it ends; a video has succeeded only if its task is known.
Reportable(r, next) ==
  /\ execution[r] \in Active /\ execution[r] # next
  /\ execution[r] = "ready" => ~attempted[r] /\ next \in {"failed", "canceled"}
  /\ execution[r] \in {"running", "unknown"} => attempted[r]
  /\ r \in Videos /\ next = "succeeded" => task[r] # NoTask

\* A slip in mark_budget_step_execution: every report reaches the assist request.
SyncEveryReport(r, next) == SyncAssist(r, next)

SyncIfEnded(r, next) == IF next \in Terminal THEN SyncAssist(r, next) ELSE UNCHANGED request

\* mark_budget_step_execution
MarkExecution(r, next) ==
  LET p == Operation(r) IN
  /\ Reportable(r, next)
  /\ operation[p] \in Active
  /\ SyncIfEnded(r, next)
  /\ execution' = [execution EXCEPT ![r] = next]
  /\ operation' = [operation EXCEPT ![p] = IF next = "unknown" THEN "unknown" ELSE "running"]
  /\ UNCHANGED <<createdAt, preparation, attempted, financial, hold, task, actual, expiresAt,
                 moneyVars, receiptVars, activeKeys, clock>>

\* A slip in finish_budget_execution: one finished step is taken for all of them.
SomeStepEnded(p) == \E r \in Steps(p) : execution[r] \in Terminal

EveryStepEnded(p) == Steps(p) # {} /\ \A r \in Steps(p) : execution[r] \in Terminal

Finishable(p) == operation[p] \in Active /\ EveryStepEnded(p)

\* finish_budget_execution_with_result: the operation and the parent request end together.
Finish(p, terminal) ==
  /\ Finishable(p)
  /\ request[p] \in Occupying \cup {terminal}
  /\ request' = [request EXCEPT ![p] = terminal]
  /\ operation' = [operation EXCEPT ![p] = terminal]
  /\ UNCHANGED <<createdAt, preparation, stepVars, moneyVars, receiptVars, activeKeys, clock>>

-----------------------------------------------------------------------------
(* Receipts.                                                               *)

\* INSERT OR IGNORE under the unique (request, evidence_hash).
Record(r, row) ==
  evidence' = [evidence EXCEPT ![r] =
                 IF \E e \in @ : e.hash = row.hash THEN @ ELSE @ \cup {row}]

\* A slip in the conflict update: a step that was settled before stays settled.
OpenInConflict(r) ==
  financial' = [financial EXCEPT ![r] = IF @ \in {"held", "unknown"} THEN "conflict" ELSE @]

\* Whatever its credits have come to, unless they were returned.
StepInConflict(r) ==
  financial' = [financial EXCEPT ![r] = IF @ = "released" THEN @ ELSE "conflict"]

\* The step is put in conflict and its key is blocked.
Quarantine(r) ==
  /\ StepInConflict(r)
  /\ blocks' = blocks \cup {Key(r)}
  /\ UNCHANGED <<requestVars, operation, execution, attempted, hold, task, actual, expiresAt,
                 moneyVars, settlement, activeKeys, clock>>

\* mark_budget_receipt_conflict: the bridge itself reports contradicting evidence.
MarkConflict(r, hash) ==
  /\ attempted[r]
  /\ ~ \E e \in evidence[r] : e.hash = hash
  /\ Record(r, EvidenceRow("conflict", hash, NoActual))
  /\ Quarantine(r)

\* A receipt counts only for a step that was sent; a video's final amount waits until
\* the task is bound; and what was recorded as reported before is not applied again.
Fresh(r, rc) ==
  /\ attempted[r]
  /\ r \in Videos /\ rc.status = "final" => task[r] # NoTask
  /\ ~ \E e \in evidence[r] : e.hash = rc /\ e.actual = rc.actual

WrongTask(r, rc) ==
  /\ r \in Videos
  /\ \/ rc.status = "final" /\ rc.task # task[r]
     \/ rc.status = "failed_no_charge" /\ (task[r] # NoTask \/ rc.task # NoTask)

IsFinal(rc) == rc.status \in {"final", "failed_no_charge"}

\* apply_budget_receipt, a final receipt that contradicts the task or the settlement.
ConflictingReceipt(r, rc) ==
  /\ Fresh(r, rc)
  /\ IsFinal(rc)
  /\ \/ WrongTask(r, rc)
     \/ settlement[r] # NoReceipt /\ rc # settlement[r]
  /\ Record(r, EvidenceRow("conflict", rc, rc.actual))
  /\ Quarantine(r)

\* apply_budget_receipt, a receipt without an amount after the settlement: only kept.
LatePendingReceipt(r, rc) ==
  /\ Fresh(r, rc)
  /\ ~IsFinal(rc)
  /\ settlement[r] # NoReceipt
  /\ Record(r, EvidenceRow("receipt", rc, rc.actual))
  /\ UNCHANGED <<requestVars, operation, stepVars, moneyVars, settlement, blocks, activeKeys, clock>>

\* apply_budget_receipt, a receipt without an amount: the credits stay held, as unknown.
PendingReceipt(r, rc) ==
  /\ Fresh(r, rc)
  /\ ~IsFinal(rc)
  /\ settlement[r] = NoReceipt
  /\ financial[r] \in {"held", "unknown"} /\ reservation[r] \in OpenReservation
  /\ Record(r, EvidenceRow("receipt", rc, rc.actual))
  /\ reservation' = [reservation EXCEPT ![r] = "unknown"]
  /\ financial' = [financial EXCEPT ![r] = "unknown"]
  /\ UNCHANGED <<requestVars, operation, execution, attempted, hold, task, actual, expiresAt,
                 reserved, revisions, ledger, settlement, blocks, activeKeys, clock>>

\* A slip in the settlement: a step in conflict is settled by the next final receipt.
SettleableInConflict(r) ==
  financial[r] \in {"held", "unknown", "conflict"} /\ reservation[r] \in OpenReservation

Settleable(r) == financial[r] \in {"held", "unknown"} /\ reservation[r] \in OpenReservation

\* apply_budget_receipt, the receipt that settles: the hold ends, the accounts are charged
\* the actual amount, even beyond the hold and beyond what they have.
SettlingReceipt(r, rc) ==
  LET amount == NoChargeOrZero(rc.actual) IN
  /\ Fresh(r, rc)
  /\ IsFinal(rc)
  /\ ~WrongTask(r, rc)
  /\ settlement[r] = NoReceipt
  /\ Settleable(r)
  /\ Record(r, EvidenceRow("receipt", rc, amount))
  /\ reservation' = [reservation EXCEPT ![r] = "committed"]
  /\ Post(r, Row("commit", amount, hold[r] - amount, Len(revisions[r])))
  /\ financial' = [financial EXCEPT ![r] = "settled"]
  /\ actual' = [actual EXCEPT ![r] = amount]
  /\ settlement' = [settlement EXCEPT ![r] = rc]
  /\ UNCHANGED <<requestVars, operation, execution, attempted, hold, task, expiresAt,
                 reserved, revisions, blocks, activeKeys, clock>>

-----------------------------------------------------------------------------
(* Replacing an authorization, and the world around the store.             *)

\* A slip in the refresh: the new hold is not compared with what is left.
RaiseCoveredByAnyBalance(r, amount) == Covered(r, 0)

RaiseCovered(r, amount) == Covered(r, IF amount > hold[r] THEN amount - hold[r] ELSE 0)

\* refresh_budget_authorization: the bridge canceled the budget of a step that was never
\* sent and authorised another; the reservation stays and its amount moves.
Refresh(r, amount, lifetime) ==
  LET p == Operation(r)
      change == hold[r] - amount
      revision == Len(revisions[r]) + 1 IN
  /\ Unsent(r)
  /\ revision <= MaxRevision
  /\ operation[p] \in Active /\ request[p] \notin Terminal
  /\ AdmissibleKey(r)
  /\ reservation[r] = "held" /\ reserved[r] = hold[r]
  /\ RaiseCovered(r, amount)
  /\ hold' = [hold EXCEPT ![r] = amount]
  /\ reserved' = [reserved EXCEPT ![r] = amount]
  /\ Post(r, Row("adjust", IF change < 0 THEN -change ELSE change, change, revision))
  /\ revisions' = [revisions EXCEPT ![r] = Append(@, amount)]
  /\ expiresAt' = [expiresAt EXCEPT ![r] = clock + lifetime]
  /\ UNCHANGED <<requestVars, operation, execution, attempted, financial, task, actual,
                 reservation, receiptVars, activeKeys, clock>>

\* revoke_api_key: an administrator may do it at any time.
RevokeKey(k) ==
  /\ k \in activeKeys
  /\ activeKeys' = activeKeys \ {k}
  /\ UNCHANGED <<requestVars, operation, stepVars, moneyVars, receiptVars, clock>>

Tick ==
  /\ clock < MaxTick
  /\ clock' = clock + 1
  /\ UNCHANGED <<requestVars, operation, stepVars, moneyVars, receiptVars, activeKeys>>

RequestStep ==
  \/ \E p \in Parents : BeginRequest(p) \/ FinishUnadmitted(p)
  \/ \E c \in Children : BeginAssist(c) \/ AbortPreparation(c)
  \/ \E cutoff \in 0..clock : RecoverPreparations(cutoff) \/ RecoverPreDispatch(cutoff)

BudgetStep ==
  \/ \E r \in Requests, amount \in HoldChoices, lifetime \in Lifetimes :
       BeginOperation(r, amount, lifetime) \/ Refresh(r, amount, lifetime)
  \/ \E p \in Parents, amount \in HoldChoices, lifetime \in Lifetimes :
       AddStep(p, amount, lifetime)
  \/ \E r \in Requests : Dispatch(r) \/ Release(r)

ExecutionStep ==
  \/ \E r \in Videos, t \in Tasks : BindTask(r, t)
  \/ \E r \in Requests, next \in {"running", "unknown"} \cup Terminal : MarkExecution(r, next)
  \/ \E p \in Parents, terminal \in Terminal : Finish(p, terminal)

ReceiptStep ==
  \E r \in Requests :
    \/ \E hash \in OpaqueHashes : MarkConflict(r, hash)
    \/ \E rc \in ReceiptsFor[r] :
         ConflictingReceipt(r, rc) \/ LatePendingReceipt(r, rc) \/ PendingReceipt(r, rc)
           \/ SettlingReceipt(r, rc)

Environment == (\E k \in Keys : RevokeKey(k)) \/ Tick

Next == RequestStep \/ BudgetStep \/ ExecutionStep \/ ReceiptStep \/ Environment

Spec == Init /\ [][Next]_vars

-----------------------------------------------------------------------------
(* Properties.                                                             *)

LedgerRow ==
  [kind : {"reserve", "adjust", "release", "commit"}, amount : Nat, delta : Int, revision : Nat]

RequestTypeOK ==
  /\ request \in [Requests -> RequestState]
  /\ createdAt \in [Requests -> Nat]
  /\ preparation \in [Parents -> {"absent", "open", "admitted", "aborted"}]
  /\ operation \in [Parents -> ExecutionState]

StepTypeOK ==
  /\ execution \in [Requests -> ExecutionState]
  /\ attempted \in [Requests -> BOOLEAN]
  /\ financial \in [Requests -> FinancialState]
  /\ hold \in [Requests -> Nat]
  /\ task \in [Requests -> Tasks \cup {NoTask}]
  /\ actual \in [Requests -> Nat \cup {NoActual}]
  /\ expiresAt \in [Requests -> Nat]

MoneyTypeOK ==
  /\ reservation \in [Requests -> ReservationState]
  /\ reserved \in [Requests -> Nat]
  /\ revisions \in [Requests -> Seq(Nat)]
  /\ ledger \in [Accounts -> [Requests -> Seq(LedgerRow)]]

ReceiptTypeOK ==
  /\ evidence \in [Requests -> SUBSET [kind : {"receipt", "conflict"},
                                       hash : Receipt \cup OpaqueHashes,
                                       actual : Nat \cup {NoActual}]]
  /\ settlement \in [Requests -> Receipt \cup {NoReceipt}]
  /\ blocks \subseteq Keys

\* Every column holds values of its type: above all, a request rests only in the states
\* Budget V2 leaves it in, never in one of those its transactions pass through.
TypeOK ==
  /\ RequestTypeOK
  /\ StepTypeOK
  /\ MoneyTypeOK
  /\ ReceiptTypeOK
  /\ activeKeys \subseteq Keys
  /\ clock \in Nat

\* No credit appears or vanishes: what an account has left, what its requests hold and
\* what they were charged add up to its grant, whatever was adjusted, released or overrun.
Conservation ==
  \A a \in Accounts : Available(a) + Held(a) + Settled(a) = Granted[a]

Charged(a) == {r \in Requests : a \in AccountsOf(r) /\ reservation[r] = "committed"}
WithinHold(r) == IF actual[r] < reserved[r] THEN actual[r] ELSE reserved[r]

\* Core never promises more than was granted, on the key or on the user it belongs to:
\* the holds it still honours and the part of each charge that stayed within its hold
\* fit in the grant.  Only an actual amount beyond its hold puts an account in debt.
PromisesCovered ==
  \A a \in Accounts :
    Held(a) + SumOver([r \in Charged(a) |-> WithinHold(r)], Charged(a)) <= Granted[a]

\* No order of calls leaves an event group the reconciler would quarantine the accounts
\* for, as long as the bridge does not name a task for a video it declared uncharged.
TaskAfterNoCharge(r) ==
  settlement[r] # NoReceipt /\ settlement[r].status = "failed_no_charge" /\ task[r] # NoTask

LedgerAccepted ==
  \A r \in Requests :
    reservation[r] # "absent" /\ ~TaskAfterNoCharge(r) => EventGroupValid(r)

\* The same without that exception.  Core refuses a no-charge receipt for a video whose task
\* it knows, but not the task of a video whose no-charge receipt it has settled: then the
\* reconciler finds v2_video_settlement_task_mismatch and quarantines both accounts.
EveryGroupAccepted == \A r \in Requests : reservation[r] # "absent" => EventGroupValid(r)

\* A key never has more operations under way than its limit.
ConcurrencyBound == \A k \in Keys : Cardinality(ActiveOperations(k)) <= MaxConcurrency[k]

\* Waiting requests of a key do not keep one another out: when the key has a free slot
\* and nothing admitted without an operation, the first of them would be let in.
HeadOfLineAdmitted ==
  \A k \in Keys :
    LET waiting == {p \in Parents : KeyOf[p] = k /\ request[p] = "received"} IN
    waiting # {} /\ Cardinality(ActiveOperations(k)) < MaxConcurrency[k]
      => \E p \in waiting : ConcurrencyLeft(p)

\* The parent request, its operation and its steps end together: a closed operation has
\* only ended steps, and an assist request stands exactly where its step does.
EndsTogether ==
  /\ \A p \in Parents : operation[p] # "absent" =>
       /\ operation[p] \in Terminal =>
            /\ request[p] = operation[p]
            /\ \A r \in Requests : Operation(r) = p => execution[r] \in {"absent"} \cup Terminal
       /\ operation[p] \in Active => request[p] \in {"reserved", "dispatched"}
  /\ \A c \in Children : execution[c] # "absent" =>
       IF execution[c] \in Terminal THEN request[c] = execution[c]
       ELSE request[c] = IF attempted[c] THEN "dispatched" ELSE "received"

\* Of admission, abort and recovery of a preparation one wins: an assist step exists
\* exactly when its preparation was admitted, and an aborted one leaves no operation.
PreparationSettledOnce ==
  \A c \in Children :
    LET p == ParentOf[c] IN
    /\ preparation[p] = "admitted" <=> execution[c] # "absent"
    /\ preparation[p] = "aborted" => operation[p] = "absent" /\ request[p] = "failed"
    /\ preparation[p] = "open" => operation[p] = "absent" /\ request[p] = "received"

\* Once the evidence of a step contradicts itself, its money stays where it was found and
\* nothing is reserved or sent for its key any more.
ConflictFreezes ==
  [][\A r \in Requests :
       financial[r] = "conflict" =>
         /\ financial'[r] = "conflict" /\ reservation'[r] = reservation[r]
         /\ \A q \in Requests : Key(q) = Key(r) =>
              (attempted'[q] = attempted[q] /\ (reservation[q] = "absent" => reservation'[q] = "absent"))]_vars

\* The store keeps the promise of BudgetHold about the money of every step.
promise ==
  [r \in Requests |->
     CASE reservation[r] = "absent" -> "none"
       [] reservation[r] = "released" -> "returned"
       [] reservation[r] = "committed" -> "charged"
       [] OTHER -> IF attempted[r] THEN "sent" ELSE "held"]

Hold == INSTANCE BudgetHold WITH amount <- reserved, charge <- actual, NoCharge <- NoActual

HoldKept == Hold!Spec
=============================================================================
