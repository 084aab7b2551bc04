------------------------- MODULE ControlledBilling -------------------------
(***************************************************************************)
(* Controlled (unquoted) billing, v1: Core holds everything a key has left *)
(* for one operation at a time, sends the request without an upstream      *)
(* price, and charges the sum of the receipts its steps turn out to have.  *)
(*                                                                         *)
(* The Core store's operations are single transactions.  What interleaves  *)
(* are the handlers of the router, one thread to a client request, the     *)
(* reconciler that walks open operations and video jobs, and clients that  *)
(* poll their video.  A handler or a reconciler may read, call the bridge  *)
(* and write in turn: each of its transactions is a step, and what it read *)
(* before a call is kept in at or work and may be stale when it is used.   *)
(* A restart ends every thread; the store and the file of jobs stay.       *)
(*                                                                         *)
(* The bridge is the environment: what became of a send, the task it made, *)
(* and the receipts it publishes, the first of which may be contradicted   *)
(* by another.                                                             *)
(***************************************************************************)
EXTENDS Integers, Sequences, FiniteSets, FiniteSetsExt, Sums

CONSTANTS
  Chats,          \* text requests
  Seedances,      \* video requests of the chat endpoint, with an assist step
  Natives,        \* requests of the videos endpoint
  Children,       \* assist requests, one to a Seedance request
  ParentOf,       \* the Seedance request an assist request is made for
  Clients,        \* clients that poll their videos
  Keys,           \* API keys
  KeyOf,          \* the key that sent a request
  Users,          \* owners of keys
  OwnerOf,        \* the owner of a key
  CappedUsers,    \* users with a user_cap budget account
  Granted,        \* credits granted to each budget account at the start
  GrantAmounts,   \* what an administrator may add to a key
  MaxGranted,     \* bound on the credits of a key's account
  MaxConcurrency, \* api_keys.max_concurrency
  ReceiptsFor,    \* the receipts the bridge may publish for each step
  NoReceipt,
  MaxContradictions, \* bound on the receipts published beside the first of a step
  NoActual,       \* the NULL of actual_microcredits
  MaxRestarts     \* bound on the restarts of the router

Videos == Seedances \cup Natives
Requests == Chats \cup Videos
Steps == Requests \cup Children
Accounts == Keys \cup CappedUsers

\* The two statuses the bridge client lets through; a video task is named or not.
Receipt == [status : {"final", "failed_no_charge"}, actual : Nat, task : BOOLEAN]

ASSUME ControlledIdentities ==
  /\ IsFiniteSet(Steps) /\ IsFiniteSet(Accounts)
  /\ Chats \cap Videos = {} /\ Seedances \cap Natives = {} /\ Requests \cap Children = {}
  /\ ParentOf \in [Children -> Seedances]
  /\ \A r \in Seedances : \E c \in Children : ParentOf[c] = r
  /\ \A c, d \in Children : ParentOf[c] = ParentOf[d] => c = d
  /\ KeyOf \in [Requests -> Keys] /\ OwnerOf \in [Keys -> Users]
  /\ CappedUsers \subseteq Users /\ Keys \cap Users = {}
  /\ "reconciler" \notin Clients

ASSUME ControlledAmounts ==
  /\ Granted \in [Accounts -> Nat] /\ MaxConcurrency \in [Keys -> Nat]
  /\ GrantAmounts \subseteq Nat \ {0} /\ MaxGranted \in Nat
  /\ MaxContradictions \in Nat /\ MaxRestarts \in Nat /\ NoActual \notin Int

ASSUME ControlledReceipts ==
  /\ ReceiptsFor \in [Steps -> SUBSET Receipt]
  /\ NoReceipt \notin Receipt
  /\ \A s \in Steps : \A rc \in ReceiptsFor[s] :
       /\ rc.status = "failed_no_charge" => rc.actual = 0
       /\ rc.status = "final" => (rc.task <=> s \in Videos)

VARIABLES
  request,     \* requests.state, of client and assist requests
  arrivals,    \* the client requests in the order they were inserted
  operation,   \* controlled_billing_operations.state
  held,        \* controlled_billing_operations.held_microcredits
  charged,     \* controlled_billing_operations.actual_microcredits
  reservation, \* quota_reservations.state of the operation's hold
  posted,      \* the sum of a request's ledger rows on each of its accounts
  granted,     \* the sum of the grants of each account
  step,        \* controlled_billing_steps.state
  proof,       \* controlled_billing_steps.receipt_hash, as the receipt it is of
  named,       \* whether controlled_billing_steps.task_ref is set
  receipts,    \* billing_receipts of each step
  blocks,      \* api_key_billing_blocks
  job,         \* billing_state of the job under the task's own name
  lostJob,     \* billing_state of the job of a task whose name was lost
  at,          \* where the handler of a client request is
  work,        \* what the reconciler and a polling client are doing
  old,         \* operations created before this process started
  restarts,    \* restarts so far
  wire,        \* what became of the send of a step
  outcome,     \* whether the generation of a video ended, well or not
  published    \* the receipts the bridge answers with

recordVars == <<operation, reservation, step, proof, named, receipts, blocks>>
moneyVars == <<held, charged, posted, granted>>
jobVars == <<job, lostJob>>
bridgeVars == <<wire, outcome, published>>
processVars == <<old, restarts>>
vars == <<request, arrivals, recordVars, moneyVars, jobVars, at, work, processVars, bridgeVars>>

-----------------------------------------------------------------------------
Reconciler == "reconciler"
Pollers == {Reconciler} \cup Clients
Idle == [at |-> "idle"]

Open == {"held", "submitted", "unknown"}
OpenReservation == {"held", "unknown"}
Occupying == {"validating", "reserved", "dispatched", "unknown"}

Parent(s) == IF s \in Children THEN ParentOf[s] ELSE s
ChildOf(r) == CHOOSE c \in Children : ParentOf[c] = r
StepsOf(r) == {s \in Steps : Parent(s) = r}
AccountsOf(r) == {KeyOf[r]} \cup ({OwnerOf[KeyOf[r]]} \cap CappedUsers)

Available(a) == granted[a] + SumOver(posted, {r \in Requests : a \in AccountsOf(r)})

ArrivedBefore(q, r) ==
  \E i, j \in DOMAIN arrivals : arrivals[i] = q /\ arrivals[j] = r /\ i < j

\* active_execution_count_for_budget_admission_in_connection, of a key without Budget V2
ActiveBefore(r) ==
  {q \in Requests \ {r} : /\ KeyOf[q] = KeyOf[r]
                          /\ \/ request[q] \in Occupying
                             \/ request[q] = "received" /\ ArrivedBefore(q, r)}

\* mark_request_unknown, whose failure nobody looks at
Unsure(state) == IF state \in Occupying THEN "unknown" ELSE state

MarkUnknown(rs) == request' = [s \in Steps |-> IF s \in rs THEN Unsure(request[s]) ELSE request[s]]

Go(r, stage) == at' = [at EXCEPT ![r] = stage]
Turn(t, what) == work' = [work EXCEPT ![t] = what]

Init ==
  /\ request = [s \in Steps |-> "absent"]
  /\ arrivals = <<>>
  /\ operation = [r \in Requests |-> "absent"]
  /\ held = [r \in Requests |-> 0]
  /\ charged = [r \in Requests |-> NoActual]
  /\ reservation = [r \in Requests |-> "absent"]
  /\ posted = [r \in Requests |-> 0]
  /\ granted = Granted
  /\ step = [s \in Steps |-> "absent"]
  /\ proof = [s \in Steps |-> NoReceipt]
  /\ named = [s \in Steps |-> FALSE]
  /\ receipts = [s \in Steps |-> {}]
  /\ blocks = {}
  /\ job = [r \in Videos |-> "none"]
  /\ lostJob = [r \in Seedances |-> "none"]
  /\ at = [r \in Requests |-> "new"]
  /\ work = [t \in Pollers |-> Idle]
  /\ old = {}
  /\ restarts = 0
  /\ wire = [s \in Steps |-> "idle"]
  /\ outcome = [r \in Videos |-> "running"]
  /\ published = [s \in Steps |-> {}]

-----------------------------------------------------------------------------
(* The operations of controlled_billing.rs.                                *)

OpenOperations(k) == {r \in Requests : KeyOf[r] = k /\ operation[r] \in Open}

\* A slip in begin_controlled_operation: a key that has nothing left is let through.
AdmissibleWithNothing(r) ==
  /\ request[r] = "received"
  /\ KeyOf[r] \notin blocks
  /\ OpenOperations(KeyOf[r]) = {}
  /\ Cardinality(ActiveBefore(r)) < MaxConcurrency[KeyOf[r]]

\* A slip in begin_controlled_operation: another operation of the key is not looked for.
AdmissibleBesidesOthers(r) ==
  /\ request[r] = "received"
  /\ KeyOf[r] \notin blocks
  /\ Cardinality(ActiveBefore(r)) < MaxConcurrency[KeyOf[r]]
  /\ Available(KeyOf[r]) > 0

Admissible(r) ==
  /\ request[r] = "received"
  /\ KeyOf[r] \notin blocks
  /\ OpenOperations(KeyOf[r]) = {}
  /\ Cardinality(ActiveBefore(r)) < MaxConcurrency[KeyOf[r]]
  /\ Available(KeyOf[r]) > 0

\* begin_controlled_operation: everything the key has left, if the owner has it too
BeginOperation(r) ==
  LET amount == Available(KeyOf[r]) IN
  /\ Admissible(r)
  /\ \A a \in AccountsOf(r) : Available(a) >= amount
  /\ request' = [request EXCEPT ![r] = "reserved"]
  /\ operation' = [operation EXCEPT ![r] = "held"]
  /\ reservation' = [reservation EXCEPT ![r] = "held"]
  /\ held' = [held EXCEPT ![r] = amount]
  /\ posted' = [posted EXCEPT ![r] = @ - amount]

\* mark_controlled_step_dispatched: before every send, and only while nothing is unsure
Markable(s) == operation[Parent(s)] \in {"held", "submitted"} /\ step[s] = "absent"

MarkStep(s) ==
  /\ Markable(s)
  /\ step' = [step EXCEPT ![s] = "pending"]
  /\ operation' = [operation EXCEPT ![Parent(s)] = "submitted"]
  /\ UNCHANGED <<reservation, proof, named, receipts, blocks>>

\* bind_controlled_video_task
Bindable(r) == step[r] \in {"pending", "unknown"} /\ operation[r] \in {"submitted", "unknown"}

BindTask(r) ==
  /\ Bindable(r)
  /\ named' = [named EXCEPT ![r] = TRUE]
  /\ UNCHANGED <<operation, reservation, step, proof, receipts, blocks>>

\* record_controlled_step answers Duplicate, writes, records a contradiction, or fails:
\* the receipt is the one that was contradicted before, or its row exists already.
Duplicate(s, rc) == proof[s] = rc /\ step[s] = "verified"

AlreadyVerified(s) == step[s] = "verified" \/ operation[Parent(s)] = "settled"
Fresh(s, rc) == proof[s] # rc /\ rc \notin receipts[s]
Verifies(s, rc) == Fresh(s, rc) /\ ~AlreadyVerified(s)
Contradicts(s, rc) == Fresh(s, rc) /\ AlreadyVerified(s)

\* A slip in the callers of record_controlled_step: a repeated receipt is no success.
AcceptedOnce(s, rc) == Verifies(s, rc)

Accepted(s, rc) == Duplicate(s, rc) \/ Verifies(s, rc)

Record(s, rc) ==
  \/ /\ Verifies(s, rc)
     /\ step' = [step EXCEPT ![s] = "verified"]
     /\ proof' = [proof EXCEPT ![s] = rc]
     /\ named' = [named EXCEPT ![s] = rc.task]
     /\ receipts' = [receipts EXCEPT ![s] = @ \cup {rc}]
     /\ UNCHANGED <<operation, reservation, blocks>>
  \/ /\ Contradicts(s, rc)
     /\ step' = [step EXCEPT ![s] = "conflict"]
     /\ receipts' = [receipts EXCEPT ![s] = @ \cup {rc}]
     /\ blocks' = blocks \cup {KeyOf[Parent(s)]}
     /\ IF operation[Parent(s)] = "settled"
        THEN UNCHANGED <<operation, reservation>>
        ELSE /\ operation' = [operation EXCEPT ![Parent(s)] = "unknown"]
             /\ reservation' = [reservation EXCEPT ![Parent(s)] = "unknown"]
     /\ UNCHANGED <<proof, named>>
  \/ /\ ~Fresh(s, rc)
     /\ UNCHANGED recordVars

\* The microcredits of the receipt each step was verified by.
Costs == [s \in Steps |-> IF proof[s] = NoReceipt THEN 0 ELSE proof[s].actual]

\* The microcredits of all receipts the operation's steps were verified by.
Total(r) == SumOver(Costs, {s \in StepsOf(r) : step[s] = "verified"})

\* A slip in finish_controlled_operation: an unverified helper is taken for a free one.
OwnStepVerified(r, video) == step[r] \in {"absent", "verified"} /\ (r \in Videos => (video <=> step[r] = "verified"))

\* Every step that was marked has its receipt, and the caller knows whether there is a video.
Finishable(r, video) ==
  /\ \A s \in StepsOf(r) : step[s] \in {"absent", "verified"}
  /\ r \in Videos => (video <=> step[r] = "verified")

\* A slip in finish_controlled_operation: a cost above the hold freezes nothing.
FreezeNever(r) == blocks

\* What the operation cost beyond its hold freezes its key.
FreezeIfOver(r) == IF Total(r) > held[r] THEN blocks \cup {KeyOf[r]} ELSE blocks

\* A slip in finish_controlled_operation: a settled operation is settled again.
FinishAgain(r, video) ==
  /\ operation[r] # "absent" /\ Finishable(r, video)
  /\ operation' = [operation EXCEPT ![r] = "settled"]
  /\ reservation' = [reservation EXCEPT ![r] = "committed"]
  /\ charged' = [charged EXCEPT ![r] = Total(r)]
  /\ posted' = [posted EXCEPT ![r] = @ + held[r] - Total(r)]
  /\ blocks' = FreezeIfOver(r)
  /\ request' = [request EXCEPT ![r] = "settled"]
  /\ UNCHANGED <<step, proof, named, receipts, held, granted>>

\* finish_controlled_operation, of an operation settled before or now
Finish(r, video) ==
  \/ /\ operation[r] = "settled"
     /\ UNCHANGED <<recordVars, moneyVars, request>>
  \/ /\ operation[r] \in Open /\ reservation[r] \in OpenReservation
     /\ Finishable(r, video)
     /\ operation' = [operation EXCEPT ![r] = "settled"]
     /\ reservation' = [reservation EXCEPT ![r] = "committed"]
     /\ charged' = [charged EXCEPT ![r] = Total(r)]
     /\ posted' = [posted EXCEPT ![r] = @ + held[r] - Total(r)]
     /\ blocks' = FreezeIfOver(r)
     /\ request' = [request EXCEPT ![r] = "settled"]
     /\ UNCHANGED <<step, proof, named, receipts, held, granted>>

Finishes(r, video) ==
  operation[r] = "settled" \/ (operation[r] \in Open /\ reservation[r] \in OpenReservation /\ Finishable(r, video))

-----------------------------------------------------------------------------
(* The handler of a client request.                                        *)

GiveUp(r) == MarkUnknown({r}) /\ Go(r, "done")

\* begin_billed_request
Arrive(r) ==
  /\ at[r] = "new"
  /\ request' = [request EXCEPT ![r] = "received"]
  /\ arrivals' = Append(arrivals, r)
  /\ Go(r, "admit")
  /\ UNCHANGED <<recordVars, moneyVars, jobVars, work, processVars, bridgeVars>>

Admit(r) ==
  /\ at[r] = "admit"
  /\ BeginOperation(r)
  /\ Go(r, IF r \in Seedances THEN "helper" ELSE "mark")
  /\ UNCHANGED <<arrivals, step, proof, named, receipts, blocks, charged, granted,
                 jobVars, work, processVars, bridgeVars>>

\* finish_failed_quote_request, in two transactions: a stale snapshot, a balance the
\* upstream does not cover or any guard of the admission turns the request away.
Refuse(r) ==
  /\ at[r] = "admit"
  /\ request' = [request EXCEPT ![r] = "validating"]
  /\ Go(r, "refused")
  /\ UNCHANGED <<arrivals, recordVars, moneyVars, jobVars, work, processVars, bridgeVars>>

EndRefused(r) ==
  /\ at[r] = "refused"
  /\ request' = [request EXCEPT ![r] = "failed"]
  /\ Go(r, "done")
  /\ UNCHANGED <<arrivals, recordVars, moneyVars, jobVars, work, processVars, bridgeVars>>

\* run_controlled_seedance_assist makes the helper request, and takes it to dispatched
CreateHelper(r) ==
  /\ at[r] = "helper"
  /\ request' = [request EXCEPT ![ChildOf(r)] = "received"]
  /\ Go(r, "dispatchHelper")
  /\ UNCHANGED <<arrivals, recordVars, moneyVars, jobVars, work, processVars, bridgeVars>>

DispatchHelper(r) ==
  /\ at[r] = "dispatchHelper"
  /\ request' = [request EXCEPT ![ChildOf(r)] = "dispatched"]
  /\ Go(r, "markHelper")
  /\ UNCHANGED <<arrivals, recordVars, moneyVars, jobVars, work, processVars, bridgeVars>>

MarkHelper(r) ==
  /\ at[r] = "markHelper"
  /\ MarkStep(ChildOf(r))
  /\ Go(r, "sendHelper")
  /\ UNCHANGED <<request, arrivals, moneyVars, jobVars, work, processVars, bridgeVars>>

\* What a send may come to: the bridge took it, refused it before any upstream attempt, or
\* never saw it.
Fate == {"arrived", "rejected", "lost"}

SendStep(s) == \E fate \in Fate : wire' = [wire EXCEPT ![s] = fate]

SendHelper(r) ==
  /\ at[r] = "sendHelper"
  /\ SendStep(ChildOf(r))
  /\ Go(r, "awaitHelper")
  /\ UNCHANGED <<request, arrivals, recordVars, moneyVars, jobVars, work, processVars,
                 outcome, published>>

\* The answer is a prompt, an error or an unreadable prompt, or does not come.
HelperAnswers(r) ==
  /\ at[r] = "awaitHelper"
  /\ \/ wire[ChildOf(r)] = "arrived" /\ Go(r, "helped") /\ UNCHANGED request
     \/ wire[ChildOf(r)] # "lost" /\ Go(r, "unhelped") /\ UNCHANGED request
     \/ MarkUnknown({r, ChildOf(r)}) /\ Go(r, "done")
  /\ UNCHANGED <<arrivals, recordVars, moneyVars, jobVars, work, processVars, bridgeVars>>

\* The receipt is asked for whatever the answer was; without one nothing more is sent.
HelperReceipt(r) ==
  LET c == ChildOf(r) IN
  /\ at[r] \in {"helped", "unhelped"}
  /\ \/ \E rc \in published[c] :
          /\ Record(c, rc)
          /\ IF Accepted(c, rc)
             THEN /\ Go(r, IF at[r] = "helped" THEN "paidHelp" ELSE "paidUnhelped")
                  /\ UNCHANGED request
             ELSE GiveUp(r)
     \/ UNCHANGED recordVars /\ MarkUnknown({r, c}) /\ Go(r, "done")
  /\ UNCHANGED <<arrivals, moneyVars, jobVars, work, processVars, bridgeVars>>

\* Something of the hold is left for the video.
HelperLeavesSome(r) == proof[ChildOf(r)].actual < held[r]

\* prepare_for_final_receipt and the last transitions of the helper request, which fail
\* when the reconciler settled it first; then the video, or the end of the operation.
SettleHelper(r) ==
  LET c == ChildOf(r) IN
  /\ at[r] \in {"paidHelp", "paidUnhelped"}
  /\ IF request[c] \in {"dispatched", "unknown"}
     THEN /\ request' = [request EXCEPT ![c] = "settled"]
          /\ \/ at[r] = "paidHelp" /\ HelperLeavesSome(r) /\ Go(r, "mark")
             \/ at[r] = "paidUnhelped" /\ Go(r, "finishHelper")
             \/ at[r] = "paidHelp" /\ Go(r, "finishHelper")
     ELSE GiveUp(r)
  /\ UNCHANGED <<arrivals, recordVars, moneyVars, jobVars, work, processVars, bridgeVars>>

FinishHelper(r) ==
  /\ at[r] = "finishHelper"
  /\ \/ Finish(r, FALSE)
     \/ ~Finishes(r, FALSE) /\ UNCHANGED <<recordVars, moneyVars>> /\ MarkUnknown({r})
  /\ Go(r, "done")
  /\ UNCHANGED <<arrivals, jobVars, work, processVars, bridgeVars>>

\* The request's own step is marked, then the request is moved to dispatched; the second
\* fails when the reconciler, which sees the step, found no receipt and marked the request.
MarkOwn(r) ==
  /\ at[r] = "mark"
  /\ \/ MarkStep(r) /\ Go(r, "dispatch") /\ UNCHANGED request
     \/ ~Markable(r) /\ UNCHANGED recordVars /\ GiveUp(r)
  /\ UNCHANGED <<arrivals, moneyVars, jobVars, work, processVars, bridgeVars>>

DispatchOwn(r) ==
  /\ at[r] = "dispatch"
  /\ IF request[r] = "reserved"
     THEN request' = [request EXCEPT ![r] = "dispatched"] /\ Go(r, "send")
     ELSE GiveUp(r)
  /\ UNCHANGED <<arrivals, recordVars, moneyVars, jobVars, work, processVars, bridgeVars>>

SendOwn(r) ==
  /\ at[r] = "send"
  /\ SendStep(r)
  /\ Go(r, "await")
  /\ UNCHANGED <<request, arrivals, recordVars, moneyVars, jobVars, work, processVars,
                 outcome, published>>

\* A text answer, or none: the receipt is asked for in either case.
ChatAnswers(r) ==
  /\ r \in Chats /\ at[r] = "await"
  /\ \/ wire[r] # "lost" /\ UNCHANGED request
     \/ MarkUnknown({r})
  /\ Go(r, "settle")
  /\ UNCHANGED <<arrivals, recordVars, moneyVars, jobVars, work, processVars, bridgeVars>>

\* settle_controlled_chat_request: the receipt
ChatReceipt(r) ==
  /\ at[r] = "settle"
  /\ \/ \E rc \in published[r] :
          /\ Record(r, rc)
          /\ IF Accepted(r, rc) THEN Go(r, "finishChat") /\ UNCHANGED request ELSE GiveUp(r)
     \/ UNCHANGED recordVars /\ GiveUp(r)
  /\ UNCHANGED <<arrivals, moneyVars, jobVars, work, processVars, bridgeVars>>

\* settle_controlled_chat_request: prepare_for_final_receipt and the settlement
ChatFinish(r) ==
  /\ at[r] = "finishChat"
  /\ \/ Finish(r, FALSE)
     \/ ~Finishes(r, FALSE) /\ UNCHANGED <<recordVars, moneyVars>> /\ MarkUnknown({r})
  /\ Go(r, "done")
  /\ UNCHANGED <<arrivals, jobVars, work, processVars, bridgeVars>>

\* A video task is named, refused, or neither: then the Seedance endpoint makes a job under
\* a name of its own, and the native one makes none.
VideoAnswers(r) ==
  /\ r \in Videos /\ at[r] = "await"
  /\ \/ wire[r] = "arrived" /\ Go(r, "bind") /\ UNCHANGED <<request, lostJob>>
     \/ wire[r] # "lost" /\ Go(r, "rejected") /\ UNCHANGED <<request, lostJob>>
     \/ /\ GiveUp(r)
        /\ lostJob' = [q \in Seedances |-> IF q = r THEN "held" ELSE lostJob[q]]
  /\ UNCHANGED <<arrivals, recordVars, moneyVars, job, work, processVars, bridgeVars>>

BindOwn(r) ==
  /\ at[r] = "bind"
  /\ \/ BindTask(r) /\ Go(r, "accept") /\ UNCHANGED request
     \/ ~Bindable(r) /\ UNCHANGED recordVars /\ GiveUp(r)
  /\ UNCHANGED <<arrivals, moneyVars, jobVars, work, processVars, bridgeVars>>

\* accepted_video_job, over whatever the reconciler may have put there meanwhile
AcceptJob(r) ==
  /\ at[r] = "accept"
  /\ job' = [job EXCEPT ![r] = "held"]
  /\ Go(r, "done")
  /\ UNCHANGED <<request, arrivals, recordVars, moneyVars, lostJob, work, processVars, bridgeVars>>

NoTaskNoCharge(rc) == rc.status = "failed_no_charge" /\ ~rc.task

\* settle_confirmed_pre_dispatch_video_rejection: only the bridge's own no-charge receipt,
\* which names no task, ends a refused video.
RejectionReceipt(r) ==
  /\ at[r] = "rejected"
  /\ \/ \E rc \in published[r] :
          /\ NoTaskNoCharge(rc)
          /\ Record(r, rc)
          /\ IF Accepted(r, rc) THEN Go(r, "finishRejected") /\ UNCHANGED request ELSE GiveUp(r)
     \/ UNCHANGED recordVars /\ GiveUp(r)
  /\ UNCHANGED <<arrivals, moneyVars, jobVars, work, processVars, bridgeVars>>

FinishRejected(r) ==
  /\ at[r] = "finishRejected"
  /\ \/ Finish(r, TRUE)
     \/ ~Finishes(r, TRUE) /\ UNCHANGED <<recordVars, moneyVars>> /\ MarkUnknown({r})
  /\ Go(r, "done")
  /\ UNCHANGED <<arrivals, jobVars, work, processVars, bridgeVars>>

-----------------------------------------------------------------------------
(* The reconciler's walk over open operations.                             *)

\* recoverable_controlled_steps, without the operations a job will settle
Recoverable(s) ==
  /\ operation[Parent(s)] \in Open
  /\ step[s] \notin {"absent", "conflict"}
  /\ ~(step[s] = "verified" /\ s \in Children)
  /\ Parent(s) \in Videos => job[Parent(s)] # "held"
  /\ Parent(s) \in Seedances => lostJob[Parent(s)] # "held"

LanePick(s) ==
  /\ work[Reconciler] = Idle
  /\ Recoverable(s)
  /\ Turn(Reconciler, [at |-> "step", step |-> s, named |-> named[s]])
  /\ UNCHANGED <<request, arrivals, recordVars, moneyVars, jobVars, at, processVars, bridgeVars>>

On(t, stage, steps) == work[t].at = stage /\ work[t].step \in steps

\* settle_controlled_chat_request again
LaneChatReceipt ==
  LET r == work[Reconciler].step IN
  /\ On(Reconciler, "step", Chats)
  /\ \/ \E rc \in published[r] :
          /\ Record(r, rc)
          /\ IF Accepted(r, rc)
             THEN Turn(Reconciler, [at |-> "finishChat", step |-> r]) /\ UNCHANGED request
             ELSE Turn(Reconciler, Idle) /\ MarkUnknown({r})
     \/ UNCHANGED recordVars /\ Turn(Reconciler, Idle) /\ MarkUnknown({r})
  /\ UNCHANGED <<arrivals, moneyVars, jobVars, at, processVars, bridgeVars>>

LaneChatFinish ==
  LET r == work[Reconciler].step IN
  /\ On(Reconciler, "finishChat", Chats)
  /\ \/ Finish(r, FALSE)
     \/ ~Finishes(r, FALSE) /\ UNCHANGED <<recordVars, moneyVars>> /\ MarkUnknown({r})
  /\ Turn(Reconciler, Idle)
  /\ UNCHANGED <<arrivals, jobVars, at, processVars, bridgeVars>>

\* The task is the one already bound, or the one the bridge says it has.
LaneAdopt ==
  LET r == work[Reconciler].step IN
  /\ On(Reconciler, "step", Videos)
  /\ work[Reconciler].named \/ wire[r] = "arrived"
  /\ BindTask(r)
  /\ Turn(Reconciler, [at |-> "adopt", step |-> r])
  /\ UNCHANGED <<request, arrivals, moneyVars, jobVars, at, processVars, bridgeVars>>

\* The job of the adopted task, over whatever the handler may have put there meanwhile
LaneInsert ==
  LET r == work[Reconciler].step IN
  /\ On(Reconciler, "adopt", Videos)
  /\ job' = [job EXCEPT ![r] = "held"]
  /\ Turn(Reconciler, Idle)
  /\ UNCHANGED <<request, arrivals, recordVars, moneyVars, lostJob, at, processVars, bridgeVars>>

\* No task is known or it cannot be bound: the receipt alone is asked for.  A bound task
\* must be the receipt's.
LaneVideoReceipt ==
  LET r == work[Reconciler].step
      taskKnown == work[Reconciler].named IN
  /\ On(Reconciler, "step", Videos)
  /\ taskKnown => ~Bindable(r)
  /\ \/ \E rc \in published[r] :
          /\ taskKnown => rc.task
          /\ Record(r, rc)
          /\ Turn(Reconciler, IF Accepted(r, rc) /\ rc.status = "failed_no_charge" /\ ~taskKnown
                              THEN [at |-> "finishRejected", step |-> r] ELSE Idle)
     \/ UNCHANGED recordVars /\ Turn(Reconciler, Idle)
  /\ UNCHANGED <<request, arrivals, moneyVars, jobVars, at, processVars, bridgeVars>>

LaneVideoFinish ==
  LET r == work[Reconciler].step IN
  /\ On(Reconciler, "finishRejected", Videos)
  /\ Finish(r, TRUE) \/ (~Finishes(r, TRUE) /\ UNCHANGED <<recordVars, moneyVars, request>>)
  /\ Turn(Reconciler, Idle)
  /\ UNCHANGED <<arrivals, jobVars, at, processVars, bridgeVars>>

LaneHelperReceipt ==
  LET c == work[Reconciler].step IN
  /\ On(Reconciler, "step", Children)
  /\ \/ \E rc \in published[c] :
          /\ Record(c, rc)
          /\ Turn(Reconciler, IF Accepted(c, rc) THEN [at |-> "settleHelper", step |-> c] ELSE Idle)
     \/ UNCHANGED recordVars /\ Turn(Reconciler, Idle)
  /\ UNCHANGED <<request, arrivals, moneyVars, jobVars, at, processVars, bridgeVars>>

\* The helper request is settled, if its handler has not done it.
LaneSettleHelper ==
  LET c == work[Reconciler].step IN
  /\ On(Reconciler, "settleHelper", Children)
  /\ request' = [request EXCEPT ![c] = "settled"]
  /\ Turn(Reconciler, Idle)
  /\ UNCHANGED <<arrivals, recordVars, moneyVars, jobVars, at, processVars, bridgeVars>>

\* A slip in recoverable_undispatched_operations_before: the cutoff is forgotten.
AnyAge(r) == TRUE

StartedBefore(r) == r \in old

\* recoverable_undispatched_operations_before: nothing was sent that has no receipt, and
\* no thread of this process can be on its way to the video.
SettleOrphan(r) ==
  /\ work[Reconciler] = Idle
  /\ StartedBefore(r)
  /\ operation[r] \in Open
  /\ r \in Videos => step[r] = "absent"
  /\ \A s \in StepsOf(r) : step[s] \in {"absent", "verified"}
  /\ Finish(r, FALSE)
  /\ UNCHANGED <<arrivals, jobVars, at, work, processVars, bridgeVars>>

-----------------------------------------------------------------------------
(* Video jobs: the reconciler's walk, and clients that poll their task.    *)

\* reconcile_video_job_once and settle_video_job read the job and the task's state
JobPick(t, r) ==
  /\ work[t] = Idle
  /\ job[r] = "held" /\ outcome[r] # "running"
  /\ Turn(t, [at |-> "job", step |-> r])
  /\ UNCHANGED <<request, arrivals, recordVars, moneyVars, jobVars, at, processVars, bridgeVars>>

\* finalize_video_billing answers only with a receipt that names the task.
JobReceipt(t) ==
  LET r == work[t].step IN
  /\ On(t, "job", Videos)
  /\ \/ \E rc \in published[r] :
          /\ rc.task
          /\ Record(r, rc)
          /\ Turn(t, IF Accepted(r, rc)
                     THEN [at |-> "finishJob", step |-> r, free |-> rc.status = "failed_no_charge"]
                     ELSE Idle)
          /\ UNCHANGED request
     \/ UNCHANGED recordVars /\ Turn(t, Idle) /\ MarkUnknown({r})
  /\ UNCHANGED <<arrivals, moneyVars, jobVars, at, processVars, bridgeVars>>

JobFinish(t) ==
  LET r == work[t].step IN
  /\ On(t, "finishJob", Videos)
  /\ \/ Finish(r, TRUE) /\ Turn(t, [work[t] EXCEPT !.at = "closeJob"])
     \/ ~Finishes(r, TRUE) /\ UNCHANGED <<recordVars, moneyVars, request>> /\ Turn(t, Idle)
  /\ UNCHANGED <<arrivals, jobVars, at, processVars, bridgeVars>>

JobClose(t) ==
  /\ On(t, "closeJob", Videos)
  /\ job' = [job EXCEPT ![work[t].step] = IF work[t].free THEN "released" ELSE "settled"]
  /\ Turn(t, Idle)
  /\ UNCHANGED <<request, arrivals, recordVars, moneyVars, lostJob, at, processVars, bridgeVars>>

\* A job whose task has no name asks for the receipt of a quoted request.  That fails for an
\* operation without a quote, unless the receipt was recorded before.
LostJobPoll(t, r) ==
  /\ work[t] = Idle
  /\ lostJob[r] = "held"
  /\ \/ published[r] \cap receipts[r] # {} /\ lostJob' = [lostJob EXCEPT ![r] = "settled"]
                                           /\ UNCHANGED request
     \/ MarkUnknown({r}) /\ UNCHANGED lostJob
  /\ UNCHANGED <<arrivals, recordVars, moneyVars, job, at, work, processVars, bridgeVars>>

-----------------------------------------------------------------------------
(* The process, the administrator and the bridge.                          *)

\* Requests a startup sweep fails: helpers of ended requests, and requests that never had
\* an operation, of which it leaves those that are younger than five minutes.
EndedHelpers ==
  {c \in Children : request[c] = "received" /\ request[ParentOf[c]] \in {"failed", "settled"}}

NeverAdmitted == {r \in Requests : request[r] \in {"received", "validating"}}

Restart ==
  /\ restarts < MaxRestarts
  /\ restarts' = restarts + 1
  /\ \E aged \in SUBSET NeverAdmitted :
       request' = [s \in Steps |-> IF s \in EndedHelpers \cup aged THEN "failed" ELSE request[s]]
  /\ at' = [r \in Requests |-> IF at[r] = "new" THEN "new" ELSE "done"]
  /\ work' = [t \in Pollers |-> Idle]
  /\ old' = {r \in Requests : operation[r] # "absent"}
  /\ UNCHANGED <<arrivals, recordVars, moneyVars, jobVars, bridgeVars>>

\* key_quota_grant_as_admin
Grant(k, amount) ==
  /\ granted[k] + amount <= MaxGranted
  /\ granted' = [granted EXCEPT ![k] = @ + amount]
  /\ UNCHANGED <<request, arrivals, recordVars, held, charged, posted, jobVars, at, work,
                 processVars, bridgeVars>>

Generate(r) ==
  /\ wire[r] = "arrived" /\ outcome[r] = "running"
  /\ outcome' = [outcome EXCEPT ![r] = "ended"]
  /\ UNCHANGED <<request, arrivals, recordVars, moneyVars, jobVars, at, work, processVars,
                 wire, published>>

Contradictions ==
  MapThenSumSet(LAMBDA s : Cardinality(published[s]) - 1, {s \in Steps : published[s] # {}})

\* The bridge knows what a step cost: nothing if it refused it, and a video's cost only when
\* the generation ended.
Publish(s) ==
  /\ wire[s] \in {"arrived", "rejected"}
  /\ published[s] # {} => Contradictions < MaxContradictions
  /\ s \in Videos /\ wire[s] = "arrived" => outcome[s] # "running"
  /\ \E rc \in ReceiptsFor[s] \ published[s] :
       /\ wire[s] = "rejected" => NoTaskNoCharge(rc)
       /\ s \in Videos /\ wire[s] = "arrived" => rc.task
       /\ published' = [published EXCEPT ![s] = @ \cup {rc}]
  /\ UNCHANGED <<request, arrivals, recordVars, moneyVars, jobVars, at, work, processVars,
                 wire, outcome>>

Handler(r) ==
  \/ Arrive(r) \/ Admit(r) \/ Refuse(r) \/ EndRefused(r)
  \/ MarkOwn(r) \/ DispatchOwn(r) \/ SendOwn(r)
  \/ ChatAnswers(r) \/ ChatReceipt(r) \/ ChatFinish(r)
  \/ VideoAnswers(r) \/ BindOwn(r) \/ AcceptJob(r) \/ RejectionReceipt(r) \/ FinishRejected(r)

Helper(r) ==
  \/ CreateHelper(r) \/ DispatchHelper(r) \/ MarkHelper(r) \/ SendHelper(r)
  \/ HelperAnswers(r) \/ HelperReceipt(r) \/ SettleHelper(r) \/ FinishHelper(r)

Lane ==
  \/ LaneChatReceipt \/ LaneChatFinish \/ LaneAdopt \/ LaneInsert
  \/ LaneVideoReceipt \/ LaneVideoFinish \/ LaneHelperReceipt \/ LaneSettleHelper

Poll(t) == JobReceipt(t) \/ JobFinish(t) \/ JobClose(t)

Next ==
  \/ \E r \in Requests : Handler(r) \/ SettleOrphan(r)
  \/ \E r \in Seedances : Helper(r)
  \/ \E s \in Steps : LanePick(s) \/ Publish(s)
  \/ Lane
  \/ \E t \in Pollers : Poll(t)
  \/ \E t \in Pollers, r \in Videos : JobPick(t, r)
  \/ \E t \in Pollers, r \in Seedances : LostJobPoll(t, r)
  \/ \E r \in Videos : Generate(r)
  \/ \E k \in Keys, amount \in GrantAmounts : Grant(k, amount)
  \/ Restart

\* What the bridge does of its own accord once it took a step.
BridgeWorks == (\E r \in Videos : Generate(r)) \/ (\E s \in Steps : published[s] = {} /\ Publish(s))

Visit(r) == LanePick(r) \/ (r \in Videos /\ JobPick(Reconciler, r))

\* A visit the bridge answers with a receipt that settles.
Answered ==
  \/ LaneChatReceipt /\ work'[Reconciler].at = "finishChat"
  \/ JobReceipt(Reconciler) /\ work'[Reconciler].at = "finishJob"

\* The reconciler comes round every 15 seconds to every open operation and every job, and
\* reaches the bridge, which ends what it began, again and again.  Handlers and clients may
\* stop anywhere.
Fairness ==
  /\ WF_vars(BridgeWorks)
  /\ \A r \in Requests : SF_vars(Visit(r))
  /\ SF_vars(Answered)
  /\ WF_vars(Lane \/ Poll(Reconciler))

Spec == Init /\ [][Next]_vars
FairSpec == Spec /\ Fairness

-----------------------------------------------------------------------------
(* Properties.                                                             *)

Stages == {"new", "admit", "refused", "helper", "dispatchHelper", "markHelper", "sendHelper",
           "awaitHelper", "helped", "unhelped", "paidHelp", "paidUnhelped", "finishHelper",
           "mark", "dispatch", "send", "await", "settle", "finishChat", "bind", "accept",
           "rejected", "finishRejected", "done"}

Works ==
  {Idle}
    \cup [at : {"step"}, step : Steps, named : BOOLEAN]
    \cup [at : {"finishChat", "adopt", "finishRejected", "settleHelper", "job"}, step : Steps]
    \cup [at : {"finishJob", "closeJob"}, step : Videos, free : BOOLEAN]

\* Every variable keeps its type, and an operation never holds nothing
\* (begin_controlled_operation refuses a key without available credits).
TypeOK ==
  /\ request \in [Steps -> {"absent", "received", "failed", "settled"} \cup Occupying]
  /\ arrivals \in Seq(Requests)
  /\ operation \in [Requests -> {"absent", "settled"} \cup Open]
  /\ held \in [Requests -> Nat]
  /\ \A r \in Requests : operation[r] # "absent" => held[r] > 0
  /\ charged \in [Requests -> Nat \cup {NoActual}]
  /\ reservation \in [Requests -> {"absent", "committed"} \cup OpenReservation]
  /\ posted \in [Requests -> Int] /\ granted \in [Accounts -> Nat]
  /\ step \in [Steps -> {"absent", "pending", "verified", "conflict"}]
  /\ proof \in [Steps -> Receipt \cup {NoReceipt}]
  /\ named \in [Steps -> BOOLEAN]
  /\ receipts \in [Steps -> SUBSET Receipt]
  /\ blocks \subseteq Keys
  /\ job \in [Videos -> {"none", "held", "settled", "released"}]
  /\ lostJob \in [Seedances -> {"none", "held", "settled"}]
  /\ at \in [Requests -> Stages]
  /\ work \in [Pollers -> Works]
  /\ old \subseteq Requests /\ restarts \in 0..MaxRestarts
  /\ wire \in [Steps -> {"idle"} \cup Fate]
  /\ outcome \in [Videos -> {"running", "ended"}]
  /\ published \in [Steps -> SUBSET Receipt]

\* The ledger of a request says what its operation says: all that was held while it is open,
\* exactly what it cost once it is settled, however many threads settle it and however often
\* (finish_controlled_operation and its replays).
Books ==
  \A r \in Requests :
    posted[r] = IF operation[r] = "absent" THEN 0
                ELSE IF operation[r] = "settled" THEN -charged[r] ELSE -held[r]

\* A settled operation charged every step that reached the bridge: none of them is without a
\* receipt, and none can still be on its way (the order of mark_controlled_step_dispatched,
\* sends and finish_controlled_operation over all threads and restarts).
ClosedCoversSent ==
  \A r \in Requests : operation[r] = "settled" =>
    /\ \A s \in StepsOf(r) : wire[s] # "idle" => proof[s] # NoReceipt
    /\ charged[r] = SumOver(Costs, {s \in StepsOf(r) : proof[s] # NoReceipt})

\* A key has one open operation at most, even when credits are granted to it while one holds
\* everything it had (begin_controlled_operation, already_running).
OneOpenPerKey == \A k \in Keys : Cardinality(OpenOperations(k)) <= 1

\* The operation of a handler between its helper and its video is not settled beneath it
\* (recoverable_undispatched_operations_before and its cutoff).
LiveChainOpen ==
  \A r \in Seedances :
    at[r] \in {"helper", "dispatchHelper", "markHelper", "sendHelper", "awaitHelper", "helped",
               "paidHelp", "mark", "dispatch", "send"}
      => operation[r] # "settled"

\* A key of which two receipts contradicted each other, or whose operation cost more than it
\* held, never begins another operation, whichever thread found it and whether or not the
\* operation was settled by then (api_key_billing_blocks).
FrozenKeysStartNothing ==
  [][\A r \in Requests :
       operation[r] = "absent" /\ operation'[r] # "absent" =>
         \A q \in Requests : KeyOf[q] = KeyOf[r] =>
           /\ operation[q] = "settled" => charged[q] <= held[q]
           /\ \A s \in StepsOf(q) : Cardinality(receipts[s]) <= 1]_vars

Closed(r) == operation[r] = "settled" \/ \E s \in StepsOf(r) : step[s] = "conflict"

\* A text request that reached the bridge, and a video whose task got a job, are settled in
\* the end, whatever happened to their handlers, unless their receipts contradict each other
\* (reconcile_legacy_pending_billing_requests_once, reconcile_video_job_once).
CostsSettle ==
  \A r \in Requests :
    (IF r \in Chats THEN wire[r] \in {"arrived", "rejected"} ELSE job[r] = "held") ~> Closed(r)

\* Every operation whose video reached the bridge is queried until it is settled, also after
\* a restart: what the acceptance design of controlled billing promises of operations that
\* were submitted, or may have been.
LostVideoSettles == \A r \in Videos : wire[r] = "arrived" ~> Closed(r)
=============================================================================
