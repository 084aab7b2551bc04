--------------------------- MODULE QuotedBilling ---------------------------
(***************************************************************************)
(* Quoted billing, v1: the bridge names the most a request can cost, Core  *)
(* holds that much of its key, the request is sent, and the receipt the    *)
(* bridge gives for it settles the hold.  A Seedance request is sent only  *)
(* after a text request of its own, the helper, was paid for.              *)
(*                                                                         *)
(* As in ControlledBilling the store's operations are single transactions  *)
(* and what interleaves are threads of the router: a handler to a request, *)
(* the reconciler, and clients that poll a video or repeat a request.  A   *)
(* thread that wants a settlement asks the bridge, walks the request's     *)
(* state forward and applies the receipt, in that many steps: what it read *)
(* in one of them may be stale in the next.                                *)
(*                                                                         *)
(* Receipts are those the bridge client lets through: final, or failed     *)
(* without a charge.                                                       *)
(***************************************************************************)
EXTENDS Integers, Sequences, FiniteSets, FiniteSetsExt

CONSTANTS
  Chats,          \* text requests
  Seedances,      \* video requests of the chat endpoint, with a helper
  Natives,        \* requests of the videos endpoint
  Children,       \* helper requests, one to a Seedance request
  ParentOf,       \* the Seedance request a helper is made for
  Clients,        \* clients that poll their videos or repeat their requests
  Keys,           \* API keys, each with a budget account of its own
  KeyOf,          \* the key that sent a request
  Granted,        \* credits granted to each key
  MaxConcurrency, \* api_keys.max_concurrency
  QuoteOf,        \* max_credits of the quote of each request
  ReceiptsFor,    \* the receipts the bridge may publish for each request
  MaxContradictions, \* bound on the receipts published beside the first of a request
  NoActual,       \* no row in billing_settlements
  RecoveryLimit,  \* the requests one walk of the reconciler reads
  MaxArmings,     \* bound on the diagnostics an administrator arms
  MaxRestarts     \* bound on the restarts of the router

Videos == Seedances \cup Natives
Requests == Chats \cup Videos
Steps == Requests \cup Children

Receipt == [status : {"final", "failed_no_charge"}, actual : Nat, task : BOOLEAN]

ASSUME QuotedIdentities ==
  /\ IsFiniteSet(Steps)
  /\ Chats \cap Videos = {} /\ Seedances \cap Natives = {} /\ Requests \cap Children = {}
  /\ ParentOf \in [Children -> Seedances]
  /\ \A r \in Seedances : \E c \in Children : ParentOf[c] = r
  /\ \A c, d \in Children : ParentOf[c] = ParentOf[d] => c = d
  /\ KeyOf \in [Requests -> Keys]
  /\ ({"reconciler"} \cup Clients) \cap Requests = {} /\ "reconciler" \notin Clients

ASSUME QuotedAmounts ==
  /\ Granted \in [Keys -> Nat] /\ MaxConcurrency \in [Keys -> Nat]
  /\ QuoteOf \in [Steps -> Nat \ {0}]
  /\ NoActual \notin Int /\ RecoveryLimit \in Nat \ {0}
  /\ {MaxContradictions, MaxArmings, MaxRestarts} \subseteq Nat

ASSUME QuotedReceipts ==
  /\ ReceiptsFor \in [Steps -> SUBSET Receipt]
  /\ \A s \in Steps : \A rc \in ReceiptsFor[s] :
       /\ rc.status = "failed_no_charge" => rc.actual = 0
       /\ rc.task => s \in Videos

VARIABLES
  request,     \* requests.state
  arrivals,    \* requests and helpers in the order they were inserted
  reservation, \* quota_reservations.state of a request's hold
  charged,     \* billing_settlements.actual_credits
  posted,      \* the sum of a request's ledger rows on its key's account
  receipts,    \* billing_receipts of each request
  blocks,      \* api_key_billing_blocks
  gate,        \* video_billing_control.mode
  armings,     \* how often a diagnostic was armed
  oneShot,     \* the requests that claimed a diagnostic
  job,         \* billing_state of the job under the task's own name
  lostJob,     \* billing_state of the job of a task whose name was lost
  at,          \* where each thread is
  restarts,    \* restarts so far
  wire,        \* what became of the send of a request
  outcome,     \* whether the generation of a video ended, well or not
  published    \* the receipts the bridge answers with

moneyVars == <<reservation, charged, posted, receipts, blocks>>
gateVars == <<gate, armings, oneShot>>
jobVars == <<job, lostJob>>
bridgeVars == <<wire, outcome, published>>
vars == <<request, arrivals, moneyVars, gateVars, jobVars, at, restarts, bridgeVars>>

-----------------------------------------------------------------------------
Reconciler == "reconciler"
Pollers == {Reconciler} \cup Clients
Threads == Requests \cup Pollers

Parent(s) == IF s \in Children THEN ParentOf[s] ELSE s
ChildOf(r) == CHOOSE c \in Children : ParentOf[c] = r
Key(s) == KeyOf[Parent(s)]
StepsOf(k) == {s \in Steps : Key(s) = k}

Available(k) == Granted[k] + MapThenSumSet(LAMBDA s : posted[s], StepsOf(k))

ArrivedBefore(q, s) ==
  \E i, j \in DOMAIN arrivals : arrivals[i] = q /\ arrivals[j] = s /\ i < j

Occupying == {"validating", "reserved", "queued", "dispatched", "completing", "unknown"}

\* active_execution_count_for_budget_admission_in_connection: helpers do not count beside
\* the request they are made for.
ActiveBefore(s) ==
  {q \in Requests \ {Parent(s)} : /\ Key(q) = Key(s)
                                  /\ \/ request[q] \in Occupying
                                     \/ request[q] = "received" /\ ArrivedBefore(q, s)}

\* mark_request_unknown, whose failure nobody looks at
MarkUnknown(s) == request' = IF request[s] \in Occupying THEN [request EXCEPT ![s] = "unknown"]
                             ELSE request

Stage(name) == [at |-> name]
Go(t, name) == at' = [at EXCEPT ![t] = Stage(name)]
Turn(t, what) == at' = [at EXCEPT ![t] = what]
In(t, name) == at[t].at = name

Init ==
  /\ request = [s \in Steps |-> "absent"]
  /\ arrivals = <<>>
  /\ reservation = [s \in Steps |-> "absent"]
  /\ charged = [s \in Steps |-> NoActual]
  /\ posted = [s \in Steps |-> 0]
  /\ receipts = [s \in Steps |-> {}]
  /\ blocks = {}
  /\ gate = "active"
  /\ armings = 0
  /\ oneShot = {}
  /\ job = [r \in Videos |-> "none"]
  /\ lostJob = [r \in Videos |-> "none"]
  /\ at = [t \in Threads |-> Stage(IF t \in Requests THEN "new" ELSE "idle")]
  /\ restarts = 0
  /\ wire = [s \in Steps |-> "idle"]
  /\ outcome = [r \in Videos |-> "running"]
  /\ published = [s \in Steps |-> {}]

-----------------------------------------------------------------------------
(* The store's operations: the hold, its release, and the receipt.         *)

\* reserve_credit_quote_inner, of a request that has no quote yet
Reservable(s) ==
  /\ request[s] = "received"
  /\ Key(s) \notin blocks
  /\ Cardinality(ActiveBefore(s)) < MaxConcurrency[Key(s)]
  /\ Available(Key(s)) >= QuoteOf[s]

Reserve(s) ==
  /\ Reservable(s)
  /\ request' = [request EXCEPT ![s] = "reserved"]
  /\ reservation' = [reservation EXCEPT ![s] = "held"]
  /\ posted' = [posted EXCEPT ![s] = @ - QuoteOf[s]]
  /\ UNCHANGED <<charged, receipts, blocks>>

\* settle_request with a release: nothing happens to a hold that is not held any more.
Release(s) ==
  \/ /\ reservation[s] = "held"
     /\ reservation' = [reservation EXCEPT ![s] = "released"]
     /\ posted' = [posted EXCEPT ![s] = @ + QuoteOf[s]]
     /\ request' = [request EXCEPT ![s] = "settled"]
     /\ UNCHANGED <<charged, receipts, blocks>>
  \/ /\ reservation[s] # "held"
     /\ UNCHANGED <<request, moneyVars>>

\* What apply_credit_receipt makes of a receipt.
Repeats(s, rc) == rc \in receipts[s] \/ (reservation[s] = "committed" /\ rc.actual = charged[s])
Contradicts(s, rc) == ~Repeats(s, rc) /\ reservation[s] = "committed"

\* A slip in apply_credit_receipt: a hold that was released takes a receipt.
SettlesReleased(s, rc) == ~Repeats(s, rc) /\ reservation[s] \in {"held", "released"}

Settles(s, rc) == ~Repeats(s, rc) /\ reservation[s] = "held"
Accepted(s, rc) == Repeats(s, rc) \/ Settles(s, rc)

\* A slip in apply_credit_receipt: the hold keeps its state.
CommitOpen(s, rc) ==
  /\ charged' = [charged EXCEPT ![s] = rc.actual]
  /\ posted' = [posted EXCEPT ![s] = @ + QuoteOf[s] - rc.actual]
  /\ blocks' = IF rc.actual > QuoteOf[s] THEN blocks \cup {Key(s)} ELSE blocks
  /\ request' = [request EXCEPT ![s] = "settled"]
  /\ UNCHANGED reservation

\* A cost above the quote is charged in full and freezes the key.
Commit(s, rc) ==
  /\ reservation' = [reservation EXCEPT ![s] = "committed"]
  /\ charged' = [charged EXCEPT ![s] = rc.actual]
  /\ posted' = [posted EXCEPT ![s] = @ + QuoteOf[s] - rc.actual]
  /\ blocks' = IF rc.actual > QuoteOf[s] THEN blocks \cup {Key(s)} ELSE blocks
  /\ request' = [request EXCEPT ![s] = "settled"]

\* apply_credit_receipt: a hold that was released takes no receipt.
ApplyReceipt(s, rc) ==
  /\ receipts' = IF Accepted(s, rc) \/ Contradicts(s, rc)
                 THEN [receipts EXCEPT ![s] = @ \cup {rc}] ELSE receipts
  /\ IF Settles(s, rc) THEN Commit(s, rc)
     ELSE /\ blocks' = IF Contradicts(s, rc) THEN blocks \cup {Key(s)} ELSE blocks
          /\ UNCHANGED <<request, reservation, charged, posted>>

-----------------------------------------------------------------------------
(* Settlement of one request by one thread, reconcile_billing_request_once. *)
(* A call says which request, and where the thread goes when the receipt   *)
(* settled it and when it did not.                                         *)

Call(s, good, bad) == [step |-> s, good |-> good, bad |-> bad]
Asking(s, good, bad) == [at |-> "ask", call |-> Call(s, good, bad)]

\* A settled job is closed in a step of its own, with what its receipt said.
Onward(call, rc) ==
  IF call.good \in {"closeJob", "closeLost"}
  THEN [at |-> call.good, step |-> call.step, free |-> rc.status = "failed_no_charge"]
  ELSE Stage(call.good)

\* settle_chat_response starts with the walk forward, before it asks.
Answering(s, good, bad) == [at |-> "settle", call |-> Call(s, good, bad), seen |-> request[s]]

Sendable == {"reserved", "queued", "dispatched"}

\* A slip in transition_request: the state is written whatever it is by now.
RacedNever(s, seen) == FALSE

\* prepare_for_final_receipt: the state was read before it is changed, and the change
\* fails when another thread was faster.
Raced(s, seen) == seen \in Sendable /\ request[s] # seen

Forward(s, seen) ==
  request' = IF seen \in Sendable THEN [request EXCEPT ![s] = "completing"] ELSE request

Settle(t) ==
  LET call == at[t].call IN
  /\ In(t, "settle")
  /\ IF Raced(call.step, at[t].seen)
     THEN MarkUnknown(call.step) /\ Go(t, call.bad)
     ELSE Forward(call.step, at[t].seen) /\ Turn(t, [at |-> "ask", call |-> call])
  /\ UNCHANGED <<arrivals, moneyVars, gateVars, jobVars, restarts, bridgeVars>>

\* The bridge's answer: a job takes only a receipt that names its task.
Ask(t) ==
  LET call == at[t].call
      s == call.step IN
  /\ In(t, "ask")
  /\ \/ \E rc \in published[s] :
          /\ call.good = "closeJob" => rc.task
          /\ Turn(t, [at |-> "prepare", call |-> call, receipt |-> rc, seen |-> request[s]])
          /\ UNCHANGED request
     \/ MarkUnknown(s) /\ Go(t, call.bad)
  /\ UNCHANGED <<arrivals, moneyVars, gateVars, jobVars, restarts, bridgeVars>>

Prepare(t) ==
  LET call == at[t].call IN
  /\ In(t, "prepare")
  /\ IF Raced(call.step, at[t].seen)
     THEN Go(t, call.bad) /\ UNCHANGED request
     ELSE /\ Forward(call.step, at[t].seen)
          /\ Turn(t, [at |-> "apply", call |-> call, receipt |-> at[t].receipt])
  /\ UNCHANGED <<arrivals, moneyVars, gateVars, jobVars, restarts, bridgeVars>>

Apply(t) ==
  LET call == at[t].call
      rc == at[t].receipt IN
  /\ In(t, "apply")
  /\ ApplyReceipt(call.step, rc)
  /\ Turn(t, IF Accepted(call.step, rc) THEN Onward(call, rc) ELSE Stage(call.bad))
  /\ UNCHANGED <<arrivals, gateVars, jobVars, restarts, bridgeVars>>

-----------------------------------------------------------------------------
(* The handler of a client request.                                        *)

\* require_video_admission reads the gate first, and claims an armed diagnostic after.
EnterGate(r) ==
  /\ r \in Videos /\ In(r, "new")
  /\ Go(r, IF gate = "active" THEN "begin" ELSE IF gate = "armed" THEN "claim" ELSE "done")
  /\ UNCHANGED <<request, arrivals, moneyVars, gateVars, jobVars, restarts, bridgeVars>>

\* claim_video_diagnostic: the claim pauses the gate.
Claim(r) ==
  /\ In(r, "claim")
  /\ IF gate = "armed"
     THEN /\ gate' = "paused" /\ oneShot' = oneShot \cup {r}
          /\ Go(r, "begin")
     ELSE Go(r, "done") /\ UNCHANGED <<gate, oneShot>>
  /\ UNCHANGED <<request, arrivals, moneyVars, armings, jobVars, restarts, bridgeVars>>

Begin(r) ==
  /\ In(r, IF r \in Videos THEN "begin" ELSE "new")
  /\ request' = [request EXCEPT ![r] = "received"]
  /\ arrivals' = Append(arrivals, r)
  /\ Go(r, "quote")
  /\ UNCHANGED <<moneyVars, gateVars, jobVars, restarts, bridgeVars>>

\* quote_and_reserve_or_controlled, with a quote
QuoteOwn(r) ==
  /\ In(r, "quote")
  /\ Reserve(r)
  /\ Go(r, IF r \in Seedances THEN "assist" ELSE "dispatch")
  /\ UNCHANGED <<arrivals, gateVars, jobVars, restarts, bridgeVars>>

\* finish_failed_quote_request, in two transactions: no snapshot, no quote, one that does
\* not fit, or any guard of the reservation turns the request away.
Refuse(r) ==
  /\ \/ In(r, "quote") /\ request' = [request EXCEPT ![r] = "validating"] /\ Go(r, "refused")
     \/ In(r, "refused") /\ request' = [request EXCEPT ![r] = "failed"] /\ Go(r, "done")
  /\ UNCHANGED <<arrivals, moneyVars, gateVars, jobVars, restarts, bridgeVars>>

\* What a request needs beside its hold could not be made ready: an asset, an image, the
\* prompt the helper wrote.
Abandon(r) ==
  /\ at[r].at \in {"assist", "dispatch"}
  /\ Go(r, "release")
  /\ UNCHANGED <<request, arrivals, moneyVars, gateVars, jobVars, restarts, bridgeVars>>

\* release_before_dispatch
ReleaseOwn(r) ==
  /\ In(r, "release")
  /\ Release(r)
  /\ Go(r, "done")
  /\ UNCHANGED <<arrivals, gateVars, jobVars, restarts, bridgeVars>>

\* run_seedance_assist
CreateHelper(r) ==
  /\ In(r, "assist")
  /\ request' = [request EXCEPT ![ChildOf(r)] = "received"]
  /\ arrivals' = Append(arrivals, ChildOf(r))
  /\ Go(r, "quoteHelper")
  /\ UNCHANGED <<moneyVars, gateVars, jobVars, restarts, bridgeVars>>

QuoteHelper(r) ==
  /\ In(r, "quoteHelper")
  /\ Reserve(ChildOf(r))
  /\ Go(r, "dispatchHelper")
  /\ UNCHANGED <<arrivals, gateVars, jobVars, restarts, bridgeVars>>

RefuseHelper(r) ==
  /\ \/ /\ In(r, "quoteHelper")
        /\ request' = [request EXCEPT ![ChildOf(r)] = "validating"] /\ Go(r, "refusedHelper")
     \/ /\ In(r, "refusedHelper")
        /\ request' = [request EXCEPT ![ChildOf(r)] = "failed"] /\ Go(r, "release")
  /\ UNCHANGED <<arrivals, moneyVars, gateVars, jobVars, restarts, bridgeVars>>

\* mark_request_dispatched of the helper, which the reconciler may have marked unknown
DispatchHelper(r) ==
  LET c == ChildOf(r) IN
  /\ In(r, "dispatchHelper")
  /\ IF request[c] \in Sendable
     THEN request' = [request EXCEPT ![c] = "dispatched"] /\ Go(r, "sendHelper")
     ELSE Go(r, "releaseHelper") /\ UNCHANGED request
  /\ UNCHANGED <<arrivals, moneyVars, gateVars, jobVars, restarts, bridgeVars>>

ReleaseHelper(r) ==
  /\ In(r, "releaseHelper")
  /\ Release(ChildOf(r))
  /\ Go(r, "release")
  /\ UNCHANGED <<arrivals, gateVars, jobVars, restarts, bridgeVars>>

\* What a send may come to: the bridge took it, refused it before it began anything, or
\* never saw it.
Fate == {"arrived", "rejected", "lost"}

SendStep(s) == \E fate \in Fate : wire' = [wire EXCEPT ![s] = fate]

SendHelper(r) ==
  /\ In(r, "sendHelper")
  /\ SendStep(ChildOf(r))
  /\ Go(r, "awaitHelper")
  /\ UNCHANGED <<request, arrivals, moneyVars, gateVars, jobVars, restarts, outcome, published>>

\* The helper is settled whatever it answered; only a prompt that was paid for is used.
HelperAnswers(r) ==
  LET c == ChildOf(r) IN
  /\ In(r, "awaitHelper")
  /\ \/ wire[c] = "arrived" /\ Turn(r, Answering(c, "dispatch", "release")) /\ UNCHANGED request
     \/ wire[c] # "lost" /\ Turn(r, Answering(c, "release", "release")) /\ UNCHANGED request
     \/ MarkUnknown(c) /\ Turn(r, Asking(c, "release", "release"))
  /\ UNCHANGED <<arrivals, moneyVars, gateVars, jobVars, restarts, bridgeVars>>

\* mark_request_dispatched; the videos endpoint goes to queued only.
DispatchOwn(r) ==
  /\ In(r, "dispatch")
  /\ IF request[r] \in Sendable
     THEN /\ request' = [request EXCEPT ![r] = IF r \in Natives THEN "queued" ELSE "dispatched"]
          /\ Go(r, "send")
     ELSE Go(r, "release") /\ UNCHANGED request
  /\ UNCHANGED <<arrivals, moneyVars, gateVars, jobVars, restarts, bridgeVars>>

SendOwn(r) ==
  /\ In(r, "send")
  /\ SendStep(r)
  /\ Go(r, "await")
  /\ UNCHANGED <<request, arrivals, moneyVars, gateVars, jobVars, restarts, outcome, published>>

\* A text is settled whatever was answered, and asked for when nothing was; an answer that
\* broke off while it was buffered is left to the reconciler.
ChatAnswers(r) ==
  /\ r \in Chats /\ In(r, "await")
  /\ \/ wire[r] # "lost" /\ Turn(r, Answering(r, "done", "done")) /\ UNCHANGED request
     \/ wire[r] # "lost" /\ MarkUnknown(r) /\ Go(r, "done")
     \/ MarkUnknown(r) /\ Turn(r, Asking(r, "done", "done"))
  /\ UNCHANGED <<arrivals, moneyVars, gateVars, jobVars, restarts, bridgeVars>>

\* A video's task is named, its name is lost, or the bridge refused or failed.
VideoAnswers(r) ==
  /\ r \in Videos /\ In(r, "await")
  /\ \/ wire[r] = "arrived" /\ Go(r, "accept") /\ UNCHANGED request
     \/ MarkUnknown(r) /\ Turn(r, Asking(r, "lose", "lose"))
     \/ wire[r] # "lost" /\ Turn(r, Answering(r, "done", "done")) /\ UNCHANGED request
  /\ UNCHANGED <<arrivals, moneyVars, gateVars, jobVars, restarts, bridgeVars>>

\* A slip in confirmed_video_pre_dispatch_error_code: any refusal is taken for one before
\* the task was made.
RefusedAnyhow(r) == wire[r] # "lost"

\* confirmed_video_pre_dispatch_error_code: two codes say that no task was made.
RefusedBeforeTask(r) == wire[r] = "rejected"

\* release_confirmed_video_pre_dispatch, which does not release what was settled meanwhile
VideoRefused(r) ==
  /\ r \in Videos /\ In(r, "await")
  /\ RefusedBeforeTask(r)
  /\ IF reservation[r] = "committed" THEN MarkUnknown(r) /\ UNCHANGED moneyVars ELSE Release(r)
  /\ Go(r, "done")
  /\ UNCHANGED <<arrivals, gateVars, jobVars, restarts, bridgeVars>>

\* accepted_video_job and unknown_video_job
InsertJob(r) ==
  /\ \/ In(r, "accept") /\ job' = [job EXCEPT ![r] = "held"] /\ UNCHANGED lostJob
     \/ In(r, "lose") /\ lostJob' = [lostJob EXCEPT ![r] = "held"] /\ UNCHANGED job
  /\ Go(r, "done")
  /\ UNCHANGED <<request, arrivals, moneyVars, gateVars, restarts, bridgeVars>>

-----------------------------------------------------------------------------
(* The reconciler, and clients.                                            *)

\* recoverable_billing_requests
Unsettled == {s \in Steps : reservation[s] = "held" /\ request[s] \in Occupying \ {"validating"}}

\* A slip in recoverable_billing_requests: the walk starts at its oldest request and stops.
OldestOnly(s) == {q \in Unsettled : ArrivedBefore(q, s)} = {}

\* The oldest requests, as many as one walk reads.
InWindow(s) == Cardinality({q \in Unsettled : ArrivedBefore(q, s)}) < RecoveryLimit

HasJob(s) == s \in Videos /\ "held" \in {job[s], lostJob[s]}

LanePick(s) ==
  /\ In(Reconciler, "idle")
  /\ s \in Unsettled /\ InWindow(s) /\ ~HasJob(s)
  /\ Turn(Reconciler, Asking(s, "idle", "idle"))
  /\ UNCHANGED <<request, arrivals, moneyVars, gateVars, jobVars, restarts, bridgeVars>>

\* settle_video_job, of a task that has ended
JobPick(t, r) ==
  /\ In(t, "idle")
  /\ job[r] = "held" /\ outcome[r] # "running"
  /\ Turn(t, Asking(r, "closeJob", "idle"))
  /\ UNCHANGED <<request, arrivals, moneyVars, gateVars, jobVars, restarts, bridgeVars>>

\* reconcile_video_job_once, of a task whose name is lost: the cost of a diagnostic is only
\* finalized by its task, so its hold stays.
LostJobPick(t, r) ==
  /\ In(t, "idle")
  /\ lostJob[r] = "held"
  /\ IF r \in oneShot THEN MarkUnknown(r) /\ UNCHANGED at
     ELSE Turn(t, Asking(r, "closeLost", "idle")) /\ UNCHANGED request
  /\ UNCHANGED <<arrivals, moneyVars, gateVars, jobVars, restarts, bridgeVars>>

CloseJob(t) ==
  LET r == at[t].step IN
  /\ \/ /\ In(t, "closeJob") /\ UNCHANGED lostJob
        /\ job' = [job EXCEPT ![r] = IF at[t].free THEN "released" ELSE "settled"]
     \/ /\ In(t, "closeLost") /\ UNCHANGED job
        /\ lostJob' = [lostJob EXCEPT ![r] = "settled"]
  /\ Go(t, "idle")
  /\ UNCHANGED <<request, arrivals, moneyVars, gateVars, restarts, bridgeVars>>

\* existing_request_error: a repeated request that has a hold asks for its receipt, unless
\* its job answers.  A job that is not closed may carry the mark of a failed poll
\* (mark_video_reconcile), and then does not answer.  A client repeats once: more clients
\* repeat more often.
Repeat(c, r) ==
  /\ In(c, "idle")
  /\ reservation[r] # "absent" /\ (r \in Videos => job[r] \in {"none", "held"})
  /\ Turn(c, Asking(r, "done", "done"))
  /\ UNCHANGED <<request, arrivals, moneyVars, gateVars, jobVars, restarts, bridgeVars>>

-----------------------------------------------------------------------------
(* The administrator, the process and the bridge.                          *)

\* set_video_billing_control.  The gate is only read by videos that have not passed it.
ArmDiagnostic ==
  /\ armings < MaxArmings
  /\ \E r \in Videos : at[r].at \in {"new", "claim"}
  /\ gate' = "armed" /\ armings' = armings + 1
  /\ UNCHANGED <<request, arrivals, moneyVars, oneShot, jobVars, at, restarts, bridgeVars>>

\* What the startup sweeps fail: helpers of ended requests, and requests that never had a
\* hold, of which they leave those younger than five minutes.
EndedHelpers ==
  {c \in Children : /\ request[c] \in {"received", "validating"}
                    /\ request[ParentOf[c]] \in {"failed", "settled"}}

NeverAdmitted == {r \in Requests : request[r] \in {"received", "validating"}}

Restart ==
  /\ restarts < MaxRestarts
  /\ restarts' = restarts + 1
  /\ \E aged \in SUBSET NeverAdmitted :
       request' = [s \in Steps |-> IF s \in EndedHelpers \cup aged THEN "failed" ELSE request[s]]
  /\ at' = [t \in Threads |-> IF t \in Pollers THEN Stage("idle")
                              ELSE IF In(t, "new") THEN at[t] ELSE Stage("done")]
  /\ UNCHANGED <<arrivals, moneyVars, gateVars, jobVars, bridgeVars>>

Generate(r) ==
  /\ wire[r] = "arrived" /\ outcome[r] = "running"
  /\ outcome' = [outcome EXCEPT ![r] = "ended"]
  /\ UNCHANGED <<request, arrivals, moneyVars, gateVars, jobVars, at, restarts, wire, published>>

Contradictions ==
  MapThenSumSet(LAMBDA s : Cardinality(published[s]) - 1, {s \in Steps : published[s] # {}})

\* A request that was refused cost nothing, and a video's cost is known when it has ended.
Publish(s) ==
  /\ wire[s] \in {"arrived", "rejected"}
  /\ published[s] # {} => Contradictions < MaxContradictions
  /\ s \in Videos /\ wire[s] = "arrived" => outcome[s] # "running"
  /\ \E rc \in ReceiptsFor[s] \ published[s] :
       /\ wire[s] = "rejected" => rc.status = "failed_no_charge" /\ ~rc.task
       /\ s \in Videos /\ wire[s] = "arrived" => rc.task
       /\ published' = [published EXCEPT ![s] = @ \cup {rc}]
  /\ UNCHANGED <<request, arrivals, moneyVars, gateVars, jobVars, at, restarts, wire, outcome>>

Handler(r) ==
  \/ EnterGate(r) \/ Claim(r) \/ Begin(r) \/ QuoteOwn(r) \/ Refuse(r)
  \/ Abandon(r) \/ ReleaseOwn(r) \/ DispatchOwn(r) \/ SendOwn(r)
  \/ ChatAnswers(r) \/ VideoAnswers(r) \/ VideoRefused(r) \/ InsertJob(r)

Helper(r) ==
  \/ CreateHelper(r) \/ QuoteHelper(r) \/ RefuseHelper(r) \/ DispatchHelper(r)
  \/ ReleaseHelper(r) \/ SendHelper(r) \/ HelperAnswers(r)

Settlement(t) == Settle(t) \/ Ask(t) \/ Prepare(t) \/ Apply(t)

Next ==
  \/ \E r \in Requests : Handler(r)
  \/ \E r \in Seedances : Helper(r)
  \/ \E t \in Threads : Settlement(t)
  \/ \E s \in Steps : LanePick(s) \/ Publish(s)
  \/ \E t \in Pollers : CloseJob(t)
  \/ \E t \in Pollers, r \in Videos : JobPick(t, r) \/ LostJobPick(t, r)
  \/ \E c \in Clients, r \in Requests : Repeat(c, r)
  \/ \E r \in Videos : Generate(r)
  \/ ArmDiagnostic \/ Restart

BridgeWorks == (\E r \in Videos : Generate(r)) \/ (\E s \in Steps : published[s] = {} /\ Publish(s))

Visit(s) ==
  LanePick(s) \/ (s \in Videos /\ (JobPick(Reconciler, s) \/ LostJobPick(Reconciler, s)))

Answered == Ask(Reconciler) /\ at'[Reconciler].at = "prepare"

\* The reconciler comes round every 15 seconds to what it may settle, and reaches the bridge,
\* which ends what it began, again and again.  Handlers and clients may stop anywhere.
Fairness ==
  /\ WF_vars(BridgeWorks)
  /\ \A s \in Steps : SF_vars(Visit(s))
  /\ SF_vars(Answered)
  /\ WF_vars(Settlement(Reconciler) \/ CloseJob(Reconciler))

Spec == Init /\ [][Next]_vars
FairSpec == Spec /\ Fairness

-----------------------------------------------------------------------------
(* Properties.                                                             *)

HandlerStages == {"new", "claim", "begin", "quote", "refused", "assist", "quoteHelper",
                  "refusedHelper", "dispatchHelper", "releaseHelper", "sendHelper",
                  "awaitHelper", "dispatch", "send", "await", "accept", "lose", "release", "done"}

Calls == [step : Steps, good : HandlerStages \cup {"idle", "closeJob", "closeLost"},
          bad : HandlerStages \cup {"idle"}]

Stages ==
  [at : HandlerStages \cup {"idle"}]
    \cup [at : {"settle"}, call : Calls, seen : Occupying \cup {"settled"}]
    \cup [at : {"ask"}, call : Calls]
    \cup [at : {"prepare"}, call : Calls, receipt : Receipt, seen : Occupying \cup {"settled"}]
    \cup [at : {"apply"}, call : Calls, receipt : Receipt]
    \cup [at : {"closeJob", "closeLost"}, step : Videos, free : BOOLEAN]

\* Every variable keeps its type, and a cost is known exactly of the holds that were settled.
TypeOK ==
  /\ request \in [Steps -> {"absent", "received", "failed", "settled"} \cup Occupying]
  /\ arrivals \in Seq(Steps)
  /\ reservation \in [Steps -> {"absent", "held", "released", "committed"}]
  /\ charged \in [Steps -> Nat \cup {NoActual}]
  /\ \A s \in Steps : charged[s] # NoActual <=> reservation[s] = "committed"
  /\ posted \in [Steps -> Int]
  /\ receipts \in [Steps -> SUBSET Receipt]
  /\ blocks \subseteq Keys
  /\ gate \in {"paused", "active", "armed"} /\ armings \in 0..MaxArmings
  /\ oneShot \subseteq Videos
  /\ job \in [Videos -> {"none", "held", "settled", "released"}]
  /\ lostJob \in [Videos -> {"none", "held", "settled"}]
  /\ at \in [Threads -> Stages]
  /\ restarts \in 0..MaxRestarts
  /\ wire \in [Steps -> {"idle"} \cup Fate]
  /\ outcome \in [Videos -> {"running", "ended"}]
  /\ published \in [Steps -> SUBSET Receipt]

\* The ledger of a request says what became of its hold: the quote while it is held, nothing
\* once it was released, exactly the receipt's cost once it was settled, whichever threads
\* settled, released or replayed it in whatever order.
QuotedBooks ==
  \A s \in Steps :
    posted[s] = CASE reservation[s] = "held" -> -QuoteOf[s]
                  [] reservation[s] = "committed" -> -charged[s]
                  [] OTHER -> 0

\* What the bridge took is covered: its hold is there until a receipt settles it, and no
\* thread that saw the request fail gives the credits back, whatever the reconciler did to
\* the request between the hold, the send and the answer.
ArrivedIsCovered == \A s \in Steps : wire[s] = "arrived" => reservation[s] \in {"held", "committed"}

\* A request is settled exactly when its hold is closed, although its state is walked forward
\* in transactions of their own, by threads that may have read it before another closed it.
ClosedTogether ==
  \A s \in Steps : request[s] = "settled" <=> reservation[s] \in {"released", "committed"}

\* Whatever the bridge took is settled in the end, with no client asking and whatever became
\* of its handler; only a diagnostic whose task has no name stays held.
QuotedSettles ==
  \A s \in Steps :
    wire[s] = "arrived" /\ (s \in oneShot => job[s] = "held") ~> reservation[s] = "committed"
=============================================================================
