--------------------------- MODULE BudgetRecovery ---------------------------
(***************************************************************************)
(* The router around the Budget V2 store: the task that owns a request and *)
(* takes it from its first row to the bridge, the bridge itself, the lanes *)
(* that bring what the bridge knows back into the store, and crashes.      *)
(*                                                                         *)
(* Every change of the store is an action of BudgetBilling.  What is added *)
(* here is who calls it, on the strength of what it read before, and what  *)
(* is forgotten when the process dies.                                     *)
(*                                                                         *)
(* The owner of a request is one task at a time (budget_observer.rs).  The *)
(* bridge is modelled from its answers: what it has sent it reports until  *)
(* it ends, and bills at most once; what it never sent it may withdraw.    *)
(***************************************************************************)
EXTENDS BudgetBilling

CONSTANTS
  Workers,    \* tasks that reconcile one step at a time
  Serves,     \* the request a worker reconciles
  Feed,       \* the lane that applies the bridge's event page
  TaskOf,     \* the task the bridge creates for a video
  MaxCrashes  \* bound on the crashes of the process

NoSend == [status |-> "failed_no_charge", actual |-> 0, task |-> NoTask]

ASSUME RecoveryAssumption ==
  /\ Serves \in [Workers -> Requests] /\ Feed \notin Workers
  /\ TaskOf \in [Videos -> Tasks]
  /\ \A r \in Requests : NoSend \in ReceiptsFor[r]
  /\ MaxCrashes \in Nat

VARIABLES
  owner,   \* the task that owns a request: its stage, its step, whether it created it
  bridge,  \* what the bridge has done about a request
  bill,    \* the last thing the bridge said about its money
  events,  \* the bridge's receipt events, in order
  cursor,  \* the durable receipt cursor: how many of them were applied
  calls,   \* the store calls a worker or the feed has yet to make, in order
  crashes

bridgeVars == <<bridge, bill, events>>
laneVars == <<cursor, calls>>
allVars == <<vars, owner, bridgeVars, laneVars, crashes>>

NotSent == {"none", "prepared", "withdrawn"}
UnderWay == {"running", "unknown"}
\* A helper that succeeded decided for text or for a video, or said nothing usable.
Decisions == {"text", "video", "invalid"}
BridgeEnded == {"succeeded", "failed"} \cup Decisions
Outcomes(r) == IF r \in Children THEN Decisions \cup {"failed"} ELSE {"succeeded", "failed"}

-----------------------------------------------------------------------------
(* The bridge.                                                             *)

Publish(r, b) ==
  /\ bill' = [bill EXCEPT ![r] = b]
  /\ events' = Append(events, [step |-> r, bill |-> b])

\* A prepared budget is canceled, because Core asked for it or because it expired: from
\* then on it is a durable fact that nothing was sent.
Cancel(r) ==
  /\ bridge[r] = "prepared"
  /\ bridge' = [bridge EXCEPT ![r] = "withdrawn"]
  /\ Publish(r, NoSend)

Withdraw(r) ==
  /\ Cancel(r)
  /\ UNCHANGED <<vars, owner, laneVars, crashes>>

\* The bridge loses sight of a call, or learns how it ended.
Observe(r) ==
  /\ bridge[r] \in UnderWay
  /\ \E next \in Outcomes(r) \cup ({"unknown"} \ {bridge[r]}) :
       bridge' = [bridge EXCEPT ![r] = next]
  /\ UNCHANGED <<vars, owner, bill, events, laneVars, crashes>>

\* What was sent is billed, before or after its result; a video for the task it made.
Bill(r) ==
  /\ bridge[r] \notin NotSent /\ bill[r] = NoReceipt
  /\ r \in Videos => bridge[r] \in BridgeEnded
  /\ \E rc \in ReceiptsFor[r] \ {NoSend} : Publish(r, rc)
  /\ UNCHANGED <<vars, owner, bridge, laneVars, crashes>>

\* A bill turns out to contradict what the upstream says later.
Contradict(r) ==
  /\ bill[r] \in ReceiptsFor[r] \ {NoSend}
  /\ \E hash \in OpaqueHashes : Publish(r, hash)
  /\ UNCHANGED <<vars, owner, bridge, laneVars, crashes>>

BridgeStep == \E r \in Requests : Withdraw(r) \/ Observe(r) \/ Bill(r) \/ Contradict(r)

-----------------------------------------------------------------------------
(* The owner of a request.                                                 *)

Gone == [at |-> "gone", step |-> "none", fresh |-> FALSE]

OwnerAt(p, stage) == owner[p].at = stage
StepOf(p) == owner[p].step
Go(p, stage, r) == owner' = [owner EXCEPT ![p].at = stage, ![p].step = r]
Leave(p) == owner' = [owner EXCEPT ![p] = Gone]

\* Where prepare_step's error takes its caller: an assist preparation is aborted, a video
\* chain is closed if the error is definite and left to its continuation if it is not, a
\* chat drops its AdmissionOwner.
AfterFailure(p, r) ==
  IF r \in Children THEN {"abort"} ELSE IF p \in Videos THEN {"close", "drop"} ELSE {"drop"}

Fail(p, r) == \E stage \in AfterFailure(p, r) : Go(p, stage, r)

\* The client's request is inserted, and its task starts.
Accept(p) ==
  /\ OwnerAt(p, "gone")
  /\ BeginRequest(p)
  /\ owner' = [owner EXCEPT ![p] = [at |-> IF p \in Videos THEN "assist" ELSE "prepare",
                                    step |-> p, fresh |-> TRUE]]
  /\ UNCHANGED <<bridgeVars, laneVars, crashes>>

\* A video chain starts with its helper request; any error before that ends it.
StartAssist(p) ==
  /\ OwnerAt(p, "assist")
  /\ \/ \E c \in Children : ParentOf[c] = p /\ BeginAssist(c) /\ Go(p, "prepare", c)
     \/ UNCHANGED vars /\ Go(p, "drop", p)
  /\ UNCHANGED <<bridgeVars, laneVars, crashes>>

\* The bridge prepares a budget, once for a request; its answer may be an error or lost.
Prepare(p) ==
  LET r == StepOf(p) IN
  /\ OwnerAt(p, "prepare")
  /\ \/ /\ bridge[r] \in {"none", "prepared"}
        /\ bridge' = [bridge EXCEPT ![r] = "prepared"]
        /\ Go(p, "admit", r) \/ Fail(p, r)
     \/ UNCHANGED bridge /\ Fail(p, r)
  /\ UNCHANGED <<vars, bill, events, laneVars, crashes>>

\* A slip in prepare_step: the budget is dispatched and then marked.
SendStage == "send"

AdmittedStage == "mark"

\* Core admits the step: the first of its parent with the operation, a later one into it.
Admit(p) ==
  LET r == StepOf(p) IN
  /\ OwnerAt(p, "admit")
  /\ \E amount \in HoldChoices, lifetime \in Lifetimes :
       IF operation[p] = "absent"
       THEN BeginOperation(r, amount, lifetime)
       ELSE r = p /\ AddStep(p, amount, lifetime)
  /\ Go(p, AdmittedStage, r)
  /\ UNCHANGED <<bridgeVars, laneVars, crashes>>

\* Core refuses: the prepared budget is canceled, unless that call gets lost.
AdmitRefused(p) ==
  LET r == StepOf(p) IN
  /\ OwnerAt(p, "admit")
  /\ Cancel(r) \/ UNCHANGED bridgeVars
  /\ Fail(p, r)
  /\ UNCHANGED <<vars, laneVars, crashes>>

\* The durable mark that precedes the paid call.
Mark(p) ==
  /\ OwnerAt(p, "mark")
  /\ Dispatch(StepOf(p)) /\ Go(p, "send", StepOf(p))
  /\ UNCHANGED <<bridgeVars, laneVars, crashes>>

\* A slip in prepare_step: when the mark is refused the credits are given back at once.
GiveBack(p) ==
  /\ OwnerAt(p, "mark")
  /\ Release(StepOf(p)) /\ Fail(p, StepOf(p))
  /\ UNCHANGED <<bridgeVars, laneVars, crashes>>

\* The mark is refused: the step stays admitted, nothing is canceled.
MarkRefused(p) ==
  /\ OwnerAt(p, "mark")
  /\ Fail(p, StepOf(p))
  /\ UNCHANGED <<vars, bridgeVars, laneVars, crashes>>

\* The paid call, made once whatever becomes of it; then only a helper's result is awaited
\* here, other results are read like a worker reads them.
Send(p) ==
  LET r == StepOf(p) IN
  /\ OwnerAt(p, "send")
  /\ \/ bridge[r] = "prepared" /\ bridge' = [bridge EXCEPT ![r] = "running"]
     \/ UNCHANGED bridge
  /\ IF r \in Children THEN Go(p, "wait", r) ELSE Leave(p)
  /\ UNCHANGED <<vars, bill, events, laneVars, crashes>>

\* read_result told the owner that the helper's call was never made.
ProvenUnsent(r) ==
  /\ execution[r] \in {"failed", "canceled"}
  /\ \/ financial[r] = "settled" /\ actual[r] = 0
     \/ ~attempted[r] /\ financial[r] = "released"

\* The helper's result is there and the store has it.
HelperEnded(r) == bridge[r] \in BridgeEnded /\ execution[r] \in Terminal

\* The owner acts on the helper's result: a text answer ends the chain, a video decision
\* takes it to its second step, anything else fails it.
TakeResult(p) ==
  LET r == StepOf(p) IN
  /\ OwnerAt(p, "wait")
  /\ \/ /\ HelperEnded(r) /\ bridge[r] = "text"
        /\ IF Finishable(p) THEN Finish(p, "succeeded") ELSE UNCHANGED vars
        /\ Leave(p)
     \/ /\ HelperEnded(r) /\ bridge[r] = "video"
        /\ IF owner[p].fresh \/ operation[p] \in Active THEN Go(p, "prepare", p) ELSE Leave(p)
        /\ UNCHANGED vars
     \/ /\ (HelperEnded(r) /\ bridge[r] \in {"failed", "invalid"}) \/ ProvenUnsent(r)
        /\ Go(p, "close", r)
        /\ UNCHANGED vars
  /\ UNCHANGED <<bridgeVars, laneVars, crashes>>

\* The wait times out, or its result cannot be read.
StopWaiting(p) ==
  /\ OwnerAt(p, "wait")
  /\ Go(p, "drop", StepOf(p))
  /\ UNCHANGED <<vars, bridgeVars, laneVars, crashes>>

\* abort_preparation_failure
Abort(p) ==
  /\ OwnerAt(p, "abort")
  /\ IF OpenPreparation(StepOf(p)) THEN AbortPreparation(StepOf(p)) ELSE UNCHANGED vars
  /\ \E stage \in {"close", "drop"} : Go(p, stage, StepOf(p))
  /\ UNCHANGED <<bridgeVars, laneVars, crashes>>

\* finish_definite_failure: the store refuses while a step is unfinished.
Close(p) ==
  /\ OwnerAt(p, "close")
  /\ IF Finishable(p) THEN Finish(p, "failed") ELSE UNCHANGED vars
  /\ Go(p, "drop", StepOf(p))
  /\ UNCHANGED <<bridgeVars, laneVars, crashes>>

\* finish_unadmitted_request, for a chat always and for a video by the task that made it.
Drop(p) ==
  /\ OwnerAt(p, "drop")
  /\ IF Unowned(p) /\ (p \in Chats \/ owner[p].fresh) THEN FinishUnadmitted(p) ELSE UNCHANGED vars
  /\ Leave(p)
  /\ UNCHANGED <<bridgeVars, laneVars, crashes>>

NoVideoStep(p) == execution[p] = "absent"

\* The client repeats its request: a chat that was never admitted is prepared again, a
\* helper that was is waited for; a chain without a helper step is refused.
Retry(p) ==
  /\ OwnerAt(p, "gone")
  /\ \/ /\ p \in Chats /\ request[p] = "received" /\ operation[p] = "absent"
        /\ owner' = [owner EXCEPT ![p] = [at |-> "prepare", step |-> p, fresh |-> FALSE]]
     \/ /\ p \in Videos /\ operation[p] # "absent" /\ request[p] # "failed" /\ NoVideoStep(p)
        /\ \E c \in Children :
             /\ ParentOf[c] = p /\ execution[c] # "absent"
             /\ owner' = [owner EXCEPT ![p] = [at |-> "wait", step |-> c, fresh |-> FALSE]]
  /\ UNCHANGED <<vars, bridgeVars, laneVars, crashes>>

\* The continuation worker takes up a chain whose helper succeeded and that has no video.
Resumable(p) ==
  /\ operation[p] \in Active /\ NoVideoStep(p)
  /\ \E c \in Children : ParentOf[c] = p /\ execution[c] = "succeeded"

Resume(p) ==
  /\ OwnerAt(p, "gone") /\ Resumable(p)
  /\ \E c \in Children :
       ParentOf[c] = p /\ owner' = [owner EXCEPT ![p] = [at |-> "wait", step |-> c, fresh |-> FALSE]]
  /\ UNCHANGED <<vars, bridgeVars, laneVars, crashes>>

OwnerStep ==
  \E p \in Parents :
    \/ Accept(p) \/ StartAssist(p) \/ Prepare(p) \/ Admit(p) \/ AdmitRefused(p)
    \/ Mark(p) \/ MarkRefused(p) \/ Send(p) \/ TakeResult(p) \/ StopWaiting(p)
    \/ Abort(p) \/ Close(p) \/ Drop(p) \/ Retry(p) \/ Resume(p)

-----------------------------------------------------------------------------
(* The lanes.  A worker reads a step and what the bridge says of it, which *)
(* decides the store calls it makes one after the other; each is a         *)
(* transaction of its own, and the first refused one ends its part.        *)

Call(op, arg) == [op |-> op, arg |-> arg]
Subject(w) == IF w = Feed THEN events[cursor + 1].step ELSE Serves[w]
Idle(w) == calls[w] = <<>>

\* A slip: a helper's decision is reported as the state of its step.
ReportedAsTold(r) == bridge[r]

\* The execution state the bridge reports.
Reported(r) == IF bridge[r] \in Decisions THEN "succeeded" ELSE bridge[r]

\* A slip in sync_execution: a helper that ended ends its parent whatever it decided.
AnyHelperEnds(r) == <<Call("helper", IF bridge[r] \in Decisions THEN "succeeded" ELSE "failed")>>

\* A helper that decided for a video leaves the parent to the chain.
HelperEnds(r) ==
  IF bridge[r] = "video" THEN <<>>
  ELSE <<Call("helper", IF bridge[r] = "text" THEN "succeeded" ELSE "failed")>>

\* The task the bridge may name with the state: that of a video, at the latest when it
\* has ended.
TaskReports(r) ==
  IF r \notin Videos THEN {NoTask}
  ELSE IF bridge[r] \in BridgeEnded THEN {TaskOf[r]}
  ELSE {NoTask, TaskOf[r]}

\* sync_execution: bind the task that is named, mark the step, and end the parent with
\* its own step or with a helper that decided against a video.
ExecutionCalls(r, told) ==
  LET state == Reported(r)
      bind == IF told = NoTask THEN <<>> ELSE <<Call("bind", told)>>
      mark == IF execution[r] \in Terminal THEN <<>> ELSE <<Call("mark", state)>>
      finish == IF r \in Children THEN HelperEnds(r) ELSE <<Call("finish", state)>>
  IN IF ~attempted[r] \/ bridge[r] \in NotSent THEN <<>>
     ELSE IF execution[r] \in Terminal /\ execution[r] # state THEN bind
     ELSE IF bridge[r] \in UnderWay THEN bind \o mark
     ELSE bind \o mark \o finish

\* A slip in apply_receipt_envelope: a no-send receipt returns the credits whatever the
\* snapshot of the step said.
NoSendAlwaysReleases(r, sent) == <<Call("release", "none")>>

NoSendCalls(r, sent) ==
  IF sent THEN <<Call("receipt", NoSend), Call("mark", "failed")>> ELSE <<Call("release", "none")>>

\* apply_receipt_envelope, with what the caller's snapshot says of the dispatch: a no-send
\* receipt releases a step that was not sent, and is a zero bill for one that was.  Either
\* way it fails a parent whose own step this is.
BillCalls(r, b, sent) ==
  IF b = NoReceipt THEN <<>>
  ELSE IF b \in OpaqueHashes THEN <<Call("conflict", b)>>
  ELSE IF b # NoSend THEN <<Call("receipt", b)>>
  ELSE NoSendCalls(r, sent) \o IF r \in Parents THEN <<Call("finish", "failed")>> ELSE <<>>

\* A slip in the recovery index: only what was marked as sent is looked at.
PendingIfSent(r) == attempted[r] /\ (financial[r] \in {"held", "unknown", "conflict"} \/ execution[r] \in Active)

\* A slip in the recovery index: the parent's operation is not looked at.
PendingRow(r) == financial[r] \in {"held", "unknown", "conflict"} \/ execution[r] \in Active

\* pending_budget_steps: money open, or execution open, or the operation open.
PendingStep(r) ==
  /\ execution[r] # "absent"
  /\ \/ financial[r] \in {"held", "unknown", "conflict"}
     \/ execution[r] \in Active
     \/ operation[Operation(r)] \in Active

\* A worker takes up its step: what it has read of it goes into the calls it will make.
Look(w) ==
  LET r == Serves[w] IN
  /\ Idle(w) /\ PendingStep(r)
  /\ \E told \in TaskReports(r) :
       calls' = [calls EXCEPT ![w] = ExecutionCalls(r, told) \o <<Call("read", attempted[r])>>]
  /\ UNCHANGED <<vars, owner, bridgeVars, cursor, crashes>>

\* Then it reads the bill.
ReadBill(w) ==
  /\ ~Idle(w) /\ Head(calls[w]).op = "read"
  /\ calls' = [calls EXCEPT ![w] = BillCalls(Serves[w], bill[Serves[w]], Head(@).arg)]
  /\ UNCHANGED <<vars, owner, bridgeVars, cursor, crashes>>

\* The feed takes the next event; one about a step Core does not have is only counted.
TakeEvent ==
  /\ Idle(Feed) /\ cursor < Len(events)
  /\ LET e == events[cursor + 1] IN
       calls' = [calls EXCEPT ![Feed] =
                   (IF execution[e.step] = "absent" THEN <<>>
                    ELSE BillCalls(e.step, e.bill, attempted[e.step])) \o <<Call("advance", "none")>>]
  /\ UNCHANGED <<vars, owner, bridgeVars, cursor, crashes>>

\* advance_budget_receipt_cursor, in a transaction of its own.
Advance ==
  /\ ~Idle(Feed) /\ Head(calls[Feed]).op = "advance"
  /\ cursor' = cursor + 1
  /\ calls' = [calls EXCEPT ![Feed] = <<>>]
  /\ UNCHANGED <<vars, owner, bridgeVars, crashes>>

\* The receipt settles, contradicts, or says again what is known.
Receive(r, rc) ==
  SettlingReceipt(r, rc) \/ ConflictingReceipt(r, rc) \/ PendingReceipt(r, rc) \/ LatePendingReceipt(r, rc)

\* The store call takes effect.
Effect(r, call) ==
  \/ call.op = "bind" /\ BindTask(r, call.arg)
  \/ call.op = "mark" /\ MarkExecution(r, call.arg)
  \/ call.op = "finish" /\ Finish(r, call.arg)
  \/ call.op = "helper" /\ NoVideoStep(ParentOf[r]) /\ Finish(ParentOf[r], call.arg)
  \/ call.op = "release" /\ Release(r)
  \/ call.op = "receipt" /\ Receive(r, call.arg)
  \/ call.op = "conflict" /\ MarkConflict(r, call.arg)

Recorded(r, hash) == \E e \in evidence[r] : e.hash = hash

\* A receipt for a step in conflict that was never settled is answered and not applied.
Frozen(r) == financial[r] = "conflict" /\ settlement[r] = NoReceipt

\* The store call is answered with success and changes nothing.
AlreadyDone(r, call) ==
  \/ call.op = "bind" /\ task[r] = call.arg
  \/ call.op = "mark" /\ execution[r] = call.arg
  \/ call.op = "finish" /\ operation[r] = call.arg
  \/ /\ call.op = "helper"
     /\ operation[ParentOf[r]] \in Terminal \/ ~NoVideoStep(ParentOf[r])
  \/ call.op = "release" /\ financial[r] = "released"
  \/ call.op = "receipt" /\ (Recorded(r, call.arg) \/ Frozen(r))
  \/ call.op = "conflict" /\ Recorded(r, call.arg)

\* The guard of the call, as the store checks it.
Accepted(r, call) ==
  \/ call.op = "bind" /\ Bindable(r)
  \/ call.op = "mark" /\ Reportable(r, call.arg) /\ operation[Operation(r)] \in Active
  \/ call.op = "finish" /\ Finishable(r)
  \/ call.op = "helper" /\ Finishable(ParentOf[r])
  \/ call.op = "release" /\ Releasable(r)
  \/ /\ call.op = "receipt" /\ attempted[r]
     /\ r \in Videos /\ call.arg.status = "final" => task[r] # NoTask
  \/ call.op = "conflict" /\ attempted[r]

\* The bill a worker has yet to read, or the cursor the feed has yet to advance, comes last.
Only(w, op) == IF calls[w][Len(calls[w])].op = op THEN <<calls[w][Len(calls[w])]>> ELSE <<>>

\* A slip in sync_event_page: an event that cannot be applied is passed over.
PassOver(w) == Only(w, "read") \o Only(w, "advance")

\* A refused call ends this part: a worker still reads the bill, the feed stays where it is.
AfterRefusal(w) == Only(w, "read")

\* A worker or the feed makes its next store call.
Perform(w) ==
  LET r == Subject(w)
      call == Head(calls[w]) IN
  /\ ~Idle(w) /\ call.op \notin {"read", "advance"}
  /\ \/ /\ ~AlreadyDone(r, call) /\ Accepted(r, call)
        /\ Effect(r, call)
        /\ calls' = [calls EXCEPT ![w] =
                       IF call.op = "receipt" /\ financial'[r] = "conflict"
                       THEN Only(w, "advance") ELSE Tail(@)]
     \/ /\ AlreadyDone(r, call)
        /\ UNCHANGED vars
        /\ calls' = [calls EXCEPT ![w] =
                       IF call.op = "receipt" /\ Frozen(r) THEN Only(w, "advance") ELSE Tail(@)]
     \/ /\ ~AlreadyDone(r, call) /\ ~Accepted(r, call)
        /\ UNCHANGED vars
        /\ calls' = [calls EXCEPT ![w] = AfterRefusal(w)]
  /\ UNCHANGED <<owner, bridgeVars, cursor, crashes>>

Work(w) == Look(w) \/ ReadBill(w) \/ Perform(w)
FeedStep == TakeEvent \/ Perform(Feed) \/ Advance

LaneStep == (\E w \in Workers : Work(w)) \/ FeedStep

-----------------------------------------------------------------------------
(* Crashes, and the rest of the world.                                     *)

\* The process dies: its tasks are forgotten, the rows and the cursor stay.  Before it
\* serves again it fails what was received and left alone for long enough.
Crash ==
  LET abandoned == {p \in Parents : Unowned(p) /\ createdAt[p] < clock} IN
  /\ crashes < MaxCrashes
  /\ crashes' = crashes + 1
  /\ owner' = [p \in Parents |-> Gone]
  /\ calls' = [w \in Workers \cup {Feed} |-> <<>>]
  /\ IF abandoned = {} THEN UNCHANGED vars ELSE RecoverPreDispatch(clock)
  /\ UNCHANGED <<bridgeVars, cursor>>

World ==
  /\ Environment
  /\ UNCHANGED <<owner, bridgeVars, laneVars, crashes>>

RecoveryInit ==
  /\ Init
  /\ owner = [p \in Parents |-> Gone]
  /\ bridge = [r \in Requests |-> "none"]
  /\ bill = [r \in Requests |-> NoReceipt]
  /\ events = <<>>
  /\ cursor = 0
  /\ calls = [w \in Workers \cup {Feed} |-> <<>>]
  /\ crashes = 0

RecoveryNext == OwnerStep \/ BridgeStep \/ LaneStep \/ Crash \/ World

\* The lanes keep running: their loops tick every two seconds and are restarted with the
\* process.  Nothing is assumed of owners, of the bridge or of clients.
Fairness ==
  /\ \A w \in Workers : WF_allVars(Work(w))
  /\ WF_allVars(FeedStep)

RecoverySpec == RecoveryInit /\ [][RecoveryNext]_allVars /\ Fairness

-----------------------------------------------------------------------------
(* Properties.                                                             *)

CallOK(call) ==
  CASE call.op = "mark" -> call.arg \in UnderWay \cup Terminal
    [] call.op \in {"finish", "helper"} -> call.arg \in Terminal
    [] OTHER -> call.op \in {"bind", "read", "receipt", "release", "conflict", "advance"}

\* Owners are where prepare_step and its callers can be, and what the lanes ask of the store
\* is what its columns can hold.
RecoveryTypeOK ==
  /\ owner \in [Parents -> [at : {"gone", "assist", "prepare", "admit", "mark", "send", "wait",
                                  "abort", "close", "drop"},
                            step : Requests \cup {"none"}, fresh : BOOLEAN]]
  /\ bridge \in [Requests -> NotSent \cup UnderWay \cup BridgeEnded]
  /\ cursor \in 0..Len(events)
  /\ \A w \in Workers \cup {Feed} : \A i \in DOMAIN calls[w] : CallOK(calls[w][i])
  /\ crashes \in 0..MaxCrashes

\* What the bridge sent was promised: whoever called what, and wherever the process died,
\* the step of a call that was sent is marked, and its credits never went back unbilled.
SentWasPromised ==
  \A r \in Requests :
    bridge[r] \notin NotSent =>
      /\ attempted[r]
      /\ reservation[r] \in {"held", "unknown"} \/ (reservation[r] = "committed" /\ settlement[r] # NoSend)

\* Credits come back, or are charged as zero, only for what the bridge withdrew for good.
ReturnedWasWithdrawn ==
  \A r \in Requests :
    reservation[r] = "released" \/ settlement[r] = NoSend => bridge[r] = "withdrawn"

\* An operation is closed only when the bridge has nothing under way for it, and as the
\* bridge says: a chat or a video succeeds with its own call, a helper alone with a text.
ClosedMeansQuiet ==
  \A p \in Parents :
    operation[p] \in Terminal =>
      /\ \A r \in Steps(p) : bridge[r] \notin UnderWay
      /\ operation[p] = "succeeded" =>
           IF NoVideoStep(p) THEN \E r \in Steps(p) : bridge[r] = "text" ELSE bridge[p] = "succeeded"

\* The cursor never leaves behind money the store does not know: every bill of an applied
\* event is recorded, or its step is in conflict anyway.  No-send facts of steps that Core
\* had not admitted when the event passed are left to the workers.
CursorNeverSkipsBills ==
  \A i \in 1..cursor :
    LET e == events[i] IN
    e.bill # NoSend => Recorded(e.step, e.bill) \/ financial[e.step] = "conflict"

Landed(r) == Recorded(r, bill[r]) \/ reservation[r] = "released" \/ financial[r] = "conflict"

\* Every bill lands: once a step exists, what the bridge last said of its money is recorded,
\* its credits return, or it is found in conflict.
BillsLand ==
  \A r \in Requests : bill[r] # NoReceipt /\ execution[r] # "absent" ~> Landed(r)

Decided(p) ==
  /\ operation[p] \in Active
  /\ IF NoVideoStep(p)
     THEN \E r \in Steps(p) : bridge[r] \in {"text", "invalid", "failed"}
     ELSE bridge[p] \in BridgeEnded \cup {"withdrawn"}

\* The slot comes back: when the bridge has ended, or withdrawn, the call that an operation
\* stands or falls with, its operation ends, whatever happened to its owner.  A helper that
\* decided for a video, or was never sent, is not such a call.
SlotFreed == \A p \in Parents : Decided(p) ~> operation[p] \in Terminal

\* The feed does not get stuck: every event the bridge published is eventually passed.
FeedCatchesUp == []<>(cursor = Len(events))

\* The documents' claim of the recovery index: a parent whose steps have all ended, with no
\* helper whose decision has yet to be carried out, is found and ended in the background.
EndedStepsFreeSlot ==
  \A p \in Parents :
    operation[p] \in Active /\ EveryStepEnded(p) /\ ~Resumable(p) ~> operation[p] \notin Active

\* The documents' claim of start-up recovery: a relation that keeps an old request out of
\* the sweep has its own reconciliation, so an abandoned preparation does not stay open.
PreparationsSettle ==
  \A p \in Parents : preparation[p] = "open" /\ OwnerAt(p, "gone") ~> preparation[p] # "open"
=============================================================================
