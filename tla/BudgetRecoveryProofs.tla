------------------------ MODULE BudgetRecoveryProofs ------------------------
(***************************************************************************)
(* What holds of the router around Budget V2 wherever its process dies:    *)
(* nothing it does is beyond what the store was proved to withstand, and   *)
(* what the bridge sent was promised, what came back was never sent.       *)
(***************************************************************************)
EXTENDS BudgetRecovery, BudgetLedgerProofs

Stages == {"gone", "assist", "prepare", "admit", "mark", "send", "wait", "abort", "close", "drop"}
Owner == [at : Stages, step : Requests \cup {"none"}, fresh : BOOLEAN]

\* What the bridge may say of the money of r: that nothing was sent, only once it is
\* withdrawn for good.
BillsOf(r) ==
  (ReceiptsFor[r] \cup OpaqueHashes) \ (IF bridge[r] = "withdrawn" THEN {} ELSE {NoSend})

\* The bridge has said its last word about the call of r: how it ended, or that it was
\* never made.
ToldEnded(r) == bridge[r] \in BridgeEnded \cup {"withdrawn"}

\* What a lane may ask of the store about r: to end its step, or give its credits back, or
\* charge it with zero, only once the bridge has told it, and to end a parent as the bridge
\* told it.
CallsFor(r) ==
  [op : {"mark"}, arg : UnderWay \cup (IF ToldEnded(r) THEN Terminal ELSE {})]
    \cup [op : {"bind"}, arg : IF r \in Videos THEN Tasks ELSE {}]
    \cup [op : {"finish"},
          arg : IF r \in Parents
                THEN {"failed"} \cup (IF bridge[r] = "succeeded" THEN {"succeeded"} ELSE {})
                ELSE {}]
    \cup [op : {"helper"},
          arg : IF r \in Children
                THEN {"failed"} \cup (IF bridge[r] = "text" THEN {"succeeded"} ELSE {})
                ELSE {}]
    \cup [op : {"receipt"}, arg : BillsOf(r) \cap ReceiptsFor[r]]
    \cup [op : {"conflict"}, arg : OpaqueHashes]
    \cup [op : {"release"}, arg : IF bridge[r] = "withdrawn" THEN {"none"} ELSE {}]
    \cup [op : {"read"}, arg : BOOLEAN]
    \cup [op : {"advance"}, arg : {"none"}]

OwnerShape ==
  /\ owner \in [Parents -> Owner]
  /\ \A p \in Parents :
       /\ ~OwnerAt(p, "gone") => StepOf(p) \in Requests
       /\ OwnerAt(p, "abort") => StepOf(p) \in Children

\* A call of the bridge is where calls of its kind can be.
BridgeValues ==
  /\ bridge \in [Requests -> NotSent \cup UnderWay \cup BridgeEnded]
  /\ \A r \in Requests : bridge[r] \in NotSent \cup UnderWay \cup Outcomes(r)

BridgeShape ==
  /\ BridgeValues
  /\ bill \in [Requests -> Receipt \cup OpaqueHashes \cup {NoReceipt}]
  /\ \A r \in Requests : bill[r] \in BillsOf(r) \cup {NoReceipt}
  /\ events \in Seq([step : Requests, bill : Receipt \cup OpaqueHashes])
  /\ \A i \in 1..Len(events), r \in Requests :
       events[i].step = r => events[i].bill \in BillsOf(r)

LaneShape ==
  /\ cursor \in Nat /\ cursor <= Len(events)
  /\ DOMAIN calls = Workers \cup {Feed}
  /\ \A w \in Workers : calls[w] \in Seq(CallsFor(Serves[w]))
  /\ calls[Feed] # <<>> =>
       /\ cursor < Len(events)
       /\ \A r \in Requests : events[cursor + 1].step = r => calls[Feed] \in Seq(CallsFor(r))

\* What the router's tasks and lanes know is what the store takes, and what they would
\* give back was withdrawn.
Shape == OwnerShape /\ BridgeShape /\ LaneShape

-----------------------------------------------------------------------------
(* The bridge.                                                             *)

\* What ended stays as it ended, so what may be said of it may still be said.
EndedStays == \A r \in Requests : ToldEnded(r) => bridge'[r] = bridge[r]


LEMMA CallsGrow ==
  ASSUME EndedStays, NEW r \in Requests
  PROVE  BillsOf(r) \subseteq BillsOf(r)' /\ CallsFor(r) \subseteq CallsFor(r)'
<1>1. BillsOf(r) \subseteq BillsOf(r)'
  BY DEF EndedStays, BillsOf, ToldEnded
<1> QED
  BY <1>1 DEF CallsFor, EndedStays, ToldEnded, BridgeEnded, Decisions

LEMMA PublishShape ==
  ASSUME BridgeShape, EndedStays, NEW r \in Requests,
         NEW b \in Receipt \cup OpaqueHashes, b \in BillsOf(r)', Publish(r, b),
         BridgeValues'
  PROVE  BridgeShape'
<1> DEFINE e == [step |-> r, bill |-> b]
<1>1. /\ events' \in Seq([step : Requests, bill : Receipt \cup OpaqueHashes])
      /\ Len(events') = Len(events) + 1
      /\ \A i \in 1..Len(events) : events'[i] = events[i]
      /\ events'[Len(events) + 1] = e
  BY DEF BridgeShape, Publish
<1>2. (\A i \in 1..Len(events), q \in Requests : events[i].step = q => events[i].bill \in BillsOf(q))'
  <2> SUFFICES ASSUME NEW i \in 1..Len(events'), NEW q \in Requests, events'[i].step = q
               PROVE  events'[i].bill \in BillsOf(q)'
    OBVIOUS
  <2>1. CASE i = Len(events) + 1
    BY <1>1, <2>1
  <2>2. CASE i \in 1..Len(events)
    BY <1>1, <2>2, CallsGrow DEF BridgeShape
  <2>3. Len(events) \in Nat
    BY DEF BridgeShape
  <2> QED
    BY <1>1, <2>1, <2>2, <2>3
<1>3. \A q \in Requests : bill'[q] \in BillsOf(q)' \cup {NoReceipt}
  BY CallsGrow DEF BridgeShape, Publish
<1> QED
  BY <1>1, <1>2, <1>3 DEF BridgeShape, Publish

LEMMA QuietShape ==
  ASSUME BridgeShape, EndedStays, UNCHANGED <<bill, events>>,
         BridgeValues'
  PROVE  BridgeShape'
<1>1. \A q \in Requests : BillsOf(q) \subseteq BillsOf(q)'
  BY CallsGrow
<1>2. \A q \in Requests : bill'[q] \in BillsOf(q)' \cup {NoReceipt}
  BY <1>1 DEF BridgeShape
<1>3. (\A i \in 1..Len(events), q \in Requests : events[i].step = q => events[i].bill \in BillsOf(q))'
  BY <1>1 DEF BridgeShape
<1> QED
  BY <1>2, <1>3 DEF BridgeShape

\* The feed sees more events, never others.
EventsGrow ==
  \/ events' = events
  \/ \E e \in [step : Requests, bill : Receipt \cup OpaqueHashes] : events' = Append(events, e)

BridgeMoves == BridgeShape' /\ EndedStays /\ EventsGrow

LEMMA NoSendReceipt ==
  ASSUME NEW r \in Requests
  PROVE  NoSend \in Receipt /\ NoSend \in ReceiptsFor[r] /\ NoSend # NoReceipt
BY RecoveryAssumption, ReceiptAssumption

LEMMA CancelMoves ==
  ASSUME BridgeShape, NEW r \in Requests, Cancel(r)
  PROVE  BridgeMoves
<1>1. EndedStays /\ BridgeValues'
  BY DEF BridgeShape, BridgeValues, Cancel, EndedStays, ToldEnded, BridgeEnded, Decisions, NotSent
<1>2. NoSend \in BillsOf(r)' /\ NoSend \in Receipt
  BY NoSendReceipt DEF BridgeShape, BridgeValues, Cancel, BillsOf
<1>3. EventsGrow
  BY <1>2 DEF EventsGrow, Cancel, Publish
<1> QED
  BY <1>1, <1>2, <1>3, PublishShape DEF BridgeMoves, Cancel

LEMMA PrepareMoves ==
  ASSUME BridgeShape, NEW r \in Requests, bridge[r] \in {"none", "prepared"},
         NEW next \in {"prepared", "running"},
         bridge' = [bridge EXCEPT ![r] = next], UNCHANGED <<bill, events>>
  PROVE  BridgeMoves
<1>1. EndedStays /\ BridgeValues'
  BY DEF BridgeShape, BridgeValues, EndedStays, ToldEnded, BridgeEnded, Decisions, Outcomes, NotSent,
     UnderWay
<1> QED
  BY <1>1, QuietShape DEF BridgeMoves, EventsGrow

LEMMA StillMoves == BridgeShape /\ UNCHANGED bridgeVars => BridgeMoves
<1> SUFFICES ASSUME BridgeShape, UNCHANGED bridgeVars PROVE BridgeMoves
  OBVIOUS
<1>1. EndedStays /\ BridgeValues'
  BY DEF BridgeShape, BridgeValues, EndedStays, bridgeVars
<1> QED
  BY <1>1, QuietShape DEF BridgeMoves, EventsGrow, bridgeVars

LEMMA BridgeStepMoves ==
  ASSUME BridgeShape, BridgeStep
  PROVE  BridgeMoves /\ UNCHANGED <<vars, owner, laneVars, crashes>>
<1>1. ASSUME NEW r \in Requests, Withdraw(r) PROVE BridgeMoves
  BY <1>1, CancelMoves DEF Withdraw
<1>2. ASSUME NEW r \in Requests, Observe(r) PROVE BridgeMoves
  <2>1. EndedStays /\ BridgeValues'
    BY <1>2 DEF Observe, BridgeShape, BridgeValues, EndedStays, ToldEnded, NotSent, UnderWay,
       BridgeEnded, Outcomes, Decisions
  <2> QED
    BY <1>2, <2>1, QuietShape DEF BridgeMoves, EventsGrow, Observe
<1>3. ASSUME NEW r \in Requests, NEW b \in (ReceiptsFor[r] \ {NoSend}) \cup OpaqueHashes,
             b # NoSend, Publish(r, b), UNCHANGED bridge
      PROVE  BridgeMoves
  <2>1. b \in BillsOf(r)' /\ b \in Receipt \cup OpaqueHashes
    BY <1>3, ReceiptAssumption DEF BillsOf
  <2>2. EndedStays /\ BridgeValues'
    BY <1>3 DEF BridgeShape, BridgeValues, EndedStays
  <2>3. EventsGrow
    BY <1>3, <2>1 DEF EventsGrow, Publish
  <2> QED
    BY <1>3, <2>1, <2>2, <2>3, PublishShape DEF BridgeMoves
<1>4. ASSUME NEW r \in Requests, Bill(r) PROVE BridgeMoves
  BY <1>3, <1>4 DEF Bill
<1>5. ASSUME NEW r \in Requests, Contradict(r) PROVE BridgeMoves
  <2>1. NoSend \notin OpaqueHashes
    BY NoSendReceipt, ReceiptAssumption
  <2> QED
    BY <1>3, <1>5, <2>1 DEF Contradict
<1> QED
  BY <1>1, <1>2, <1>4, <1>5 DEF BridgeStep, Withdraw, Observe, Bill, Contradict

-----------------------------------------------------------------------------
(* The owners.                                                             *)

LEMMA GoShape ==
  ASSUME OwnerShape, NEW p \in Parents, NEW stage \in Stages, NEW r \in Requests,
         stage = "abort" => r \in Children, Go(p, stage, r)
  PROVE  OwnerShape'
BY DEF OwnerShape, Owner, Stages, Go, OwnerAt, StepOf

LEMMA FailShape ==
  ASSUME OwnerShape, NEW p \in Parents, NEW r \in Requests, Fail(p, r)
  PROVE  OwnerShape'
<1>1. PICK stage \in AfterFailure(p, r) : Go(p, stage, r)
  BY DEF Fail
<1> QED
  BY <1>1, GoShape DEF AfterFailure, Stages

LEMMA LeaveShape ==
  ASSUME OwnerShape, NEW p \in Parents, Leave(p)
  PROVE  OwnerShape'
BY DEF OwnerShape, Owner, Stages, Leave, Gone, OwnerAt, StepOf

LEMMA TakeShape ==
  ASSUME OwnerShape, NEW p \in Parents, NEW stage \in {"assist", "prepare", "wait"},
         NEW r \in Requests, NEW fresh \in BOOLEAN,
         owner' = [owner EXCEPT ![p] = [at |-> stage, step |-> r, fresh |-> fresh]]
  PROVE  OwnerShape'
BY DEF OwnerShape, Owner, Stages, OwnerAt, StepOf

\* Client requests and assist requests alike are requests.
LEMMA SomeRequests == Parents \subseteq Requests /\ Children \subseteq Requests
BY DEF Requests

LEMMA StepOfOwner ==
  ASSUME OwnerShape, NEW p \in Parents, ~OwnerAt(p, "gone")
  PROVE  StepOf(p) \in Requests
BY DEF OwnerShape

\* A task of the router calls the store as BudgetBilling lets anyone call it.
LEMMA OwnerStepMoves ==
  ASSUME OwnerShape, BridgeShape, NEW p \in Parents,
         \/ Accept(p) \/ StartAssist(p) \/ Prepare(p) \/ Admit(p) \/ AdmitRefused(p)
         \/ Mark(p) \/ MarkRefused(p) \/ Send(p) \/ TakeResult(p) \/ StopWaiting(p)
         \/ Abort(p) \/ Close(p) \/ Drop(p) \/ Retry(p) \/ Resume(p)
  PROVE  OwnerShape' /\ BridgeMoves /\ [Next]_vars /\ UNCHANGED laneVars
<1> USE DEF Stages
<1>1. CASE Accept(p)
  <2>1. OwnerShape'
    BY <1>1, TakeShape, SomeRequests DEF Accept
  <2> QED
    BY <1>1, <2>1, StillMoves DEF Accept, Next, RequestStep
<1>2. CASE StartAssist(p)
  <2>1. OwnerShape'
    BY <1>2, GoShape, SomeRequests DEF StartAssist
  <2> QED
    BY <1>2, <2>1, StillMoves DEF StartAssist, Next, RequestStep
<1>3. CASE Prepare(p)
  <2>1. StepOf(p) \in Requests
    BY <1>3, StepOfOwner DEF Prepare, OwnerAt
  <2>2. OwnerShape'
    BY <1>3, <2>1, GoShape, FailShape DEF Prepare
  <2>3. BridgeMoves
    BY <1>3, <2>1, PrepareMoves, StillMoves DEF Prepare, bridgeVars
  <2> QED
    BY <1>3, <2>2, <2>3 DEF Prepare
<1>4. CASE Admit(p)
  <2>1. StepOf(p) \in Requests
    BY <1>4, StepOfOwner DEF Admit, OwnerAt
  <2>2. OwnerShape'
    BY <1>4, <2>1, GoShape DEF Admit, AdmittedStage
  <2>3. Next
    BY <1>4, <2>1 DEF Admit, Next, BudgetStep
  <2> QED
    BY <1>4, <2>2, <2>3, StillMoves DEF Admit
<1>5. CASE AdmitRefused(p)
  <2>1. StepOf(p) \in Requests
    BY <1>5, StepOfOwner DEF AdmitRefused, OwnerAt
  <2> QED
    BY <1>5, <2>1, FailShape, CancelMoves, StillMoves DEF AdmitRefused
<1>6. CASE Mark(p)
  <2>1. StepOf(p) \in Requests
    BY <1>6, StepOfOwner DEF Mark, OwnerAt
  <2> QED
    BY <1>6, <2>1, GoShape, StillMoves DEF Mark, Next, BudgetStep
<1>7. CASE MarkRefused(p)
  <2>1. StepOf(p) \in Requests
    BY <1>7, StepOfOwner DEF MarkRefused, OwnerAt
  <2> QED
    BY <1>7, <2>1, FailShape, StillMoves DEF MarkRefused
<1>8. CASE Send(p)
  <2>1. StepOf(p) \in Requests
    BY <1>8, StepOfOwner DEF Send, OwnerAt
  <2>2. OwnerShape'
    BY <1>8, <2>1, GoShape, LeaveShape DEF Send
  <2>3. BridgeMoves
    BY <1>8, <2>1, PrepareMoves, StillMoves DEF Send, bridgeVars
  <2> QED
    BY <1>8, <2>2, <2>3 DEF Send
<1>9. CASE TakeResult(p)
  <2>1. StepOf(p) \in Requests
    BY <1>9, StepOfOwner DEF TakeResult, OwnerAt
  <2>2. OwnerShape'
    BY <1>9, <2>1, GoShape, LeaveShape, SomeRequests DEF TakeResult
  <2>3. [Next]_vars
    BY <1>9 DEF TakeResult, Next, ExecutionStep, Terminal
  <2> QED
    BY <1>9, <2>2, <2>3, StillMoves DEF TakeResult
<1>10. CASE StopWaiting(p)
  <2>1. StepOf(p) \in Requests
    BY <1>10, StepOfOwner DEF StopWaiting, OwnerAt
  <2> QED
    BY <1>10, <2>1, GoShape, StillMoves DEF StopWaiting
<1>11. CASE Abort(p)
  <2>1. StepOf(p) \in Children
    BY <1>11 DEF Abort, OwnerShape
  <2>2. OwnerShape'
    BY <1>11, <2>1, GoShape, SomeRequests DEF Abort
  <2> QED
    BY <1>11, <2>1, <2>2, StillMoves DEF Abort, Next, RequestStep
<1>12. CASE Close(p)
  <2>1. StepOf(p) \in Requests
    BY <1>12, StepOfOwner DEF Close, OwnerAt
  <2>2. [Next]_vars
    BY <1>12 DEF Close, Next, ExecutionStep, Terminal
  <2> QED
    BY <1>12, <2>1, <2>2, GoShape, StillMoves DEF Close
<1>13. CASE Drop(p)
  BY <1>13, LeaveShape, StillMoves DEF Drop, Next, RequestStep
<1>14. CASE Retry(p)
  <2>1. OwnerShape'
    BY <1>14, TakeShape, SomeRequests DEF Retry
  <2> QED
    BY <1>14, <2>1, StillMoves DEF Retry
<1>15. CASE Resume(p)
  <2>1. OwnerShape'
    BY <1>15, TakeShape, SomeRequests DEF Resume
  <2> QED
    BY <1>15, <2>1, StillMoves DEF Resume
<1> QED
  BY <1>1, <1>2, <1>3, <1>4, <1>5, <1>6, <1>7, <1>8, <1>9, <1>10, <1>11, <1>12, <1>13, <1>14, <1>15

-----------------------------------------------------------------------------
(* The lanes.                                                              *)

LEMMA CallKinds ==
  ASSUME NEW r \in Requests
  PROVE  /\ \A state \in UnderWay : Call("mark", state) \in CallsFor(r)
         /\ ToldEnded(r) => \A state \in Terminal : Call("mark", state) \in CallsFor(r)
         /\ r \in Videos => \A t \in Tasks : Call("bind", t) \in CallsFor(r)
         /\ r \in Parents => Call("finish", "failed") \in CallsFor(r)
         /\ r \in Parents /\ bridge[r] = "succeeded" => Call("finish", "succeeded") \in CallsFor(r)
         /\ r \in Children => Call("helper", "failed") \in CallsFor(r)
         /\ r \in Children /\ bridge[r] = "text" => Call("helper", "succeeded") \in CallsFor(r)
         /\ \A rc \in BillsOf(r) \cap ReceiptsFor[r] : Call("receipt", rc) \in CallsFor(r)
         /\ \A hash \in OpaqueHashes : Call("conflict", hash) \in CallsFor(r)
         /\ bridge[r] = "withdrawn" => Call("release", "none") \in CallsFor(r)
         /\ \A sent \in BOOLEAN : Call("read", sent) \in CallsFor(r)
         /\ Call("advance", "none") \in CallsFor(r)
BY DEF CallsFor, Call

LEMMA ReportedState ==
  ASSUME BridgeShape, NEW r \in Requests, bridge[r] \notin NotSent
  PROVE  /\ bridge[r] \in UnderWay => Reported(r) \in UnderWay
         /\ bridge[r] \notin UnderWay => ToldEnded(r) /\ Reported(r) \in {"succeeded", "failed"}
         /\ bridge[r] \notin UnderWay /\ r \notin Children => Reported(r) = bridge[r]
BY DEF BridgeShape, BridgeValues, Outcomes, Reported, ToldEnded, NotSent, UnderWay, BridgeEnded, Decisions

LEMMA ExecutionCallsShape ==
  ASSUME BridgeShape, NEW r \in Requests, NEW told \in TaskReports(r)
  PROVE  ExecutionCalls(r, told) \in Seq(CallsFor(r))
<1> DEFINE S == CallsFor(r)
           state == Reported(r)
           bind == IF told = NoTask THEN <<>> ELSE <<Call("bind", told)>>
           mark == IF execution[r] \in Terminal THEN <<>> ELSE <<Call("mark", state)>>
           finish == IF r \in Children THEN HelperEnds(r) ELSE <<Call("finish", state)>>
<1>1. bind \in Seq(S)
  BY RecoveryAssumption, CallKinds DEF TaskReports
<1>2. ASSUME bridge[r] \notin NotSent PROVE mark \in Seq(S)
  BY <1>2, ReportedState, CallKinds DEF Terminal
<1>3. ASSUME bridge[r] \notin NotSent, bridge[r] \notin UnderWay PROVE finish \in Seq(S)
  <2>1. CASE r \in Children
    BY <2>1, CallKinds DEF HelperEnds
  <2>2. CASE r \notin Children
    BY <1>3, <2>2, ReportedState, CallKinds DEF Requests
  <2> QED
    BY <2>1, <2>2
<1>4. ASSUME bridge[r] \notin NotSent
      PROVE  /\ bind \o mark \in Seq(S)
             /\ bridge[r] \notin UnderWay => bind \o mark \o finish \in Seq(S)
  <2> HIDE DEF S, bind, mark, finish
  <2>1. bind \o mark \in Seq(S)
    BY <1>1, <1>2, <1>4
  <2>2. ASSUME bridge[r] \notin UnderWay PROVE bind \o mark \o finish \in Seq(S)
    BY <1>3, <1>4, <2>1, <2>2
  <2> QED
    BY <2>1, <2>2
<1>5. <<>> \in Seq(S)
  OBVIOUS
<1> QED
  BY <1>1, <1>2, <1>4, <1>5 DEF ExecutionCalls

LEMMA BillCallsShape ==
  ASSUME NEW r \in Requests, NEW b \in BillsOf(r) \cup {NoReceipt}, NEW sent \in BOOLEAN
  PROVE  BillCalls(r, b, sent) \in Seq(CallsFor(r))
<1>1. CASE b = NoReceipt
  BY <1>1 DEF BillCalls
<1>2. CASE b \in OpaqueHashes
  BY <1>2, CallKinds DEF BillCalls
<1>3. CASE b # NoReceipt /\ b \notin OpaqueHashes /\ b # NoSend
  <2>1. Call("receipt", b) \in CallsFor(r)
    BY <1>3, CallKinds DEF BillsOf
  <2> QED
    BY <1>3, <2>1 DEF BillCalls
<1>4. CASE b # NoReceipt /\ b \notin OpaqueHashes /\ b = NoSend
  <2>1. bridge[r] = "withdrawn" /\ NoSend \in BillsOf(r) /\ NoSend \in ReceiptsFor[r]
    BY <1>4, NoSendReceipt DEF BillsOf
  <2>2. /\ Call("receipt", NoSend) \in CallsFor(r) /\ Call("mark", "failed") \in CallsFor(r)
        /\ Call("release", "none") \in CallsFor(r)
        /\ r \in Parents => Call("finish", "failed") \in CallsFor(r)
    BY <2>1, CallKinds DEF ToldEnded, Terminal
  <2>3. NoSendCalls(r, sent) \in Seq(CallsFor(r))
    BY <2>2 DEF NoSendCalls
  <2>4. (IF r \in Parents THEN <<Call("finish", "failed")>> ELSE <<>>) \in Seq(CallsFor(r))
    BY <2>2
  <2> QED
    BY <1>4, <2>3, <2>4 DEF BillCalls
<1> QED
  BY <1>1, <1>2, <1>3, <1>4

\* Whatever the bridge does, the calls a lane has yet to make stay as good as they were.
LEMMA LanesKeep ==
  ASSUME BridgeShape, LaneShape, BridgeMoves, UNCHANGED laneVars
  PROVE  LaneShape'
<1>1. \A r \in Requests : Seq(CallsFor(r)) \subseteq Seq(CallsFor(r)')
  BY CallsGrow, SeqMonotonic DEF BridgeMoves
<1>2. /\ Len(events) <= Len(events')
      /\ \A i \in 1..Len(events) : events'[i] = events[i]
      /\ Len(events) \in Nat
  BY DEF BridgeMoves, EventsGrow, BridgeShape
<1>3. \A w \in Workers : Serves[w] \in Requests
  BY RecoveryAssumption
<1>4. \A w \in Workers : calls'[w] \in Seq(CallsFor(Serves[w])')
  BY <1>1, <1>3 DEF LaneShape, laneVars
<1>5. ASSUME calls'[Feed] # <<>>
      PROVE  /\ cursor' < Len(events')
             /\ \A r \in Requests : events'[cursor' + 1].step = r => calls'[Feed] \in Seq(CallsFor(r)')
  <2>1. cursor \in Nat /\ cursor < Len(events) /\ cursor' = cursor /\ calls' = calls
    BY <1>5 DEF LaneShape, laneVars
  <2>2. events'[cursor' + 1] = events[cursor + 1]
    BY <1>2, <2>1
  <2> QED
    BY <1>1, <1>2, <1>5, <2>1, <2>2 DEF LaneShape
<1> QED
  BY <1>2, <1>4, <1>5 DEF LaneShape, laneVars

\* A call that takes effect is an operation of the store.
LEMMA EffectIsNext ==
  ASSUME NEW r \in Requests, NEW call \in CallsFor(r), Effect(r, call)
  PROVE  Next
<1> USE DEF Next, Effect, CallsFor
<1>1. CASE call.op = "bind"
  BY <1>1 DEF ExecutionStep
<1>2. CASE call.op = "mark"
  <2>1. call.arg \in UnderWay \cup Terminal
    BY <1>2
  <2> QED
    BY <1>2, <2>1 DEF ExecutionStep, UnderWay
<1>3. CASE call.op = "finish"
  <2>1. r \in Parents /\ call.arg \in Terminal
    BY <1>3 DEF Terminal
  <2> QED
    BY <1>3, <2>1 DEF ExecutionStep
<1>4. CASE call.op = "helper"
  <2>1. r \in Children /\ call.arg \in Terminal
    BY <1>4 DEF Terminal
  <2>2. ParentOf[r] \in Parents
    BY <2>1, IdentityAssumption DEF Parents
  <2> QED
    BY <1>4, <2>1, <2>2 DEF ExecutionStep
<1>5. CASE call.op = "release"
  BY <1>5 DEF BudgetStep
<1>6. CASE call.op = "receipt"
  BY <1>6 DEF ReceiptStep, Receive
<1>7. CASE call.op = "conflict"
  BY <1>7 DEF ReceiptStep
<1> QED
  BY <1>1, <1>2, <1>3, <1>4, <1>5, <1>6, <1>7

LEMMA OnlyShape ==
  ASSUME NEW S, NEW w, calls[w] \in Seq(S), calls[w] # <<>>, NEW op
  PROVE  Only(w, op) \in Seq(S)
BY DEF Only

LEMMA PerformShape ==
  ASSUME DOMAIN calls = Workers \cup {Feed}, NEW w \in Workers \cup {Feed},
         Subject(w) \in Requests, calls[w] \in Seq(CallsFor(Subject(w))), Perform(w)
  PROVE  /\ calls'[w] \in Seq(CallsFor(Subject(w)))
         /\ calls' = [calls EXCEPT ![w] = calls'[w]]
         /\ [Next]_vars
         /\ UNCHANGED <<owner, bridgeVars, cursor, crashes>>
<1> DEFINE r == Subject(w)
           S == CallsFor(r)
<1>1. calls[w] # <<>> /\ Head(calls[w]) \in S /\ Tail(calls[w]) \in Seq(S)
  <2>1. calls[w] # <<>>
    BY DEF Perform, Idle
  <2> QED
    BY <2>1
<1>2. Only(w, "advance") \in Seq(S) /\ Only(w, "read") \in Seq(S)
  BY <1>1, OnlyShape
<1>3. calls'[w] \in Seq(S) /\ calls' = [calls EXCEPT ![w] = calls'[w]]
  <2> HIDE DEF S
  <2> QED
    BY <1>1, <1>2 DEF Perform, AfterRefusal
<1>4. [Next]_vars
  BY <1>1, EffectIsNext DEF Perform
<1> QED
  BY <1>3, <1>4 DEF Perform

LEMMA CallsSame ==
  ASSUME UNCHANGED bridge
  PROVE  \A r \in Requests : CallsFor(r)' = CallsFor(r)
BY DEF CallsFor, BillsOf, ToldEnded

LEMMA LaneStepShape ==
  ASSUME BridgeShape, StepTypeOK, LaneShape, LaneStep
  PROVE  LaneShape' /\ [Next]_vars /\ UNCHANGED <<owner, bridgeVars, crashes>>
<1>0. \A r \in Requests : attempted[r] \in BOOLEAN
  BY DEF StepTypeOK
<1>1. ASSUME NEW w \in Workers, NEW s \in Seq(CallsFor(Serves[w])),
             calls' = [calls EXCEPT ![w] = s], UNCHANGED <<bridgeVars, cursor>>
      PROVE  LaneShape'
  BY <1>1, CallsSame, RecoveryAssumption DEF LaneShape, bridgeVars
<1>2. CASE \E w \in Workers : Look(w)
  <2>1. PICK w \in Workers : Look(w)
    BY <1>2
  <2>2. Serves[w] \in Requests
    BY RecoveryAssumption
  <2>3. PICK told \in TaskReports(Serves[w]) :
          calls' = [calls EXCEPT ![w] = ExecutionCalls(Serves[w], told)
                                          \o <<Call("read", attempted[Serves[w]])>>]
    BY <2>1 DEF Look
  <2>4. ExecutionCalls(Serves[w], told) \o <<Call("read", attempted[Serves[w]])>>
          \in Seq(CallsFor(Serves[w]))
    BY <1>0, <2>2, ExecutionCallsShape, CallKinds
  <2> QED
    BY <1>1, <2>1, <2>3, <2>4 DEF Look
<1>3. CASE \E w \in Workers : ReadBill(w)
  <2>1. PICK w \in Workers : ReadBill(w)
    BY <1>3
  <2>2. Serves[w] \in Requests /\ calls[w] \in Seq(CallsFor(Serves[w]))
    BY RecoveryAssumption DEF LaneShape
  <2>3. Head(calls[w]) \in CallsFor(Serves[w]) /\ Head(calls[w]).op = "read"
    BY <2>1, <2>2 DEF ReadBill, Idle
  <2>4. Head(calls[w]).arg \in BOOLEAN
    BY <2>3 DEF CallsFor
  <2>5. BillCalls(Serves[w], bill[Serves[w]], Head(calls[w]).arg) \in Seq(CallsFor(Serves[w]))
    BY <2>2, <2>4, BillCallsShape DEF BridgeShape
  <2> QED
    BY <1>1, <2>1, <2>5 DEF ReadBill, LaneShape
<1>4. CASE \E w \in Workers : Perform(w)
  <2>1. PICK w \in Workers : Perform(w)
    BY <1>4
  <2>2. Subject(w) = Serves[w] /\ Serves[w] \in Requests
    BY RecoveryAssumption DEF Subject
  <2> QED
    BY <1>1, <2>1, <2>2, PerformShape DEF LaneShape
<1>5. CASE FeedStep
  <2>1. ASSUME NEW q \in Requests, cursor < Len(events), events[cursor + 1].step = q,
               NEW s \in Seq(CallsFor(q)), calls' = [calls EXCEPT ![Feed] = s],
               UNCHANGED <<bridgeVars, cursor>>
        PROVE  LaneShape'
    BY <2>1, CallsSame, RecoveryAssumption DEF LaneShape, bridgeVars
  <2>2. ASSUME cursor < Len(events)
        PROVE  events[cursor + 1].step \in Requests /\ cursor + 1 \in 1..Len(events)
    <3>1. cursor \in Nat /\ Len(events) \in Nat
      BY DEF BridgeShape, LaneShape
    <3>2. cursor + 1 \in 1..Len(events)
      BY <2>2, <3>1
    <3>3. events \in Seq([step : Requests, bill : Receipt \cup OpaqueHashes])
      BY DEF BridgeShape
    <3>4. events[cursor + 1] \in [step : Requests, bill : Receipt \cup OpaqueHashes]
      BY <3>2, <3>3, ElementOfSeq
    <3> QED
      BY <3>2, <3>4
  <2>3. CASE TakeEvent
    <3> DEFINE e == events[cursor + 1]
    <3>1. e.step \in Requests /\ e.bill \in BillsOf(e.step)
      BY <2>2, <2>3 DEF TakeEvent, BridgeShape
    <3>2. BillCalls(e.step, e.bill, attempted[e.step]) \in Seq(CallsFor(e.step))
      BY <1>0, <3>1, BillCallsShape
    <3>3. (IF execution[e.step] = "absent" THEN <<>> ELSE BillCalls(e.step, e.bill, attempted[e.step]))
            \o <<Call("advance", "none")>> \in Seq(CallsFor(e.step))
      <4>1. <<Call("advance", "none")>> \in Seq(CallsFor(e.step))
        BY <3>1, CallKinds
      <4>2. (IF execution[e.step] = "absent" THEN <<>> ELSE BillCalls(e.step, e.bill, attempted[e.step]))
              \in Seq(CallsFor(e.step))
        <5>1. CASE execution[e.step] = "absent"
          BY <5>1, EmptySeq
        <5>2. CASE execution[e.step] # "absent"
          BY <3>2, <5>2
        <5> QED
          BY <5>1, <5>2
      <4> QED
        BY <4>1, <4>2, ConcatProperties
    <3> QED
      BY <2>1, <2>3, <3>1, <3>3 DEF TakeEvent
  <2>4. CASE Perform(Feed)
    <3>1. calls[Feed] # <<>> /\ Subject(Feed) = events[cursor + 1].step
      BY <2>4 DEF Perform, Idle, Subject
    <3> QED
      BY <2>1, <2>2, <2>4, <3>1, PerformShape DEF LaneShape
  <2>5. CASE Advance
    <3>1. calls[Feed] # <<>> /\ cursor < Len(events)
      BY <2>5 DEF Advance, Idle, LaneShape
    <3> QED
      BY <2>5, <3>1, CallsSame, RecoveryAssumption DEF Advance, LaneShape, BridgeShape, bridgeVars
  <2> QED
    BY <1>5, <2>3, <2>4, <2>5 DEF FeedStep, TakeEvent, Advance
<1> QED
  BY <1>2, <1>3, <1>4, <1>5 DEF LaneStep, Work, Look, ReadBill

-----------------------------------------------------------------------------
(* The store is never asked for more than it was proved to withstand.      *)

LEMMA CrashShape ==
  ASSUME TypeOK, Shape, Crash
  PROVE  Shape' /\ [Next]_vars
<1>1. OwnerShape'
  BY DEF Crash, OwnerShape, Owner, Stages, Gone, OwnerAt, StepOf
<1>2. BridgeMoves
  BY StillMoves DEF Crash, Shape
<1>3. LaneShape'
  <2>1. \A w \in Workers \cup {Feed} : calls'[w] = <<>>
    BY DEF Crash
  <2>2. cursor' \in Nat /\ cursor' <= Len(events') /\ DOMAIN calls' = Workers \cup {Feed}
    BY DEF Crash, Shape, LaneShape, bridgeVars
  <2> QED
    BY <2>1, <2>2, EmptySeq DEF LaneShape
<1>4. clock \in 0..clock
  BY DEF TypeOK
<1> QED
  BY <1>1, <1>2, <1>3, <1>4 DEF Shape, BridgeMoves, Crash, Next, RequestStep

LEMMA ShapeStep ==
  TypeOK /\ Shape /\ [RecoveryNext]_allVars => Shape' /\ [Next]_vars /\ EndedStays /\ EventsGrow
<1> SUFFICES ASSUME TypeOK, Shape, [RecoveryNext]_allVars
             PROVE  Shape' /\ [Next]_vars /\ EndedStays /\ EventsGrow
  OBVIOUS
<1> USE DEF Shape
<1>1. ASSUME UNCHANGED bridgeVars PROVE BridgeMoves
  BY <1>1, StillMoves
<1>2. ASSUME UNCHANGED owner PROVE OwnerShape'
  BY <1>2 DEF OwnerShape, OwnerAt, StepOf
<1>3. CASE OwnerStep
  <2>1. PICK p \in Parents :
          \/ Accept(p) \/ StartAssist(p) \/ Prepare(p) \/ Admit(p) \/ AdmitRefused(p)
          \/ Mark(p) \/ MarkRefused(p) \/ Send(p) \/ TakeResult(p) \/ StopWaiting(p)
          \/ Abort(p) \/ Close(p) \/ Drop(p) \/ Retry(p) \/ Resume(p)
    BY <1>3 DEF OwnerStep
  <2>2. OwnerShape' /\ BridgeMoves /\ [Next]_vars /\ UNCHANGED laneVars
    BY <2>1, OwnerStepMoves
  <2> QED
    BY <2>2, LanesKeep DEF BridgeMoves
<1>4. CASE BridgeStep
  BY <1>2, <1>4, BridgeStepMoves, LanesKeep DEF BridgeMoves
<1>5. CASE LaneStep
  BY <1>1, <1>2, <1>5, LaneStepShape DEF BridgeMoves, TypeOK
<1>6. CASE Crash
  BY <1>1, <1>6, CrashShape DEF Crash, BridgeMoves
<1>7. CASE World
  BY <1>1, <1>2, <1>7, LanesKeep DEF World, Next, BridgeMoves
<1>8. CASE UNCHANGED allVars
  BY <1>1, <1>2, <1>8, LanesKeep DEF allVars, BridgeMoves
<1> QED
  BY <1>3, <1>4, <1>5, <1>6, <1>7, <1>8 DEF RecoveryNext

LEMMA InitShape == RecoveryInit => Shape
<1> SUFFICES ASSUME RecoveryInit PROVE Shape
  OBVIOUS
<1>1. OwnerShape
  BY DEF RecoveryInit, OwnerShape, Owner, Stages, Gone, OwnerAt, StepOf
<1>2. BridgeShape
  BY DEF RecoveryInit, BridgeShape, BridgeValues, NotSent
<1>3. LaneShape
  BY EmptySeq DEF RecoveryInit, LaneShape
<1> QED
  BY <1>1, <1>2, <1>3 DEF Shape

LEMMA ShapeCorrect == RecoverySpec => [](TypeOK /\ Shape)
<1>1. RecoveryInit => TypeOK /\ Shape
  BY InitShape, InitType DEF RecoveryInit
<1>2. TypeOK /\ Shape /\ [RecoveryNext]_allVars => TypeOK' /\ Shape'
  BY ShapeStep, NextType
<1> QED
  BY <1>1, <1>2, PTL DEF RecoverySpec

\* The router implements the calls BudgetBilling allows: whatever its tasks and lanes do on
\* the strength of what they read before, and wherever the process dies, every change of
\* the store is one of the operations, so all that is proved of Spec holds of the router.
THEOREM RouterImplementsStore == RecoverySpec => Spec
<1>1. RecoveryInit => Init
  BY DEF RecoveryInit
<1>2. TypeOK /\ Shape /\ [RecoveryNext]_allVars => [Next]_vars
  BY ShapeStep
<1> QED
  BY <1>1, <1>2, ShapeCorrect, PTL DEF RecoverySpec, Spec

-----------------------------------------------------------------------------
(* What comes back was never sent.                                         *)

\* No credits return, and nothing is settled.
NothingReturns ==
  /\ \A r \in Requests : reservation'[r] = "released" => reservation[r] = "released"
  /\ settlement' = settlement

LEMMA ExecutionReturnsNothing ==
  /\ \A r, t : BindTask(r, t) => NothingReturns
  /\ \A r, state : MarkExecution(r, state) => NothingReturns
  /\ \A p, terminal : Finish(p, terminal) => NothingReturns
BY DEF BindTask, MarkExecution, Finish, NothingReturns, moneyVars, receiptVars

LEMMA OwnerReturnsNothing ==
  ASSUME TypeOK, NEW p \in Parents,
         \/ Accept(p) \/ StartAssist(p) \/ Prepare(p) \/ Admit(p) \/ AdmitRefused(p)
         \/ Mark(p) \/ MarkRefused(p) \/ Send(p) \/ TakeResult(p) \/ StopWaiting(p)
         \/ Abort(p) \/ Close(p) \/ Drop(p) \/ Retry(p) \/ Resume(p)
  PROVE  NothingReturns
<1>1. ASSUME UNCHANGED <<moneyVars, receiptVars>> PROVE NothingReturns
  BY <1>1 DEF NothingReturns, moneyVars, receiptVars
<1>2. ASSUME UNCHANGED vars PROVE NothingReturns
  BY <1>1, <1>2 DEF vars
<1>3. ASSUME NEW r, NEW amount, Reserve(r, amount), UNCHANGED receiptVars PROVE NothingReturns
  BY <1>3 DEF NothingReturns, Reserve, receiptVars, TypeOK, MoneyTypeOK
<1>4. CASE Accept(p) \/ StartAssist(p)
  BY <1>1, <1>2, <1>4 DEF Accept, BeginRequest, StartAssist, BeginAssist
<1>5. CASE Admit(p)
  BY <1>3, <1>5 DEF Admit, BeginOperation, AddStep
<1>6. CASE Mark(p)
  BY <1>1, <1>6 DEF Mark, Dispatch
<1>7. CASE TakeResult(p) \/ Close(p)
  BY <1>2, <1>7, ExecutionReturnsNothing DEF TakeResult, Close
<1>8. CASE Abort(p) \/ Drop(p)
  BY <1>1, <1>2, <1>8 DEF Abort, AbortPreparation, FailPreparations, Drop, FinishUnadmitted, FailRequests
<1>9. CASE \/ Prepare(p) \/ AdmitRefused(p) \/ MarkRefused(p) \/ Send(p) \/ StopWaiting(p)
           \/ Retry(p) \/ Resume(p)
  BY <1>2, <1>9 DEF Prepare, AdmitRefused, MarkRefused, Send, StopWaiting, Retry, Resume
<1> QED
  BY <1>4, <1>5, <1>6, <1>7, <1>8, <1>9

LEMMA EffectReturns ==
  ASSUME TypeOK, ReturnedWasWithdrawn, NEW r \in Requests, NEW call \in CallsFor(r),
         Effect(r, call), UNCHANGED bridge
  PROVE  ReturnedWasWithdrawn'
<1>1. ASSUME NothingReturns PROVE ReturnedWasWithdrawn'
  BY <1>1 DEF NothingReturns, ReturnedWasWithdrawn
<1>2. CASE call.op \in {"bind", "mark", "finish", "helper"}
  BY <1>1, <1>2, ExecutionReturnsNothing DEF Effect
<1>3. CASE call.op = "release" /\ Release(r)
  <2>1. bridge[r] = "withdrawn"
    BY <1>3 DEF CallsFor
  <2>2. settlement' = settlement /\ reservation' = [reservation EXCEPT ![r] = "released"]
    BY <1>3 DEF Release, receiptVars
  <2> QED
    BY <2>1, <2>2 DEF ReturnedWasWithdrawn, TypeOK, MoneyTypeOK
<1>4. CASE call.op = "receipt" /\ Receive(r, call.arg)
  <2>1. call.arg = NoSend => bridge[r] = "withdrawn"
    BY <1>4 DEF CallsFor, BillsOf
  <2>2. CASE SettlingReceipt(r, call.arg)
    BY <2>1, <2>2 DEF SettlingReceipt, ReturnedWasWithdrawn, TypeOK, MoneyTypeOK, ReceiptTypeOK
  <2>3. CASE PendingReceipt(r, call.arg)
    BY <1>1, <2>3 DEF PendingReceipt, NothingReturns, TypeOK, MoneyTypeOK
  <2>4. CASE ConflictingReceipt(r, call.arg) \/ LatePendingReceipt(r, call.arg)
    BY <1>1, <2>4 DEF ConflictingReceipt, Quarantine, LatePendingReceipt, NothingReturns, moneyVars
  <2> QED
    BY <1>4, <2>2, <2>3, <2>4 DEF Receive
<1>5. CASE call.op = "conflict" /\ MarkConflict(r, call.arg)
  BY <1>1, <1>5 DEF MarkConflict, Quarantine, NothingReturns, moneyVars
<1> QED
  BY <1>2, <1>3, <1>4, <1>5 DEF Effect

LEMMA LanesReturn ==
  ASSUME TypeOK, Shape, ReturnedWasWithdrawn, LaneStep
  PROVE  ReturnedWasWithdrawn'
<1>1. ASSUME UNCHANGED <<vars, bridge>> PROVE ReturnedWasWithdrawn'
  BY <1>1 DEF ReturnedWasWithdrawn, vars, moneyVars, receiptVars
<1>2. ASSUME NEW w \in Workers \cup {Feed}, NEW r \in Requests, Subject(w) = r,
             calls[w] # <<>> => calls[w] \in Seq(CallsFor(r)), Perform(w)
      PROVE  ReturnedWasWithdrawn'
  <2>1. Head(calls[w]) \in CallsFor(r) /\ UNCHANGED bridge
    BY <1>2 DEF Perform, Idle, bridgeVars
  <2> QED
    BY <1>1, <1>2, <2>1, EffectReturns DEF Perform
<1>3. ASSUME NEW w \in Workers, Perform(w) PROVE ReturnedWasWithdrawn'
  BY <1>2, <1>3, RecoveryAssumption DEF Subject, Shape, LaneShape
<1>4. ASSUME Perform(Feed) PROVE ReturnedWasWithdrawn'
  <2>1. calls[Feed] # <<>>
    BY <1>4 DEF Perform, Idle
  <2>2. cursor \in Nat /\ cursor < Len(events) /\ events \in Seq([step : Requests, bill : Receipt \cup OpaqueHashes])
    BY <2>1 DEF Shape, LaneShape, BridgeShape
  <2>3. cursor + 1 \in 1..Len(events)
    BY <2>2
  <2>4. events[cursor + 1] \in [step : Requests, bill : Receipt \cup OpaqueHashes]
    BY <2>2, <2>3, ElementOfSeq
  <2> QED
    BY <1>2, <1>4, <2>1, <2>4 DEF Subject, Shape, LaneShape
<1> QED
  BY <1>1, <1>3, <1>4 DEF LaneStep, Work, FeedStep, Look, ReadBill, TakeEvent, Advance, bridgeVars

LEMMA NextReturned ==
  TypeOK /\ Shape /\ ReturnedWasWithdrawn /\ [RecoveryNext]_allVars => ReturnedWasWithdrawn'
<1> SUFFICES ASSUME TypeOK, Shape, ReturnedWasWithdrawn, [RecoveryNext]_allVars
             PROVE  ReturnedWasWithdrawn'
  OBVIOUS
<1>1. EndedStays
  BY ShapeStep
<1>2. ASSUME NothingReturns PROVE ReturnedWasWithdrawn'
  BY <1>1, <1>2 DEF NothingReturns, ReturnedWasWithdrawn, EndedStays, ToldEnded
<1>3. ASSUME UNCHANGED <<moneyVars, receiptVars>> PROVE ReturnedWasWithdrawn'
  BY <1>2, <1>3 DEF NothingReturns, moneyVars, receiptVars
<1>4. CASE OwnerStep
  BY <1>2, <1>4, OwnerReturnsNothing DEF OwnerStep
<1>5. CASE BridgeStep
  BY <1>3, <1>5, BridgeStepMoves DEF Shape, vars
<1>6. CASE LaneStep
  BY <1>6, LanesReturn
<1>7. CASE Crash
  BY <1>3, <1>7 DEF Crash, RecoverPreDispatch, FailRequests, vars
<1>8. CASE World
  BY <1>3, <1>8 DEF World, Environment, RevokeKey, Tick
<1>9. CASE UNCHANGED allVars
  BY <1>3, <1>9 DEF allVars, vars
<1> QED
  BY <1>4, <1>5, <1>6, <1>7, <1>8, <1>9 DEF RecoveryNext

\* However late or often a no-send receipt is read, by a worker or from the feed, and
\* wherever the process dies, credits come back only for what the bridge withdrew for good.
THEOREM ReturnedCorrect == RecoverySpec => []ReturnedWasWithdrawn
<1>1. RecoveryInit => ReturnedWasWithdrawn
  BY NoSendReceipt DEF RecoveryInit, Init, ReturnedWasWithdrawn
<1> QED
  BY <1>1, NextReturned, ShapeCorrect, PTL DEF RecoverySpec

-----------------------------------------------------------------------------
(* What was sent was promised.                                             *)

\* The mark precedes the call: a task that is about to send has marked its step, and so
\* has been the step of everything the bridge ever sent.
MarkedFirst ==
  /\ \A r \in Requests : bridge[r] \notin NotSent => attempted[r]
  /\ \A p \in Parents : OwnerAt(p, "send") => StepOf(p) \in Requests /\ attempted[StepOf(p)]

MarksStay == \A r \in Requests : attempted[r] => attempted'[r]

LEMMA NextMarks == TypeOK /\ [Next]_vars => MarksStay
<1> SUFFICES ASSUME TypeOK, [Next]_vars PROVE MarksStay
  OBVIOUS
<1>1. ASSUME UNCHANGED attempted PROVE MarksStay
  BY <1>1 DEF MarksStay
<1>2. CASE RequestStep
  BY <1>1, <1>2 DEF RequestStep, BeginRequest, FinishUnadmitted, FailRequests, BeginAssist,
     AbortPreparation, FailPreparations, RecoverPreparations, RecoverPreDispatch, stepVars
<1>3. CASE BudgetStep
  <2>1. ASSUME NEW r \in Requests, Dispatch(r) PROVE MarksStay
    BY <2>1 DEF Dispatch, MarksStay, TypeOK, StepTypeOK
  <2> QED
    BY <1>1, <1>3, <2>1 DEF BudgetStep, BeginOperation, AddStep, InsertStep, Release, Refresh
<1>4. CASE ExecutionStep
  BY <1>1, <1>4 DEF ExecutionStep, BindTask, MarkExecution, Finish, stepVars
<1>5. CASE ReceiptStep
  BY <1>1, <1>5 DEF ReceiptStep, MarkConflict, ConflictingReceipt, Quarantine,
     LatePendingReceipt, PendingReceipt, SettlingReceipt, stepVars
<1>6. CASE Environment \/ UNCHANGED vars
  BY <1>1, <1>6 DEF Environment, RevokeKey, Tick, vars, stepVars
<1> QED
  BY <1>2, <1>3, <1>4, <1>5, <1>6 DEF Next

NoNewSender == \A p \in Parents : owner'[p].at = "send" => owner'[p] = owner[p]

\* Only Mark leads a task to where it sends, and only Send has the bridge send.
LEMMA OwnerMarks ==
  ASSUME Shape, MarkedFirst, MarksStay, StepTypeOK, NEW p \in Parents,
         \/ Accept(p) \/ StartAssist(p) \/ Prepare(p) \/ Admit(p) \/ AdmitRefused(p)
         \/ Mark(p) \/ MarkRefused(p) \/ Send(p) \/ TakeResult(p) \/ StopWaiting(p)
         \/ Abort(p) \/ Close(p) \/ Drop(p) \/ Retry(p) \/ Resume(p)
  PROVE  MarkedFirst'
<1> USE DEF Shape, OwnerShape, BridgeShape, BridgeValues, Owner
<1>1. ASSUME NoNewSender, \A r \in Requests : bridge'[r] \notin NotSent => attempted[r]
      PROVE  MarkedFirst'
  BY <1>1 DEF NoNewSender, MarkedFirst, MarksStay, OwnerAt, StepOf
<1>2. ASSUME NEW r \in Requests, NEW next \in {"prepared", "withdrawn"}, bridge' = [bridge EXCEPT ![r] = next]
      PROVE  \A q \in Requests : bridge'[q] \notin NotSent => attempted[q]
  BY <1>2 DEF MarkedFirst, NotSent
<1>3. ASSUME UNCHANGED bridgeVars PROVE \A q \in Requests : bridge'[q] \notin NotSent => attempted[q]
  BY <1>3 DEF MarkedFirst, bridgeVars
<1>4. ASSUME NEW stage, stage # "send", NEW r, Go(p, stage, r) PROVE NoNewSender
  BY <1>4 DEF Go, NoNewSender
<1>5. ASSUME Leave(p) PROVE NoNewSender
  BY <1>5 DEF Leave, Gone, NoNewSender
<1>6. ASSUME NEW r, Fail(p, r) PROVE NoNewSender
  BY <1>4, <1>6 DEF Fail, AfterFailure
<1>7. ASSUME NEW o, o.at # "send", owner' = [owner EXCEPT ![p] = o] PROVE NoNewSender
  BY <1>7 DEF NoNewSender
<1>8. ASSUME ~OwnerAt(p, "gone") PROVE StepOf(p) \in Requests
  BY <1>8
<1>9. CASE Accept(p) \/ Retry(p) \/ Resume(p)
  BY <1>1, <1>3, <1>7, <1>9 DEF Accept, Retry, Resume
<1>10. CASE StartAssist(p) \/ TakeResult(p) \/ StopWaiting(p)
  BY <1>1, <1>3, <1>4, <1>5, <1>10 DEF StartAssist, TakeResult, StopWaiting
<1>11. CASE Prepare(p)
  <2>1. NoNewSender
    BY <1>4, <1>6, <1>11 DEF Prepare
  <2>2. \A q \in Requests : bridge'[q] \notin NotSent => attempted[q]
    BY <1>2, <1>8, <1>11 DEF Prepare, OwnerAt, MarkedFirst
  <2> QED
    BY <1>1, <2>1, <2>2
<1>12. CASE Admit(p) \/ MarkRefused(p) \/ Abort(p) \/ Close(p) \/ Drop(p)
  BY <1>1, <1>3, <1>4, <1>5, <1>6, <1>12 DEF Admit, AdmittedStage, MarkRefused, Abort, Close, Drop
<1>13. CASE AdmitRefused(p)
  <2>1. NoNewSender
    BY <1>6, <1>13 DEF AdmitRefused
  <2>2. \A q \in Requests : bridge'[q] \notin NotSent => attempted[q]
    BY <1>2, <1>3, <1>8, <1>13 DEF AdmitRefused, Cancel, OwnerAt
  <2> QED
    BY <1>1, <2>1, <2>2
<1>14. CASE Mark(p)
  <2>1. StepOf(p) \in Requests
    BY <1>8, <1>14 DEF Mark, OwnerAt
  <2>2. attempted'[StepOf(p)] /\ Go(p, "send", StepOf(p)) /\ UNCHANGED bridgeVars
    BY <1>14, <2>1 DEF Mark, Dispatch, StepTypeOK
  <2>3. owner'[p].step = StepOf(p) /\ \A q \in Parents : q # p => owner'[q] = owner[q]
    BY <2>2 DEF Go
  <2> QED
    BY <2>1, <2>2, <2>3 DEF MarkedFirst, MarksStay, OwnerAt, StepOf, bridgeVars
<1>15. CASE Send(p)
  <2>1. StepOf(p) \in Requests /\ attempted[StepOf(p)]
    BY <1>15 DEF Send, MarkedFirst
  <2>2. \A q \in Requests : bridge'[q] \notin NotSent => attempted[q]
    BY <1>15, <2>1 DEF Send, MarkedFirst
  <2> QED
    BY <1>1, <1>4, <1>5, <1>15, <2>2 DEF Send
<1> QED
  BY <1>9, <1>10, <1>11, <1>12, <1>13, <1>14, <1>15

LEMMA NextMarkedFirst ==
  TypeOK /\ Shape /\ MarkedFirst /\ [RecoveryNext]_allVars => MarkedFirst'
<1> SUFFICES ASSUME TypeOK, Shape, MarkedFirst, [RecoveryNext]_allVars PROVE MarkedFirst'
  OBVIOUS
<1>1. MarksStay
  BY ShapeStep, NextMarks
<1>2. ASSUME UNCHANGED <<owner, bridge>> PROVE MarkedFirst'
  BY <1>1, <1>2 DEF MarkedFirst, MarksStay, OwnerAt, StepOf
<1>3. CASE OwnerStep
  BY <1>1, <1>3, OwnerMarks DEF OwnerStep, TypeOK
<1>4. CASE BridgeStep
  <2>1. \A r \in Requests : bridge'[r] \notin NotSent => bridge[r] \notin NotSent
    BY <1>4 DEF BridgeStep, Withdraw, Cancel, Observe, Bill, Contradict, NotSent, UnderWay,
       Shape, BridgeShape, BridgeValues
  <2> QED
    BY <1>1, <1>4, <2>1, BridgeStepMoves DEF Shape, MarkedFirst, MarksStay, OwnerAt, StepOf
<1>5. CASE LaneStep
  BY <1>2, <1>5, LaneStepShape DEF Shape, TypeOK, bridgeVars
<1>6. CASE Crash
  BY <1>1, <1>6 DEF Crash, Gone, MarkedFirst, MarksStay, OwnerAt, bridgeVars
<1>7. CASE World \/ UNCHANGED allVars
  BY <1>2, <1>7 DEF World, allVars, bridgeVars
<1> QED
  BY <1>3, <1>4, <1>5, <1>6, <1>7 DEF RecoveryNext

\* Wherever the process dies and whatever its lanes were told before, the bridge has sent
\* nothing that was not marked in the store first, and the credits of what it sent are held
\* until they are charged: a crash may lose a call, never make one nobody answers for.
THEOREM SentCorrect == RecoverySpec => []SentWasPromised
<1>1. RecoveryInit => MarkedFirst
  BY DEF RecoveryInit, MarkedFirst, Gone, OwnerAt, NotSent
<1>2. TypeOK /\ RowsTogether /\ ReturnedWasWithdrawn /\ MarkedFirst => SentWasPromised
  BY DEF TypeOK, MoneyTypeOK, ReservationState, RowsTogether, ReturnedWasWithdrawn, MarkedFirst,
     SentWasPromised, NotSent
<1> QED
  BY <1>1, <1>2, NextMarkedFirst, ShapeCorrect, ReturnedCorrect, RouterImplementsStore,
     RowsCorrect, PTL DEF RecoverySpec

-----------------------------------------------------------------------------
(* Types.                                                                  *)

LEMMA CallsOK ==
  ASSUME NEW r \in Requests, NEW call \in CallsFor(r)
  PROVE  CallOK(call)
<1>1. CASE call.op = "mark"
  <2>1. call.arg \in UnderWay \cup Terminal
    BY <1>1 DEF CallsFor
  <2> QED
    BY <1>1, <2>1 DEF CallOK
<1>2. CASE call.op \in {"finish", "helper"}
  <2>1. call.arg \in Terminal
    BY <1>2 DEF CallsFor, Terminal
  <2> QED
    BY <1>2, <2>1 DEF CallOK
<1>3. CASE call.op \notin {"mark", "finish", "helper"}
  <2>1. call.op \in {"bind", "read", "receipt", "release", "conflict", "advance"}
    BY <1>3 DEF CallsFor
  <2> QED
    BY <1>3, <2>1 DEF CallOK
<1> QED
  BY <1>1, <1>2, <1>3

\* The event the feed has taken is one of the bridge's.
LEMMA FeedEvent ==
  ASSUME Shape, calls[Feed] # <<>>
  PROVE  /\ cursor + 1 \in 1..Len(events)
         /\ events[cursor + 1] \in [step : Requests, bill : Receipt \cup OpaqueHashes]
         /\ Subject(Feed) = events[cursor + 1].step
         /\ calls[Feed] \in Seq(CallsFor(Subject(Feed)))
<1>1. cursor \in Nat /\ cursor < Len(events) /\ Len(events) \in Nat
  BY DEF Shape, LaneShape, BridgeShape
<1>2. cursor + 1 \in 1..Len(events)
  BY <1>1
<1>3. events \in Seq([step : Requests, bill : Receipt \cup OpaqueHashes])
  BY DEF Shape, BridgeShape
<1>4. events[cursor + 1] \in [step : Requests, bill : Receipt \cup OpaqueHashes]
  BY <1>2, <1>3, ElementOfSeq
<1>5. Subject(Feed) = events[cursor + 1].step
  BY DEF Subject
<1> QED
  BY <1>2, <1>4, <1>5 DEF Shape, LaneShape

\* What a worker has yet to ask is about its own step.
LEMMA WorkerCalls ==
  ASSUME Shape, NEW w \in Workers
  PROVE  /\ Subject(w) = Serves[w] /\ Serves[w] \in Requests
         /\ calls[w] \in Seq(CallsFor(Serves[w]))
BY RecoveryAssumption DEF Subject, Shape, LaneShape

\* The call a lane makes next.
LEMMA NextCall ==
  ASSUME Shape, NEW w \in Workers \cup {Feed}, calls[w] # <<>>
  PROVE  /\ Subject(w) \in Requests /\ calls[w] \in Seq(CallsFor(Subject(w)))
         /\ Head(calls[w]) \in CallsFor(Subject(w))
<1>1. Subject(w) \in Requests /\ calls[w] \in Seq(CallsFor(Subject(w)))
  BY FeedEvent, WorkerCalls
<1> QED
  BY <1>1

CrashesBounded == crashes \in 0..MaxCrashes

LEMMA NextCrashes == Shape /\ TypeOK /\ CrashesBounded /\ [RecoveryNext]_allVars => CrashesBounded'
<1> SUFFICES ASSUME Shape, TypeOK, CrashesBounded, [RecoveryNext]_allVars PROVE CrashesBounded'
  OBVIOUS
<1> USE DEF CrashesBounded
<1>1. CASE OwnerStep
  BY <1>1 DEF OwnerStep, Accept, StartAssist, Prepare, Admit, AdmitRefused, Mark, MarkRefused, Send,
     TakeResult, StopWaiting, Abort, Close, Drop, Retry, Resume
<1>2. CASE BridgeStep
  BY <1>2, BridgeStepMoves DEF Shape
<1>3. CASE LaneStep
  BY <1>3, LaneStepShape DEF Shape, TypeOK
<1>4. CASE Crash
  BY <1>4, RecoveryAssumption DEF Crash
<1>5. CASE World \/ UNCHANGED allVars
  BY <1>5 DEF World, allVars
<1> QED
  BY <1>1, <1>2, <1>3, <1>4, <1>5 DEF RecoveryNext

\* Owners are where prepare_step and its callers can be, and what the lanes ask of the
\* store, on the strength of whatever they read before, is what its columns can hold.
THEOREM RecoveryTypeCorrect == RecoverySpec => []RecoveryTypeOK
<1>1. ASSUME Shape, CrashesBounded PROVE RecoveryTypeOK
  <2>1. ASSUME NEW w \in Workers \cup {Feed}, NEW i \in DOMAIN calls[w] PROVE CallOK(calls[w][i])
    <3>1. CASE calls[w] = <<>>
      BY <2>1, <3>1
    <3>2. CASE calls[w] # <<>>
      <4>1. Subject(w) \in Requests /\ calls[w] \in Seq(CallsFor(Subject(w)))
        BY <1>1, <3>2, NextCall
      <4>2. calls[w][i] \in CallsFor(Subject(w))
        BY <2>1, <4>1
      <4> QED
        BY <4>1, <4>2, CallsOK
    <3> QED
      BY <3>1, <3>2
  <2>2. cursor \in 0..Len(events)
    BY <1>1 DEF Shape, LaneShape, BridgeShape
  <2>3. owner \in [Parents -> Owner] /\ bridge \in [Requests -> NotSent \cup UnderWay \cup BridgeEnded]
    BY <1>1 DEF Shape, OwnerShape, BridgeShape, BridgeValues
  <2> QED
    BY <1>1, <2>1, <2>2, <2>3 DEF RecoveryTypeOK, Owner, Stages, CrashesBounded
<1>2. RecoveryInit => CrashesBounded
  BY RecoveryAssumption DEF RecoveryInit, CrashesBounded
<1> QED
  BY <1>1, <1>2, NextCrashes, ShapeCorrect, PTL DEF RecoverySpec

-----------------------------------------------------------------------------
(* Nothing is billed that was not sent.                                    *)

SentStays == \A r \in Requests : bridge[r] \notin NotSent => bridge'[r] \notin NotSent

\* Only what was sent has a bill, or an event, that is not the fact that nothing was sent.
EventsSent ==
  /\ \A r \in Requests : bill[r] \notin {NoReceipt, NoSend} => bridge[r] \notin NotSent
  /\ \A i \in 1..Len(events) : events[i].bill # NoSend => bridge[events[i].step] \notin NotSent

LEMMA EventTypes ==
  ASSUME BridgeShape
  PROVE  Len(events) \in Nat /\ \A i \in 1..Len(events) : events[i].step \in Requests
<1>1. events \in Seq([step : Requests, bill : Receipt \cup OpaqueHashes])
  BY DEF BridgeShape
<1>2. ASSUME NEW i \in 1..Len(events)
      PROVE  events[i] \in [step : Requests, bill : Receipt \cup OpaqueHashes]
  BY <1>1, ElementOfSeq
<1> QED
  BY <1>1, <1>2

LEMMA PublishSent ==
  ASSUME BridgeShape, EventsSent, SentStays, NEW r \in Requests, NEW b, Publish(r, b),
         b # NoSend => bridge'[r] \notin NotSent
  PROVE  EventsSent'
<1> DEFINE e == [step |-> r, bill |-> b]
<1>1. /\ Len(events) \in Nat /\ Len(events') = Len(events) + 1
      /\ \A i \in 1..Len(events) : events'[i] = events[i]
      /\ events'[Len(events) + 1] = e
  BY DEF BridgeShape, Publish
<1>2. ASSUME NEW i \in 1..Len(events'), events'[i].bill # NoSend
      PROVE  bridge'[events'[i].step] \notin NotSent
  <2>1. CASE i = Len(events) + 1
    BY <1>1, <1>2, <2>1
  <2>2. CASE i \in 1..Len(events)
    BY <1>1, <1>2, <2>2, EventTypes DEF EventsSent, SentStays
  <2> QED
    BY <1>1, <2>1, <2>2
<1>3. \A q \in Requests : bill'[q] = IF q = r THEN b ELSE bill[q]
  BY DEF Publish, BridgeShape
<1> QED
  BY <1>2, <1>3 DEF EventsSent, SentStays

LEMMA QuietSent ==
  ASSUME BridgeShape, EventsSent, SentStays, UNCHANGED <<bill, events>>
  PROVE  EventsSent'
BY EventTypes DEF EventsSent, SentStays

LEMMA CancelSent ==
  ASSUME BridgeShape, EventsSent, NEW r \in Requests, Cancel(r)
  PROVE  EventsSent'
<1>1. SentStays
  BY DEF Cancel, SentStays, BridgeShape, BridgeValues, NotSent
<1> QED
  BY <1>1, PublishSent DEF Cancel

LEMMA NextSent ==
  ASSUME TypeOK, Shape, EventsSent, [RecoveryNext]_allVars
  PROVE  EventsSent'
<1>0. BridgeShape
  BY DEF Shape
<1>1. ASSUME UNCHANGED bridgeVars PROVE EventsSent'
  BY <1>0, <1>1, QuietSent DEF SentStays, bridgeVars
<1>2. ASSUME NEW r \in Requests, bridge[r] \in {"none", "prepared"},
             NEW next \in {"prepared", "running"},
             bridge' = [bridge EXCEPT ![r] = next], UNCHANGED <<bill, events>>
      PROVE  EventsSent'
  <2>1. SentStays
    BY <1>0, <1>2 DEF SentStays, BridgeShape, BridgeValues, NotSent
  <2> QED
    BY <1>0, <1>2, <2>1, QuietSent
<1>3. CASE OwnerStep
  <2>1. ASSUME NEW p \in Parents, ~OwnerAt(p, "gone") PROVE StepOf(p) \in Requests
    BY <2>1 DEF Shape, OwnerShape
  <2>2. ASSUME NEW p \in Parents, Prepare(p) PROVE EventsSent'
    BY <1>1, <1>2, <2>1, <2>2 DEF Prepare, OwnerAt, bridgeVars
  <2>3. ASSUME NEW p \in Parents, AdmitRefused(p) PROVE EventsSent'
    BY <1>0, <1>1, <2>1, <2>3, CancelSent DEF AdmitRefused, OwnerAt
  <2>4. ASSUME NEW p \in Parents, Send(p) PROVE EventsSent'
    BY <1>1, <1>2, <2>1, <2>4 DEF Send, OwnerAt, bridgeVars
  <2> QED
    BY <1>1, <1>3, <2>2, <2>3, <2>4 DEF OwnerStep, Accept, StartAssist, Admit, Mark, MarkRefused,
       TakeResult, StopWaiting, Abort, Close, Drop, Retry, Resume
<1>4. CASE BridgeStep
  <2>1. ASSUME NEW r \in Requests, Observe(r) PROVE EventsSent'
    <3>1. SentStays
      BY <1>0, <2>1 DEF Observe, SentStays, BridgeShape, BridgeValues, Outcomes, Decisions, NotSent
    <3> QED
      BY <1>0, <2>1, <3>1, QuietSent DEF Observe
  <2>2. ASSUME NEW r \in Requests, NEW b, bridge[r] \notin NotSent, UNCHANGED bridge, Publish(r, b)
        PROVE  EventsSent'
    BY <1>0, <2>2, PublishSent DEF SentStays
  <2>3. ASSUME NEW r \in Requests, Contradict(r) PROVE EventsSent'
    <3>1. bill[r] \notin {NoReceipt, NoSend}
      BY <2>3, ReceiptAssumption DEF Contradict
    <3> QED
      BY <2>2, <2>3, <3>1 DEF Contradict, EventsSent
  <2> QED
    BY <1>0, <1>4, <2>1, <2>2, <2>3, CancelSent DEF BridgeStep, Withdraw, Bill
<1>5. CASE LaneStep
  BY <1>1, <1>5, LaneStepShape DEF Shape, TypeOK
<1>6. CASE Crash \/ World \/ UNCHANGED allVars
  BY <1>1, <1>6 DEF Crash, World, allVars
<1> QED
  BY <1>3, <1>4, <1>5, <1>6 DEF RecoveryNext

LEMMA SentEventsCorrect == RecoverySpec => []EventsSent
<1>1. RecoveryInit => EventsSent
  BY DEF RecoveryInit, EventsSent
<1>2. TypeOK /\ Shape /\ EventsSent /\ [RecoveryNext]_allVars => EventsSent'
  BY NextSent
<1> QED
  BY <1>1, <1>2, ShapeCorrect, PTL DEF RecoverySpec

-----------------------------------------------------------------------------
(* The receipt cursor.                                                     *)

\* What an event says of money has come to the store.
Passed(e) == e.bill # NoSend => Recorded(e.step, e.bill) \/ financial[e.step] = "conflict"

Advancing == <<Call("advance", "none")>>

\* What the feed has yet to do with the event it has taken: bring it to the store, if it is
\* not there, and then advance.
FeedPlan(e) ==
  e.bill # NoSend =>
    \/ calls[Feed] = Advancing /\ Passed(e)
    \/ calls[Feed] = <<Call(IF e.bill \in OpaqueHashes THEN "conflict" ELSE "receipt", e.bill)>> \o Advancing

FeedPlanned ==
  /\ \A i \in 1..cursor : Passed(events[i])
  /\ calls[Feed] # <<>> => FeedPlan(events[cursor + 1])

LEMMA NextEvidence ==
  ASSUME TypeOK, [Next]_vars, NEW r \in Requests
  PROVE  evidence[r] \subseteq evidence'[r]
<1>1. CASE evidence' = evidence
  BY <1>1
<1>2. ASSUME NEW q \in Requests, NEW row, Record(q, row) PROVE evidence[r] \subseteq evidence'[r]
  BY <1>2 DEF Record, TypeOK, ReceiptTypeOK
<1>3. CASE RequestStep
  BY <1>1, <1>3 DEF RequestStep, BeginRequest, FinishUnadmitted, FailRequests, BeginAssist,
     AbortPreparation, FailPreparations, RecoverPreparations, RecoverPreDispatch, receiptVars
<1>4. CASE BudgetStep
  BY <1>1, <1>4 DEF BudgetStep, BeginOperation, AddStep, Dispatch, Release, Refresh, receiptVars
<1>5. CASE ExecutionStep
  BY <1>1, <1>5 DEF ExecutionStep, BindTask, MarkExecution, Finish, receiptVars
<1>6. CASE ReceiptStep
  BY <1>2, <1>6 DEF ReceiptStep, MarkConflict, ConflictingReceipt, LatePendingReceipt,
     PendingReceipt, SettlingReceipt
<1>7. CASE Environment \/ UNCHANGED vars
  BY <1>1, <1>7 DEF Environment, RevokeKey, Tick, vars, receiptVars
<1> QED
  BY <1>3, <1>4, <1>5, <1>6, <1>7 DEF Next

LEMMA PassedStays ==
  ASSUME TypeOK, [Next]_vars, NEW e, e.step \in Requests, Passed(e)
  PROVE  Passed(e)'
<1>1. evidence[e.step] \subseteq evidence'[e.step]
  BY NextEvidence
<1>2. financial[e.step] = "conflict" => financial'[e.step] = "conflict"
  BY NextFrozen DEF KeyFrozen
<1> QED
  BY <1>1, <1>2 DEF Passed, Recorded

\* The events that were applied are still there, and still applied.
LEMMA PrefixPassed ==
  ASSUME TypeOK, Shape, [Next]_vars, EventsGrow, FeedPlanned
  PROVE  /\ \A i \in 1..cursor : events'[i] = events[i] /\ Passed(events[i])'
         /\ cursor < Len(events) => events'[cursor + 1] = events[cursor + 1]
<1>1. cursor \in Nat /\ cursor <= Len(events) /\ Len(events) \in Nat
  BY DEF Shape, LaneShape, BridgeShape
<1>2. \A i \in 1..Len(events) : events'[i] = events[i]
  BY DEF EventsGrow, Shape, BridgeShape
<1>3. ASSUME NEW i \in 1..cursor PROVE Passed(events[i])'
  <2>1. i \in 1..Len(events)
    BY <1>1
  <2>2. PICK e : e = events[i]
    OBVIOUS
  <2>3. e.step \in Requests /\ Passed(e)
    BY <2>1, <2>2, EventTypes DEF FeedPlanned, Shape
  <2>4. Passed(e)'
    BY <2>3, PassedStays
  <2>5. events'[i] = e
    BY <1>2, <2>1, <2>2
  <2> QED
    BY <2>4, <2>5
<1> QED
  BY <1>1, <1>2, <1>3

\* A step that the feed has no part in.
LEMMA FeedKept ==
  ASSUME TypeOK, Shape, [Next]_vars, EventsGrow, FeedPlanned,
         cursor' = cursor, calls'[Feed] = calls[Feed]
  PROVE  FeedPlanned'
<1>1. \A i \in 1..cursor' : Passed(events[i])'
  BY PrefixPassed
<1>2. ASSUME calls'[Feed] # <<>> PROVE FeedPlan(events[cursor + 1])'
  <2>1. PICK e : e = events[cursor + 1]
    OBVIOUS
  <2>2. cursor < Len(events) /\ e.step \in Requests /\ FeedPlan(e)
    BY <1>2, <2>1, FeedEvent DEF FeedPlanned, Shape, LaneShape
  <2>3. events'[cursor' + 1] = e
    BY <2>1, <2>2, PrefixPassed
  <2>4. Passed(e) => Passed(e)'
    BY <2>2, PassedStays
  <2>5. FeedPlan(e)'
    BY <2>2, <2>4 DEF FeedPlan
  <2> QED
    BY <2>3, <2>5
<1> QED
  BY <1>1, <1>2 DEF FeedPlanned

LEMMA TwoCalls == ASSUME NEW x, NEW y PROVE <<x>> \o <<y>> = <<x, y>>
<1> DEFINE S == {x, y}
<1>1. <<x>> \in Seq(S) /\ <<y>> \in Seq(S) /\ <<x, y>> \in Seq(S)
  OBVIOUS
<1>2. <<x>> \o <<y>> \in Seq(S) /\ Len(<<x>> \o <<y>>) = 2
  BY <1>1
<1>3. \A i \in 1..2 : (<<x>> \o <<y>>)[i] = <<x, y>>[i]
  BY <1>1
<1> QED
  BY <1>1, <1>2, <1>3, SeqEqual

\* What the store has taken is recorded.
LEMMA ReceivedRecorded ==
  ASSUME TypeOK, NEW r \in Requests, NEW b,
         Receive(r, b) \/ MarkConflict(r, b)
  PROVE  Recorded(r, b)'
<1>1. ASSUME NEW kind, NEW amount, Record(r, EvidenceRow(kind, b, amount)) PROVE Recorded(r, b)'
  <2> DEFINE row == EvidenceRow(kind, b, amount)
  <2>1. row.hash = b
    BY DEF EvidenceRow
  <2> HIDE DEF row
  <2>2. evidence'[r] = IF \E e \in evidence[r] : e.hash = row.hash
                       THEN evidence[r] ELSE evidence[r] \cup {row}
    BY <1>1, EvidenceAdded DEF row, TypeOK
  <2> QED
    BY <2>1, <2>2 DEF Recorded
<1> QED
  BY <1>1 DEF Receive, SettlingReceipt, ConflictingReceipt, PendingReceipt, LatePendingReceipt,
     MarkConflict

LEMMA TakePlanned ==
  ASSUME TypeOK, RowsTogether, Shape, MarkedFirst, EventsSent, FeedPlanned, TakeEvent
  PROVE  FeedPlanned'
<1>1. PICK e : e = events[cursor + 1]
  OBVIOUS
<1>2. /\ cursor < Len(events) /\ UNCHANGED <<vars, events, cursor>>
      /\ calls'[Feed] = (IF execution[e.step] = "absent" THEN <<>>
                         ELSE BillCalls(e.step, e.bill, attempted[e.step])) \o Advancing
  BY <1>1 DEF TakeEvent, Shape, LaneShape, Advancing, bridgeVars
<1>3. cursor + 1 \in 1..Len(events)
  BY <1>2 DEF Shape, LaneShape, BridgeShape
<1>4. e.step \in Requests /\ e.bill \in BillsOf(e.step)
  BY <1>1, <1>3, EventTypes DEF Shape, BridgeShape
<1>5. \A i \in 1..cursor' : Passed(events[i])'
  BY <1>2, PrefixPassed DEF EventsGrow
<1>6. ASSUME e.bill # NoSend
      PROVE  calls'[Feed] = <<Call(IF e.bill \in OpaqueHashes THEN "conflict" ELSE "receipt", e.bill)>>
                              \o Advancing
  <2>1. execution[e.step] # "absent"
    BY <1>1, <1>3, <1>4, <1>6 DEF EventsSent, MarkedFirst, RowsTogether
  <2>2. e.bill # NoReceipt
    BY <1>4, ReceiptAssumption DEF BillsOf
  <2>3. BillCalls(e.step, e.bill, attempted[e.step])
          = <<Call(IF e.bill \in OpaqueHashes THEN "conflict" ELSE "receipt", e.bill)>>
    BY <1>6, <2>2 DEF BillCalls
  <2> QED
    BY <1>2, <2>1, <2>3
<1>7. FeedPlan(e)'
  BY <1>6 DEF FeedPlan
<1> QED
  BY <1>1, <1>2, <1>5, <1>7 DEF FeedPlanned

LEMMA AdvancePlanned ==
  ASSUME TypeOK, Shape, FeedPlanned, Advance
  PROVE  FeedPlanned'
<1>1. PICK e : e = events[cursor + 1]
  OBVIOUS
<1>2. /\ calls[Feed] # <<>> /\ Head(calls[Feed]).op = "advance"
      /\ UNCHANGED <<vars, events>> /\ cursor' = cursor + 1 /\ calls'[Feed] = <<>>
  BY DEF Advance, Idle, Shape, LaneShape, bridgeVars
<1>3. Passed(e)
  <2>1. FeedPlan(e)
    BY <1>1, <1>2 DEF FeedPlanned
  <2> QED
    BY <1>2, <2>1 DEF FeedPlan, Passed, Advancing, Call
<1>4. e.step \in Requests /\ cursor \in Nat
  BY <1>1, <1>2, FeedEvent DEF Shape, LaneShape
<1>5. Passed(e)'
  BY <1>2, <1>3, <1>4, PassedStays
<1>6. \A i \in 1..cursor : Passed(events[i])'
  BY <1>2, PrefixPassed DEF EventsGrow
<1>7. \A i \in 1..cursor' : i \in 1..cursor \/ i = cursor + 1
  BY <1>2, <1>4
<1>8. events'[cursor + 1] = e
  BY <1>1, <1>2
<1>9. \A i \in 1..cursor' : Passed(events[i])'
  BY <1>5, <1>6, <1>7, <1>8
<1> QED
  BY <1>2, <1>9 DEF FeedPlanned

LEMMA PerformPlanned ==
  ASSUME TypeOK, Shape, FeedPlanned, [Next]_vars, Perform(Feed)
  PROVE  FeedPlanned'
<1>1. PICK e : e = events[cursor + 1]
  OBVIOUS
<1>2. calls[Feed] # <<>> /\ FeedPlan(e) /\ UNCHANGED <<events, cursor>>
  BY <1>1 DEF Perform, Idle, FeedPlanned, bridgeVars
<1>3. Subject(Feed) = e.step /\ e.step \in Requests /\ Feed \in DOMAIN calls
  BY <1>1, <1>2, FeedEvent DEF Shape, LaneShape
<1>4. \A i \in 1..cursor' : Passed(events[i])'
  BY <1>2, PrefixPassed DEF EventsGrow
<1>5. ASSUME e.bill # NoSend, calls'[Feed] # <<>> PROVE calls'[Feed] = Advancing /\ Passed(e)'
  <2> DEFINE op == IF e.bill \in OpaqueHashes THEN "conflict" ELSE "receipt"
             call == Call(op, e.bill)
  <2>1. Head(calls[Feed]).op \notin {"read", "advance"}
    BY DEF Perform
  <2>2. calls[Feed] = <<call>> \o Advancing
    BY <1>2, <1>5, <2>1 DEF FeedPlan, Advancing, Call
  <2>3. /\ Head(calls[Feed]) = call /\ Tail(calls[Feed]) = Advancing
        /\ Only(Feed, "advance") = Advancing /\ Only(Feed, "read") = <<>>
    <3> DEFINE last == Call("advance", "none")
    <3> HIDE DEF call, last
    <3>0. Advancing = <<last>>
      BY DEF Advancing, last
    <3>1. calls[Feed] = <<call, last>>
      BY <2>2, <3>0, TwoCalls
    <3>2. Len(calls[Feed]) = 2 /\ calls[Feed][2] = last /\ last.op = "advance"
      BY <3>1 DEF last, Call
    <3>3. Only(Feed, "advance") = <<last>> /\ Only(Feed, "read") = <<>>
      BY <3>2 DEF Only
    <3>4. Head(calls[Feed]) = call /\ Tail(calls[Feed]) = <<last>>
      BY <3>1
    <3> QED
      BY <3>0, <3>3, <3>4
  <2>4. call.op = op /\ call.arg = e.bill /\ op \in {"conflict", "receipt"}
    BY DEF Call
  <2> HIDE DEF call, op
  <2>5. CASE ~AlreadyDone(e.step, call) /\ Accepted(e.step, call)
    <3>1. Effect(e.step, call) /\ calls'[Feed] = Advancing
      BY <1>3, <2>3, <2>5 DEF Perform
    <3>2. Receive(e.step, e.bill) \/ MarkConflict(e.step, e.bill)
      BY <2>4, <3>1 DEF Effect
    <3>3. Recorded(e.step, e.bill)'
      BY <1>3, <3>2, ReceivedRecorded
    <3> QED
      BY <3>1, <3>3 DEF Passed
  <2>6. CASE AlreadyDone(e.step, call)
    <3>1. UNCHANGED vars /\ calls'[Feed] = Advancing
      BY <1>3, <2>3, <2>6 DEF Perform
    <3>2. Passed(e)
      BY <2>4, <2>6 DEF AlreadyDone, Frozen, Passed
    <3>3. Passed(e)'
      BY <1>3, <3>2, PassedStays
    <3> QED
      BY <3>1, <3>3
  <2>7. CASE ~AlreadyDone(e.step, call) /\ ~Accepted(e.step, call)
    <3>1. calls'[Feed] = <<>>
      BY <1>3, <2>3, <2>7 DEF Perform, AfterRefusal
    <3> QED
      BY <1>5, <3>1
  <2> QED
    BY <2>5, <2>6, <2>7
<1>6. calls'[Feed] # <<>> => FeedPlan(e)'
  BY <1>5 DEF FeedPlan
<1>7. events'[cursor' + 1] = e
  BY <1>1, <1>2
<1> QED
  BY <1>4, <1>6, <1>7 DEF FeedPlanned

LEMMA NextPlanned ==
  TypeOK /\ RowsTogether /\ Shape /\ MarkedFirst /\ EventsSent /\ FeedPlanned /\ [RecoveryNext]_allVars
    => FeedPlanned'
<1> SUFFICES ASSUME TypeOK, RowsTogether, Shape, MarkedFirst, EventsSent, FeedPlanned,
                    [RecoveryNext]_allVars
             PROVE  FeedPlanned'
  OBVIOUS
<1>1. [Next]_vars /\ EventsGrow
  BY ShapeStep
<1>2. ASSUME cursor' = cursor, calls'[Feed] = calls[Feed] PROVE FeedPlanned'
  BY <1>1, <1>2, FeedKept
<1>3. CASE OwnerStep
  <2>1. PICK p \in Parents :
          \/ Accept(p) \/ StartAssist(p) \/ Prepare(p) \/ Admit(p) \/ AdmitRefused(p)
          \/ Mark(p) \/ MarkRefused(p) \/ Send(p) \/ TakeResult(p) \/ StopWaiting(p)
          \/ Abort(p) \/ Close(p) \/ Drop(p) \/ Retry(p) \/ Resume(p)
    BY <1>3 DEF OwnerStep
  <2> QED
    BY <1>2, <2>1, OwnerStepMoves DEF Shape, laneVars
<1>4. CASE BridgeStep \/ World \/ UNCHANGED allVars
  BY <1>2, <1>4, BridgeStepMoves DEF Shape, World, allVars, laneVars
<1>5. CASE LaneStep
  <2>1. ASSUME NEW w \in Workers, Work(w) PROVE FeedPlanned'
    <3>1. w # Feed /\ Feed \in DOMAIN calls
      BY RecoveryAssumption DEF Shape, LaneShape
    <3>2. calls'[Feed] = calls[Feed] /\ cursor' = cursor
      BY <2>1, <3>1 DEF Work, Look, ReadBill, Perform
    <3> QED
      BY <1>2, <3>2
  <2> QED
    BY <1>1, <1>5, <2>1, TakePlanned, AdvancePlanned, PerformPlanned DEF LaneStep, FeedStep
<1>6. CASE Crash
  <2>1. cursor' = cursor /\ calls'[Feed] = <<>>
    BY <1>6 DEF Crash
  <2>2. \A i \in 1..cursor' : Passed(events[i])'
    BY <1>1, <2>1, PrefixPassed
  <2> QED
    BY <2>1, <2>2 DEF FeedPlanned
<1> QED
  BY <1>3, <1>4, <1>5, <1>6 DEF RecoveryNext

LEMMA MarkedFirstCorrect == RecoverySpec => []MarkedFirst
<1>1. RecoveryInit => MarkedFirst
  BY DEF RecoveryInit, MarkedFirst, Gone, OwnerAt, NotSent
<1> QED
  BY <1>1, NextMarkedFirst, ShapeCorrect, PTL DEF RecoverySpec

\* Wherever the process dies between taking an event, applying it and advancing, and
\* whoever else brings the same bill to the store meanwhile, the durable cursor never
\* leaves behind money the store does not know (sync_event_page applies, then advances in
\* a transaction of its own).
THEOREM CursorCorrect == RecoverySpec => []CursorNeverSkipsBills
<1>1. RecoveryInit => FeedPlanned
  BY DEF RecoveryInit, FeedPlanned
<1>2. FeedPlanned => CursorNeverSkipsBills
  BY DEF FeedPlanned, Passed, CursorNeverSkipsBills
<1> QED
  BY <1>1, <1>2, NextPlanned, ShapeCorrect, MarkedFirstCorrect, SentEventsCorrect,
     RouterImplementsStore, RowsCorrect, PTL DEF RecoverySpec

-----------------------------------------------------------------------------
(* How operations are closed.                                              *)

\* A step ends only as the bridge told.
EndedAsTold == \A r \in Requests : execution[r] \in Terminal => ToldEnded(r)

\* No step is inserted, none is deleted, and none ends.
StepsKept ==
  \A r \in Requests :
    /\ execution'[r] = "absent" <=> execution[r] = "absent"
    /\ execution'[r] \in Terminal => execution[r] \in Terminal

LEMMA OwnerKeepsSteps ==
  ASSUME TypeOK, OwnerShape, NEW p \in Parents,
         \/ Accept(p) \/ StartAssist(p) \/ Prepare(p) \/ AdmitRefused(p)
         \/ Mark(p) \/ MarkRefused(p) \/ Send(p) \/ TakeResult(p) \/ StopWaiting(p)
         \/ Abort(p) \/ Close(p) \/ Drop(p) \/ Retry(p) \/ Resume(p)
  PROVE  StepsKept
<1>1. ASSUME UNCHANGED stepVars PROVE StepsKept
  BY <1>1 DEF StepsKept, stepVars
<1>2. ASSUME UNCHANGED vars PROVE StepsKept
  BY <1>1, <1>2 DEF vars
<1>3. CASE Mark(p)
  <2>1. StepOf(p) \in Requests /\ Dispatch(StepOf(p))
    BY <1>3, StepOfOwner DEF Mark, OwnerAt
  <2> QED
    BY <2>1 DEF Dispatch, StepsKept, TypeOK, StepTypeOK, Terminal
<1>4. CASE Accept(p) \/ StartAssist(p) \/ Abort(p) \/ Drop(p)
  BY <1>1, <1>2, <1>4 DEF Accept, BeginRequest, StartAssist, BeginAssist, Abort, AbortPreparation,
     FailPreparations, Drop, FinishUnadmitted, FailRequests
<1>5. CASE TakeResult(p) \/ Close(p)
  BY <1>1, <1>2, <1>5 DEF TakeResult, Close, Finish
<1>6. CASE Prepare(p) \/ AdmitRefused(p) \/ MarkRefused(p) \/ Send(p) \/ StopWaiting(p) \/ Retry(p) \/ Resume(p)
  BY <1>2, <1>6 DEF Prepare, AdmitRefused, MarkRefused, Send, StopWaiting, Retry, Resume
<1> QED
  BY <1>3, <1>4, <1>5, <1>6

LEMMA AdmitSteps ==
  ASSUME TypeOK, OwnerShape, NEW p \in Parents, Admit(p)
  PROVE  /\ StepOf(p) \in Requests
         /\ execution' = [execution EXCEPT ![StepOf(p)] = "ready"]
<1>1. StepOf(p) \in Requests
  BY StepOfOwner DEF Admit, OwnerAt
<1> QED
  BY <1>1 DEF Admit, BeginOperation, AddStep, InsertStep

\* Whatever the store is asked, its steps are the same, and one that ends has been told.
LEMMA EffectSteps ==
  ASSUME TypeOK, NEW r \in Requests, NEW call \in CallsFor(r), Effect(r, call)
  PROVE  \A q \in Requests :
           /\ execution'[q] = "absent" <=> execution[q] = "absent"
           /\ execution'[q] \in Terminal => execution[q] \in Terminal \/ ToldEnded(q)
<1> USE DEF TypeOK, StepTypeOK
<1>1. CASE call.op = "mark"
  <2>1. call.arg \in Terminal => ToldEnded(r)
    BY <1>1 DEF CallsFor, UnderWay, Terminal
  <2>2. execution' = [execution EXCEPT ![r] = call.arg] /\ execution[r] \in Active
    BY <1>1 DEF Effect, MarkExecution, Reportable
  <2>3. call.arg # "absent"
    BY <1>1 DEF CallsFor, UnderWay, Terminal
  <2> QED
    BY <2>1, <2>2, <2>3 DEF Active
<1>2. CASE call.op = "release"
  <2>1. ToldEnded(r)
    BY <1>2 DEF CallsFor, ToldEnded
  <2>2. execution' = execution \/ (execution[r] = "ready" /\ execution' = [execution EXCEPT ![r] = "canceled"])
    BY <1>2 DEF Effect, Release
  <2> QED
    BY <2>1, <2>2
<1>3. CASE call.op \notin {"mark", "release"}
  <2>1. execution' = execution
    BY <1>3 DEF Effect, BindTask, Finish, stepVars, Receive, SettlingReceipt, ConflictingReceipt,
       PendingReceipt, LatePendingReceipt, Quarantine, MarkConflict
  <2> QED
    BY <2>1
<1> QED
  BY <1>1, <1>2, <1>3

\* What happens to the steps when a lane moves.
LEMMA LaneSteps ==
  ASSUME TypeOK, Shape, LaneStep
  PROVE  \A q \in Requests :
           /\ execution'[q] = "absent" <=> execution[q] = "absent"
           /\ execution'[q] \in Terminal => execution[q] \in Terminal \/ ToldEnded(q)
<1>1. CASE UNCHANGED vars
  BY <1>1 DEF vars, stepVars
<1>2. ASSUME NEW w \in Workers \cup {Feed}, Perform(w), ~UNCHANGED vars
      PROVE  Subject(w) \in Requests /\ Head(calls[w]) \in CallsFor(Subject(w)) /\ Effect(Subject(w), Head(calls[w]))
  BY <1>2, NextCall DEF Perform, Idle
<1> QED
  BY <1>1, <1>2, EffectSteps DEF LaneStep, Work, FeedStep, Look, ReadBill, TakeEvent, Advance

LEMMA NextEndedAsTold ==
  TypeOK /\ Shape /\ EndedAsTold /\ [RecoveryNext]_allVars => EndedAsTold'
<1> SUFFICES ASSUME TypeOK, Shape, EndedAsTold, [RecoveryNext]_allVars PROVE EndedAsTold'
  OBVIOUS
<1>1. EndedStays
  BY ShapeStep
<1>2. ASSUME NEW r \in Requests, ToldEnded(r) PROVE ToldEnded(r)'
  BY <1>1, <1>2 DEF EndedStays, ToldEnded
<1>3. ASSUME StepsKept PROVE EndedAsTold'
  BY <1>2, <1>3 DEF StepsKept, EndedAsTold
<1>4. ASSUME UNCHANGED stepVars PROVE EndedAsTold'
  BY <1>3, <1>4 DEF StepsKept, stepVars
<1>5. CASE OwnerStep
  <2>1. ASSUME NEW p \in Parents, Admit(p) PROVE EndedAsTold'
    BY <1>2, <2>1, AdmitSteps DEF Shape, EndedAsTold, TypeOK, StepTypeOK, Terminal
  <2> QED
    BY <1>3, <1>5, <2>1, OwnerKeepsSteps DEF OwnerStep, Shape
<1>6. CASE LaneStep
  BY <1>2, <1>6, LaneSteps DEF EndedAsTold
<1>7. CASE BridgeStep
  BY <1>4, <1>7, BridgeStepMoves DEF Shape, vars
<1>8. CASE Crash
  BY <1>4, <1>8 DEF Crash, RecoverPreDispatch, FailRequests, vars
<1>9. CASE World \/ UNCHANGED allVars
  BY <1>4, <1>9 DEF World, Environment, RevokeKey, Tick, allVars, vars
<1> QED
  BY <1>5, <1>6, <1>7, <1>8, <1>9 DEF RecoveryNext

\* The helper of a video chain decided for a video.
HelperChose(p) == \E c \in Children : ParentOf[c] = p /\ bridge[c] = "video"

\* A task works on a step of its own request, and on the video itself only once the helper
\* decided for one.
OwnersChosen ==
  \A p \in Parents :
    /\ ~OwnerAt(p, "gone") => Operation(StepOf(p)) = p
    /\ p \in Videos /\ StepOf(p) = p /\ owner[p].at \in {"prepare", "admit", "mark", "send"} =>
         HelperChose(p)

\* A chain has a video step only if its helper decided for a video.
StepsChosen == \A p \in Videos : execution[p] # "absent" => HelperChose(p)

Chosen == OwnersChosen /\ StepsChosen

LEMMA ChoiceStays ==
  ASSUME EndedStays, NEW p, HelperChose(p)
  PROVE  HelperChose(p)'
BY SomeRequests DEF EndedStays, ToldEnded, BridgeEnded, Decisions, HelperChose

LEMMA OwnOperation ==
  /\ \A p \in Parents : Operation(p) = p
  /\ \A c \in Children : Operation(c) = ParentOf[c] /\ c \notin Parents
BY IdentityAssumption DEF Operation

\* A task that goes elsewhere, with what it has to know there.
LEMMA MoveChosen ==
  ASSUME OwnerShape, OwnersChosen, EndedStays, NEW p \in Parents,
         \A q \in Parents : q # p => owner'[q] = owner[q],
         owner'[p].at # "gone" => Operation(owner'[p].step) = p,
         p \in Videos /\ owner'[p].step = p /\ owner'[p].at \in {"prepare", "admit", "mark", "send"} =>
           HelperChose(p)
  PROVE  OwnersChosen'
<1>1. \A q \in Parents : HelperChose(q) => HelperChose(q)'
  BY ChoiceStays
<1> QED
  BY <1>1 DEF OwnersChosen, OwnerAt, StepOf

LEMMA GoChosen ==
  ASSUME OwnerShape, OwnersChosen, EndedStays, NEW p \in Parents, NEW stage, NEW r,
         Go(p, stage, r), Operation(r) = p,
         p \in Videos /\ r = p /\ stage \in {"prepare", "admit", "mark", "send"} => HelperChose(p)
  PROVE  OwnersChosen'
BY MoveChosen DEF Go, OwnerShape, Owner

LEMMA FailChosen ==
  ASSUME OwnerShape, OwnersChosen, EndedStays, NEW p \in Parents, NEW r,
         Fail(p, r), Operation(r) = p
  PROVE  OwnersChosen'
BY GoChosen DEF Fail, AfterFailure

LEMMA LeaveChosen ==
  ASSUME OwnerShape, OwnersChosen, EndedStays, NEW p \in Parents, Leave(p)
  PROVE  OwnersChosen'
<1>1. owner'[p] = Gone /\ \A q \in Parents : q # p => owner'[q] = owner[q]
  BY DEF Leave, OwnerShape, Owner
<1> QED
  BY <1>1, MoveChosen DEF Gone

LEMMA TakeChosen ==
  ASSUME OwnerShape, OwnersChosen, EndedStays, NEW p \in Parents, NEW stage, NEW r, NEW fresh,
         owner' = [owner EXCEPT ![p] = [at |-> stage, step |-> r, fresh |-> fresh]],
         Operation(r) = p,
         p \in Videos /\ r = p => stage \notin {"prepare", "admit", "mark", "send"}
  PROVE  OwnersChosen'
<1> DEFINE o == [at |-> stage, step |-> r, fresh |-> fresh]
<1>1. owner'[p] = o /\ \A q \in Parents : q # p => owner'[q] = owner[q]
  BY DEF OwnerShape
<1> QED
  BY <1>1, MoveChosen

LEMMA OwnersChoose ==
  ASSUME OwnerShape, BridgeValues, OwnersChosen, EndedStays, NEW p \in Parents,
         \/ Accept(p) \/ StartAssist(p) \/ Prepare(p) \/ Admit(p) \/ AdmitRefused(p)
         \/ Mark(p) \/ MarkRefused(p) \/ Send(p) \/ TakeResult(p) \/ StopWaiting(p)
         \/ Abort(p) \/ Close(p) \/ Drop(p) \/ Retry(p) \/ Resume(p)
  PROVE  OwnersChosen'
<1>1. ~OwnerAt(p, "gone") => Operation(StepOf(p)) = p
  BY DEF OwnersChosen
<1>2. CASE Accept(p)
  BY <1>2, OwnOperation, TakeChosen DEF Accept
<1>3. CASE StartAssist(p)
  BY <1>1, <1>3, OwnOperation, GoChosen DEF StartAssist
<1>4. CASE Prepare(p) \/ Admit(p) \/ Mark(p)
  <2>1. /\ Operation(StepOf(p)) = p
        /\ p \in Videos /\ StepOf(p) = p => HelperChose(p)
    BY <1>4 DEF Prepare, Admit, Mark, OwnersChosen, OwnerAt
  <2> QED
    BY <1>4, <2>1, GoChosen, FailChosen DEF Prepare, Admit, AdmittedStage, Mark
<1>5. CASE AdmitRefused(p) \/ MarkRefused(p)
  BY <1>1, <1>5, FailChosen DEF AdmitRefused, MarkRefused, OwnerAt
<1>6. CASE Send(p) \/ StopWaiting(p) \/ Abort(p) \/ Close(p) \/ Drop(p)
  BY <1>1, <1>6, GoChosen, LeaveChosen DEF Send, StopWaiting, Abort, Close, Drop, OwnerAt
<1>7. CASE TakeResult(p)
  <2> DEFINE r == StepOf(p)
  <2>1. r \in Requests /\ Operation(r) = p
    BY <1>1, <1>7, StepOfOwner DEF TakeResult, OwnerAt
  <2>2. ASSUME bridge[r] = "video" PROVE HelperChose(p)
    <3>1. r \in Children
      BY <2>1, <2>2 DEF BridgeValues, Outcomes, NotSent, UnderWay
    <3> QED
      BY <2>1, <2>2, <3>1, OwnOperation DEF HelperChose
  <2> QED
    BY <1>7, <2>1, <2>2, OwnOperation, GoChosen, LeaveChosen DEF TakeResult
<1>8. CASE Retry(p)
  <2>1. p \in Chats => p \notin Videos
    BY IdentityAssumption
  <2>2. \A c \in Children : ParentOf[c] = p => Operation(c) = p /\ c # p
    BY OwnOperation
  <2> QED
    BY <1>8, <2>1, <2>2, OwnOperation, TakeChosen DEF Retry
<1>9. CASE Resume(p)
  <2>1. \A c \in Children : ParentOf[c] = p => Operation(c) = p /\ c # p
    BY OwnOperation
  <2> QED
    BY <1>9, <2>1, TakeChosen DEF Resume
<1> QED
  BY <1>2, <1>3, <1>4, <1>5, <1>6, <1>7, <1>8, <1>9

LEMMA NextChosen ==
  TypeOK /\ Shape /\ Chosen /\ [RecoveryNext]_allVars => Chosen'
<1> SUFFICES ASSUME TypeOK, Shape, OwnersChosen, StepsChosen, [RecoveryNext]_allVars PROVE Chosen'
  BY DEF Chosen
<1>1. EndedStays
  BY ShapeStep
<1>2. \A p \in Parents : HelperChose(p) => HelperChose(p)'
  BY <1>1, ChoiceStays
<1>3. ASSUME UNCHANGED owner PROVE OwnersChosen'
  BY <1>2, <1>3 DEF OwnersChosen, OwnerAt, StepOf
<1>4. ASSUME \A q \in Requests : execution'[q] # "absent" => execution[q] # "absent"
      PROVE  StepsChosen'
  BY <1>2, <1>4 DEF StepsChosen, Requests, Parents
<1>5. ASSUME UNCHANGED stepVars PROVE StepsChosen'
  BY <1>4, <1>5 DEF stepVars
<1>6. CASE OwnerStep
  <2>1. PICK p \in Parents :
          \/ Accept(p) \/ StartAssist(p) \/ Prepare(p) \/ Admit(p) \/ AdmitRefused(p)
          \/ Mark(p) \/ MarkRefused(p) \/ Send(p) \/ TakeResult(p) \/ StopWaiting(p)
          \/ Abort(p) \/ Close(p) \/ Drop(p) \/ Retry(p) \/ Resume(p)
    BY <1>6 DEF OwnerStep
  <2>2. OwnersChosen'
    BY <1>1, <2>1, OwnersChoose DEF Shape, BridgeShape
  <2>3. CASE Admit(p)
    <3>1. /\ Operation(StepOf(p)) = p
          /\ p \in Videos /\ StepOf(p) = p => HelperChose(p)
      BY <2>3 DEF Admit, OwnersChosen, OwnerAt
    <3>2. execution' = [execution EXCEPT ![StepOf(p)] = "ready"]
      BY <2>3, AdmitSteps DEF Shape
    <3>3. ASSUME NEW q \in Videos, q # StepOf(p) PROVE execution'[q] = execution[q]
      BY <3>2, <3>3 DEF TypeOK, StepTypeOK, Requests, Parents
    <3>4. ASSUME NEW q \in Videos, q = StepOf(p) PROVE HelperChose(q)
      BY <3>1, <3>4, OwnOperation DEF Parents
    <3> QED
      BY <1>2, <2>2, <3>3, <3>4 DEF StepsChosen, Chosen, Parents
  <2>4. CASE ~Admit(p)
    BY <1>4, <2>1, <2>2, <2>4, OwnerKeepsSteps DEF Shape, StepsKept, Chosen
  <2> QED
    BY <2>3, <2>4
<1>7. CASE LaneStep
  <2>1. UNCHANGED owner
    BY <1>7, LaneStepShape DEF Shape, TypeOK
  <2> QED
    BY <1>3, <1>4, <1>7, <2>1, LaneSteps DEF Chosen
<1>8. CASE BridgeStep
  BY <1>3, <1>5, <1>8, BridgeStepMoves DEF Shape, vars, Chosen
<1>9. CASE Crash
  <2>1. OwnersChosen'
    BY <1>9 DEF Crash, OwnersChosen, OwnerAt, Gone
  <2> QED
    BY <1>5, <1>9, <2>1 DEF Crash, RecoverPreDispatch, FailRequests, vars, Chosen
<1>10. CASE World \/ UNCHANGED allVars
  BY <1>3, <1>5, <1>10 DEF World, Environment, RevokeKey, Tick, allVars, vars, Chosen
<1> QED
  BY <1>6, <1>7, <1>8, <1>9, <1>10 DEF RecoveryNext

\* A closed operation that succeeded did so by its own call, or by its helper's text.
ClosedRight ==
  \A p \in Parents :
    operation[p] = "succeeded" =>
      IF NoVideoStep(p) THEN \E c \in Children : ParentOf[c] = p /\ bridge[c] = "text"
      ELSE bridge[p] = "succeeded"

\* No operation succeeds.
NoneSucceeds == \A p \in Parents : operation'[p] = "succeeded" => operation[p] = "succeeded"

\* What closed an operation stays as it was.
LEMMA RightStays ==
  ASSUME ClosedRight, EndedStays, NEW p \in Parents, operation[p] = "succeeded",
         execution'[p] = "absent" <=> execution[p] = "absent"
  PROVE  IF NoVideoStep(p)' THEN \E c \in Children : ParentOf[c] = p /\ bridge'[c] = "text"
         ELSE bridge'[p] = "succeeded"
BY SomeRequests DEF ClosedRight, EndedStays, ToldEnded, BridgeEnded, Decisions, NoVideoStep

LEMMA NoneSucceedsRight ==
  ASSUME ClosedRight, EndedStays, NoneSucceeds,
         \A p \in Parents :
           operation[p] = "succeeded" => (execution'[p] = "absent" <=> execution[p] = "absent")
  PROVE  ClosedRight'
BY RightStays DEF NoneSucceeds, ClosedRight

LEMMA OwnerCloses ==
  ASSUME TypeOK, OwnerShape, BridgeValues, Chosen, ClosedRight, EndedStays, NEW p \in Parents,
         \/ Accept(p) \/ StartAssist(p) \/ Prepare(p) \/ Admit(p) \/ AdmitRefused(p)
         \/ Mark(p) \/ MarkRefused(p) \/ Send(p) \/ TakeResult(p) \/ StopWaiting(p)
         \/ Abort(p) \/ Close(p) \/ Drop(p) \/ Retry(p) \/ Resume(p)
  PROVE  ClosedRight'
<1>1. ASSUME StepsKept, NoneSucceeds PROVE ClosedRight'
  BY <1>1, NoneSucceedsRight, SomeRequests DEF StepsKept
<1>2. ASSUME UNCHANGED operation PROVE NoneSucceeds
  BY <1>2 DEF NoneSucceeds
<1>3. ASSUME UNCHANGED vars PROVE NoneSucceeds
  BY <1>2, <1>3 DEF vars
<1>4. ~Admit(p) => StepsKept
  BY OwnerKeepsSteps
<1>5. CASE Admit(p)
  <2> DEFINE r == StepOf(p)
  <2>1. r \in Requests /\ Operation(r) = p /\ execution' = [execution EXCEPT ![r] = "ready"]
    BY <1>5, AdmitSteps DEF Admit, Chosen, OwnersChosen, OwnerAt
  <2>2. /\ operation[p] \in {"absent"} \cup Active
        /\ operation' = operation \/ operation' = [operation EXCEPT ![p] = "ready"]
    BY <1>5, <2>1 DEF Admit, BeginOperation, AddStep
  <2>3. NoneSucceeds
    BY <2>2 DEF NoneSucceeds, TypeOK, RequestTypeOK
  <2>4. ASSUME NEW q \in Parents, operation[q] = "succeeded" PROVE execution'[q] = execution[q]
    <3>1. q # r
      BY <2>1, <2>2, <2>4, OwnOperation DEF Active
    <3> QED
      BY <2>1, <3>1
  <2> QED
    BY <2>3, <2>4, NoneSucceedsRight
<1>6. CASE Mark(p)
  <2>1. operation' = [operation EXCEPT ![Operation(StepOf(p))] = "running"]
    BY <1>6 DEF Mark, Dispatch
  <2>2. NoneSucceeds
    BY <2>1 DEF NoneSucceeds, TypeOK, RequestTypeOK
  <2> QED
    BY <1>1, <1>4, <1>6, <2>2, OwnerKeepsSteps
<1>7. CASE TakeResult(p)
  <2> DEFINE r == StepOf(p)
  <2>1. CASE UNCHANGED vars
    BY <1>1, <1>3, <1>7, <2>1, OwnerKeepsSteps
  <2>2. CASE bridge[r] = "text" /\ Finish(p, "succeeded")
    <3>1. r \in Requests /\ Operation(r) = p
      BY <1>7, StepOfOwner DEF TakeResult, Chosen, OwnersChosen, OwnerAt
    <3>2. r \in Children /\ ParentOf[r] = p
      BY <2>2, <3>1, OwnOperation DEF BridgeValues, Outcomes, NotSent, UnderWay
    <3>3. NoVideoStep(p)
      <4>1. p \in Videos
        BY <3>2, IdentityAssumption
      <4> QED
        BY <2>2, <3>2, <4>1, IdentityAssumption DEF NoVideoStep, Chosen, StepsChosen, HelperChose
    <3>4. operation' = [operation EXCEPT ![p] = "succeeded"] /\ execution' = execution
      BY <2>2 DEF Finish, stepVars
    <3>5. ASSUME NEW q \in Parents, operation'[q] = "succeeded"
          PROVE  q = p \/ operation[q] = "succeeded"
      BY <3>4, <3>5 DEF TypeOK, RequestTypeOK
    <3>6. bridge' = bridge
      BY <1>7 DEF TakeResult, bridgeVars
    <3> QED
      BY <2>2, <3>2, <3>3, <3>4, <3>5, <3>6 DEF ClosedRight, NoVideoStep
  <2> QED
    BY <1>7, <2>1, <2>2 DEF TakeResult
<1>8. CASE Close(p)
  <2>1. ASSUME Finish(p, "failed") PROVE NoneSucceeds
    BY <2>1 DEF Finish, NoneSucceeds, TypeOK, RequestTypeOK
  <2> QED
    BY <1>1, <1>3, <1>8, <2>1, OwnerKeepsSteps DEF Close
<1>9. CASE Accept(p) \/ StartAssist(p) \/ Abort(p) \/ Drop(p)
  <2>1. NoneSucceeds
    BY <1>2, <1>3, <1>9 DEF Accept, BeginRequest, StartAssist, BeginAssist, Abort, AbortPreparation,
       FailPreparations, Drop, FinishUnadmitted, FailRequests
  <2> QED
    BY <1>1, <1>9, <2>1, OwnerKeepsSteps
<1>10. CASE Prepare(p) \/ AdmitRefused(p) \/ MarkRefused(p) \/ Send(p) \/ StopWaiting(p) \/ Retry(p) \/ Resume(p)
  <2>1. NoneSucceeds
    BY <1>3, <1>10 DEF Prepare, AdmitRefused, MarkRefused, Send, StopWaiting, Retry, Resume
  <2> QED
    BY <1>1, <1>10, <2>1, OwnerKeepsSteps
<1> QED
  BY <1>5, <1>6, <1>7, <1>8, <1>9, <1>10

\* The calls of a lane close an operation as the bridge told.
LEMMA EffectCloses ==
  ASSUME TypeOK, RowsTogether, MarkedFirst, ClosedRight, NEW r \in Requests,
         NEW call \in CallsFor(r), Effect(r, call), UNCHANGED bridge
  PROVE  ClosedRight'
<1>1. EndedStays
  BY DEF EndedStays
<1>2. \A q \in Parents : execution'[q] = "absent" <=> execution[q] = "absent"
  BY EffectSteps, SomeRequests
<1>3. ASSUME NoneSucceeds PROVE ClosedRight'
  BY <1>1, <1>2, <1>3, NoneSucceedsRight
<1>4. ASSUME NEW p \in Parents, NEW terminal, Finish(p, terminal),
             terminal = "succeeded" =>
               IF NoVideoStep(p) THEN \E c \in Children : ParentOf[c] = p /\ bridge[c] = "text"
               ELSE bridge[p] = "succeeded"
      PROVE  ClosedRight'
  <2>1. operation' = [operation EXCEPT ![p] = terminal] /\ execution' = execution
    BY <1>4 DEF Finish, stepVars
  <2>2. ASSUME NEW q \in Parents, operation'[q] = "succeeded"
        PROVE  (q = p /\ terminal = "succeeded") \/ operation[q] = "succeeded"
    BY <2>1, <2>2 DEF TypeOK, RequestTypeOK
  <2> QED
    BY <1>4, <2>1, <2>2 DEF ClosedRight, NoVideoStep
<1>5. CASE call.op = "finish"
  <2>1. /\ r \in Parents /\ Finish(r, call.arg)
        /\ call.arg = "succeeded" => bridge[r] = "succeeded"
    BY <1>5 DEF CallsFor, Effect
  <2>2. bridge[r] = "succeeded" => ~NoVideoStep(r)
    BY DEF MarkedFirst, RowsTogether, NotSent, NoVideoStep
  <2> QED
    BY <1>4, <2>1, <2>2
<1>6. CASE call.op = "helper"
  <2>1. /\ r \in Children /\ NoVideoStep(ParentOf[r]) /\ Finish(ParentOf[r], call.arg)
        /\ call.arg = "succeeded" => bridge[r] = "text"
    BY <1>6 DEF CallsFor, Effect
  <2>2. ParentOf[r] \in Parents
    BY <2>1, IdentityAssumption DEF Parents
  <2> QED
    BY <1>4, <2>1, <2>2
<1>7. CASE call.op = "mark"
  <2>1. operation' = [operation EXCEPT ![Operation(r)] = IF call.arg = "unknown" THEN "unknown" ELSE "running"]
    BY <1>7 DEF Effect, MarkExecution
  <2>2. NoneSucceeds
    BY <2>1 DEF NoneSucceeds, TypeOK, RequestTypeOK
  <2> QED
    BY <1>3, <2>2
<1>8. CASE call.op \notin {"finish", "helper", "mark"}
  <2>1. UNCHANGED operation
    BY <1>8 DEF Effect, BindTask, Release, Receive, SettlingReceipt, ConflictingReceipt,
       PendingReceipt, LatePendingReceipt, Quarantine, MarkConflict, requestVars
  <2> QED
    BY <1>3, <2>1 DEF NoneSucceeds
<1> QED
  BY <1>5, <1>6, <1>7, <1>8

LEMMA NextClosedRight ==
  TypeOK /\ Shape /\ RowsTogether /\ MarkedFirst /\ Chosen /\ ClosedRight /\ [RecoveryNext]_allVars
    => ClosedRight'
<1> SUFFICES ASSUME TypeOK, Shape, RowsTogether, MarkedFirst, Chosen, ClosedRight,
                    [RecoveryNext]_allVars
             PROVE  ClosedRight'
  OBVIOUS
<1>1. EndedStays
  BY ShapeStep
<1>2. ASSUME UNCHANGED <<operation, execution>> PROVE ClosedRight'
  BY <1>1, <1>2, NoneSucceedsRight DEF NoneSucceeds
<1>3. CASE OwnerStep
  BY <1>1, <1>3, OwnerCloses DEF OwnerStep, Shape, BridgeShape
<1>4. CASE LaneStep
  <2>1. UNCHANGED bridge
    BY <1>4, LaneStepShape DEF Shape, TypeOK, bridgeVars
  <2>2. CASE UNCHANGED vars
    BY <1>2, <2>2 DEF vars, stepVars
  <2>3. ASSUME NEW w \in Workers \cup {Feed}, Perform(w), ~UNCHANGED vars
        PROVE  /\ Subject(w) \in Requests /\ Head(calls[w]) \in CallsFor(Subject(w))
               /\ Effect(Subject(w), Head(calls[w]))
    BY <2>3, NextCall DEF Perform, Idle
  <2> QED
    BY <1>4, <2>1, <2>2, <2>3, EffectCloses DEF LaneStep, Work, FeedStep, Look, ReadBill, TakeEvent, Advance
<1>5. CASE BridgeStep
  BY <1>2, <1>5, BridgeStepMoves DEF Shape, vars, stepVars
<1>6. CASE Crash
  BY <1>2, <1>6 DEF Crash, RecoverPreDispatch, FailRequests, vars, stepVars
<1>7. CASE World \/ UNCHANGED allVars
  BY <1>2, <1>7 DEF World, Environment, RevokeKey, Tick, allVars, vars, stepVars
<1> QED
  BY <1>3, <1>4, <1>5, <1>6, <1>7 DEF RecoveryNext

LEMMA QuietWhenClosed ==
  TypeOK /\ Shape /\ RowsTogether /\ EndsTogether /\ MarkedFirst /\ EndedAsTold /\ ClosedRight
    => ClosedMeansQuiet
<1> SUFFICES ASSUME TypeOK, Shape, RowsTogether, EndsTogether, MarkedFirst, EndedAsTold,
                    ClosedRight, NEW p \in Parents, operation[p] \in Terminal
             PROVE  /\ \A r \in Steps(p) : bridge[r] \notin UnderWay
                    /\ operation[p] = "succeeded" =>
                         IF NoVideoStep(p) THEN \E r \in Steps(p) : bridge[r] = "text"
                         ELSE bridge[p] = "succeeded"
  BY DEF ClosedMeansQuiet
<1>1. ASSUME NEW r \in Steps(p) PROVE bridge[r] \notin UnderWay
  <2>1. r \in Requests /\ execution[r] \in Terminal
    BY <1>1 DEF Steps, EndsTogether, Terminal
  <2> QED
    BY <2>1 DEF EndedAsTold, ToldEnded, UnderWay, BridgeEnded, Decisions
<1>2. ASSUME NEW c \in Children, ParentOf[c] = p, bridge[c] = "text" PROVE c \in Steps(p)
  <2>1. execution[c] # "absent"
    BY <1>2, SomeRequests DEF MarkedFirst, RowsTogether, NotSent
  <2> QED
    BY <1>2, <2>1, OwnOperation, SomeRequests DEF Steps
<1> QED
  BY <1>1, <1>2 DEF ClosedRight

\* Whatever the lanes and the task of a request knew when they called the store, and
\* wherever the process died, an operation is closed only when nothing of it is under way,
\* and it succeeded only as the bridge told: with its own call, or with its helper's text
\* and no video step beside it.
THEOREM ClosedCorrect == RecoverySpec => []ClosedMeansQuiet
<1>1. RecoveryInit => MarkedFirst /\ EndedAsTold /\ Chosen /\ ClosedRight
  BY DEF RecoveryInit, Init, MarkedFirst, EndedAsTold, Chosen, OwnersChosen, StepsChosen, ClosedRight,
     Gone, OwnerAt, NotSent, Terminal, Parents, Requests
<1> QED
  BY <1>1, NextMarkedFirst, NextEndedAsTold, NextChosen, NextClosedRight, QuietWhenClosed,
     ShapeCorrect, RouterImplementsStore, RowsCorrect, EndsCorrect, PTL DEF RecoverySpec
=============================================================================
