------------------------ MODULE QuotedBillingProofs -------------------------
(***************************************************************************)
(* What holds of quoted billing for any number of requests, keys and       *)
(* clients, any quotes and any receipts, and any order of the handlers,    *)
(* the reconciler, clients and restarts.                                   *)
(***************************************************************************)
EXTENDS QuotedBilling, TLAPS

\* A helper and the request it is made for name each other.
LEMMA ChildType ==
  ASSUME NEW r \in Seedances
  PROVE  ChildOf(r) \in Children /\ ParentOf[ChildOf(r)] = r
BY QuotedIdentities DEF ChildOf

\* What a thread is doing is well-formed, whichever operator says it.
LEMMA StageType ==
  ASSUME NEW name \in HandlerStages \cup {"idle"}
  PROVE  Stage(name) \in Stages /\ Stage(name).at = name
BY DEF Stage, Stages

LEMMA AskingType ==
  ASSUME NEW s \in Steps, NEW good \in HandlerStages \cup {"idle", "closeJob", "closeLost"},
         NEW bad \in HandlerStages \cup {"idle"}
  PROVE  /\ Asking(s, good, bad) \in Stages
         /\ Asking(s, good, bad).at = "ask" /\ Asking(s, good, bad).call = Call(s, good, bad)
BY DEF Asking, Call, Stages, Calls

LEMMA AnsweringType ==
  ASSUME NEW s \in Steps, NEW good \in HandlerStages, NEW bad \in HandlerStages,
         request[s] \in Occupying \cup {"settled"}
  PROVE  /\ Answering(s, good, bad) \in Stages
         /\ Answering(s, good, bad).at = "settle" /\ Answering(s, good, bad).call = Call(s, good, bad)
BY DEF Answering, Call, Stages, Calls

LEMMA CallType ==
  ASSUME NEW stage \in Stages, stage.at \in {"settle", "ask", "prepare", "apply"}
  PROVE  /\ stage.call \in Calls
         /\ stage.call.step \in Steps /\ stage.call.bad \in HandlerStages \cup {"idle"}
         /\ stage.call.good \in HandlerStages \cup {"idle", "closeJob", "closeLost"}
         /\ stage.at \in {"settle", "prepare"} => stage.seen \in Occupying \cup {"settled"}
         /\ stage.at \in {"prepare", "apply"} => stage.receipt \in Receipt
BY DEF Stages, Calls, HandlerStages

-----------------------------------------------------------------------------
(* The inductive invariant: what a handler's place says of the request and *)
(* the helper it is for.                                                   *)

Unreserved == {"new", "claim", "begin", "quote", "refused"}
HelperAhead == {"assist", "quoteHelper", "refusedHelper", "dispatchHelper", "releaseHelper",
                "sendHelper"}
Settling == {"settle", "ask", "prepare", "apply"}

\* A request is admitted before it is billed, and rests in no other state when it is.
BilledState ==
  \A s \in Steps : reservation[s] # "absent" =>
    request[s] \in {"reserved", "queued", "dispatched", "completing", "unknown", "settled"}

\* Receipts are asked for and jobs are made only for requests with a hold, jobs for videos.
OnlyBilledSettle ==
  /\ \A t \in Threads : at[t].at \in Settling =>
       /\ reservation[at[t].call.step] # "absent"
       /\ at[t].call.good \in {"closeJob", "closeLost"} => at[t].call.step \in Videos
  /\ \A t \in Threads : at[t].at \in {"closeJob", "closeLost"} => reservation[at[t].step] # "absent"
  /\ \A r \in Videos : job[r] # "none" \/ lostJob[r] # "none" => reservation[r] # "absent"

\* A handler settles its request when it was answered, and its helper before its request is sent.
HandlerCall(r) ==
  \/ /\ at[r].call.step = r
     /\ {at[r].call.good, at[r].call.bad} \subseteq {"done", "lose"}
  \/ /\ r \in Seedances /\ at[r].call.step = ChildOf(r) /\ wire[r] = "idle"
     /\ {at[r].call.good, at[r].call.bad} \subseteq {"dispatch", "release"}

HandlerAt(r, place) ==
  /\ place = "claim" => r \in Videos
  /\ place \in Unreserved => reservation[r] = "absent"
  /\ place \notin Unreserved \cup {"done"} => reservation[r] # "absent"
  /\ place = "send" => reservation[r] \in {"held", "committed"}
  /\ place \in Unreserved \cup HelperAhead \cup {"awaitHelper", "dispatch", "send", "release"}
       => wire[r] = "idle"
  /\ place \in Settling => HandlerCall(r)

HelperAt(c, place) ==
  /\ place \in Unreserved \cup {"assist", "quoteHelper", "refusedHelper"}
       => reservation[c] = "absent"
  /\ place \in {"dispatchHelper", "awaitHelper"} => reservation[c] # "absent"
  /\ place = "sendHelper" => reservation[c] \in {"held", "committed"}
  /\ place \in Unreserved \cup HelperAhead => wire[c] = "idle"

HandlerPlace == \A r \in Requests : HandlerAt(r, at[r].at)
HelperPlace == \A r \in Seedances : HelperAt(ChildOf(r), at[r].at)

Inv ==
  /\ TypeOK /\ BilledState /\ OnlyBilledSettle /\ HandlerPlace /\ HelperPlace
  /\ QuotedBooks /\ ClosedTogether /\ ArrivedIsCovered
RequestType == request \in [Steps -> {"absent", "received", "failed", "settled"} \cup Occupying]

MoneyType ==
  /\ reservation \in [Steps -> {"absent", "held", "released", "committed"}]
  /\ charged \in [Steps -> Nat \cup {NoActual}]
  /\ \A s \in Steps : charged[s] # NoActual <=> reservation[s] = "committed"
  /\ posted \in [Steps -> Int]
  /\ receipts \in [Steps -> SUBSET Receipt]
  /\ blocks \subseteq Keys

PlaceType == at \in [Threads -> Stages]

RestType ==
  /\ arrivals \in Seq(Steps)
  /\ gate \in {"paused", "active", "armed"} /\ armings \in 0..MaxArmings
  /\ oneShot \subseteq Videos
  /\ job \in [Videos -> {"none", "held", "settled", "released"}]
  /\ lostJob \in [Videos -> {"none", "held", "settled"}]
  /\ restarts \in 0..MaxRestarts
  /\ wire \in [Steps -> {"idle"} \cup Fate]
  /\ outcome \in [Videos -> {"running", "ended"}]
  /\ published \in [Steps -> SUBSET Receipt]

LEMMA TypeParts == TypeOK <=> RequestType /\ MoneyType /\ PlaceType /\ RestType
BY DEF TypeOK, RequestType, MoneyType, PlaceType, RestType

-----------------------------------------------------------------------------
(* What the store's operations do to the rows of a request.                *)

MoneyInv == RequestType /\ MoneyType /\ BilledState /\ QuotedBooks /\ ClosedTogether

\* The request's state changes, but neither to settled nor from it, and a billed one stays so.
RequestOnly ==
  /\ UNCHANGED moneyVars /\ RequestType'
  /\ \A s \in Steps : request'[s] # request[s] =>
       /\ "settled" \notin {request[s], request'[s]}
       /\ reservation[s] # "absent" => request'[s] \in Occupying \ {"validating"}

LEMMA KeyType == ASSUME NEW s \in Steps PROVE Key(s) \in Keys
<1>1. Parent(s) \in Requests
  BY QuotedIdentities DEF Parent, Steps, Requests, Videos
<1> QED
  BY <1>1, QuotedIdentities DEF Key

LEMMA QuoteType == ASSUME NEW s \in Steps PROVE QuoteOf[s] \in Nat
BY QuotedAmounts

LEMMA RequestOnlyMoney == ASSUME MoneyInv, RequestOnly PROVE MoneyInv'
BY DEF MoneyInv, RequestOnly, RequestType, MoneyType, BilledState, QuotedBooks, ClosedTogether,
   Occupying, moneyVars

LEMMA ReserveMoney ==
  ASSUME MoneyInv, NEW s \in Steps, reservation[s] = "absent", Reserve(s)
  PROVE  MoneyInv'
<1> USE DEF MoneyInv, RequestType, MoneyType
<1>0. posted[s] = 0
  BY DEF QuotedBooks
<1>1. posted'[s] = -QuoteOf[s] /\ posted' \in [Steps -> Int]
  BY <1>0, QuoteType DEF Reserve
<1>2. RequestType' /\ MoneyType'
  BY <1>1 DEF Reserve, Occupying
<1>3. BilledState' /\ ClosedTogether'
  BY DEF Reserve, BilledState, ClosedTogether
<1>4. QuotedBooks'
  BY <1>1 DEF Reserve, QuotedBooks
<1> QED
  BY <1>2, <1>3, <1>4

LEMMA ReleaseMoney ==
  ASSUME MoneyInv, NEW s \in Steps, Release(s)
  PROVE  MoneyInv'
<1> USE DEF MoneyInv, RequestType, MoneyType
<1>1. CASE reservation[s] # "held"
  BY <1>1 DEF Release, moneyVars, BilledState, QuotedBooks, ClosedTogether
<1>2. CASE reservation[s] = "held"
  <2>0. posted[s] = -QuoteOf[s]
    BY <1>2 DEF QuotedBooks
  <2>1. posted'[s] = 0 /\ posted' \in [Steps -> Int]
    BY <1>2, <2>0, QuoteType DEF Release
  <2>2. RequestType' /\ MoneyType'
    BY <1>2, <2>1 DEF Release, Occupying
  <2>3. BilledState' /\ ClosedTogether'
    BY <1>2 DEF Release, BilledState, ClosedTogether
  <2>4. QuotedBooks'
    BY <1>2, <2>1 DEF Release, QuotedBooks
  <2> QED
    BY <2>2, <2>3, <2>4
<1> QED
  BY <1>1, <1>2

LEMMA ReceiptMoney ==
  ASSUME MoneyInv, NEW s \in Steps, NEW rc \in Receipt, ApplyReceipt(s, rc)
  PROVE  MoneyInv'
<1> USE DEF MoneyInv, RequestType, MoneyType
<1>0. rc.actual \in Nat
  BY DEF Receipt
<1>1. receipts' \in [Steps -> SUBSET Receipt] /\ blocks' \subseteq Keys
  BY KeyType DEF ApplyReceipt, Commit
<1>2. CASE ~Settles(s, rc)
  BY <1>1, <1>2 DEF ApplyReceipt, BilledState, QuotedBooks, ClosedTogether
<1>3. CASE Settles(s, rc)
  <2>0. posted[s] = -QuoteOf[s]
    BY <1>3 DEF Settles, QuotedBooks
  <2>1. posted'[s] = -rc.actual /\ posted' \in [Steps -> Int]
    BY <1>0, <1>3, <2>0, QuoteType DEF ApplyReceipt, Commit
  <2>2. RequestType' /\ MoneyType'
    BY <1>0, <1>1, <1>3, <2>1, QuotedAmounts DEF ApplyReceipt, Commit, Occupying
  <2>3. BilledState' /\ ClosedTogether'
    BY <1>3 DEF ApplyReceipt, Commit, BilledState, ClosedTogether
  <2>4. QuotedBooks'
    BY <1>3, <2>1 DEF ApplyReceipt, Commit, QuotedBooks
  <2> QED
    BY <2>2, <2>3, <2>4
<1> QED
  BY <1>2, <1>3

-----------------------------------------------------------------------------
(* Every step is one of these, or touches neither a request nor money.     *)

MoneyStep ==
  \/ RequestOnly
  \/ \E s \in Steps : reservation[s] = "absent" /\ Reserve(s)
  \/ \E s \in Steps : Release(s)
  \/ \E s \in Steps, rc \in Receipt : ApplyReceipt(s, rc)

LEMMA SameRequest == ASSUME Inv, UNCHANGED <<request, moneyVars>> PROVE MoneyStep
BY TypeParts DEF Inv, MoneyStep, RequestOnly, RequestType

LEMMA MarkUnknownStep ==
  ASSUME Inv, NEW s \in Steps, MarkUnknown(s), UNCHANGED moneyVars
  PROVE  MoneyStep
BY TypeParts DEF Inv, MarkUnknown, MoneyStep, RequestOnly, RequestType, Occupying

LEMMA ForwardStep ==
  ASSUME Inv, NEW s \in Steps, NEW seen, ~Raced(s, seen), Forward(s, seen), UNCHANGED moneyVars
  PROVE  MoneyStep
BY TypeParts DEF Inv, Forward, Raced, Sendable, MoneyStep, RequestOnly, RequestType, Occupying

LEMMA HandlerMoney == ASSUME Inv, NEW r \in Requests, Handler(r) PROVE MoneyStep
<1> USE DEF Requests, Steps
<1> r \in Steps
  OBVIOUS
<1> r \notin Children
  BY QuotedIdentities
<1>0. RequestType /\ reservation \in [Steps -> {"absent", "held", "released", "committed"}]
  BY TypeParts DEF Inv, MoneyType
<1>1. CASE In(r, "new") \/ In(r, "begin") \/ In(r, "quote") \/ In(r, "refused")
  <2>1. reservation[r] = "absent" /\ request[r] # "settled"
    BY <1>1 DEF Inv, In, HandlerPlace, HandlerAt, Unreserved, ClosedTogether
  <2>2. CASE Begin(r) \/ Refuse(r)
    BY <1>0, <2>1, <2>2 DEF Begin, Refuse, MoneyStep, RequestOnly, RequestType, Occupying
  <2>3. CASE QuoteOwn(r)
    BY <2>1, <2>3 DEF QuoteOwn, MoneyStep
  <2> QED
    BY <1>1, <2>2, <2>3, SameRequest
       DEF Handler, In, EnterGate, Claim, Abandon, ReleaseOwn, DispatchOwn, SendOwn, ChatAnswers,
           VideoAnswers, VideoRefused, InsertJob
<1>2. CASE EnterGate(r) \/ Claim(r) \/ Abandon(r) \/ SendOwn(r) \/ InsertJob(r)
  BY <1>2, SameRequest DEF EnterGate, Claim, Abandon, SendOwn, InsertJob
<1>3. CASE ReleaseOwn(r)
  BY <1>3 DEF ReleaseOwn, MoneyStep
<1>4. CASE DispatchOwn(r)
  BY <1>0, <1>4 DEF DispatchOwn, Sendable, MoneyStep, RequestOnly, RequestType, Occupying
<1>5. CASE ChatAnswers(r) \/ VideoAnswers(r)
  BY <1>5, SameRequest, MarkUnknownStep DEF ChatAnswers, VideoAnswers
<1>6. CASE VideoRefused(r)
  BY <1>6, MarkUnknownStep DEF VideoRefused, MoneyStep
<1> QED
  BY <1>1, <1>2, <1>3, <1>4, <1>5, <1>6 DEF Handler, Begin, Refuse, QuoteOwn, In

LEMMA HelperMoney == ASSUME Inv, NEW r \in Seedances, Helper(r) PROVE MoneyStep
<1> DEFINE c == ChildOf(r)
<1>0. c \in Steps /\ RequestType
      /\ reservation \in [Steps -> {"absent", "held", "released", "committed"}]
  BY ChildType, TypeParts DEF Inv, MoneyType, Steps
<1> HIDE DEF c
<1>1. CASE CreateHelper(r) \/ QuoteHelper(r) \/ RefuseHelper(r)
  <2>1. reservation[c] = "absent" /\ request[c] # "settled"
    BY <1>0, <1>1 DEF Inv, In, HelperPlace, HelperAt, ClosedTogether, CreateHelper, QuoteHelper, RefuseHelper, c
  <2>2. CASE CreateHelper(r) \/ RefuseHelper(r)
    BY <1>0, <2>1, <2>2 DEF CreateHelper, RefuseHelper, MoneyStep, RequestOnly, RequestType,
       Occupying, c
  <2> QED
    BY <1>0, <1>1, <2>1, <2>2 DEF QuoteHelper, MoneyStep, c
<1>2. CASE ReleaseHelper(r)
  BY <1>0, <1>2 DEF ReleaseHelper, MoneyStep, c
<1>3. CASE DispatchHelper(r)
  BY <1>0, <1>3 DEF DispatchHelper, Sendable, MoneyStep, RequestOnly, RequestType, Occupying, c
<1>4. CASE SendHelper(r) \/ HelperAnswers(r)
  BY <1>0, <1>4, SameRequest, MarkUnknownStep DEF SendHelper, HelperAnswers, c
<1> QED
  BY <1>1, <1>2, <1>3, <1>4 DEF Helper

LEMMA SettlementMoney == ASSUME Inv, NEW t \in Threads, Settlement(t) PROVE MoneyStep
<1>0. at[t].at \in Settling /\ at[t].call.step \in Steps
      /\ (at[t].at = "apply" => at[t].receipt \in Receipt)
  BY CallType, TypeParts DEF Inv, PlaceType, Settlement, Settle, Ask, Prepare, Apply, In, Settling
<1>1. CASE Settle(t) \/ Ask(t) \/ Prepare(t)
  BY <1>0, <1>1, SameRequest, MarkUnknownStep, ForwardStep DEF Settle, Ask, Prepare
<1>2. CASE Apply(t)
  BY <1>0, <1>2 DEF Apply, In, MoneyStep
<1> QED
  BY <1>1, <1>2 DEF Settlement

LEMMA RestartMoney == ASSUME Inv, Restart PROVE MoneyStep
<1>1. \A s \in Steps : request'[s] # request[s] =>
        request[s] \in {"received", "validating"} /\ request'[s] = "failed"
  BY DEF Restart, EndedHelpers, NeverAdmitted
<1>2. RequestType'
  BY TypeParts DEF Inv, Restart, RequestType
<1> QED
  BY <1>1, <1>2 DEF Inv, Restart, MoneyStep, RequestOnly, BilledState

LEMMA NextMoney == ASSUME Inv, Next PROVE MoneyStep
<1>1. ASSUME NEW r \in Videos, NEW t \in Pollers, LostJobPick(t, r) PROVE MoneyStep
  BY <1>1, SameRequest, MarkUnknownStep DEF LostJobPick, Requests, Steps
<1> QED
  BY <1>1, HandlerMoney, HelperMoney, SettlementMoney, RestartMoney, SameRequest
     DEF Next, LanePick, Publish, CloseJob, JobPick, Repeat, Generate, ArmDiagnostic

LEMMA MoneyStepInv == ASSUME Inv, MoneyStep PROVE MoneyInv'
BY TypeParts, RequestOnlyMoney, ReserveMoney, ReleaseMoney, ReceiptMoney
   DEF Inv, MoneyInv, MoneyStep

-----------------------------------------------------------------------------
(* Types of the other rows and of what the threads do.                     *)

LEMMA NextRest == ASSUME Inv, Next PROVE RestType'
<1> USE DEF RestType, Requests, Steps, Videos, gateVars, jobVars, bridgeVars
<1>0. RestType /\ MaxArmings \in Nat /\ MaxRestarts \in Nat
  BY TypeParts, QuotedAmounts DEF Inv
<1>1. ASSUME NEW r \in Requests, Handler(r) PROVE RestType'
  <2>1. arrivals' \in Seq(Steps)
    BY <1>0, <1>1 DEF Handler, EnterGate, Claim, Begin, QuoteOwn, Refuse, Abandon, ReleaseOwn,
       DispatchOwn, SendOwn, ChatAnswers, VideoAnswers, VideoRefused, InsertJob
  <2>2. CASE EnterGate(r)
    BY <1>0, <2>1, <2>2 DEF EnterGate
  <2>6. CASE Claim(r)
    <3>1. r \in Videos
      BY <1>1, <2>6 DEF Inv, HandlerPlace, HandlerAt, Claim, In
    <3>2. gate' \in {"paused", "active", "armed"} /\ oneShot' \subseteq Videos
      BY <1>0, <2>6, <3>1 DEF Claim
    <3> QED
      BY <1>0, <2>1, <2>6, <3>2 DEF Claim
  <2>5. CASE Begin(r) \/ QuoteOwn(r) \/ Refuse(r) \/ Abandon(r)
    BY <1>0, <2>1, <2>5 DEF Begin, QuoteOwn, Refuse, Abandon
  <2>3. CASE SendOwn(r)
    BY <1>0, <2>1, <2>3 DEF SendOwn, SendStep
  <2>4. CASE InsertJob(r)
    BY <1>0, <2>1, <2>4 DEF InsertJob
  <2> QED
    BY <1>0, <1>1, <2>1, <2>2, <2>3, <2>4, <2>5, <2>6 DEF Handler, ReleaseOwn, DispatchOwn, ChatAnswers,
       VideoAnswers, VideoRefused
<1>2. ASSUME NEW r \in Seedances, Helper(r) PROVE RestType'
  <2>0. arrivals' \in {arrivals, Append(arrivals, ChildOf(r))}
    BY <1>2 DEF Helper, CreateHelper, QuoteHelper, RefuseHelper, DispatchHelper, ReleaseHelper,
       SendHelper, HelperAnswers
  <2>1. arrivals' \in Seq(Steps)
    BY <1>0, <2>0, ChildType
  <2>2. CASE SendHelper(r)
    BY <1>0, <2>1, <2>2 DEF SendHelper, SendStep
  <2> QED
    BY <1>0, <1>2, <2>1, <2>2 DEF Helper, CreateHelper, QuoteHelper, RefuseHelper, DispatchHelper,
       ReleaseHelper, HelperAnswers
<1>3. ASSUME NEW t \in Threads, Settlement(t) PROVE RestType'
  BY <1>0, <1>3 DEF Settlement, Settle, Ask, Prepare, Apply
<1>4. ASSUME NEW s \in Steps, LanePick(s) PROVE RestType'
  BY <1>0, <1>4 DEF LanePick
<1>5. ASSUME NEW s \in Steps, Publish(s) PROVE RestType'
  BY <1>0, <1>5, QuotedReceipts DEF Publish
<1>6. ASSUME NEW t \in Pollers, CloseJob(t) PROVE RestType'
  BY <1>0, <1>6 DEF CloseJob
<1>7. ASSUME NEW t \in Pollers, NEW r \in Videos, JobPick(t, r) \/ LostJobPick(t, r)
      PROVE  RestType'
  BY <1>0, <1>7 DEF JobPick, LostJobPick
<1>8. ASSUME NEW c \in Clients, NEW r \in Requests, Repeat(c, r) PROVE RestType'
  BY <1>0, <1>8 DEF Repeat
<1>9. ASSUME NEW r \in Videos, Generate(r) PROVE RestType'
  BY <1>0, <1>9 DEF Generate
<1>10. CASE ArmDiagnostic
  BY <1>0, <1>10 DEF ArmDiagnostic
<1>11. CASE Restart
  BY <1>0, <1>11 DEF Restart
<1> QED
  BY <1>1, <1>2, <1>3, <1>4, <1>5, <1>6, <1>7, <1>8, <1>9, <1>10, <1>11 DEF Next

LEMMA GoType ==
  ASSUME PlaceType, NEW t, NEW name \in HandlerStages \cup {"idle"}, Go(t, name)
  PROVE  PlaceType'
BY StageType DEF Go, PlaceType

LEMMA TurnType ==
  ASSUME PlaceType, NEW t, NEW what \in Stages, Turn(t, what)
  PROVE  PlaceType'
BY DEF Turn, PlaceType

LEMMA HandlerPlaces == ASSUME Inv, NEW r \in Requests, Handler(r) PROVE PlaceType'
<1> USE DEF HandlerStages
<1>0. PlaceType
  BY TypeParts DEF Inv
<1>1. CASE ChatAnswers(r) \/ VideoAnswers(r)
  <2>1. request[r] \in Occupying \cup {"settled"} /\ r \in Steps
    BY <1>1 DEF Inv, HandlerPlace, HandlerAt, BilledState, ChatAnswers, VideoAnswers, In,
       Unreserved, Occupying, Steps
  <2> HIDE DEF HandlerStages
  <2>a. "done" \in HandlerStages /\ "lose" \in HandlerStages
    BY DEF HandlerStages
  <2>b. Answering(r, "done", "done") \in Stages
    BY <2>1, <2>a, AnsweringType
  <2>c. Asking(r, "done", "done") \in Stages /\ Asking(r, "lose", "lose") \in Stages
    BY <2>1, <2>a, AskingType
  <2> QED
    BY <1>0, <1>1, <2>b, <2>c, GoType, TurnType DEF ChatAnswers, VideoAnswers, HandlerStages
<1> QED
  BY <1>0, <1>1, GoType DEF Handler, EnterGate, Claim, Begin, QuoteOwn, Refuse, Abandon, ReleaseOwn,
     DispatchOwn, SendOwn, VideoRefused, InsertJob

LEMMA HelperPlaces == ASSUME Inv, NEW r \in Seedances, Helper(r) PROVE PlaceType'
<1> USE DEF HandlerStages
<1> DEFINE c == ChildOf(r)
<1>0. PlaceType /\ c \in Steps
  BY TypeParts, ChildType DEF Inv, Steps
<1> HIDE DEF c
<1>1. CASE HelperAnswers(r)
  <2>1. request[c] \in Occupying \cup {"settled"}
    BY <1>0, <1>1 DEF Inv, HelperPlace, HelperAt, BilledState, HelperAnswers, In, Occupying, c
  <2> HIDE DEF HandlerStages
  <2>a. "dispatch" \in HandlerStages /\ "release" \in HandlerStages
    BY DEF HandlerStages
  <2>b. Answering(c, "dispatch", "release") \in Stages /\ Answering(c, "release", "release") \in Stages
    BY <1>0, <2>1, <2>a, AnsweringType
  <2>c. Asking(c, "release", "release") \in Stages
    BY <1>0, <2>a, AskingType
  <2> QED
    BY <1>0, <1>1, <2>b, <2>c, TurnType DEF HelperAnswers, c
<1> QED
  BY <1>0, <1>1, GoType DEF Helper, CreateHelper, QuoteHelper, RefuseHelper, DispatchHelper,
     ReleaseHelper, SendHelper

LEMMA SettlementPlaces == ASSUME Inv, NEW t \in Threads, Settlement(t) PROVE PlaceType'
<1> DEFINE call == at[t].call
<1>0. PlaceType /\ at[t] \in Stages
  BY TypeParts DEF Inv, PlaceType
<1>1. /\ at[t].at \in Settling
      /\ call \in Calls /\ call.step \in Steps /\ call.bad \in HandlerStages \cup {"idle"}
      /\ call.good \in HandlerStages \cup {"idle", "closeJob", "closeLost"}
      /\ at[t].at \in {"prepare", "apply"} => at[t].receipt \in Receipt
  BY <1>0, CallType DEF Settlement, Settle, Ask, Prepare, Apply, In, Settling
<1>2. request[call.step] \in Occupying \cup {"settled"}
  BY <1>1 DEF Inv, OnlyBilledSettle, BilledState, Occupying
<1>3. CASE Settle(t)
  <2>1. [at |-> "ask", call |-> call] \in Stages
    BY <1>1 DEF Stages
  <2> QED
    BY <1>0, <1>1, <1>3, <2>1, GoType, TurnType DEF Settle
<1>4. CASE Ask(t)
  <2>1. ASSUME NEW rc \in published[call.step]
        PROVE  [at |-> "prepare", call |-> call, receipt |-> rc, seen |-> request[call.step]] \in Stages
    <3>1. rc \in Receipt
      BY <1>1, <2>1, TypeParts DEF Inv, RestType
    <3> QED
      BY <1>1, <1>2, <3>1 DEF Stages
  <2> QED
    BY <1>0, <1>1, <1>4, <2>1, GoType, TurnType DEF Ask
<1>5. CASE Prepare(t)
  <2>1. [at |-> "apply", call |-> call, receipt |-> at[t].receipt] \in Stages
    BY <1>1, <1>5 DEF Prepare, In, Stages
  <2> QED
    BY <1>0, <1>1, <1>5, <2>1, GoType, TurnType DEF Prepare
<1>6. CASE Apply(t)
  <2> DEFINE rc == at[t].receipt
  <2>1. call.good \in {"closeJob", "closeLost"} => call.step \in Videos
    BY <1>1 DEF Inv, OnlyBilledSettle
  <2>2. Onward(call, rc) \in Stages
    BY <1>1, <1>6, <2>1, StageType DEF Apply, In, Onward, Stages
  <2>3. Stage(call.bad) \in Stages
    BY <1>1, StageType
  <2> QED
    BY <1>0, <1>6, <2>2, <2>3, TurnType DEF Apply
<1> QED
  BY <1>3, <1>4, <1>5, <1>6 DEF Settlement

LEMMA NextPlaces == ASSUME Inv, Next PROVE PlaceType'
<1>0. PlaceType
  BY TypeParts DEF Inv
<1>a. "done" \in HandlerStages
  BY DEF HandlerStages
<1>1. ASSUME NEW s \in Steps, LanePick(s) PROVE PlaceType'
  BY <1>0, <1>1, TurnType, AskingType DEF LanePick
<1>2. ASSUME NEW t \in Pollers, NEW r \in Videos, JobPick(t, r) \/ LostJobPick(t, r)
      PROVE  PlaceType'
  <2>1. Asking(r, "closeJob", "idle") \in Stages /\ Asking(r, "closeLost", "idle") \in Stages
    BY AskingType DEF Steps, Requests
  <2> QED
    BY <1>0, <1>2, <2>1, TurnType DEF JobPick, LostJobPick, PlaceType
<1>3. ASSUME NEW t \in Pollers, CloseJob(t) PROVE PlaceType'
  BY <1>0, <1>3, GoType DEF CloseJob
<1>4. ASSUME NEW c \in Clients, NEW r \in Requests, Repeat(c, r) PROVE PlaceType'
  <2>1. Asking(r, "done", "done") \in Stages
    BY <1>a, AskingType DEF Steps
  <2> QED
    BY <1>0, <1>4, <2>1, TurnType DEF Repeat
<1>5. CASE Restart
  <2>1. Stage("idle") \in Stages /\ Stage("done") \in Stages
    BY <1>a, StageType
  <2> QED
    BY <1>0, <1>5, <2>1 DEF Restart, PlaceType
<1>6. CASE UNCHANGED at
  BY <1>0, <1>6 DEF PlaceType
<1> QED
  BY <1>1, <1>2, <1>3, <1>4, <1>5, <1>6, HandlerPlaces, HelperPlaces, SettlementPlaces
     DEF Next, Publish, Generate, ArmDiagnostic

LEMMA NextType == ASSUME Inv, Next PROVE TypeOK'
<1>1. RequestType' /\ MoneyType'
  BY NextMoney, MoneyStepInv DEF MoneyInv
<1> QED
  BY <1>1, NextPlaces, NextRest DEF TypeOK, RequestType, MoneyType, PlaceType, RestType

-----------------------------------------------------------------------------
(* What one thread does to the rows of a request another thread handles.   *)

\* A hold may be settled by any thread.
Undisturbed(s) ==
  /\ wire'[s] = wire[s]
  /\ reservation'[s] = reservation[s] \/ (reservation[s] = "held" /\ reservation'[s] = "committed")

LEMMA ReceiptRows ==
  ASSUME MoneyType, NEW s \in Steps, NEW q \in Steps, NEW rc, ApplyReceipt(q, rc), UNCHANGED wire
  PROVE  Undisturbed(s)
BY DEF MoneyType, ApplyReceipt, Commit, Settles, Undisturbed

LEMMA ReleaseRows ==
  ASSUME MoneyType, NEW s \in Steps, NEW q \in Steps, s # q, Release(q), UNCHANGED wire
  PROVE  Undisturbed(s)
BY DEF MoneyType, Release, moneyVars, Undisturbed

LEMMA ReserveRows ==
  ASSUME MoneyType, NEW s \in Steps, NEW q \in Steps, s # q, Reserve(q), UNCHANGED wire
  PROVE  Undisturbed(s)
BY DEF MoneyType, Reserve, Undisturbed

LEMMA SameRows == ASSUME NEW s, UNCHANGED <<moneyVars, wire>> PROVE Undisturbed(s)
BY DEF moneyVars, Undisturbed

LEMMA SettlementRows ==
  ASSUME Inv, NEW t \in Threads, NEW s \in Steps, Settlement(t)
  PROVE  Undisturbed(s)
<1>0. MoneyType /\ (In(t, "apply") => at[t].call.step \in Steps)
  BY CallType, TypeParts DEF Inv, PlaceType, In
<1>1. CASE Apply(t)
  BY <1>0, <1>1, ReceiptRows DEF Apply, bridgeVars
<1> QED
  BY <1>1, SameRows DEF Settlement, Settle, Ask, Prepare, bridgeVars

LEMMA HandlerRows ==
  ASSUME Inv, NEW r \in Requests, NEW s \in Steps, s # r, Handler(r)
  PROVE  Undisturbed(s)
<1>0. MoneyType /\ wire \in [Steps -> {"idle"} \cup Fate] /\ r \in Steps
  BY TypeParts DEF Inv, RestType, Steps
<1>1. CASE QuoteOwn(r)
  BY <1>0, <1>1, ReserveRows DEF QuoteOwn, bridgeVars
<1>2. CASE ReleaseOwn(r)
  BY <1>0, <1>2, ReleaseRows DEF ReleaseOwn, bridgeVars
<1>3. CASE VideoRefused(r)
  BY <1>0, <1>3, ReleaseRows, SameRows DEF VideoRefused, bridgeVars
<1>4. CASE SendOwn(r)
  BY <1>0, <1>4 DEF SendOwn, SendStep, moneyVars, Undisturbed
<1> QED
  BY <1>1, <1>2, <1>3, <1>4, SameRows
     DEF Handler, EnterGate, Claim, Begin, Refuse, Abandon, DispatchOwn, ChatAnswers, VideoAnswers,
         InsertJob, bridgeVars

LEMMA HelperRows ==
  ASSUME Inv, NEW r \in Seedances, NEW s \in Steps, s # ChildOf(r), Helper(r)
  PROVE  Undisturbed(s)
<1>0. MoneyType /\ wire \in [Steps -> {"idle"} \cup Fate] /\ ChildOf(r) \in Steps
  BY TypeParts, ChildType DEF Inv, RestType, Steps
<1>1. CASE QuoteHelper(r)
  BY <1>0, <1>1, ReserveRows DEF QuoteHelper, bridgeVars
<1>2. CASE ReleaseHelper(r)
  BY <1>0, <1>2, ReleaseRows DEF ReleaseHelper, bridgeVars
<1>3. CASE SendHelper(r)
  BY <1>0, <1>3 DEF SendHelper, SendStep, moneyVars, Undisturbed
<1> QED
  BY <1>1, <1>2, <1>3, SameRows
     DEF Helper, CreateHelper, RefuseHelper, DispatchHelper, HelperAnswers, bridgeVars

\* A step is the request's own, its helper's, or leaves its row alone.
LEMMA OthersRows ==
  ASSUME Inv, Next, NEW s \in Steps
  PROVE  \/ Undisturbed(s)
         \/ s \in Requests /\ Handler(s)
         \/ \E r \in Seedances : s = ChildOf(r) /\ Helper(r)
BY HandlerRows, HelperRows, SettlementRows, SameRows
   DEF Next, LanePick, Publish, CloseJob, JobPick, LostJobPick, Repeat, Generate, ArmDiagnostic,
       Restart, bridgeVars

-----------------------------------------------------------------------------
(* What is asked about has a hold, then and later.                         *)

LEMMA HoldStays ==
  ASSUME Inv, Next, NEW s \in Steps, reservation[s] # "absent"
  PROVE  reservation'[s] # "absent"
<1>0. MoneyType
  BY TypeParts DEF Inv
<1> QED
  BY <1>0, NextMoney DEF MoneyStep, RequestOnly, Reserve, Release, ApplyReceipt, Commit, moneyVars,
     MoneyType

Billed(stage) ==
  /\ stage.at \in Settling =>
       /\ reservation[stage.call.step] # "absent"
       /\ stage.call.good \in {"closeJob", "closeLost"} => stage.call.step \in Videos
  /\ stage.at \in {"closeJob", "closeLost"} => reservation[stage.step] # "absent"

LEMMA BilledNow == ASSUME Inv, NEW t \in Threads PROVE Billed(at[t])
BY DEF Inv, OnlyBilledSettle, Billed

LEMMA TurnBilled ==
  ASSUME Inv, NEW t, NEW what, Billed(what), Turn(t, what), NEW u \in Threads
  PROVE  Billed(at'[u])
<1>1. at'[u] \in {at[u], what}
  BY TypeParts DEF Turn, Inv, PlaceType
<1> QED
  BY <1>1, BilledNow

LEMMA GoBilled ==
  ASSUME Inv, NEW t, NEW name \in HandlerStages \cup {"idle"}, Go(t, name), NEW u \in Threads
  PROVE  Billed(at'[u])
<1>1. at'[u] \in {at[u], Stage(name)} /\ Stage(name).at = name
  BY TypeParts, StageType DEF Go, Inv, PlaceType
<1>2. Billed(Stage(name))
  BY <1>1 DEF Billed, Settling, HandlerStages
<1> QED
  BY <1>1, <1>2, BilledNow

LEMMA AskingBilled ==
  ASSUME NEW s, reservation[s] # "absent", NEW good, NEW bad,
         good \in {"closeJob", "closeLost"} => s \in Videos
  PROVE  Billed(Asking(s, good, bad)) /\ Billed(Answering(s, good, bad))
BY DEF Billed, Asking, Answering, Call, Settling

LEMMA SettlementBilled ==
  ASSUME Inv, NEW t \in Threads, Settlement(t), NEW u \in Threads
  PROVE  Billed(at'[u])
<1> DEFINE call == at[t].call
<1>0. /\ at[t].at \in Settling /\ at[t] \in Stages
      /\ call.bad \in HandlerStages \cup {"idle"}
      /\ call.good \in HandlerStages \cup {"idle", "closeJob", "closeLost"}
  BY CallType, TypeParts DEF Inv, PlaceType, Settlement, Settle, Ask, Prepare, Apply, In, Settling
<1>1. /\ reservation[call.step] # "absent"
      /\ call.good \in {"closeJob", "closeLost"} => call.step \in Videos
  BY <1>0, BilledNow DEF Billed
<1>2. CASE Settle(t)
  <2>1. Billed([at |-> "ask", call |-> call])
    BY <1>1 DEF Billed, Settling
  <2> QED
    BY <1>0, <1>2, <2>1, TurnBilled, GoBilled DEF Settle
<1>3. CASE Ask(t)
  <2>1. \A rc, seen : Billed([at |-> "prepare", call |-> call, receipt |-> rc, seen |-> seen])
    BY <1>1 DEF Billed, Settling
  <2> QED
    BY <1>0, <1>3, <2>1, TurnBilled, GoBilled DEF Ask
<1>4. CASE Prepare(t)
  <2>1. Billed([at |-> "apply", call |-> call, receipt |-> at[t].receipt])
    BY <1>1 DEF Billed, Settling
  <2> QED
    BY <1>0, <1>4, <2>1, TurnBilled, GoBilled DEF Prepare
<1>5. CASE Apply(t)
  <2>1. \A name \in HandlerStages \cup {"idle"} : Billed(Stage(name))
    BY DEF Billed, Stage, Settling, HandlerStages
  <2>2. Billed(Onward(call, at[t].receipt)) /\ Billed(Stage(call.bad))
    BY <1>0, <1>1, <2>1 DEF Billed, Onward, Settling
  <2> QED
    BY <1>5, <2>2, TurnBilled DEF Apply
<1> QED
  BY <1>2, <1>3, <1>4, <1>5 DEF Settlement

LEMMA NextBilled == ASSUME Inv, Next, NEW u \in Threads PROVE Billed(at'[u])
<1>a. {"new", "claim", "begin", "quote", "refused", "assist", "quoteHelper",
        "refusedHelper", "dispatchHelper", "releaseHelper", "sendHelper", "awaitHelper",
        "dispatch", "send", "await", "accept", "lose", "release", "done"} \subseteq HandlerStages
  BY DEF HandlerStages
<1>1. ASSUME NEW r \in Requests, Handler(r) PROVE Billed(at'[u])
  <2>1. CASE ChatAnswers(r) \/ VideoAnswers(r)
    <3>1. reservation[r] # "absent"
      BY <2>1 DEF Inv, HandlerPlace, HandlerAt, ChatAnswers, VideoAnswers, In, Unreserved
    <3> QED
      BY <1>a, <2>1, <3>1, AskingBilled, TurnBilled, GoBilled DEF ChatAnswers, VideoAnswers
  <2> QED
    BY <1>a, <1>1, <2>1, GoBilled DEF Handler, EnterGate, Claim, Begin, QuoteOwn, Refuse, Abandon,
       ReleaseOwn, DispatchOwn, SendOwn, VideoRefused, InsertJob
<1>2. ASSUME NEW r \in Seedances, Helper(r) PROVE Billed(at'[u])
  <2>1. CASE HelperAnswers(r)
    <3>1. reservation[ChildOf(r)] # "absent"
      BY <2>1 DEF Inv, HelperPlace, HelperAt, HelperAnswers, In
    <3> QED
      BY <2>1, <3>1, AskingBilled, TurnBilled DEF HelperAnswers
  <2> QED
    BY <1>a, <1>2, <2>1, GoBilled DEF Helper, CreateHelper, QuoteHelper, RefuseHelper,
       DispatchHelper, ReleaseHelper, SendHelper
<1>3. ASSUME NEW s \in Steps, LanePick(s) PROVE Billed(at'[u])
  BY <1>3, AskingBilled, TurnBilled DEF LanePick, Unsettled
<1>4. ASSUME NEW t \in Pollers, NEW r \in Videos, JobPick(t, r) \/ LostJobPick(t, r)
      PROVE  Billed(at'[u])
  <2>1. reservation[r] # "absent"
    BY <1>4 DEF Inv, OnlyBilledSettle, JobPick, LostJobPick
  <2> QED
    BY <1>4, <2>1, AskingBilled, TurnBilled, BilledNow DEF JobPick, LostJobPick
<1>5. ASSUME NEW t \in Pollers, CloseJob(t) PROVE Billed(at'[u])
  BY <1>5, GoBilled DEF CloseJob
<1>6. ASSUME NEW c \in Clients, NEW r \in Requests, Repeat(c, r) PROVE Billed(at'[u])
  BY <1>6, AskingBilled, TurnBilled DEF Repeat
<1>7. CASE Restart
  <2>1. \A name \in HandlerStages \cup {"idle"} : Billed(Stage(name))
    BY DEF Billed, Stage, Settling, HandlerStages
  <2>2. at'[u] \in {at[u], Stage("idle"), Stage("done")}
    BY <1>7 DEF Restart
  <2> QED
    BY <1>a, <2>1, <2>2, BilledNow
<1>8. CASE UNCHANGED at
  BY <1>8, BilledNow
<1> QED
  BY <1>1, <1>2, <1>3, <1>4, <1>5, <1>6, <1>7, <1>8, SettlementBilled
     DEF Next, Publish, Generate, ArmDiagnostic

LEMMA NextJobs ==
  ASSUME Inv, Next, NEW r \in Videos, job'[r] # "none" \/ lostJob'[r] # "none"
  PROVE  reservation[r] # "absent"
<1>0. /\ job \in [Videos -> {"none", "held", "settled", "released"}]
      /\ lostJob \in [Videos -> {"none", "held", "settled"}]
  BY TypeParts DEF Inv, RestType
<1>1. CASE UNCHANGED jobVars
  BY <1>1 DEF Inv, OnlyBilledSettle, jobVars
<1>2. ASSUME NEW q \in Requests, InsertJob(q) PROVE reservation[r] # "absent"
  <2>1. reservation[q] # "absent"
    BY <1>2 DEF Inv, HandlerPlace, HandlerAt, InsertJob, In, Unreserved
  <2> QED
    BY <1>0, <1>2, <2>1 DEF Inv, OnlyBilledSettle, InsertJob
<1>3. ASSUME NEW t \in Pollers, CloseJob(t) PROVE reservation[r] # "absent"
  <2>1. reservation[at[t].step] # "absent"
    BY <1>3, BilledNow DEF Billed, CloseJob, In, Threads
  <2> QED
    BY <1>0, <1>3, <2>1 DEF Inv, OnlyBilledSettle, CloseJob
<1> QED
  BY <1>1, <1>2, <1>3 DEF Next, Handler, EnterGate, Claim, Begin, QuoteOwn, Refuse, Abandon,
     ReleaseOwn, DispatchOwn, SendOwn, ChatAnswers, VideoAnswers, VideoRefused, Helper,
     CreateHelper, QuoteHelper, RefuseHelper, DispatchHelper, ReleaseHelper, SendHelper,
     HelperAnswers, Settlement, Settle, Ask, Prepare, Apply, LanePick, Publish, JobPick,
     LostJobPick, Repeat, Generate, ArmDiagnostic, Restart

LEMMA NextSettle == ASSUME Inv, Next PROVE OnlyBilledSettle'
<1>1. ASSUME NEW t \in Threads
      PROVE  /\ at'[t].at \in Settling => at'[t].call.step \in Steps
             /\ at'[t].at \in {"closeJob", "closeLost"} => at'[t].step \in Steps
  BY NextPlaces, CallType DEF PlaceType, Settling, Stages, HandlerStages, Steps, Requests
<1>2. \A t \in Threads : Billed(at'[t])
  BY NextBilled
<1>3. \A s \in Steps : reservation[s] # "absent" => reservation'[s] # "absent"
  BY HoldStays
<1>4. \A r \in Videos : job'[r] # "none" \/ lostJob'[r] # "none" => reservation'[r] # "absent"
  BY <1>3, NextJobs DEF Steps, Requests
<1> QED
  BY <1>1, <1>2, <1>3, <1>4 DEF Billed, OnlyBilledSettle

-----------------------------------------------------------------------------
(* A handler's place says what became of its request and of its helper.    *)

LEMMA AnotherThread ==
  ASSUME Inv, Next, NEW r \in Requests
  PROVE  \/ at'[r] = at[r]
         \/ Handler(r) \/ (r \in Seedances /\ Helper(r)) \/ Settlement(r) \/ Restart
<1>0. at \in [Threads -> Stages] /\ r \in Threads
  BY TypeParts DEF Inv, PlaceType, Threads
<1>1. ASSUME NEW t \in Threads, t # r, NEW what, Turn(t, what) PROVE at'[r] = at[r]
  BY <1>0, <1>1 DEF Turn
<1>2. ASSUME NEW t \in Threads, t # r, NEW name, Go(t, name) PROVE at'[r] = at[r]
  BY <1>0, <1>2 DEF Go
<1>3. ASSUME NEW q \in Requests, Handler(q), q # r PROVE at'[r] = at[r]
  BY <1>1, <1>2, <1>3 DEF Threads, Handler, EnterGate, Claim, Begin, QuoteOwn, Refuse, Abandon,
     ReleaseOwn, DispatchOwn, SendOwn, ChatAnswers, VideoAnswers, VideoRefused, InsertJob
<1>4. ASSUME NEW q \in Seedances, Helper(q), q # r PROVE at'[r] = at[r]
  BY <1>1, <1>2, <1>4 DEF Threads, Requests, Videos, Helper, CreateHelper, QuoteHelper,
     RefuseHelper, DispatchHelper, ReleaseHelper, SendHelper, HelperAnswers
<1>5. ASSUME NEW t \in Threads, Settlement(t), t # r PROVE at'[r] = at[r]
  BY <1>1, <1>2, <1>5 DEF Settlement, Settle, Ask, Prepare, Apply
<1>6. \A t \in Pollers : t \in Threads /\ t # r
  BY QuotedIdentities DEF Pollers, Reconciler, Threads
<1>7. Reconciler \in Pollers /\ Clients \subseteq Pollers
  BY DEF Pollers
<1> QED
  BY <1>1, <1>2, <1>3, <1>4, <1>5, <1>6, <1>7 DEF Next, LanePick, Publish, CloseJob, JobPick,
     LostJobPick, Repeat, Generate, ArmDiagnostic

LEMMA GoAt ==
  ASSUME Inv, NEW r \in Requests, NEW name \in HandlerStages \cup {"idle"}, Go(r, name)
  PROVE  at'[r].at = name
BY TypeParts, StageType DEF Inv, PlaceType, Threads, Go

LEMMA TurnAt ==
  ASSUME Inv, NEW r \in Requests, NEW what, Turn(r, what)
  PROVE  at'[r] = what
BY TypeParts DEF Inv, PlaceType, Threads, Turn

LEMMA HandlerRests ==
  ASSUME Inv, NEW r \in Requests, at'[r] = at[r], Undisturbed(r)
  PROVE  HandlerAt(r, at[r].at)'
BY DEF Inv, HandlerPlace, HandlerAt, HandlerCall, Undisturbed

LEMMA HelperRests ==
  ASSUME Inv, NEW r \in Seedances, at'[r] = at[r], Undisturbed(ChildOf(r))
  PROVE  HelperAt(ChildOf(r), at[r].at)'
BY DEF Inv, HelperPlace, HelperAt, ChildOf, Undisturbed

LEMMA OwnHandler ==
  ASSUME Inv, NEW r \in Requests, Handler(r)
  PROVE  HandlerAt(r, at[r].at)'
<1> USE DEF HandlerAt, HandlerCall, Unreserved, HelperAhead, Settling, In
<1>0. /\ HandlerAt(r, at[r].at) /\ r \in Steps /\ RequestType /\ MoneyType
      /\ wire \in [Steps -> {"idle"} \cup Fate]
  BY TypeParts DEF Inv, HandlerPlace, RestType, Steps
<1>a. \A name \in HandlerStages : Go(r, name) => at'[r].at = name
  BY GoAt
<1>b. {"new", "claim", "begin", "quote", "refused", "assist", "dispatch", "send", "await",
       "accept", "lose", "release", "done"} \subseteq HandlerStages
  BY DEF HandlerStages
<1>1. CASE EnterGate(r)
  BY <1>0, <1>1, <1>a, <1>b DEF EnterGate, moneyVars, bridgeVars
<1>2. CASE Claim(r)
  BY <1>0, <1>2, <1>a, <1>b DEF Claim, moneyVars, bridgeVars
<1>3. CASE Begin(r)
  BY <1>0, <1>3, <1>a, <1>b DEF Begin, moneyVars, bridgeVars
<1>4. CASE QuoteOwn(r)
  <2>1. reservation'[r] = "held" /\ wire'[r] = "idle"
    BY <1>0, <1>4 DEF QuoteOwn, Reserve, MoneyType, bridgeVars
  <2>2. at'[r].at \in {"assist", "dispatch"}
    BY <1>4, <1>a, <1>b DEF QuoteOwn
  <2> QED
    BY <2>1, <2>2
<1>5. CASE Refuse(r)
  BY <1>0, <1>5, <1>a, <1>b DEF Refuse, moneyVars, bridgeVars
<1>6. CASE Abandon(r)
  BY <1>0, <1>6, <1>a, <1>b DEF Abandon, moneyVars, bridgeVars
<1>7. CASE ReleaseOwn(r)
  BY <1>7, <1>a, <1>b DEF ReleaseOwn
<1>8. CASE DispatchOwn(r)
  <2>1. reservation'[r] = reservation[r] /\ wire'[r] = wire[r] /\ at[r].at = "dispatch"
    BY <1>8 DEF DispatchOwn, moneyVars, bridgeVars
  <2>2. CASE request[r] \in Sendable
    <3>1. reservation[r] \in {"held", "committed"}
      BY <1>0, <2>1, <2>2 DEF Inv, ClosedTogether, Sendable, MoneyType
    <3> QED
      BY <1>0, <1>8, <2>1, <2>2, <3>1, <1>a, <1>b DEF DispatchOwn
  <2>3. CASE request[r] \notin Sendable
    BY <1>0, <1>8, <2>1, <2>3, <1>a, <1>b DEF DispatchOwn
  <2> QED
    BY <2>2, <2>3
<1>9. CASE SendOwn(r)
  BY <1>0, <1>9, <1>a, <1>b DEF SendOwn, moneyVars
<1>10. CASE ChatAnswers(r) \/ VideoAnswers(r)
  <2>1. reservation'[r] = reservation[r] /\ wire'[r] = wire[r] /\ reservation[r] # "absent"
    BY <1>0, <1>10 DEF ChatAnswers, VideoAnswers, moneyVars, bridgeVars
  <2>2. \/ at'[r].at \in {"done", "accept"}
        \/ \E name \in {"done", "lose"} :
             at'[r] \in {Asking(r, name, name), Answering(r, name, name)}
    BY <1>10, <1>a, <1>b, TurnAt DEF ChatAnswers, VideoAnswers
  <2>3. CASE at'[r].at \in {"done", "accept"}
    BY <2>1, <2>3
  <2>4. ASSUME NEW name \in {"done", "lose"},
               at'[r] \in {Asking(r, name, name), Answering(r, name, name)}
        PROVE  HandlerAt(r, at[r].at)'
    <3>1. at'[r].at \in {"ask", "settle"} /\ at'[r].call = Call(r, name, name)
      BY <2>4 DEF Asking, Answering
    <3>2. at'[r].call.step = r /\ {at'[r].call.good, at'[r].call.bad} \subseteq {"done", "lose"}
      BY <3>1 DEF Call
    <3> QED
      BY <2>1, <3>1, <3>2
  <2> QED
    BY <2>2, <2>3, <2>4
<1>11. CASE VideoRefused(r)
  BY <1>11, <1>a, <1>b DEF VideoRefused
<1>12. CASE InsertJob(r)
  BY <1>12, <1>a, <1>b DEF InsertJob
<1> QED
  BY <1>1, <1>2, <1>3, <1>4, <1>5, <1>6, <1>7, <1>8, <1>9, <1>10, <1>11, <1>12 DEF Handler

LEMMA OwnHelper ==
  ASSUME Inv, NEW r \in Seedances, Helper(r)
  PROVE  HandlerAt(r, at[r].at)' /\ HelperAt(ChildOf(r), at[r].at)'
<1> DEFINE c == ChildOf(r)
<1>r. r \in Requests /\ r \in Steps /\ c \in Steps /\ r # c /\ c' = c
  BY ChildType, QuotedIdentities DEF Requests, Videos, Steps, ChildOf
<1>0. /\ HandlerAt(r, at[r].at) /\ HelperAt(c, at[r].at) /\ RequestType /\ MoneyType
      /\ wire \in [Steps -> {"idle"} \cup Fate]
  BY <1>r, TypeParts DEF Inv, HandlerPlace, HelperPlace, RestType
<1> HIDE DEF c
<1>u. Undisturbed(r)
  BY <1>r, HelperRows DEF c
<1> USE DEF HandlerAt, HelperAt, HandlerCall, Unreserved, HelperAhead, Settling, In
<1>a. \A name \in HandlerStages : Go(r, name) => at'[r].at = name
  BY <1>r, GoAt
<1>b. {"assist", "quoteHelper", "refusedHelper", "dispatchHelper", "releaseHelper", "sendHelper",
       "awaitHelper", "dispatch", "release"} \subseteq HandlerStages
  BY DEF HandlerStages
<1> SUFFICES HandlerAt(r, at[r].at)' /\ HelperAt(c, at[r].at)'
  BY DEF c
<1>1. CASE CreateHelper(r) \/ RefuseHelper(r)
  BY <1>r, <1>0, <1>u, <1>1, <1>a, <1>b DEF CreateHelper, RefuseHelper, moneyVars, bridgeVars, Undisturbed
<1>2. CASE QuoteHelper(r)
  <2>1. reservation'[c] = "held" /\ wire'[c] = wire[c]
    BY <1>r, <1>0, <1>2 DEF QuoteHelper, Reserve, MoneyType, bridgeVars, c
  <2> QED
    BY <1>r, <1>0, <1>u, <1>2, <2>1, <1>a, <1>b DEF QuoteHelper, Undisturbed
<1>3. CASE DispatchHelper(r)
  <2>1. reservation'[c] = reservation[c] /\ wire'[c] = wire[c] /\ at[r].at = "dispatchHelper"
    BY <1>3 DEF DispatchHelper, moneyVars, bridgeVars
  <2>2. request[c] \in Sendable => reservation[c] \in {"held", "committed"}
    BY <1>r, <1>0, <2>1 DEF Inv, ClosedTogether, Sendable, MoneyType
  <2>3. at'[r].at = IF request[c] \in Sendable THEN "sendHelper" ELSE "releaseHelper"
    BY <1>3, <1>a, <1>b DEF DispatchHelper, c
  <2> QED
    BY <1>r, <1>0, <1>u, <2>1, <2>2, <2>3 DEF Undisturbed
<1>4. CASE ReleaseHelper(r)
  BY <1>r, <1>0, <1>u, <1>4, <1>a, <1>b DEF ReleaseHelper, Undisturbed
<1>5. CASE SendHelper(r)
  BY <1>r, <1>0, <1>u, <1>5, <1>a, <1>b DEF SendHelper, moneyVars, Undisturbed
<1>6. CASE HelperAnswers(r)
  <2>1. \E name \in {"dispatch", "release"} :
          at'[r] \in {Asking(c, name, "release"), Answering(c, name, "release")}
    BY <1>r, <1>6, TurnAt DEF HelperAnswers, c
  <2>2. PICK name \in {"dispatch", "release"} :
          at'[r] \in {Asking(c, name, "release"), Answering(c, name, "release")}
    BY <2>1
  <2>3. at'[r].at \in {"ask", "settle"} /\ at'[r].call = Call(c, name, "release")
    BY <2>2 DEF Asking, Answering
  <2>4. at'[r].call.step = c /\ {at'[r].call.good, at'[r].call.bad} \subseteq {"dispatch", "release"}
    BY <2>3 DEF Call
  <2>5. wire'[r] = "idle" /\ reservation'[r] # "absent"
    BY <1>0, <1>u, <1>6 DEF HelperAnswers, Undisturbed
  <2>6. HandlerCall(r)'
    BY <1>r, <2>4, <2>5 DEF c
  <2> QED
    BY <2>3, <2>5, <2>6
<1> QED
  BY <1>1, <1>2, <1>3, <1>4, <1>5, <1>6 DEF Helper

LEMMA OwnSettlement ==
  ASSUME Inv, NEW r \in Requests, Settlement(r)
  PROVE  /\ HandlerAt(r, at[r].at)'
         /\ r \in Seedances => HelperAt(ChildOf(r), at[r].at)'
<1> DEFINE call == at[r].call
<1>0. /\ HandlerAt(r, at[r].at) /\ at[r].at \in Settling /\ r \in Steps /\ r \in Threads
  BY DEF Inv, HandlerPlace, Settlement, Settle, Ask, Prepare, Apply, In, Settling, Threads, Steps
<1>u. Undisturbed(r)
  BY <1>0, SettlementRows
<1>1. HandlerCall(r) /\ reservation[r] # "absent"
  BY <1>0 DEF HandlerAt, Settling, Unreserved
<1>2. {call.good, call.bad} \subseteq {"done", "lose", "dispatch", "release"}
  BY <1>1 DEF HandlerCall
<1>3. {"done", "lose", "dispatch", "release"} \subseteq HandlerStages
  BY DEF HandlerStages
<1>4. \/ at'[r].at \in {call.good, call.bad}
      \/ at'[r].at \in Settling /\ at'[r].call = call
  <2>1. CASE Settle(r)
    BY <1>2, <1>3, <2>1, GoAt, TurnAt DEF Settle, Settling
  <2>2. CASE Ask(r)
    <3>1. CASE Go(r, call.bad)
      BY <1>2, <1>3, <3>1, GoAt
    <3>2. ASSUME NEW rc, NEW seen,
                 Turn(r, [at |-> "prepare", call |-> call, receipt |-> rc, seen |-> seen])
          PROVE  at'[r].at \in Settling /\ at'[r].call = call
      BY <3>2, TurnAt DEF Settling
    <3> QED
      BY <2>2, <3>1, <3>2 DEF Ask
  <2>3. CASE Prepare(r)
    BY <1>2, <1>3, <2>3, GoAt, TurnAt DEF Prepare, Settling
  <2>4. CASE Apply(r)
    <3>1. at'[r] \in {Onward(call, at[r].receipt), Stage(call.bad)}
      BY <2>4, TurnAt DEF Apply
    <3> QED
      BY <1>2, <3>1 DEF Onward, Stage
  <2> QED
    BY <2>1, <2>2, <2>3, <2>4 DEF Settlement
<1>5. reservation'[r] # "absent" /\ (wire[r] = "idle" => wire'[r] = "idle")
  BY <1>1, <1>u DEF Undisturbed
<1> HIDE DEF call
<1>6. CASE at'[r].at \in Settling /\ at'[r].call = call
  <2>1. HandlerCall(r)'
    BY <1>1, <1>5, <1>6 DEF HandlerCall, ChildOf, call
  <2> QED
    BY <1>5, <1>6, <2>1 DEF HandlerAt, HelperAt, Unreserved, HelperAhead, Settling
<1>7. CASE at'[r].at \in {call.good, call.bad}
  <2>1. at'[r].at \in {"done", "lose", "dispatch", "release"}
    BY <1>2, <1>7
  <2>2. at'[r].at \in {"dispatch", "release"} => wire'[r] = "idle"
    BY <1>1, <1>5, <1>7 DEF HandlerCall, call
  <2> QED
    BY <1>5, <2>1, <2>2 DEF HandlerAt, HelperAt, Unreserved, HelperAhead, Settling
<1> QED
  BY <1>4, <1>6, <1>7

LEMMA NextHandlerPlace == ASSUME Inv, Next PROVE HandlerPlace'
<1> SUFFICES ASSUME NEW r \in Requests PROVE HandlerAt(r, at[r].at)'
  BY DEF HandlerPlace
<1>0. r \in Steps /\ r \in Threads /\ \A q \in Seedances : r # ChildOf(q)
  BY ChildType, QuotedIdentities DEF Steps, Threads
<1>1. CASE at'[r] = at[r] /\ ~Handler(r)
  BY <1>0, <1>1, OthersRows, HandlerRests
<1>2. CASE Restart
  <2>1. at'[r] = at[r] \/ at'[r].at = "done"
    BY <1>0, <1>2, QuotedIdentities DEF Restart, Stage, Pollers, Reconciler
  <2>2. Undisturbed(r)
    BY <1>2, SameRows DEF Restart, bridgeVars
  <2> QED
    BY <2>1, <2>2, HandlerRests DEF HandlerAt, Unreserved, HelperAhead, Settling
<1> QED
  BY <1>1, <1>2, AnotherThread, OwnHandler, OwnHelper, OwnSettlement

LEMMA NextHelperPlace == ASSUME Inv, Next PROVE HelperPlace'
<1> SUFFICES ASSUME NEW r \in Seedances PROVE HelperAt(ChildOf(r), at[r].at)'
  BY DEF HelperPlace
<1> DEFINE c == ChildOf(r)
<1>0. /\ c \in Steps /\ c \notin Requests /\ r \in Requests /\ r \in Threads /\ c # r
      /\ \A q \in Seedances : c = ChildOf(q) => q = r
  BY ChildType, QuotedIdentities DEF Steps, Requests, Videos, Threads
<1> HIDE DEF c
<1>1. CASE at'[r] = at[r] /\ ~Helper(r)
  <2>1. Undisturbed(c)
    BY <1>0, <1>1, OthersRows
  <2> QED
    BY <1>1, <2>1, HelperRests DEF c
<1>2. CASE Restart
  <2>1. at'[r] = at[r] \/ at'[r].at = "done"
    BY <1>0, <1>2, QuotedIdentities DEF Restart, Stage, Pollers, Reconciler
  <2>2. Undisturbed(c)
    BY <1>2, SameRows DEF Restart, bridgeVars
  <2> QED
    BY <2>1, <2>2, HelperRests DEF HelperAt, Unreserved, HelperAhead, c
<1>3. CASE Handler(r)
  <2> USE DEF In, Unreserved, HelperAhead
  <2>1. Undisturbed(c)
    BY <1>0, <1>3, HandlerRows
  <2>2. HelperAt(c, at[r].at)
    BY DEF Inv, HelperPlace, c
  <2>a. \A name \in HandlerStages : Go(r, name) => at'[r].at = name
    BY <1>0, GoAt
  <2>b. {"new", "claim", "begin", "quote", "refused", "assist", "dispatch", "send", "await",
         "accept", "lose", "release", "done"} \subseteq HandlerStages
    BY DEF HandlerStages
  <2>3. CASE ChatAnswers(r) \/ VideoAnswers(r)
    <3>1. at'[r].at \in {"done", "accept", "ask", "settle"}
      BY <1>0, <2>3, <2>a, <2>b, TurnAt DEF ChatAnswers, VideoAnswers, Asking, Answering
    <3> QED
      BY <3>1 DEF HelperAt, c
  <2>4. CASE EnterGate(r) \/ Claim(r) \/ Begin(r) \/ QuoteOwn(r) \/ Refuse(r)
    <3>1. at[r].at \in Unreserved /\ at'[r].at \in Unreserved \cup {"assist", "dispatch", "done"}
      BY <2>4, <2>a, <2>b DEF EnterGate, Claim, Begin, QuoteOwn, Refuse
    <3> QED
      BY <2>1, <2>2, <3>1 DEF HelperAt, Undisturbed, c, ChildOf
  <2>5. CASE Abandon(r) \/ ReleaseOwn(r) \/ DispatchOwn(r) \/ SendOwn(r) \/ VideoRefused(r)
             \/ InsertJob(r)
    <3>1. at'[r].at \in {"release", "done", "send", "await"}
      BY <2>5, <2>a, <2>b DEF Abandon, ReleaseOwn, DispatchOwn, SendOwn, VideoRefused, InsertJob
    <3> QED
      BY <3>1 DEF HelperAt
  <2> QED
    BY <1>3, <2>3, <2>4, <2>5 DEF Handler
<1> QED
  BY <1>0, <1>1, <1>2, <1>3, AnotherThread, OwnHelper, OwnSettlement

-----------------------------------------------------------------------------
(* What the bridge took is covered.                                        *)

LEMMA NextCovered == ASSUME Inv, Next PROVE ArrivedIsCovered'
<1> SUFFICES ASSUME NEW s \in Steps, wire'[s] = "arrived"
             PROVE  reservation'[s] \in {"held", "committed"}
  BY DEF ArrivedIsCovered
<1>0. wire \in [Steps -> {"idle"} \cup Fate] /\ MoneyType
  BY TypeParts DEF Inv, RestType
<1>1. CASE Undisturbed(s)
  BY <1>1 DEF Inv, ArrivedIsCovered, Undisturbed
<1>2. CASE s \in Requests /\ Handler(s)
  <2>0. HandlerAt(s, at[s].at)
    BY <1>2 DEF Inv, HandlerPlace
  <2>1. CASE SendOwn(s)
    BY <2>0, <2>1 DEF HandlerAt, SendOwn, In, moneyVars
  <2>2. CASE QuoteOwn(s) \/ ReleaseOwn(s)
    BY <1>2, <2>0, <2>2 DEF HandlerAt, QuoteOwn, ReleaseOwn, In, Unreserved, bridgeVars
  <2>3. CASE VideoRefused(s)
    BY <2>3 DEF VideoRefused, RefusedBeforeTask, bridgeVars
  <2>4. CASE UNCHANGED <<moneyVars, wire>>
    BY <1>1, <2>4, SameRows
  <2> QED
    BY <1>2, <2>1, <2>2, <2>3, <2>4 DEF Handler, EnterGate, Claim, Begin, Refuse, Abandon,
       DispatchOwn, ChatAnswers, VideoAnswers, InsertJob, bridgeVars
<1>3. ASSUME NEW r \in Seedances, s = ChildOf(r), Helper(r)
      PROVE  reservation'[s] \in {"held", "committed"}
  <2>0. HelperAt(s, at[r].at)
    BY <1>3 DEF Inv, HelperPlace
  <2>1. CASE SendHelper(r)
    BY <1>3, <2>0, <2>1 DEF HelperAt, SendHelper, In, moneyVars
  <2>2. CASE QuoteHelper(r) \/ ReleaseHelper(r)
    BY <1>3, <2>0, <2>2 DEF HelperAt, QuoteHelper, ReleaseHelper, In, HelperAhead, bridgeVars
  <2>3. CASE UNCHANGED <<moneyVars, wire>>
    BY <1>1, <2>3, SameRows
  <2> QED
    BY <1>3, <2>1, <2>2, <2>3 DEF Helper, CreateHelper, RefuseHelper, DispatchHelper,
       HelperAnswers, bridgeVars
<1> QED
  BY <1>1, <1>2, <1>3, OthersRows

LEMMA InitInv == ASSUME Init PROVE Inv
<1>0. "new" \in HandlerStages
  BY DEF HandlerStages
<1>1. Stage("new") \in Stages /\ Stage("idle") \in Stages
      /\ Stage("new").at = "new" /\ Stage("idle").at = "idle"
  BY <1>0, StageType
<1>2. at \in [Threads -> Stages] /\ \A t \in Threads : at[t].at \in {"new", "idle"}
  BY <1>1 DEF Init
<1>3. \A r \in Requests : at[r].at = "new"
  BY <1>1 DEF Init, Threads
<1>4. RequestType /\ MoneyType
  BY QuotedAmounts DEF Init, RequestType, MoneyType
<1>5. arrivals \in Seq(Steps) /\ RestType
  BY QuotedAmounts DEF Init, RestType
<1>6. TypeOK
  BY <1>2, <1>4, <1>5, TypeParts DEF PlaceType
<1>7. BilledState /\ QuotedBooks /\ ClosedTogether /\ ArrivedIsCovered
  BY DEF Init, BilledState, QuotedBooks, ClosedTogether, ArrivedIsCovered
<1>8. OnlyBilledSettle
  BY <1>2 DEF Init, OnlyBilledSettle, Settling
<1>9. HandlerPlace
  BY <1>3 DEF Init, HandlerPlace, HandlerAt, Unreserved, HelperAhead, Settling, Steps
<1>10. HelperPlace
  BY <1>3, ChildType DEF Init, HelperPlace, HelperAt, Unreserved, HelperAhead, Steps, Requests, Videos
<1> QED
  BY <1>6, <1>7, <1>8, <1>9, <1>10 DEF Inv

LEMMA StutterInv == ASSUME Inv, UNCHANGED vars PROVE Inv'
<1>1. TypeOK' /\ BilledState' /\ QuotedBooks' /\ ClosedTogether' /\ ArrivedIsCovered'
  BY DEF Inv, vars, moneyVars, gateVars, jobVars, bridgeVars, TypeOK, BilledState, QuotedBooks,
     ClosedTogether, ArrivedIsCovered
<1>2. OnlyBilledSettle' /\ HandlerPlace' /\ HelperPlace'
  BY DEF Inv, vars, moneyVars, jobVars, bridgeVars, OnlyBilledSettle, HandlerPlace, HandlerAt,
     HandlerCall, HelperPlace, HelperAt, ChildOf
<1> QED
  BY <1>1, <1>2 DEF Inv

\* The invariant is inductive: it holds at first and every step keeps it.
THEOREM Inductive == Spec => []Inv
<1>1. Init => Inv
  BY InitInv
<1>2. Inv /\ [Next]_vars => Inv'
  <2> SUFFICES ASSUME Inv, [Next]_vars PROVE Inv'
    OBVIOUS
  <2>1. CASE Next
    <3>1. BilledState' /\ QuotedBooks' /\ ClosedTogether'
      BY <2>1, NextMoney, MoneyStepInv DEF MoneyInv
    <3> QED
      BY <2>1, <3>1, NextType, NextSettle, NextHandlerPlace, NextHelperPlace, NextCovered DEF Inv
  <2> QED
    BY <2>1, StutterInv
<1> QED
  BY <1>1, <1>2, PTL DEF Spec

\* Every variable keeps its type, whatever the threads do; a thread is never told to settle
\* a request it cannot name, nor goes where no step of the code begins.
THEOREM Types == Spec => []TypeOK
<1>1. Inv => TypeOK
  BY DEF Inv
<1> QED
  BY <1>1, Inductive, PTL

\* The ledger of a request says what became of its hold, for any quotes and costs and
\* however the handlers, the reconciler and clients settle, release and replay it
\* (reserve_credit_quote_inner, settle_request, apply_credit_receipt).
THEOREM Ledger == Spec => []QuotedBooks
<1>1. Inv => QuotedBooks
  BY DEF Inv
<1> QED
  BY <1>1, Inductive, PTL

\* A request is settled exactly when its hold is closed, although prepare_for_final_receipt
\* and mark_request_unknown write what they read before another thread closed it.
THEOREM Together == Spec => []ClosedTogether
<1>1. Inv => ClosedTogether
  BY DEF Inv
<1> QED
  BY <1>1, Inductive, PTL

\* The bridge never took what no hold covers: release_before_dispatch and
\* release_confirmed_video_pre_dispatch run only where no send can have arrived.
THEOREM Covered == Spec => []ArrivedIsCovered
<1>1. Inv => ArrivedIsCovered
  BY DEF Inv
<1> QED
  BY <1>1, Inductive, PTL

=============================================================================
