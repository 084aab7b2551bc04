---------------------- MODULE ControlledBillingProofs ----------------------
(***************************************************************************)
(* What holds of controlled billing for any number of keys, owners,        *)
(* requests and clients, any receipts the bridge may publish, and any      *)
(* order of the handlers, the reconciler, clients and restarts.            *)
(***************************************************************************)
EXTENDS ControlledBilling, SumTheorems, TLAPS

RequestType == request \in [Steps -> {"absent", "received", "failed", "settled"} \cup Occupying]

RecordType ==
  /\ operation \in [Requests -> {"absent", "settled"} \cup Open]
  /\ reservation \in [Requests -> {"absent", "committed"} \cup OpenReservation]
  /\ step \in [Steps -> {"absent", "pending", "verified", "conflict"}]
  /\ proof \in [Steps -> Receipt \cup {NoReceipt}]
  /\ named \in [Steps -> BOOLEAN]
  /\ receipts \in [Steps -> SUBSET Receipt]
  /\ blocks \subseteq Keys

MoneyType ==
  /\ held \in [Requests -> Nat]
  /\ \A r \in Requests : operation[r] # "absent" => held[r] > 0
  /\ charged \in [Requests -> Nat \cup {NoActual}]
  /\ posted \in [Requests -> Int] /\ granted \in [Accounts -> Nat]

BridgeType ==
  /\ wire \in [Steps -> {"idle"} \cup Fate]
  /\ published \in [Steps -> SUBSET Receipt]

RestType ==
  /\ arrivals \in Seq(Requests)
  /\ job \in [Videos -> {"none", "held", "settled", "released"}]
  /\ lostJob \in [Seedances -> {"none", "held", "settled"}]
  /\ old \subseteq Requests /\ restarts \in 0..MaxRestarts
  /\ outcome \in [Videos -> {"running", "ended"}]

PlaceType == at \in [Requests -> Stages] /\ work \in [Pollers -> Works]

LEMMA TypeParts ==
  TypeOK <=> RequestType /\ RecordType /\ MoneyType /\ BridgeType /\ RestType /\ PlaceType
BY DEF TypeOK, RequestType, RecordType, MoneyType, BridgeType, RestType, PlaceType

-----------------------------------------------------------------------------
(* The inductive invariant.                                                *)

Unadmitted == {"new", "admit", "refused"}
HelperUnmarked == Unadmitted \cup {"helper", "dispatchHelper", "markHelper"}
OwnUnmarked == HelperUnmarked \cup {"sendHelper", "awaitHelper", "helped", "unhelped", "paidHelp",
                                    "paidUnhelped", "finishHelper", "mark"}

\* No two operations of a key are open.
OnlyOpen ==
  \A q, r \in Requests :
    operation[q] \in Open /\ operation[r] \in Open /\ KeyOf[q] = KeyOf[r] => q = r

\* A step is marked, sent, priced and verified in that order, and never without an operation.
StepOrder ==
  \A s \in Steps :
    /\ step[s] # "absent" => operation[Parent(s)] # "absent"
    /\ step[s] = "absent" => wire[s] = "idle"
    /\ wire[s] = "idle" => step[s] \in {"absent", "pending"} /\ published[s] = {}
    /\ step[s] \in {"absent", "pending"} => proof[s] = NoReceipt /\ receipts[s] = {}
    /\ step[s] \in {"verified", "conflict"} => proof[s] # NoReceipt

\* Nothing is left to verify of a settled operation.
NothingPending ==
  \A s \in Steps : operation[Parent(s)] = "settled" => step[s] # "pending"

\* A key that is not frozen has no contradicted step and no operation that cost too much.
Unfrozen ==
  /\ \A s \in Steps : KeyOf[Parent(s)] \notin blocks =>
       step[s] # "conflict" /\ (step[s] = "verified" => receipts[s] = {proof[s]})
  /\ \A r \in Requests : operation[r] = "settled" /\ KeyOf[r] \notin blocks => charged[r] <= held[r]

\* What a handler's place says of its operation and of the steps it has not sent.
OwnPlace(r) ==
  /\ at[r] \in Unadmitted => operation[r] = "absent"
  /\ at[r] \in OwnUnmarked => step[r] = "absent"
  /\ at[r] \in {"dispatch", "send"} => step[r] = "pending" /\ wire[r] = "idle"
  /\ r \in old => at[r] = "done"

HelperPlace(r, c) ==
  /\ at[r] \in HelperUnmarked => step[c] = "absent"
  /\ at[r] = "sendHelper" => step[c] = "pending" /\ wire[c] = "idle"

Places ==
  /\ \A r \in Requests : OwnPlace(r)
  /\ \A r \in Seedances : HelperPlace(r, ChildOf(r))

StoreInv ==
  /\ RecordType /\ MoneyType /\ BridgeType /\ Books /\ OnlyOpen /\ ClosedCoversSent
  /\ StepOrder /\ NothingPending /\ Unfrozen

Inv == TypeOK /\ StoreInv /\ LiveChainOpen /\ Places

-----------------------------------------------------------------------------
(* Steps, their operation and their costs.                                 *)

LEMMA FamilyType ==
  /\ \A s \in Steps : Parent(s) \in Requests /\ s \in StepsOf(Parent(s)) /\ KeyOf[Parent(s)] \in Keys
  /\ \A r \in Requests : r \in Steps /\ Parent(r) = r /\ KeyOf[r] \in Keys /\ KeyOf[r] \in Accounts
  /\ \A r \in Seedances : /\ r \in Requests /\ ChildOf(r) \in Children /\ ChildOf(r) \in Steps
                          /\ Parent(ChildOf(r)) = r /\ ChildOf(r) # r
BY ControlledIdentities DEF Parent, StepsOf, ChildOf, Steps, Requests, Videos, Accounts

LEMMA ChildIsOne == ASSUME NEW q \in Seedances, NEW r \in Seedances, ChildOf(q) = ChildOf(r) PROVE q = r
BY FamilyType

LEMMA FiniteParts ==
  /\ \A S : S \subseteq Steps => IsFiniteSet(S)
  /\ \A r : StepsOf(r) \subseteq Steps
BY ControlledIdentities, FS_Subset DEF StepsOf

LEMMA AccountType == ASSUME NEW r \in Requests PROVE AccountsOf(r) \subseteq Accounts
BY FamilyType DEF AccountsOf, Accounts

LEMMA AvailableType ==
  ASSUME MoneyType, NEW a \in Accounts
  PROVE  Available(a) \in Int
<1> DEFINE S == {r \in Requests : a \in AccountsOf(r)}
<1>1. IsFiniteSet(S)
  BY FiniteParts DEF Steps
<1>2. \A r \in S : posted[r] \in Int
  BY DEF MoneyType
<1> HIDE DEF S
<1>3. SumOver(posted, S) \in Int
  BY <1>1, <1>2, SumType
<1> QED
  BY <1>3 DEF Available, MoneyType, S

LEMMA CostsType == ASSUME RecordType PROVE \A s \in Steps : Costs[s] \in Nat
BY DEF RecordType, Costs, Receipt

LEMMA TotalType ==
  ASSUME RecordType, NEW r \in Requests
  PROVE  Total(r) \in Nat
<1> DEFINE S == {s \in StepsOf(r) : step[s] = "verified"}
<1>1. IsFiniteSet(S) /\ \A s \in S : Costs[s] \in Nat
  BY FiniteParts, CostsType
<1> HIDE DEF S
<1>2. SumOver(Costs, S) \in Nat
  BY <1>1, SumNat
<1> QED
  BY <1>2 DEF Total, S

Paid(r) == SumOver(Costs, {s \in StepsOf(r) : proof[s] # NoReceipt})

LEMMA PaidSame ==
  ASSUME RecordType, RecordType', NEW r \in Requests, \A s \in StepsOf(r) : proof'[s] = proof[s]
  PROVE  Paid(r)' = Paid(r)
<1> DEFINE S == {s \in StepsOf(r) : proof[s] # NoReceipt}
           f == Costs
           g == Costs'
<1>1. IsFiniteSet(S)
  BY FiniteParts
<1>2. \A s \in S : f[s] \in Int /\ f[s] = g[s]
  BY FiniteParts, CostsType DEF Costs
<1>3. {s \in StepsOf(r) : proof[s] # NoReceipt}' = S
  BY DEF StepsOf, Parent
<1> HIDE DEF S, f, g
<1>4. SumOver(f, S) = SumOver(g, S)
  BY <1>1, <1>2, SumSame
<1> QED
  BY <1>3, <1>4 DEF Paid, S, f, g

-----------------------------------------------------------------------------
(* What a step does to the store and the bridge.                           *)

Quiet == UNCHANGED <<wire, published>>
Rest == UNCHANGED <<recordVars, moneyVars>> /\ Quiet
Sent(s) == step[s] = "pending" /\ SendStep(s) /\ UNCHANGED <<recordVars, moneyVars, published>>
Priced(s) ==
  /\ wire[s] # "idle" /\ \A q \in Steps \ {s} : published'[q] = published[q]
  /\ published' \in [Steps -> SUBSET Receipt]
  /\ UNCHANGED <<recordVars, moneyVars, wire>>
Admitted(r) ==
  /\ operation[r] = "absent" /\ BeginOperation(r) /\ Quiet
  /\ UNCHANGED <<step, proof, named, receipts, blocks, charged, granted>>
Marked(s) == MarkStep(s) /\ UNCHANGED moneyVars /\ Quiet
Bound(r) == BindTask(r) /\ UNCHANGED moneyVars /\ Quiet
Recorded(s) == (\E rc \in published[s] : Record(s, rc)) /\ UNCHANGED moneyVars /\ Quiet
Finished(r) == operation[r] \in Open /\ (\E video \in BOOLEAN : Finish(r, video)) /\ Quiet
Increased(k) == (\E amount \in GrantAmounts : Grant(k, amount)) /\ Quiet

StoreStep ==
  \/ Rest
  \/ \E s \in Steps : Sent(s) \/ Priced(s) \/ Marked(s) \/ Recorded(s)
  \/ \E r \in Requests : Admitted(r) \/ Bound(r) \/ Finished(r)
  \/ \E k \in Keys : Increased(k)

LEMMA CoversSame ==
  ASSUME StoreInv, RecordType', UNCHANGED <<operation, charged, wire, proof>>
  PROVE  ClosedCoversSent'
<1>1. \A r \in Requests : Paid(r)' = Paid(r)
  BY PaidSame DEF StoreInv
<1> QED
  BY <1>1 DEF StoreInv, ClosedCoversSent, Paid, StepsOf, Parent

LEMMA RestInv == ASSUME StoreInv, Rest PROVE StoreInv'
<1> USE DEF StoreInv, Rest, Quiet, recordVars, moneyVars
<1>1. RecordType' /\ MoneyType' /\ BridgeType'
  BY DEF RecordType, MoneyType, BridgeType
<1>2. Books' /\ OnlyOpen' /\ StepOrder' /\ NothingPending' /\ Unfrozen'
  BY DEF Books, OnlyOpen, StepOrder, NothingPending, Unfrozen, Parent
<1> QED
  BY <1>1, <1>2, CoversSame

LEMMA SentInv == ASSUME StoreInv, NEW s \in Steps, Sent(s) PROVE StoreInv'
<1> USE DEF Sent, recordVars, moneyVars
<1>1. RecordType' /\ MoneyType' /\ BridgeType'
  BY DEF StoreInv, RecordType, MoneyType, BridgeType, SendStep
<1>2. Books' /\ OnlyOpen' /\ NothingPending' /\ Unfrozen'
  BY DEF StoreInv, Books, OnlyOpen, NothingPending, Unfrozen, Parent
<1>3. StepOrder'
  BY DEF StoreInv, BridgeType, StepOrder, SendStep, Fate, Parent
<1>4. ClosedCoversSent'
  <2>1. \A r \in Requests : Paid(r)' = Paid(r)
    BY <1>1, PaidSame DEF StoreInv
  <2>2. operation[Parent(s)] # "settled"
    BY DEF StoreInv, NothingPending
  <2>3. \A q \in Steps : q # s => wire'[q] = wire[q]
    BY DEF StoreInv, BridgeType, SendStep
  <2> QED
    BY <2>1, <2>2, <2>3 DEF StoreInv, ClosedCoversSent, Paid, StepsOf, Parent
<1> QED
  BY <1>1, <1>2, <1>3, <1>4 DEF StoreInv

LEMMA PricedInv == ASSUME StoreInv, NEW s \in Steps, Priced(s) PROVE StoreInv'
<1> USE DEF Priced, recordVars, moneyVars
<1>1. RecordType' /\ MoneyType' /\ BridgeType'
  BY DEF StoreInv, RecordType, MoneyType, BridgeType
<1>2. Books' /\ OnlyOpen' /\ NothingPending' /\ Unfrozen'
  BY DEF StoreInv, Books, OnlyOpen, NothingPending, Unfrozen, Parent
<1>3. StepOrder'
  BY DEF StoreInv, StepOrder, Parent
<1> QED
  BY <1>1, <1>2, <1>3, CoversSame DEF StoreInv

LEMMA IncreasedInv == ASSUME StoreInv, NEW k \in Keys, Increased(k) PROVE StoreInv'
<1> USE DEF Increased, Grant, Quiet, recordVars, bridgeVars
<1>1. RecordType' /\ BridgeType'
  BY DEF StoreInv, RecordType, BridgeType
<1>2. MoneyType'
  BY ControlledAmounts DEF StoreInv, MoneyType, Accounts
<1>3. Books' /\ OnlyOpen' /\ NothingPending' /\ Unfrozen' /\ StepOrder'
  BY DEF StoreInv, Books, OnlyOpen, NothingPending, Unfrozen, StepOrder, Parent
<1> QED
  BY <1>1, <1>2, <1>3, CoversSame DEF StoreInv

LEMMA BoundInv == ASSUME StoreInv, NEW r \in Requests, Bound(r) PROVE StoreInv'
<1> USE DEF Bound, BindTask, Quiet, moneyVars
<1>1. RecordType' /\ MoneyType' /\ BridgeType'
  BY DEF StoreInv, RecordType, MoneyType, BridgeType
<1>2. Books' /\ OnlyOpen' /\ NothingPending' /\ Unfrozen' /\ StepOrder'
  BY DEF StoreInv, Books, OnlyOpen, NothingPending, Unfrozen, StepOrder, Parent
<1> QED
  BY <1>1, <1>2, CoversSame DEF StoreInv

LEMMA MarkedInv == ASSUME StoreInv, NEW s \in Steps, Marked(s) PROVE StoreInv'
<1> USE DEF Marked, MarkStep, Markable, Quiet, moneyVars
<1>0. Parent(s) \in Requests /\ operation[Parent(s)] \in Open /\ "submitted" \in Open
  BY FamilyType DEF Open
<1>1. /\ operation' = [operation EXCEPT ![Parent(s)] = "submitted"]
      /\ step[s] = "absent" /\ step' = [step EXCEPT ![s] = "pending"]
  OBVIOUS
<1>2. \A r \in Requests : /\ operation'[r] \in Open <=> operation[r] \in Open
                          /\ operation'[r] = "absent" <=> operation[r] = "absent"
                          /\ operation'[r] = "settled" <=> operation[r] = "settled"
  BY <1>0, <1>1 DEF StoreInv, RecordType, Open
<1>3. RecordType' /\ MoneyType' /\ BridgeType'
  BY <1>0, <1>1, <1>2 DEF StoreInv, RecordType, MoneyType, BridgeType
<1>4. Books' /\ OnlyOpen'
  BY <1>2 DEF StoreInv, Books, OnlyOpen
<1>5. NothingPending'
  BY <1>0, <1>1, <1>2, FamilyType DEF StoreInv, RecordType, NothingPending, Parent, Open
<1>6. Unfrozen'
  BY <1>1, <1>2 DEF StoreInv, RecordType, Unfrozen, Parent
<1>7. StepOrder'
  BY <1>0, <1>1, <1>2, FamilyType DEF StoreInv, RecordType, StepOrder, Parent, Open
<1>8. ClosedCoversSent'
  <2>1. \A r \in Requests : Paid(r)' = Paid(r)
    BY <1>3, PaidSame DEF StoreInv
  <2> QED
    BY <1>2, <2>1 DEF StoreInv, ClosedCoversSent, Paid, StepsOf, Parent
<1> QED
  BY <1>3, <1>4, <1>5, <1>6, <1>7, <1>8 DEF StoreInv

LEMMA AdmittedInv == ASSUME StoreInv, NEW r \in Requests, Admitted(r) PROVE StoreInv'
<1> USE DEF Admitted, BeginOperation, Admissible, Quiet
<1> DEFINE amount == Available(KeyOf[r])
<1>0. amount \in Int /\ amount > 0
  BY FamilyType, AvailableType DEF StoreInv
<1>1. /\ operation' = [operation EXCEPT ![r] = "held"]
      /\ reservation' = [reservation EXCEPT ![r] = "held"]
      /\ held' = [held EXCEPT ![r] = amount]
      /\ posted' = [posted EXCEPT ![r] = @ - amount]
      /\ operation[r] = "absent" /\ OpenOperations(KeyOf[r]) = {} /\ KeyOf[r] \notin blocks
      /\ UNCHANGED <<step, proof, named, receipts, blocks, charged, granted, wire, published>>
  OBVIOUS
<1> HIDE DEF amount, Admitted, BeginOperation, Admissible, Quiet
<1>2. RecordType' /\ BridgeType'
  BY <1>1 DEF StoreInv, RecordType, BridgeType, Open, OpenReservation
<1>3. posted[r] = 0
  BY <1>1 DEF StoreInv, Books
<1>4. posted'[r] = -amount /\ posted' \in [Requests -> Int] /\ held' \in [Requests -> Nat]
  BY <1>0, <1>1, <1>3 DEF StoreInv, MoneyType
<1>5. MoneyType'
  BY <1>0, <1>1, <1>4 DEF StoreInv, MoneyType, RecordType
<1>6. Books'
  BY <1>1, <1>4 DEF StoreInv, Books, MoneyType, RecordType
<1>7. OnlyOpen'
  BY <1>1 DEF StoreInv, RecordType, OnlyOpen, OpenOperations
<1>8. NothingPending' /\ StepOrder'
  BY <1>1 DEF StoreInv, RecordType, NothingPending, StepOrder, Parent
<1>9. Unfrozen'
  BY <1>1 DEF StoreInv, RecordType, MoneyType, Unfrozen, Parent
<1>10. ClosedCoversSent'
  <2>1. \A q \in Requests : Paid(q)' = Paid(q)
    BY <1>1, <1>2, PaidSame DEF StoreInv
  <2>2. \A q \in Requests : operation'[q] = "settled" => operation[q] = "settled"
    BY <1>1 DEF StoreInv, RecordType
  <2> QED
    BY <1>1, <2>1, <2>2 DEF StoreInv, ClosedCoversSent, Paid, StepsOf, Parent
<1> QED
  BY <1>2, <1>5, <1>6, <1>7, <1>8, <1>9, <1>10 DEF StoreInv

LEMMA RecordedInv == ASSUME StoreInv, NEW s \in Steps, Recorded(s) PROVE StoreInv'
<1>0. PICK rc \in published[s] : Record(s, rc)
  BY DEF Recorded
<1>1. /\ rc \in Receipt /\ rc # NoReceipt /\ wire[s] # "idle" /\ step[s] # "absent"
      /\ Parent(s) \in Requests /\ operation[Parent(s)] # "absent" /\ KeyOf[Parent(s)] \in Keys
  BY <1>0, FamilyType, ControlledReceipts DEF StoreInv, BridgeType, StepOrder
<1>2. UNCHANGED <<moneyVars, wire, published>>
  BY DEF Recorded, Quiet
<1>3. CASE Verifies(s, rc)
  <2>1. /\ step' = [step EXCEPT ![s] = "verified"]
        /\ proof' = [proof EXCEPT ![s] = rc]
        /\ named' = [named EXCEPT ![s] = rc.task]
        /\ receipts' = [receipts EXCEPT ![s] = @ \cup {rc}]
        /\ UNCHANGED <<operation, reservation, blocks>>
        /\ step[s] # "verified" /\ operation[Parent(s)] # "settled"
    BY <1>0, <1>3 DEF Record, Verifies, Contradicts, AlreadyVerified
  <2>2. RecordType' /\ MoneyType' /\ BridgeType'
    <3>1. rc.task \in BOOLEAN
      BY <1>1 DEF Receipt
    <3> QED
      BY <1>1, <1>2, <2>1, <3>1 DEF StoreInv, RecordType, MoneyType, BridgeType, moneyVars
  <2>3. Books' /\ OnlyOpen'
    BY <1>2, <2>1 DEF StoreInv, Books, OnlyOpen, moneyVars
  <2>4. NothingPending' /\ StepOrder'
    BY <1>1, <1>2, <2>1 DEF StoreInv, RecordType, NothingPending, StepOrder, Parent
  <2>5. Unfrozen'
    <3>1. KeyOf[Parent(s)] \notin blocks => receipts'[s] = {proof'[s]}
      BY <1>1, <2>1 DEF StoreInv, RecordType, Unfrozen, StepOrder
    <3> QED
      BY <1>2, <2>1, <3>1 DEF StoreInv, RecordType, Unfrozen, Parent, moneyVars
  <2>6. ClosedCoversSent'
    <3>1. ASSUME NEW r \in Requests, operation[r] = "settled"
          PROVE  \A q \in StepsOf(r) : proof'[q] = proof[q]
      BY <2>1, <3>1 DEF StoreInv, RecordType, StepsOf
    <3>2. \A r \in Requests : operation[r] = "settled" => Paid(r)' = Paid(r)
      BY <2>2, <3>1, PaidSame DEF StoreInv
    <3>3. \A r \in Requests : operation[r] = "settled" =>
            /\ \A q \in StepsOf(r) : wire[q] # "idle" => proof'[q] # NoReceipt
            /\ charged[r] = Paid(r)'
      BY <3>1, <3>2 DEF StoreInv, ClosedCoversSent, Paid
    <3> QED
      BY <1>2, <2>1, <3>3 DEF ClosedCoversSent, Paid, StepsOf, Parent, moneyVars
  <2> QED
    BY <2>2, <2>3, <2>4, <2>5, <2>6 DEF StoreInv
<1>4. CASE Contradicts(s, rc)
  <2> DEFINE p == Parent(s)
  <2>1. /\ step' = [step EXCEPT ![s] = "conflict"]
        /\ receipts' = [receipts EXCEPT ![s] = @ \cup {rc}]
        /\ blocks' = blocks \cup {KeyOf[p]}
        /\ UNCHANGED <<proof, named>>
        /\ step[s] = "verified" \/ operation[p] = "settled"
        /\ IF operation[p] = "settled"
           THEN UNCHANGED <<operation, reservation>>
           ELSE /\ operation' = [operation EXCEPT ![p] = "unknown"]
                /\ reservation' = [reservation EXCEPT ![p] = "unknown"]
    BY <1>0, <1>4 DEF Record, Verifies, Contradicts, AlreadyVerified
  <2>2. \A r \in Requests : /\ operation'[r] \in Open <=> operation[r] \in Open
                            /\ operation'[r] = "absent" <=> operation[r] = "absent"
                            /\ operation'[r] = "settled" <=> operation[r] = "settled"
    BY <1>1, <2>1 DEF StoreInv, RecordType, Open
  <2>3. step[s] \in {"verified", "conflict"}
    BY <1>1, <2>1 DEF StoreInv, RecordType, NothingPending
  <2>4. RecordType' /\ MoneyType' /\ BridgeType'
    <3>1. /\ operation' \in [Requests -> {"absent", "settled"} \cup Open]
          /\ reservation' \in [Requests -> {"absent", "committed"} \cup OpenReservation]
      BY <1>1, <2>1 DEF StoreInv, RecordType, Open, OpenReservation
    <3> QED
      BY <1>1, <1>2, <2>1, <2>2, <3>1 DEF StoreInv, RecordType, MoneyType, BridgeType, moneyVars
  <2>5. Books' /\ OnlyOpen'
    BY <1>2, <2>2 DEF StoreInv, Books, OnlyOpen, moneyVars
  <2>6. NothingPending' /\ StepOrder'
    BY <1>1, <1>2, <2>1, <2>2, <2>3, FamilyType DEF StoreInv, RecordType, NothingPending, StepOrder, Parent
  <2>7. Unfrozen'
    <3>1. \A q \in Steps : KeyOf[Parent(q)] \notin blocks' => q # s /\ KeyOf[Parent(q)] \notin blocks
      BY <2>1
    <3>2. \A q \in Steps : KeyOf[Parent(q)] \notin blocks' =>
            step'[q] # "conflict" /\ (step'[q] = "verified" => receipts'[q] = {proof'[q]})
      BY <2>1, <3>1 DEF StoreInv, RecordType, Unfrozen
    <3>3. \A r \in Requests : operation'[r] = "settled" /\ KeyOf[r] \notin blocks' => charged[r] <= held[r]
      BY <2>1, <2>2 DEF StoreInv, Unfrozen
    <3> QED
      BY <1>2, <3>2, <3>3 DEF Unfrozen, Parent, moneyVars
  <2>8. ClosedCoversSent'
    <3>1. \A r \in Requests : Paid(r)' = Paid(r)
      BY <2>1, <2>4, PaidSame DEF StoreInv
    <3> QED
      BY <1>2, <2>1, <2>2, <3>1 DEF StoreInv, ClosedCoversSent, Paid, StepsOf, Parent, moneyVars
  <2> QED
    BY <2>4, <2>5, <2>6, <2>7, <2>8 DEF StoreInv
<1>5. CASE ~Fresh(s, rc)
  <2>1. Rest
    BY <1>0, <1>2, <1>5 DEF Record, Verifies, Contradicts, Rest, Quiet
  <2> QED
    BY <2>1, RestInv
<1> QED
  BY <1>0, <1>3, <1>4, <1>5 DEF Record

LEMMA FinishedInv == ASSUME StoreInv, NEW r \in Requests, Finished(r) PROVE StoreInv'
<1>0. PICK video \in BOOLEAN : Finish(r, video)
  BY DEF Finished
<1>1. /\ operation[r] \in Open /\ operation[r] # "settled" /\ operation[r] # "absent"
      /\ Finishable(r, video)
      /\ operation' = [operation EXCEPT ![r] = "settled"]
      /\ reservation' = [reservation EXCEPT ![r] = "committed"]
      /\ charged' = [charged EXCEPT ![r] = Total(r)]
      /\ posted' = [posted EXCEPT ![r] = @ + held[r] - Total(r)]
      /\ blocks' = FreezeIfOver(r)
      /\ UNCHANGED <<step, proof, named, receipts, held, granted, wire, published>>
  BY <1>0 DEF Finished, Finish, Open, Quiet
<1>2. Total(r) \in Nat /\ held[r] \in Nat /\ KeyOf[r] \in Keys
  BY TotalType, FamilyType DEF StoreInv, MoneyType
<1>3. \A s \in StepsOf(r) : step[s] \in {"absent", "verified"}
  BY <1>1 DEF Finishable
<1>4. posted[r] = -held[r]
  BY <1>1 DEF StoreInv, Books
<1>5. posted'[r] = -Total(r) /\ posted' \in [Requests -> Int] /\ charged'[r] = Total(r)
  BY <1>1, <1>2, <1>4 DEF StoreInv, MoneyType
<1>6. /\ operation' \in [Requests -> {"absent", "settled"} \cup Open]
      /\ \A q \in Requests : q # r => operation'[q] = operation[q]
      /\ operation'[r] = "settled"
  BY <1>1 DEF StoreInv, RecordType
<1>7. RecordType' /\ MoneyType' /\ BridgeType'
  <2>1. blocks' \subseteq Keys /\ blocks \subseteq blocks'
    BY <1>1, <1>2 DEF StoreInv, RecordType, FreezeIfOver
  <2> QED
    BY <1>1, <1>2, <1>5, <1>6, <2>1 DEF StoreInv, RecordType, MoneyType, BridgeType
<1>8. Books'
  BY <1>1, <1>5, <1>6 DEF StoreInv, Books, MoneyType
<1>9. OnlyOpen'
  BY <1>6 DEF StoreInv, OnlyOpen, Open
<1>10. NothingPending'
  BY <1>1, <1>3, <1>6, FamilyType DEF StoreInv, NothingPending, StepsOf, Parent
<1>11. StepOrder'
  BY <1>1, <1>6, FamilyType DEF StoreInv, StepOrder, Parent
<1>12. Unfrozen'
  <2>1. blocks \subseteq blocks' /\ (Total(r) > held[r] => KeyOf[r] \in blocks')
    BY <1>1 DEF FreezeIfOver
  <2>2. \A q \in Requests : q # r => charged'[q] = charged[q]
    BY <1>1 DEF StoreInv, MoneyType
  <2>3. \A q \in Requests : operation'[q] = "settled" /\ KeyOf[q] \notin blocks' => charged'[q] <= held[q]
    BY <1>2, <1>5, <1>6, <2>1, <2>2 DEF StoreInv, Unfrozen
  <2> QED
    BY <1>1, <2>1, <2>3 DEF StoreInv, Unfrozen, Parent
<1>13. ClosedCoversSent'
  <2>1. \A q \in Requests : Paid(q)' = Paid(q)
    BY <1>1, <1>7, PaidSame DEF StoreInv
  <2>2. {s \in StepsOf(r) : step[s] = "verified"} = {s \in StepsOf(r) : proof[s] # NoReceipt}
    BY <1>3, FiniteParts DEF StoreInv, StepOrder
  <2>3. Paid(r) = Total(r)
    BY <2>2 DEF Paid, Total
  <2>4. \A s \in StepsOf(r) : wire[s] # "idle" => proof[s] # NoReceipt
    BY <1>3, FiniteParts DEF StoreInv, StepOrder
  <2>5. \A q \in Requests : q # r => charged'[q] = charged[q]
    BY <1>1 DEF StoreInv, MoneyType
  <2>6. \A q \in Requests : operation'[q] = "settled" =>
          /\ \A s \in StepsOf(q) : wire[s] # "idle" => proof[s] # NoReceipt
          /\ charged'[q] = Paid(q)'
    BY <1>5, <1>6, <2>1, <2>3, <2>4, <2>5 DEF StoreInv, ClosedCoversSent, Paid
  <2> QED
    BY <1>1, <2>6 DEF ClosedCoversSent, Paid, StepsOf, Parent
<1> QED
  BY <1>7, <1>8, <1>9, <1>10, <1>11, <1>12, <1>13 DEF StoreInv

LEMMA StoreStepInv == ASSUME StoreInv, StoreStep PROVE StoreInv'
BY RestInv, SentInv, PricedInv, MarkedInv, RecordedInv, AdmittedInv, BoundInv, FinishedInv,
   IncreasedInv DEF StoreStep

-----------------------------------------------------------------------------
(* Every action of a thread does one of these to the store.                *)

LEMMA RestStep == ASSUME UNCHANGED <<recordVars, moneyVars, bridgeVars>> PROVE StoreStep
BY DEF StoreStep, Rest, Quiet, bridgeVars

LEMMA FinishStep ==
  ASSUME NEW r \in Requests, NEW video \in BOOLEAN, Finish(r, video), UNCHANGED bridgeVars
  PROVE  StoreStep
<1>1. CASE operation[r] \in Open
  BY <1>1 DEF StoreStep, Finished, Quiet, bridgeVars
<1> QED
  BY <1>1 DEF Finish, StoreStep, Rest, Quiet, bridgeVars

LEMMA RecordStep ==
  ASSUME NEW s \in Steps, NEW rc \in published[s], Record(s, rc), UNCHANGED <<moneyVars, bridgeVars>>
  PROVE  StoreStep
BY DEF StoreStep, Recorded, Quiet, bridgeVars

LEMMA MarkStepStep ==
  ASSUME NEW s \in Steps, MarkStep(s), UNCHANGED <<moneyVars, bridgeVars>>
  PROVE  StoreStep
BY DEF StoreStep, Marked, Quiet, bridgeVars

LEMMA BindStep ==
  ASSUME NEW r \in Requests, BindTask(r), UNCHANGED <<moneyVars, bridgeVars>>
  PROVE  StoreStep
BY DEF StoreStep, Bound, Quiet, bridgeVars

LEMMA HandlerStore == ASSUME Inv, NEW r \in Requests, Handler(r) PROVE StoreStep
<1>0. r \in Steps /\ OwnPlace(r) /\ TRUE \in BOOLEAN /\ FALSE \in BOOLEAN
  BY FamilyType DEF Inv, Places
<1>1. CASE Admit(r)
  <2>1. operation[r] = "absent"
    BY <1>0, <1>1 DEF Admit, OwnPlace, Unadmitted
  <2> QED
    BY <1>1, <2>1 DEF Admit, StoreStep, Admitted, Quiet, bridgeVars
<1>2. CASE SendOwn(r)
  BY <1>0, <1>2 DEF SendOwn, OwnPlace, StoreStep, Sent
<1>3. CASE MarkOwn(r)
  BY <1>0, <1>3, MarkStepStep, RestStep DEF MarkOwn
<1>4. CASE BindOwn(r)
  BY <1>4, BindStep, RestStep DEF BindOwn
<1>5. CASE ChatReceipt(r)
  BY <1>0, <1>5, RecordStep, RestStep DEF ChatReceipt
<1>6. CASE RejectionReceipt(r)
  BY <1>0, <1>6, RecordStep, RestStep DEF RejectionReceipt
<1>7. CASE ChatFinish(r)
  BY <1>0, <1>7, FinishStep, RestStep DEF ChatFinish
<1>8. CASE FinishRejected(r)
  BY <1>0, <1>8, FinishStep, RestStep DEF FinishRejected
<1> QED
  BY <1>1, <1>2, <1>3, <1>4, <1>5, <1>6, <1>7, <1>8, RestStep
     DEF Handler, Arrive, Refuse, EndRefused, DispatchOwn, ChatAnswers, VideoAnswers, AcceptJob

LEMMA HelperStore == ASSUME Inv, NEW r \in Seedances, Helper(r) PROVE StoreStep
<1> DEFINE c == ChildOf(r)
<1>0. c \in Steps /\ r \in Requests /\ HelperPlace(r, c) /\ FALSE \in BOOLEAN
  BY FamilyType DEF Inv, Places
<1> HIDE DEF c
<1>1. CASE MarkHelper(r)
  BY <1>0, <1>1, MarkStepStep DEF MarkHelper, c
<1>2. CASE SendHelper(r)
  BY <1>0, <1>2 DEF SendHelper, HelperPlace, StoreStep, Sent, c
<1>3. CASE HelperReceipt(r)
  BY <1>0, <1>3, RecordStep, RestStep DEF HelperReceipt, c
<1>4. CASE FinishHelper(r)
  BY <1>0, <1>4, FinishStep, RestStep DEF FinishHelper
<1> QED
  BY <1>1, <1>2, <1>3, <1>4, RestStep
     DEF Helper, CreateHelper, DispatchHelper, HelperAnswers, SettleHelper

LEMMA LaneStore == ASSUME Lane PROVE StoreStep
<1> DEFINE s == work[Reconciler].step
<1>0. /\ Chats \subseteq Requests /\ Videos \subseteq Requests /\ Requests \subseteq Steps
      /\ Children \subseteq Steps /\ TRUE \in BOOLEAN /\ FALSE \in BOOLEAN
  BY DEF Requests, Steps
<1> HIDE DEF s
<1>1. CASE LaneChatReceipt
  BY <1>0, <1>1, RecordStep, RestStep DEF LaneChatReceipt, On
<1>2. CASE LaneChatFinish
  BY <1>0, <1>2, FinishStep, RestStep DEF LaneChatFinish, On
<1>3. CASE LaneAdopt
  BY <1>0, <1>3, BindStep DEF LaneAdopt, On
<1>4. CASE LaneVideoReceipt
  BY <1>0, <1>4, RecordStep, RestStep DEF LaneVideoReceipt, On
<1>5. CASE LaneVideoFinish
  BY <1>0, <1>5, FinishStep, RestStep DEF LaneVideoFinish, On
<1>6. CASE LaneHelperReceipt
  BY <1>0, <1>6, RecordStep, RestStep DEF LaneHelperReceipt, On
<1>7. CASE LaneSettleHelper \/ LaneInsert
  BY <1>7, RestStep DEF LaneSettleHelper, LaneInsert
<1> QED
  BY <1>1, <1>2, <1>3, <1>4, <1>5, <1>6, <1>7 DEF Lane

LEMMA PollStore == ASSUME NEW t \in Pollers, Poll(t) PROVE StoreStep
<1>0. Videos \subseteq Requests /\ Requests \subseteq Steps /\ TRUE \in BOOLEAN
  BY DEF Requests, Steps
<1>1. CASE JobReceipt(t)
  BY <1>0, <1>1, RecordStep, RestStep DEF JobReceipt, On
<1>2. CASE JobFinish(t)
  BY <1>0, <1>2, FinishStep, RestStep DEF JobFinish, On
<1>3. CASE JobClose(t)
  BY <1>3, RestStep DEF JobClose
<1> QED
  BY <1>1, <1>2, <1>3 DEF Poll

LEMMA NextStore == ASSUME Inv, Next PROVE StoreStep
<1>1. ASSUME NEW r \in Requests, SettleOrphan(r) PROVE StoreStep
  <2>1. FALSE \in BOOLEAN
    OBVIOUS
  <2> QED
    BY <1>1, <2>1, FinishStep DEF SettleOrphan
<1>2. ASSUME NEW s \in Steps, Publish(s) PROVE StoreStep
  <2>0. PICK rc \in ReceiptsFor[s] \ published[s] :
          published' = [published EXCEPT ![s] = @ \cup {rc}]
    BY <1>2 DEF Publish
  <2>1. rc \in Receipt /\ published \in [Steps -> SUBSET Receipt]
    BY ControlledReceipts DEF Inv, StoreInv, BridgeType
  <2>2. /\ published' \in [Steps -> SUBSET Receipt]
        /\ \A q \in Steps \ {s} : published'[q] = published[q]
    BY <2>0, <2>1
  <2>3. wire[s] # "idle" /\ UNCHANGED <<recordVars, moneyVars, wire>>
    BY <1>2 DEF Publish
  <2> QED
    BY <2>2, <2>3 DEF StoreStep, Priced
<1>3. ASSUME NEW k \in Keys, NEW amount \in GrantAmounts, Grant(k, amount) PROVE StoreStep
  BY <1>3 DEF StoreStep, Increased, Quiet, Grant, bridgeVars
<1>4. ASSUME NEW r \in Videos, Generate(r) PROVE StoreStep
  BY <1>4 DEF Generate, StoreStep, Rest, Quiet
<1>5. CASE Restart
  BY <1>5, RestStep DEF Restart
<1> QED
  BY <1>1, <1>2, <1>3, <1>4, <1>5, HandlerStore, HelperStore, LaneStore, PollStore, RestStep
     DEF Next, LanePick, JobPick, LostJobPoll

-----------------------------------------------------------------------------
(* Types of the rest.                                                      *)

LEMMA MarkUnknownType == ASSUME RequestType, NEW rs, MarkUnknown(rs) PROVE RequestType'
BY DEF RequestType, MarkUnknown, Unsure, Occupying

LEMMA FinishType == ASSUME RequestType, NEW r \in Requests, NEW video, Finish(r, video) PROVE RequestType'
BY DEF RequestType, Finish, Occupying, Steps

LEMMA SameRequest == ASSUME RequestType, UNCHANGED request PROVE RequestType'
BY DEF RequestType

LEMMA NextRequest == ASSUME Inv, Next PROVE RequestType'
<1>0. RequestType
  BY TypeParts DEF Inv
<1>1. ASSUME NEW r \in Requests, Handler(r) PROVE RequestType'
  <2>1. CASE Arrive(r) \/ Admit(r) \/ Refuse(r) \/ EndRefused(r) \/ DispatchOwn(r)
    BY <1>0, <2>1, MarkUnknownType DEF RequestType, Arrive, Admit, BeginOperation, Refuse, EndRefused, DispatchOwn,
       GiveUp, Occupying
  <2> QED
    BY <1>0, <1>1, <2>1, MarkUnknownType, FinishType, SameRequest
       DEF Handler, GiveUp, MarkOwn, SendOwn, ChatAnswers, ChatReceipt, ChatFinish, VideoAnswers,
           BindOwn, AcceptJob, RejectionReceipt, FinishRejected
<1>2. ASSUME NEW r \in Seedances, Helper(r) PROVE RequestType'
  <2>0. r \in Requests
    BY FamilyType
  <2>1. CASE CreateHelper(r) \/ DispatchHelper(r) \/ SettleHelper(r)
    BY <1>0, <2>1, MarkUnknownType DEF RequestType, CreateHelper, DispatchHelper, SettleHelper,
       GiveUp, Occupying
  <2> QED
    BY <1>0, <1>2, <2>0, <2>1, MarkUnknownType, FinishType, SameRequest
       DEF Helper, GiveUp, MarkHelper, SendHelper, HelperAnswers, HelperReceipt, FinishHelper
<1>3. CASE Lane
  <2>0. Chats \subseteq Requests /\ Videos \subseteq Requests
    BY DEF Requests
  <2>1. CASE LaneSettleHelper
    BY <1>0, <2>1 DEF RequestType, LaneSettleHelper
  <2> QED
    BY <1>0, <1>3, <2>0, <2>1, MarkUnknownType, FinishType, SameRequest
       DEF Lane, LaneChatReceipt, LaneChatFinish, LaneAdopt, LaneInsert,
           LaneVideoReceipt, LaneVideoFinish, LaneHelperReceipt, On
<1>4. ASSUME NEW t \in Pollers, Poll(t) PROVE RequestType'
  <2>0. Videos \subseteq Requests
    BY DEF Requests
  <2> QED
    BY <1>0, <1>4, <2>0, MarkUnknownType, FinishType, SameRequest
       DEF Poll, JobReceipt, JobFinish, JobClose, On
<1>5. CASE Restart
  BY <1>0, <1>5 DEF RequestType, Restart
<1>6. ASSUME NEW r \in Requests, SettleOrphan(r) PROVE RequestType'
  BY <1>0, <1>6, FinishType DEF SettleOrphan
<1>7. ASSUME NEW t \in Pollers, NEW r \in Seedances, LostJobPoll(t, r) PROVE RequestType'
  BY <1>0, <1>7, MarkUnknownType, SameRequest DEF LostJobPoll
<1> QED
  BY <1>0, <1>1, <1>2, <1>3, <1>4, <1>5, <1>6, <1>7, SameRequest
     DEF Next, LanePick, Publish, JobPick, Generate, Grant

LEMMA NextRest == ASSUME Inv, Next PROVE RestType'
<1> USE DEF RestType, jobVars, processVars, bridgeVars
<1>0. RestType /\ MaxRestarts \in Nat
  BY TypeParts, ControlledAmounts DEF Inv
<1>1. ASSUME NEW r \in Requests, Handler(r) PROVE RestType'
  <2>1. CASE Arrive(r)
    BY <1>0, <2>1 DEF Arrive
  <2>2. CASE VideoAnswers(r)
    BY <1>0, <2>2 DEF VideoAnswers
  <2>3. CASE AcceptJob(r)
    BY <1>0, <2>3 DEF AcceptJob
  <2> QED
    BY <1>0, <1>1, <2>1, <2>2, <2>3
       DEF Handler, Admit, Refuse, EndRefused, MarkOwn, DispatchOwn, SendOwn, ChatAnswers,
           ChatReceipt, ChatFinish, BindOwn, RejectionReceipt, FinishRejected
<1>2. ASSUME NEW r \in Seedances, Helper(r) PROVE RestType'
  BY <1>0, <1>2
     DEF Helper, CreateHelper, DispatchHelper, MarkHelper, SendHelper, HelperAnswers,
         HelperReceipt, SettleHelper, FinishHelper
<1>3. CASE Lane
  <2>1. CASE LaneAdopt
    BY <1>0, <2>1 DEF LaneAdopt
  <2>2. CASE LaneInsert
    BY <1>0, <2>2 DEF LaneInsert, On
  <2> QED
    BY <1>0, <1>3, <2>1, <2>2
       DEF Lane, LaneChatReceipt, LaneChatFinish, LaneVideoReceipt, LaneVideoFinish,
           LaneHelperReceipt, LaneSettleHelper
<1>4. ASSUME NEW t \in Pollers, Poll(t) PROVE RestType'
  <2>1. CASE JobClose(t)
    BY <1>0, <2>1 DEF JobClose
  <2> QED
    BY <1>0, <1>4, <2>1 DEF Poll, JobReceipt, JobFinish
<1>5. CASE Restart
  BY <1>0, <1>5 DEF Restart
<1>6. ASSUME NEW t \in Pollers, NEW r \in Seedances, LostJobPoll(t, r) PROVE RestType'
  BY <1>0, <1>6 DEF LostJobPoll
<1>7. ASSUME NEW r \in Videos, Generate(r) PROVE RestType'
  BY <1>0, <1>7 DEF Generate
<1> QED
  BY <1>0, <1>1, <1>2, <1>3, <1>4, <1>5, <1>6, <1>7
     DEF Next, SettleOrphan, LanePick, Publish, JobPick, Grant

LEMMA GoType ==
  ASSUME PlaceType, NEW r \in Requests, NEW stage \in Stages, Go(r, stage), UNCHANGED work
  PROVE  PlaceType' /\ at'[r] = stage
BY DEF PlaceType, Go

LEMMA TurnType ==
  ASSUME PlaceType, NEW t \in Pollers, NEW what \in Works, Turn(t, what), UNCHANGED at
  PROVE  PlaceType'
BY DEF PlaceType, Turn

LEMMA WorkType ==
  /\ Idle \in Works
  /\ \A s \in Steps, name \in {"finishChat", "adopt", "finishRejected", "settleHelper", "job"} :
       [at |-> name, step |-> s] \in Works
  /\ \A s \in Steps, b \in BOOLEAN : [at |-> "step", step |-> s, named |-> b] \in Works
  /\ \A s \in Videos, b \in BOOLEAN : [at |-> "finishJob", step |-> s, free |-> b] \in Works
BY DEF Works

LEMMA FinishJobType ==
  ASSUME NEW what \in Works, what.at = "finishJob"
  PROVE  [what EXCEPT !.at = "closeJob"] \in Works
<1>1. what \in [at : {"finishJob", "closeJob"}, step : Videos, free : BOOLEAN]
  BY DEF Works, Idle
<1> QED
  BY <1>1 DEF Works

LEMMA NextPlaces == ASSUME Inv, Next PROVE PlaceType'
<1>0. PlaceType
  BY TypeParts DEF Inv
<1>a. {"new", "admit", "refused", "helper", "dispatchHelper", "markHelper", "sendHelper",
        "awaitHelper", "helped", "unhelped", "paidHelp", "paidUnhelped", "finishHelper",
        "mark", "dispatch", "send", "await", "settle", "finishChat", "bind", "accept",
        "rejected", "finishRejected", "done"} \subseteq Stages
  BY DEF Stages
<1>b. Reconciler \in Pollers
  BY DEF Pollers
<1>1. ASSUME NEW r \in Requests, Handler(r) PROVE PlaceType'
  BY <1>0, <1>1, <1>a, GoType DEF Handler, GiveUp, Arrive, Admit, Refuse, EndRefused, MarkOwn,
     DispatchOwn, SendOwn, ChatAnswers, ChatReceipt, ChatFinish, VideoAnswers, BindOwn, AcceptJob,
     RejectionReceipt, FinishRejected
<1>2. ASSUME NEW r \in Seedances, Helper(r) PROVE PlaceType'
  <2>0. r \in Requests
    BY FamilyType
  <2> QED
    BY <1>0, <1>2, <2>0, <1>a, GoType DEF Helper, GiveUp, CreateHelper, DispatchHelper, MarkHelper,
       SendHelper, HelperAnswers, HelperReceipt, SettleHelper, FinishHelper
<1>3. CASE Lane
  <2> DEFINE s == work[Reconciler].step
  <2>0. Chats \subseteq Steps /\ Videos \subseteq Steps /\ Children \subseteq Steps
    BY DEF Requests, Steps
  <2>1. s \in Steps
    BY <1>3, <2>0 DEF Lane, LaneChatReceipt, LaneChatFinish, LaneAdopt, LaneInsert,
       LaneVideoReceipt, LaneVideoFinish, LaneHelperReceipt, LaneSettleHelper, On
  <2>2. /\ Idle \in Works /\ [at |-> "finishChat", step |-> s] \in Works
        /\ [at |-> "adopt", step |-> s] \in Works
        /\ [at |-> "finishRejected", step |-> s] \in Works
        /\ [at |-> "settleHelper", step |-> s] \in Works
    BY <2>1, WorkType
  <2> HIDE DEF s
  <2>3. \E what \in Works : Turn(Reconciler, what) /\ UNCHANGED at
    BY <1>3, <2>2 DEF Lane, LaneChatReceipt, LaneChatFinish, LaneAdopt, LaneInsert,
       LaneVideoReceipt, LaneVideoFinish, LaneHelperReceipt, LaneSettleHelper, s
  <2> QED
    BY <1>0, <1>b, <2>3, TurnType
<1>4. ASSUME NEW t \in Pollers, Poll(t) PROVE PlaceType'
  <2>1. CASE JobReceipt(t)
    <3>1. work[t].step \in Videos
      BY <2>1 DEF JobReceipt, On
    <3>2. ASSUME NEW rc
          PROVE  [at |-> "finishJob", step |-> work[t].step, free |-> rc.status = "failed_no_charge"] \in Works
      BY <3>1, WorkType
    <3>3. \E what \in Works : Turn(t, what) /\ UNCHANGED at
      BY <2>1, <3>2, WorkType DEF JobReceipt
    <3> QED
      BY <1>0, <3>3, TurnType
  <2>2. CASE JobFinish(t)
    <3>1. [work[t] EXCEPT !.at = "closeJob"] \in Works
      BY <1>0, <2>2, FinishJobType DEF PlaceType, JobFinish, On
    <3>2. \E what \in Works : Turn(t, what) /\ UNCHANGED at
      BY <2>2, <3>1, WorkType DEF JobFinish
    <3> QED
      BY <1>0, <3>2, TurnType
  <2>3. CASE JobClose(t)
    BY <1>0, <2>3, TurnType, WorkType DEF JobClose
  <2> QED
    BY <1>4, <2>1, <2>2, <2>3 DEF Poll
<1>5. CASE Restart
  BY <1>0, <1>5, <1>a, WorkType DEF PlaceType, Restart
<1>6. ASSUME NEW s \in Steps, LanePick(s) PROVE PlaceType'
  <2>1. named[s] \in BOOLEAN
    BY TypeParts DEF Inv, RecordType
  <2>2. [at |-> "step", step |-> s, named |-> named[s]] \in Works
    BY <2>1, WorkType
  <2> QED
    BY <1>0, <1>b, <1>6, <2>2, TurnType DEF LanePick
<1>7. ASSUME NEW t \in Pollers, NEW r \in Videos, JobPick(t, r) PROVE PlaceType'
  <2>1. [at |-> "job", step |-> r] \in Works
    BY WorkType DEF Steps, Requests
  <2> QED
    BY <1>0, <1>7, <2>1, TurnType DEF JobPick
<1>8. CASE UNCHANGED <<at, work>>
  BY <1>0, <1>8 DEF PlaceType
<1> QED
  BY <1>1, <1>2, <1>3, <1>4, <1>5, <1>6, <1>7, <1>8
     DEF Next, SettleOrphan, LostJobPoll, Publish, Generate, Grant

-----------------------------------------------------------------------------
(* What one thread does to the steps and the operation of another.         *)

\* A step that is not marked stays so, and one that is marked stays unsent.
Untouched(s) ==
  /\ step[s] = "absent" => step'[s] = "absent"
  /\ step[s] = "pending" /\ wire[s] = "idle" => step'[s] = "pending" /\ wire'[s] = "idle"

LEMMA SameUntouched == ASSUME NEW s, UNCHANGED <<step, wire>> PROVE Untouched(s)
BY DEF Untouched

LEMMA RestUntouched == ASSUME NEW s, UNCHANGED <<recordVars, bridgeVars>> PROVE Untouched(s)
BY DEF Untouched, recordVars, bridgeVars

LEMMA FinishUntouched ==
  ASSUME NEW s, NEW r, NEW video, Finish(r, video), UNCHANGED bridgeVars
  PROVE  Untouched(s)
BY DEF Finish, recordVars, Untouched, bridgeVars

LEMMA RecordUntouched ==
  ASSUME Inv, NEW s \in Steps, NEW q \in Steps, NEW rc \in published[q], Record(q, rc), UNCHANGED bridgeVars
  PROVE  Untouched(s)
<1>1. wire[q] # "idle" /\ step[q] # "absent" /\ UNCHANGED wire
  BY DEF Inv, StoreInv, StepOrder, bridgeVars
<1>2. \A p \in Steps : p # q => step'[p] = step[p]
  BY DEF Inv, StoreInv, RecordType, Record, recordVars
<1> QED
  BY <1>1, <1>2 DEF Untouched

LEMMA MarkUntouched ==
  ASSUME Inv, NEW s \in Steps, NEW q \in Steps, s # q, MarkStep(q), UNCHANGED bridgeVars
  PROVE  Untouched(s)
BY DEF Inv, StoreInv, RecordType, MarkStep, Untouched, bridgeVars

LEMMA SendUntouched ==
  ASSUME Inv, NEW s \in Steps, NEW q \in Steps, s # q, SendStep(q), UNCHANGED recordVars
  PROVE  Untouched(s)
BY DEF Inv, StoreInv, BridgeType, SendStep, Untouched, recordVars

LEMMA HandlerUntouched ==
  ASSUME Inv, NEW r \in Requests, NEW s \in Steps, s # r, Handler(r)
  PROVE  Untouched(s)
<1>0. r \in Steps
  BY FamilyType
<1>1. CASE Admit(r)
  BY <1>1, SameUntouched DEF Admit, bridgeVars
<1>2. CASE SendOwn(r)
  BY <1>0, <1>2, SendUntouched DEF SendOwn
<1>3. CASE MarkOwn(r)
  BY <1>0, <1>3, MarkUntouched, RestUntouched DEF MarkOwn
<1>4. CASE BindOwn(r)
  BY <1>4, SameUntouched, RestUntouched DEF BindOwn, BindTask, bridgeVars
<1>5. CASE ChatReceipt(r) \/ RejectionReceipt(r)
  BY <1>0, <1>5, RecordUntouched, RestUntouched DEF ChatReceipt, RejectionReceipt
<1>6. CASE ChatFinish(r) \/ FinishRejected(r)
  BY <1>6, FinishUntouched, RestUntouched DEF ChatFinish, FinishRejected
<1> QED
  BY <1>1, <1>2, <1>3, <1>4, <1>5, <1>6, RestUntouched
     DEF Handler, Arrive, Refuse, EndRefused, DispatchOwn, ChatAnswers, VideoAnswers, AcceptJob

LEMMA HelperUntouched ==
  ASSUME Inv, NEW r \in Seedances, NEW s \in Steps, s # ChildOf(r), Helper(r)
  PROVE  Untouched(s)
<1>0. ChildOf(r) \in Steps
  BY FamilyType
<1>1. CASE MarkHelper(r)
  BY <1>0, <1>1, MarkUntouched DEF MarkHelper
<1>2. CASE SendHelper(r)
  BY <1>0, <1>2, SendUntouched DEF SendHelper
<1>3. CASE HelperReceipt(r)
  BY <1>0, <1>3, RecordUntouched, RestUntouched DEF HelperReceipt
<1>4. CASE FinishHelper(r)
  BY <1>4, FinishUntouched, RestUntouched DEF FinishHelper
<1> QED
  BY <1>1, <1>2, <1>3, <1>4, RestUntouched
     DEF Helper, CreateHelper, DispatchHelper, HelperAnswers, SettleHelper

LEMMA LaneUntouched == ASSUME Inv, NEW s \in Steps, Lane PROVE Untouched(s)
<1>0. Chats \subseteq Steps /\ Videos \subseteq Steps /\ Children \subseteq Steps
  BY DEF Requests, Steps
<1>1. CASE LaneChatReceipt \/ LaneVideoReceipt \/ LaneHelperReceipt
  BY <1>0, <1>1, RecordUntouched, RestUntouched
     DEF LaneChatReceipt, LaneVideoReceipt, LaneHelperReceipt, On
<1>2. CASE LaneChatFinish \/ LaneVideoFinish
  BY <1>2, FinishUntouched, RestUntouched DEF LaneChatFinish, LaneVideoFinish
<1>3. CASE LaneAdopt
  BY <1>3, SameUntouched DEF LaneAdopt, BindTask, bridgeVars
<1>4. CASE LaneSettleHelper \/ LaneInsert
  BY <1>4, RestUntouched DEF LaneSettleHelper, LaneInsert
<1> QED
  BY <1>1, <1>2, <1>3, <1>4 DEF Lane

LEMMA PollUntouched == ASSUME Inv, NEW s \in Steps, NEW t \in Pollers, Poll(t) PROVE Untouched(s)
<1>0. Videos \subseteq Steps
  BY DEF Requests, Steps
<1>1. CASE JobReceipt(t)
  BY <1>0, <1>1, RecordUntouched, RestUntouched DEF JobReceipt, On
<1>2. CASE JobFinish(t)
  BY <1>2, FinishUntouched, RestUntouched DEF JobFinish
<1>3. CASE JobClose(t)
  BY <1>3, RestUntouched DEF JobClose
<1> QED
  BY <1>1, <1>2, <1>3 DEF Poll

LEMMA OthersSteps ==
  ASSUME Inv, Next, NEW s \in Steps
  PROVE  \/ Untouched(s)
         \/ s \in Requests /\ Handler(s)
         \/ \E r \in Seedances : s = ChildOf(r) /\ Helper(r)
<1>1. ASSUME NEW r \in Requests, SettleOrphan(r) PROVE Untouched(s)
  BY <1>1, FinishUntouched DEF SettleOrphan
<1>2. ASSUME NEW q \in Steps, Publish(q) PROVE Untouched(s)
  BY <1>2, SameUntouched DEF Publish, recordVars
<1>3. ASSUME NEW r \in Videos, Generate(r) PROVE Untouched(s)
  BY <1>3, SameUntouched DEF Generate, recordVars
<1>4. ASSUME NEW k \in Keys, NEW amount \in GrantAmounts, Grant(k, amount) PROVE Untouched(s)
  BY <1>4, RestUntouched DEF Grant
<1> QED
  BY <1>1, <1>2, <1>3, <1>4, HandlerUntouched, HelperUntouched, LaneUntouched, PollUntouched,
     RestUntouched
     DEF Next, LanePick, JobPick, LostJobPoll, Restart

\* Only a handler's own admission makes its operation.
LEMMA OthersOperation ==
  ASSUME Inv, Next, NEW r \in Requests, operation[r] = "absent", operation'[r] # "absent"
  PROVE  Admit(r)
<1>0. StoreInv /\ StoreStep
  BY NextStore DEF Inv
<1>1. ASSUME Rest PROVE FALSE
  BY <1>1 DEF Rest, recordVars
<1>2. ASSUME NEW s \in Steps, Sent(s) \/ Priced(s) PROVE FALSE
  BY <1>2 DEF Sent, Priced, recordVars
<1>3. ASSUME NEW s \in Steps, Marked(s) PROVE FALSE
  BY <1>0, <1>3, FamilyType DEF StoreInv, RecordType, Marked, MarkStep, Markable
<1>4. ASSUME NEW s \in Steps, Recorded(s) PROVE FALSE
  <2>1. operation[Parent(s)] # "absent"
    BY <1>0, <1>4 DEF StoreInv, StepOrder, Recorded
  <2> QED
    BY <1>0, <1>4, <2>1, FamilyType DEF StoreInv, RecordType, Recorded, Record, recordVars
<1>5. ASSUME NEW q \in Requests, Bound(q) PROVE FALSE
  BY <1>5 DEF Bound, BindTask
<1>6. ASSUME NEW q \in Requests, Finished(q) PROVE FALSE
  BY <1>0, <1>6 DEF StoreInv, RecordType, Finished, Finish, Open, recordVars
<1>7. ASSUME NEW k \in Keys, Increased(k) PROVE FALSE
  BY <1>7 DEF Increased, Grant, recordVars
<1>8. ASSUME NEW q \in Requests, Admitted(q) PROVE request[r] = "received" /\ request'[r] = "reserved"
  BY <1>0, <1>8, TypeParts DEF Inv, RequestType, StoreInv, RecordType, Admitted, BeginOperation,
     Admissible, Steps
<1>9. request[r] = "received" /\ request'[r] = "reserved"
  BY <1>0, <1>1, <1>2, <1>3, <1>4, <1>5, <1>6, <1>7, <1>8 DEF StoreStep
<1>10. request \in [Steps -> {"absent", "received", "failed", "settled"} \cup Occupying] /\ r \in Steps
  BY TypeParts, FamilyType DEF Inv, RequestType
<1>11. ASSUME NEW rs, MarkUnknown(rs) PROVE FALSE
  BY <1>9, <1>10, <1>11 DEF MarkUnknown, Unsure, Occupying
<1>12. ASSUME UNCHANGED request PROVE FALSE
  BY <1>9, <1>12
<1>13. ASSUME NEW q, NEW value, value # "reserved", request' = [request EXCEPT ![q] = value] PROVE FALSE
  BY <1>9, <1>10, <1>13
<1>14. ASSUME NEW q, NEW video, Finish(q, video) PROVE FALSE
  BY <1>12, <1>13, <1>14 DEF Finish
<1>15. ASSUME NEW q \in Requests, Handler(q) PROVE Admit(r)
  <2>1. CASE Admit(q)
    <3>1. q = r
      BY <1>0, <2>1 DEF Admit, BeginOperation, StoreInv, RecordType
    <3> QED
      BY <2>1, <3>1
  <2>2. CASE ~Admit(q)
    BY <1>11, <1>12, <1>13, <1>14, <1>15, <2>2
       DEF Handler, GiveUp, Arrive, Refuse, EndRefused, MarkOwn, DispatchOwn, SendOwn, ChatAnswers,
           ChatReceipt, ChatFinish, VideoAnswers, BindOwn, AcceptJob, RejectionReceipt, FinishRejected
  <2> QED
    BY <2>1, <2>2
<1>16. ASSUME NEW q \in Seedances, Helper(q) PROVE FALSE
  BY <1>11, <1>12, <1>13, <1>14, <1>16
     DEF Helper, GiveUp, CreateHelper, DispatchHelper, MarkHelper, SendHelper, HelperAnswers,
         HelperReceipt, SettleHelper, FinishHelper
<1>17. ASSUME Lane PROVE FALSE
  BY <1>11, <1>12, <1>13, <1>14, <1>17
     DEF Lane, LaneChatReceipt, LaneChatFinish, LaneAdopt, LaneInsert,
         LaneVideoReceipt, LaneVideoFinish, LaneHelperReceipt, LaneSettleHelper
<1>18. ASSUME NEW t, Poll(t) PROVE FALSE
  BY <1>11, <1>12, <1>13, <1>14, <1>18 DEF Poll, JobReceipt, JobFinish, JobClose
<1>19. ASSUME Restart PROVE FALSE
  BY <1>9, <1>10, <1>19 DEF Restart
<1>20. ASSUME NEW t, NEW q, LostJobPoll(t, q) PROVE FALSE
  BY <1>11, <1>12, <1>20 DEF LostJobPoll
<1> QED
  BY <1>12, <1>14, <1>15, <1>16, <1>17, <1>18, <1>19, <1>20
     DEF Next, SettleOrphan, LanePick, Publish, JobPick, Generate, Grant

LEMMA RecordOpen ==
  ASSUME StoreInv, NEW s \in Steps, NEW rc, Record(s, rc), NEW r \in Requests, operation[r] # "settled"
  PROVE  operation'[r] # "settled"
BY FamilyType DEF StoreInv, RecordType, Record, recordVars

\* A video that was not sent is not settled by any other thread of this process.
LEMMA OthersSettle ==
  ASSUME Inv, Next, NEW r \in Seedances, wire[r] = "idle", operation[r] # "settled",
         at[r] # "done", ~Handler(r), ~Helper(r)
  PROVE  operation'[r] # "settled"
<1>0. StoreInv /\ r \in Requests /\ r \in Steps /\ r \notin Chats
  BY FamilyType, ControlledIdentities DEF Inv, Videos
<1>1. step[r] # "verified" /\ r \in Videos /\ r \notin old
  BY <1>0 DEF Inv, StoreInv, StepOrder, Places, OwnPlace, Videos
<1>2. ASSUME NEW q \in Requests, Finish(q, TRUE) \/ q # r, NEW video, Finish(q, video)
      PROVE  operation'[r] # "settled"
  <2>1. CASE q # r
    BY <1>0, <1>2, <2>1 DEF StoreInv, RecordType, Finish, recordVars
  <2>2. CASE Finish(r, TRUE)
    BY <1>1, <2>2 DEF Finish, Finishable
  <2> QED
    BY <1>2, <2>1, <2>2
<1>3. ASSUME NEW s \in Steps, NEW rc, Record(s, rc) PROVE operation'[r] # "settled"
  BY <1>0, <1>3, RecordOpen
<1>4. ASSUME UNCHANGED operation PROVE operation'[r] # "settled"
  BY <1>4
<1>5. ASSUME NEW s \in Steps, MarkStep(s) PROVE operation'[r] # "settled"
  BY <1>0, <1>5, FamilyType DEF StoreInv, RecordType, MarkStep
<1>6. ASSUME NEW q \in Requests, q # r, Handler(q) PROVE operation'[r] # "settled"
  <2>0. q \in Steps
    BY FamilyType
  <2>1. CASE Admit(q)
    BY <1>0, <2>1 DEF StoreInv, RecordType, Admit, BeginOperation
  <2>2. CASE MarkOwn(q) \/ BindOwn(q)
    BY <1>4, <1>5, <2>0, <2>2 DEF MarkOwn, BindOwn, BindTask, recordVars
  <2>3. CASE ChatReceipt(q) \/ RejectionReceipt(q)
    BY <1>3, <1>4, <2>0, <2>3 DEF ChatReceipt, RejectionReceipt, recordVars
  <2>4. CASE ChatFinish(q) \/ FinishRejected(q)
    BY <1>2, <1>4, <1>6, <2>4 DEF ChatFinish, FinishRejected, recordVars
  <2> QED
    BY <1>4, <1>6, <2>1, <2>2, <2>3, <2>4
       DEF Handler, Arrive, Refuse, EndRefused, DispatchOwn, SendOwn, ChatAnswers, VideoAnswers,
           AcceptJob, recordVars
<1>7. ASSUME NEW q \in Seedances, q # r, Helper(q) PROVE operation'[r] # "settled"
  <2>0. q \in Requests /\ ChildOf(q) \in Steps
    BY FamilyType
  <2> QED
    BY <1>2, <1>3, <1>4, <1>5, <1>7, <2>0
       DEF Helper, CreateHelper, DispatchHelper, MarkHelper, SendHelper, HelperAnswers,
           HelperReceipt, SettleHelper, FinishHelper, recordVars
<1>8. CASE Lane
  <2>0. Chats \subseteq Steps /\ Videos \subseteq Steps /\ Children \subseteq Steps
        /\ Chats \subseteq Requests /\ Videos \subseteq Requests
    BY DEF Requests, Steps
  <2>1. CASE LaneChatReceipt \/ LaneVideoReceipt \/ LaneHelperReceipt
    BY <1>3, <1>4, <2>0, <2>1 DEF LaneChatReceipt, LaneVideoReceipt, LaneHelperReceipt, On, recordVars
  <2>2. CASE LaneChatFinish
    BY <1>0, <1>2, <1>4, <2>0, <2>2 DEF LaneChatFinish, On, recordVars
  <2>3. CASE LaneVideoFinish
    BY <1>2, <1>4, <2>0, <2>3 DEF LaneVideoFinish, On, recordVars
  <2> QED
    BY <1>4, <1>8, <2>1, <2>2, <2>3
       DEF Lane, LaneAdopt, BindTask, LaneInsert, LaneSettleHelper, recordVars
<1>9. ASSUME NEW t \in Pollers, Poll(t) PROVE operation'[r] # "settled"
  <2>0. Videos \subseteq Steps /\ Videos \subseteq Requests
    BY DEF Requests, Steps
  <2> QED
    BY <1>2, <1>3, <1>4, <1>9, <2>0 DEF Poll, JobReceipt, JobFinish, JobClose, On, recordVars
<1>10. ASSUME NEW q \in Requests, SettleOrphan(q) PROVE operation'[r] # "settled"
  <2>1. q # r
    BY <1>1, <1>10 DEF SettleOrphan, StartedBefore
  <2> QED
    BY <1>2, <1>10, <2>1 DEF SettleOrphan
<1> QED
  BY <1>4, <1>6, <1>7, <1>8, <1>9, <1>10
     DEF Next, LanePick, Publish, JobPick, LostJobPoll, Generate, Grant, Restart, recordVars

-----------------------------------------------------------------------------
(* Where a handler is, and what it may rely on there.                      *)

LEMMA AnotherThread ==
  ASSUME Inv, Next, NEW r \in Requests
  PROVE  \/ at'[r] = at[r] /\ UNCHANGED old
         \/ Handler(r) \/ (r \in Seedances /\ Helper(r)) \/ Restart
<1>0. at \in [Requests -> Stages]
  BY TypeParts DEF Inv, PlaceType
<1>1. ASSUME NEW q, q # r, NEW stage, Go(q, stage) PROVE at'[r] = at[r]
  BY <1>0, <1>1 DEF Go
<1>2. ASSUME NEW q, q # r, Handler(q) PROVE at'[r] = at[r] /\ UNCHANGED old
  BY <1>1, <1>2 DEF Handler, GiveUp, Arrive, Admit, Refuse, EndRefused, MarkOwn,
     DispatchOwn, SendOwn, ChatAnswers, ChatReceipt, ChatFinish, VideoAnswers, BindOwn, AcceptJob,
     RejectionReceipt, FinishRejected, processVars
<1>3. ASSUME NEW q, q # r, Helper(q) PROVE at'[r] = at[r] /\ UNCHANGED old
  BY <1>1, <1>3 DEF Helper, GiveUp, CreateHelper, DispatchHelper, MarkHelper, SendHelper,
     HelperAnswers, HelperReceipt, SettleHelper, FinishHelper, processVars
<1>4. Lane => UNCHANGED <<at, old>>
  BY DEF Lane, LaneChatReceipt, LaneChatFinish, LaneAdopt, LaneInsert,
     LaneVideoReceipt, LaneVideoFinish, LaneHelperReceipt, LaneSettleHelper, processVars
<1>5. \A t : Poll(t) => UNCHANGED <<at, old>>
  BY DEF Poll, JobReceipt, JobFinish, JobClose, processVars
<1> QED
  BY <1>2, <1>3, <1>4, <1>5 DEF Next, SettleOrphan, LanePick, Publish, JobPick, LostJobPoll,
     Generate, Grant, processVars

LEMMA GoAt == ASSUME Inv, NEW r \in Requests, NEW stage, Go(r, stage) PROVE at'[r] = stage
BY TypeParts DEF Inv, PlaceType, Go

LEMMA OwnHandler ==
  ASSUME Inv, Next, NEW r \in Requests, Handler(r)
  PROVE  OwnPlace(r)'
<1> USE DEF OwnPlace, Unadmitted, HelperUnmarked, OwnUnmarked
<1>0. OwnPlace(r) /\ r \in Steps /\ RecordType /\ (step[r] = "absent" => wire[r] = "idle")
  BY FamilyType DEF Inv, Places, StoreInv, StepOrder
<1>1. old' = old /\ at[r] # "done" /\ r \notin old
  BY <1>0 DEF Handler, Arrive, Admit, Refuse, EndRefused, MarkOwn, DispatchOwn, SendOwn,
     ChatAnswers, ChatReceipt, ChatFinish, VideoAnswers, BindOwn, AcceptJob, RejectionReceipt,
     FinishRejected, processVars
<1>2. CASE Arrive(r) \/ Refuse(r)
  BY <1>0, <1>1, <1>2, GoAt DEF Arrive, Refuse, recordVars, bridgeVars
<1>3. CASE Admit(r)
  BY <1>0, <1>1, <1>3, GoAt DEF Admit, bridgeVars
<1>4. CASE MarkOwn(r)
  <2>1. CASE MarkStep(r)
    <3>1. step'[r] = "pending" /\ wire'[r] = "idle" /\ at'[r] \in {"dispatch", "done"}
      BY <1>0, <1>4, <2>1, GoAt DEF MarkOwn, MarkStep, Markable, GiveUp, RecordType, bridgeVars
    <3> QED
      BY <1>1, <3>1
  <2> QED
    BY <1>1, <1>4, <2>1, GoAt DEF MarkOwn, GiveUp
<1>5. CASE DispatchOwn(r)
  BY <1>0, <1>1, <1>5, GoAt DEF DispatchOwn, GiveUp, recordVars, bridgeVars
<1>6. at'[r] \in {"await", "settle", "finishChat", "bind", "accept", "rejected", "finishRejected",
                  "done"}
      => OwnPlace(r)'
  BY <1>1
<1> QED
  BY <1>2, <1>3, <1>4, <1>5, <1>6, GoAt DEF Handler, GiveUp, EndRefused, SendOwn, ChatAnswers,
     ChatReceipt, ChatFinish, VideoAnswers, BindOwn, AcceptJob, RejectionReceipt, FinishRejected

LEMMA OwnHelper ==
  ASSUME Inv, Next, NEW r \in Seedances, Helper(r)
  PROVE  OwnPlace(r)' /\ HelperPlace(r, ChildOf(r))'
<1> DEFINE c == ChildOf(r)
<1>0. /\ r \in Requests /\ r \in Steps /\ c \in Steps /\ c # r /\ RecordType /\ c' = c
      /\ OwnPlace(r) /\ HelperPlace(r, c) /\ (step[c] = "absent" => wire[c] = "idle")
  BY FamilyType DEF Inv, Places, StoreInv, StepOrder, ChildOf
<1> HIDE DEF c
<1>1. /\ old' = old /\ r \notin old
      /\ at[r] \in {"helper", "dispatchHelper", "markHelper", "sendHelper", "awaitHelper",
                    "helped", "unhelped", "paidHelp", "paidUnhelped", "finishHelper"}
      /\ at'[r] \in {"dispatchHelper", "markHelper", "sendHelper", "awaitHelper", "helped",
                     "unhelped", "paidHelp", "paidUnhelped", "finishHelper", "mark", "done"}
  BY <1>0, GoAt DEF OwnPlace, Helper, GiveUp, CreateHelper, DispatchHelper, MarkHelper,
     SendHelper, HelperAnswers, HelperReceipt, SettleHelper, FinishHelper, processVars
<1>2. Untouched(r)
  BY <1>0, HelperUntouched DEF c
<1>3. OwnPlace(r)'
  BY <1>0, <1>1, <1>2 DEF OwnPlace, Unadmitted, HelperUnmarked, OwnUnmarked, Untouched
<1> USE DEF HelperPlace, Unadmitted, HelperUnmarked
<1>4. ASSUME CreateHelper(r) \/ DispatchHelper(r) PROVE HelperPlace(r, c)'
  <2>1. UNCHANGED <<step, wire>> /\ at[r] \in HelperUnmarked /\ at'[r] \in HelperUnmarked
    BY <1>0, <1>4, GoAt DEF CreateHelper, DispatchHelper, recordVars, bridgeVars
  <2> QED
    BY <1>0, <2>1
<1>5. ASSUME MarkHelper(r) PROVE HelperPlace(r, c)'
  <2>1. step'[c] = "pending" /\ wire'[c] = "idle" /\ at'[r] = "sendHelper"
    BY <1>0, <1>5, GoAt DEF MarkHelper, MarkStep, Markable, RecordType, bridgeVars, c
  <2> QED
    BY <1>0, <2>1
<1>6. at'[r] \in {"awaitHelper", "helped", "unhelped", "paidHelp", "paidUnhelped", "finishHelper",
                  "mark", "done"}
      => HelperPlace(r, c)'
  OBVIOUS
<1> HIDE DEF HelperPlace, Unadmitted, HelperUnmarked
<1>7. HelperPlace(r, c)'
  BY <1>0, <1>4, <1>5, <1>6, GoAt DEF Helper, GiveUp, SendHelper, HelperAnswers, HelperReceipt,
     SettleHelper, FinishHelper
<1> QED
  BY <1>0, <1>3, <1>7 DEF HelperPlace, c

LEMMA NextPlace == ASSUME Inv, Next PROVE Places'
<1>1. ASSUME NEW r \in Requests PROVE OwnPlace(r)'
  <2>0. OwnPlace(r) /\ r \in Steps /\ \A q \in Seedances : r # ChildOf(q)
    BY FamilyType, ControlledIdentities DEF Inv, Places
  <2>1. CASE at'[r] = at[r] /\ UNCHANGED old /\ ~Handler(r)
    <3>1. Untouched(r)
      BY <2>0, <2>1, OthersSteps
    <3>2. operation[r] = "absent" => operation'[r] = "absent"
      BY <2>1, OthersOperation DEF Handler
    <3> QED
      BY <2>0, <2>1, <3>1, <3>2 DEF OwnPlace, Untouched
  <2>2. CASE Restart
    <3>1. IF at[r] = "new" THEN at'[r] = "new" /\ r \notin old' ELSE at'[r] = "done"
      BY <2>0, <2>2 DEF Restart, OwnPlace, Unadmitted
    <3>2. UNCHANGED <<operation, step, wire>>
      BY <2>2 DEF Restart, recordVars, bridgeVars
    <3> QED
      BY <2>0, <3>1, <3>2 DEF OwnPlace, Unadmitted, HelperUnmarked, OwnUnmarked
  <2> QED
    BY <2>1, <2>2, AnotherThread, OwnHandler, OwnHelper
<1>2. ASSUME NEW r \in Seedances PROVE HelperPlace(r, ChildOf(r))'
  <2> DEFINE c == ChildOf(r)
  <2>0. /\ HelperPlace(r, c) /\ r \in Requests /\ c \in Steps /\ c \notin Requests /\ c' = c
        /\ \A q \in Seedances : c = ChildOf(q) => q = r
    BY FamilyType, ChildIsOne, ControlledIdentities DEF Inv, Places, ChildOf
  <2> HIDE DEF c
  <2> SUFFICES HelperPlace(r, c)'
    BY <2>0 DEF HelperPlace, c
  <2>1. CASE at'[r] = at[r] /\ ~Helper(r)
    <3>1. Untouched(c)
      BY <2>0, <2>1, OthersSteps
    <3> QED
      BY <2>0, <2>1, <3>1 DEF HelperPlace, Untouched
  <2>2. CASE Restart
    <3>1. at'[r] = IF at[r] = "new" THEN "new" ELSE "done"
      BY <2>0, <2>2 DEF Restart
    <3>2. UNCHANGED <<step, wire>>
      BY <2>2 DEF Restart, recordVars, bridgeVars
    <3> QED
      BY <2>0, <3>1, <3>2 DEF HelperPlace, Unadmitted, HelperUnmarked
  <2>3. CASE Handler(r) /\ ~Helper(r)
    <3>1. Untouched(c)
      BY <2>0, <2>3, OthersSteps
    <3>2. at'[r] \in HelperUnmarked => at[r] \in HelperUnmarked
      BY <2>0, <2>3, GoAt DEF Unadmitted, HelperUnmarked, Handler, GiveUp, Arrive, Admit, Refuse,
         EndRefused, MarkOwn, DispatchOwn, SendOwn, ChatAnswers, ChatReceipt, ChatFinish,
         VideoAnswers, BindOwn, AcceptJob, RejectionReceipt, FinishRejected
    <3>3. at'[r] # "sendHelper"
      BY <2>0, <2>3, GoAt DEF Handler, GiveUp, Arrive, Admit, Refuse,
         EndRefused, MarkOwn, DispatchOwn, SendOwn, ChatAnswers, ChatReceipt, ChatFinish,
         VideoAnswers, BindOwn, AcceptJob, RejectionReceipt, FinishRejected
    <3> QED
      BY <2>0, <3>1, <3>2, <3>3 DEF HelperPlace, Untouched
  <2>4. CASE Helper(r)
    BY <2>0, <2>4, OwnHelper DEF HelperPlace, c
  <2> QED
    BY <2>0, <2>1, <2>2, <2>3, <2>4, AnotherThread
<1> QED
  BY <1>1, <1>2 DEF Places

-----------------------------------------------------------------------------
(* The live chain.                                                         *)

Live == {"helper", "dispatchHelper", "markHelper", "sendHelper", "awaitHelper", "helped",
         "paidHelp", "mark", "dispatch", "send"}

LEMMA NextChain == ASSUME Inv, Next PROVE LiveChainOpen'
<1> SUFFICES ASSUME NEW r \in Seedances, at'[r] \in Live PROVE operation'[r] # "settled"
  BY DEF LiveChainOpen, Live
<1>0. r \in Requests /\ r \in Steps /\ ChildOf(r) \in Steps /\ Parent(ChildOf(r)) = r /\ StoreInv
      /\ Parent(r) = r
  BY FamilyType DEF Inv
<1>1. at[r] \in Live => wire[r] = "idle" /\ operation[r] # "settled" /\ at[r] # "done"
  BY <1>0 DEF Inv, LiveChainOpen, Live, Places, OwnPlace, OwnUnmarked, HelperUnmarked, StoreInv, StepOrder
<1>2. CASE at'[r] = at[r] /\ ~Handler(r) /\ ~Helper(r)
  BY <1>1, <1>2, OthersSettle
<1>3. CASE Restart
  <2>1. at'[r] \in {"new", "done"}
    BY <1>0, <1>3 DEF Restart
  <2> QED
    BY <2>1 DEF Live
<1>4. CASE Handler(r)
  <2>1. CASE Admit(r)
    BY <1>0, <2>1 DEF Admit, BeginOperation, StoreInv, RecordType
  <2>2. CASE MarkOwn(r)
    BY <1>0, <2>2, GoAt DEF MarkOwn, MarkStep, GiveUp, StoreInv, RecordType, Live
  <2>3. CASE DispatchOwn(r)
    BY <1>0, <1>1, <2>3, GoAt DEF DispatchOwn, GiveUp, Live, recordVars
  <2>4. CASE ~Admit(r) /\ ~MarkOwn(r) /\ ~DispatchOwn(r)
    <3>1. at'[r] \notin Live
      BY <1>0, <1>4, <2>4, GoAt DEF Live, Handler, GiveUp, Arrive, Refuse, EndRefused, SendOwn,
         ChatAnswers, ChatReceipt, ChatFinish, VideoAnswers, BindOwn, AcceptJob,
         RejectionReceipt, FinishRejected
    <3> QED
      BY <3>1
  <2> QED
    BY <2>1, <2>2, <2>3, <2>4
<1>5. CASE Helper(r)
  <2>1. CASE MarkHelper(r)
    BY <1>0, <2>1 DEF MarkHelper, MarkStep, StoreInv, RecordType
  <2>2. CASE HelperReceipt(r)
    <3>1. at[r] \in Live
      BY <1>0, <2>2, GoAt DEF HelperReceipt, GiveUp, Live
    <3> QED
      BY <1>0, <1>1, <2>2, <3>1, RecordOpen DEF HelperReceipt, recordVars
  <2>3. CASE FinishHelper(r)
    BY <1>0, <2>3, GoAt DEF FinishHelper, Live
  <2>4. CASE CreateHelper(r) \/ DispatchHelper(r) \/ SendHelper(r) \/ HelperAnswers(r) \/ SettleHelper(r)
    <3>1. at[r] \in Live /\ UNCHANGED operation
      BY <1>0, <2>4, GoAt DEF CreateHelper, DispatchHelper, SendHelper, HelperAnswers, SettleHelper,
         GiveUp, Live, recordVars
    <3> QED
      BY <1>1, <3>1
  <2> QED
    BY <1>5, <2>1, <2>2, <2>3, <2>4 DEF Helper
<1> QED
  BY <1>0, <1>2, <1>3, <1>4, <1>5, AnotherThread

-----------------------------------------------------------------------------
(* The invariant, and what follows from it.                                *)

LEMMA InitInv == ASSUME Init PROVE Inv
<1>1. RequestType /\ RecordType /\ BridgeType
  BY DEF Init, RequestType, RecordType, BridgeType
<1>2. MoneyType /\ RestType
  BY ControlledAmounts DEF Init, MoneyType, RestType
<1>3. PlaceType
  BY WorkType DEF Init, PlaceType, Stages
<1>4. Books /\ OnlyOpen /\ ClosedCoversSent /\ NothingPending /\ LiveChainOpen /\ StepOrder /\ Unfrozen
  BY FamilyType DEF Init, Books, OnlyOpen, ClosedCoversSent, NothingPending, LiveChainOpen, StepOrder,
     Unfrozen, Open
<1>5. Places
  BY FamilyType DEF Init, Places, OwnPlace, HelperPlace
<1> QED
  BY <1>1, <1>2, <1>3, <1>4, <1>5, TypeParts DEF Inv, StoreInv

LEMMA StutterInv == ASSUME Inv, UNCHANGED vars PROVE Inv'
<1> USE DEF vars, recordVars, moneyVars, jobVars, processVars, bridgeVars
<1>1. StoreInv'
  BY RestInv DEF Inv, Rest, Quiet
<1>2. TypeOK' /\ LiveChainOpen'
  BY DEF Inv, TypeOK, LiveChainOpen
<1>3. Places'
  BY DEF Inv, Places, OwnPlace, HelperPlace, ChildOf
<1> QED
  BY <1>1, <1>2, <1>3 DEF Inv

\* The invariant is inductive: it holds at first and every step keeps it.
THEOREM Inductive == Spec => []Inv
<1>1. Init => Inv
  BY InitInv
<1>2. Inv /\ [Next]_vars => Inv'
  <2> SUFFICES ASSUME Inv, [Next]_vars PROVE Inv'
    OBVIOUS
  <2>1. CASE Next
    <3>1. StoreInv'
      BY <2>1, NextStore, StoreStepInv DEF Inv
    <3>2. TypeOK'
      BY <2>1, <3>1, NextRequest, NextRest, NextPlaces
         DEF StoreInv, TypeOK, RequestType, RecordType, MoneyType, BridgeType, RestType, PlaceType
    <3> QED
      BY <2>1, <3>1, <3>2, NextChain, NextPlace DEF Inv
  <2> QED
    BY <2>1, StutterInv
<1> QED
  BY <1>1, <1>2, PTL DEF Spec

\* Every variable keeps its type and no operation holds nothing: what a key has left is a
\* number, and begin_controlled_operation refuses a key that has none of it.
THEOREM Types == Spec => []TypeOK
<1>1. Inv => TypeOK
  BY DEF Inv
<1> QED
  BY <1>1, Inductive, PTL

\* The ledger of a request says what its operation says, for any hold and any receipts and
\* however often finish_controlled_operation is repeated by whichever thread.
THEOREM Ledger == Spec => []Books
<1>1. Inv => Books
  BY DEF Inv, StoreInv
<1> QED
  BY <1>1, Inductive, PTL

\* A settled operation charged the sum of the receipts of all its steps, and none of its steps
\* reached the bridge without a receipt, nor ever will.
THEOREM Charged == Spec => []ClosedCoversSent
<1>1. Inv => ClosedCoversSent
  BY DEF Inv, StoreInv
<1> QED
  BY <1>1, Inductive, PTL

LEMMA OnlyOneOpen == ASSUME Inv PROVE OneOpenPerKey
<1> SUFFICES ASSUME NEW k \in Keys PROVE Cardinality(OpenOperations(k)) <= 1
  BY DEF OneOpenPerKey
<1>1. CASE OpenOperations(k) = {}
  BY <1>1, FS_EmptySet
<1>2. ASSUME NEW r \in OpenOperations(k) PROVE Cardinality(OpenOperations(k)) <= 1
  <2>1. OpenOperations(k) = {r}
    BY <1>2 DEF Inv, StoreInv, OnlyOpen, OpenOperations
  <2>2. Cardinality(OpenOperations(k)) = 1
    BY <2>1, FS_Singleton, Zenon
  <2> QED
    BY <2>2
<1> QED
  BY <1>1, <1>2

\* A key has one open operation at most, whatever is granted to it meanwhile
\* (begin_controlled_operation, already_running).
THEOREM OneOpen == Spec => []OneOpenPerKey
<1>1. Inv => OneOpenPerKey
  BY OnlyOneOpen
<1> QED
  BY <1>1, Inductive, PTL

\* No thread settles an operation beneath the handler that is between its helper and its
\* video (recoverable_undispatched_operations_before and its cutoff).
THEOREM ChainOpen == Spec => []LiveChainOpen
<1>1. Inv => LiveChainOpen
  BY DEF Inv
<1> QED
  BY <1>1, Inductive, PTL

LEMMA ThawedReceipts ==
  ASSUME Inv, NEW s \in Steps, KeyOf[Parent(s)] \notin blocks
  PROVE  Cardinality(receipts[s]) <= 1
<1>1. receipts[s] = {} \/ receipts[s] = {proof[s]}
  BY DEF Inv, StoreInv, RecordType, Unfrozen, StepOrder
<1>2. Cardinality(receipts[s]) \in {0, 1}
  BY <1>1, FS_EmptySet, FS_Singleton, Zenon
<1> QED
  BY <1>2

\* A key of which two receipts contradicted each other, or whose operation cost more than it
\* held, never begins another operation (api_key_billing_blocks).
THEOREM FrozenStays == Spec => FrozenKeysStartNothing
<1> DEFINE A == \A r \in Requests :
                  operation[r] = "absent" /\ operation'[r] # "absent" =>
                    \A q \in Requests : KeyOf[q] = KeyOf[r] =>
                      /\ operation[q] = "settled" => charged[q] <= held[q]
                      /\ \A s \in StepsOf(q) : Cardinality(receipts[s]) <= 1
<1>1. Inv /\ [Next]_vars => [A]_vars
  <2> SUFFICES ASSUME Inv, Next, NEW r \in Requests, operation[r] = "absent", operation'[r] # "absent",
                      NEW q \in Requests, KeyOf[q] = KeyOf[r]
               PROVE  /\ operation[q] = "settled" => charged[q] <= held[q]
                      /\ \A s \in StepsOf(q) : Cardinality(receipts[s]) <= 1
    OBVIOUS
  <2>1. KeyOf[q] \notin blocks
    BY OthersOperation DEF Admit, BeginOperation, Admissible
  <2>2. \A s \in StepsOf(q) : Cardinality(receipts[s]) <= 1
    BY <2>1, ThawedReceipts DEF StepsOf
  <2> QED
    BY <2>1, <2>2 DEF Inv, StoreInv, Unfrozen
<1> QED
  BY <1>1, Inductive, PTL DEF Spec, FrozenKeysStartNothing
=============================================================================
