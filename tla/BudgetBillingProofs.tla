------------------------- MODULE BudgetBillingProofs -------------------------
(***************************************************************************)
(* What holds of Budget V2 for any number of requests, keys and users, any *)
(* amounts, any receipts and any order of the calls.                       *)
(***************************************************************************)
EXTENDS BudgetBilling, TLAPS

USE DEF Parents, Requests, Accounts

\* A request is billed to the operation of a client request and to the key that sent it.
LEMMA OwnerType ==
  ASSUME NEW r \in Requests
  PROVE  Operation(r) \in Parents /\ Key(r) \in Keys /\ AccountsOf(r) \subseteq Accounts
BY IdentityAssumption DEF Operation, Key, AccountsOf

LEMMA PostType ==
  ASSUME MoneyTypeOK, NEW r \in Requests, NEW row \in LedgerRow, Post(r, row)
  PROVE  ledger' \in [Accounts -> [Requests -> Seq(LedgerRow)]]
<1>1. SUFFICES ASSUME NEW a \in Accounts
               PROVE  [ledger[a] EXCEPT ![r] = Append(@, row)] \in [Requests -> Seq(LedgerRow)]
  BY DEF Post, MoneyTypeOK
<1>2. ledger[a] \in [Requests -> Seq(LedgerRow)]
  BY DEF MoneyTypeOK
<1>3. Append(ledger[a][r], row) \in Seq(LedgerRow)
  BY <1>2
<1> QED
  BY <1>2, <1>3

LEMMA RecordType ==
  ASSUME ReceiptTypeOK, NEW r \in Requests,
         NEW kind \in {"receipt", "conflict"}, NEW hash \in Receipt \cup OpaqueHashes,
         NEW amount \in Nat \cup {NoActual}, Record(r, EvidenceRow(kind, hash, amount))
  PROVE  evidence' \in [Requests -> SUBSET [kind : {"receipt", "conflict"},
                                            hash : Receipt \cup OpaqueHashes,
                                            actual : Nat \cup {NoActual}]]
BY DEF ReceiptTypeOK, Record, EvidenceRow

-----------------------------------------------------------------------------
(* Types.                                                                  *)

LEMMA InitType == Init => TypeOK
BY IdentityAssumption, AmountAssumption
   DEF Init, TypeOK, RequestTypeOK, StepTypeOK, MoneyTypeOK, ReceiptTypeOK, RequestState,
       ExecutionState, FinancialState, ReservationState

LEMMA RequestStepType == TypeOK /\ RequestStep => TypeOK'
<1> SUFFICES ASSUME TypeOK, RequestStep PROVE TypeOK'
  OBVIOUS
<1> USE DEF TypeOK, RequestTypeOK, StepTypeOK, MoneyTypeOK, ReceiptTypeOK, RequestState,
            requestVars, stepVars, moneyVars, receiptVars
<1>1. ASSUME NEW p \in Parents, BeginRequest(p) PROVE TypeOK'
  BY <1>1 DEF BeginRequest, InsertRequest
<1>2. ASSUME NEW p \in Parents, FinishUnadmitted(p) PROVE TypeOK'
  BY <1>2 DEF FinishUnadmitted, FailRequests, Terminal
<1>3. ASSUME NEW c \in Children, BeginAssist(c) PROVE TypeOK'
  BY <1>3 DEF BeginAssist, InsertRequest
<1>4. ASSUME NEW c \in Children, AbortPreparation(c) PROVE TypeOK'
  BY <1>4 DEF AbortPreparation, FailPreparations, Terminal
<1>5. ASSUME NEW cutoff \in 0..clock, RecoverPreparations(cutoff) PROVE TypeOK'
  BY <1>5 DEF RecoverPreparations, FailPreparations, Terminal
<1>6. ASSUME NEW cutoff \in 0..clock, RecoverPreDispatch(cutoff) PROVE TypeOK'
  BY <1>6 DEF RecoverPreDispatch, FailRequests, Terminal
<1> QED
  BY <1>1, <1>2, <1>3, <1>4, <1>5, <1>6 DEF RequestStep

LEMMA ReserveType ==
  ASSUME TypeOK, NEW r \in Requests, NEW amount \in Nat, Reserve(r, amount)
  PROVE  MoneyTypeOK'
<1>1. Row("reserve", amount, -amount, 1) \in LedgerRow
  BY DEF Row, LedgerRow
<1>2. ledger' \in [Accounts -> [Requests -> Seq(LedgerRow)]]
  BY <1>1, PostType DEF Reserve, TypeOK
<1> QED
  BY <1>2 DEF Reserve, TypeOK, MoneyTypeOK, ReservationState

LEMMA InsertStepType ==
  ASSUME TypeOK, NEW r \in Requests, NEW amount \in Nat, NEW lifetime \in Nat,
         InsertStep(r, amount, lifetime)
  PROVE  StepTypeOK'
BY DEF InsertStep, TypeOK, StepTypeOK, ExecutionState, Active, FinancialState

LEMMA BudgetStepType == TypeOK /\ BudgetStep => TypeOK'
<1> SUFFICES ASSUME TypeOK, BudgetStep PROVE TypeOK'
  OBVIOUS
<1>0. HoldChoices \subseteq Nat /\ Lifetimes \subseteq Nat
  BY AmountAssumption
<1>1. ASSUME NEW r \in Requests, NEW amount \in HoldChoices, NEW lifetime \in Lifetimes,
             BeginOperation(r, amount, lifetime)
      PROVE  TypeOK'
  <2>1. MoneyTypeOK' /\ StepTypeOK'
    BY <1>0, <1>1, ReserveType, InsertStepType DEF BeginOperation
  <2> QED
    BY <1>1, <2>1 DEF BeginOperation, AdmitPreparation, TypeOK, RequestTypeOK, RequestState,
       ExecutionState, Active, ReceiptTypeOK, receiptVars
<1>2. ASSUME NEW p \in Parents, NEW amount \in HoldChoices, NEW lifetime \in Lifetimes,
             AddStep(p, amount, lifetime)
      PROVE  TypeOK'
  <2>1. MoneyTypeOK' /\ StepTypeOK'
    BY <1>0, <1>2, ReserveType, InsertStepType DEF AddStep
  <2> QED
    BY <1>2, <2>1 DEF AddStep, TypeOK, RequestTypeOK, requestVars, ReceiptTypeOK, receiptVars
<1>3. ASSUME NEW r \in Requests, Dispatch(r) PROVE TypeOK'
  BY <1>3 DEF Dispatch, TypeOK, RequestTypeOK, RequestState, StepTypeOK, ExecutionState, Active,
     MoneyTypeOK, moneyVars, ReceiptTypeOK, receiptVars
<1>4. ASSUME NEW r \in Requests, Release(r) PROVE TypeOK'
  <2>1. Row("release", reserved[r], reserved[r], Len(revisions[r])) \in LedgerRow
    BY DEF Row, LedgerRow, TypeOK, MoneyTypeOK
  <2>2. ledger' \in [Accounts -> [Requests -> Seq(LedgerRow)]]
    BY <1>4, <2>1, PostType DEF Release, TypeOK
  <2>3. RequestTypeOK'
    BY <1>4 DEF Release, SyncAssist, TypeOK, RequestTypeOK, RequestState, Terminal
  <2>4. StepTypeOK'
    BY <1>4 DEF Release, TypeOK, StepTypeOK, ExecutionState, Terminal, FinancialState
  <2>5. MoneyTypeOK'
    BY <1>4, <2>2 DEF Release, TypeOK, MoneyTypeOK, ReservationState
  <2> QED
    BY <1>4, <2>3, <2>4, <2>5 DEF Release, TypeOK, ReceiptTypeOK, receiptVars
<1>5. ASSUME NEW r \in Requests, NEW amount \in HoldChoices, NEW lifetime \in Lifetimes,
             Refresh(r, amount, lifetime)
      PROVE  TypeOK'
  <2> DEFINE change == hold[r] - amount
  <2>1. Row("adjust", IF change < 0 THEN -change ELSE change, change, Len(revisions[r]) + 1)
          \in LedgerRow
    BY <1>0 DEF Row, LedgerRow, TypeOK, StepTypeOK, MoneyTypeOK
  <2>2. ledger' \in [Accounts -> [Requests -> Seq(LedgerRow)]]
    BY <1>5, <2>1, PostType DEF Refresh, TypeOK
  <2>3. Append(revisions[r], amount) \in Seq(Nat)
    BY <1>0 DEF TypeOK, MoneyTypeOK
  <2>4. RequestTypeOK'
    BY <1>5 DEF Refresh, TypeOK, RequestTypeOK, requestVars
  <2>5. StepTypeOK'
    BY <1>0, <1>5 DEF Refresh, TypeOK, StepTypeOK
  <2>6. MoneyTypeOK'
    BY <1>0, <1>5, <2>2, <2>3 DEF Refresh, TypeOK, MoneyTypeOK
  <2> QED
    BY <1>5, <2>4, <2>5, <2>6 DEF Refresh, TypeOK, ReceiptTypeOK, receiptVars
<1> QED
  BY <1>1, <1>2, <1>3, <1>4, <1>5 DEF BudgetStep

LEMMA ExecutionStepType == TypeOK /\ ExecutionStep => TypeOK'
<1> SUFFICES ASSUME TypeOK, ExecutionStep PROVE TypeOK'
  OBVIOUS
<1> USE DEF TypeOK, RequestTypeOK, StepTypeOK, MoneyTypeOK, ReceiptTypeOK, RequestState,
            ExecutionState, Active, Terminal, requestVars, stepVars, moneyVars, receiptVars
<1>1. ASSUME NEW r \in Videos, NEW t \in Tasks, BindTask(r, t) PROVE TypeOK'
  BY <1>1 DEF BindTask, Bindable
<1>2. ASSUME NEW r \in Requests, NEW next \in {"running", "unknown"} \cup Terminal,
             MarkExecution(r, next)
      PROVE  TypeOK'
  BY <1>2 DEF MarkExecution, SyncIfEnded, SyncAssist
<1>3. ASSUME NEW p \in Parents, NEW terminal \in Terminal, Finish(p, terminal) PROVE TypeOK'
  BY <1>3 DEF Finish, Finishable
<1> QED
  BY <1>1, <1>2, <1>3 DEF ExecutionStep

LEMMA QuarantineType ==
  ASSUME TypeOK, NEW r \in Requests, Quarantine(r)
  PROVE  RequestTypeOK' /\ StepTypeOK' /\ MoneyTypeOK' /\ blocks' \subseteq Keys
         /\ settlement' = settlement /\ activeKeys' = activeKeys /\ clock' = clock
BY OwnerType DEF Quarantine, StepInConflict, TypeOK, RequestTypeOK, StepTypeOK, FinancialState,
   MoneyTypeOK, ReceiptTypeOK, requestVars, moneyVars

LEMMA ReceiptStepType == TypeOK /\ ReceiptStep => TypeOK'
<1> SUFFICES ASSUME TypeOK, ReceiptStep PROVE TypeOK'
  OBVIOUS
<1>1. ASSUME NEW r \in Requests, NEW hash \in OpaqueHashes, MarkConflict(r, hash)
      PROVE  TypeOK'
  BY <1>1, RecordType, QuarantineType DEF MarkConflict, TypeOK, ReceiptTypeOK
<1>2. ASSUME NEW r \in Requests, NEW rc \in ReceiptsFor[r] PROVE rc \in Receipt
  BY <1>2, ReceiptAssumption
<1>3. ASSUME NEW rc \in Receipt PROVE rc.actual \in Nat \cup {NoActual}
  BY DEF Receipt
<1>4. ASSUME NEW r \in Requests, NEW rc \in ReceiptsFor[r], ConflictingReceipt(r, rc)
      PROVE  TypeOK'
  BY <1>2, <1>3, <1>4, RecordType, QuarantineType DEF ConflictingReceipt, TypeOK, ReceiptTypeOK
<1>5. ASSUME NEW r \in Requests, NEW rc \in ReceiptsFor[r], LatePendingReceipt(r, rc)
      PROVE  TypeOK'
  BY <1>2, <1>3, <1>5, RecordType DEF LatePendingReceipt, TypeOK, RequestTypeOK, StepTypeOK,
     MoneyTypeOK, ReceiptTypeOK, requestVars, stepVars, moneyVars
<1>6. ASSUME NEW r \in Requests, NEW rc \in ReceiptsFor[r], PendingReceipt(r, rc)
      PROVE  TypeOK'
  BY <1>2, <1>3, <1>6, RecordType DEF PendingReceipt, TypeOK, RequestTypeOK, StepTypeOK,
     FinancialState, MoneyTypeOK, ReservationState, ReceiptTypeOK, requestVars
<1>7. ASSUME NEW r \in Requests, NEW rc \in ReceiptsFor[r], SettlingReceipt(r, rc)
      PROVE  TypeOK'
  <2> DEFINE amount == NoChargeOrZero(rc.actual)
  <2>1. amount \in Nat
    BY <1>2, <1>3, <1>7 DEF NoChargeOrZero
  <2>2. Row("commit", amount, hold[r] - amount, Len(revisions[r])) \in LedgerRow
    BY <2>1 DEF Row, LedgerRow, TypeOK, StepTypeOK, MoneyTypeOK
  <2>3. ledger' \in [Accounts -> [Requests -> Seq(LedgerRow)]]
    BY <1>7, <2>2, PostType DEF SettlingReceipt, TypeOK
  <2>4. ReceiptTypeOK'
    BY <1>2, <1>7, <2>1, RecordType DEF SettlingReceipt, TypeOK, ReceiptTypeOK
  <2>5. RequestTypeOK'
    BY <1>7 DEF SettlingReceipt, TypeOK, RequestTypeOK, requestVars
  <2>6. StepTypeOK'
    BY <1>7, <2>1 DEF SettlingReceipt, TypeOK, StepTypeOK, FinancialState
  <2>7. MoneyTypeOK'
    BY <1>7, <2>3 DEF SettlingReceipt, TypeOK, MoneyTypeOK, ReservationState
  <2> QED
    BY <1>7, <2>4, <2>5, <2>6, <2>7 DEF SettlingReceipt, TypeOK
<1> QED
  BY <1>1, <1>4, <1>5, <1>6, <1>7 DEF ReceiptStep

LEMMA EnvironmentType == TypeOK /\ Environment => TypeOK'
<1> SUFFICES ASSUME TypeOK, Environment PROVE TypeOK'
  OBVIOUS
<1> USE DEF TypeOK, requestVars, stepVars, moneyVars, receiptVars
<1>1. RequestTypeOK' /\ StepTypeOK'
  BY DEF Environment, RevokeKey, Tick, RequestTypeOK, StepTypeOK
<1>2. MoneyTypeOK' /\ ReceiptTypeOK'
  BY DEF Environment, RevokeKey, Tick, MoneyTypeOK, ReceiptTypeOK
<1> QED
  BY <1>1, <1>2, AmountAssumption DEF Environment, RevokeKey, Tick

LEMMA StutterType == TypeOK /\ UNCHANGED vars => TypeOK'
BY DEF vars, TypeOK, RequestTypeOK, StepTypeOK, MoneyTypeOK,
   ReceiptTypeOK, requestVars, stepVars, moneyVars, receiptVars

LEMMA NextType == TypeOK /\ [Next]_vars => TypeOK'
BY RequestStepType, BudgetStepType, ExecutionStepType, ReceiptStepType, EnvironmentType,
   StutterType DEF Next

\* Whatever is called in whatever order, every column keeps its type, and a request comes
\* to rest only in a state Budget V2 means it to rest in.
THEOREM TypeCorrect == Spec => []TypeOK
BY InitType, NextType, PTL DEF Spec

-----------------------------------------------------------------------------
(* The rows of a step.                                                     *)

\* A step, its reservation and its financial columns are inserted together, and nothing
\* is sent before: what the invariants below need to know about rows not there yet.
RowsTogether ==
  \A r \in Requests :
    /\ execution[r] = "absent" <=> reservation[r] = "absent"
    /\ reservation[r] = "absent" => ~attempted[r]

LEMMA InitRows == Init => RowsTogether
BY DEF Init, RowsTogether

LEMMA NextRows == TypeOK /\ RowsTogether /\ [Next]_vars => RowsTogether'
<1> SUFFICES ASSUME TypeOK, RowsTogether, [Next]_vars PROVE RowsTogether'
  OBVIOUS
<1> USE DEF TypeOK, StepTypeOK, MoneyTypeOK, RowsTogether
<1>1. ASSUME UNCHANGED <<execution, attempted, reservation>> PROVE RowsTogether'
  BY <1>1
<1>2. CASE RequestStep
  BY <1>1, <1>2 DEF RequestStep, BeginRequest, FinishUnadmitted, FailRequests, BeginAssist,
     AbortPreparation, FailPreparations, RecoverPreparations, RecoverPreDispatch, stepVars, moneyVars
<1>3. CASE BudgetStep
  <2>1. ASSUME NEW r \in Requests, NEW amount \in HoldChoices, NEW lifetime \in Lifetimes,
               BeginOperation(r, amount, lifetime)
        PROVE  RowsTogether'
    BY <2>1 DEF BeginOperation, Reserve, InsertStep
  <2>2. ASSUME NEW p \in Parents, NEW amount \in HoldChoices, NEW lifetime \in Lifetimes,
               AddStep(p, amount, lifetime)
        PROVE  RowsTogether'
    BY <2>2 DEF AddStep, Reserve, InsertStep
  <2>3. ASSUME NEW r \in Requests, Dispatch(r) PROVE RowsTogether'
    BY <2>3 DEF Dispatch, moneyVars
  <2>4. ASSUME NEW r \in Requests, Release(r) PROVE RowsTogether'
    BY <2>4 DEF Release, Releasable
  <2>5. ASSUME NEW r \in Requests, NEW amount \in HoldChoices, NEW lifetime \in Lifetimes,
               Refresh(r, amount, lifetime)
        PROVE  RowsTogether'
    BY <2>5 DEF Refresh
  <2> QED
    BY <1>3, <2>1, <2>2, <2>3, <2>4, <2>5 DEF BudgetStep
<1>4. CASE ExecutionStep
  <2>1. ASSUME NEW r \in Requests, NEW next \in {"running", "unknown"} \cup Terminal,
               MarkExecution(r, next)
        PROVE  RowsTogether'
    BY <2>1 DEF MarkExecution, Reportable, Active, Terminal, moneyVars
  <2> QED
    BY <1>1, <1>4, <2>1 DEF ExecutionStep, BindTask, Bindable, Finish, Finishable, stepVars, moneyVars
<1>5. CASE ReceiptStep
  <2>1. ASSUME NEW r \in Requests, NEW rc \in ReceiptsFor[r], PendingReceipt(r, rc)
        PROVE  RowsTogether'
    BY <2>1 DEF PendingReceipt, OpenReservation
  <2>2. ASSUME NEW r \in Requests, NEW rc \in ReceiptsFor[r], SettlingReceipt(r, rc)
        PROVE  RowsTogether'
    BY <2>2 DEF SettlingReceipt, Settleable, OpenReservation
  <2> QED
    BY <1>1, <1>5, <2>1, <2>2 DEF ReceiptStep, MarkConflict, ConflictingReceipt, Quarantine,
       LatePendingReceipt, stepVars, moneyVars
<1>6. CASE Environment
  BY <1>1, <1>6 DEF Environment, RevokeKey, Tick, stepVars, moneyVars
<1>7. CASE UNCHANGED vars
  BY <1>1, <1>7 DEF vars, stepVars, moneyVars
<1> QED
  BY <1>2, <1>3, <1>4, <1>5, <1>6, <1>7 DEF Next

LEMMA RowsCorrect == Spec => []RowsTogether
BY InitRows, NextRows, TypeCorrect, PTL DEF Spec

\* Every way requests are given up fails whole preparations, or requests nothing points at.
LEMMA RequestStepCases ==
  ASSUME RequestStep
  PROVE  \/ \E p \in Parents : BeginRequest(p)
         \/ \E c \in Children : BeginAssist(c)
         \/ \E cs \in SUBSET Children : (\A c \in cs : OpenPreparation(c)) /\ FailPreparations(cs)
         \/ \E ps \in SUBSET Parents : (\A p \in ps : Unowned(p)) /\ FailRequests(ps)
<1>1. ASSUME NEW c \in Children, AbortPreparation(c)
      PROVE  \E cs \in SUBSET Children : (\A d \in cs : OpenPreparation(d)) /\ FailPreparations(cs)
  <2> WITNESS {c} \in SUBSET Children
  <2> QED
    BY <1>1 DEF AbortPreparation
<1>2. ASSUME NEW cutoff \in 0..clock, RecoverPreparations(cutoff)
      PROVE  \E cs \in SUBSET Children : (\A d \in cs : OpenPreparation(d)) /\ FailPreparations(cs)
  <2> WITNESS {c \in Children : OpenPreparation(c) /\ createdAt[c] < cutoff} \in SUBSET Children
  <2> QED
    BY <1>2 DEF RecoverPreparations
<1>3. ASSUME NEW p \in Parents, FinishUnadmitted(p)
      PROVE  \E ps \in SUBSET Parents : (\A q \in ps : Unowned(q)) /\ FailRequests(ps)
  <2> WITNESS {p} \in SUBSET Parents
  <2> QED
    BY <1>3 DEF FinishUnadmitted
<1>4. ASSUME NEW cutoff \in 0..clock, RecoverPreDispatch(cutoff)
      PROVE  \E ps \in SUBSET Parents : (\A q \in ps : Unowned(q)) /\ FailRequests(ps)
  <2> WITNESS {p \in Parents : Unowned(p) /\ createdAt[p] < cutoff} \in SUBSET Parents
  <2> QED
    BY <1>4 DEF RecoverPreDispatch
<1> QED
  BY <1>1, <1>2, <1>3, <1>4 DEF RequestStep

-----------------------------------------------------------------------------
(* Preparations.                                                           *)

LEMMA NextPreparation ==
  TypeOK /\ RowsTogether /\ PreparationSettledOnce /\ [Next]_vars => PreparationSettledOnce'
<1> SUFFICES ASSUME TypeOK, RowsTogether, PreparationSettledOnce, [Next]_vars
             PROVE  PreparationSettledOnce'
  OBVIOUS
<1> USE IdentityAssumption DEF PreparationSettledOnce
<1>1. ASSUME UNCHANGED <<preparation, execution, operation, request>>
      PROVE  PreparationSettledOnce'
  BY <1>1
<1>2. CASE RequestStep
  <2> USE DEF TypeOK, RequestTypeOK, RequestState, stepVars
  <2>1. ASSUME NEW p \in Parents, BeginRequest(p) PROVE PreparationSettledOnce'
    BY <2>1 DEF BeginRequest, InsertRequest
  <2>2. ASSUME NEW c \in Children, BeginAssist(c) PROVE PreparationSettledOnce'
    BY <2>2 DEF BeginAssist, InsertRequest
  <2>3. ASSUME NEW cs \in SUBSET Children, \A c \in cs : OpenPreparation(c), FailPreparations(cs)
        PROVE  PreparationSettledOnce'
    BY <2>3 DEF FailPreparations, OpenPreparation, Unadmitted
  <2>4. ASSUME NEW ps \in SUBSET Parents, \A p \in ps : Unowned(p), FailRequests(ps)
        PROVE  PreparationSettledOnce'
    BY <2>4 DEF FailRequests, Unowned
  <2> QED
    BY <1>2, <2>1, <2>2, <2>3, <2>4, RequestStepCases
<1>3. CASE BudgetStep
  <2> USE DEF TypeOK, RequestTypeOK, StepTypeOK, Operation
  <2>1. ASSUME NEW r \in Requests, NEW amount \in HoldChoices, NEW lifetime \in Lifetimes,
               BeginOperation(r, amount, lifetime)
        PROVE  PreparationSettledOnce'
    BY <2>1 DEF BeginOperation, PreparationAllows, AdmitPreparation, InsertStep
  <2>2. ASSUME NEW p \in Parents, NEW amount \in HoldChoices, NEW lifetime \in Lifetimes,
               AddStep(p, amount, lifetime)
        PROVE  PreparationSettledOnce'
    BY <2>2 DEF AddStep, InsertStep, requestVars
  <2>3. ASSUME NEW r \in Requests, Dispatch(r) PROVE PreparationSettledOnce'
    BY <2>3 DEF Dispatch
  <2>4. ASSUME NEW r \in Requests, Release(r) PROVE PreparationSettledOnce'
    BY <2>4 DEF Release, SyncAssist
  <2>5. ASSUME NEW r \in Requests, NEW amount \in HoldChoices, NEW lifetime \in Lifetimes,
               Refresh(r, amount, lifetime)
        PROVE  PreparationSettledOnce'
    BY <1>1, <2>5 DEF Refresh, requestVars
  <2> QED
    BY <1>3, <2>1, <2>2, <2>3, <2>4, <2>5 DEF BudgetStep
<1>4. CASE ExecutionStep
  <2> USE DEF TypeOK, RequestTypeOK, StepTypeOK, Operation, Active, Terminal
  <2>1. ASSUME NEW r \in Requests, NEW next \in {"running", "unknown"} \cup Terminal,
               MarkExecution(r, next)
        PROVE  PreparationSettledOnce'
    BY <2>1 DEF MarkExecution, Reportable, SyncIfEnded, SyncAssist
  <2>2. ASSUME NEW p \in Parents, NEW terminal \in Terminal, Finish(p, terminal)
        PROVE  PreparationSettledOnce'
    BY <2>2 DEF Finish, Finishable, stepVars
  <2> QED
    BY <1>1, <1>4, <2>1, <2>2 DEF ExecutionStep, BindTask, requestVars
<1>5. CASE ReceiptStep
  BY <1>1, <1>5 DEF ReceiptStep, MarkConflict, ConflictingReceipt, Quarantine,
     LatePendingReceipt, PendingReceipt, SettlingReceipt, requestVars, stepVars
<1>6. CASE Environment
  BY <1>1, <1>6 DEF Environment, RevokeKey, Tick, requestVars, stepVars
<1>7. CASE UNCHANGED vars
  BY <1>1, <1>7 DEF vars, requestVars, stepVars
<1> QED
  BY <1>2, <1>3, <1>4, <1>5, <1>6, <1>7 DEF Next

\* However an assist preparation is raced for by the chain that admits it, the owner that
\* aborts it and the sweep that recovers it, one of them wins for good.
THEOREM PreparationCorrect == Spec => []PreparationSettledOnce
<1>1. Init => PreparationSettledOnce
  BY IdentityAssumption DEF Init, PreparationSettledOnce
<1> QED
  BY <1>1, NextPreparation, RowsCorrect, TypeCorrect, PTL DEF Spec

-----------------------------------------------------------------------------
(* Endings.                                                                *)

LEMMA NextEnds == TypeOK /\ RowsTogether /\ EndsTogether /\ [Next]_vars => EndsTogether'
<1> SUFFICES ASSUME TypeOK, RowsTogether, EndsTogether, [Next]_vars PROVE EndsTogether'
  OBVIOUS
<1> USE IdentityAssumption DEF EndsTogether, EveryStepEnded, Steps, Operation
<1>1. ASSUME UNCHANGED <<execution, operation, request, attempted>> PROVE EndsTogether'
  BY <1>1
<1>2. CASE RequestStep
  <2> USE DEF TypeOK, RequestTypeOK, RequestState, stepVars, Terminal, Active
  <2>1. ASSUME NEW p \in Parents, BeginRequest(p) PROVE EndsTogether'
    BY <2>1 DEF BeginRequest, InsertRequest
  <2>2. ASSUME NEW c \in Children, BeginAssist(c) PROVE EndsTogether'
    BY <2>2 DEF BeginAssist, InsertRequest
  <2>3. ASSUME NEW cs \in SUBSET Children, \A c \in cs : OpenPreparation(c), FailPreparations(cs)
        PROVE  EndsTogether'
    BY <2>3 DEF FailPreparations, OpenPreparation, Unadmitted, RowsTogether
  <2>4. ASSUME NEW ps \in SUBSET Parents, \A p \in ps : Unowned(p), FailRequests(ps)
        PROVE  EndsTogether'
    BY <2>4 DEF FailRequests, Unowned
  <2> QED
    BY <1>2, <2>1, <2>2, <2>3, <2>4, RequestStepCases
<1>3. CASE BudgetStep
  <2> USE DEF TypeOK, RequestTypeOK, StepTypeOK, ExecutionState, Terminal, Active
  <2>1. ASSUME NEW r \in Requests, NEW amount \in HoldChoices, NEW lifetime \in Lifetimes,
               BeginOperation(r, amount, lifetime)
        PROVE  EndsTogether'
    BY <2>1 DEF BeginOperation, Reservable, InsertStep, RowsTogether
  <2>2. ASSUME NEW p \in Parents, NEW amount \in HoldChoices, NEW lifetime \in Lifetimes,
               AddStep(p, amount, lifetime)
        PROVE  EndsTogether'
    BY <2>2 DEF AddStep, InsertStep, requestVars
  <2>3. ASSUME NEW r \in Requests, Dispatch(r) PROVE EndsTogether'
    BY <2>3 DEF Dispatch, Unsent
  <2>4. ASSUME NEW r \in Requests, Release(r) PROVE EndsTogether'
    <3>1. CASE execution[r] = "ready"
      <4>1. /\ execution' = [execution EXCEPT ![r] = "canceled"]
            /\ r \in Children => request' = [request EXCEPT ![r] = "canceled"]
            /\ r \notin Children => request' = request
            /\ UNCHANGED <<operation, attempted>>
        BY <2>4, <3>1 DEF Release, SyncAssist
      <4>2. \A p \in Parents : EveryStepEnded(p) => EveryStepEnded(p)'
        BY <4>1
      <4>3. \A p \in Parents : request'[p] = request[p]
        BY <4>1
      <4>4. \A c \in Children : c # r => request'[c] = request[c] /\ execution'[c] = execution[c]
        BY <4>1
      <4> HIDE DEF EveryStepEnded, Steps, Operation
      <4> QED
        BY <4>1, <4>2, <4>3, <4>4
    <3>2. CASE execution[r] # "ready"
      BY <1>1, <2>4, <3>2 DEF Release
    <3> QED
      BY <3>1, <3>2
  <2>5. ASSUME NEW r \in Requests, NEW amount \in HoldChoices, NEW lifetime \in Lifetimes,
               Refresh(r, amount, lifetime)
        PROVE  EndsTogether'
    BY <1>1, <2>5 DEF Refresh, requestVars
  <2> QED
    BY <1>3, <2>1, <2>2, <2>3, <2>4, <2>5 DEF BudgetStep
<1>4. CASE ExecutionStep
  <2> USE DEF TypeOK, RequestTypeOK, StepTypeOK, ExecutionState, Active, Terminal
  <2>1. ASSUME NEW r \in Requests, NEW next \in {"running", "unknown"} \cup Terminal,
               MarkExecution(r, next)
        PROVE  EndsTogether'
    <3>1. CASE next \in Terminal
      BY <2>1, <3>1 DEF MarkExecution, Reportable, SyncIfEnded, SyncAssist
    <3>2. CASE next \notin Terminal
      BY <2>1, <3>2 DEF MarkExecution, Reportable, SyncIfEnded
    <3> QED
      BY <3>1, <3>2
  <2>2. ASSUME NEW p \in Parents, NEW terminal \in Terminal, Finish(p, terminal)
        PROVE  EndsTogether'
    BY <2>2 DEF Finish, Finishable, stepVars
  <2> QED
    BY <1>1, <1>4, <2>1, <2>2 DEF ExecutionStep, BindTask, requestVars
<1>5. CASE ReceiptStep
  BY <1>1, <1>5 DEF ReceiptStep, MarkConflict, ConflictingReceipt, Quarantine,
     LatePendingReceipt, PendingReceipt, SettlingReceipt, requestVars, stepVars
<1>6. CASE Environment
  BY <1>1, <1>6 DEF Environment, RevokeKey, Tick, requestVars, stepVars
<1>7. CASE UNCHANGED vars
  BY <1>1, <1>7 DEF vars, requestVars, stepVars
<1> QED
  BY <1>2, <1>3, <1>4, <1>5, <1>6, <1>7 DEF Next

\* A client request, its operation and its steps end together, and an assist request with
\* its step, in whatever order they are reported, released, swept or finished.
THEOREM EndsCorrect == Spec => []EndsTogether
<1>1. Init => EndsTogether
  BY IdentityAssumption DEF Init, EndsTogether, Active, Terminal
<1> QED
  BY <1>1, NextEnds, RowsCorrect, TypeCorrect, PTL DEF Spec

-----------------------------------------------------------------------------
(* The abstract specification.                                             *)

\* A mapped promise is none exactly where there is no reservation yet.
LEMMA InitHold == Init => Hold!Init
BY DEF Init, Hold!Init, promise

LEMMA NextHold == TypeOK /\ RowsTogether /\ [Next]_vars => [Hold!Next]_(Hold!vars)
<1> SUFFICES ASSUME TypeOK, RowsTogether, [Next]_vars PROVE [Hold!Next]_(Hold!vars)
  OBVIOUS
<1>0. HoldChoices \subseteq Nat \ {0} /\ NoActual \notin Nat
  BY AmountAssumption
<1>1. ASSUME UNCHANGED <<reservation, attempted, reserved, actual>> PROVE UNCHANGED Hold!vars
  BY <1>1 DEF Hold!vars, promise
<1>2. ASSUME NEW r \in Requests, NEW amount \in HoldChoices, NEW lifetime \in Lifetimes,
             ~attempted[r], Reservable(r, amount), Reserve(r, amount),
             InsertStep(r, amount, lifetime)
      PROVE  Hold!Promise(r)
  BY <1>0, <1>2 DEF Reservable, Reserve, InsertStep, Hold!Promise, Hold!Sized, promise,
     TypeOK, StepTypeOK, MoneyTypeOK, ReservationState
<1>3. ASSUME NEW r \in Requests, Dispatch(r) PROVE Hold!Send(r)
  BY <1>3 DEF Dispatch, EventGroupValid, StatesAgree, Unsent, moneyVars, Hold!Send, promise,
     TypeOK, StepTypeOK, MoneyTypeOK, ReservationState
<1>4. ASSUME NEW r \in Requests, Release(r) PROVE Hold!Return(r)
  BY <1>4 DEF Release, Releasable, Hold!Return, promise,
     TypeOK, StepTypeOK, MoneyTypeOK, ReservationState
<1>5. ASSUME NEW r \in Requests, NEW amount \in HoldChoices, NEW lifetime \in Lifetimes,
             Refresh(r, amount, lifetime)
      PROVE  Hold!Resize(r)
  BY <1>0, <1>5 DEF Refresh, Unsent, Hold!Resize, Hold!Sized, promise,
     TypeOK, StepTypeOK, MoneyTypeOK, ReservationState
<1>6. ASSUME NEW r \in Requests, NEW rc \in ReceiptsFor[r], SettlingReceipt(r, rc)
      PROVE  Hold!Charge(r)
  <2>1. NoChargeOrZero(rc.actual) \in Nat
    BY <1>6, ReceiptAssumption DEF NoChargeOrZero, SettlingReceipt, IsFinal
  <2> QED
    BY <1>6, <2>1 DEF SettlingReceipt, Fresh, Settleable, OpenReservation, Hold!Charge, promise,
       TypeOK, StepTypeOK, MoneyTypeOK, ReservationState
<1>7. ASSUME NEW r \in Requests, NEW rc \in ReceiptsFor[r], PendingReceipt(r, rc)
      PROVE  UNCHANGED Hold!vars
  BY <1>7 DEF PendingReceipt, Fresh, OpenReservation, Hold!vars, promise,
     TypeOK, StepTypeOK, MoneyTypeOK, ReservationState
<1>8. CASE RequestStep
  BY <1>1, <1>8 DEF RequestStep, BeginRequest, FinishUnadmitted, FailRequests, BeginAssist,
     AbortPreparation, FailPreparations, RecoverPreparations, RecoverPreDispatch, stepVars, moneyVars
<1>9. CASE BudgetStep
  <2>1. ASSUME NEW r \in Requests, NEW amount \in HoldChoices, NEW lifetime \in Lifetimes,
               BeginOperation(r, amount, lifetime)
        PROVE  Hold!Next
    BY <1>2, <2>1 DEF BeginOperation, Reservable, RowsTogether, Hold!Next
  <2>2. ASSUME NEW p \in Parents, NEW amount \in HoldChoices, NEW lifetime \in Lifetimes,
               AddStep(p, amount, lifetime)
        PROVE  Hold!Next
    BY <1>2, <2>2 DEF AddStep, Reservable, RowsTogether, Hold!Next
  <2> QED
    BY <1>3, <1>4, <1>5, <1>9, <2>1, <2>2 DEF BudgetStep, Hold!Next
<1>10. CASE ExecutionStep
  BY <1>1, <1>10 DEF ExecutionStep, BindTask, Bindable, MarkExecution, Finish, Finishable, stepVars, moneyVars
<1>11. CASE ReceiptStep
  <2>1. ASSUME NEW r \in Requests, Quarantine(r) PROVE UNCHANGED Hold!vars
    BY <1>1, <2>1 DEF Quarantine, moneyVars
  <2>2. ASSUME NEW r \in Requests, NEW rc \in ReceiptsFor[r], LatePendingReceipt(r, rc)
        PROVE  UNCHANGED Hold!vars
    BY <1>1, <2>2 DEF LatePendingReceipt, stepVars, moneyVars
  <2> QED
    BY <1>6, <1>7, <1>11, <2>1, <2>2
       DEF ReceiptStep, MarkConflict, ConflictingReceipt, Hold!Next
<1>12. CASE Environment
  BY <1>1, <1>12 DEF Environment, RevokeKey, Tick, stepVars, moneyVars
<1>13. CASE UNCHANGED vars
  BY <1>1, <1>13 DEF vars, stepVars, moneyVars
<1> QED
  BY <1>8, <1>9, <1>10, <1>11, <1>12, <1>13 DEF Next

\* The store implements BudgetHold: whatever the bridge, the reconcilers and the owners
\* of the requests do, credits are promised once per call, resized only before it is sent,
\* returned only if it never was, and charged once if it was.
THEOREM HoldCorrect == Spec => HoldKept
BY InitHold, NextHold, RowsCorrect, TypeCorrect, PTL DEF Spec, HoldKept, Hold!Spec
=============================================================================
