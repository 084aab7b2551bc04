-------------------------- MODULE BudgetLedgerProofs --------------------------
(***************************************************************************)
(* What holds of the books of Budget V2 for any number of requests, keys   *)
(* and users and any amounts and receipts: the event group of every step,  *)
(* the balances of the accounts, the limits of the keys.                   *)
(***************************************************************************)
EXTENDS BudgetBillingProofs, SumTheorems, SequenceTheorems

\* The columns of r that its event group consists of are left alone.
SameRows(r) ==
  /\ attempted'[r] = attempted[r] /\ financial'[r] = financial[r] /\ hold'[r] = hold[r]
  /\ task'[r] = task[r] /\ actual'[r] = actual[r]
  /\ reservation'[r] = reservation[r] /\ reserved'[r] = reserved[r]
  /\ revisions'[r] = revisions[r]
  /\ \A a \in Accounts : ledger'[a][r] = ledger[a][r]
  /\ evidence'[r] = evidence[r] /\ settlement'[r] = settlement[r]

SameMoney(r) ==
  /\ hold'[r] = hold[r] /\ reserved'[r] = reserved[r] /\ revisions'[r] = revisions[r]
  /\ \A a \in Accounts : ledger'[a][r] = ledger[a][r]

-----------------------------------------------------------------------------
(* The inductive invariant, in parts.                                      *)

\* Before a reservation there is nothing of the group.
Untouched(r) ==
  /\ \A a \in Accounts : ledger[a][r] = <<>>
  /\ financial[r] = "absent" /\ evidence[r] = {}
  /\ settlement[r] = NoReceipt /\ actual[r] = NoActual

\* The amount held is that of the last authorization, and the ledger follows them all.
Amounts(r) ==
  /\ hold[r] = reserved[r]
  /\ revisions[r] # <<>> /\ revisions[r][Len(revisions[r])] = reserved[r]

\* The rows of a group on one account: the reserve and the adjustments of its authorizations,
\* then the row that ended the reservation, if it has ended.
Follows(rows, authorized) ==
  /\ rows[1] = Row("reserve", authorized[1], -authorized[1], 1)
  /\ \A i \in 2..Len(authorized) :
       LET change == authorized[i - 1] - authorized[i] IN
       rows[i] = Row("adjust", IF change < 0 THEN -change ELSE change, change, i)

Ends(rows, n, state, amount, charge) ==
  /\ Len(rows) = IF state \in {"committed", "released"} THEN n + 1 ELSE n
  /\ state = "released" => rows[n + 1] = Row("release", amount, amount, n)
  /\ state = "committed" => rows[n + 1] = Row("commit", charge, amount - charge, n)

RowsKept(r) ==
  /\ \A a \in Accounts \ AccountsOf(r) : ledger[a][r] = <<>>
  /\ \A a \in AccountsOf(r) :
       /\ Follows(ledger[a][r], revisions[r])
       /\ Ends(ledger[a][r], Len(revisions[r]), reservation[r], reserved[r], actual[r])

\* The receipt that settled is one of the bridge's, was recorded, and was for the task Core
\* knew; a task may still come after a receipt without charge.
SettledBy(r) ==
  IF reservation[r] = "committed"
  THEN /\ settlement[r] \in ReceiptsFor[r] /\ IsFinal(settlement[r])
       /\ actual[r] = NoChargeOrZero(settlement[r].actual)
       /\ EvidenceRow("receipt", settlement[r], actual[r]) \in evidence[r]
       /\ r \in Videos =>
            IF settlement[r].status = "final"
            THEN task[r] # NoTask /\ settlement[r].task = task[r]
            ELSE settlement[r].task = NoTask
  ELSE settlement[r] = NoReceipt

\* A final receipt is recorded as such only if it settled.
EvidenceKept(r) ==
  \A e \in evidence[r] :
    /\ EvidenceShaped(r, e)
    /\ e.kind = "receipt" /\ IsFinal(e.hash) => settlement[r] = e.hash
    /\ e.kind \in {"receipt", "conflict"}

\* A step in conflict has evidence of it, unless a task came after a receipt without charge.
ConflictKept(r) ==
  /\ (\E e \in evidence[r] : e.kind = "conflict") => financial[r] = "conflict"
  /\ financial[r] = "conflict" /\ ~TaskAfterNoCharge(r) => \E e \in evidence[r] : e.kind = "conflict"

Group(r) ==
  IF reservation[r] = "absent" THEN Untouched(r)
  ELSE /\ Amounts(r) /\ StatesAgree(r) /\ RowsKept(r)
       /\ SettledBy(r) /\ EvidenceKept(r) /\ ConflictKept(r)

Groups == \A r \in Requests : Group(r)

-----------------------------------------------------------------------------
(* What a row that is posted does to the ledger.                           *)

LEMMA Posted ==
  ASSUME MoneyTypeOK, NEW r \in Requests, NEW row \in LedgerRow, Post(r, row)
  PROVE  /\ \A a \in AccountsOf(r) :
              /\ Len(ledger'[a][r]) = Len(ledger[a][r]) + 1
              /\ \A i \in 1..Len(ledger[a][r]) : ledger'[a][r][i] = ledger[a][r][i]
              /\ ledger'[a][r][Len(ledger[a][r]) + 1] = row
              /\ ledger'[a][r] = Append(ledger[a][r], row)
         /\ \A a \in Accounts \ AccountsOf(r) : ledger'[a][r] = ledger[a][r]
         /\ \A q \in Requests \ {r} : \A a \in Accounts : ledger'[a][q] = ledger[a][q]
<1>1. \A a \in Accounts : ledger[a] \in [Requests -> Seq(LedgerRow)]
  BY DEF MoneyTypeOK
<1>2. \A a \in AccountsOf(r) : a \in Accounts
  BY OwnerType
<1>3. ASSUME NEW a \in AccountsOf(r)
      PROVE  ledger[a][r] \in Seq(LedgerRow) /\ ledger'[a][r] = Append(ledger[a][r], row)
  BY <1>1, <1>2, <1>3 DEF Post
<1>4. \A a \in Accounts \ AccountsOf(r) : ledger'[a][r] = ledger[a][r]
  BY DEF Post
<1>5. ASSUME NEW q \in Requests \ {r}, NEW a \in Accounts PROVE ledger'[a][q] = ledger[a][q]
  BY <1>1, <1>5 DEF Post
<1> QED
  BY <1>3, <1>4, <1>5, AppendProperties

-----------------------------------------------------------------------------
(* The group of a step that nothing touches.                               *)

LEMMA SameGroup ==
  ASSUME NEW r \in Requests, Group(r), SameRows(r)
  PROVE  Group(r)'
<1> USE DEF SameRows
<1>1. CASE reservation[r] = "absent"
  BY <1>1 DEF Group, Untouched
<1>2. CASE reservation[r] # "absent"
  <2>1. Amounts(r)' /\ StatesAgree(r)'
    BY <1>2 DEF Group, Amounts, StatesAgree
  <2>2. RowsKept(r)'
    <3>1. RowsKept(r)
      BY <1>2 DEF Group
    <3>2. \A a \in AccountsOf(r) : ledger'[a][r] = ledger[a][r]
      BY OwnerType
    <3> QED
      BY <3>1, <3>2 DEF RowsKept
  <2>3. SettledBy(r)' /\ EvidenceKept(r)' /\ ConflictKept(r)'
    BY <1>2 DEF Group, SettledBy, EvidenceKept, EvidenceShaped, ConflictKept, TaskAfterNoCharge
  <2> QED
    BY <1>2, <2>1, <2>2, <2>3 DEF Group
<1> QED
  BY <1>1, <1>2

\* The parts are what the reconciler checks.
LEMMA LedgerChecked ==
  ASSUME NEW r \in Requests, RowsKept(r), Amounts(r)
  PROVE  LedgerExact(r)
BY DEF RowsKept, Follows, Ends, Amounts, LedgerExact

LEMMA GroupsFrom ==
  ASSUME Groups, NEW r \in Requests, \A q \in Requests \ {r} : SameRows(q), Group(r)'
  PROVE  Groups'
<1>1. ASSUME NEW q \in Requests \ {r} PROVE Group(q)'
  BY SameGroup DEF Groups
<1> QED
  BY <1>1 DEF Groups

-----------------------------------------------------------------------------
(* The group of the step that is admitted, sent, released or resized.      *)

LEMMA AdmitGroups ==
  ASSUME TypeOK, Groups, NEW r \in Requests, NEW amount \in Nat, NEW lifetime,
         Reservable(r, amount), Reserve(r, amount), InsertStep(r, amount, lifetime),
         evidence' = evidence, settlement' = settlement
  PROVE  Groups'
<1>0. Row("reserve", amount, -amount, 1) \in LedgerRow
  BY DEF Row, LedgerRow
<1>1. /\ \A a \in AccountsOf(r) :
           /\ Len(ledger'[a][r]) = Len(ledger[a][r]) + 1
           /\ ledger'[a][r][Len(ledger[a][r]) + 1] = Row("reserve", amount, -amount, 1)
      /\ \A a \in Accounts \ AccountsOf(r) : ledger'[a][r] = ledger[a][r]
      /\ \A q \in Requests \ {r} : \A a \in Accounts : ledger'[a][q] = ledger[a][q]
  BY <1>0, Posted DEF Reserve, TypeOK
<1>2. ASSUME NEW q \in Requests \ {r} PROVE SameRows(q)
  BY <1>1, <1>2 DEF SameRows, Reserve, InsertStep, TypeOK, MoneyTypeOK, StepTypeOK
<1>3. Untouched(r) /\ reservation[r] = "absent"
  BY DEF Groups, Group, Reservable
<1>4. /\ reservation'[r] = "held" /\ reserved'[r] = amount /\ revisions'[r] = <<amount>>
      /\ financial'[r] = "held" /\ hold'[r] = amount
      /\ actual'[r] = actual[r] /\ task'[r] = task[r] /\ attempted'[r] = attempted[r]
  BY DEF Reserve, InsertStep, TypeOK, MoneyTypeOK, StepTypeOK
<1>5. \A a \in AccountsOf(r) : a \in Accounts
  BY OwnerType
<1>6. RowsKept(r)'
  <2>1. \A a \in Accounts : ledger[a][r] = <<>>
    BY <1>3 DEF Untouched
  <2>2. Len(revisions'[r]) = 1 /\ revisions'[r][1] = amount
    BY <1>4
  <2>3. ASSUME NEW a \in AccountsOf(r)
        PROVE  /\ Follows(ledger'[a][r], revisions'[r])
               /\ Ends(ledger'[a][r], Len(revisions'[r]), "held", reserved'[r], actual'[r])
    <3>1. Len(ledger[a][r]) = 0
      BY <1>5, <2>1
    <3>2. Len(ledger'[a][r]) = 1 /\ ledger'[a][r][1] = Row("reserve", amount, -amount, 1)
      <4>1. /\ Len(ledger'[a][r]) = Len(ledger[a][r]) + 1
            /\ ledger'[a][r][Len(ledger[a][r]) + 1] = Row("reserve", amount, -amount, 1)
        BY <1>1
      <4>2. Len(ledger[a][r]) + 1 = 1
        BY <3>1
      <4> QED
        BY <4>1, <4>2, Zenon
    <3>3. Ends(ledger'[a][r], Len(revisions'[r]), "held", reserved'[r], actual'[r])
      BY <2>2, <3>2 DEF Ends
    <3>4. \A i \in 2..Len(revisions'[r]) : FALSE
      BY <2>2
    <3>5. Follows(ledger'[a][r], revisions'[r])
      BY <2>2, <3>2, <3>4 DEF Follows
    <3> QED
      BY <3>3, <3>5
  <2> QED
    BY <1>1, <1>4, <2>1, <2>3 DEF RowsKept
<1>7. Amounts(r)' /\ StatesAgree(r)'
  BY <1>3, <1>4 DEF Amounts, StatesAgree, Untouched
<1>8. SettledBy(r)' /\ EvidenceKept(r)' /\ ConflictKept(r)'
  BY <1>3, <1>4 DEF SettledBy, EvidenceKept, ConflictKept, Untouched
<1>9. Group(r)'
  BY <1>4, <1>6, <1>7, <1>8 DEF Group
<1> QED
  BY <1>2, <1>9, GroupsFrom

\* A change of the step alone, while its credits stay as they are.
LEMMA KeepsMoney ==
  ASSUME NEW r \in Requests, reservation[r] # "absent", Group(r), SameMoney(r),
         reservation'[r] = reservation[r], actual'[r] = actual[r]
  PROVE  Amounts(r)' /\ RowsKept(r)'
<1>1. RowsKept(r) /\ Amounts(r)
  BY DEF Group
<1>2. \A a \in AccountsOf(r) : ledger'[a][r] = ledger[a][r]
  BY OwnerType DEF SameMoney
<1> QED
  BY <1>1, <1>2 DEF Amounts, RowsKept, SameMoney

LEMMA DispatchGroups ==
  ASSUME TypeOK, RowsTogether, Groups, NEW r \in Requests, Dispatch(r)
  PROVE  Groups'
<1>1. ASSUME NEW q \in Requests \ {r} PROVE SameRows(q)
  BY <1>1 DEF SameRows, Dispatch, moneyVars, receiptVars, TypeOK, StepTypeOK
<1>2. reservation[r] # "absent" /\ Group(r)
  BY DEF Dispatch, RowsTogether, Groups
<1>3. /\ attempted'[r] = TRUE /\ financial'[r] = financial[r] /\ task'[r] = task[r]
      /\ actual'[r] = actual[r] /\ reservation'[r] = reservation[r]
      /\ evidence'[r] = evidence[r] /\ settlement'[r] = settlement[r] /\ SameMoney(r)
      /\ financial[r] = "held"
  BY DEF Dispatch, Unsent, moneyVars, receiptVars, SameMoney, TypeOK, StepTypeOK
<1>4. Amounts(r)' /\ RowsKept(r)'
  BY <1>2, <1>3, KeepsMoney
<1>5. StatesAgree(r)'
  BY <1>2, <1>3 DEF Group, StatesAgree
<1>6. SettledBy(r)' /\ EvidenceKept(r)' /\ ConflictKept(r)'
  BY <1>2, <1>3 DEF Group, SettledBy, EvidenceKept, EvidenceShaped, ConflictKept, TaskAfterNoCharge
<1>7. Group(r)'
  BY <1>2, <1>3, <1>4, <1>5, <1>6 DEF Group
<1> QED
  BY <1>1, <1>7, GroupsFrom

LEMMA BindGroups ==
  ASSUME TypeOK, RowsTogether, Groups, NEW r \in Videos, NEW t \in Tasks, BindTask(r, t)
  PROVE  Groups'
<1>0. r \in Requests
  BY DEF Requests, Parents
<1>1. ASSUME NEW q \in Requests \ {r} PROVE SameRows(q)
  BY <1>1 DEF SameRows, BindTask, moneyVars, receiptVars, TypeOK, StepTypeOK
<1>2. reservation[r] # "absent" /\ Group(r)
  BY <1>0 DEF BindTask, Bindable, RowsTogether, Groups
<1>3. /\ attempted'[r] = attempted[r] /\ financial'[r] = financial[r]
      /\ task[r] = NoTask /\ task'[r] = t
      /\ actual'[r] = actual[r] /\ reservation'[r] = reservation[r]
      /\ evidence'[r] = evidence[r] /\ settlement'[r] = settlement[r] /\ SameMoney(r)
  BY <1>0 DEF BindTask, Bindable, moneyVars, receiptVars, SameMoney, TypeOK, StepTypeOK
<1>4. Amounts(r)' /\ RowsKept(r)'
  BY <1>0, <1>2, <1>3, KeepsMoney
<1>5. StatesAgree(r)'
  BY <1>2, <1>3 DEF Group, StatesAgree
<1>6. SettledBy(r)' /\ EvidenceKept(r)' /\ ConflictKept(r)'
  BY <1>2, <1>3 DEF Group, SettledBy, EvidenceKept, EvidenceShaped, ConflictKept, TaskAfterNoCharge
<1>7. Group(r)'
  BY <1>2, <1>3, <1>4, <1>5, <1>6 DEF Group
<1> QED
  BY <1>0, <1>1, <1>7, GroupsFrom

LEMMA ReleaseGroups ==
  ASSUME TypeOK, Groups, NEW r \in Requests, Release(r)
  PROVE  Groups'
<1> DEFINE n == Len(revisions[r])
           row == Row("release", reserved[r], reserved[r], n)
<1>0. row \in LedgerRow
  BY DEF Row, LedgerRow, TypeOK, MoneyTypeOK
<1>1. /\ \A a \in AccountsOf(r) :
           /\ Len(ledger'[a][r]) = Len(ledger[a][r]) + 1
           /\ \A i \in 1..Len(ledger[a][r]) : ledger'[a][r][i] = ledger[a][r][i]
           /\ ledger'[a][r][Len(ledger[a][r]) + 1] = row
      /\ \A a \in Accounts \ AccountsOf(r) : ledger'[a][r] = ledger[a][r]
      /\ \A q \in Requests \ {r} : \A a \in Accounts : ledger'[a][q] = ledger[a][q]
  BY <1>0, Posted DEF Release, TypeOK
<1>2. ASSUME NEW q \in Requests \ {r} PROVE SameRows(q)
  BY <1>1, <1>2 DEF SameRows, Release, receiptVars, TypeOK, MoneyTypeOK, StepTypeOK
<1>3. /\ reservation[r] = "held" /\ financial[r] = "held" /\ ~attempted[r]
      /\ reservation'[r] = "released" /\ financial'[r] = "released"
      /\ hold'[r] = hold[r] /\ reserved'[r] = reserved[r] /\ revisions'[r] = revisions[r]
      /\ attempted'[r] = attempted[r] /\ task'[r] = task[r] /\ actual'[r] = actual[r]
      /\ evidence'[r] = evidence[r] /\ settlement'[r] = settlement[r]
  BY DEF Release, Releasable, receiptVars, TypeOK, MoneyTypeOK, StepTypeOK
<1>4. /\ Amounts(r) /\ StatesAgree(r) /\ RowsKept(r)
      /\ SettledBy(r) /\ EvidenceKept(r) /\ ConflictKept(r)
  BY <1>3 DEF Groups, Group
<1>5. n \in Nat \ {0}
  BY <1>4 DEF Amounts, TypeOK, MoneyTypeOK
<1>6. RowsKept(r)'
  <2>1. ASSUME NEW a \in AccountsOf(r)
        PROVE  Follows(ledger'[a][r], revisions[r]) /\ Ends(ledger'[a][r], n, "released", reserved[r], actual[r])
    <3>1. Len(ledger[a][r]) = n /\ Follows(ledger[a][r], revisions[r])
      BY <1>3, <1>4 DEF RowsKept, Ends
    <3>2. Follows(ledger'[a][r], revisions[r])
      BY <1>1, <1>5, <3>1 DEF Follows
    <3>3. Ends(ledger'[a][r], n, "released", reserved[r], actual[r])
      BY <1>1, <3>1 DEF Ends
    <3> QED
      BY <3>2, <3>3
  <2> QED
    BY <1>1, <1>3, <1>4, <2>1 DEF RowsKept
<1>7. Amounts(r)' /\ StatesAgree(r)'
  BY <1>3, <1>4 DEF Amounts, StatesAgree
<1>8. SettledBy(r)' /\ EvidenceKept(r)' /\ ConflictKept(r)'
  <2>1. ~ \E e \in evidence[r] : e.kind = "conflict"
    BY <1>3, <1>4 DEF ConflictKept
  <2> QED
    BY <1>3, <1>4, <2>1 DEF SettledBy, EvidenceKept, EvidenceShaped, ConflictKept
<1>9. Group(r)'
  BY <1>3, <1>6, <1>7, <1>8 DEF Group
<1> QED
  BY <1>2, <1>9, GroupsFrom

LEMMA RefreshGroups ==
  ASSUME TypeOK, Groups, NEW r \in Requests, NEW amount \in Nat, NEW lifetime,
         Refresh(r, amount, lifetime)
  PROVE  Groups'
<1> DEFINE n == Len(revisions[r])
           change == hold[r] - amount
           row == Row("adjust", IF change < 0 THEN -change ELSE change, change, n + 1)
<1>0. row \in LedgerRow
  BY DEF Row, LedgerRow, TypeOK, MoneyTypeOK, StepTypeOK
<1>1. /\ \A a \in AccountsOf(r) :
           /\ Len(ledger'[a][r]) = Len(ledger[a][r]) + 1
           /\ \A i \in 1..Len(ledger[a][r]) : ledger'[a][r][i] = ledger[a][r][i]
           /\ ledger'[a][r][Len(ledger[a][r]) + 1] = row
      /\ \A a \in Accounts \ AccountsOf(r) : ledger'[a][r] = ledger[a][r]
      /\ \A q \in Requests \ {r} : \A a \in Accounts : ledger'[a][q] = ledger[a][q]
  BY <1>0, Posted DEF Refresh, TypeOK
<1>2. ASSUME NEW q \in Requests \ {r} PROVE SameRows(q)
  BY <1>1, <1>2 DEF SameRows, Refresh, receiptVars, TypeOK, MoneyTypeOK, StepTypeOK
<1>3. /\ reservation[r] = "held" /\ financial[r] = "held"
      /\ reservation'[r] = "held" /\ financial'[r] = "held"
      /\ hold'[r] = amount /\ reserved'[r] = amount
      /\ revisions'[r] = Append(revisions[r], amount)
      /\ attempted'[r] = attempted[r] /\ task'[r] = task[r] /\ actual'[r] = actual[r]
      /\ evidence'[r] = evidence[r] /\ settlement'[r] = settlement[r]
  BY DEF Refresh, Unsent, receiptVars, TypeOK, MoneyTypeOK, StepTypeOK
<1>4. /\ Amounts(r) /\ StatesAgree(r) /\ RowsKept(r)
      /\ SettledBy(r) /\ EvidenceKept(r) /\ ConflictKept(r)
  BY <1>3 DEF Groups, Group
<1>5. /\ revisions[r] \in Seq(Nat) /\ n \in Nat \ {0}
      /\ revisions[r][n] = hold[r]
  BY <1>4 DEF Amounts, TypeOK, MoneyTypeOK
<1>6. /\ Len(revisions'[r]) = n + 1 /\ revisions'[r] # <<>>
      /\ revisions'[r][n + 1] = amount /\ \A i \in 1..n : revisions'[r][i] = revisions[r][i]
  BY <1>3, <1>5, AppendProperties
<1>7. RowsKept(r)'
  <2>1. ASSUME NEW a \in AccountsOf(r)
        PROVE  /\ Follows(ledger'[a][r], revisions'[r])
               /\ Ends(ledger'[a][r], Len(revisions'[r]), "held", reserved'[r], actual'[r])
    <3>1. Len(ledger[a][r]) = n /\ Follows(ledger[a][r], revisions[r])
      BY <1>3, <1>4 DEF RowsKept, Ends
    <3>2. ledger'[a][r][1] = Row("reserve", revisions'[r][1], -revisions'[r][1], 1)
      BY <1>1, <1>5, <1>6, <3>1 DEF Follows
    <3>3. ASSUME NEW i \in 2..(n + 1)
          PROVE  LET was == revisions'[r][i - 1] - revisions'[r][i] IN
                 ledger'[a][r][i] = Row("adjust", IF was < 0 THEN -was ELSE was, was, i)
      <4>1. CASE i = n + 1
        <5>1. n \in 1..n /\ i - 1 = n
          BY <1>5, <4>1
        <5>2. revisions'[r][i - 1] = hold[r] /\ revisions'[r][i] = amount
          BY <1>5, <1>6, <4>1, <5>1
        <5>3. ledger'[a][r][i] = row
          BY <1>1, <3>1, <4>1
        <5> QED
          BY <4>1, <5>2, <5>3
      <4>2. CASE i # n + 1
        <5>1. i \in 2..n /\ i \in 1..n /\ i - 1 \in 1..n
          BY <1>5, <4>2
        <5>2. revisions'[r][i] = revisions[r][i] /\ revisions'[r][i - 1] = revisions[r][i - 1]
              /\ ledger'[a][r][i] = ledger[a][r][i]
          BY <1>1, <1>6, <3>1, <5>1
        <5> QED
          BY <3>1, <5>1, <5>2 DEF Follows
      <4> QED
        BY <4>1, <4>2
    <3>4. Follows(ledger'[a][r], revisions'[r])
      BY <1>6, <3>2, <3>3 DEF Follows
    <3>5. Ends(ledger'[a][r], Len(revisions'[r]), "held", reserved'[r], actual'[r])
      BY <1>1, <1>6, <3>1 DEF Ends
    <3> QED
      BY <3>4, <3>5
  <2> QED
    BY <1>1, <1>3, <1>4, <2>1 DEF RowsKept
<1>8. Amounts(r)' /\ StatesAgree(r)'
  BY <1>3, <1>4, <1>6 DEF Amounts, StatesAgree
<1>9. SettledBy(r)' /\ EvidenceKept(r)' /\ ConflictKept(r)'
  BY <1>3, <1>4 DEF SettledBy, EvidenceKept, EvidenceShaped, ConflictKept, TaskAfterNoCharge
<1>10. Group(r)'
  BY <1>3, <1>7, <1>8, <1>9 DEF Group
<1> QED
  BY <1>2, <1>10, GroupsFrom

-----------------------------------------------------------------------------
(* The group of the step a receipt is about.                               *)

LEMMA EvidenceAdded ==
  ASSUME ReceiptTypeOK, NEW r \in Requests, NEW row, Record(r, row)
  PROVE  /\ evidence'[r] = IF \E e \in evidence[r] : e.hash = row.hash
                           THEN evidence[r] ELSE evidence[r] \cup {row}
         /\ \A q \in Requests \ {r} : evidence'[q] = evidence[q]
BY DEF Record, ReceiptTypeOK

LEMMA QuarantineRows ==
  ASSUME TypeOK, RowsTogether, Groups, NEW r \in Requests, attempted[r], Quarantine(r),
         \A q \in Requests \ {r} : evidence'[q] = evidence[q]
  PROVE  /\ \A q \in Requests \ {r} : SameRows(q)
         /\ reservation[r] # "absent" /\ Group(r) /\ SameMoney(r)
         /\ reservation'[r] = reservation[r] /\ actual'[r] = actual[r] /\ task'[r] = task[r]
         /\ settlement'[r] = settlement[r]
         /\ Amounts(r)' /\ RowsKept(r)' /\ StatesAgree(r)'
         /\ financial'[r] = "conflict"
<1>1. ASSUME NEW q \in Requests \ {r} PROVE SameRows(q)
  BY <1>1 DEF SameRows, Quarantine, StepInConflict, moneyVars, TypeOK, StepTypeOK
<1>2. reservation[r] # "absent" /\ Group(r)
  BY DEF RowsTogether, Groups
<1>3. /\ reservation'[r] = reservation[r] /\ actual'[r] = actual[r] /\ task'[r] = task[r]
      /\ settlement'[r] = settlement[r] /\ attempted'[r] = attempted[r] /\ SameMoney(r)
  BY DEF Quarantine, moneyVars, SameMoney
<1>4. financial[r] # "released"
  BY <1>2 DEF Group, StatesAgree
<1>5. financial'[r] = "conflict"
  BY <1>4 DEF Quarantine, StepInConflict, TypeOK, StepTypeOK
<1>6. Amounts(r)' /\ RowsKept(r)'
  BY <1>2, <1>3, KeepsMoney
<1>7. StatesAgree(r)'
  BY <1>2, <1>3, <1>4, <1>5 DEF Group, StatesAgree
<1> QED
  BY <1>1, <1>2, <1>3, <1>5, <1>6, <1>7

LEMMA MarkConflictGroups ==
  ASSUME TypeOK, RowsTogether, Groups, NEW r \in Requests, NEW hash \in OpaqueHashes,
         MarkConflict(r, hash)
  PROVE  Groups'
<1> DEFINE row == EvidenceRow("conflict", hash, NoActual)
<1>1. /\ evidence'[r] = evidence[r] \cup {row}
      /\ \A q \in Requests \ {r} : evidence'[q] = evidence[q]
  <2>1. Record(r, row) /\ row.hash = hash /\ ~ \E e \in evidence[r] : e.hash = hash
    BY DEF MarkConflict, EvidenceRow
  <2> HIDE DEF row
  <2> QED
    BY <2>1, EvidenceAdded DEF TypeOK
<1>2. attempted[r] /\ Quarantine(r)
  BY DEF MarkConflict
<1>3. /\ \A q \in Requests \ {r} : SameRows(q)
      /\ reservation[r] # "absent" /\ Group(r)
      /\ reservation'[r] = reservation[r] /\ actual'[r] = actual[r] /\ task'[r] = task[r]
      /\ settlement'[r] = settlement[r]
      /\ Amounts(r)' /\ RowsKept(r)' /\ StatesAgree(r)' /\ financial'[r] = "conflict"
  BY <1>1, <1>2, QuarantineRows
<1>4. row.kind = "conflict" /\ row.hash = hash /\ row.actual = NoActual
  BY DEF EvidenceRow
<1>5. SettledBy(r)'
  BY <1>1, <1>3 DEF Group, SettledBy
<1>6. EvidenceKept(r)'
  BY <1>1, <1>3, <1>4 DEF Group, EvidenceKept, EvidenceShaped
<1>7. ConflictKept(r)'
  BY <1>1, <1>3, <1>4 DEF ConflictKept
<1>8. Group(r)'
  BY <1>3, <1>5, <1>6, <1>7 DEF Group
<1> QED
  BY <1>3, <1>8, GroupsFrom

LEMMA ConflictGroups ==
  ASSUME TypeOK, RowsTogether, Groups, NEW r \in Requests, NEW rc \in ReceiptsFor[r],
         ConflictingReceipt(r, rc)
  PROVE  Groups'
<1> DEFINE row == EvidenceRow("conflict", rc, rc.actual)
<1>0. rc # NoReceipt /\ rc \notin OpaqueHashes
  BY ReceiptAssumption
<1>1. /\ evidence'[r] = evidence[r] \/ evidence'[r] = evidence[r] \cup {row}
      /\ (\E e \in evidence[r] : e.hash = rc) \/ evidence'[r] = evidence[r] \cup {row}
      /\ \A q \in Requests \ {r} : evidence'[q] = evidence[q]
  BY EvidenceAdded DEF ConflictingReceipt, EvidenceRow, TypeOK
<1>2. attempted[r] /\ Quarantine(r)
  BY DEF ConflictingReceipt, Fresh
<1>3. /\ \A q \in Requests \ {r} : SameRows(q)
      /\ reservation[r] # "absent" /\ Group(r)
      /\ reservation'[r] = reservation[r] /\ actual'[r] = actual[r] /\ task'[r] = task[r]
      /\ settlement'[r] = settlement[r]
      /\ Amounts(r)' /\ RowsKept(r)' /\ StatesAgree(r)' /\ financial'[r] = "conflict"
  BY <1>1, <1>2, QuarantineRows
<1>4. row.kind = "conflict" /\ row.hash = rc /\ row.actual = rc.actual
  BY DEF EvidenceRow
<1>5. SettledBy(r)'
  BY <1>1, <1>3 DEF Group, SettledBy
<1>6. EvidenceKept(r)'
  <2>1. IsFinal(rc)
    BY DEF ConflictingReceipt
  <2>2. EvidenceShaped(r, row)
    BY <1>0, <1>4, <2>1 DEF EvidenceShaped, IsFinal
  <2> HIDE DEF row
  <2>3. \A e \in evidence'[r] : e \in evidence[r] \/ e = row
    BY <1>1
  <2> QED
    BY <1>3, <1>4, <2>2, <2>3 DEF Group, EvidenceKept, EvidenceShaped
<1>7. ConflictKept(r)'
  <2>1. SUFFICES ASSUME ~ \E e \in evidence'[r] : e.kind = "conflict"
                 PROVE  TaskAfterNoCharge(r)'
    BY <1>3 DEF ConflictKept
  <2>2. PICK e \in evidence[r] : e.hash = rc
    BY <1>1, <1>4, <2>1
  <2>3. e.kind = "receipt" /\ EvidenceShaped(r, e) /\ (IsFinal(rc) => settlement[r] = rc)
    BY <1>1, <1>3, <2>1, <2>2 DEF Group, EvidenceKept
  <2>4. IsFinal(rc) /\ e.actual # rc.actual /\ (WrongTask(r, rc) \/ rc # settlement[r])
    BY <2>2 DEF ConflictingReceipt, Fresh
  <2>5. rc.status = "failed_no_charge"
    BY <1>0, <2>2, <2>3, <2>4 DEF EvidenceShaped, IsFinal
  <2>6. settlement[r] = rc /\ WrongTask(r, rc)
    BY <2>3, <2>4
  <2>7. r \in Videos /\ (task[r] # NoTask \/ rc.task # NoTask)
    BY <2>5, <2>6 DEF WrongTask
  <2>8. reservation[r] = "committed" /\ rc.task = NoTask
    BY <1>0, <1>3, <2>5, <2>6, <2>7 DEF Group, SettledBy
  <2> QED
    BY <1>0, <1>3, <2>5, <2>6, <2>7, <2>8 DEF TaskAfterNoCharge
<1>8. Group(r)'
  BY <1>3, <1>5, <1>6, <1>7 DEF Group
<1> QED
  BY <1>3, <1>8, GroupsFrom

LEMMA LatePendingGroups ==
  ASSUME TypeOK, RowsTogether, Groups, NEW r \in Requests, NEW rc \in ReceiptsFor[r],
         LatePendingReceipt(r, rc)
  PROVE  Groups'
<1> DEFINE row == EvidenceRow("receipt", rc, rc.actual)
<1>0. rc \notin OpaqueHashes /\ ~IsFinal(rc)
  BY ReceiptAssumption DEF LatePendingReceipt
<1>1. /\ evidence'[r] = evidence[r] \/ evidence'[r] = evidence[r] \cup {row}
      /\ \A q \in Requests \ {r} : evidence'[q] = evidence[q]
  BY EvidenceAdded DEF LatePendingReceipt, EvidenceRow, TypeOK
<1>2. ASSUME NEW q \in Requests \ {r} PROVE SameRows(q)
  BY <1>1, <1>2 DEF SameRows, LatePendingReceipt, stepVars, moneyVars
<1>3. reservation[r] # "absent" /\ Group(r)
  BY DEF LatePendingReceipt, Fresh, RowsTogether, Groups
<1>4. /\ attempted'[r] = attempted[r] /\ financial'[r] = financial[r] /\ task'[r] = task[r]
      /\ actual'[r] = actual[r] /\ reservation'[r] = reservation[r]
      /\ settlement'[r] = settlement[r] /\ SameMoney(r)
  BY DEF LatePendingReceipt, stepVars, moneyVars, SameMoney
<1>5. row.kind = "receipt" /\ row.hash = rc /\ row.actual = rc.actual
  BY DEF EvidenceRow
<1>6. EvidenceShaped(r, row)
  BY <1>0, <1>5 DEF EvidenceShaped, IsFinal
<1>7. Amounts(r)' /\ RowsKept(r)'
  BY <1>3, <1>4, KeepsMoney
<1>8. StatesAgree(r)' /\ SettledBy(r)'
  BY <1>1, <1>3, <1>4 DEF Group, StatesAgree, SettledBy
<1> HIDE DEF row
<1>9. \A e \in evidence'[r] : e \in evidence[r] \/ e = row
  BY <1>1
<1>10. EvidenceKept(r)'
  BY <1>0, <1>3, <1>4, <1>5, <1>6, <1>9 DEF Group, EvidenceKept, EvidenceShaped
<1>11. ConflictKept(r)'
  BY <1>1, <1>3, <1>4, <1>5, <1>9 DEF Group, ConflictKept, TaskAfterNoCharge
<1>12. Group(r)'
  BY <1>3, <1>4, <1>7, <1>8, <1>10, <1>11 DEF Group
<1> QED
  BY <1>2, <1>12, GroupsFrom

LEMMA PendingGroups ==
  ASSUME TypeOK, RowsTogether, Groups, NEW r \in Requests, NEW rc \in ReceiptsFor[r],
         PendingReceipt(r, rc)
  PROVE  Groups'
<1> DEFINE row == EvidenceRow("receipt", rc, rc.actual)
<1>0. rc \notin OpaqueHashes /\ ~IsFinal(rc)
  BY ReceiptAssumption DEF PendingReceipt
<1>1. /\ evidence'[r] = evidence[r] \/ evidence'[r] = evidence[r] \cup {row}
      /\ \A q \in Requests \ {r} : evidence'[q] = evidence[q]
  BY EvidenceAdded DEF PendingReceipt, EvidenceRow, TypeOK
<1>2. ASSUME NEW q \in Requests \ {r} PROVE SameRows(q)
  BY <1>1, <1>2 DEF SameRows, PendingReceipt, TypeOK, StepTypeOK, MoneyTypeOK
<1>3. reservation[r] \in {"held", "unknown"} /\ financial[r] \in {"held", "unknown"} /\ Group(r)
  BY DEF PendingReceipt, OpenReservation, Groups
<1>4. /\ attempted'[r] = attempted[r] /\ financial'[r] = "unknown" /\ task'[r] = task[r]
      /\ actual'[r] = actual[r] /\ reservation'[r] = "unknown"
      /\ settlement'[r] = settlement[r] /\ SameMoney(r)
  BY DEF PendingReceipt, SameMoney, TypeOK, StepTypeOK, MoneyTypeOK
<1>5. row.kind = "receipt" /\ row.hash = rc /\ row.actual = rc.actual
  BY DEF EvidenceRow
<1>6. EvidenceShaped(r, row)
  BY <1>0, <1>5 DEF EvidenceShaped, IsFinal
<1>7. Amounts(r)' /\ RowsKept(r)'
  <2>1. RowsKept(r) /\ Amounts(r)
    BY <1>3 DEF Group
  <2>2. \A a \in AccountsOf(r) : ledger'[a][r] = ledger[a][r]
    BY <1>4, OwnerType DEF SameMoney
  <2> QED
    BY <1>3, <1>4, <2>1, <2>2 DEF Amounts, RowsKept, Ends, SameMoney
<1>8. StatesAgree(r)' /\ SettledBy(r)'
  BY <1>1, <1>3, <1>4 DEF Group, StatesAgree, SettledBy
<1> HIDE DEF row
<1>9. \A e \in evidence'[r] : e \in evidence[r] \/ e = row
  BY <1>1
<1>10. EvidenceKept(r)'
  BY <1>0, <1>3, <1>4, <1>5, <1>6, <1>9 DEF Group, EvidenceKept, EvidenceShaped
<1>11. ConflictKept(r)'
  BY <1>3, <1>4, <1>5, <1>9 DEF Group, ConflictKept
<1>12. Group(r)'
  BY <1>4, <1>7, <1>8, <1>10, <1>11 DEF Group
<1> QED
  BY <1>2, <1>12, GroupsFrom

LEMMA SettlingGroups ==
  ASSUME TypeOK, RowsTogether, Groups, NEW r \in Requests, NEW rc \in ReceiptsFor[r],
         SettlingReceipt(r, rc)
  PROVE  Groups'
<1> DEFINE n == Len(revisions[r])
           amount == NoChargeOrZero(rc.actual)
           posted == Row("commit", amount, hold[r] - amount, n)
           row == EvidenceRow("receipt", rc, amount)
<1>0. rc \notin OpaqueHashes /\ rc # NoReceipt /\ IsFinal(rc) /\ amount \in Nat
      /\ (rc.status = "failed_no_charge" => amount = 0)
      /\ (rc.status = "final" => amount = rc.actual)
      /\ NoActual \notin Nat
  BY ReceiptAssumption, AmountAssumption DEF SettlingReceipt, NoChargeOrZero, IsFinal
<1>1. posted \in LedgerRow
  BY <1>0 DEF Row, LedgerRow, TypeOK, MoneyTypeOK, StepTypeOK
<1>2. /\ \A a \in AccountsOf(r) :
           /\ Len(ledger'[a][r]) = Len(ledger[a][r]) + 1
           /\ \A i \in 1..Len(ledger[a][r]) : ledger'[a][r][i] = ledger[a][r][i]
           /\ ledger'[a][r][Len(ledger[a][r]) + 1] = posted
      /\ \A a \in Accounts \ AccountsOf(r) : ledger'[a][r] = ledger[a][r]
      /\ \A q \in Requests \ {r} : \A a \in Accounts : ledger'[a][q] = ledger[a][q]
  BY <1>1, Posted DEF SettlingReceipt, TypeOK
<1>3. /\ evidence'[r] = IF \E e \in evidence[r] : e.hash = rc
                        THEN evidence[r] ELSE evidence[r] \cup {row}
      /\ \A q \in Requests \ {r} : evidence'[q] = evidence[q]
  <2>1. Record(r, row) /\ row.hash = rc
    BY DEF SettlingReceipt, EvidenceRow
  <2> HIDE DEF row
  <2> QED
    BY <2>1, EvidenceAdded DEF TypeOK
<1>4. ASSUME NEW q \in Requests \ {r} PROVE SameRows(q)
  BY <1>2, <1>3, <1>4 DEF SameRows, SettlingReceipt, TypeOK, StepTypeOK, MoneyTypeOK, ReceiptTypeOK
<1>5. /\ reservation[r] \in {"held", "unknown"} /\ financial[r] \in {"held", "unknown"}
      /\ attempted[r] /\ settlement[r] = NoReceipt /\ ~WrongTask(r, rc)
      /\ r \in Videos /\ rc.status = "final" => task[r] # NoTask
  BY DEF SettlingReceipt, Settleable, Fresh, OpenReservation
<1>6. /\ Amounts(r) /\ StatesAgree(r) /\ RowsKept(r)
      /\ SettledBy(r) /\ EvidenceKept(r) /\ ConflictKept(r)
  BY <1>5 DEF Groups, Group
<1>7. /\ attempted'[r] = attempted[r] /\ financial'[r] = "settled" /\ task'[r] = task[r]
      /\ actual'[r] = amount /\ reservation'[r] = "committed" /\ settlement'[r] = rc
      /\ hold'[r] = hold[r] /\ reserved'[r] = reserved[r] /\ revisions'[r] = revisions[r]
  BY DEF SettlingReceipt, TypeOK, StepTypeOK, MoneyTypeOK, ReceiptTypeOK
<1>8. row.kind = "receipt" /\ row.hash = rc /\ row.actual = amount
  BY DEF EvidenceRow
<1>9. evidence'[r] = evidence[r] \cup {row}
  <2>1. ASSUME NEW e \in evidence[r], e.hash = rc PROVE FALSE
    <3>1. e.kind # "conflict"
      BY <1>5, <1>6 DEF ConflictKept
    <3>2. settlement[r] = rc
      BY <1>0, <1>6, <2>1, <3>1 DEF EvidenceKept
    <3> QED
      BY <1>0, <1>5, <3>2
  <2> QED
    BY <1>3, <2>1
<1>10. EvidenceShaped(r, row)
  BY <1>0, <1>8 DEF EvidenceShaped, IsFinal
<1>11. n \in Nat \ {0} /\ hold[r] = reserved[r]
  BY <1>6 DEF Amounts, TypeOK, MoneyTypeOK
<1>12. RowsKept(r)'
  <2>1. ASSUME NEW a \in AccountsOf(r)
        PROVE  /\ Follows(ledger'[a][r], revisions[r])
               /\ Ends(ledger'[a][r], n, "committed", reserved[r], amount)
    <3>1. Len(ledger[a][r]) = n /\ Follows(ledger[a][r], revisions[r])
      BY <1>5, <1>6 DEF RowsKept, Ends
    <3>2. Follows(ledger'[a][r], revisions[r])
      <4>1. \A i \in 1..n : ledger'[a][r][i] = ledger[a][r][i]
        BY <1>2, <3>1
      <4> HIDE DEF posted, amount, row
      <4> QED
        BY <1>11, <3>1, <4>1 DEF Follows
    <3>3. Ends(ledger'[a][r], n, "committed", reserved[r], amount)
      BY <1>2, <1>11, <3>1 DEF Ends
    <3> QED
      BY <3>2, <3>3
  <2> HIDE DEF amount, posted, row
  <2> QED
    BY <1>2, <1>6, <1>7, <2>1 DEF RowsKept
<1>13. Amounts(r)' /\ StatesAgree(r)'
  BY <1>0, <1>5, <1>6, <1>7 DEF Amounts, StatesAgree
<1>14. SettledBy(r)'
  <2>1. r \in Videos => IF rc.status = "final" THEN task[r] # NoTask /\ rc.task = task[r]
                        ELSE rc.task = NoTask
    BY <1>0, <1>5 DEF WrongTask, IsFinal
  <2>2. row \in evidence'[r]
    BY <1>9
  <2> QED
    BY <1>0, <1>7, <2>1, <2>2 DEF SettledBy
<1> HIDE DEF row, amount
<1>15. EvidenceKept(r)'
  <2>1. ASSUME NEW e \in evidence[r], e.kind = "receipt", IsFinal(e.hash) PROVE FALSE
    <3>1. settlement[r] = e.hash /\ e.hash \in ReceiptsFor[r]
      BY <1>6, <2>1 DEF EvidenceKept, EvidenceShaped
    <3> QED
      BY <1>5, <3>1, ReceiptAssumption
  <2>2. \A e \in evidence'[r] : EvidenceShaped(r, e)'
    BY <1>6, <1>9, <1>10 DEF EvidenceKept, EvidenceShaped
  <2> QED
    BY <1>6, <1>7, <1>8, <1>9, <2>1, <2>2 DEF EvidenceKept
<1>16. ConflictKept(r)'
  BY <1>5, <1>6, <1>7, <1>8, <1>9 DEF ConflictKept
<1>17. Group(r)'
  BY <1>7, <1>12, <1>13, <1>14, <1>15, <1>16 DEF Group
<1> QED
  BY <1>4, <1>17, GroupsFrom

-----------------------------------------------------------------------------
(* The groups through each step.                                           *)

LEMMA InitGroups == Init => Groups
BY DEF Init, Groups, Group, Untouched

LEMMA UntouchedGroups ==
  ASSUME Groups, UNCHANGED <<attempted, financial, hold, task, actual>>,
         UNCHANGED moneyVars, evidence' = evidence, settlement' = settlement
  PROVE  Groups'
<1>1. ASSUME NEW q \in Requests PROVE SameRows(q)
  BY DEF SameRows, moneyVars
<1> QED
  BY <1>1, SameGroup DEF Groups

LEMMA NextGroups ==
  ASSUME TypeOK, RowsTogether, Groups, [Next]_vars
  PROVE  Groups'
<1>0. HoldChoices \subseteq Nat
  BY AmountAssumption
<1>1. CASE RequestStep
  BY <1>1, UntouchedGroups DEF RequestStep, BeginRequest, FinishUnadmitted, FailRequests,
     BeginAssist, AbortPreparation, FailPreparations, RecoverPreparations, RecoverPreDispatch,
     stepVars, receiptVars
<1>2. CASE BudgetStep
  <2>1. ASSUME NEW r \in Requests, NEW amount \in HoldChoices, NEW lifetime \in Lifetimes,
               BeginOperation(r, amount, lifetime)
        PROVE  Groups'
    BY <1>0, <2>1, AdmitGroups DEF BeginOperation, receiptVars
  <2>2. ASSUME NEW p \in Parents, NEW amount \in HoldChoices, NEW lifetime \in Lifetimes,
               AddStep(p, amount, lifetime)
        PROVE  Groups'
    BY <1>0, <2>2, AdmitGroups DEF AddStep, receiptVars, Requests
  <2>3. ASSUME NEW r \in Requests, NEW amount \in HoldChoices, NEW lifetime \in Lifetimes,
               Refresh(r, amount, lifetime)
        PROVE  Groups'
    BY <1>0, <2>3, RefreshGroups
  <2> QED
    BY <1>2, <2>1, <2>2, <2>3, DispatchGroups, ReleaseGroups DEF BudgetStep
<1>3. CASE ExecutionStep
  <2>1. ASSUME NEW r \in Requests, NEW next \in {"running", "unknown"} \cup Terminal,
               MarkExecution(r, next)
        PROVE  Groups'
    BY <2>1, UntouchedGroups DEF MarkExecution, receiptVars
  <2>2. ASSUME NEW p \in Parents, NEW terminal \in Terminal, Finish(p, terminal) PROVE Groups'
    BY <2>2, UntouchedGroups DEF Finish, stepVars, receiptVars
  <2> QED
    BY <1>3, <2>1, <2>2, BindGroups DEF ExecutionStep
<1>4. CASE ReceiptStep
  BY <1>4, MarkConflictGroups, ConflictGroups, LatePendingGroups, PendingGroups, SettlingGroups
     DEF ReceiptStep
<1>5. CASE Environment
  BY <1>5, UntouchedGroups DEF Environment, RevokeKey, Tick, stepVars, receiptVars
<1>6. CASE UNCHANGED vars
  BY <1>6, UntouchedGroups DEF vars, stepVars, receiptVars
<1> QED
  BY <1>1, <1>2, <1>3, <1>4, <1>5, <1>6 DEF Next

LEMMA GroupsCorrect == Spec => []Groups
<1>1. TypeOK /\ RowsTogether /\ Groups /\ [Next]_vars => Groups'
  BY NextGroups
<1> QED
  BY <1>1, InitGroups, RowsCorrect, TypeCorrect, PTL DEF Spec

\* No order of authorizations, sends, releases, tasks and receipts, however they repeat or
\* contradict one another, leaves an event group that validate_v2_quota_event_group
\* rejects, with one exception: a step whose task was bound after a receipt without charge
\* was settled (TaskAfterNoCharge). That history is legal, and there the check does refuse.
THEOREM LedgerCorrect == Spec => []LedgerAccepted
<1>1. ASSUME RowsTogether, Groups, PreparationSettledOnce PROVE LedgerAccepted
  <2> SUFFICES ASSUME NEW r \in Requests, reservation[r] # "absent", ~TaskAfterNoCharge(r)
               PROVE  EventGroupValid(r)
    BY DEF LedgerAccepted
  <2>1. /\ Amounts(r) /\ StatesAgree(r) /\ RowsKept(r)
        /\ SettledBy(r) /\ EvidenceKept(r) /\ ConflictKept(r)
    BY <1>1 DEF Groups, Group
  <2>2. r \in Children => preparation[ParentOf[r]] = "admitted"
    BY <1>1 DEF RowsTogether, PreparationSettledOnce
  <2>3. SettlementExact(r)
    <3>1. CASE reservation[r] = "committed"
      <4>1. settlement[r] \in ReceiptsFor[r] /\ settlement[r] # NoReceipt
        BY <2>1, <3>1, ReceiptAssumption DEF SettledBy
      <4>2. SettledForTask(r)
        BY <2>1, <3>1, <4>1 DEF SettledBy, SettledForTask, TaskAfterNoCharge, IsFinal
      <4> QED
        BY <2>1, <3>1, <4>1, <4>2 DEF SettledBy, SettlementExact
    <3>2. CASE reservation[r] # "committed"
      BY <2>1, <3>2 DEF SettledBy, SettlementExact
    <3> QED
      BY <3>1, <3>2
  <2>4. \A e \in evidence[r] : EvidenceShaped(r, e)
    BY <2>1 DEF EvidenceKept
  <2>5. financial[r] = "conflict" <=> \E e \in evidence[r] : e.kind = "conflict"
    BY <2>1 DEF ConflictKept
  <2>6. LedgerExact(r)
    BY <2>1, LedgerChecked
  <2> QED
    BY <2>1, <2>2, <2>3, <2>4, <2>5, <2>6 DEF EventGroupValid, Amounts
<1> QED
  BY <1>1, GroupsCorrect, RowsCorrect, PreparationCorrect, PTL

-----------------------------------------------------------------------------
(* Conflicts.                                                              *)

\* What the credits of r and the sending of its key's requests do in a step.
KeyFrozen(r) ==
  /\ financial'[r] = "conflict" /\ reservation'[r] = reservation[r]
  /\ \A q \in Requests : Key(q) = Key(r) =>
       attempted'[q] = attempted[q] /\ (reservation[q] = "absent" => reservation'[q] = "absent")

LEMMA NextFrozen ==
  ASSUME TypeOK, [Next]_vars, NEW r \in Requests, financial[r] = "conflict"
  PROVE  KeyFrozen(r)
<1> USE DEF TypeOK, StepTypeOK, MoneyTypeOK
<1>1. ASSUME UNCHANGED <<financial, reservation, attempted>> PROVE KeyFrozen(r)
  BY <1>1 DEF KeyFrozen
<1>2. \A q \in Requests : Key(q) = Key(r) => Blocked(Key(q))
  BY DEF Blocked
<1>3. CASE RequestStep
  BY <1>1, <1>3 DEF RequestStep, BeginRequest, FinishUnadmitted, FailRequests, BeginAssist,
     AbortPreparation, FailPreparations, RecoverPreparations, RecoverPreDispatch, stepVars, moneyVars
<1>4. CASE BudgetStep
  <2>1. ASSUME NEW q \in Requests, NEW amount, NEW lifetime, AdmissibleKey(q),
               Reserve(q, amount), InsertStep(q, amount, lifetime)
        PROVE  KeyFrozen(r)
    <3>1. Key(q) # Key(r)
      BY <1>2, <2>1 DEF AdmissibleKey
    <3> QED
      BY <2>1, <3>1 DEF Reserve, InsertStep, KeyFrozen
  <2>2. ASSUME NEW q \in Requests, Dispatch(q) PROVE KeyFrozen(r)
    <3>1. Key(q) # Key(r)
      BY <1>2, <2>2 DEF AdmissibleKey, Dispatch
    <3> QED
      BY <2>2, <3>1 DEF Dispatch, moneyVars, KeyFrozen
  <2>3. ASSUME NEW q \in Requests, Release(q) PROVE KeyFrozen(r)
    BY <2>3 DEF Release, Releasable, KeyFrozen
  <2>4. ASSUME NEW q \in Requests, NEW amount, NEW lifetime, Refresh(q, amount, lifetime)
        PROVE  KeyFrozen(r)
    BY <1>1, <2>4 DEF Refresh
  <2> QED
    BY <1>4, <2>1, <2>2, <2>3, <2>4 DEF BudgetStep, BeginOperation, AddStep, Requests
<1>5. CASE ExecutionStep
  BY <1>1, <1>5 DEF ExecutionStep, BindTask, MarkExecution, Finish, stepVars, moneyVars
<1>6. CASE ReceiptStep
  <2>1. ASSUME NEW q \in Requests, Quarantine(q) PROVE KeyFrozen(r)
    BY <2>1 DEF Quarantine, StepInConflict, moneyVars, KeyFrozen
  <2>2. ASSUME NEW q \in Requests, NEW rc, PendingReceipt(q, rc) PROVE KeyFrozen(r)
    BY <2>2 DEF PendingReceipt, OpenReservation, KeyFrozen
  <2>3. ASSUME NEW q \in Requests, NEW rc, SettlingReceipt(q, rc) PROVE KeyFrozen(r)
    BY <2>3 DEF SettlingReceipt, Settleable, OpenReservation, KeyFrozen
  <2>4. ASSUME NEW q \in Requests, NEW rc, LatePendingReceipt(q, rc) PROVE KeyFrozen(r)
    BY <1>1, <2>4 DEF LatePendingReceipt, stepVars, moneyVars
  <2> QED
    BY <1>6, <2>1, <2>2, <2>3, <2>4 DEF ReceiptStep, MarkConflict, ConflictingReceipt
<1>7. CASE Environment
  BY <1>1, <1>7 DEF Environment, RevokeKey, Tick, stepVars, moneyVars
<1>8. CASE UNCHANGED vars
  BY <1>1, <1>8 DEF vars, stepVars, moneyVars
<1> QED
  BY <1>3, <1>4, <1>5, <1>6, <1>7, <1>8 DEF Next

\* From the moment the evidence of a step contradicts itself its credits stay where they
\* are, and no call can reserve or send anything for its key (api_key_billing_blocks and
\* the financial state that apply_budget_receipt and refresh look at).
THEOREM ConflictsFreeze == Spec => ConflictFreezes
<1> DEFINE A == \A r \in Requests :
                  financial[r] = "conflict" =>
                    /\ financial'[r] = "conflict" /\ reservation'[r] = reservation[r]
                    /\ \A q \in Requests : Key(q) = Key(r) =>
                         (attempted'[q] = attempted[q]
                            /\ (reservation[q] = "absent" => reservation'[q] = "absent"))
<1>1. TypeOK /\ [Next]_vars => [A]_vars
  BY NextFrozen DEF KeyFrozen
<1> QED
  BY <1>1, TypeCorrect, PTL DEF Spec, ConflictFreezes

-----------------------------------------------------------------------------
(* The totals of a group's rows.                                           *)

LEMMA RowsDomain ==
  ASSUME NEW rows \in Seq(LedgerRow)
  PROVE  /\ DOMAIN rows = 1..Len(rows) /\ IsFiniteSet(DOMAIN rows) /\ Len(rows) \in Nat
         /\ \A i \in DOMAIN rows : rows[i] \in LedgerRow
         /\ \A i \in DOMAIN rows : rows[i].delta \in Int /\ rows[i].amount \in Nat
<1>1. DOMAIN rows = 1..Len(rows) /\ Len(rows) \in Nat /\ \A i \in DOMAIN rows : rows[i] \in LedgerRow
  OBVIOUS
<1>2. IsFiniteSet(1..Len(rows))
  BY <1>1, FS_Interval
<1> QED
  BY <1>1, <1>2 DEF LedgerRow

LEMMA TotalsType ==
  ASSUME NEW rows \in Seq(LedgerRow)
  PROVE  Deltas(rows) \in Int /\ Commits(rows) \in Nat
<1> DEFINE D == DOMAIN rows
           C == {i \in D : rows[i].kind = "commit"}
           f == [i \in D |-> rows[i].delta]
           g == [i \in D |-> rows[i].amount]
<1>1. IsFiniteSet(D) /\ IsFiniteSet(C) /\ C \subseteq D
  BY RowsDomain, FS_Subset
<1>2. (\A i \in D : f[i] \in Int) /\ (\A i \in C : g[i] \in Nat)
  BY RowsDomain
<1>3. SumOver(f, D) \in Int
  <2> HIDE DEF f, D
  <2> QED
    BY <1>1, <1>2, SumType
<1>4. SumOver(g, C) \in Nat
  <2> HIDE DEF g, C
  <2> QED
    BY <1>1, <1>2, SumNat
<1> QED
  BY <1>3, <1>4 DEF Deltas, Commits

LEMMA TotalsEmpty == Deltas(<<>>) = 0 /\ Commits(<<>>) = 0
<1>1. DOMAIN <<>> = {}
  OBVIOUS
<1>2. {i \in DOMAIN <<>> : <<>>[i].kind = "commit"} = {}
  BY <1>1
<1> QED
  BY <1>1, <1>2, SumEmpty DEF Deltas, Commits

LEMMA TotalsAppend ==
  ASSUME NEW rows \in Seq(LedgerRow), NEW row \in LedgerRow
  PROVE  /\ Deltas(Append(rows, row)) = Deltas(rows) + row.delta
         /\ Commits(Append(rows, row)) =
              Commits(rows) + IF row.kind = "commit" THEN row.amount ELSE 0
<1> DEFINE n == Len(rows)
           more == Append(rows, row)
           D == DOMAIN rows
           E == DOMAIN more
           C == {i \in D : rows[i].kind = "commit"}
           K == {i \in E : more[i].kind = "commit"}
           f == [i \in D |-> rows[i].delta]
           g == [i \in E |-> more[i].delta]
           u == [i \in D |-> rows[i].amount]
           v == [i \in E |-> more[i].amount]
<1>1. /\ n \in Nat /\ D = 1..n /\ IsFiniteSet(D) /\ IsFiniteSet(C)
      /\ more \in Seq(LedgerRow) /\ E = 1..(n + 1) /\ more[n + 1] = row
      /\ \A i \in D : more[i] = rows[i]
      /\ \A i \in E : more[i] \in LedgerRow
  BY RowsDomain, AppendProperties, FS_Subset
<1>2. E = D \cup {n + 1} /\ n + 1 \notin D /\ n + 1 \in E
  BY <1>1
<1>3. /\ \A i \in E : g[i] = more[i].delta /\ g[i] \in Int /\ v[i] = more[i].amount /\ v[i] \in Int
      /\ \A i \in D : f[i] = g[i] /\ u[i] = v[i]
      /\ g[n + 1] = row.delta /\ v[n + 1] = row.amount
  BY <1>1, <1>2 DEF LedgerRow
<1>4. /\ row.kind = "commit" => K = C \cup {n + 1}
      /\ row.kind # "commit" => K = C
      /\ n + 1 \notin C /\ C \subseteq D
  BY <1>1, <1>2
<1>5. Deltas(rows) = SumOver(f, D) /\ Deltas(more) = SumOver(g, E)
      /\ Commits(rows) = SumOver(u, C) /\ Commits(more) = SumOver(v, K)
  BY DEF Deltas, Commits
<1>6. row.delta \in Int /\ row.amount \in Int
  BY DEF LedgerRow
<1> DEFINE x == n + 1
<1>x. /\ E = D \cup {x} /\ x \notin D /\ x \notin C
      /\ g[x] = row.delta /\ v[x] = row.amount
      /\ row.kind = "commit" => K = C \cup {x}
  BY <1>2, <1>3, <1>4
<1> HIDE DEF more, D, E, C, K, f, g, u, v, n, x
<1>7. SumOver(f, D) = SumOver(g, D) /\ SumOver(u, C) = SumOver(v, C)
  <2>1. /\ \A i \in D : f[i] \in Int /\ f[i] = g[i]
        /\ \A i \in C : u[i] \in Int /\ u[i] = v[i]
    BY <1>2, <1>3, <1>4
  <2> QED
    BY <1>1, <2>1, SumSame
<1>8. SumOver(g, E) = row.delta + SumOver(g, D)
  <2>1. \A i \in D \cup {x} : g[i] \in Int
    BY <1>x, <1>3
  <2>2. SumOver(g, D \cup {x}) = g[x] + SumOver(g, D)
    BY ONLY <1>1, <1>x, <2>1, SumAdd
  <2> QED
    BY <1>x, <2>2
<1>9. SumOver(v, K) = SumOver(v, C) + IF row.kind = "commit" THEN row.amount ELSE 0
  <2>0. \A i \in C \cup {x} : v[i] \in Int
    BY <1>x, <1>2, <1>3, <1>4
  <2>1. SumOver(v, C) \in Int
    BY <1>1, <2>0, SumType
  <2>2. CASE row.kind = "commit"
    <3>1. SumOver(v, C \cup {x}) = v[x] + SumOver(v, C)
      BY ONLY <1>1, <1>x, <2>0, SumAdd
    <3>2. SumOver(v, K) = row.amount + SumOver(v, C)
      BY <1>x, <2>2, <3>1
    <3> QED
      BY <1>6, <2>1, <2>2, <3>2
  <2>3. CASE row.kind # "commit"
    BY <1>4, <2>1, <2>3
  <2> QED
    BY <2>2, <2>3
<1>10. SumOver(g, D) \in Int
  <2>1. \A i \in D : g[i] \in Int
    BY <1>2, <1>3
  <2> QED
    BY <1>1, <2>1, SumType
<1> QED
  BY <1>5, <1>6, <1>7, <1>8, <1>9, <1>10 DEF more

-----------------------------------------------------------------------------
(* The balances.                                                           *)

\* What the rows of r on an account of it add up to: what it holds or was charged.
Taken(r) ==
  IF reservation[r] \in OpenReservation THEN reserved[r]
  ELSE IF reservation[r] = "committed" THEN actual[r] ELSE 0

TakenFrom(a, r) == IF a \in AccountsOf(r) THEN Taken(r) ELSE 0
ChargedTo(a, r) == IF a \in AccountsOf(r) /\ reservation[r] = "committed" THEN actual[r] ELSE 0

Balanced ==
  \A a \in Accounts, r \in Requests :
    /\ Deltas(ledger[a][r]) + TakenFrom(a, r) = 0
    /\ Commits(ledger[a][r]) = ChargedTo(a, r)

SameBooks(r) ==
  /\ Taken(r)' = Taken(r)
  /\ reservation'[r] = "committed" <=> reservation[r] = "committed"
  /\ actual'[r] = actual[r]
  /\ \A a \in Accounts : ledger'[a][r] = ledger[a][r]

LEMMA BalancedFrom ==
  ASSUME TypeOK, Balanced, NEW r \in Requests, NEW row \in LedgerRow, Post(r, row),
         \A q \in Requests \ {r} : SameBooks(q),
         Taken(r) \in Int, Taken(r)' = Taken(r) - row.delta,
         reservation[r] # "committed",
         IF row.kind = "commit" THEN reservation'[r] = "committed" /\ actual'[r] = row.amount
         ELSE reservation'[r] # "committed"
  PROVE  Balanced'
<1>1. /\ \A a \in AccountsOf(r) : ledger'[a][r] = Append(ledger[a][r], row)
      /\ \A a \in Accounts \ AccountsOf(r) : ledger'[a][r] = ledger[a][r]
  BY Posted DEF TypeOK
<1>2. \A a \in Accounts, q \in Requests : ledger[a][q] \in Seq(LedgerRow)
  BY DEF TypeOK, MoneyTypeOK
<1>3. row.delta \in Int /\ row.amount \in Nat
  BY DEF LedgerRow
<1>4. ASSUME NEW a \in Accounts, NEW q \in Requests \ {r}
      PROVE  /\ Deltas(ledger'[a][q]) + TakenFrom(a, q)' = 0
             /\ Commits(ledger'[a][q]) = ChargedTo(a, q)'
  <2>1. ledger'[a][q] = ledger[a][q] /\ TakenFrom(a, q)' = TakenFrom(a, q)
        /\ ChargedTo(a, q)' = ChargedTo(a, q)
    BY <1>4 DEF SameBooks, TakenFrom, ChargedTo
  <2> QED
    BY <2>1 DEF Balanced
<1>5. ASSUME NEW a \in AccountsOf(r)
      PROVE  /\ Deltas(ledger'[a][r]) + TakenFrom(a, r)' = 0
             /\ Commits(ledger'[a][r]) = ChargedTo(a, r)'
  <2>1. a \in Accounts /\ ledger[a][r] \in Seq(LedgerRow)
    BY <1>2, OwnerType
  <2>2. Deltas(ledger[a][r]) \in Int /\ Commits(ledger[a][r]) \in Nat
    BY <2>1, TotalsType
  <2>3. Deltas(ledger'[a][r]) = Deltas(ledger[a][r]) + row.delta
        /\ Commits(ledger'[a][r]) = Commits(ledger[a][r]) + IF row.kind = "commit" THEN row.amount ELSE 0
    BY <1>1, <2>1, TotalsAppend
  <2>4. Deltas(ledger[a][r]) + Taken(r) = 0 /\ Commits(ledger[a][r]) = 0
    BY <2>1 DEF Balanced, TakenFrom, ChargedTo
  <2>5. TakenFrom(a, r)' = Taken(r) - row.delta
    BY DEF TakenFrom
  <2>6. Deltas(ledger'[a][r]) + TakenFrom(a, r)' = 0
    BY <1>3, <2>2, <2>3, <2>4, <2>5
  <2>7. Commits(ledger'[a][r]) = ChargedTo(a, r)'
    BY <1>3, <2>3, <2>4 DEF ChargedTo
  <2> QED
    BY <2>6, <2>7
<1>6. ASSUME NEW a \in Accounts \ AccountsOf(r)
      PROVE  /\ Deltas(ledger'[a][r]) + TakenFrom(a, r)' = 0
             /\ Commits(ledger'[a][r]) = ChargedTo(a, r)'
  BY <1>1 DEF Balanced, TakenFrom, ChargedTo
<1> QED
  BY <1>4, <1>5, <1>6 DEF Balanced

LEMMA UntouchedBooks ==
  ASSUME TypeOK, Balanced, UNCHANGED ledger, \A q \in Requests : SameBooks(q)
  PROVE  Balanced'
<1>1. ASSUME NEW a \in Accounts, NEW q \in Requests
      PROVE  TakenFrom(a, q)' = TakenFrom(a, q) /\ ChargedTo(a, q)' = ChargedTo(a, q)
  BY <1>1 DEF SameBooks, TakenFrom, ChargedTo
<1> QED
  BY <1>1 DEF Balanced

LEMMA InitBalanced == Init => Balanced
<1> SUFFICES ASSUME Init PROVE Balanced
  OBVIOUS
<1>1. ASSUME NEW a \in Accounts, NEW r \in Requests
      PROVE  ledger[a][r] = <<>> /\ TakenFrom(a, r) = 0 /\ ChargedTo(a, r) = 0
  BY DEF Init, TakenFrom, Taken, ChargedTo, OpenReservation
<1> QED
  BY <1>1, TotalsEmpty DEF Balanced

LEMMA AdmitBalanced ==
  ASSUME TypeOK, Balanced, NEW r \in Requests, NEW amount \in Nat, NEW lifetime,
         Reservable(r, amount), Reserve(r, amount), InsertStep(r, amount, lifetime)
  PROVE  Balanced'
<1> DEFINE row == Row("reserve", amount, -amount, 1)
<1>1. row \in LedgerRow /\ row.delta = -amount /\ row.kind = "reserve" /\ Post(r, row)
  BY DEF Row, LedgerRow, Reserve
<1>2. ASSUME NEW q \in Requests \ {r} PROVE SameBooks(q)
  <2>1. /\ reservation'[q] = reservation[q] /\ reserved'[q] = reserved[q] /\ actual'[q] = actual[q]
    BY DEF Reserve, InsertStep, TypeOK, MoneyTypeOK
  <2>2. \A a \in Accounts : ledger'[a][q] = ledger[a][q]
    BY <1>1, Posted DEF TypeOK
  <2> QED
    BY <2>1, <2>2 DEF SameBooks, Taken
<1>3. /\ reservation[r] = "absent" /\ reservation'[r] = "held" /\ reserved'[r] = amount
  BY DEF Reservable, Reserve, TypeOK, MoneyTypeOK
<1>4. Taken(r) = 0 /\ Taken(r)' = amount
  BY <1>3 DEF Taken, OpenReservation
<1> HIDE DEF row
<1> QED
  BY <1>1, <1>2, <1>3, <1>4, BalancedFrom

LEMMA ReleaseBalanced ==
  ASSUME TypeOK, Balanced, NEW r \in Requests, Release(r)
  PROVE  Balanced'
<1> DEFINE row == Row("release", reserved[r], reserved[r], Len(revisions[r]))
<1>1. /\ row \in LedgerRow /\ row.delta = reserved[r] /\ row.kind = "release" /\ Post(r, row)
      /\ reserved[r] \in Nat
  BY DEF Row, LedgerRow, Release, TypeOK, MoneyTypeOK
<1>2. ASSUME NEW q \in Requests \ {r} PROVE SameBooks(q)
  <2>1. /\ reservation'[q] = reservation[q] /\ reserved'[q] = reserved[q] /\ actual'[q] = actual[q]
    BY DEF Release, TypeOK, MoneyTypeOK
  <2>2. \A a \in Accounts : ledger'[a][q] = ledger[a][q]
    BY <1>1, Posted DEF TypeOK
  <2> QED
    BY <2>1, <2>2 DEF SameBooks, Taken
<1>3. reservation[r] = "held" /\ reservation'[r] = "released"
  BY DEF Release, Releasable, TypeOK, MoneyTypeOK
<1>4. Taken(r) = reserved[r] /\ Taken(r)' = 0
  BY <1>3 DEF Taken, OpenReservation
<1> HIDE DEF row
<1> QED
  BY <1>1, <1>2, <1>3, <1>4, BalancedFrom

LEMMA RefreshBalanced ==
  ASSUME TypeOK, Balanced, NEW r \in Requests, NEW amount \in Nat, NEW lifetime,
         Refresh(r, amount, lifetime)
  PROVE  Balanced'
<1> DEFINE change == hold[r] - amount
           row == Row("adjust", IF change < 0 THEN -change ELSE change, change, Len(revisions[r]) + 1)
<1>1. /\ row \in LedgerRow /\ row.delta = hold[r] - amount /\ row.kind = "adjust" /\ Post(r, row)
      /\ hold[r] \in Nat
  BY DEF Row, LedgerRow, Refresh, TypeOK, MoneyTypeOK, StepTypeOK
<1>2. ASSUME NEW q \in Requests \ {r} PROVE SameBooks(q)
  <2>1. /\ reservation'[q] = reservation[q] /\ reserved'[q] = reserved[q] /\ actual'[q] = actual[q]
    BY DEF Refresh, TypeOK, MoneyTypeOK
  <2>2. \A a \in Accounts : ledger'[a][q] = ledger[a][q]
    BY <1>1, Posted DEF TypeOK
  <2> QED
    BY <2>1, <2>2 DEF SameBooks, Taken
<1>3. /\ reservation[r] = "held" /\ reservation'[r] = "held"
      /\ reserved[r] = hold[r] /\ reserved'[r] = amount
  BY DEF Refresh, TypeOK, MoneyTypeOK
<1>4. Taken(r) = hold[r] /\ Taken(r)' = amount
  BY <1>3 DEF Taken, OpenReservation
<1> HIDE DEF row
<1> QED
  BY <1>1, <1>2, <1>3, <1>4, BalancedFrom

LEMMA SettlingBalanced ==
  ASSUME TypeOK, Groups, Balanced, NEW r \in Requests, NEW rc \in ReceiptsFor[r],
         SettlingReceipt(r, rc)
  PROVE  Balanced'
<1> DEFINE amount == NoChargeOrZero(rc.actual)
           row == Row("commit", amount, hold[r] - amount, Len(revisions[r]))
<1>0. amount \in Nat
  BY ReceiptAssumption DEF SettlingReceipt, NoChargeOrZero, IsFinal
<1>1. /\ row \in LedgerRow /\ row.delta = hold[r] - amount /\ row.kind = "commit"
      /\ row.amount = amount /\ Post(r, row) /\ hold[r] \in Nat
  BY <1>0 DEF Row, LedgerRow, SettlingReceipt, TypeOK, MoneyTypeOK, StepTypeOK
<1>2. ASSUME NEW q \in Requests \ {r} PROVE SameBooks(q)
  <2>1. /\ reservation'[q] = reservation[q] /\ reserved'[q] = reserved[q] /\ actual'[q] = actual[q]
    BY DEF SettlingReceipt, TypeOK, MoneyTypeOK, StepTypeOK
  <2>2. \A a \in Accounts : ledger'[a][q] = ledger[a][q]
    BY <1>1, Posted DEF TypeOK
  <2> QED
    BY <2>1, <2>2 DEF SameBooks, Taken
<1>3. /\ reservation[r] \in {"held", "unknown"} /\ reservation'[r] = "committed"
      /\ actual'[r] = amount
  BY DEF SettlingReceipt, Settleable, OpenReservation, TypeOK, MoneyTypeOK, StepTypeOK
<1>4. reserved[r] = hold[r]
  BY <1>3 DEF Groups, Group, Amounts
<1>5. Taken(r) = hold[r] /\ Taken(r)' = amount
  BY <1>3, <1>4 DEF Taken, OpenReservation
<1> HIDE DEF row, amount
<1> QED
  BY <1>0, <1>1, <1>2, <1>3, <1>5, BalancedFrom

LEMMA PendingBalanced ==
  ASSUME TypeOK, Balanced, NEW r \in Requests, NEW rc, PendingReceipt(r, rc)
  PROVE  Balanced'
<1>1. ASSUME NEW q \in Requests PROVE SameBooks(q)
  BY DEF SameBooks, Taken, OpenReservation, PendingReceipt, TypeOK, MoneyTypeOK
<1>2. UNCHANGED ledger
  BY DEF PendingReceipt
<1> QED
  BY <1>1, <1>2, UntouchedBooks

\* The other steps leave every column of the books alone.
OtherMoney == UNCHANGED <<moneyVars, actual>>

LEMMA OtherBalanced == ASSUME TypeOK, Balanced, OtherMoney PROVE Balanced'
<1>1. ASSUME NEW q \in Requests PROVE SameBooks(q)
  BY DEF SameBooks, Taken, OtherMoney, moneyVars
<1>2. UNCHANGED ledger
  BY DEF OtherMoney, moneyVars
<1> QED
  BY <1>1, <1>2, UntouchedBooks

\* What a step does to the books: it admits, resizes, releases or settles one step, keeps one
\* as unknown, or leaves them alone.
LEMMA MoneySteps ==
  ASSUME [Next]_vars
  PROVE  \/ \E r \in Requests, amount \in HoldChoices, lifetime \in Lifetimes :
              \/ Reservable(r, amount) /\ Reserve(r, amount) /\ InsertStep(r, amount, lifetime)
              \/ Refresh(r, amount, lifetime)
         \/ \E r \in Requests :
              Release(r) \/ \E rc \in ReceiptsFor[r] : PendingReceipt(r, rc) \/ SettlingReceipt(r, rc)
         \/ OtherMoney
<1>1. CASE RequestStep
  BY <1>1 DEF RequestStep, BeginRequest, FinishUnadmitted, FailRequests, BeginAssist,
     AbortPreparation, FailPreparations, RecoverPreparations, RecoverPreDispatch, stepVars, OtherMoney
<1>2. CASE BudgetStep
  BY <1>2 DEF BudgetStep, BeginOperation, AddStep, Dispatch, OtherMoney, Requests
<1>3. CASE ExecutionStep
  BY <1>3 DEF ExecutionStep, BindTask, MarkExecution, Finish, stepVars, OtherMoney
<1>4. CASE ReceiptStep
  BY <1>4 DEF ReceiptStep, MarkConflict, ConflictingReceipt, Quarantine, LatePendingReceipt,
     stepVars, OtherMoney
<1>5. CASE Environment
  BY <1>5 DEF Environment, RevokeKey, Tick, stepVars, OtherMoney
<1>6. CASE UNCHANGED vars
  BY <1>6 DEF vars, stepVars, OtherMoney
<1> QED
  BY <1>1, <1>2, <1>3, <1>4, <1>5, <1>6 DEF Next

LEMMA NextBalanced ==
  ASSUME TypeOK, Groups, Balanced, [Next]_vars
  PROVE  Balanced'
<1>0. HoldChoices \subseteq Nat
  BY AmountAssumption
<1> QED
  BY <1>0, MoneySteps, AdmitBalanced, RefreshBalanced, ReleaseBalanced, PendingBalanced,
     SettlingBalanced, OtherBalanced

LEMMA BalancedCorrect == Spec => []Balanced
<1>1. TypeOK /\ Groups /\ Balanced /\ [Next]_vars => Balanced'
  BY NextBalanced
<1> QED
  BY <1>1, InitBalanced, GroupsCorrect, TypeCorrect, PTL DEF Spec

\* What a step has taken is a number.
LEMMA TakenType ==
  ASSUME TypeOK, Groups, NEW r \in Requests
  PROVE  /\ Taken(r) \in Nat
         /\ \A a \in Accounts : TakenFrom(a, r) \in Nat /\ ChargedTo(a, r) \in Nat
<1>1. reservation[r] = "committed" => actual[r] \in Nat
  BY DEF Groups, Group, StatesAgree, TypeOK, StepTypeOK
<1>2. reserved[r] \in Nat
  BY DEF TypeOK, MoneyTypeOK
<1> QED
  BY <1>1, <1>2 DEF Taken, TakenFrom, ChargedTo

\* The balances as sums over all requests.
TakenBy(a) == [r \in Requests |-> TakenFrom(a, r)]
ChargedBy(a) == [r \in Requests |-> ChargedTo(a, r)]

LEMMA Balances ==
  ASSUME TypeOK, Groups, Balanced, NEW a \in Accounts
  PROVE  /\ Available(a) + SumOver(TakenBy(a), Requests) = Granted[a]
         /\ Held(a) + Settled(a) = SumOver(TakenBy(a), Requests)
         /\ SumOver(TakenBy(a), Requests) \in Nat
         /\ Available(a) \in Int /\ Held(a) \in Int /\ Settled(a) \in Int
<1> DEFINE D == [r \in Requests |-> Deltas(ledger[a][r])]
           C == [r \in Requests |-> Commits(ledger[a][r])]
           T == TakenBy(a)
           open == {r \in Requests : a \in AccountsOf(r) /\ reservation[r] \in OpenReservation}
           H == [r \in Requests |-> IF r \in open THEN reserved[r] ELSE 0]
           zero == [r \in Requests |-> 0]
<1>0. IsFiniteSet(Requests) /\ open \subseteq Requests /\ Granted[a] \in Nat
  BY IdentityAssumption, AmountAssumption
<1>1. \A r \in Requests : Deltas(ledger[a][r]) \in Int /\ Commits(ledger[a][r]) \in Nat
  BY TotalsType DEF TypeOK, MoneyTypeOK
<1>2. \A r \in Requests : D[r] \in Int /\ C[r] \in Int /\ D[r] + T[r] = 0 /\ C[r] = ChargedTo(a, r)
  BY <1>1 DEF Balanced, TakenBy
<1>3. \A r \in Requests : T[r] \in Nat /\ H[r] \in Int /\ T[r] = H[r] + C[r]
  <2>1. ASSUME NEW r \in Requests PROVE T[r] \in Nat /\ H[r] \in Int /\ T[r] = H[r] + C[r]
    <3>1. reserved[r] \in Nat /\ T[r] = TakenFrom(a, r) /\ T[r] \in Nat
      BY TakenType DEF TakenBy, TypeOK, MoneyTypeOK
    <3>2. C[r] = ChargedTo(a, r) /\ C[r] \in Int
      BY <1>2
    <3> QED
      BY <3>1, <3>2 DEF TakenFrom, Taken, ChargedTo, OpenReservation
  <2> QED
    BY <2>1
<1>4. Available(a) = Granted[a] + SumOver(D, Requests) /\ Settled(a) = SumOver(C, Requests)
      /\ Held(a) = SumOver(reserved, open)
  BY DEF Available, Settled, Held
<1>5. /\ \A r \in open : reserved[r] \in Int /\ reserved[r] = H[r]
      /\ \A r \in Requests \ open : H[r] = 0
  BY DEF TypeOK, MoneyTypeOK
<1>6. \A r \in Requests : zero[r] = 0
  OBVIOUS
<1> HIDE DEF D, C, T, open, H, zero
<1>7. SumOver(reserved, open) = SumOver(H, open)
  <2>1. IsFiniteSet(open)
    BY <1>0, FS_Subset
  <2> QED
    BY <1>5, <2>1, SumSame
<1>8. SumOver(H, Requests) = SumOver(H, open)
  <2>1. \A r \in open : H[r] \in Int
    BY <1>5
  <2> QED
    BY <1>0, <1>5, <2>1, SumWithin
<1>9. SumOver(T, Requests) = SumOver(H, Requests) + SumOver(C, Requests)
  BY <1>0, <1>2, <1>3, SumPlus
<1>10. SumOver(zero, Requests) = SumOver(D, Requests) + SumOver(T, Requests)
  <2>1. \A r \in Requests : D[r] \in Int /\ T[r] \in Int /\ zero[r] = D[r] + T[r]
    BY <1>2, <1>3, <1>6
  <2> QED
    BY <1>0, <2>1, SumPlus
<1>11. SumOver(zero, Requests) = 0
  BY <1>0, <1>6, SumZero
<1>12. /\ SumOver(D, Requests) \in Int /\ SumOver(T, Requests) \in Nat
       /\ SumOver(C, Requests) \in Int /\ SumOver(H, Requests) \in Int
  <2>1. SumOver(T, Requests) \in Nat
    BY <1>0, <1>3, SumNat
  <2>2. SumOver(D, Requests) \in Int /\ SumOver(C, Requests) \in Int /\ SumOver(H, Requests) \in Int
    BY <1>0, <1>2, <1>3, SumType
  <2> QED
    BY <2>1, <2>2
<1> QED
  BY <1>0, <1>4, <1>7, <1>8, <1>9, <1>10, <1>11, <1>12 DEF T

\* No credit appears or vanishes, for any number of steps on an account and any order of
\* authorizations, releases and receipts, those beyond their holds included.
THEOREM Conserved == Spec => []Conservation
<1>1. ASSUME TypeOK, Groups, Balanced, NEW a \in Accounts
      PROVE  Available(a) + Held(a) + Settled(a) = Granted[a]
  <2>1. /\ Available(a) + SumOver(TakenBy(a), Requests) = Granted[a]
        /\ Held(a) + Settled(a) = SumOver(TakenBy(a), Requests)
        /\ Available(a) \in Int /\ Held(a) \in Int /\ Settled(a) \in Int
    BY <1>1, Balances
  <2> QED
    BY <2>1
<1>2. TypeOK /\ Groups /\ Balanced => Conservation
  BY <1>1 DEF Conservation
<1> QED
  BY <1>2, BalancedCorrect, GroupsCorrect, TypeCorrect, PTL

-----------------------------------------------------------------------------
(* The promises.                                                           *)

\* What the promise about r claims of an account: its hold, or the part of its charge that
\* stayed within the hold.
Claimed(a, r) ==
  IF a \notin AccountsOf(r) THEN 0
  ELSE IF reservation[r] \in OpenReservation THEN reserved[r]
  ELSE IF reservation[r] = "committed" THEN WithinHold(r) ELSE 0

ClaimsOn(a) == [r \in Requests |-> Claimed(a, r)]

Backed == \A a \in Accounts : SumOver(ClaimsOn(a), Requests) <= Granted[a]

LEMMA ClaimedType ==
  ASSUME TypeOK, Groups, NEW r \in Requests, NEW a
  PROVE  Claimed(a, r) \in Nat /\ Claimed(a, r) <= TakenFrom(a, r)
<1>1. reservation[r] = "committed" => actual[r] \in Nat
  BY DEF Groups, Group, StatesAgree, TypeOK, StepTypeOK
<1>2. reserved[r] \in Nat
  BY DEF TypeOK, MoneyTypeOK
<1> QED
  BY <1>1, <1>2 DEF Claimed, WithinHold, TakenFrom, Taken, OpenReservation

LEMMA ClaimedTypeNext ==
  ASSUME TypeOK', Groups', NEW r \in Requests, NEW a
  PROVE  Claimed(a, r)' \in Nat
<1>1. reservation'[r] = "committed" => actual'[r] \in Nat
  BY DEF Groups, Group, StatesAgree, TypeOK, StepTypeOK
<1>2. reserved'[r] \in Nat
  BY DEF TypeOK, MoneyTypeOK
<1> QED
  BY <1>1, <1>2 DEF Claimed, WithinHold, OpenReservation

\* What is available covers what is claimed.
LEMMA ClaimsCovered ==
  ASSUME TypeOK, Groups, Balanced, NEW a \in Accounts
  PROVE  /\ Available(a) + SumOver(ClaimsOn(a), Requests) <= Granted[a]
         /\ SumOver(ClaimsOn(a), Requests) \in Int /\ Available(a) \in Int /\ Granted[a] \in Nat
<1> DEFINE f == ClaimsOn(a)
           g == TakenBy(a)
<1>1. IsFiniteSet(Requests) /\ Granted[a] \in Nat
  BY IdentityAssumption, AmountAssumption
<1>2. \A r \in Requests : f[r] \in Int /\ g[r] \in Int /\ f[r] <= g[r]
  BY ClaimedType, TakenType DEF ClaimsOn, TakenBy
<1>3. Available(a) + SumOver(g, Requests) = Granted[a] /\ Available(a) \in Int
      /\ SumOver(g, Requests) \in Nat
  BY Balances
<1> HIDE DEF f, g
<1>4. SumOver(f, Requests) <= SumOver(g, Requests) /\ SumOver(f, Requests) \in Int
  BY <1>1, <1>2, SumMonotone, SumType
<1>5. Available(a) + SumOver(f, Requests) <= Granted[a]
  BY <1>1, <1>3, <1>4
<1> QED
  BY <1>1, <1>3, <1>4, <1>5 DEF f

LEMMA BackedFrom ==
  ASSUME TypeOK, Groups, Balanced, Backed, TypeOK', Groups',
         NEW r \in Requests, NEW d \in Int, d <= 0 \/ Covered(r, d),
         \A a \in Accounts : \A q \in Requests \ {r} : Claimed(a, q)' = Claimed(a, q),
         \A a \in AccountsOf(r) : Claimed(a, r)' = Claimed(a, r) + d
  PROVE  Backed'
<1> SUFFICES ASSUME NEW a \in Accounts
             PROVE  SumOver(ClaimsOn(a)', Requests) <= Granted[a]
  BY DEF Backed
<1> DEFINE f == ClaimsOn(a)
           g == ClaimsOn(a)'
           more == IF a \in AccountsOf(r) THEN d ELSE 0
<1>1. IsFiniteSet(Requests) /\ r \in Requests /\ more \in Int
  BY IdentityAssumption
<1>2. \A q \in Requests : f[q] \in Int /\ g[q] \in Int
  BY ClaimedType, ClaimedTypeNext DEF ClaimsOn
<1>3. \A q \in Requests \ {r} : f[q] = g[q]
  BY DEF ClaimsOn
<1>4. g[r] = f[r] + more
  <2>1. CASE a \in AccountsOf(r)
    BY <2>1 DEF ClaimsOn
  <2>2. CASE a \notin AccountsOf(r)
    BY <2>2 DEF ClaimsOn, Claimed
  <2> QED
    BY <2>1, <2>2
<1>5. /\ Available(a) + SumOver(f, Requests) <= Granted[a]
      /\ SumOver(f, Requests) \in Int /\ Available(a) \in Int /\ Granted[a] \in Nat
  BY ClaimsCovered
<1>6. SumOver(f, Requests) <= Granted[a]
  BY DEF Backed
<1>7. more <= 0 \/ more <= Available(a)
  BY <1>5 DEF Covered
<1> HIDE DEF f, g, more
<1>8. SumOver(g, Requests) = SumOver(f, Requests) + more
  BY ONLY <1>1, <1>2, <1>3, <1>4, SumBy
<1>9. SumOver(g, Requests) <= Granted[a]
  BY <1>1, <1>5, <1>6, <1>7, <1>8
<1> QED
  BY <1>9 DEF g

LEMMA BackedKept ==
  ASSUME TypeOK, Groups, Backed,
         \A a \in Accounts, q \in Requests : Claimed(a, q)' = Claimed(a, q)
  PROVE  Backed'
<1>1. ASSUME NEW a \in Accounts PROVE ClaimsOn(a)' = ClaimsOn(a)
  BY DEF ClaimsOn
<1> QED
  BY <1>1 DEF Backed

\* A step that moves the reservation of r alone leaves the claims of the others.
LEMMA OthersClaims ==
  ASSUME NEW q, reservation'[q] = reservation[q], reserved'[q] = reserved[q],
         actual'[q] = actual[q], NEW a
  PROVE  Claimed(a, q)' = Claimed(a, q)
BY DEF Claimed, WithinHold

LEMMA NextBacked ==
  ASSUME TypeOK, Groups, Balanced, Backed, TypeOK', Groups', [Next]_vars
  PROVE  Backed'
<1>0. HoldChoices \subseteq Nat \ {0}
  BY AmountAssumption
<1>1. ASSUME NEW r \in Requests, NEW amount \in HoldChoices, NEW lifetime \in Lifetimes,
             Reservable(r, amount), Reserve(r, amount), InsertStep(r, amount, lifetime)
      PROVE  Backed'
  <2>1. \A a \in Accounts : \A q \in Requests \ {r} : Claimed(a, q)' = Claimed(a, q)
    BY <1>1, OthersClaims DEF Reserve, InsertStep, TypeOK, MoneyTypeOK
  <2>2. reservation[r] = "absent" /\ reservation'[r] = "held" /\ reserved'[r] = amount
    BY <1>1 DEF Reservable, Reserve, TypeOK, MoneyTypeOK
  <2>3. \A a \in AccountsOf(r) : Claimed(a, r)' = Claimed(a, r) + amount
    BY <1>0, <2>2 DEF Claimed, OpenReservation
  <2>4. amount \in Int /\ Covered(r, amount)
    BY <1>0, <1>1 DEF Reservable
  <2> QED
    BY <2>1, <2>3, <2>4, BackedFrom
<1>2. ASSUME NEW r \in Requests, NEW amount \in HoldChoices, NEW lifetime \in Lifetimes,
             Refresh(r, amount, lifetime)
      PROVE  Backed'
  <2>1. \A a \in Accounts : \A q \in Requests \ {r} : Claimed(a, q)' = Claimed(a, q)
    BY <1>2, OthersClaims DEF Refresh, TypeOK, MoneyTypeOK
  <2>2. /\ reservation[r] = "held" /\ reservation'[r] = "held"
        /\ reserved[r] = hold[r] /\ reserved'[r] = amount /\ hold[r] \in Nat
    BY <1>2 DEF Refresh, TypeOK, MoneyTypeOK, StepTypeOK
  <2>3. \A a \in AccountsOf(r) : Claimed(a, r)' = Claimed(a, r) + (amount - hold[r])
    BY <1>0, <2>2 DEF Claimed, OpenReservation
  <2>4. amount - hold[r] \in Int /\ (amount - hold[r] <= 0 \/ Covered(r, amount - hold[r]))
    BY <1>0, <1>2, <2>2 DEF Refresh, RaiseCovered
  <2> QED
    BY <2>1, <2>3, <2>4, BackedFrom
<1>3. ASSUME NEW r \in Requests, Release(r) PROVE Backed'
  <2>1. \A a \in Accounts : \A q \in Requests \ {r} : Claimed(a, q)' = Claimed(a, q)
    BY <1>3, OthersClaims DEF Release, TypeOK, MoneyTypeOK
  <2>2. reservation[r] = "held" /\ reservation'[r] = "released" /\ reserved[r] \in Nat
    BY <1>3 DEF Release, Releasable, TypeOK, MoneyTypeOK
  <2>3. \A a \in AccountsOf(r) : Claimed(a, r)' = Claimed(a, r) + -reserved[r]
    BY <2>2 DEF Claimed, OpenReservation
  <2>4. -reserved[r] \in Int /\ -reserved[r] <= 0
    BY <2>2
  <2> QED
    BY <2>1, <2>3, <2>4, BackedFrom
<1>4. ASSUME NEW r \in Requests, NEW rc \in ReceiptsFor[r], SettlingReceipt(r, rc) PROVE Backed'
  <2> DEFINE amount == NoChargeOrZero(rc.actual)
             within == IF amount < reserved[r] THEN amount ELSE reserved[r]
  <2>0. amount \in Nat
    BY <1>4, ReceiptAssumption DEF SettlingReceipt, NoChargeOrZero, IsFinal
  <2>1. \A a \in Accounts : \A q \in Requests \ {r} : Claimed(a, q)' = Claimed(a, q)
    BY <1>4, OthersClaims DEF SettlingReceipt, TypeOK, MoneyTypeOK, StepTypeOK
  <2>2. /\ reservation[r] \in OpenReservation /\ reservation'[r] = "committed"
        /\ reserved[r] \in Nat /\ reserved'[r] = reserved[r] /\ actual'[r] = amount
    BY <1>4 DEF SettlingReceipt, Settleable, TypeOK, MoneyTypeOK, StepTypeOK
  <2> HIDE DEF amount
  <2>3. \A a \in AccountsOf(r) : Claimed(a, r)' = Claimed(a, r) + (within - reserved[r])
    BY <2>0, <2>2 DEF Claimed, WithinHold, OpenReservation
  <2>4. within - reserved[r] \in Int /\ within - reserved[r] <= 0
    BY <2>0, <2>2
  <2> HIDE DEF within
  <2> QED
    BY <2>1, <2>3, <2>4, BackedFrom
<1>5. ASSUME NEW r \in Requests, NEW rc \in ReceiptsFor[r], PendingReceipt(r, rc) PROVE Backed'
  <2>1. \A a \in Accounts, q \in Requests : Claimed(a, q)' = Claimed(a, q)
    BY <1>5 DEF PendingReceipt, Claimed, WithinHold, OpenReservation, TypeOK, MoneyTypeOK
  <2> QED
    BY <2>1, BackedKept
<1>6. ASSUME OtherMoney PROVE Backed'
  <2>1. \A a \in Accounts, q \in Requests : Claimed(a, q)' = Claimed(a, q)
    BY <1>6, OthersClaims DEF OtherMoney, moneyVars
  <2> QED
    BY <2>1, BackedKept
<1> QED
  BY <1>1, <1>2, <1>3, <1>4, <1>5, <1>6, MoneySteps

LEMMA InitBacked == Init => Backed
<1> SUFFICES ASSUME Init, NEW a \in Accounts PROVE SumOver(ClaimsOn(a), Requests) <= Granted[a]
  BY DEF Backed
<1> DEFINE f == ClaimsOn(a)
<1>1. \A r \in Requests : f[r] = 0
  BY DEF Init, ClaimsOn, Claimed, OpenReservation
<1>2. IsFiniteSet(Requests) /\ Granted[a] \in Nat
  BY IdentityAssumption, AmountAssumption
<1> HIDE DEF f
<1>3. SumOver(f, Requests) = 0
  BY <1>1, <1>2, SumZero
<1> QED
  BY <1>2, <1>3 DEF f

LEMMA BackedCorrect == Spec => []Backed
<1>1. TypeOK /\ Groups /\ Balanced /\ Backed /\ TypeOK' /\ Groups' /\ [Next]_vars => Backed'
  BY NextBacked
<1> QED
  BY <1>1, InitBacked, BalancedCorrect, GroupsCorrect, TypeCorrect, PTL DEF Spec

\* Core never promises more than was granted, to a key or to its user, however reservations
\* and raised authorizations of any number of requests race for the same balances
\* (reserve_dual_in_transaction, refresh_budget_authorization).
THEOREM PromisesBacked == Spec => []PromisesCovered
<1>1. ASSUME TypeOK, Groups, Backed, NEW a \in Accounts
      PROVE  Held(a) + SumOver([r \in Charged(a) |-> WithinHold(r)], Charged(a)) <= Granted[a]
  <2> DEFINE open == {r \in Requests : a \in AccountsOf(r) /\ reservation[r] \in OpenReservation}
             charged == Charged(a)
             f == ClaimsOn(a)
             w == [r \in charged |-> WithinHold(r)]
  <2>1. /\ IsFiniteSet(Requests) /\ open \subseteq Requests /\ charged \subseteq Requests
        /\ open \cap charged = {}
    BY IdentityAssumption DEF Charged, OpenReservation
  <2>2. /\ \A r \in Requests : f[r] \in Int
        /\ \A r \in open : reserved[r] \in Int /\ reserved[r] = f[r]
        /\ \A r \in charged : w[r] \in Int /\ w[r] = f[r]
        /\ \A r \in Requests \ (open \cup charged) : f[r] = 0
    <3>1. \A r \in Requests : f[r] \in Int
      BY <1>1, ClaimedType DEF ClaimsOn
    <3>2. \A r \in open : reserved[r] = f[r]
      BY DEF ClaimsOn, Claimed
    <3>3. \A r \in charged : w[r] = f[r]
      BY DEF ClaimsOn, Claimed, Charged, OpenReservation
    <3>4. \A r \in Requests \ (open \cup charged) : f[r] = 0
      BY DEF ClaimsOn, Claimed, Charged
    <3> QED
      BY <2>1, <3>1, <3>2, <3>3, <3>4
  <2>3. Held(a) = SumOver(reserved, open)
    BY DEF Held
  <2>4. SumOver(f, Requests) <= Granted[a]
    BY <1>1 DEF Backed
  <2>5. IsFiniteSet(open) /\ IsFiniteSet(charged) /\ open \cup charged \subseteq Requests
    BY <2>1, FS_Subset
  <2> HIDE DEF open, charged, f, w
  <2>6. SumOver(reserved, open) = SumOver(f, open) /\ SumOver(w, charged) = SumOver(f, charged)
    BY <2>2, <2>5, SumSame
  <2>7. \A r \in open \cup charged : f[r] \in Int
    BY <2>2, <2>5
  <2>8. SumOver(f, open \cup charged) = SumOver(f, open) + SumOver(f, charged)
    BY <2>1, <2>5, <2>7, SumDisjoint
  <2>9. SumOver(f, Requests) = SumOver(f, open \cup charged)
    BY <2>1, <2>2, <2>5, <2>7, SumWithin
  <2> QED
    BY <2>3, <2>4, <2>6, <2>8, <2>9 DEF w, charged
<1>2. TypeOK /\ Groups /\ Backed => PromisesCovered
  BY <1>1 DEF PromisesCovered
<1> QED
  BY <1>2, BackedCorrect, GroupsCorrect, TypeCorrect, PTL

-----------------------------------------------------------------------------
(* The slots of a key.                                                     *)

\* No operation starts, and no parent request is reserved or sent without its operation.
NoneStarts ==
  \A p \in Parents :
    /\ operation'[p] \in Active => operation[p] \in Active
    /\ operation[p] # "absent" => operation'[p] # "absent"
    /\ request'[p] \in {"reserved", "dispatched"} =>
         request[p] \in {"reserved", "dispatched"} \/ operation'[p] # "absent"

LEMMA OperationSteps ==
  ASSUME TypeOK, [Next]_vars
  PROVE  \/ \E r \in Requests, amount \in HoldChoices, lifetime \in Lifetimes :
              BeginOperation(r, amount, lifetime)
         \/ NoneStarts
<1> USE IdentityAssumption DEF NoneStarts, TypeOK, RequestTypeOK, Requests, Operation
<1>1. ASSUME UNCHANGED <<request, operation>> PROVE NoneStarts
  BY <1>1
<1>2. CASE RequestStep
  BY <1>2, RequestStepCases DEF BeginRequest, InsertRequest, BeginAssist, FailPreparations, FailRequests
<1>3. CASE BudgetStep
  <2>1. ASSUME NEW p \in Parents, NEW amount \in HoldChoices, NEW lifetime \in Lifetimes,
               AddStep(p, amount, lifetime)
        PROVE  NoneStarts
    BY <1>1, <2>1 DEF AddStep, requestVars
  <2>2. ASSUME NEW r \in Requests, Dispatch(r) PROVE NoneStarts
    BY <2>2 DEF Dispatch, Active
  <2>3. ASSUME NEW r \in Requests, Release(r) PROVE NoneStarts
    <3>1. operation' = operation /\ \A p \in Parents : request'[p] = request[p]
      BY <2>3 DEF Release, SyncAssist
    <3> QED
      BY <3>1
  <2>4. ASSUME NEW r \in Requests, NEW amount \in HoldChoices, NEW lifetime \in Lifetimes,
               Refresh(r, amount, lifetime)
        PROVE  NoneStarts
    BY <1>1, <2>4 DEF Refresh, requestVars
  <2> QED
    BY <1>3, <2>1, <2>2, <2>3, <2>4 DEF BudgetStep
<1>4. CASE ExecutionStep
  <2>1. ASSUME NEW r \in Requests, NEW next \in {"running", "unknown"} \cup Terminal,
               MarkExecution(r, next)
        PROVE  NoneStarts
    <3>1. \A p \in Parents : request'[p] = request[p]
      BY <2>1 DEF MarkExecution, SyncIfEnded, SyncAssist
    <3>2. \A p \in Parents :
            operation'[p] = operation[p] \/ (operation[p] \in Active /\ operation'[p] \in Active)
      BY <2>1 DEF MarkExecution, Active
    <3> QED
      BY <3>1, <3>2 DEF Active
  <2>2. ASSUME NEW p \in Parents, NEW terminal \in Terminal, Finish(p, terminal) PROVE NoneStarts
    BY <2>2 DEF Finish, Active, Terminal
  <2> QED
    BY <1>1, <1>4, <2>1, <2>2 DEF ExecutionStep, BindTask, requestVars
<1>5. CASE ReceiptStep
  BY <1>1, <1>5 DEF ReceiptStep, MarkConflict, ConflictingReceipt, Quarantine,
     LatePendingReceipt, PendingReceipt, SettlingReceipt, requestVars
<1>6. CASE Environment \/ UNCHANGED vars
  BY <1>1, <1>6 DEF Environment, RevokeKey, Tick, requestVars, vars
<1> QED
  BY <1>2, <1>3, <1>4, <1>5, <1>6 DEF Next

LEMMA FiniteOperations == ASSUME NEW k PROVE IsFiniteSet(ActiveOperations(k))
BY IdentityAssumption, FS_Subset DEF ActiveOperations, Requests

LEMMA FiniteWaiting == ASSUME NEW p PROVE IsFiniteSet(WaitingBefore(p))
BY IdentityAssumption, FS_Subset DEF WaitingBefore, Requests

LEMMA NextConcurrency == TypeOK /\ ConcurrencyBound /\ [Next]_vars => ConcurrencyBound'
<1> SUFFICES ASSUME TypeOK, ConcurrencyBound, [Next]_vars, NEW k \in Keys
             PROVE  Cardinality(ActiveOperations(k)') <= MaxConcurrency[k]
  BY DEF ConcurrencyBound
<1> DEFINE before == ActiveOperations(k)
           after == ActiveOperations(k)'
<1>0. /\ IsFiniteSet(before) /\ Cardinality(before) \in Nat
      /\ Cardinality(before) <= MaxConcurrency[k] /\ MaxConcurrency[k] \in Nat
  BY FiniteOperations, FS_CardinalityType, AmountAssumption DEF ConcurrencyBound
<1>1. ASSUME after \subseteq before PROVE Cardinality(after) <= MaxConcurrency[k]
  <2> HIDE DEF before, after
  <2>1. IsFiniteSet(after) /\ Cardinality(after) <= Cardinality(before)
    BY <1>0, <1>1, FS_Subset
  <2>2. Cardinality(after) \in Nat
    BY <2>1, FS_CardinalityType
  <2> QED
    BY <1>0, <2>1, <2>2
<1>2. ASSUME NEW r \in Requests, NEW amount \in HoldChoices, NEW lifetime \in Lifetimes,
             BeginOperation(r, amount, lifetime)
      PROVE  Cardinality(after) <= MaxConcurrency[k]
  <2> DEFINE p == Operation(r)
  <2>0. p \in Parents
    BY IdentityAssumption DEF Operation, Requests, Parents
  <2>1. operation[p] = "absent" /\ operation' = [operation EXCEPT ![p] = "ready"] /\ ConcurrencyLeft(p)
    BY <1>2 DEF BeginOperation
  <2> HIDE DEF p
  <2>2. CASE KeyOf[p] # k
    <3>1. after \subseteq before
      BY <2>0, <2>1, <2>2 DEF ActiveOperations, TypeOK, RequestTypeOK
    <3> QED
      BY <1>1, <3>1
  <2>3. CASE KeyOf[p] = k
    <3>1. after = before \cup {p} /\ p \notin before
      BY <2>0, <2>1, <2>3 DEF ActiveOperations, TypeOK, RequestTypeOK, Active
    <3>2. Cardinality(before) + Cardinality(WaitingBefore(p)) < MaxConcurrency[k]
      BY <2>1, <2>3 DEF ConcurrencyLeft
    <3>3. Cardinality(WaitingBefore(p)) \in Nat
      BY FiniteWaiting, FS_CardinalityType
    <3> HIDE DEF before, after
    <3>4. Cardinality(after) = Cardinality(before) + 1
      BY <1>0, <3>1, FS_AddElement
    <3> QED
      BY <1>0, <3>2, <3>3, <3>4
  <2> QED
    BY <2>2, <2>3
<1>3. ASSUME NoneStarts PROVE after \subseteq before
  BY <1>3 DEF NoneStarts, ActiveOperations
<1> QED
  BY <1>1, <1>2, <1>3, OperationSteps

\* A key never has more operations under way than its limit, whichever of its requests
\* are admitted first (begin_budget_operation counts and inserts in one transaction).
THEOREM SlotsBounded == Spec => []ConcurrencyBound
<1>1. ASSUME Init, NEW k \in Keys PROVE Cardinality(ActiveOperations(k)) <= MaxConcurrency[k]
  <2>1. ActiveOperations(k) = {}
    BY <1>1 DEF Init, ActiveOperations, Active
  <2> QED
    BY <2>1, FS_EmptySet, AmountAssumption
<1>2. Init => ConcurrencyBound
  BY <1>1 DEF ConcurrencyBound
<1> QED
  BY <1>2, NextConcurrency, TypeCorrect, PTL DEF Spec

\* A parent request holds a slot past its receipt only through its operation.
Admitted ==
  \A p \in Parents : request[p] \in {"reserved", "dispatched"} => operation[p] # "absent"

LEMMA NextAdmitted == TypeOK /\ Admitted /\ [Next]_vars => Admitted'
<1>1. ASSUME TypeOK, Admitted, NEW r \in Requests, NEW amount \in HoldChoices,
             NEW lifetime \in Lifetimes, BeginOperation(r, amount, lifetime)
      PROVE  Admitted'
  BY <1>1 DEF BeginOperation, Admitted, TypeOK, RequestTypeOK
<1>2. Admitted /\ NoneStarts => Admitted'
  BY DEF Admitted, NoneStarts
<1> QED
  BY <1>1, <1>2, OperationSteps

\* Among the waiting requests of a finite set one arrived first.
LEMMA FirstArrival ==
  ASSUME TypeOK, NEW W, W \subseteq Parents, W # {}
  PROVE  \E p \in W : \A q \in W : ~Earlier(q, p)
<1> DEFINE First(T) == \E p \in T : \A q \in T : ~Earlier(q, p)
           G == {T \in SUBSET W : T # {} => First(T)}
<1>0. IsFiniteSet(W)
  BY IdentityAssumption, FS_Subset DEF Requests
<1>1. \A p \in Parents : createdAt[p] \in Nat /\ IdRank[p] \in Nat
  BY IdentityAssumption DEF TypeOK, RequestTypeOK, Requests
<1>2. \A p, q, s \in Parents : Earlier(q, p) => ~Earlier(p, q) /\ (Earlier(s, q) => Earlier(s, p))
  BY <1>1 DEF Earlier
<1>3. \A p \in Parents : ~Earlier(p, p)
  BY <1>1 DEF Earlier
<1>4. ASSUME NEW T \in SUBSET W, \A U \in SUBSET T : U # T => U \in G
      PROVE  T \in G
  <2> SUFFICES ASSUME T # {} PROVE First(T)
    OBVIOUS
  <2>1. PICK x \in T : TRUE
    OBVIOUS
  <2>2. CASE T \ {x} = {}
    BY <1>3, <2>1, <2>2
  <2>3. CASE T \ {x} # {}
    <3>0. T \ {x} \in SUBSET T /\ T \ {x} # T
      BY <2>1
    <3>1. First(T \ {x})
      BY <1>4, <2>3, <3>0
    <3>2. PICK m \in T \ {x} : \A q \in T \ {x} : ~Earlier(q, m)
      BY <3>1
    <3>3. CASE Earlier(x, m)
      <4>1. \A q \in T : ~Earlier(q, x)
        BY <1>2, <1>3, <3>2, <3>3
      <4> QED
        BY <4>1
    <3>4. CASE ~Earlier(x, m)
      BY <3>2, <3>4
    <3> QED
      BY <3>3, <3>4
  <2> QED
    BY <2>2, <2>3
<1> HIDE DEF G
<1>5. SUBSET W \subseteq G
  BY <1>0, <1>4, SubsetInduction
<1> QED
  BY <1>5 DEF G

\* Waiting requests of a key do not keep one another out, however many they are and in
\* whatever order they ask: the one that arrived first has nothing before it
\* (begin_budget_operation counts only received requests with a smaller (created_at_ms, id)).
THEOREM FirstIsAdmitted == Spec => []HeadOfLineAdmitted
<1>1. Init => Admitted
  BY DEF Init, Admitted, Requests
<1>2. ASSUME TypeOK, Admitted PROVE HeadOfLineAdmitted
  <2> SUFFICES ASSUME NEW k \in Keys,
                      {p \in Parents : KeyOf[p] = k /\ request[p] = "received"} # {},
                      Cardinality(ActiveOperations(k)) < MaxConcurrency[k]
               PROVE  \E p \in {q \in Parents : KeyOf[q] = k /\ request[q] = "received"} :
                        ConcurrencyLeft(p)
    BY DEF HeadOfLineAdmitted
  <2>1. PICK p \in {q \in Parents : KeyOf[q] = k /\ request[q] = "received"} :
               \A q \in {q \in Parents : KeyOf[q] = k /\ request[q] = "received"} : ~Earlier(q, p)
    BY <1>2, FirstArrival
  <2>2. WaitingBefore(p) = {}
    BY <1>2, <2>1 DEF WaitingBefore, Admitted, Occupying
  <2>3. Cardinality(WaitingBefore(p)) = 0 /\ Cardinality(ActiveOperations(k)) \in Nat
    BY <2>2, FS_EmptySet, FiniteOperations, FS_CardinalityType
  <2>4. ConcurrencyLeft(p)
    BY <2>1, <2>3 DEF ConcurrencyLeft
  <2> QED
    BY <2>1, <2>4
<1> QED
  BY <1>1, <1>2, NextAdmitted, TypeCorrect, PTL DEF Spec
=============================================================================
