--------------------------- MODULE KeyQuotaProofs ---------------------------
(***************************************************************************)
(* Proofs about quota accounts: types, the books of keys and users, the    *)
(* pool behind the keys, and what a completed pass has quarantined, for    *)
(* any users, keys, holds, amounts and batch limit.                        *)
(***************************************************************************)
EXTENDS KeyQuota, SumTheorems, SequenceTheorems, TLAPS

-----------------------------------------------------------------------------
(* The inductive invariant.                                                *)

States == {"absent", "ready", "reconcile_required"}

HoldRecords ==
  [state : {"absent", "held", "unknown", "released", "committed"},
   amount : Nat, cost : Nat, on : SUBSET Accounts, stamps : SUBSET (Accounts \X Nat)]

Moves == [amount : Nat \ {0}, from : Users, to : Keys]

Tables ==
  /\ active \subseteq Keys /\ deleted \subseteq Keys
  /\ balance \in [Accounts -> Int] /\ loose \in [Users -> Int] /\ rows \subseteq Users
  /\ given \in [Accounts -> Int] /\ outside \subseteq Users

\* Account rows appear with their first version, and empty.
AccountRows ==
  /\ state \in [Accounts -> States] /\ version \in [Accounts -> Nat]
  /\ \A a \in Accounts : state[a] = "absent" <=> version[a] = 0
  /\ \A a \in Accounts : state[a] = "absent" => balance[a] = 0

\* A migration moves between the accounts of one user.
MoveRows ==
  /\ moved \in [Migrations -> {NotMoved} \cup Moves]
  /\ \A m \in Migrations : moved[m] # NotMoved => moved[m].from = OwnerOf[moved[m].to]

\* A group has rows on accounts that exist, at versions they have had.
Group(h) ==
  /\ h \in KeyHolds => /\ hold[h].on \subseteq {KeyOf[h], OwnerOf[KeyOf[h]]}
                       /\ Made(h) => KeyOf[h] \in hold[h].on
                       /\ \A a \in hold[h].on : state[a] # "absent"
  /\ h \in UserHolds => /\ hold[h].on \subseteq {HolderOf[h]} /\ hold[h].stamps = {}
                        /\ hold[h].cost <= hold[h].amount
  /\ ~ Made(h) => hold[h] = NoHold
  /\ hold[h].state # "committed" => hold[h].cost = 0
  /\ \A s \in hold[h].stamps : s[1] \in hold[h].on /\ s[2] \in 1 .. version[s[1]]

Groups == hold \in [Holds -> HoldRecords] /\ \A h \in Holds : Group(h)

\* The holds that were made, each once.
Lined ==
  /\ queue \in Seq(Holds)
  /\ \A h \in Holds : Made(h) <=> \E i \in DOMAIN queue : queue[i] = h
  /\ \A i, j \in DOMAIN queue : queue[i] = queue[j] => i = j

Shape == Tables /\ AccountRows /\ MoveRows /\ Groups /\ Lined

\* Who bears what a hold took: a key's hold is on accounts, another on its user.
Bears(h) == IF h \in KeyHolds THEN hold[h].on ELSE {HolderOf[h]}

Funds(a) == IF a \in Keys THEN balance[a] ELSE loose[a] + balance[a]

TakenOf(a) == [h \in Holds |-> IF a \in Bears(h) THEN Taken(h) ELSE 0]

MovedOf(a) == [m \in Migrations |-> IF moved[m] = NotMoved THEN 0
                                    ELSE IF moved[m].to = a THEN moved[m].amount
                                    ELSE IF moved[m].from = a THEN - moved[m].amount
                                    ELSE 0]

\* The books, account by account.
Even(a) == Funds(a) = given[a] + SumOver(MovedOf(a), Migrations) - SumOver(TakenOf(a), Holds)

Excess(h) == Larger(0, hold[h].cost - hold[h].amount)

\* What receipts took from a key above the holds they settled.
OverKey(k) == [h \in KeyHolds |-> IF KeyOf[h] = k THEN Excess(h) ELSE 0]

\* A key is overdrawn by receipts only, and a user not before there is a pool.
Solvent ==
  /\ \A k \in Keys : balance[k] + SumOver(OverKey(k), KeyHolds) >= 0
  /\ \A u \in Users : state[u] = "absent" => loose[u] >= 0

Counted(u) == [k \in Keys |-> IF OwnerOf[k] = u /\ k \in active THEN balance[k] ELSE 0]

LostOn(u) == [h \in KeyHolds |-> IF OwnerOf[KeyOf[h]] = u /\ KeyOf[h] \notin active
                                 THEN Excess(h) ELSE 0]

\* What active keys have free is backed by what the pool has free, and by what
\* receipts took from it in excess for keys that are not active any more.
Backing(u) ==
  /\ \A k \in KeysOf(u) : state[k] # "absent" => state[u] # "absent"
  /\ \A h \in KeyHolds : Made(h) /\ OwnerOf[KeyOf[h]] = u => u \in hold[h].on
  /\ SumOver(Counted(u), Keys) <= balance[u] + SumOver(LostOn(u), KeyHolds)

Money == (\A a \in Accounts : Even(a)) /\ Solvent /\ (\A u \in Users \ outside : Backing(u))

InLine(h) == \E i \in DOMAIN queue : queue[i] = h

Marked(h) == \A a \in hold[h].on : state[a] = "reconcile_required"

\* What a pass has behind it is marked, of the holds that were beyond repair.
SweepRows ==
  sweep # NoSweep =>
    /\ InLine(sweep.after) /\ InLine(sweep.through)
    /\ Place(sweep.after) < Place(sweep.through)
    /\ sweep.begun \subseteq KeyHolds
    /\ \A h \in sweep.begun : /\ InLine(h) /\ Beyond(h) /\ Place(h) <= Place(sweep.through)
                              /\ Place(h) <= Place(sweep.after) => Marked(h)

SweepForm ==
  sweep = NoSweep \/ \E x, y \in Holds, S \in SUBSET KeyHolds :
                       sweep = [passes |-> TRUE, after |-> x, begun |-> S, through |-> y]

Sweeping == SweepForm /\ SweepRows

Inv == Shape /\ Money /\ Sweeping

-----------------------------------------------------------------------------
(* What the steps do, account by account.                                  *)

LEMMA Identities ==
  /\ \A k \in Keys : OwnerOf[k] \in Users /\ k \notin Users /\ k \in Accounts
  /\ \A u \in Users : u \notin Keys /\ u \in Accounts
  /\ \A h \in KeyHolds : KeyOf[h] \in Keys /\ h \notin UserHolds /\ h \in Holds
  /\ \A h \in UserHolds : HolderOf[h] \in Users /\ h \notin KeyHolds /\ h \in Holds
  /\ \A n \in Amounts : n \in Nat \ {0}
  /\ \A a \in Accounts : a \in Keys \/ a \in Users
  /\ \A h \in Holds : h \in KeyHolds \/ h \in UserHolds
BY QuotaIdentities, QuotaAmounts DEF Accounts, Holds

LEMMA FiniteSets ==
  IsFiniteSet(Keys) /\ IsFiniteSet(Users) /\ IsFiniteSet(KeyHolds) /\ IsFiniteSet(UserHolds)
  /\ IsFiniteSet(Accounts) /\ IsFiniteSet(Holds) /\ IsFiniteSet(Migrations)
BY QuotaIdentities, FS_Subset DEF Accounts, Holds

\* Accounts are only ever made, and their versions only grow.
Growing ==
  /\ \A a \in Accounts : state[a] # "absent" => state'[a] # "absent"
  /\ \A a \in Accounts : version[a] <= version'[a]
  /\ \A a \in Accounts : state[a] = "reconcile_required" => state'[a] = "reconcile_required"

\* A hold stays as it is, unless a pool adopts it.
Adopting ==
  /\ hold' \in [Holds -> HoldRecords]
  /\ \A h \in Holds : \/ hold'[h] = hold[h]
                      \/ /\ h \in UserHolds /\ Made(h)
                         /\ hold'[h] = [hold[h] EXCEPT !.on = {HolderOf[h]}]

\* Adoption leaves what a hold took, and who bears it.
LEMMA AdoptedSame ==
  ASSUME Shape, Adopting, NEW h \in Holds
  PROVE  /\ Made(h)' <=> Made(h)
         /\ hold'[h].state = hold[h].state /\ hold'[h].amount = hold[h].amount
         /\ hold'[h].cost = hold[h].cost /\ hold'[h].stamps = hold[h].stamps
         /\ h \in KeyHolds => hold'[h] = hold[h]
         /\ Taken(h)' = Taken(h) /\ Bears(h)' = Bears(h) /\ Excess(h)' = Excess(h)
<1>1. hold[h] \in HoldRecords
  BY DEF Shape, Groups
<1>2. /\ hold'[h].state = hold[h].state /\ hold'[h].amount = hold[h].amount
      /\ hold'[h].cost = hold[h].cost /\ hold'[h].stamps = hold[h].stamps
      /\ h \in KeyHolds => hold'[h] = hold[h]
  BY <1>1, Identities DEF Adopting, HoldRecords
<1> QED
  BY <1>2 DEF Made, Taken, Bears, Excess

LEMMA GroupsAdopted ==
  ASSUME Shape, Adopting, Growing, version' \in [Accounts -> Nat]
  PROVE  Groups'
<1>1. ASSUME NEW h \in Holds PROVE Group(h)'
  <2>1. hold[h] \in HoldRecords /\ Group(h) /\ hold'[h] \in HoldRecords
    BY DEF Shape, Groups, Adopting
  <2>2. \A a \in Accounts : version[a] \in Nat /\ version'[a] \in Nat
    BY DEF Shape, AccountRows
  <2>3. hold'[h] = hold[h] \/ (h \in UserHolds /\ Made(h)
                               /\ hold'[h] = [hold[h] EXCEPT !.on = {HolderOf[h]}])
    BY DEF Adopting
  <2>4. /\ hold'[h].state = hold[h].state /\ hold'[h].amount = hold[h].amount
        /\ hold'[h].cost = hold[h].cost /\ hold'[h].stamps = hold[h].stamps
        /\ h \in KeyHolds => hold'[h] = hold[h] /\ hold'[h].on = hold[h].on
        /\ Made(h)' <=> Made(h)
    BY AdoptedSame
  <2>5. h \in KeyHolds => /\ hold'[h].on \subseteq {KeyOf[h], OwnerOf[KeyOf[h]]}
                          /\ Made(h)' => KeyOf[h] \in hold'[h].on
                          /\ \A a \in hold'[h].on : state'[a] # "absent"
    <3>1. hold[h].on \subseteq Accounts
      BY <2>1 DEF HoldRecords
    <3> QED
      BY <2>1, <2>4, <3>1 DEF Group, Growing
  <2>6. h \in UserHolds => /\ hold'[h].on \subseteq {HolderOf[h]} /\ hold'[h].stamps = {}
                           /\ hold'[h].cost <= hold'[h].amount
    BY <2>1, <2>3, <2>4 DEF Group, HoldRecords
  <2>7. ~ Made(h)' => hold'[h] = NoHold
    BY <2>1, <2>3, <2>4 DEF Group
  <2>8. \A s \in hold'[h].stamps : s[1] \in hold'[h].on /\ s[2] \in 1 .. version'[s[1]]
    <3> SUFFICES ASSUME NEW s \in hold'[h].stamps
                 PROVE  s[1] \in hold'[h].on /\ s[2] \in 1 .. version'[s[1]]
      OBVIOUS
    <3>1. s \in hold[h].stamps /\ h \in KeyHolds /\ hold'[h] = hold[h]
      BY <2>1, <2>4, Identities DEF Group
    <3>2. s[1] \in hold[h].on /\ s[2] \in 1 .. version[s[1]] /\ s[1] \in Accounts
      BY <2>1, <3>1 DEF Group, HoldRecords
    <3> QED
      BY <2>2, <3>1, <3>2 DEF Growing
  <2>9. hold'[h].state # "committed" => hold'[h].cost = 0
    BY <2>1, <2>4 DEF Group
  <2> QED
    BY <2>5, <2>6, <2>7, <2>8, <2>9, Identities DEF Group
<1> QED
  BY <1>1 DEF Groups, Adopting

LEMMA LinedAdopted ==
  ASSUME Shape, Adopting, queue' = queue
  PROVE  Lined'
<1>1. \A h \in Holds : Made(h)' <=> Made(h)
  BY AdoptedSame
<1> QED
  BY <1>1 DEF Shape, Lined

LEMMA AdoptHoldsAdopting ==
  ASSUME Shape, NEW u, AdoptHolds(u)
  PROVE  Adopting
<1>1. ASSUME NEW h \in Holds
      PROVE  /\ hold'[h] \in HoldRecords
             /\ \/ hold'[h] = hold[h]
                \/ /\ h \in UserHolds /\ Made(h)
                   /\ hold'[h] = [hold[h] EXCEPT !.on = {HolderOf[h]}]
  <2>1. hold[h] \in HoldRecords /\ (h \in UserHolds => HolderOf[h] \in Accounts)
    BY Identities DEF Shape, Groups
  <2>2. CASE /\ state[u] = "absent"
             /\ h \in UserHolds /\ Made(h) /\ HolderOf[h] = u /\ hold[h].on = {}
    <3>1. hold'[h] = [hold[h] EXCEPT !.on = {HolderOf[h]}]
      BY <2>2 DEF AdoptHolds
    <3>2. [hold[h] EXCEPT !.on = {HolderOf[h]}] \in HoldRecords
      BY <2>1, <2>2 DEF HoldRecords
    <3> QED
      BY <2>2, <3>1, <3>2
  <2>3. CASE ~ (/\ state[u] = "absent"
                /\ h \in UserHolds /\ Made(h) /\ HolderOf[h] = u /\ hold[h].on = {})
    <3>1. hold'[h] = hold[h]
      BY <2>3 DEF AdoptHolds
    <3> QED
      BY <2>1, <3>1
  <2> QED
    BY <2>2, <2>3
<1>2. hold' = [h \in Holds |-> hold'[h]]
  BY DEF AdoptHolds
<1>3. hold' \in [Holds -> HoldRecords]
  BY <1>1, <1>2
<1> QED
  BY <1>1, <1>3 DEF Adopting

-----------------------------------------------------------------------------
(* The line of holds.                                                      *)

\* What stands where after an insertion.
LEMMA Inserted ==
  ASSUME NEW S, NEW q \in Seq(S), NEW i \in 1 .. Len(q) + 1, NEW x \in S,
         NEW r, r = InsertAt(q, i, x)
  PROVE  /\ r \in Seq(S) /\ Len(r) = Len(q) + 1 /\ r[i] = x
         /\ \A j \in 1 .. Len(q) : r[IF j < i THEN j ELSE j + 1] = q[j]
<1> DEFINE a == SubSeq(q, 1, i - 1)
           b == SubSeq(q, i, Len(q))
<1>1. Len(q) \in Nat /\ \A j \in 1 .. Len(q) : q[j] \in S
  BY LenProperties, ElementOfSeq
<1>2. a \in Seq(S) /\ Len(a) = i - 1 /\ \A j \in 1 .. i - 1 : a[j] = q[j]
  <2>1. \A j \in 1 .. i - 1 : q[j] \in S
    BY <1>1
  <2>2. /\ a \in Seq(S) /\ Len(a) = IF 1 <= i - 1 THEN (i - 1) - 1 + 1 ELSE 0
        /\ \A j \in 1 .. (i - 1) - 1 + 1 : a[j] = q[1 + j - 1]
    BY <1>1, <2>1, SubSeqProperties
  <2> HIDE DEF a
  <2> QED
    BY <1>1, <2>2
<1>3. b \in Seq(S) /\ Len(b) = Len(q) - i + 1 /\ \A j \in 1 .. Len(q) - i + 1 : b[j] = q[i + j - 1]
  <2>1. \A j \in i .. Len(q) : q[j] \in S
    BY <1>1
  <2>2. /\ b \in Seq(S) /\ Len(b) = IF i <= Len(q) THEN Len(q) - i + 1 ELSE 0
        /\ \A j \in 1 .. Len(q) - i + 1 : b[j] = q[i + j - 1]
    BY <1>1, <2>1, SubSeqProperties
  <2> HIDE DEF b
  <2> QED
    BY <1>1, <2>2
<1>4. <<x>> \in Seq(S) /\ Len(<<x>>) = 1 /\ <<x>>[1] = x
  OBVIOUS
<1>5. r = a \o <<x>> \o b
  BY DEF InsertAt
<1> HIDE DEF a, b
<1> DEFINE c == a \o <<x>>
<1>6. c \in Seq(S) /\ Len(c) = i /\ \A j \in 1 .. i : c[j] = IF j <= i - 1 THEN a[j] ELSE <<x>>[j - (i - 1)]
  <2> DEFINE y == <<x>>
  <2>1. y \in Seq(S) /\ Len(y) = 1
    BY <1>4
  <2> HIDE DEF y
  <2>2. /\ a \o y \in Seq(S) /\ Len(a \o y) = Len(a) + Len(y)
        /\ \A j \in 1 .. Len(a) + Len(y) : (a \o y)[j] = IF j <= Len(a) THEN a[j] ELSE y[j - Len(a)]
    BY <1>2, <2>1, ConcatProperties
  <2>3. /\ a \o y \in Seq(S) /\ Len(a \o y) = i
        /\ \A j \in 1 .. i : (a \o y)[j] = IF j <= i - 1 THEN a[j] ELSE y[j - (i - 1)]
    BY <1>1, <1>2, <2>1, <2>2
  <2> QED
    BY <2>3 DEF y
<1>7. c[i] = x /\ \A j \in 1 .. i - 1 : c[j] = q[j]
  <2>1. c[i] = <<x>>[i - (i - 1)]
    BY <1>1, <1>6
  <2>2. i - (i - 1) = 1
    BY <1>1
  <2>3. \A j \in 1 .. i - 1 : c[j] = a[j]
    BY <1>1, <1>6
  <2> HIDE DEF c
  <2> QED
    BY <1>2, <1>4, <2>1, <2>2, <2>3
<1> HIDE DEF c
<1>8. /\ c \o b \in Seq(S) /\ Len(c \o b) = Len(c) + Len(b)
      /\ \A j \in 1 .. Len(c) + Len(b) : (c \o b)[j] = IF j <= Len(c) THEN c[j] ELSE b[j - Len(c)]
  BY <1>3, <1>6, ConcatProperties
<1>9. r = c \o b
  BY <1>5 DEF c
<1>10. ASSUME NEW j \in 1 .. Len(q) PROVE r[IF j < i THEN j ELSE j + 1] = q[j]
  <2>1. CASE j < i
    <3>1. j \in 1 .. Len(c) + Len(b) /\ j <= Len(c) /\ j \in 1 .. i - 1
      BY <1>1, <1>3, <1>6, <2>1
    <3> QED
      BY <1>7, <1>8, <1>9, <2>1, <3>1
  <2>2. CASE ~ (j < i)
    <3>1. /\ j + 1 \in 1 .. Len(c) + Len(b) /\ ~ (j + 1 <= Len(c))
          /\ (j + 1) - Len(c) \in 1 .. Len(q) - i + 1
          /\ i + ((j + 1) - Len(c)) - 1 = j
      BY <1>1, <1>3, <1>6, <2>2
    <3>2. r[j + 1] = b[(j + 1) - Len(c)]
      BY <1>8, <1>9, <3>1
    <3>3. b[(j + 1) - Len(c)] = q[i + ((j + 1) - Len(c)) - 1]
      BY <1>3, <3>1
    <3> QED
      BY <2>2, <3>1, <3>2, <3>3
  <2> QED
    BY <2>1, <2>2
<1> QED
  BY <1>1, <1>3, <1>6, <1>7, <1>8, <1>9, <1>10

LEMMA LineFacts ==
  ASSUME Lined
  PROVE  Len(queue) \in Nat /\ DOMAIN queue = 1 .. Len(queue)
         /\ \A i \in 1 .. Len(queue) : queue[i] \in Holds
BY LenProperties, ElementOfSeq DEF Lined

LEMMA PlaceIn ==
  ASSUME Lined, NEW h, InLine(h)
  PROVE  Place(h) \in 1 .. Len(queue) /\ queue[Place(h)] = h
BY LineFacts DEF InLine, Place

LEMMA PlaceIs ==
  ASSUME Lined, NEW i \in 1 .. Len(queue)
  PROVE  InLine(queue[i]) /\ Place(queue[i]) = i
<1>1. InLine(queue[i])
  BY LineFacts DEF InLine
<1> QED
  BY <1>1, PlaceIn, LineFacts DEF Lined

\* A new hold gets in line somewhere, and the others keep their order.
LEMMA EnqueueLine ==
  ASSUME Lined, NEW h \in Holds, ~ Made(h), Enqueue(h),
         \A g \in Holds : Made(g)' <=> Made(g) \/ g = h
  PROVE  /\ Lined'
         /\ \A g : InLine(g) => InLine(g)'
         /\ \A f, g : InLine(f) /\ InLine(g) => (Place(f)' <= Place(g)' <=> Place(f) <= Place(g))
<1>0. Len(queue) \in Nat /\ DOMAIN queue = 1 .. Len(queue) /\ queue \in Seq(Holds)
      /\ \A j \in 1 .. Len(queue) : queue[j] \in Holds
  BY LineFacts DEF Lined
<1>1. PICK i \in 1 .. Len(queue) + 1 : queue' = InsertAt(queue, i, h)
  BY DEF Enqueue
<1> DEFINE sh(j) == IF j < i THEN j ELSE j + 1
<1>2. /\ queue' \in Seq(Holds) /\ Len(queue') = Len(queue) + 1 /\ queue'[i] = h
      /\ \A j \in 1 .. Len(queue) : queue'[sh(j)] = queue[j]
  BY <1>0, <1>1, Inserted
<1>3. DOMAIN queue' = 1 .. Len(queue) + 1
  BY <1>2, LenProperties
<1>4. ASSUME NEW l \in 1 .. Len(queue) + 1
      PROVE  l = i \/ \E j \in 1 .. Len(queue) : l = sh(j)
  <2>1. CASE l < i
    <3>1. l \in 1 .. Len(queue) /\ l = sh(l)
      BY <1>0, <2>1
    <3> QED
      BY <3>1
  <2>2. CASE l > i
    <3>1. l - 1 \in 1 .. Len(queue) /\ l = sh(l - 1)
      BY <1>0, <2>2
    <3> QED
      BY <3>1
  <2> QED
    BY <1>0, <2>1, <2>2
<1>5. \A j \in 1 .. Len(queue) : sh(j) \in 1 .. Len(queue) + 1 /\ sh(j) # i
  BY <1>0
<1>6. \A j, l \in 1 .. Len(queue) : sh(j) <= sh(l) <=> j <= l
  BY <1>0
<1> HIDE DEF sh
<1>7. \A j \in 1 .. Len(queue) : queue[j] # h
  BY <1>0 DEF Lined
<1>8. \A g \in Holds : Made(g)' <=> \E l \in DOMAIN queue' : queue'[l] = g
  <2> SUFFICES ASSUME NEW g \in Holds PROVE Made(g)' <=> \E l \in DOMAIN queue' : queue'[l] = g
    OBVIOUS
  <2>1. ASSUME Made(g) PROVE \E l \in DOMAIN queue' : queue'[l] = g
    <3>1. PICK j \in 1 .. Len(queue) : queue[j] = g
      BY <1>0, <2>1 DEF Lined
    <3> QED
      BY <1>2, <1>3, <1>5, <3>1
  <2>2. ASSUME g = h PROVE \E l \in DOMAIN queue' : queue'[l] = g
    BY <1>2, <1>3, <2>2
  <2>3. ASSUME NEW l \in DOMAIN queue', queue'[l] = g PROVE Made(g) \/ g = h
    <3>1. CASE l = i
      BY <1>2, <2>3, <3>1
    <3>2. ASSUME NEW j \in 1 .. Len(queue), l = sh(j) PROVE Made(g)
      BY <1>0, <1>2, <2>3, <3>2 DEF Lined
    <3> QED
      BY <1>3, <1>4, <2>3, <3>1, <3>2
  <2> QED
    BY <2>1, <2>2, <2>3
<1>9. \A l, m \in DOMAIN queue' : queue'[l] = queue'[m] => l = m
  <2> SUFFICES ASSUME NEW l \in DOMAIN queue', NEW m \in DOMAIN queue', queue'[l] = queue'[m]
               PROVE  l = m
    OBVIOUS
  <2>1. ASSUME NEW j \in 1 .. Len(queue), l = sh(j), m = i PROVE FALSE
    BY <1>2, <1>7, <2>1
  <2>2. ASSUME NEW j \in 1 .. Len(queue), m = sh(j), l = i PROVE FALSE
    BY <1>2, <1>7, <2>2
  <2>3. ASSUME NEW j \in 1 .. Len(queue), l = sh(j), NEW k \in 1 .. Len(queue), m = sh(k)
        PROVE  l = m
    <3>1. queue[j] = queue[k]
      BY <1>2, <2>3
    <3> QED
      BY <1>0, <2>3, <3>1 DEF Lined
  <2> QED
    BY <1>3, <1>4, <2>1, <2>2, <2>3
<1>10. Lined'
  BY <1>2, <1>8, <1>9 DEF Lined
<1>11. ASSUME NEW g, InLine(g) PROVE InLine(g)' /\ Place(g)' = sh(Place(g))
  <2>1. Place(g) \in 1 .. Len(queue) /\ queue[Place(g)] = g
    BY <1>11, PlaceIn
  <2>2. sh(Place(g)) \in DOMAIN queue' /\ queue'[sh(Place(g))] = g
    BY <1>2, <1>3, <1>5, <2>1
  <2>3. \A l \in DOMAIN queue' : queue'[l] = g => l = sh(Place(g))
    BY <1>9, <2>2
  <2>4. (CHOOSE l \in DOMAIN queue' : queue'[l] = g) = sh(Place(g))
    BY <2>2, <2>3
  <2> QED
    BY <2>2, <2>4 DEF InLine, Place
<1>12. \A f, g : InLine(f) /\ InLine(g) => (Place(f)' <= Place(g)' <=> Place(f) <= Place(g))
  BY <1>6, <1>11, PlaceIn
<1> QED
  BY <1>10, <1>11, <1>12

\* The same, after a step.
LEMMA PlaceInNext ==
  ASSUME Lined', NEW h, InLine(h)'
  PROVE  Place(h)' \in 1 .. Len(queue') /\ queue'[Place(h)'] = h
<1>1. DOMAIN queue' = 1 .. Len(queue')
  BY LenProperties DEF Lined
<1> QED
  BY <1>1 DEF InLine, Place

-----------------------------------------------------------------------------
(* What stays while a pass is under way.                                   *)

\* What is beyond repair stays so, and the line keeps its order.
Kept(h) ==
  /\ hold[h].on = hold'[h].on /\ hold[h].stamps \subseteq hold'[h].stamps
  /\ hold[h].cost > hold[h].amount => hold'[h].cost > hold'[h].amount

Orderly ==
  /\ \A h \in KeyHolds : InLine(h) => Kept(h)
  /\ \A g : InLine(g) => InLine(g)'
  /\ \A f, g : InLine(f) /\ InLine(g) => (Place(f)' <= Place(g)' <=> Place(f) <= Place(g))

LEMMA BeyondStays ==
  ASSUME Shape, Shape', Growing, NEW h \in KeyHolds, Kept(h), Beyond(h)
  PROVE  Beyond(h)'
<1>1. CASE hold[h].cost > hold[h].amount
  BY <1>1 DEF Kept, Beyond
<1>2. CASE \E s \in hold[h].stamps : s[2] # version[s[1]]
  <2>1. PICK s \in hold[h].stamps : s[2] # version[s[1]]
    BY <1>2
  <2>2. s[1] \in Accounts /\ s[2] \in 1 .. version[s[1]] /\ s \in hold'[h].stamps
    BY Identities DEF Shape, Groups, Group, HoldRecords, Kept
  <2>3. version[s[1]] \in Nat /\ version'[s[1]] \in Nat /\ version[s[1]] <= version'[s[1]]
    BY <2>2 DEF Shape, AccountRows, Growing
  <2>4. s[2] # version'[s[1]]
    BY <2>1, <2>2, <2>3
  <2> QED
    BY <2>2, <2>4 DEF Beyond
<1> QED
  BY <1>1, <1>2 DEF Beyond

LEMMA SweepFields ==
  ASSUME SweepForm, sweep # NoSweep
  PROVE  sweep.begun \in SUBSET KeyHolds /\ sweep.after \in Holds /\ sweep.through \in Holds
BY DEF SweepForm

LEMMA SweepStays ==
  ASSUME Shape, Shape', Growing, Orderly, Sweeping, sweep' = sweep
  PROVE  Sweeping'
<1>1. SweepForm'
  BY DEF Sweeping, SweepForm
<1>2. SUFFICES ASSUME sweep # NoSweep
               PROVE  /\ InLine(sweep.after)' /\ InLine(sweep.through)'
                      /\ Place(sweep.after)' < Place(sweep.through)'
                      /\ \A h \in sweep.begun :
                           /\ InLine(h)' /\ Beyond(h)' /\ Place(h)' <= Place(sweep.through)'
                           /\ Place(h)' <= Place(sweep.after)' => Marked(h)'
  BY <1>1, SweepFields DEF Sweeping, SweepRows
<1>3. /\ InLine(sweep.after) /\ InLine(sweep.through)
      /\ Place(sweep.after) < Place(sweep.through)
      /\ \A h \in sweep.begun : /\ InLine(h) /\ Beyond(h) /\ Place(h) <= Place(sweep.through)
                                /\ Place(h) <= Place(sweep.after) => Marked(h)
  BY <1>2 DEF Sweeping, SweepRows
<1>4. InLine(sweep.after)' /\ InLine(sweep.through)'
  BY <1>3 DEF Orderly
<1>5. Place(sweep.after)' < Place(sweep.through)'
  <2>1. /\ Place(sweep.after) \in Int /\ Place(sweep.through) \in Int
        /\ Place(sweep.after)' \in Int /\ Place(sweep.through)' \in Int
    <3>1. Lined /\ Lined'
      BY DEF Shape
    <3>2. Len(queue) \in Nat /\ Len(queue') \in Nat
      BY <3>1, LenProperties DEF Lined
    <3> QED
      BY <1>3, <1>4, <3>1, <3>2, PlaceIn, PlaceInNext
  <2>2. ~ (Place(sweep.through) <= Place(sweep.after))
    BY <1>3, <2>1
  <2>3. ~ (Place(sweep.through)' <= Place(sweep.after)')
    BY <1>3, <2>2 DEF Orderly
  <2> QED
    BY <2>1, <2>3
<1>6. ASSUME NEW h \in sweep.begun
      PROVE  /\ InLine(h)' /\ Beyond(h)' /\ Place(h)' <= Place(sweep.through)'
             /\ Place(h)' <= Place(sweep.after)' => Marked(h)'
  <2>1. h \in KeyHolds /\ InLine(h) /\ Beyond(h) /\ Kept(h)
    BY <1>2, <1>3, SweepFields DEF Sweeping, Orderly
  <2>2. InLine(h)' /\ Place(h)' <= Place(sweep.through)'
    BY <1>3, <2>1 DEF Orderly
  <2>3. Beyond(h)'
    BY <2>1, BeyondStays
  <2>4. ASSUME Place(h)' <= Place(sweep.after)' PROVE Marked(h)'
    <3>1. Place(h) <= Place(sweep.after)
      BY <1>3, <2>1, <2>4 DEF Orderly
    <3>2. Marked(h) /\ hold[h].on \subseteq Accounts
      BY <1>3, <2>1, <3>1, Identities DEF Shape, Groups, HoldRecords
    <3> QED
      BY <2>1, <3>2 DEF Marked, Growing, Kept
  <2> QED
    BY <2>2, <2>3, <2>4
<1> QED
  BY <1>4, <1>5, <1>6

-----------------------------------------------------------------------------
(* Steps that change accounts but no hold, except for adoption.            *)

AccountStep ==
  /\ Tables' /\ AccountRows' /\ MoveRows' /\ Growing /\ Adopting
  /\ queue' = queue

LEMMA AccountStepShape ==
  ASSUME Shape, AccountStep
  PROVE  Shape' /\ Orderly
<1>1. Groups' /\ Lined'
  BY GroupsAdopted, LinedAdopted DEF AccountStep, AccountRows
<1>2. \A h \in KeyHolds : Kept(h)
  <2>1. \A h \in KeyHolds : h \in Holds /\ hold'[h] = hold[h]
    BY AdoptedSame, Identities DEF AccountStep
  <2> QED
    BY <2>1 DEF Kept
<1>3. \A g : (InLine(g)' <=> InLine(g)) /\ Place(g)' = Place(g)
  BY DEF AccountStep, InLine, Place
<1> QED
  BY <1>1, <1>2, <1>3 DEF Shape, AccountStep, Orderly

LEMMA AccountStepInv ==
  ASSUME Shape, Sweeping, AccountStep, sweep' = sweep
  PROVE  Shape' /\ Sweeping'
BY AccountStepShape, SweepStays DEF AccountStep

\* Without adoption.
LEMMA HoldsSame ==
  ASSUME Shape, hold' = hold PROVE Adopting
BY DEF Shape, Groups, Adopting

LEMMA MovesSame ==
  ASSUME Shape, moved' = moved PROVE MoveRows'
BY DEF Shape, MoveRows

-----------------------------------------------------------------------------
(* Each of them is such a step.                                            *)

LEMMA GrantUserStep ==
  ASSUME Shape, NEW u \in Users, NEW delta \in Int, GrantUser(u, delta)
  PROVE  AccountStep
<1>1. Adopting /\ MoveRows'
  BY HoldsSame, MovesSame DEF GrantUser, holdVars
<1>2. Tables' /\ AccountRows' /\ Growing
  BY Identities DEF Shape, Tables, AccountRows, Growing, GrantUser, keyVars, accountVars
<1> QED
  BY <1>1, <1>2 DEF AccountStep, GrantUser, holdVars

\* What making a pool does to its row and to the rows it is made of.
LEMMA PoolMade ==
  ASSUME Shape, NEW u \in Users, AdoptRows(u)
  PROVE  /\ Adopted(u) \in Int
         /\ loose' \in [Users -> Int] /\ rows' \subseteq Users
         /\ loose'[u] + Adopted(u) = loose[u]
         /\ \A w \in Users \ {u} : loose'[w] = loose[w]
BY DEF Shape, Tables, AdoptRows, Adopted, looseVars

LEMMA PoolGrantStep ==
  ASSUME Shape, NEW u \in Users, NEW n \in Amounts, PoolGrant(u, n)
  PROVE  AccountStep
<1>1. Adopting /\ MoveRows'
  BY AdoptHoldsAdopting, MovesSame DEF PoolGrant
<1>2. Tables'
  BY Identities, PoolMade DEF Shape, Tables, PoolGrant, keyVars
<1>3. AccountRows' /\ Growing
  BY Identities, PoolMade DEF Shape, Tables, AccountRows, Growing, PoolGrant, States
<1> QED
  BY <1>1, <1>2, <1>3 DEF AccountStep, PoolGrant

LEMMA PoolReadStep ==
  ASSUME Shape, NEW u \in Users, PoolRead(u)
  PROVE  AccountStep
<1>1. Adopting /\ MoveRows'
  BY AdoptHoldsAdopting, MovesSame DEF PoolRead, ReadPool
<1>2. Tables'
  BY Identities, PoolMade DEF Shape, Tables, PoolRead, ReadPool, keyVars, historyVars
<1>3. AccountRows' /\ Growing
  BY Identities, PoolMade DEF Shape, Tables, AccountRows, Growing, PoolRead, ReadPool, States, Larger
<1> QED
  BY <1>1, <1>2, <1>3 DEF AccountStep, PoolRead, ReadPool

LEMMA AllocateStep ==
  ASSUME Shape, NEW k \in Keys, NEW n \in Amounts, AllocateFromPool(k, n)
  PROVE  AccountStep
<1> DEFINE u == OwnerOf[k]
<1>0. u \in Users /\ u # k /\ u \in Accounts /\ k \in Accounts
  BY Identities
<1>1. Adopting /\ MoveRows'
  BY AdoptHoldsAdopting, MovesSame DEF AllocateFromPool
<1>2. Tables'
  BY <1>0, Identities, PoolMade DEF Shape, Tables, AllocateFromPool, keyVars
<1>3. AccountRows' /\ Growing
  BY <1>0, Identities, PoolMade
     DEF Shape, Tables, AccountRows, Growing, AllocateFromPool, States, Larger, KeyUsable
<1> QED
  BY <1>1, <1>2, <1>3 DEF AccountStep, AllocateFromPool

LEMMA AddToKeyStep ==
  ASSUME Shape, NEW k \in Keys, NEW n \in Amounts, AddToKey(k, n)
  PROVE  AccountStep
<1>1. Adopting /\ MoveRows'
  BY HoldsSame, MovesSame DEF AddToKey, holdVars
<1>2. Tables'
  BY Identities DEF Shape, Tables, AddToKey, keyVars, looseVars
<1>3. AccountRows' /\ Growing
  BY Identities DEF Shape, Tables, AccountRows, Growing, AddToKey, States, KeyUsable
<1> QED
  BY <1>1, <1>2, <1>3 DEF AccountStep, AddToKey, holdVars

LEMMA MigrateStep ==
  ASSUME Shape, NEW k \in Keys, NEW n \in Amounts, NEW m \in Migrations, Migrate(m, k, n)
  PROVE  AccountStep
<1> DEFINE u == OwnerOf[k]
<1>0. u \in Users /\ u # k /\ u \in Accounts /\ k \in Accounts
  BY Identities
<1>1. Adopting
  BY HoldsSame DEF Migrate, holdVars
<1>2. MoveRows'
  <2>1. [amount |-> n, from |-> u, to |-> k] \in Moves
    BY <1>0, Identities DEF Moves
  <2> QED
    BY <2>1 DEF Shape, MoveRows, Migrate
<1>3. Tables'
  BY <1>0, Identities, PoolMade DEF Shape, Tables, Migrate, keyVars
<1>4. AccountRows' /\ Growing
  BY <1>0, Identities, PoolMade
     DEF Shape, Tables, AccountRows, Growing, Migrate, States, KeyUsable
<1> QED
  BY <1>1, <1>2, <1>3, <1>4 DEF AccountStep, Migrate, holdVars

LEMMA DisableStep ==
  ASSUME Shape, NEW k \in Keys, DisableKey(k)
  PROVE  AccountStep
BY HoldsSame, MovesSame
   DEF Shape, Tables, AccountRows, Growing, DisableKey, AccountStep,
       accountVars, looseVars, holdVars, historyVars

LEMMA EnableStep ==
  ASSUME Shape, NEW k \in Keys, EnableKey(k)
  PROVE  AccountStep
BY HoldsSame, MovesSame, Identities
   DEF Shape, Tables, AccountRows, Growing, EnableKey, AccountStep,
       accountVars, looseVars, holdVars

LEMMA DeleteStep ==
  ASSUME Shape, NEW k \in Keys, DeleteKey(k)
  PROVE  AccountStep
<1> DEFINE left == Larger(0, balance[k])
<1>0. k \in Accounts /\ balance[k] \in Int /\ left \in Nat
      /\ (left > 0 => left = balance[k] /\ state[k] # "absent")
  BY Identities DEF Shape, Tables, AccountRows, Larger
<1> HIDE DEF left
<1>1. Adopting /\ MoveRows'
  BY HoldsSame, MovesSame DEF DeleteKey, holdVars
<1>2. \/ /\ left > 0
         /\ version' = [version EXCEPT ![k] = @ + 1]
         /\ balance' = [balance EXCEPT ![k] = 0]
         /\ given' = [given EXCEPT ![k] = @ - left]
      \/ UNCHANGED <<version, balance, given>>
  BY DEF DeleteKey, left
<1>3. Tables'
  BY <1>0, <1>2 DEF Shape, Tables, DeleteKey, looseVars
<1>4. AccountRows' /\ Growing
  <2>1. state' = state /\ version' \in [Accounts -> Nat]
        /\ \A a \in Accounts : version'[a] = version[a] \/ (a = k /\ left > 0 /\ version'[a] = version[a] + 1)
    BY <1>0, <1>2 DEF Shape, AccountRows, DeleteKey
  <2>2. \A a \in Accounts : balance'[a] = balance[a] \/ balance'[a] = 0
    BY <1>0, <1>2 DEF Shape, Tables
  <2> QED
    BY <1>0, <2>1, <2>2 DEF Shape, AccountRows, Growing
<1> QED
  BY <1>1, <1>3, <1>4 DEF AccountStep, DeleteKey, holdVars

-----------------------------------------------------------------------------
(* Steps of one hold.                                                      *)

LEMMA GrowingSame ==
  ASSUME Shape, state' = state, version' = version PROVE Growing
BY DEF Shape, AccountRows, Growing

\* The other groups are what they were.
LEMMA OtherGroups ==
  ASSUME Shape, state' = state, version' = version, NEW g \in Holds, hold'[g] = hold[g]
  PROVE  Group(g)'
<1>1. Group(g)
  BY DEF Shape, Groups
<1>2. Made(g)' <=> Made(g)
  BY DEF Made
<1> QED
  BY <1>1, <1>2 DEF Group

\* A new hold, in state, with nothing settled.
LEMMA NewHoldShape ==
  ASSUME Shape, state' = state, version' = version, Tables', AccountRows', moved' = moved,
         NEW h \in Holds, ~ Made(h), Enqueue(h), NEW r \in HoldRecords,
         hold' = [hold EXCEPT ![h] = r], r.state = "held", Group(h)'
  PROVE  Shape' /\ Orderly
<1>1. hold' \in [Holds -> HoldRecords] /\ hold'[h] = r /\ \A g \in Holds \ {h} : hold'[g] = hold[g]
  BY DEF Shape, Groups
<1>2. Groups'
  BY <1>1, OtherGroups DEF Groups
<1>3. \A g \in Holds : Made(g)' <=> Made(g) \/ g = h
  BY <1>1 DEF Made
<1>4. /\ Lined'
      /\ \A g : InLine(g) => InLine(g)'
      /\ \A f, g : InLine(f) /\ InLine(g) => (Place(f)' <= Place(g)' <=> Place(f) <= Place(g))
  BY <1>3, EnqueueLine DEF Shape
<1>5. \A g \in KeyHolds : InLine(g) => Kept(g)
  <2>1. \A g \in KeyHolds : InLine(g) => g # h /\ g \in Holds
    BY Identities DEF Shape, Lined, InLine
  <2> QED
    BY <1>1, <2>1 DEF Kept
<1> QED
  BY <1>2, <1>4, <1>5, MovesSame DEF Shape, Orderly

LEMMA ReserveUserShape ==
  ASSUME Shape, NEW h \in UserHolds, NEW n \in Amounts, ReserveUser(h, n)
  PROVE  Shape' /\ Orderly /\ Growing
<1> DEFINE r == [NoHold EXCEPT !.state = "held", !.amount = n]
<1>1. r \in HoldRecords /\ r.state = "held" /\ r.amount = n /\ r.cost = 0 /\ r.on = {} /\ r.stamps = {}
  BY Identities DEF HoldRecords, NoHold
<1>2. hold' = [hold EXCEPT ![h] = r]
  BY DEF ReserveUser
<1> HIDE DEF r
<1>3. h \in Holds /\ h \notin KeyHolds /\ hold'[h] = r /\ n \in Nat
  BY <1>2, Identities DEF Shape, Groups
<1>4. Group(h)'
  BY <1>1, <1>3 DEF Group, Made
<1>5. Tables' /\ AccountRows' /\ state' = state /\ version' = version
  BY <1>3, Identities DEF Shape, Tables, AccountRows, ReserveUser, keyVars, accountVars, historyVars
<1> QED
  BY <1>1, <1>2, <1>3, <1>4, <1>5, NewHoldShape, GrowingSame DEF ReserveUser

LEMMA StampsAre ==
  ASSUME Shape, NEW S, S \subseteq Accounts, \A a \in S : state[a] # "absent"
  PROVE  /\ Stamps(S) \in SUBSET (Accounts \X Nat)
         /\ \A s \in Stamps(S) : s[1] \in S /\ s[2] \in 1 .. version[s[1]]
BY DEF Shape, AccountRows, Stamps

LEMMA ReserveKeyShape ==
  ASSUME Shape, NEW h \in KeyHolds, NEW n \in Amounts, ReserveKey(h, n)
  PROVE  Shape' /\ Orderly /\ Growing
<1> DEFINE on == AccountsBehind(KeyOf[h])
           r == [state |-> "held", amount |-> n, cost |-> 0, on |-> on, stamps |-> Stamps(on)]
<1>1. /\ on \subseteq Accounts /\ on \subseteq {KeyOf[h], OwnerOf[KeyOf[h]]} /\ KeyOf[h] \in on
      /\ \A a \in on : state[a] # "absent"
  BY Identities DEF AccountsBehind, ReserveKey
<1>2. hold' = [hold EXCEPT ![h] = r]
  BY DEF ReserveKey
<1>3. balance' = [a \in Accounts |-> IF a \in on THEN balance[a] - n ELSE balance[a]]
  BY DEF ReserveKey
<1> HIDE DEF on
<1>4. Stamps(on) \in SUBSET (Accounts \X Nat)
      /\ \A s \in Stamps(on) : s[1] \in on /\ s[2] \in 1 .. version[s[1]]
  BY <1>1, StampsAre
<1>5. r \in HoldRecords /\ r.state = "held" /\ r.amount = n /\ r.cost = 0 /\ r.on = on /\ r.stamps = Stamps(on)
  BY <1>1, <1>4, Identities DEF HoldRecords
<1> HIDE DEF r
<1>6. h \in Holds /\ h \notin UserHolds /\ hold'[h] = r /\ n \in Nat
  BY <1>2, Identities DEF Shape, Groups
<1>7. state' = state /\ version' = version
  BY DEF ReserveKey
<1>8. Group(h)'
  BY <1>1, <1>4, <1>5, <1>6, <1>7 DEF Group, Made
<1>9. Tables' /\ AccountRows'
  BY <1>1, <1>3, <1>6, <1>7 DEF Shape, Tables, AccountRows, ReserveKey, keyVars, looseVars, historyVars
<1> QED
  BY <1>2, <1>5, <1>6, <1>7, <1>8, <1>9, NewHoldShape, GrowingSame DEF ReserveKey

\* A hold that is settled, or may still be.
LEMMA OldHoldShape ==
  ASSUME Shape, state' = state, version' = version, Tables', AccountRows', moved' = moved,
         queue' = queue, NEW h \in Holds, Made(h), NEW r \in HoldRecords,
         hold' = [hold EXCEPT ![h] = r], r.state # "absent", Group(h)',
         r.on = hold[h].on, hold[h].stamps \subseteq r.stamps, hold[h].cost = 0
  PROVE  Shape' /\ Orderly
<1>1. hold' \in [Holds -> HoldRecords] /\ hold'[h] = r /\ \A g \in Holds \ {h} : hold'[g] = hold[g]
  BY DEF Shape, Groups
<1>2. Groups'
  BY <1>1, OtherGroups DEF Groups
<1>3. \A g \in Holds : Made(g)' <=> Made(g)
  BY <1>1 DEF Made
<1>4. Lined'
  BY <1>3 DEF Shape, Lined
<1>5. \A g : (InLine(g)' <=> InLine(g)) /\ Place(g)' = Place(g)
  BY DEF InLine, Place
<1>6. \A g \in KeyHolds : Kept(g)
  <2>1. ~ (hold[h].cost > hold[h].amount)
    BY DEF Shape, Groups, HoldRecords
  <2> QED
    BY <1>1, <2>1, Identities DEF Kept
<1> QED
  BY <1>2, <1>4, <1>5, <1>6, MovesSame DEF Shape, Orderly

LEMMA MakeUnknownShape ==
  ASSUME Shape, NEW h \in Holds, hold[h].state = "held", MakeUnknown(h)
  PROVE  Shape' /\ Orderly /\ Growing
<1> DEFINE r == [hold[h] EXCEPT !.state = "unknown"]
<1>1. hold[h] \in HoldRecords /\ Group(h) /\ hold[h].cost = 0 /\ Made(h)
  BY DEF Shape, Groups, Group, Made
<1>2. /\ r \in HoldRecords /\ r.state = "unknown" /\ r.amount = hold[h].amount /\ r.cost = 0
      /\ r.on = hold[h].on /\ r.stamps = hold[h].stamps
  BY <1>1 DEF HoldRecords
<1>3. hold' = [hold EXCEPT ![h] = r] /\ hold'[h] = r
  BY DEF MakeUnknown, Shape, Groups
<1> HIDE DEF r
<1>4. state' = state /\ version' = version
  BY DEF MakeUnknown, accountVars
<1>5. Group(h)'
  BY <1>1, <1>2, <1>3, <1>4 DEF Group, Made
<1>6. Tables' /\ AccountRows'
  BY <1>4 DEF Shape, Tables, AccountRows, MakeUnknown, keyVars, accountVars, looseVars, historyVars
<1> QED
  BY <1>1, <1>2, <1>3, <1>4, <1>5, <1>6, OldHoldShape, GrowingSame DEF MakeUnknown

\* What the callers of CloseHold have made sure of.
Closing(h, outcome, cost) ==
  /\ hold[h].state \in Open /\ outcome \in {"released", "committed"} /\ cost \in Nat
  /\ outcome = "released" => cost = 0
  /\ h \in UserHolds => cost <= hold[h].amount
  /\ CloseHold(h, outcome, cost)

\* Account by account.
Refunded(h, delta) ==
  /\ balance' \in [Accounts -> Int] /\ loose' \in [Users -> Int] /\ rows' \subseteq Users
  /\ h \in KeyHolds =>
       /\ \A a \in Accounts : balance'[a] = balance[a] + IF a \in hold[h].on THEN delta ELSE 0
       /\ loose' = loose
  /\ h \in UserHolds =>
       /\ balance' = balance
       /\ \A u \in Users : loose'[u] = loose[u] + IF u = HolderOf[h] THEN delta ELSE 0

LEMMA RefundIs ==
  ASSUME Shape, NEW h \in Holds, NEW delta \in Int, Refund(h, delta)
  PROVE  Refunded(h, delta)
<1>1. CASE h \in KeyHolds
  BY <1>1, Identities DEF Shape, Tables, Refund, Refunded, looseVars
<1>2. CASE h \in UserHolds
  BY <1>2, Identities DEF Shape, Tables, Refund, Refunded
<1> QED
  BY <1>1, <1>2, Identities

LEMMA CloseHoldShape ==
  ASSUME Shape, NEW h \in Holds, NEW outcome, NEW cost, Closing(h, outcome, cost)
  PROVE  /\ Shape' /\ Orderly /\ Growing
         /\ \A g \in Holds \ {h} : hold'[g] = hold[g]
         /\ hold'[h].state = outcome /\ hold'[h].cost = cost
         /\ hold'[h].amount = hold[h].amount /\ hold'[h].on = hold[h].on
         /\ Refunded(h, hold[h].amount - cost)
<1> DEFINE more == IF h \in KeyHolds THEN Stamps(hold[h].on) ELSE {}
           r == [hold[h] EXCEPT !.state = outcome, !.cost = cost, !.stamps = @ \cup more]
<1>1. hold[h] \in HoldRecords /\ Group(h) /\ hold[h].cost = 0 /\ Made(h)
  BY DEF Shape, Groups, Group, Made, Closing, Open
<1>2. /\ more \in SUBSET (Accounts \X Nat)
      /\ \A s \in more : s[1] \in hold[h].on /\ s[2] \in 1 .. version[s[1]]
      /\ h \in UserHolds => more = {}
  <2>1. hold[h].on \subseteq Accounts /\ (h \in KeyHolds => \A a \in hold[h].on : state[a] # "absent")
    BY <1>1 DEF Group, HoldRecords
  <2> QED
    BY <2>1, StampsAre, Identities
<1>3. hold' = [hold EXCEPT ![h] = r] /\ hold'[h] = r /\ \A g \in Holds \ {h} : hold'[g] = hold[g]
  <2>1. hold' = [hold EXCEPT ![h] = r]
    BY DEF Closing, CloseHold
  <2> HIDE DEF r
  <2> QED
    BY <2>1 DEF Shape, Groups
<1> HIDE DEF more
<1>4. /\ r \in HoldRecords /\ r.state = outcome /\ r.amount = hold[h].amount /\ r.cost = cost
      /\ r.on = hold[h].on /\ r.stamps = hold[h].stamps \cup more
  BY <1>1, <1>2 DEF HoldRecords, Closing
<1> HIDE DEF r
<1>5. state' = state /\ version' = version
  BY DEF Closing, CloseHold
<1>6. Group(h)'
  BY <1>1, <1>2, <1>3, <1>4, <1>5 DEF Group, Made, Closing
<1>7. Refunded(h, hold[h].amount - cost)
  <2>1. hold[h].amount - cost \in Int
    BY <1>1 DEF HoldRecords, Closing
  <2> QED
    BY <2>1, RefundIs DEF Closing, CloseHold
<1>8. Tables' /\ AccountRows'
  <2>1. Tables'
    BY <1>7 DEF Shape, Tables, Refunded, Closing, CloseHold, keyVars, historyVars
  <2>2. \A a \in Accounts : state[a] = "absent" => balance'[a] = balance[a]
    BY <1>1, <1>7, Identities DEF Refunded, Group, Shape, Tables
  <2> QED
    BY <1>5, <2>1, <2>2 DEF Shape, AccountRows
<1>9. Shape' /\ Orderly
  BY <1>1, <1>3, <1>4, <1>5, <1>6, <1>8, OldHoldShape DEF Closing, CloseHold
<1> QED
  BY <1>3, <1>4, <1>5, <1>7, <1>9, GrowingSame

-----------------------------------------------------------------------------
(* A batch of a pass.                                                      *)

\* Where the batch begins, and where the pass ends.
Base == IF sweep = NoSweep THEN 0 ELSE Place(sweep.after)
Goal == IF sweep = NoSweep THEN Len(queue) ELSE Place(sweep.through)
Taking == IF Len(Rest) < BatchLimit THEN Len(Rest) ELSE BatchLimit

LEMMA RestIs ==
  ASSUME Shape, Sweeping, queue # <<>>
  PROVE  /\ Base \in Nat /\ Goal \in Nat /\ Base < Goal /\ Goal <= Len(queue)
         /\ Rest \in Seq(Holds) /\ Len(Rest) = Goal - Base
         /\ \A i \in 1 .. Goal - Base : Rest[i] = queue[Base + i]
<1>1. /\ Len(queue) \in Nat /\ DOMAIN queue = 1 .. Len(queue) /\ queue \in Seq(Holds)
      /\ \A i \in 1 .. Len(queue) : queue[i] \in Holds
  BY LineFacts DEF Shape, Lined
<1>2. CASE sweep = NoSweep
  <2>1. Rest = queue /\ Base = 0 /\ Goal = Len(queue) /\ Len(queue) # 0
    BY <1>1, <1>2, EmptySeq DEF Rest, Base, Goal
  <2> QED
    BY <1>1, <2>1
<1>3. CASE sweep # NoSweep
  <2>1. /\ Base = Place(sweep.after) /\ Goal = Place(sweep.through)
        /\ Rest = SubSeq(queue, Base + 1, Goal)
    BY <1>3 DEF Rest, Base, Goal
  <2>2. Base \in 1 .. Len(queue) /\ Goal \in 1 .. Len(queue) /\ Base < Goal
    BY <1>3, <2>1, PlaceIn DEF Shape, Sweeping, SweepRows
  <2>3. Base + 1 \in Int /\ Goal \in Int /\ \A i \in Base + 1 .. Goal : queue[i] \in Holds
    BY <1>1, <2>2
  <2>4. /\ Rest \in Seq(Holds)
        /\ Len(Rest) = IF Base + 1 <= Goal THEN Goal - (Base + 1) + 1 ELSE 0
        /\ \A i \in 1 .. Goal - (Base + 1) + 1 : Rest[i] = queue[Base + 1 + i - 1]
    BY <2>1, <2>3, SubSeqProperties
  <2> QED
    BY <1>1, <2>2, <2>4
<1> QED
  BY <1>2, <1>3

LEMMA ScannedIs ==
  ASSUME Shape, Sweeping, queue # <<>>
  PROVE  /\ Taking \in Nat \ {0} /\ Taking <= Goal - Base
         /\ Len(Rest) > BatchLimit => Taking < Goal - Base
         /\ ~ (Len(Rest) > BatchLimit) => Taking = Goal - Base
         /\ ToSet(Scanned) = {queue[Base + i] : i \in 1 .. Taking}
         /\ Boundary = queue[Base + Taking]
<1>1. /\ Base \in Nat /\ Goal \in Nat /\ Base < Goal /\ Goal <= Len(queue)
      /\ Rest \in Seq(Holds) /\ Len(Rest) = Goal - Base
      /\ \A i \in 1 .. Goal - Base : Rest[i] = queue[Base + i]
  BY RestIs
<1>2. BatchLimit \in Nat \ {0}
  BY QuotaAmounts
<1>3. /\ Taking \in Nat \ {0} /\ Taking <= Goal - Base
      /\ Len(Rest) > BatchLimit => Taking < Goal - Base
      /\ ~ (Len(Rest) > BatchLimit) => Taking = Goal - Base
  BY <1>1, <1>2 DEF Taking
<1>4. Scanned = SubSeq(Rest, 1, Taking)
  BY DEF Scanned, Taking
<1>5. \A i \in 1 .. Taking : Rest[i] \in Holds /\ Rest[i] = queue[Base + i]
  BY <1>1, <1>3, ElementOfSeq
<1>6. /\ Scanned \in Seq(Holds)
      /\ Len(Scanned) = IF 1 <= Taking THEN Taking - 1 + 1 ELSE 0
      /\ \A i \in 1 .. Taking - 1 + 1 : Scanned[i] = Rest[1 + i - 1]
  BY <1>3, <1>4, <1>5, SubSeqProperties
<1>7. Len(Scanned) = Taking /\ DOMAIN Scanned = 1 .. Taking
  BY <1>3, <1>6, LenProperties
<1>8. \A i \in 1 .. Taking : Scanned[i] = queue[Base + i]
  BY <1>3, <1>5, <1>6
<1>9. ToSet(Scanned) = {queue[Base + i] : i \in 1 .. Taking}
  BY <1>7, <1>8 DEF ToSet
<1>10. Boundary = queue[Base + Taking]
  BY <1>3, <1>7, <1>8 DEF Boundary, Last
<1> QED
  BY <1>3, <1>9, <1>10

\* What the pass is about.
LEMMA BegunAre ==
  ASSUME Shape, Sweeping, queue # <<>>, NEW h \in Begun
  PROVE  /\ h \in KeyHolds /\ InLine(h) /\ Beyond(h) /\ Place(h) <= Goal
         /\ Place(h) <= Base => Marked(h)
<1>1. CASE sweep # NoSweep
  <2>1. h \in sweep.begun /\ sweep.begun \in SUBSET KeyHolds
    BY <1>1, SweepFields DEF Begun, Sweeping
  <2> QED
    BY <1>1, <2>1 DEF Sweeping, SweepRows, Base, Goal
<1>2. CASE sweep = NoSweep
  <2>1. h \in KeyHolds /\ Beyond(h) /\ h \in Holds
    BY <1>2, Identities DEF Begun
  <2>2. Made(h)
    <3>1. Group(h)
      BY <2>1 DEF Shape, Groups
    <3>2. ~ (0 > 0) /\ NoHold.cost = 0 /\ NoHold.amount = 0 /\ NoHold.stamps = {}
      BY DEF NoHold
    <3> QED
      BY <2>1, <3>1, <3>2 DEF Group, Beyond
  <2>3. InLine(h)
    BY <2>1, <2>2 DEF Shape, Lined, InLine
  <2>4. Place(h) \in 1 .. Len(queue)
    BY <2>3, PlaceIn DEF Shape
  <2>5. Base = 0 /\ Goal = Len(queue) /\ Len(queue) \in Nat
    BY <1>2, LineFacts DEF Base, Goal, Shape
  <2> QED
    BY <2>1, <2>3, <2>4, <2>5
<1> QED
  BY <1>1, <1>2

LEMMA BatchGrowing ==
  ASSUME Shape, SweepBatch
  PROVE  Growing /\ AccountRows'
<1>1. \A h \in KeyHolds : \A a \in hold[h].on : state[a] # "absent"
  BY Identities DEF Shape, Groups, Group
<1> DEFINE A == UNION {hold[h].on : h \in {g \in ToSet(Scanned) : Malformed(g)}}
<1>2. \A a \in A : state[a] # "absent"
  BY <1>1 DEF Malformed
<1>3. state' = [a \in Accounts |-> IF a \in A THEN "reconcile_required" ELSE state[a]]
  BY DEF SweepBatch, Quarantine
<1> HIDE DEF A
<1>4. version' = version /\ balance' = balance
  BY DEF SweepBatch
<1> QED
  BY <1>2, <1>3, <1>4 DEF Shape, AccountRows, Growing, States

LEMMA BatchShape ==
  ASSUME Shape, SweepBatch
  PROVE  AccountStep
<1>1. Tables'
  BY DEF Shape, Tables, SweepBatch, keyVars, looseVars, historyVars
<1> QED
  BY <1>1, BatchGrowing, HoldsSame, MovesSame DEF AccountStep, SweepBatch, holdVars

\* What a batch has come past is marked.
LEMMA BatchMarks ==
  ASSUME Shape, Sweeping, SweepBatch, NEW h \in Begun, Place(h) <= Base + Taking
  PROVE  Marked(h)'
<1>0. queue # <<>> /\ hold' = hold
  BY DEF SweepBatch, holdVars
<1>1. /\ h \in KeyHolds /\ InLine(h) /\ Beyond(h) /\ h \in Holds
      /\ Place(h) <= Base => Marked(h)
  BY <1>0, BegunAre, Identities
<1>2. hold[h].on \subseteq Accounts
  BY <1>1 DEF Shape, Groups, HoldRecords
<1>3. CASE Place(h) <= Base
  BY <1>0, <1>1, <1>2, <1>3, BatchGrowing DEF Marked, Growing
<1>4. CASE ~ (Place(h) <= Base)
  <2>1. Place(h) \in 1 .. Len(queue) /\ queue[Place(h)] = h
    BY <1>1, PlaceIn DEF Shape
  <2>2. Base \in Nat /\ Taking \in Nat
    BY <1>0, RestIs, ScannedIs
  <2>3. Place(h) - Base \in 1 .. Taking /\ Base + (Place(h) - Base) = Place(h)
    BY <1>4, <2>1, <2>2
  <2>4. h \in ToSet(Scanned)
    BY <1>0, <2>1, <2>3, ScannedIs
  <2>5. Malformed(h)
    BY <1>1 DEF Malformed
  <2>6. \A a \in hold[h].on : state'[a] = "reconcile_required"
    BY <1>2, <2>4, <2>5 DEF SweepBatch, Quarantine
  <2> QED
    BY <1>0, <2>6 DEF Marked
<1> QED
  BY <1>3, <1>4

LEMMA BatchSweeping ==
  ASSUME Shape, Sweeping, SweepBatch
  PROVE  Sweeping'
<1>0. /\ queue # <<>> /\ hold' = hold /\ queue' = queue /\ version' = version
  BY DEF SweepBatch, holdVars
<1>1. CASE ~ (Len(Rest) > BatchLimit)
  <2>1. sweep' = NoSweep
    BY <1>1 DEF SweepBatch
  <2> QED
    BY <2>1 DEF Sweeping, SweepForm, SweepRows
<1>2. CASE Len(Rest) > BatchLimit
  <2> DEFINE past == Boundary
             goal == IF sweep = NoSweep THEN Last(queue) ELSE sweep.through
             begun == Begun
  <2>1. sweep' = [passes |-> TRUE, after |-> past, begun |-> begun, through |-> goal]
    BY <1>2 DEF SweepBatch
  <2>2. /\ Base \in Nat /\ Goal \in Nat /\ Goal <= Len(queue) /\ Taking \in Nat \ {0}
        /\ Base + Taking < Goal /\ Len(queue) \in Nat
    BY <1>0, <1>2, RestIs, ScannedIs, LineFacts DEF Shape
  <2>3. InLine(past) /\ Place(past) = Base + Taking
    <3>1. Base + Taking \in 1 .. Len(queue) /\ past = queue[Base + Taking]
      BY <1>0, <2>2, ScannedIs
    <3> QED
      BY <3>1, PlaceIs DEF Shape
  <2>4. InLine(goal) /\ Place(goal) = Goal
    <3>1. CASE sweep = NoSweep
      <4>1. Goal \in 1 .. Len(queue) /\ goal = queue[Goal]
        BY <2>2, <3>1 DEF Last, Goal
      <4> QED
        BY <4>1, PlaceIs DEF Shape
    <3>2. CASE sweep # NoSweep
      BY <3>2 DEF Sweeping, SweepRows, Goal
    <3> QED
      BY <3>1, <3>2
  <2>5. past \in Holds /\ goal \in Holds
    BY <2>3, <2>4, LineFacts DEF Shape, InLine
  <2>6. \A h \in begun : /\ h \in KeyHolds /\ InLine(h) /\ Beyond(h) /\ Place(h) <= Goal
                         /\ Place(h) <= Base + Taking => Marked(h)'
    BY <1>0, BegunAre, BatchMarks
  <2> HIDE DEF past, goal, begun
  <2>7. SweepForm'
    BY <2>1, <2>5, <2>6 DEF SweepForm
  <2>8. /\ sweep'.after = past /\ sweep'.through = goal /\ sweep'.begun = begun
    BY <2>1
  <2>9. \A h : (InLine(h)' <=> InLine(h)) /\ Place(h)' = Place(h) /\ (Beyond(h)' <=> Beyond(h))
    BY <1>0 DEF InLine, Place, Beyond
  <2>10. SweepRows'
    <3>1. /\ InLine(sweep'.after) /\ InLine(sweep'.through)
          /\ Place(sweep'.after) < Place(sweep'.through)
          /\ sweep'.begun \subseteq KeyHolds
          /\ \A h \in sweep'.begun : /\ InLine(h) /\ Beyond(h) /\ Place(h) <= Place(sweep'.through)
                                     /\ Place(h) <= Place(sweep'.after) => Marked(h)'
      BY <2>2, <2>3, <2>4, <2>6, <2>8
    <3>2. InLine(sweep.after)' /\ InLine(sweep.through)'
          /\ Place(sweep.after)' < Place(sweep.through)'
      BY <1>0, <3>1 DEF InLine, Place
    <3>3. \A h \in sweep'.begun : /\ InLine(h)' /\ Beyond(h)' /\ Place(h)' <= Place(sweep.through)'
                                  /\ Place(h)' <= Place(sweep.after)' => Marked(h)'
      <4>1. Place(sweep.through)' = Place(sweep'.through) /\ Place(sweep.after)' = Place(sweep'.after)
        BY <1>0 DEF Place
      <4> QED
        BY <2>9, <3>1, <4>1
    <3> QED
      BY <3>1, <3>2, <3>3 DEF SweepRows
  <2> QED
    BY <2>7, <2>10 DEF Sweeping
<1> QED
  BY <1>1, <1>2

\* A pass that comes to its end has come past all of them.
LEMMA BatchCompletes ==
  ASSUME Shape, Sweeping, SweepBatch, sweep' = NoSweep, NEW h \in Begun
  PROVE  \A a \in hold[h].on : state'[a] = "reconcile_required"
<1>0. queue # <<>> /\ hold' = hold
  BY DEF SweepBatch, holdVars
<1>1. ~ (Len(Rest) > BatchLimit)
  <2>1. SUFFICES ASSUME Len(Rest) > BatchLimit PROVE FALSE
    OBVIOUS
  <2>2. sweep'.passes = TRUE
    BY <2>1 DEF SweepBatch
  <2> QED
    BY <2>2 DEF NoSweep
<1>2. Base + Taking = Goal
  BY <1>0, <1>1, RestIs, ScannedIs
<1>3. Place(h) <= Base + Taking
  BY <1>0, <1>2, BegunAre
<1>4. Marked(h)'
  BY <1>3, BatchMarks
<1> QED
  BY <1>0, <1>4 DEF Marked

-----------------------------------------------------------------------------
(* The books.                                                              *)

LEMMA TakenNat ==
  ASSUME Shape, NEW h \in Holds
  PROVE  Taken(h) \in Nat /\ Excess(h) \in Nat /\ hold[h].amount \in Nat /\ hold[h].cost \in Nat
BY DEF Shape, Groups, HoldRecords, Taken, Excess, Larger

\* The same, after a step.
LEMMA TakenNatNext ==
  ASSUME Shape', NEW h \in Holds
  PROVE  Taken(h)' \in Nat /\ Excess(h)' \in Nat /\ hold'[h].amount \in Nat /\ hold'[h].cost \in Nat
BY DEF Shape, Groups, HoldRecords, Taken, Excess, Larger

LEMMA MoveIs ==
  ASSUME Shape, NEW m \in Migrations
  PROVE  \/ moved[m] = NotMoved
         \/ /\ moved[m] # NotMoved /\ moved[m] \in Moves
            /\ moved[m].amount \in Nat \ {0} /\ moved[m].to \in Keys
            /\ moved[m].from = OwnerOf[moved[m].to]
BY DEF Shape, MoveRows, Moves

\* The same, after a step.
LEMMA MoveIsNext ==
  ASSUME Shape', NEW m \in Migrations
  PROVE  \/ moved'[m] = NotMoved
         \/ moved'[m] # NotMoved /\ moved'[m].amount \in Nat \ {0}
BY DEF Shape, MoveRows, Moves

LEMMA MovedInt ==
  ASSUME Shape, NEW a
  PROVE  \A m \in Migrations : MovedOf(a)[m] \in Int
BY MoveIs DEF MovedOf

LEMMA FundsInt ==
  ASSUME Shape, NEW a \in Accounts
  PROVE  Funds(a) \in Int /\ given[a] \in Int
         /\ SumOver(MovedOf(a), Migrations) \in Int /\ SumOver(TakenOf(a), Holds) \in Int
<1>1. Funds(a) \in Int /\ given[a] \in Int
  BY Identities DEF Shape, Tables, Funds
<1>2. SumOver(MovedOf(a), Migrations) \in Int
  BY MovedInt, FiniteSets, SumType
<1>3. \A h \in Holds : TakenOf(a)[h] \in Int
  BY TakenNat DEF TakenOf
<1>4. SumOver(TakenOf(a), Holds) \in Int
  BY <1>3, FiniteSets, SumType
<1> QED
  BY <1>1, <1>2, <1>4

\* What is given to an account is added to it.
LEMMA EvenGiven ==
  ASSUME Shape, AccountStep, moved' = moved, NEW a \in Accounts, Even(a), Shape',
         Funds(a)' - given'[a] = Funds(a) - given[a]
  PROVE  Even(a)'
<1>1. MovedOf(a)' = MovedOf(a)
  BY DEF MovedOf
<1>2. TakenOf(a)' = TakenOf(a)
  BY AdoptedSame DEF AccountStep, TakenOf
<1>3. /\ Funds(a) \in Int /\ given[a] \in Int
      /\ SumOver(MovedOf(a), Migrations) \in Int /\ SumOver(TakenOf(a), Holds) \in Int
  BY FundsInt
<1>4. Funds(a)' \in Int /\ given'[a] \in Int
  BY Identities DEF Shape, Tables, Funds
<1> QED
  BY <1>1, <1>2, <1>3, <1>4 DEF Even

\* A migration takes from the user what it adds to the key.
LEMMA EvenMoved ==
  ASSUME Shape, Shape', NEW k \in Keys, NEW n \in Amounts, NEW m \in Migrations, Migrate(m, k, n),
         NEW a \in Accounts, Even(a)
  PROVE  Even(a)'
<1> DEFINE u == OwnerOf[k]
<1>0. u \in Users /\ u # k /\ u \in Accounts /\ k \in Accounts /\ n \in Nat \ {0}
  BY Identities
<1>1. /\ moved[m] = NotMoved /\ given' = given /\ hold' = hold /\ state[u] = "absent"
      /\ moved' = [moved EXCEPT ![m] = [amount |-> n, from |-> u, to |-> k]]
  BY DEF Migrate, holdVars
<1>2. /\ moved'[m].amount = n /\ moved'[m].from = u /\ moved'[m].to = k /\ moved'[m] # NotMoved
      /\ \A p \in Migrations \ {m} : moved'[p] = moved[p]
  <2>1. moved'[m] = [amount |-> n, from |-> u, to |-> k] /\ \A p \in Migrations \ {m} : moved'[p] = moved[p]
    BY <1>1 DEF Shape, MoveRows
  <2>2. moved'[m].amount # NotMoved.amount
    BY <1>0, <2>1 DEF NotMoved
  <2> QED
    BY <2>1, <2>2
<1> DEFINE d == IF a = k THEN n ELSE IF a = u THEN -n ELSE 0
<1>3. MovedOf(a)[m] = 0 /\ MovedOf(a)'[m] = d /\ d \in Int
  BY <1>0, <1>1, <1>2 DEF MovedOf
<1>4. \A p \in Migrations : MovedOf(a)[p] \in Int /\ MovedOf(a)'[p] \in Int
  BY MovedInt, MoveIsNext DEF MovedOf
<1>5. \A p \in Migrations \ {m} : MovedOf(a)[p] = MovedOf(a)'[p]
  BY <1>2 DEF MovedOf
<1>6. SumOver(MovedOf(a)', Migrations) = SumOver(MovedOf(a), Migrations) - 0 + d
  <2> DEFINE f == MovedOf(a)
             g == MovedOf(a)'
  <2>1. \A p \in Migrations : f[p] \in Int /\ g[p] \in Int
    BY <1>4
  <2>2. f[m] = 0 /\ g[m] = d /\ \A p \in Migrations \ {m} : f[p] = g[p]
    BY <1>3, <1>5
  <2> HIDE DEF f, g, d
  <2>3. SumOver(g, Migrations) = SumOver(f, Migrations) - f[m] + g[m]
    BY <2>1, <2>2, FiniteSets, SumChange
  <2>4. SumOver(g, Migrations) = SumOver(f, Migrations) - 0 + d
    BY <2>2, <2>3
  <2> QED
    BY <2>4 DEF f, g
<1>7. TakenOf(a)' = TakenOf(a)
  BY <1>1 DEF TakenOf, Taken, Bears
<1>8. Funds(a)' = Funds(a) + d
  <2>1. /\ balance' = [balance EXCEPT ![u] = loose[u] - n, ![k] = @ + n]
        /\ loose' = [loose EXCEPT ![u] = 0]
    BY <1>1 DEF Migrate, AdoptRows, Adopted
  <2>2. balance[u] = 0
    BY <1>0, <1>1 DEF Shape, AccountRows
  <2> QED
    BY <1>0, <2>1, <2>2, Identities DEF Shape, Tables, Funds
<1>9. /\ Funds(a) \in Int /\ given[a] \in Int
      /\ SumOver(MovedOf(a), Migrations) \in Int /\ SumOver(TakenOf(a), Holds) \in Int
  BY FundsInt
<1> HIDE DEF d
<1> QED
  BY <1>1, <1>3, <1>6, <1>7, <1>8, <1>9 DEF Even

\* What a hold takes is taken from whoever bears it.
LEMMA EvenHold ==
  ASSUME Shape, Shape', NEW h \in Holds, given' = given, moved' = moved,
         \A g \in Holds \ {h} : hold'[g] = hold[g],
         Bears(h)' = Bears(h) \/ Taken(h) = 0,
         NEW a \in Accounts, Even(a),
         Funds(a)' = Funds(a) + IF a \in Bears(h)' THEN Taken(h) - Taken(h)' ELSE 0
  PROVE  Even(a)'
<1>1. MovedOf(a)' = MovedOf(a)
  BY DEF MovedOf
<1> DEFINE f == TakenOf(a)
           g == TakenOf(a)'
<1>2. \A p \in Holds : f[p] \in Int /\ g[p] \in Int
  BY TakenNat, TakenNatNext DEF TakenOf
<1>3. \A p \in Holds \ {h} : f[p] = g[p]
  BY DEF TakenOf, Taken, Bears
<1>4. g[h] - f[h] = IF a \in Bears(h)' THEN Taken(h)' - Taken(h) ELSE 0
  BY TakenNat, TakenNatNext DEF TakenOf
<1> HIDE DEF f, g
<1>5. SumOver(g, Holds) = SumOver(f, Holds) - f[h] + g[h]
  BY <1>2, <1>3, FiniteSets, SumChange
<1>6. /\ Funds(a) \in Int /\ given[a] \in Int
      /\ SumOver(MovedOf(a), Migrations) \in Int /\ SumOver(f, Holds) \in Int
  BY FundsInt DEF f
<1>7. Taken(h) \in Int /\ Taken(h)' \in Int /\ f[h] \in Int /\ g[h] \in Int
  BY <1>2, TakenNat, TakenNatNext
<1>8. Funds(a)' = given[a] + SumOver(MovedOf(a), Migrations) - SumOver(g, Holds)
  <2>1. Funds(a) = given[a] + SumOver(MovedOf(a), Migrations) - SumOver(f, Holds)
    BY DEF Even, f
  <2> QED
    BY <1>4, <1>5, <1>6, <1>7, <2>1
<1> QED
  BY <1>1, <1>8 DEF Even, g

-----------------------------------------------------------------------------
(* What keys and pools may be short of.                                    *)

LEMMA OverIs ==
  ASSUME Shape, NEW k
  PROVE  /\ \A h \in KeyHolds : OverKey(k)[h] \in Nat /\ LostOn(k)[h] \in Nat
         /\ SumOver(OverKey(k), KeyHolds) \in Nat /\ SumOver(LostOn(k), KeyHolds) \in Nat
<1>1. \A h \in KeyHolds : OverKey(k)[h] \in Nat /\ LostOn(k)[h] \in Nat
  BY TakenNat, Identities DEF OverKey, LostOn
<1> QED
  BY <1>1, FiniteSets, SumNat

\* The same, after a step.
LEMMA OverIsNext ==
  ASSUME Shape', NEW k
  PROVE  \A h \in KeyHolds : OverKey(k)'[h] \in Nat /\ LostOn(k)'[h] \in Nat
BY TakenNatNext, Identities DEF OverKey, LostOn

\* Balances that are not lowered, or stay above zero.
LEMMA SolventAccount ==
  ASSUME Shape, Shape', AccountStep, Solvent,
         \A k \in Keys : balance'[k] >= balance[k] \/ balance'[k] >= 0,
         \A u \in Users : state'[u] = "absent" => loose'[u] >= 0
  PROVE  Solvent'
<1> SUFFICES ASSUME NEW k \in Keys PROVE balance'[k] + SumOver(OverKey(k)', KeyHolds) >= 0
  BY DEF Solvent
<1>1. OverKey(k)' = OverKey(k)
  BY AdoptedSame, Identities DEF AccountStep, OverKey
<1>2. SumOver(OverKey(k), KeyHolds) \in Nat
  BY OverIs
<1>3. balance[k] \in Int /\ balance'[k] \in Int
  BY Identities DEF Shape, Tables
<1> QED
  BY <1>1, <1>2, <1>3 DEF Solvent

\* A hold is made within the balance, and what it costs above is excess.
LEMMA SolventHold ==
  ASSUME Shape, Shape', Solvent, NEW h \in Holds, \A g \in Holds \ {h} : hold'[g] = hold[g],
         Excess(h) = 0,
         \A k \in Keys : \/ balance'[k] >= 0
                         \/ balance'[k] >= balance[k]
                         \/ /\ h \in KeyHolds /\ KeyOf[h] = k
                            /\ balance'[k] + Excess(h)' >= balance[k],
         \A u \in Users : state'[u] = "absent" => loose'[u] >= 0
  PROVE  Solvent'
<1> SUFFICES ASSUME NEW k \in Keys PROVE balance'[k] + SumOver(OverKey(k)', KeyHolds) >= 0
  BY DEF Solvent
<1> DEFINE f == OverKey(k)
           g == OverKey(k)'
<1>1. \A p \in KeyHolds : f[p] \in Nat /\ g[p] \in Nat /\ f[p] \in Int /\ g[p] \in Int
  BY OverIs, OverIsNext
<1>2. \A p \in KeyHolds \ {h} : f[p] = g[p]
  BY Identities DEF OverKey, Excess
<1>3. h \in KeyHolds => f[h] = 0 /\ g[h] = IF KeyOf[h] = k THEN Excess(h)' ELSE 0
  BY DEF OverKey
<1>4. balance[k] \in Int /\ balance'[k] \in Int /\ Excess(h)' \in Nat
  BY Identities, TakenNatNext DEF Shape, Tables
<1>5. balance[k] + SumOver(f, KeyHolds) >= 0
  BY DEF Solvent
<1> HIDE DEF f, g
<1>6. SumOver(f, KeyHolds) \in Nat /\ SumOver(g, KeyHolds) \in Nat
  BY <1>1, FiniteSets, SumNat
<1>7. CASE h \in KeyHolds
  <2>1. SumOver(g, KeyHolds) = SumOver(f, KeyHolds) - f[h] + g[h]
    BY <1>1, <1>2, <1>7, FiniteSets, SumChange
  <2>2. balance'[k] + SumOver(g, KeyHolds) >= 0
    BY <1>3, <1>4, <1>5, <1>6, <1>7, <2>1
  <2> QED
    BY <2>2 DEF g
<1>8. CASE h \notin KeyHolds
  <2>1. \A p \in KeyHolds : f[p] \in Int /\ f[p] = g[p]
    BY <1>1, <1>2, <1>8
  <2>2. SumOver(g, KeyHolds) = SumOver(f, KeyHolds)
    BY <2>1, FiniteSets, SumSame
  <2>3. balance'[k] >= 0 \/ balance'[k] >= balance[k]
    BY <1>8
  <2>4. balance'[k] + SumOver(g, KeyHolds) >= 0
    BY <1>4, <1>5, <1>6, <2>2, <2>3
  <2> QED
    BY <2>4 DEF g
<1> QED
  BY <1>7, <1>8

LEMMA CountedInt ==
  ASSUME Shape, NEW u \in Users
  PROVE  /\ \A k \in Keys : Counted(u)[k] \in Int
         /\ SumOver(Counted(u), Keys) \in Int /\ balance[u] \in Int
<1>1. (\A k \in Keys : Counted(u)[k] \in Int) /\ balance[u] \in Int
  BY Identities DEF Shape, Tables, Counted
<1> QED
  BY <1>1, FiniteSets, SumType

\* The same, after a step.
LEMMA CountedIntNext ==
  ASSUME Shape', NEW u \in Users
  PROVE  (\A k \in Keys : Counted(u)'[k] \in Int) /\ balance'[u] \in Int
BY Identities DEF Shape, Tables, Counted

\* The first two parts of Backing, when no hold is made.
LEMMA BackingSide ==
  ASSUME Shape, NEW u \in Users, Backing(u), Growing,
         \A h \in KeyHolds : (Made(h)' => Made(h)) /\ hold'[h].on = hold[h].on,
         \A k \in KeysOf(u) : state'[k] # "absent" => state[k] # "absent" \/ state'[u] # "absent"
  PROVE  /\ \A k \in KeysOf(u) : state'[k] # "absent" => state'[u] # "absent"
         /\ \A h \in KeyHolds : Made(h)' /\ OwnerOf[KeyOf[h]] = u => u \in hold'[h].on
BY Identities DEF Backing, Growing, KeysOf

LEMMA AdoptedSide ==
  ASSUME Shape, AccountStep
  PROVE  \A h \in KeyHolds : /\ Made(h)' => Made(h)
                             /\ hold'[h].on = hold[h].on /\ Excess(h)' = Excess(h)
BY AdoptedSame, Identities DEF AccountStep

\* Keys of the user as they were, and nothing taken from the pool.
LEMMA BackingAccount ==
  ASSUME Shape, Shape', AccountStep, NEW u \in Users, Backing(u),
         \A k \in KeysOf(u) : /\ k \in active' <=> k \in active
                              /\ balance'[k] = balance[k]
                              /\ state'[k] # "absent" => state[k] # "absent",
         balance'[u] >= balance[u]
  PROVE  Backing(u)'
<1>1. /\ \A k \in KeysOf(u) : state'[k] # "absent" => state'[u] # "absent"
      /\ \A h \in KeyHolds : Made(h)' /\ OwnerOf[KeyOf[h]] = u => u \in hold'[h].on
  BY AdoptedSide, BackingSide DEF AccountStep
<1>2. Counted(u)' = Counted(u)
  BY DEF Counted, KeysOf
<1>3. LostOn(u)' = LostOn(u)
  BY AdoptedSide, Identities DEF LostOn, KeysOf
<1>4. SumOver(Counted(u), Keys) <= balance'[u] + SumOver(LostOn(u), KeyHolds)
  BY CountedInt, CountedIntNext, OverIs DEF Backing
<1> QED
  BY <1>1, <1>2, <1>3, <1>4 DEF Backing

\* What a key has free is at most what it has, held or not.
LEMMA CountedWithin ==
  ASSUME Shape, NEW u \in Users
  PROVE  Allocated(u) \in Int /\ SumOver(Counted(u), Keys) <= Allocated(u)
<1> DEFINE P == {k \in KeysOf(u) \cap active : state[k] # "absent"}
           f == Counted(u)
           g == [k \in Keys |-> Available(k) + HeldOn(k)]
<1>1. P \subseteq Keys /\ IsFiniteSet(P)
  BY FiniteSets, FS_Subset DEF KeysOf
<1>2. \A k \in Keys : f[k] \in Int
  BY CountedInt
<1>3. \A k \in Keys : HeldOn(k) \in Nat
  <2> SUFFICES ASSUME NEW k \in Keys PROVE HeldOn(k) \in Nat
    OBVIOUS
  <2> DEFINE e == [h \in Holds |-> hold[h].amount]
             H == {h \in Holds : k \in hold[h].on /\ hold[h].state \in Open}
  <2>1. IsFiniteSet(H) /\ \A h \in H : e[h] \in Nat
    BY FiniteSets, FS_Subset, TakenNat
  <2> HIDE DEF e, H
  <2>2. SumOver(e, H) \in Nat
    BY <2>1, SumNat
  <2> QED
    BY <2>2 DEF e, H, HeldOn
<1>4. \A k \in P : f[k] \in Int /\ g[k] \in Int /\ f[k] <= g[k]
  BY <1>1, <1>2, <1>3, Identities DEF Counted, Available, KeysOf, Shape, Tables
<1>5. \A k \in Keys \ P : f[k] = 0
  BY Identities DEF Counted, KeysOf, Shape, AccountRows
<1>6. Allocated(u) = SumOver(g, P)
  BY DEF Allocated
<1>7. SumOver(Counted(u), Keys) = SumOver(f, Keys)
  OBVIOUS
<1> HIDE DEF P, f, g
<1>8. SumOver(f, Keys) = SumOver(f, P)
  BY <1>1, <1>2, <1>5, FiniteSets, SumWithin
<1>9. SumOver(f, P) <= SumOver(g, P) /\ SumOver(g, P) \in Int
  BY <1>1, <1>4, SumMonotone, SumType
<1> QED
  BY <1>6, <1>7, <1>8, <1>9

\* A key is given what the pool has over what its keys have.
LEMMA BackingAllocate ==
  ASSUME Shape, Shape', AccountStep, NEW k \in Keys, NEW n \in Amounts, AllocateFromPool(k, n),
         NEW u \in Users, u = OwnerOf[k], Backing(u)
  PROVE  Backing(u)'
<1>0. u # k /\ u \in Accounts /\ k \in Accounts /\ n \in Nat \ {0} /\ k \in KeysOf(u)
  BY Identities DEF KeysOf
<1>1. /\ state' = [state EXCEPT ![u] = "ready", ![k] = "ready"]
      /\ balance' = [balance EXCEPT ![u] = @ + Adopted(u), ![k] = @ + n]
      /\ active' = active /\ k \in active
      /\ n <= Larger(0, balance[u] + Adopted(u) - Allocated(u))
  BY DEF AllocateFromPool, KeyUsable, keyVars, Allocatable, Adopted
<1>2. /\ state'[u] = "ready" /\ balance'[u] = balance[u] + Adopted(u)
      /\ balance'[k] = balance[k] + n /\ \A j \in Keys \ {k} : balance'[j] = balance[j]
  BY <1>0, <1>1, Identities DEF Shape, AccountRows, Tables
<1>3. /\ \A j \in KeysOf(u) : state'[j] # "absent" => state'[u] # "absent"
      /\ \A h \in KeyHolds : Made(h)' /\ OwnerOf[KeyOf[h]] = u => u \in hold'[h].on
  BY <1>2, AdoptedSide, BackingSide DEF AccountStep
<1> DEFINE f == Counted(u)
           g == Counted(u)'
<1>4. \A j \in Keys : f[j] \in Int /\ g[j] \in Int
  BY CountedInt, CountedIntNext
<1>5. g[k] = f[k] + n /\ \A j \in Keys \ {k} : f[j] = g[j]
  BY <1>0, <1>1, <1>2 DEF Counted
<1>6. SumOver(f, Keys) <= Allocated(u) /\ Allocated(u) \in Int /\ SumOver(f, Keys) \in Int
  BY CountedWithin, CountedInt
<1>7. balance[u] \in Int /\ Adopted(u) \in Int
  BY <1>0 DEF Adopted, Shape, Tables
<1> HIDE DEF f, g
<1>9. SumOver(g, Keys) = SumOver(f, Keys) + n
  <2>1. IsFiniteSet(Keys) /\ n \in Int
    BY <1>0, FiniteSets
  <2> QED
    BY <1>4, <1>5, <2>1, SumBy
<1>10. n <= balance[u] + Adopted(u) - Allocated(u)
  BY <1>0, <1>1, <1>6, <1>7 DEF Larger
<1>11. LostOn(u)' = LostOn(u) /\ SumOver(LostOn(u), KeyHolds) \in Nat
  BY <1>1, OverIs, AdoptedSide, Identities DEF LostOn
<1>12. SumOver(g, Keys) <= balance'[u] + SumOver(LostOn(u), KeyHolds)
  BY <1>0, <1>2, <1>6, <1>7, <1>9, <1>10, <1>11
<1> QED
  BY <1>3, <1>11, <1>12 DEF Backing, g

\* A key that goes leaves the pool what it had, and what it was overdrawn.
LEMMA BackingRemove ==
  ASSUME Shape, Shape', AccountStep, NEW k \in Keys, active' = active \ {k}, state' = state,
         \A a \in Accounts \ {k} : balance'[a] = balance[a],
         Solvent, NEW u \in Users, Backing(u)
  PROVE  Backing(u)'
<1>0. u \in Accounts /\ u # k /\ balance'[u] = balance[u] /\ balance[u] \in Int /\ k \in Accounts
  BY Identities DEF Shape, Tables
<1>1. /\ \A j \in KeysOf(u) : state'[j] # "absent" => state'[u] # "absent"
      /\ \A h \in KeyHolds : Made(h)' /\ OwnerOf[KeyOf[h]] = u => u \in hold'[h].on
  BY AdoptedSide, BackingSide DEF AccountStep
<1> DEFINE f == Counted(u)
           g == Counted(u)'
           e == LostOn(u)
           d == LostOn(u)'
           o == OverKey(k)
<1>2. \A j \in Keys : f[j] \in Int /\ g[j] \in Int
  BY CountedInt, CountedIntNext
<1>3. g[k] = 0 /\ \A j \in Keys \ {k} : f[j] = g[j]
  BY Identities DEF Counted
<1>4. SumOver(f, Keys) <= balance[u] + SumOver(e, KeyHolds)
  BY DEF Backing
<1>5. /\ \A h \in KeyHolds : e[h] \in Int /\ d[h] \in Int /\ o[h] \in Int
      /\ SumOver(e, KeyHolds) \in Nat /\ SumOver(o, KeyHolds) \in Nat
  BY OverIs, OverIsNext
<1>8. SumOver(f, Keys) \in Int
  BY CountedInt
<1>6. CASE k \in active /\ OwnerOf[k] = u
  <2>1. f[k] = balance[k] /\ balance[k] \in Int
    BY <1>0, <1>6 DEF Counted, Shape, Tables
  <2>2. \A h \in KeyHolds : d[h] = e[h] + o[h]
    BY <1>6, AdoptedSide, TakenNat, Identities DEF LostOn, OverKey
  <2>3. balance[k] + SumOver(o, KeyHolds) >= 0
    BY DEF Solvent
  <2> HIDE DEF f, g, e, d, o
  <2>4. SumOver(g, Keys) = SumOver(f, Keys) + (0 - balance[k])
    <3>1. IsFiniteSet(Keys) /\ 0 - balance[k] \in Int /\ g[k] = f[k] + (0 - balance[k])
      BY <1>3, <2>1, FiniteSets
    <3> QED
      BY <1>2, <1>3, <3>1, SumBy
  <2>5. SumOver(d, KeyHolds) = SumOver(e, KeyHolds) + SumOver(o, KeyHolds)
    BY <1>5, <2>2, FiniteSets, SumPlus
  <2>6. SumOver(g, Keys) <= balance'[u] + SumOver(d, KeyHolds)
    BY <1>0, <1>3, <1>4, <1>5, <1>8, <2>1, <2>3, <2>4, <2>5
  <2> QED
    BY <1>1, <2>6 DEF Backing, g, d
<1>7. CASE ~ (k \in active /\ OwnerOf[k] = u)
  <2>1. \A j \in Keys : f[j] \in Int /\ f[j] = g[j]
    BY <1>2, <1>3, <1>7 DEF Counted
  <2>2. \A h \in KeyHolds : d[h] = e[h]
    BY <1>7, AdoptedSide, Identities DEF LostOn
  <2> HIDE DEF f, g, e, d, o
  <2>3. SumOver(g, Keys) = SumOver(f, Keys)
    BY <2>1, FiniteSets, SumSame
  <2>4. SumOver(d, KeyHolds) = SumOver(e, KeyHolds)
    BY <1>5, <2>2, FiniteSets, SumSame
  <2>5. SumOver(g, Keys) <= balance'[u] + SumOver(d, KeyHolds)
    BY <1>0, <1>4, <2>3, <2>4
  <2> QED
    BY <1>1, <2>5 DEF Backing, g, d
<1> QED
  BY <1>6, <1>7

\* A hold on an active key and its pool changes both alike, and what it costs above
\* on a key that is not active is excess.
LEMMA BackingHold ==
  ASSUME Shape, Shape', NEW u \in Users, Backing(u), active' = active, state' = state,
         NEW h \in Holds, \A g \in Holds \ {h} : hold'[g] = hold[g], Excess(h) = 0,
         h \in KeyHolds /\ OwnerOf[KeyOf[h]] = u => u \in hold'[h].on,
         NEW delta \in Int,
         \A a \in {u} \cup KeysOf(u) :
            balance'[a] = balance[a]
                          + IF h \in KeyHolds /\ OwnerOf[KeyOf[h]] = u /\ a \in {KeyOf[h], u}
                            THEN delta ELSE 0,
         h \in KeyHolds => delta + Excess(h)' >= 0 \/ KeyOf[h] \in active
  PROVE  Backing(u)'
<1>0. u \in Accounts /\ u \notin Keys /\ balance'[u] \in Int /\ balance[u] \in Int
  BY CountedInt, CountedIntNext, Identities
<1>1. /\ \A j \in KeysOf(u) : state'[j] # "absent" => state'[u] # "absent"
      /\ \A g \in KeyHolds : Made(g)' /\ OwnerOf[KeyOf[g]] = u => u \in hold'[g].on
  BY Identities DEF Backing, Made
<1> DEFINE f == Counted(u)
           g == Counted(u)'
           e == LostOn(u)
           d == LostOn(u)'
<1>2. \A j \in Keys : f[j] \in Int /\ g[j] \in Int
  BY CountedInt, CountedIntNext
<1>3. SumOver(f, Keys) <= balance[u] + SumOver(e, KeyHolds)
  BY DEF Backing
<1>4. /\ \A p \in KeyHolds : e[p] \in Int /\ d[p] \in Int
      /\ SumOver(e, KeyHolds) \in Nat
  BY OverIs, OverIsNext
<1>5. \A p \in KeyHolds \ {h} : e[p] = d[p]
  BY Identities DEF LostOn, Excess
<1>6. Excess(h)' \in Nat
  BY TakenNatNext
<1>7. SumOver(f, Keys) \in Int
  BY CountedInt
<1>8. CASE h \in KeyHolds /\ OwnerOf[KeyOf[h]] = u
  <2> DEFINE k == KeyOf[h]
  <2>0. k \in Keys /\ k \in Accounts
    BY <1>8, Identities
  <2>1. balance'[u] = balance[u] + delta /\ balance'[k] = balance[k] + delta
        /\ \A j \in KeysOf(u) \ {k} : balance'[j] = balance[j]
    <3>1. balance'[u] = balance[u] + delta
      BY <1>0, <1>8
    <3>2. balance'[k] = balance[k] + delta
      BY <1>8, <2>0 DEF KeysOf
    <3>3. ASSUME NEW j \in KeysOf(u) \ {k} PROVE balance'[j] = balance[j]
      <4>1. j \in Accounts /\ j \notin {k, u} /\ balance[j] \in Int
        BY <1>0, Identities DEF Shape, Tables, KeysOf
      <4>2. balance'[j] = balance[j] + 0
        BY <4>1
      <4> QED
        BY <4>1, <4>2
    <3> QED
      BY <3>1, <3>2, <3>3
  <2>2. \A j \in Keys \ {k} : f[j] = g[j]
    BY <2>1 DEF Counted, KeysOf
  <2>3. g[k] = f[k] + (IF k \in active THEN delta ELSE 0)
    <3>1. balance[k] \in Int
      BY <2>0 DEF Shape, Tables
    <3> QED
      BY <1>8, <2>0, <2>1, <3>1 DEF Counted
  <2>4. e[h] = 0 /\ d[h] = IF k \in active THEN 0 ELSE Excess(h)'
    BY <1>8 DEF LostOn
  <2>5. delta + Excess(h)' >= 0 \/ k \in active
    BY <1>8
  <2> HIDE DEF f, g, e, d, k
  <2>6. SumOver(g, Keys) = SumOver(f, Keys) + IF k \in active THEN delta ELSE 0
    <3> DEFINE more == IF k \in active THEN delta ELSE 0
    <3>1. IsFiniteSet(Keys) /\ more \in Int /\ g[k] = f[k] + more
      BY <2>3, FiniteSets
    <3> HIDE DEF more
    <3>2. SumOver(g, Keys) = SumOver(f, Keys) + more
      BY <1>2, <2>0, <2>2, <3>1, SumBy
    <3> QED
      BY <3>2 DEF more
  <2>7. SumOver(d, KeyHolds) = SumOver(e, KeyHolds) + d[h]
    <3>1. IsFiniteSet(KeyHolds) /\ h \in KeyHolds /\ d[h] \in Int
      BY <1>4, <1>8, FiniteSets
    <3>2. \A p \in KeyHolds : e[p] \in Int /\ d[p] \in Int
      BY <1>4
    <3>3. \A p \in KeyHolds \ {h} : e[p] = d[p]
      BY <1>5
    <3>4. d[h] = e[h] + d[h]
      BY <2>4, <3>1
    <3>5. ASSUME NEW more \in Int, d[h] = e[h] + more
          PROVE  SumOver(d, KeyHolds) = SumOver(e, KeyHolds) + more
      BY ONLY <3>1, <3>2, <3>3, <3>5, SumBy
    <3> QED
      BY <3>1, <3>4, <3>5
  <2>8. f[k] \in Int /\ g[k] \in Int
    BY <1>2, <2>0
  <2>9. SumOver(g, Keys) <= balance'[u] + SumOver(d, KeyHolds)
    BY <1>0, <1>3, <1>4, <1>6, <1>7, <2>1, <2>3, <2>4, <2>5, <2>6, <2>7, <2>8
  <2> QED
    BY <1>1, <2>9 DEF Backing, g, d
<1>9. CASE ~ (h \in KeyHolds /\ OwnerOf[KeyOf[h]] = u)
  <2>1. \A a \in {u} \cup KeysOf(u) : balance'[a] = balance[a]
    BY <1>9, Identities DEF Shape, Tables, KeysOf
  <2>2. \A j \in Keys : f[j] \in Int /\ f[j] = g[j]
    BY <1>2, <2>1 DEF Counted, KeysOf
  <2>3. \A p \in KeyHolds : d[p] = e[p]
    BY <1>5, <1>9 DEF LostOn
  <2> HIDE DEF f, g, e, d
  <2>4. SumOver(g, Keys) = SumOver(f, Keys)
    BY <2>2, FiniteSets, SumSame
  <2>5. SumOver(d, KeyHolds) = SumOver(e, KeyHolds)
    BY <1>4, <2>3, FiniteSets, SumSame
  <2>6. SumOver(g, Keys) <= balance'[u] + SumOver(d, KeyHolds)
    BY <1>0, <1>3, <2>1, <2>4, <2>5
  <2> QED
    BY <1>1, <2>6 DEF Backing, g, d
<1> QED
  BY <1>8, <1>9

-----------------------------------------------------------------------------
(* The books and the backing through each step.                            *)

LEMMA MoneyGiven ==
  ASSUME Shape, Shape', Money, AccountStep, moved' = moved,
         \A a \in Accounts : Funds(a)' - given'[a] = Funds(a) - given[a],
         Solvent', outside \subseteq outside',
         \A u \in Users \ outside' : Backing(u)'
  PROVE  Money'
BY EvenGiven DEF Money

LEMMA GrantUserMoney ==
  ASSUME Shape, Shape', Money, NEW u \in Users, NEW delta \in Int, GrantUser(u, delta)
  PROVE  Money'
<1>0. AccountStep
  BY GrantUserStep
<1>1. /\ UserAvailable(u) + delta >= 0
      /\ loose' = [loose EXCEPT ![u] = @ + delta] /\ given' = [given EXCEPT ![u] = @ + delta]
      /\ UNCHANGED <<active, state, balance, hold, moved, outside>>
  BY DEF GrantUser, keyVars, accountVars, holdVars
<1>2. \A a \in Accounts : Funds(a)' - given'[a] = Funds(a) - given[a]
  BY <1>1, Identities DEF Funds, Shape, Tables
<1>3. Solvent'
  <2>1. \A k \in Keys : balance[k] \in Int
    BY Identities DEF Shape, Tables
  <2>2. \A w \in Users : state'[w] = "absent" => loose'[w] >= 0
    BY <1>1, Identities DEF Money, Solvent, Shape, Tables, AccountRows, UserAvailable
  <2> QED
    BY <1>0, <1>1, <2>1, <2>2, SolventAccount DEF Money
<1>4. \A w \in Users \ outside' : Backing(w)'
  <2>1. \A a \in Accounts : balance[a] \in Int
    BY DEF Shape, Tables
  <2> QED
    BY <1>0, <1>1, <2>1, BackingAccount, Identities DEF Money
<1> QED
  BY <1>0, <1>1, <1>2, <1>3, <1>4, MoneyGiven

\* A pool that is made has at least nothing.
LEMMA AdoptedNat ==
  ASSUME Shape, Money, NEW u \in Users
  PROVE  Adopted(u) \in Nat
BY DEF Adopted, Money, Solvent, Shape, Tables

\* A pool that is there after the step, with n more and what it adopts.
LEMMA PoolMoney ==
  ASSUME Shape, Shape', Money, AccountStep, NEW u \in Users, NEW n \in Nat, AdoptRows(u),
         state'[u] # "absent", \A a \in Accounts \ {u} : state'[a] = state[a],
         balance' = [balance EXCEPT ![u] = @ + Adopted(u) + n],
         given' = [given EXCEPT ![u] = @ + n],
         UNCHANGED <<active, moved, outside>>
  PROVE  Money'
<1>0. Adopted(u) \in Nat /\ loose'[u] + Adopted(u) = loose[u]
      /\ \A w \in Users \ {u} : loose'[w] = loose[w]
  BY AdoptedNat, PoolMade
<1>1. \A a \in Accounts : /\ balance[a] \in Int
                          /\ balance'[a] = balance[a] + IF a = u THEN Adopted(u) + n ELSE 0
  BY <1>0 DEF Shape, Tables
<1>2. \A a \in Accounts : Funds(a)' - given'[a] = Funds(a) - given[a]
  BY <1>0, <1>1, Identities DEF Funds, Shape, Tables
<1>3. Solvent'
  <2>1. \A k \in Keys : balance'[k] >= balance[k]
    BY <1>0, <1>1, Identities
  <2>2. \A w \in Users : state'[w] = "absent" => loose'[w] >= 0
    BY <1>0, Identities DEF Money, Solvent
  <2> QED
    BY <2>1, <2>2, SolventAccount DEF Money
<1>4. \A w \in Users \ outside' : Backing(w)'
  <2> SUFFICES ASSUME NEW w \in Users \ outside' PROVE Backing(w)'
    OBVIOUS
  <2>1. \A k \in KeysOf(w) : /\ k \in active' <=> k \in active
                             /\ balance'[k] = balance[k]
                             /\ state'[k] # "absent" => state[k] # "absent"
    BY <1>1, Identities DEF KeysOf
  <2>2. balance'[w] >= balance[w]
    BY <1>0, <1>1, Identities
  <2> QED
    BY <2>1, <2>2, BackingAccount DEF Money
<1> QED
  BY <1>2, <1>3, <1>4, MoneyGiven

LEMMA PoolGrantMoney ==
  ASSUME Shape, Shape', Money, NEW u \in Users, NEW n \in Amounts, PoolGrant(u, n)
  PROVE  Money'
<1>1. AccountStep /\ n \in Nat
  BY PoolGrantStep, Identities
<1>2. state'[u] # "absent" /\ \A a \in Accounts \ {u} : state'[a] = state[a]
  BY Identities DEF PoolGrant, Shape, AccountRows
<1> QED
  BY <1>1, <1>2, PoolMoney DEF PoolGrant, keyVars

LEMMA PoolReadMoney ==
  ASSUME Shape, Shape', Money, NEW u \in Users, PoolRead(u)
  PROVE  Money'
<1>1. AccountStep
  BY PoolReadStep
<1>2. state'[u] # "absent" /\ \A a \in Accounts \ {u} : state'[a] = state[a]
  BY Identities DEF PoolRead, ReadPool, Shape, AccountRows
<1>3. /\ balance' = [balance EXCEPT ![u] = @ + Adopted(u)] /\ AdoptRows(u)
      /\ UNCHANGED <<active, moved, outside, given>>
  BY DEF PoolRead, ReadPool, keyVars, historyVars
<1>4. balance' = [balance EXCEPT ![u] = @ + Adopted(u) + 0]
  <2>1. balance[u] + Adopted(u) + 0 = balance[u] + Adopted(u)
    BY AdoptedNat, Identities DEF Shape, Tables
  <2> QED
    BY <1>3, <2>1
<1>5. given' = [given EXCEPT ![u] = @ + 0]
  BY <1>3, Identities DEF Shape, Tables
<1> QED
  BY <1>1, <1>2, <1>3, <1>4, <1>5, PoolMoney

LEMMA AllocateMoney ==
  ASSUME Shape, Shape', Money, NEW k \in Keys, NEW n \in Amounts, AllocateFromPool(k, n)
  PROVE  Money'
<1> DEFINE u == OwnerOf[k]
<1>0. u \in Users /\ u # k /\ u \in Accounts /\ k \in Accounts /\ n \in Nat \ {0} /\ AccountStep
  BY Identities, AllocateStep
<1>1. /\ AdoptRows(u) /\ active' = active /\ moved' = moved /\ outside' = outside
      /\ given' = [given EXCEPT ![k] = @ + n]
      /\ state' = [state EXCEPT ![u] = "ready", ![k] = "ready"]
      /\ balance' = [balance EXCEPT ![u] = @ + Adopted(u), ![k] = @ + n]
  BY DEF AllocateFromPool, keyVars
<1> HIDE DEF u
<1>2. Adopted(u) \in Nat /\ loose'[u] + Adopted(u) = loose[u]
      /\ \A w \in Users \ {u} : loose'[w] = loose[w]
  BY <1>0, <1>1, AdoptedNat, PoolMade
<1>3. \A a \in Accounts : /\ balance[a] \in Int
                          /\ balance'[a] = IF a = k THEN balance[a] + n
                                           ELSE IF a = u THEN balance[a] + Adopted(u) ELSE balance[a]
  BY <1>0, <1>1, <1>2 DEF Shape, Tables
<1>4. \A a \in Accounts : Funds(a)' - given'[a] = Funds(a) - given[a]
  <2> SUFFICES ASSUME NEW a \in Accounts PROVE Funds(a)' - given'[a] = Funds(a) - given[a]
    OBVIOUS
  <2>1. CASE a = k
    BY <1>0, <1>1, <1>3, <2>1 DEF Funds, Shape, Tables
  <2>2. CASE a = u
    BY <1>0, <1>1, <1>2, <1>3, <2>2, Identities DEF Funds, Shape, Tables
  <2>3. CASE a # k /\ a # u
    BY <1>0, <1>1, <1>2, <1>3, <2>3, Identities DEF Funds, Shape, Tables
  <2> QED
    BY <2>1, <2>2, <2>3
<1>5. Solvent'
  <2>1. \A j \in Keys : balance'[j] >= balance[j]
    BY <1>0, <1>2, <1>3, Identities
  <2>2. \A w \in Users : state'[w] = "absent" => loose'[w] >= 0
    BY <1>0, <1>1, <1>2, Identities DEF Money, Solvent, Shape, AccountRows
  <2> QED
    BY <1>0, <2>1, <2>2, SolventAccount DEF Money
<1>6. \A w \in Users \ outside' : Backing(w)'
  <2> SUFFICES ASSUME NEW w \in Users \ outside' PROVE Backing(w)'
    OBVIOUS
  <2>0. Backing(w)
    BY <1>1 DEF Money
  <2>1. CASE w = u
    BY <1>0, <2>0, <2>1, BackingAllocate DEF u
  <2>2. CASE w # u
    <3>1. \A j \in KeysOf(w) : /\ j \in active' <=> j \in active
                               /\ balance'[j] = balance[j]
                               /\ state'[j] # "absent" => state[j] # "absent"
      <4>1. \A j \in KeysOf(w) : j # k /\ j # u /\ j \in Accounts
        BY <1>0, <2>2, Identities DEF KeysOf, u
      <4> QED
        BY <1>1, <1>3, <4>1 DEF Shape, AccountRows
    <3>2. balance'[w] >= balance[w]
      BY <1>0, <1>3, <2>2, Identities
    <3> QED
      BY <1>0, <2>0, <3>1, <3>2, BackingAccount
  <2> QED
    BY <2>1, <2>2
<1> QED
  BY <1>0, <1>1, <1>4, <1>5, <1>6, MoneyGiven

LEMMA AddToKeyMoney ==
  ASSUME Shape, Shape', Money, NEW k \in Keys, NEW n \in Amounts, AddToKey(k, n)
  PROVE  Money'
<1>0. k \in Accounts /\ n \in Nat \ {0} /\ AccountStep
  BY Identities, AddToKeyStep
<1>1. /\ given' = [given EXCEPT ![k] = @ + n]
      /\ state' = [state EXCEPT ![k] = "ready"]
      /\ balance' = [balance EXCEPT ![k] = @ + n]
      /\ outside' = outside \cup {OwnerOf[k]}
      /\ UNCHANGED <<active, loose, moved>>
  BY DEF AddToKey, keyVars, looseVars
<1>2. \A a \in Accounts : /\ balance[a] \in Int
                          /\ balance'[a] = IF a = k THEN balance[a] + n ELSE balance[a]
  BY <1>0, <1>1 DEF Shape, Tables
<1>3. \A a \in Accounts : Funds(a)' - given'[a] = Funds(a) - given[a]
  BY <1>0, <1>1, <1>2, Identities DEF Funds, Shape, Tables
<1>4. Solvent'
  <2>1. \A j \in Keys : balance'[j] >= balance[j]
    BY <1>0, <1>2, Identities
  <2>2. \A w \in Users : state'[w] = "absent" => loose'[w] >= 0
    BY <1>0, <1>1, Identities DEF Money, Solvent, Shape, AccountRows
  <2> QED
    BY <1>0, <2>1, <2>2, SolventAccount DEF Money
<1>5. \A w \in Users \ outside' : Backing(w)'
  <2> SUFFICES ASSUME NEW w \in Users \ outside' PROVE Backing(w)'
    OBVIOUS
  <2>0. Backing(w) /\ w # OwnerOf[k]
    BY <1>1 DEF Money
  <2>1. \A j \in KeysOf(w) : /\ j \in active' <=> j \in active
                             /\ balance'[j] = balance[j]
                             /\ state'[j] # "absent" => state[j] # "absent"
    BY <1>1, <1>2, <2>0, Identities DEF KeysOf, Shape, AccountRows
  <2>2. balance'[w] >= balance[w]
    BY <1>0, <1>2, Identities
  <2> QED
    BY <1>0, <2>0, <2>1, <2>2, BackingAccount
<1> QED
  BY <1>0, <1>1, <1>3, <1>4, <1>5, MoneyGiven

LEMMA MigrateMoney ==
  ASSUME Shape, Shape', Money, NEW k \in Keys, NEW n \in Amounts, NEW m \in Migrations,
         Migrate(m, k, n)
  PROVE  Money'
<1> DEFINE u == OwnerOf[k]
<1>0. u \in Users /\ u # k /\ u \in Accounts /\ k \in Accounts /\ n \in Nat \ {0} /\ AccountStep
  BY Identities, MigrateStep
<1>1. /\ state[u] = "absent" /\ n <= Adopted(u) /\ AdoptRows(u)
      /\ state' = [state EXCEPT ![u] = "ready", ![k] = "ready"]
      /\ balance' = [balance EXCEPT ![u] = Adopted(u) - n, ![k] = @ + n]
      /\ outside' = outside \cup {u} /\ active' = active
  BY DEF Migrate, keyVars
<1> HIDE DEF u
<1>2. \A w \in Users \ {u} : loose'[w] = loose[w]
  BY <1>0, <1>1, PoolMade
<1>3. \A a \in Accounts \ {u} : balance[a] \in Int
                                /\ balance'[a] = IF a = k THEN balance[a] + n ELSE balance[a]
  BY <1>0, <1>1 DEF Shape, Tables
<1>4. Solvent'
  <2>1. \A j \in Keys : balance'[j] >= balance[j]
    BY <1>0, <1>3, Identities
  <2>2. \A w \in Users : state'[w] = "absent" => loose'[w] >= 0
    BY <1>0, <1>1, <1>2, Identities DEF Money, Solvent, Shape, AccountRows
  <2> QED
    BY <1>0, <2>1, <2>2, SolventAccount DEF Money
<1>5. \A w \in Users \ outside' : Backing(w)'
  <2> SUFFICES ASSUME NEW w \in Users \ outside' PROVE Backing(w)'
    OBVIOUS
  <2>0. Backing(w) /\ w # u
    BY <1>1 DEF Money
  <2>1. \A j \in KeysOf(w) : /\ j \in active' <=> j \in active
                             /\ balance'[j] = balance[j]
                             /\ state'[j] # "absent" => state[j] # "absent"
    <3>1. \A j \in KeysOf(w) : j # k /\ j # u /\ j \in Accounts
      BY <1>0, <2>0, Identities DEF KeysOf, u
    <3> QED
      BY <1>1, <1>3, <3>1 DEF Shape, AccountRows
  <2>2. balance'[w] >= balance[w]
    BY <1>0, <1>3, <2>0, Identities
  <2> QED
    BY <1>0, <2>0, <2>1, <2>2, BackingAccount
<1>6. \A a \in Accounts : Even(a)'
  BY EvenMoved DEF Money
<1> QED
  BY <1>4, <1>5, <1>6 DEF Money

LEMMA RemoveMoney ==
  ASSUME Shape, Shape', Money, AccountStep, NEW k \in Keys, active' = active \ {k}, state' = state,
         UNCHANGED <<loose, moved, outside>>,
         NEW left \in Nat, left = 0 \/ left = balance[k],
         balance' = [balance EXCEPT ![k] = @ - left], given' = [given EXCEPT ![k] = @ - left]
  PROVE  Money'
<1>0. k \in Accounts /\ k \notin Users
  BY Identities
<1>1. \A a \in Accounts : /\ balance[a] \in Int
                          /\ balance'[a] = IF a = k THEN balance[a] - left ELSE balance[a]
  BY <1>0 DEF Shape, Tables
<1>2. \A a \in Accounts : Funds(a)' - given'[a] = Funds(a) - given[a]
  BY <1>0, <1>1, Identities DEF Funds, Shape, Tables
<1>3. Solvent'
  <2>1. \A j \in Keys : balance'[j] >= balance[j] \/ balance'[j] >= 0
    BY <1>0, <1>1, Identities
  <2>2. \A w \in Users : state'[w] = "absent" => loose'[w] >= 0
    BY DEF Money, Solvent
  <2> QED
    BY <2>1, <2>2, SolventAccount DEF Money
<1>4. \A w \in Users \ outside' : Backing(w)'
  <2>1. \A a \in Accounts \ {k} : balance'[a] = balance[a]
    BY <1>1
  <2> QED
    BY <2>1, BackingRemove DEF Money
<1> QED
  BY <1>2, <1>3, <1>4, MoneyGiven

LEMMA DisableMoney ==
  ASSUME Shape, Shape', Money, NEW k \in Keys, DisableKey(k)
  PROVE  Money'
<1>1. AccountStep
  BY DisableStep
<1>2. /\ active' = active \ {k}
      /\ UNCHANGED <<state, loose, moved, outside, balance, given>>
  BY DEF DisableKey, accountVars, looseVars, historyVars
<1>3. balance' = [balance EXCEPT ![k] = @ - 0] /\ given' = [given EXCEPT ![k] = @ - 0]
  BY <1>2, Identities DEF Shape, Tables
<1> QED
  BY <1>1, <1>2, <1>3, RemoveMoney

LEMMA DeleteMoney ==
  ASSUME Shape, Shape', Money, NEW k \in Keys, DeleteKey(k)
  PROVE  Money'
<1> DEFINE left == Larger(0, balance[k])
<1>0. AccountStep /\ balance[k] \in Int /\ left \in Nat /\ (left = 0 \/ left = balance[k])
  BY DeleteStep, Identities DEF Shape, Tables, Larger
<1>1. /\ active' = active \ {k}
      /\ UNCHANGED <<state, loose, moved, outside>>
      /\ \/ /\ left > 0
            /\ balance' = [balance EXCEPT ![k] = 0]
            /\ given' = [given EXCEPT ![k] = @ - left]
         \/ ~ (left > 0) /\ UNCHANGED <<version, balance, given>>
  BY DEF DeleteKey, looseVars
<1> HIDE DEF left
<1>2. balance' = [balance EXCEPT ![k] = @ - left] /\ given' = [given EXCEPT ![k] = @ - left]
  <2>1. CASE left > 0
    <3>1. balance[k] - left = 0
      BY <1>0, <2>1
    <3> QED
      BY <1>0, <1>1, <2>1, <3>1
  <2>2. CASE ~ (left > 0)
    <3>1. left = 0 /\ balance[k] - left = balance[k] /\ given[k] - left = given[k]
      BY <1>0, <2>2, Identities DEF Shape, Tables
    <3> QED
      BY <1>0, <1>1, <2>2, <3>1 DEF Shape, Tables
  <2> QED
    BY <2>1, <2>2
<1> QED
  BY <1>0, <1>1, <1>2, RemoveMoney

LEMMA EnableMoney ==
  ASSUME Shape, Shape', Money, NEW k \in Keys, EnableKey(k)
  PROVE  Money'
<1>0. AccountStep
  BY EnableStep
<1>1. /\ active' = active \cup {k} /\ outside' = outside \cup {OwnerOf[k]}
      /\ UNCHANGED <<state, loose, moved, balance, given>>
  BY DEF EnableKey, accountVars, looseVars
<1>2. \A a \in Accounts : balance[a] \in Int /\ Funds(a)' - given'[a] = Funds(a) - given[a]
  BY <1>1 DEF Funds, Shape, Tables
<1>3. Solvent'
  <2>1. \A j \in Keys : balance'[j] >= balance[j]
    BY <1>1, <1>2, Identities
  <2> QED
    BY <1>0, <1>1, <2>1, SolventAccount DEF Money, Solvent
<1>4. \A w \in Users \ outside' : Backing(w)'
  <2> SUFFICES ASSUME NEW w \in Users \ outside' PROVE Backing(w)'
    OBVIOUS
  <2>1. Backing(w) /\ w # OwnerOf[k]
    BY <1>1 DEF Money
  <2>2. \A j \in KeysOf(w) : j \in active' <=> j \in active
    BY <1>1, <2>1 DEF KeysOf
  <2> QED
    BY <1>0, <1>1, <1>2, <2>1, <2>2, BackingAccount, Identities
<1> QED
  BY <1>0, <1>1, <1>2, <1>3, <1>4, MoneyGiven

\* A step of one hold.
LEMMA MoneyHold ==
  ASSUME Shape, Shape', Money, NEW h \in Holds,
         UNCHANGED <<active, state, given, moved, outside>>,
         \A g \in Holds \ {h} : hold'[g] = hold[g], Excess(h) = 0,
         Bears(h)' = Bears(h) \/ Taken(h) = 0,
         \A a \in Accounts :
            Funds(a)' = Funds(a) + IF a \in Bears(h)' THEN Taken(h) - Taken(h)' ELSE 0,
         NEW delta \in Int,
         \A a \in Accounts : balance'[a] = balance[a] + IF h \in KeyHolds /\ a \in hold'[h].on
                                                        THEN delta ELSE 0,
         h \in KeyHolds => /\ KeyOf[h] \in hold'[h].on
                           /\ OwnerOf[KeyOf[h]] \notin outside => OwnerOf[KeyOf[h]] \in hold'[h].on
                           /\ \A a \in hold'[h].on : balance'[a] >= 0 \/ delta + Excess(h)' >= 0
                           /\ KeyOf[h] \in active \/ delta + Excess(h)' >= 0,
         \A u \in Users : state[u] = "absent" => loose'[u] >= 0
  PROVE  Money'
<1>0. Excess(h)' \in Nat /\ \A a \in Accounts : balance[a] \in Int
  BY TakenNatNext DEF Shape, Tables
<1>1. \A a \in Accounts : Even(a)'
  BY EvenHold DEF Money
<1>2. h \in KeyHolds => hold'[h].on \subseteq {KeyOf[h], OwnerOf[KeyOf[h]]}
  BY DEF Shape, Groups, Group
<1>3. Solvent'
  <2>1. ASSUME NEW k \in Keys
        PROVE  \/ balance'[k] >= 0
               \/ balance'[k] >= balance[k]
               \/ /\ h \in KeyHolds /\ KeyOf[h] = k
                  /\ balance'[k] + Excess(h)' >= balance[k]
    <3>1. CASE h \in KeyHolds /\ k \in hold'[h].on
      <4>1. KeyOf[h] = k /\ balance'[k] = balance[k] + delta /\ k \in Accounts
        BY <1>2, <3>1, Identities
      <4>2. balance'[k] >= 0 \/ delta + Excess(h)' >= 0
        BY <3>1
      <4> QED
        BY <1>0, <3>1, <4>1, <4>2
    <3>2. CASE ~ (h \in KeyHolds /\ k \in hold'[h].on)
      <4>1. balance'[k] = balance[k] + 0 /\ balance[k] \in Int
        BY <1>0, <3>2, Identities
      <4> QED
        BY <4>1
    <3> QED
      BY <3>1, <3>2
  <2> QED
    BY <2>1, SolventHold DEF Money
<1>4. ASSUME NEW u \in Users \ outside' PROVE Backing(u)'
  <2>1. \A a \in {u} \cup KeysOf(u) :
            balance'[a] = balance[a]
                          + IF h \in KeyHolds /\ OwnerOf[KeyOf[h]] = u /\ a \in {KeyOf[h], u}
                            THEN delta ELSE 0
    <3> SUFFICES ASSUME NEW a \in {u} \cup KeysOf(u)
                 PROVE  (h \in KeyHolds /\ a \in hold'[h].on)
                        <=> (h \in KeyHolds /\ OwnerOf[KeyOf[h]] = u /\ a \in {KeyOf[h], u})
      BY Identities DEF KeysOf
    <3>1. ASSUME h \in KeyHolds, a \in hold'[h].on
          PROVE  OwnerOf[KeyOf[h]] = u /\ a \in {KeyOf[h], u}
      BY <1>2, <3>1, Identities DEF KeysOf
    <3>2. ASSUME h \in KeyHolds, OwnerOf[KeyOf[h]] = u, a \in {KeyOf[h], u}
          PROVE  a \in hold'[h].on
      BY <3>2
    <3> QED
      BY <3>1, <3>2
  <2>2. h \in KeyHolds /\ OwnerOf[KeyOf[h]] = u => u \in hold'[h].on
    OBVIOUS
  <2>3. Backing(u)
    BY DEF Money
  <2> QED
    BY <2>1, <2>2, <2>3, BackingHold
<1> QED
  BY <1>1, <1>3, <1>4 DEF Money

LEMMA ReserveUserMoney ==
  ASSUME Shape, Shape', Money, NEW h \in UserHolds, NEW n \in Amounts, ReserveUser(h, n)
  PROVE  Money'
<1> DEFINE u == HolderOf[h]
<1>0. u \in Users /\ u \in Accounts /\ u \notin Keys /\ n \in Nat \ {0} /\ h \in Holds /\ h \notin KeyHolds
  BY Identities
<1>1. /\ ~ Made(h) /\ n <= loose[u] + balance[u]
      /\ hold' = [hold EXCEPT ![h] = [NoHold EXCEPT !.state = "held", !.amount = n]]
      /\ loose' = [loose EXCEPT ![u] = @ - n]
      /\ UNCHANGED <<active, state, balance, given, moved, outside>>
  BY DEF ReserveUser, UserAvailable, keyVars, accountVars, historyVars
<1>2. /\ hold[h] = NoHold /\ hold'[h] = [NoHold EXCEPT !.state = "held", !.amount = n]
      /\ \A g \in Holds \ {h} : hold'[g] = hold[g]
  BY <1>0, <1>1 DEF Shape, Groups, Group
<1>3. Taken(h) = 0 /\ Excess(h) = 0 /\ Taken(h)' = n /\ Bears(h) = {u} /\ Bears(h)' = {u}
  BY <1>0, <1>2 DEF NoHold, Taken, Excess, Larger, Open, Bears
<1> HIDE DEF u
<1>4. \A a \in Accounts : /\ balance[a] \in Int
                          /\ Funds(a)' = Funds(a) + IF a \in Bears(h)' THEN Taken(h) - Taken(h)' ELSE 0
  BY <1>0, <1>1, <1>3, Identities DEF Funds, Shape, Tables
<1>5. \A w \in Users : state[w] = "absent" => loose'[w] >= 0
  BY <1>0, <1>1, Identities DEF Money, Solvent, Shape, Tables, AccountRows
<1>6. \A a \in Accounts : balance'[a] = balance[a] + 0
  BY <1>1, <1>4
<1> QED
  BY <1>0, <1>1, <1>2, <1>3, <1>4, <1>5, <1>6, MoneyHold

LEMMA ReserveKeyMoney ==
  ASSUME Shape, Shape', Money, NEW h \in KeyHolds, NEW n \in Amounts, ReserveKey(h, n)
  PROVE  Money'
<1> DEFINE k == KeyOf[h]
           on == AccountsBehind(k)
<1>0. k \in Keys /\ k \in Accounts /\ OwnerOf[k] \in Users /\ n \in Nat \ {0} /\ h \in Holds
      /\ h \notin UserHolds
  BY Identities
<1>1. /\ ~ Made(h) /\ k \in active
      /\ \A a \in on : state[a] = "ready" /\ n <= balance[a]
      /\ hold' = [hold EXCEPT ![h] = [state |-> "held", amount |-> n, cost |-> 0,
                                      on |-> on, stamps |-> Stamps(on)]]
      /\ balance' = [a \in Accounts |-> IF a \in on THEN balance[a] - n ELSE balance[a]]
      /\ UNCHANGED <<active, state, loose, given, moved, outside>>
  BY DEF ReserveKey, keyVars, looseVars, historyVars
<1>2. k \in on /\ on \subseteq {k, OwnerOf[k]} /\ (state[OwnerOf[k]] # "absent" => OwnerOf[k] \in on)
  BY DEF AccountsBehind
<1>3. OwnerOf[k] \notin outside => OwnerOf[k] \in on
  <2>1. state[k] # "absent"
    BY <1>1, <1>2
  <2> QED
    BY <1>0, <1>2, <2>1 DEF Money, Backing, KeysOf
<1> HIDE DEF on
<1>4. /\ hold[h] = NoHold /\ hold'[h].state = "held" /\ hold'[h].amount = n /\ hold'[h].cost = 0
      /\ hold'[h].on = on /\ \A g \in Holds \ {h} : hold'[g] = hold[g]
  BY <1>0, <1>1 DEF Shape, Groups, Group
<1>5. Taken(h) = 0 /\ Excess(h) = 0 /\ Taken(h)' = n /\ Bears(h)' = on
  BY <1>0, <1>4 DEF NoHold, Taken, Excess, Larger, Open, Bears
<1>6. \A a \in Accounts : balance[a] \in Int
                          /\ balance'[a] = balance[a] + IF h \in KeyHolds /\ a \in on THEN -n ELSE 0
  BY <1>0, <1>1 DEF Shape, Tables
<1>7. \A a \in Accounts : Funds(a)' = Funds(a) + IF a \in Bears(h)' THEN Taken(h) - Taken(h)' ELSE 0
  BY <1>0, <1>1, <1>5, <1>6, Identities DEF Funds, Shape, Tables
<1>8. \A a \in on : balance'[a] >= 0
  BY <1>0, <1>1, <1>2, <1>6, Identities
<1>9. \A w \in Users : state[w] = "absent" => loose'[w] >= 0
  BY <1>1 DEF Money, Solvent
<1>10. -n \in Int
  BY <1>0
<1> QED
  BY <1>0, <1>1, <1>2, <1>3, <1>4, <1>5, <1>6, <1>7, <1>8, <1>9, <1>10, MoneyHold

LEMMA CloseHoldMoney ==
  ASSUME Shape, Shape', Money, NEW h \in Holds, NEW outcome, NEW cost, Closing(h, outcome, cost)
  PROVE  Money'
<1> DEFINE d == hold[h].amount - cost
<1>1. /\ \A g \in Holds \ {h} : hold'[g] = hold[g]
      /\ hold'[h].state = outcome /\ hold'[h].cost = cost
      /\ hold'[h].amount = hold[h].amount /\ hold'[h].on = hold[h].on
      /\ Refunded(h, d)
  BY CloseHoldShape
<1>2. UNCHANGED <<active, state, given, moved, outside>>
  BY DEF Closing, CloseHold, keyVars, historyVars
<1>3. hold[h].amount \in Nat /\ cost \in Nat /\ hold[h].cost = 0 /\ Group(h) /\ Made(h)
  BY TakenNat DEF Shape, Groups, Group, Closing, Open, Made
<1>4. d \in Int /\ (h \in UserHolds => d >= 0) /\ d + Excess(h)' >= 0
  BY <1>1, <1>3 DEF Closing, Excess, Larger
<1>5. Taken(h) = hold[h].amount /\ Taken(h)' = cost /\ Excess(h) = 0 /\ Bears(h)' = Bears(h)
  BY <1>1, <1>3 DEF Closing, Taken, Open, Excess, Larger, Bears
<1>6. Taken(h) - Taken(h)' = d
  BY <1>5
<1> HIDE DEF d
<1>7. \A a \in Accounts : balance[a] \in Int
                          /\ balance'[a] = balance[a] + IF h \in KeyHolds /\ a \in hold'[h].on THEN d ELSE 0
  BY <1>1, <1>4, Identities DEF Refunded, Shape, Tables
<1>8. \A a \in Accounts : Funds(a)' = Funds(a) + IF a \in Bears(h)' THEN d ELSE 0
  <2>1. CASE h \in KeyHolds
    <3>1. loose' = loose /\ Bears(h)' = hold'[h].on
      BY <1>1, <2>1, Identities DEF Refunded, Bears
    <3> QED
      BY <1>4, <1>7, <2>1, <3>1, Identities DEF Funds, Shape, Tables
  <2>2. CASE h \in UserHolds
    <3>1. /\ balance' = balance /\ Bears(h)' = {HolderOf[h]} /\ HolderOf[h] \in Users
          /\ \A u \in Users : loose'[u] = loose[u] + IF u = HolderOf[h] THEN d ELSE 0
      BY <1>1, <2>2, Identities DEF Refunded, Bears
    <3> QED
      BY <1>4, <3>1, Identities DEF Funds, Shape, Tables
  <2> QED
    BY <2>1, <2>2, Identities
<1>9. \A w \in Users : state[w] = "absent" => loose'[w] >= 0
  <2>1. CASE h \in KeyHolds
    BY <1>1, <2>1 DEF Refunded, Money, Solvent
  <2>2. CASE h \in UserHolds
    <3>1. \A u \in Users : loose'[u] = loose[u] + IF u = HolderOf[h] THEN d ELSE 0
      BY <1>1, <2>2 DEF Refunded
    <3> QED
      BY <1>4, <2>2, <3>1 DEF Money, Solvent, Shape, Tables
  <2> QED
    BY <2>1, <2>2, Identities
<1>10. h \in KeyHolds => /\ KeyOf[h] \in hold'[h].on
                         /\ OwnerOf[KeyOf[h]] \notin outside => OwnerOf[KeyOf[h]] \in hold'[h].on
  BY <1>1, <1>3, Identities DEF Group, Money, Backing
<1> QED
  BY <1>1, <1>2, <1>4, <1>5, <1>6, <1>7, <1>8, <1>9, <1>10, MoneyHold

LEMMA MakeUnknownMoney ==
  ASSUME Shape, Shape', Money, NEW h \in Holds, hold[h].state = "held", MakeUnknown(h)
  PROVE  Money'
<1>1. /\ \A g \in Holds \ {h} : hold'[g] = hold[g]
      /\ hold'[h].state = "unknown" /\ hold'[h].cost = hold[h].cost
      /\ hold'[h].amount = hold[h].amount /\ hold'[h].on = hold[h].on
      /\ UNCHANGED <<active, state, given, moved, outside, balance, loose>>
  BY DEF MakeUnknown, keyVars, accountVars, looseVars, historyVars, Shape, Groups, HoldRecords
<1>2. hold[h].amount \in Nat /\ hold[h].cost = 0 /\ Group(h) /\ Made(h)
  BY TakenNat DEF Shape, Groups, Group, Made
<1>3. Taken(h) = hold[h].amount /\ Taken(h)' = hold[h].amount /\ Excess(h) = 0 /\ Excess(h)' = 0
      /\ Bears(h)' = Bears(h)
  BY <1>1, <1>2 DEF Taken, Open, Excess, Larger, Bears
<1>4. \A a \in Accounts : Funds(a) \in Int /\ Funds(a)' = Funds(a) /\ balance[a] \in Int
  BY <1>1, FundsInt DEF Funds, Shape, Tables
<1>5. \A a \in Accounts :
            Funds(a)' = Funds(a) + IF a \in Bears(h)' THEN Taken(h) - Taken(h)' ELSE 0
  BY <1>2, <1>3, <1>4
<1>6. \A a \in Accounts : balance'[a] = balance[a] + IF h \in KeyHolds /\ a \in hold'[h].on THEN 0 ELSE 0
  BY <1>1, <1>4
<1>7. h \in KeyHolds => /\ KeyOf[h] \in hold'[h].on
                        /\ OwnerOf[KeyOf[h]] \notin outside => OwnerOf[KeyOf[h]] \in hold'[h].on
  BY <1>1, <1>2, Identities DEF Group, Money, Backing
<1>8. \A w \in Users : state[w] = "absent" => loose'[w] >= 0
  BY <1>1 DEF Money, Solvent
<1>9. 0 + Excess(h)' >= 0
  BY <1>3
<1> QED
  BY <1>1, <1>3, <1>5, <1>6, <1>7, <1>8, <1>9, MoneyHold

\* Steps that leave the money alone.
LEMMA MoneySame ==
  ASSUME Shape, Shape', Money, AccountStep,
         UNCHANGED <<active, balance, loose, moved, given, outside>>,
         \A a \in Accounts : state'[a] # "absent" => state[a] # "absent"
  PROVE  Money'
<1>1. \A a \in Accounts : balance[a] \in Int /\ Funds(a)' - given'[a] = Funds(a) - given[a]
  BY DEF Funds, Shape, Tables
<1>2. \A j \in Accounts : balance'[j] >= balance[j]
  BY <1>1
<1>3. Solvent'
  BY <1>2, SolventAccount, Identities DEF Money, Solvent, AccountStep, Growing
<1>4. \A w \in Users \ outside' : Backing(w)'
  BY <1>2, BackingAccount, Identities DEF Money, KeysOf
<1> QED
  BY <1>1, <1>3, <1>4, MoneyGiven

-----------------------------------------------------------------------------
(* The theorems.                                                           *)

LEMMA InitInv ==
  ASSUME Init PROVE Inv
<1>1. Tables /\ AccountRows /\ MoveRows
  BY DEF Init, Tables, AccountRows, MoveRows, States
<1>2. \A h \in Holds : hold[h] = NoHold /\ ~ Made(h)
  BY DEF Init, Made, NoHold
<1>3. NoHold \in HoldRecords
  BY DEF NoHold, HoldRecords
<1>4. Groups
  <2>1. hold \in [Holds -> HoldRecords]
    BY <1>3 DEF Init
  <2>2. \A h \in Holds : Group(h)
    BY <1>2 DEF Group, NoHold
  <2> QED
    BY <2>1, <2>2 DEF Groups
<1>5. Lined
  <2>1. queue = <<>> /\ queue \in Seq(Holds) /\ DOMAIN queue = {}
    BY DEF Init
  <2> QED
    BY <1>2, <2>1 DEF Lined
<1>6. Shape
  BY <1>1, <1>4, <1>5 DEF Shape
<1>7. \A h \in Holds : Taken(h) = 0 /\ Excess(h) = 0
  BY <1>2 DEF NoHold, Taken, Excess, Larger, Open
<1>9. \A a \in Accounts : Even(a)
  <2> SUFFICES ASSUME NEW a \in Accounts PROVE Even(a)
    OBVIOUS
  <2>1. \A m \in Migrations : MovedOf(a)[m] = 0
    BY DEF Init, MovedOf
  <2>2. \A h \in Holds : TakenOf(a)[h] = 0
    BY <1>7 DEF TakenOf
  <2>3. SumOver(MovedOf(a), Migrations) = 0 /\ SumOver(TakenOf(a), Holds) = 0
    BY <2>1, <2>2, FiniteSets, SumZero
  <2>4. Funds(a) = 0 /\ given[a] = 0
    BY Identities DEF Init, Funds
  <2> QED
    BY <2>3, <2>4 DEF Even
<1>10. Solvent
  <2>1. ASSUME NEW k \in Keys PROVE balance[k] + SumOver(OverKey(k), KeyHolds) >= 0
    <3>1. SumOver(OverKey(k), KeyHolds) \in Nat /\ balance[k] = 0
      BY <1>6, OverIs, Identities DEF Init
    <3> QED
      BY <3>1
  <2> QED
    BY <2>1 DEF Solvent, Init
<1>11. ASSUME NEW u \in Users PROVE Backing(u)
  <2>1. \A k \in Keys : Counted(u)[k] = 0
    BY Identities DEF Init, Counted
  <2>2. SumOver(Counted(u), Keys) = 0
    BY <2>1, FiniteSets, SumZero
  <2>3. SumOver(LostOn(u), KeyHolds) \in Nat /\ balance[u] = 0
    BY <1>6, OverIs, Identities DEF Init
  <2>4. \A h \in KeyHolds : ~ Made(h)
    BY <1>2, Identities
  <2>5. \A k \in KeysOf(u) : state[k] = "absent"
    BY Identities DEF Init, KeysOf
  <2> QED
    BY <2>2, <2>3, <2>4, <2>5 DEF Backing
<1>12. Sweeping
  BY DEF Init, Sweeping, SweepForm, SweepRows
<1> QED
  BY <1>6, <1>9, <1>10, <1>11, <1>12 DEF Inv, Money

LEMMA UserInv ==
  ASSUME Inv, UserNext PROVE Inv'
<1>1. PICK u \in Users, n \in Amounts :
        GrantUser(u, n) \/ GrantUser(u, -n) \/ PoolGrant(u, n) \/ PoolRead(u)
  BY DEF UserNext
<1>2. n \in Int /\ -n \in Int
  BY Identities
<1>3. AccountStep /\ sweep' = sweep
  BY <1>1, <1>2, GrantUserStep, PoolGrantStep, PoolReadStep DEF Inv, GrantUser, PoolGrant, PoolRead
<1>4. Shape' /\ Sweeping'
  BY <1>3, AccountStepInv DEF Inv
<1>5. Money'
  BY <1>1, <1>2, <1>4, GrantUserMoney, PoolGrantMoney, PoolReadMoney DEF Inv
<1> QED
  BY <1>4, <1>5 DEF Inv

LEMMA KeyInv ==
  ASSUME Inv, KeyNext PROVE Inv'
<1>1. PICK k \in Keys :
        \/ \E n \in Amounts : \/ AllocateFromPool(k, n)
                              \/ GrantKey(k, n)
                              \/ AllocateFromUpstream(k, n)
                              \/ \E m \in Migrations : Migrate(m, k, n)
        \/ DisableKey(k)
        \/ EnableKey(k)
        \/ DeleteKey(k)
  BY DEF KeyNext
<1>2. ASSUME AccountStep, sweep' = sweep, Shape' => Money' PROVE Inv'
  BY <1>2, AccountStepInv DEF Inv
<1>3. ASSUME NEW n \in Amounts, AllocateFromPool(k, n) PROVE Inv'
  BY <1>2, <1>3, AllocateStep, AllocateMoney DEF Inv, AllocateFromPool
<1>4. ASSUME NEW n \in Amounts, AddToKey(k, n) PROVE Inv'
  BY <1>2, <1>4, AddToKeyStep, AddToKeyMoney DEF Inv, AddToKey
<1>5. ASSUME NEW n \in Amounts, NEW m \in Migrations, Migrate(m, k, n) PROVE Inv'
  BY <1>2, <1>5, MigrateStep, MigrateMoney DEF Inv, Migrate
<1>6. CASE DisableKey(k)
  BY <1>2, <1>6, DisableStep, DisableMoney DEF Inv, DisableKey
<1>7. CASE EnableKey(k)
  BY <1>2, <1>7, EnableStep, EnableMoney DEF Inv, EnableKey
<1>8. CASE DeleteKey(k)
  BY <1>2, <1>8, DeleteStep, DeleteMoney DEF Inv, DeleteKey
<1> QED
  BY <1>1, <1>3, <1>4, <1>5, <1>6, <1>7, <1>8 DEF GrantKey, AllocateFromUpstream

\* A hold is closed, is left in doubt, or is made.
LEMMA HoldSteps ==
  ASSUME Inv, HoldNext
  PROVE  \/ \E h \in UserHolds, n \in Amounts : ReserveUser(h, n)
         \/ \E h \in KeyHolds, n \in Amounts : ReserveKey(h, n)
         \/ \E h \in Holds : \E outcome, cost : Closing(h, outcome, cost)
         \/ \E h \in Holds : hold[h].state = "held" /\ MakeUnknown(h)
<1>1. \A h \in Holds : hold[h].amount \in Nat
  BY TakenNat DEF Inv
<1>2. \A c \in Costs : c \in Nat /\ c # NoActual
  BY QuotaAmounts
<1>3. ASSUME NEW h \in Holds, Release(h) PROVE Closing(h, "released", 0)
  BY <1>1, <1>3 DEF Release, Closing, Open
<1>4. ASSUME NEW h \in Holds, NEW actual \in Costs \cup {NoActual}, Commit(h, actual)
      PROVE  \/ \E outcome, cost : Closing(h, outcome, cost)
             \/ hold[h].state = "held" /\ MakeUnknown(h)
  <2>1. CASE actual = NoActual /\ h \in KeyHolds
    BY <1>4, <2>1 DEF Commit
  <2>2. CASE actual = NoActual /\ h \notin KeyHolds
    <3>1. Closing(h, "committed", hold[h].amount)
      BY <1>1, <1>4, <2>2 DEF Commit, Closing, Open
    <3> QED
      BY <3>1
  <2>3. CASE actual # NoActual
    <3>1. Closing(h, "committed", actual)
      BY <1>2, <1>4, <2>3 DEF Commit, Closing, Open
    <3> QED
      BY <3>1
  <2> QED
    BY <2>1, <2>2, <2>3
<1>5. ASSUME NEW h \in Holds, NEW actual \in Costs, ReceiptSettles(h, actual)
      PROVE  Closing(h, "committed", actual)
  BY <1>2, <1>5, Identities DEF ReceiptSettles, Closing
<1> QED
  BY <1>3, <1>4, <1>5 DEF HoldNext, Doubt

LEMMA HoldInv ==
  ASSUME Inv, HoldNext PROVE Inv'
<1>0. Shape /\ Money /\ Sweeping
  BY DEF Inv
<1>1. ASSUME NEW h \in UserHolds, NEW n \in Amounts, ReserveUser(h, n) PROVE Inv'
  BY <1>0, <1>1, ReserveUserShape, ReserveUserMoney, SweepStays DEF Inv, ReserveUser
<1>2. ASSUME NEW h \in KeyHolds, NEW n \in Amounts, ReserveKey(h, n) PROVE Inv'
  BY <1>0, <1>2, ReserveKeyShape, ReserveKeyMoney, SweepStays DEF Inv, ReserveKey
<1>3. ASSUME NEW h \in Holds, NEW outcome, NEW cost, Closing(h, outcome, cost) PROVE Inv'
  BY <1>0, <1>3, CloseHoldShape, CloseHoldMoney, SweepStays DEF Inv, Closing, CloseHold
<1>4. ASSUME NEW h \in Holds, hold[h].state = "held", MakeUnknown(h) PROVE Inv'
  BY <1>0, <1>4, MakeUnknownShape, MakeUnknownMoney, SweepStays DEF Inv, MakeUnknown
<1> QED
  BY <1>1, <1>2, <1>3, <1>4, HoldSteps

LEMMA SweepInv ==
  ASSUME Inv, SweepBatch PROVE Inv'
<1>1. AccountStep /\ Shape' /\ Sweeping'
  BY BatchShape, AccountStepShape, BatchSweeping DEF Inv
<1>2. \A a \in Accounts : state'[a] # "absent" => state[a] # "absent"
  <2>1. \A h \in KeyHolds : \A a \in hold[h].on : state[a] # "absent"
    BY Identities DEF Inv, Shape, Groups, Group
  <2> QED
    BY <2>1 DEF SweepBatch, Quarantine, Malformed
<1>3. Money'
  BY <1>1, <1>2, MoneySame DEF Inv, SweepBatch, keyVars, looseVars, historyVars
<1> QED
  BY <1>1, <1>3 DEF Inv

\* A step that leaves all but the cursor.
LEMMA RestInv ==
  ASSUME Inv, UNCHANGED <<keyVars, accountVars, looseVars, holdVars, moved, historyVars>>,
         sweep' = NoSweep \/ sweep' = sweep
  PROVE  Inv'
<1>0. UNCHANGED <<active, deleted, state, version, balance, loose, rows, hold, queue, moved, given, outside>>
  BY DEF keyVars, accountVars, looseVars, holdVars, historyVars
<1>1. AccountStep
  BY <1>0, HoldsSame, MovesSame, GrowingSame DEF Inv, Shape, Tables, AccountRows, AccountStep
<1>2. Shape' /\ Orderly /\ Growing
  BY <1>1, AccountStepShape DEF Inv, AccountStep
<1>3. Money'
  BY <1>0, <1>1, <1>2, MoneySame DEF Inv
<1>4. Sweeping'
  <2>1. CASE sweep' = NoSweep
    BY <2>1 DEF Sweeping, SweepForm, SweepRows
  <2>2. CASE sweep' = sweep
    BY <1>2, <2>2, SweepStays DEF Inv
  <2> QED
    BY <2>1, <2>2
<1> QED
  BY <1>2, <1>3, <1>4 DEF Inv

LEMMA NextInv ==
  ASSUME Inv, [Next]_vars PROVE Inv'
<1>1. CASE UserNext
  BY <1>1, UserInv
<1>2. CASE KeyNext
  BY <1>2, KeyInv
<1>3. CASE HoldNext
  BY <1>3, HoldInv
<1>4. CASE SweepBatch
  BY <1>4, SweepInv
<1>5. CASE Crash
  BY <1>5, RestInv DEF Crash
<1>6. CASE UNCHANGED vars
  BY <1>6, RestInv DEF vars
<1> QED
  BY <1>1, <1>2, <1>3, <1>4, <1>5, <1>6 DEF Next

\* The inductive invariant holds throughout.
THEOREM Inductive == Spec => []Inv
<1>1. Init => Inv
  BY InitInv
<1>2. Inv /\ [Next]_vars => Inv'
  BY NextInv
<1> QED
  BY <1>1, <1>2, PTL DEF Spec

\* Each hold stands once in a line that is as long as there are holds.
LEMMA LineLength ==
  ASSUME Lined
  PROVE  ToSet(queue) = {h \in Holds : Made(h)} /\ Len(queue) = Cardinality(ToSet(queue))
<1>1. Len(queue) \in Nat /\ DOMAIN queue = 1 .. Len(queue)
      /\ \A i \in 1 .. Len(queue) : queue[i] \in Holds
  BY LineFacts
<1>2. ToSet(queue) = {h \in Holds : Made(h)}
  BY <1>1 DEF Lined, ToSet
<1> DEFINE n == Len(queue)
           f == [i \in 1 .. n |-> queue[i]]
           S == ToSet(queue)
<1>3. f \in [1 .. n -> S] /\ (\A i, j \in 1 .. n : f[i] = f[j] => i = j)
      /\ (\A x \in S : \E i \in 1 .. n : f[i] = x)
  BY <1>1 DEF Lined, ToSet
<1>4. f \in Bijection(1 .. n, S)
  BY <1>3 DEF Bijection, Injection, IsInjective, Surjection
<1>5. ExistsBijection(1 .. n, S) /\ n \in Nat
  BY <1>1, <1>4 DEF ExistsBijection
<1> HIDE DEF n, S
<1>6. Cardinality(S) = n
  BY <1>5, FS_CountingElements
<1> QED
  BY <1>2, <1>6 DEF n, S

\* Accounts, versions, groups and the line keep their form: TypeOK.
THEOREM Types == Spec => []TypeOK
<1>1. ASSUME Inv PROVE TypeOK
  <2>1. Tables /\ AccountRows /\ Groups /\ Lined
    BY <1>1 DEF Inv, Shape
  <2>2. ToSet(queue) = {h \in Holds : Made(h)} /\ Len(queue) = Cardinality(ToSet(queue))
    BY <2>1, LineLength
  <2>3. \A h \in Holds :
          /\ hold[h].state \in {"absent", "held", "unknown", "released", "committed"}
          /\ hold[h].amount \in Nat /\ hold[h].cost \in Nat /\ hold[h].on \subseteq Accounts
          /\ \A s \in hold[h].stamps : s[1] \in hold[h].on /\ s[2] \in 1 .. version[s[1]]
    BY <2>1 DEF Groups, HoldRecords, Group
  <2> QED
    BY <2>1, <2>2, <2>3 DEF Tables, AccountRows, States, TypeOK
<1> QED
  BY <1>1, Inductive, PTL

\* The books of an account, in the words of QuotaBooks.
LEMMA KeyBooks ==
  ASSUME Inv, NEW k \in Keys
  PROVE  balance[k] = given[k] + MovedBy(MovesTo(k)) - TakenFrom({h \in KeyHolds : k \in hold[h].on})
<1>0. k \in Accounts /\ k \notin Users /\ Shape /\ Even(k)
  BY Identities DEF Inv, Money
<1> DEFINE f == MovedOf(k)
           g == [m \in Migrations |-> moved[m].amount]
           S == MovesTo(k)
           e == TakenOf(k)
           d == [h \in Holds |-> Taken(h)]
           H == {h \in KeyHolds : k \in hold[h].on}
<1>1. S \subseteq Migrations /\ IsFiniteSet(S) /\ H \subseteq Holds /\ IsFiniteSet(H)
      /\ IsFiniteSet(Migrations) /\ IsFiniteSet(Holds)
  BY FiniteSets, FS_Subset, Identities DEF MovesTo
<1>2. /\ \A m \in S : f[m] \in Int /\ f[m] = g[m]
      /\ \A m \in Migrations \ S : f[m] = 0
  BY <1>0, MoveIs, Identities DEF MovedOf, MovesTo
<1>3. /\ \A h \in H : e[h] \in Int /\ e[h] = d[h]
      /\ \A h \in Holds \ H : e[h] = 0
  BY <1>0, TakenNat, Identities DEF TakenOf, Bears
<1>4. Funds(k) = balance[k]
  BY DEF Funds
<1>5. MovedBy(MovesTo(k)) = SumOver(g, S) /\ TakenFrom(H) = SumOver(d, H)
  BY DEF MovedBy, TakenFrom
<1>6. Funds(k) = given[k] + SumOver(f, Migrations) - SumOver(e, Holds)
  BY <1>0 DEF Even
<1> HIDE DEF f, g, S, e, d, H
<1>7. SumOver(f, Migrations) = SumOver(f, S) /\ SumOver(f, S) = SumOver(g, S)
  BY <1>1, <1>2, SumWithin, SumSame
<1>8. SumOver(e, Holds) = SumOver(e, H) /\ SumOver(e, H) = SumOver(d, H)
  BY <1>1, <1>3, SumWithin, SumSame
<1>9. balance[k] = given[k] + MovedBy(MovesTo(k)) - TakenFrom(H)
  BY <1>4, <1>5, <1>6, <1>7, <1>8
<1> QED
  BY <1>9 DEF H

LEMMA UserBooks ==
  ASSUME Inv, NEW u \in Users
  PROVE  loose[u] + balance[u] =
           given[u] - MovedBy(UNION {MovesTo(k) : k \in KeysOf(u)})
           - TakenFrom(HoldsOnPool(u) \cup {h \in UserHolds : HolderOf[h] = u /\ Made(h)})
<1>0. u \in Accounts /\ u \notin Keys /\ Shape /\ Even(u)
  BY Identities DEF Inv, Money
<1> DEFINE f == MovedOf(u)
           g == [m \in Migrations |-> moved[m].amount]
           z == [m \in Migrations |-> 0]
           S == UNION {MovesTo(k) : k \in KeysOf(u)}
           e == TakenOf(u)
           d == [h \in Holds |-> Taken(h)]
           H == HoldsOnPool(u) \cup {h \in UserHolds : HolderOf[h] = u /\ Made(h)}
<1>1. S \subseteq Migrations /\ IsFiniteSet(S) /\ H \subseteq Holds /\ IsFiniteSet(H)
      /\ IsFiniteSet(Migrations) /\ IsFiniteSet(Holds)
  BY FiniteSets, FS_Subset, Identities DEF MovesTo, HoldsOnPool
<1>2. \A m \in Migrations : m \in S <=> moved[m] # NotMoved /\ moved[m].from = u
  BY <1>0, MoveIs DEF MovesTo, KeysOf
<1>3. /\ \A m \in S : f[m] \in Int /\ g[m] \in Int /\ z[m] = f[m] + g[m] /\ z[m] = 0
      /\ \A m \in Migrations \ S : f[m] = 0
  <2>1. ASSUME NEW m \in S PROVE f[m] \in Int /\ g[m] \in Int /\ z[m] = f[m] + g[m] /\ z[m] = 0
    <3>1. m \in Migrations /\ moved[m] # NotMoved /\ moved[m].from = u
          /\ moved[m].amount \in Nat /\ moved[m].to # u
      BY <1>0, <1>1, <1>2, MoveIs, Identities
    <3>2. f[m] = - moved[m].amount /\ g[m] = moved[m].amount /\ z[m] = 0
      BY <3>1 DEF MovedOf
    <3> QED
      BY <3>1, <3>2
  <2>2. ASSUME NEW m \in Migrations \ S PROVE f[m] = 0
    BY <1>0, <1>2, <2>2, MoveIs DEF MovedOf
  <2> QED
    BY <2>1, <2>2
<1>4. /\ \A h \in H : e[h] \in Int /\ e[h] = d[h]
      /\ \A h \in Holds \ H : e[h] = 0
  <2>1. ASSUME NEW h \in Holds PROVE e[h] = (IF h \in H THEN d[h] ELSE 0) /\ d[h] \in Int
    <3>1. CASE h \in KeyHolds
      BY <1>0, <3>1, TakenNat, Identities DEF TakenOf, Bears, HoldsOnPool
    <3>2. CASE h \in UserHolds
      <4>1. ~ Made(h) => Taken(h) = 0
        BY DEF Made, Taken, Open
      <4> QED
        BY <1>0, <3>2, <4>1, TakenNat, Identities DEF TakenOf, Bears, HoldsOnPool
    <3> QED
      BY <3>1, <3>2, Identities
  <2> HIDE DEF e, d, H
  <2> QED
    BY <1>1, <2>1
<1>5. Funds(u) = loose[u] + balance[u]
  BY <1>0 DEF Funds
<1>6. MovedBy(S) = SumOver(g, S) /\ TakenFrom(H) = SumOver(d, H)
  BY DEF MovedBy, TakenFrom
<1>7. Funds(u) = given[u] + SumOver(f, Migrations) - SumOver(e, Holds) /\ given[u] \in Int
  BY <1>0, FundsInt DEF Even
<1> HIDE DEF f, g, z, S, e, d, H
<1>8. SumOver(f, Migrations) = SumOver(f, S)
  BY <1>1, <1>3, SumWithin
<1>9. SumOver(z, S) = SumOver(f, S) + SumOver(g, S) /\ SumOver(z, S) = 0
      /\ SumOver(f, S) \in Int /\ SumOver(g, S) \in Int
  <2>1. SumOver(z, S) = SumOver(f, S) + SumOver(g, S)
    BY <1>1, <1>3, SumPlus
  <2>2. SumOver(z, S) = 0
    BY <1>1, <1>3, SumZero
  <2>3. SumOver(f, S) \in Int /\ SumOver(g, S) \in Int
    BY <1>1, <1>3, SumType
  <2> QED
    BY <2>1, <2>2, <2>3
<1>10. SumOver(e, Holds) = SumOver(e, H) /\ SumOver(e, H) = SumOver(d, H) /\ SumOver(e, H) \in Int
  BY <1>1, <1>4, SumWithin, SumSame, SumType
<1>11. loose[u] + balance[u] = given[u] - MovedBy(S) - TakenFrom(H)
  BY <1>5, <1>6, <1>7, <1>8, <1>9, <1>10
<1> QED
  BY <1>11 DEF S, H

\* Adoption, migration, deletion and settlement neither lose credits nor count
\* any twice: QuotaBooks.
THEOREM Books == Spec => []QuotaBooks
<1>1. Inv => QuotaBooks
  BY KeyBooks, UserBooks DEF QuotaBooks
<1> QED
  BY <1>1, Inductive, PTL

\* What active keys have is in the pool, or was overdrawn by receipts.
LEMMA PoolBacks ==
  ASSUME Inv, NEW u \in Users \ outside
  PROVE  Allocated(u) <= balance[u] + TakenFrom({h \in HoldsOnPool(u) : hold[h].state \in Open})
                         + Overrun(u)
<1>0. u \in Users /\ u \in Accounts /\ Shape /\ Backing(u) /\ balance[u] \in Int
  BY Identities DEF Inv, Money, Shape, Tables
<1> DEFINE P == {k \in KeysOf(u) \cap active : state[k] # "absent"}
           free == [k \in Keys |-> balance[k]]
           held == [k \in Keys |-> HeldOn(k)]
           both == [k \in Keys |-> Available(k) + HeldOn(k)]
           O == {h \in KeyHolds : hold[h].state \in Open}
           amount == [h \in Holds |-> hold[h].amount]
           taken == [h \in Holds |-> Taken(h)]
           mine == {h \in HoldsOnPool(u) : hold[h].state \in Open}
           excess == [h \in Holds |-> Larger(0, hold[h].cost - hold[h].amount)]
           W == HoldsOnPool(u)
<1>1. /\ P \subseteq Keys /\ IsFiniteSet(P) /\ IsFiniteSet(Keys)
      /\ IsFiniteSet(O) /\ IsFiniteSet(mine) /\ IsFiniteSet(W) /\ W \subseteq KeyHolds
      /\ IsFiniteSet(KeyHolds)
  BY FiniteSets, FS_Subset DEF KeysOf, HoldsOnPool
<1>2. \A h \in Holds : amount[h] \in Nat /\ taken[h] \in Nat /\ excess[h] \in Nat
  BY <1>0, TakenNat DEF Excess
<1>3. \A h \in KeyHolds : h \in Holds /\ KeyOf[h] \in Keys
                          /\ (hold[h].state \in Open => Made(h))
                          /\ (Made(h) => KeyOf[h] \in hold[h].on)
                          /\ hold[h].on \cap Keys \subseteq {KeyOf[h]}
  BY <1>0, Identities DEF Shape, Groups, Group, Made, Open
<1>4. ASSUME NEW k \in P PROVE held[k] = SumOver(amount, {h \in O : KeyOf[h] = k})
  <2> DEFINE A == {h \in Holds : k \in hold[h].on /\ hold[h].state \in Open}
             B == {h \in O : KeyOf[h] = k}
  <2>1. k \in Keys /\ k \notin Users
    BY <1>1, Identities
  <2>2. \A h \in UserHolds : k \notin hold[h].on
    BY <1>0, <2>1, Identities DEF Shape, Groups, Group
  <2>3. A = B
    BY <1>3, <2>1, <2>2, Identities
  <2>4. held[k] = SumOver(amount, A)
    BY <2>1 DEF HeldOn
  <2> HIDE DEF A, B, held, amount
  <2>5. held[k] = SumOver(amount, B)
    BY <2>3, <2>4
  <2> QED
    BY <2>5 DEF B
<1>5. Allocated(u) = SumOver(both, P)
  BY DEF Allocated
<1>6. \A k \in P : free[k] \in Int /\ held[k] \in Int /\ both[k] = free[k] + held[k]
  <2> SUFFICES ASSUME NEW k \in P PROVE free[k] \in Int /\ held[k] \in Int /\ both[k] = free[k] + held[k]
    OBVIOUS
  <2>1. k \in Keys /\ k \in Accounts
    BY <1>1, Identities
  <2>2. free[k] \in Int /\ both[k] = free[k] + held[k]
    BY <1>0, <2>1 DEF Available, Shape, Tables
  <2>3. held[k] \in Int
    <3> DEFINE B == {h \in O : KeyOf[h] = k}
    <3>1. IsFiniteSet(B) /\ \A h \in B : amount[h] \in Int
      BY <1>1, <1>2, <1>3, FS_Subset
    <3>2. held[k] = SumOver(amount, B)
      BY <1>4
    <3> HIDE DEF B, amount, held
    <3> QED
      BY <3>1, <3>2, SumType
  <2> QED
    BY <2>2, <2>3
<1>7. /\ \A k \in Keys : Counted(u)[k] \in Int
      /\ \A k \in Keys \ P : Counted(u)[k] = 0
      /\ \A k \in P : Counted(u)[k] = free[k]
  BY <1>0, CountedInt, Identities DEF Counted, KeysOf, Shape, AccountRows
<1> DEFINE within == {h \in O : KeyOf[h] \in P}
<1>8. /\ within \subseteq mine /\ \A h \in within : amount[h] = taken[h]
      /\ mine \subseteq Holds
  <2>1. ASSUME NEW h \in within PROVE h \in mine /\ amount[h] = taken[h]
    <3>1. h \in KeyHolds /\ hold[h].state \in Open /\ OwnerOf[KeyOf[h]] = u /\ Made(h) /\ h \in Holds
      BY <1>3, <2>1 DEF KeysOf
    <3>2. u \in hold[h].on
      BY <1>0, <3>1 DEF Backing
    <3>3. Taken(h) = hold[h].amount
      BY <3>1 DEF Taken, Open
    <3> QED
      BY <3>1, <3>2, <3>3 DEF HoldsOnPool
  <2>2. mine \subseteq Holds
    BY <1>3 DEF HoldsOnPool
  <2> HIDE DEF within, mine, amount, taken
  <2> QED
    BY <2>1, <2>2
<1>9. TakenFrom(mine) = SumOver(taken, mine) /\ Overrun(u) = SumOver(excess, W)
  BY DEF TakenFrom, Overrun
<1>10. /\ \A h \in W : LostOn(u)[h] \in Int /\ excess[h] \in Int /\ LostOn(u)[h] <= excess[h]
       /\ \A h \in KeyHolds \ W : LostOn(u)[h] = 0
  <2>1. \A h \in KeyHolds : /\ LostOn(u)[h] \in Nat /\ excess[h] \in Nat
                            /\ LostOn(u)[h] = excess[h] \/ LostOn(u)[h] = 0
    BY <1>0, <1>2, <1>3, OverIs DEF LostOn, Excess
  <2>2. ASSUME NEW h \in KeyHolds \ W PROVE LostOn(u)[h] = 0
    <3>1. ~ (Made(h) /\ OwnerOf[KeyOf[h]] = u)
      BY <1>0, <2>2 DEF Backing, HoldsOnPool
    <3>2. ~ Made(h) => Excess(h) = 0
      BY <1>0, <1>3 DEF Shape, Groups, Group, NoHold, Excess, Larger
    <3> QED
      BY <3>1, <3>2 DEF LostOn
  <2> QED
    BY <1>1, <2>1, <2>2
<1>11. SumOver(Counted(u), Keys) <= balance[u] + SumOver(LostOn(u), KeyHolds)
  BY <1>0 DEF Backing
<1>12. \A h \in O : amount[h] \in Int
  BY <1>2, <1>3
<1>13. IsFiniteSet(within) /\ \A h \in within : amount[h] \in Int
  BY <1>1, <1>12, FS_Subset
<1>14. \A h \in mine : taken[h] \in Nat
  BY <1>2, <1>8
<1> HIDE DEF P, free, held, both, O, amount, taken, mine, excess, W, within
<1>15. SumOver(both, P) = SumOver(free, P) + SumOver(held, P)
       /\ SumOver(free, P) \in Int /\ SumOver(held, P) \in Int
  BY <1>1, <1>6, SumPlus, SumType
<1>16. SumOver(Counted(u), Keys) = SumOver(free, P)
  <2>1. SumOver(Counted(u), Keys) = SumOver(Counted(u), P)
    BY <1>1, <1>7, SumWithin
  <2>2. SumOver(Counted(u), P) = SumOver(free, P)
    BY <1>1, <1>7, SumSame
  <2> QED
    BY <2>1, <2>2
<1>17. SumOver(held, P) = SumOver(amount, within)
  <2> DEFINE on == [k \in P |-> {h \in O : KeyOf[h] = k}]
  <2>1. /\ \A k \in P : on[k] \subseteq O /\ \A h \in O : h \in on[k] <=> KeyOf[h] = k
        /\ \A k \in P : held[k] = SumOver(amount, on[k])
    BY <1>4
  <2>2. IsFiniteSet(O) /\ IsFiniteSet(P)
    BY <1>1
  <2>3. within \in SUBSET O /\ \A h \in O : h \in within <=> KeyOf[h] \in P
    BY DEF within
  <2> HIDE DEF on
  <2> QED
    BY <1>12, <2>1, <2>2, <2>3, SumFibres
<1>18. SumOver(amount, within) = SumOver(taken, within)
  BY <1>8, <1>13, SumSame
<1>19. SumOver(taken, within) <= SumOver(taken, mine) /\ SumOver(taken, mine) \in Int
  BY <1>1, <1>8, <1>14, SumFewer, SumType
<1>20. SumOver(LostOn(u), KeyHolds) = SumOver(LostOn(u), W)
  <2>1. \A h \in W : LostOn(u)[h] \in Int
    BY <1>10
  <2> QED
    BY <1>1, <1>10, <2>1, SumWithin
<1>21. SumOver(LostOn(u), W) <= SumOver(excess, W) /\ SumOver(excess, W) \in Int
       /\ SumOver(LostOn(u), W) \in Int
  BY <1>1, <1>10, SumMonotone, SumType
<1>22. Allocated(u) <= balance[u] + TakenFrom(mine) + Overrun(u)
  BY <1>0, <1>5, <1>9, <1>11, <1>15, <1>16, <1>17, <1>18, <1>19, <1>20, <1>21
<1> QED
  BY <1>22 DEF mine

\* The pool of a user backs what its keys were allocated: PoolBacksKeys.
THEOREM PoolBacking == Spec => []PoolBacksKeys
<1>1. Inv => PoolBacksKeys
  BY PoolBacks DEF PoolBacksKeys
<1> QED
  BY <1>1, Inductive, PTL

\* A completed pass has quarantined what was beyond repair when it began:
\* SweepComplete.
THEOREM PassComplete == Spec => SweepComplete
<1>1. ASSUME Inv, [Next]_vars
      PROVE  [SweepBatch /\ sweep' = NoSweep =>
                \A h \in Begun : \A a \in hold[h].on : state'[a] = "reconcile_required"]_vars
  BY <1>1, BatchCompletes DEF Inv
<1> QED
  BY <1>1, Inductive, PTL DEF Spec, SweepComplete

=============================================================================
