----------------------------- MODULE SumTheorems ----------------------------
(***************************************************************************)
(* Facts about sums over finite sets, for any set and any terms.  A fold   *)
(* over a set takes its elements in an order CHOOSE decides; the lemmas    *)
(* say that the order does not matter, and how a sum changes with its set  *)
(* and its terms.                                                          *)
(*                                                                         *)
(* Induction is over the subsets of the set, by the well-foundedness of    *)
(* strict inclusion among them: what is to be proved is a set of subsets   *)
(* that contains each one all of whose proper subsets it contains.         *)
(***************************************************************************)
EXTENDS Sums, FiniteSetTheorems, TLAPS

\* The element a fold takes first.
Pick(s) == CHOOSE x \in s : TRUE

\* It is an element.
LEMMA PickIn == ASSUME NEW s, s # {} PROVE Pick(s) \in s
BY DEF Pick

\* Induction over the subsets of a finite set.
LEMMA SubsetInduction ==
  ASSUME NEW S, IsFiniteSet(S), NEW G,
         \A T \in SUBSET S : (\A U \in SUBSET T : U # T => U \in G) => T \in G
  PROVE  SUBSET S \subseteq G
<1> DEFINE R == StrictSubsetOrdering(S)
           B == {T \in SUBSET S : T \notin G}
<1>1. IsWellFoundedOn(R, SUBSET S)
  BY FS_StrictSubsetOrderingWellFounded, FS_FiniteSubsetsOfFinite
<1>2. SUFFICES ASSUME B # {} PROVE FALSE
  OBVIOUS
<1>3. PICK T \in B : \A U \in B : ~ (<<U, T>> \in R)
  <2> HIDE DEF R
  <2>1. B \subseteq SUBSET S
    OBVIOUS
  <2> HIDE DEF B
  <2> QED
    BY <1>1, <1>2, <2>1, WFMin
<1>4. ASSUME NEW U \in SUBSET T, U # T PROVE U \in G
  BY <1>3, <1>4 DEF StrictSubsetOrdering
<1> QED
  BY <1>3, <1>4

-----------------------------------------------------------------------------
(* The function of subsets that a fold is defined by.                      *)

\* One step of the fold: what s sums up to if g says so of smaller sets.
Rec(f, g, s) == IF s = {} THEN 0 ELSE f[Pick(s)] + g[s \ {Pick(s)}]

\* g is what the sums of the subsets of S are.
Tabulates(g, f, S) == \A s \in SUBSET S : g[s] = Rec(f, g, s)

\* Two such functions agree on the sets both are defined on.
LEMMA RecUnique ==
  ASSUME NEW f, NEW S, IsFiniteSet(S), NEW T, T \subseteq S,
         NEW g, Tabulates(g, f, S), NEW h, Tabulates(h, f, T)
  PROVE  h[T] = g[T]
<1> USE DEF Tabulates
<1> DEFINE G == {U \in SUBSET S : U \subseteq T => h[U] = g[U]}
<1>1. ASSUME NEW U \in SUBSET S, \A V \in SUBSET U : V # U => V \in G
      PROVE  U \in G
  <2>1. CASE U = {}
    BY <2>1 DEF Rec
  <2>2. CASE U # {}
    <3>1. Pick(U) \in U
      BY <2>2, PickIn
    <3>2. U \ {Pick(U)} \in G
      BY <1>1, <3>1
    <3> QED
      BY <2>2, <3>1, <3>2 DEF Rec
  <2> QED
    BY <2>1, <2>2
<1> HIDE DEF G
<1>2. SUBSET S \subseteq G
  BY <1>1, SubsetInduction
<1> QED
  BY <1>2 DEF G

\* There is such a function: the sums of smaller sets are tables already.
LEMMA RecExists ==
  ASSUME NEW f, NEW S, IsFiniteSet(S)
  PROVE  \E g : g = [s \in SUBSET S |-> Rec(f, g, s)]
<1> DEFINE Good(g, T) == g = [s \in SUBSET T |-> Rec(f, g, s)]
           G == {T \in SUBSET S : \E g : Good(g, T)}
           It(T) == CHOOSE g : Good(g, T)
<1>1. ASSUME NEW T \in SUBSET S, \A U \in SUBSET T : U # T => U \in G
      PROVE  T \in G
  <2>1. \A U \in SUBSET T : U # T => Good(It(U), U)
    BY <1>1
  <2> DEFINE h == [s \in SUBSET T |-> IF s = {} THEN 0 ELSE f[Pick(s)] + It(s \ {Pick(s)})[s \ {Pick(s)}]]
  <2> HIDE DEF It
  <2>2. ASSUME NEW s \in SUBSET T PROVE h[s] = Rec(f, h, s)
    <3>1. CASE s = {}
      BY <3>1 DEF Rec
    <3>2. CASE s # {}
      <4> DEFINE t == s \ {Pick(s)}
                 r == t \ {Pick(t)}
      <4>1. Pick(s) \in s /\ t \in SUBSET T /\ t # T /\ IsFiniteSet(t)
        BY <3>2, PickIn, FS_Subset
      <4>2. Good(It(t), t)
        BY <2>1, <4>1
      <4>3. h[t] = It(t)[t]
        <5>1. CASE t = {}
          BY <4>1, <4>2, <5>1 DEF Rec
        <5>2. CASE t # {}
          <6>1. Pick(t) \in t /\ r \in SUBSET T /\ r # T /\ r \in SUBSET t
            BY <4>1, <5>2, PickIn
          <6>2. Good(It(r), r)
            BY <2>1, <6>1
          <6>3. It(r)[r] = It(t)[r]
            <7> DEFINE gt == It(t)
                       gr == It(r)
            <7>1. Tabulates(gt, f, t)
              BY <4>2 DEF Tabulates
            <7>2. Tabulates(gr, f, r)
              BY <6>2 DEF Tabulates
            <7> HIDE DEF gt, gr, t, r
            <7> QED
              BY <4>1, <6>1, <7>1, <7>2, RecUnique DEF gt, gr
          <6>4. h[t] = f[Pick(t)] + It(r)[r]
            BY <4>1, <5>2
          <6>5. It(t)[t] = f[Pick(t)] + It(t)[r]
            BY <4>2, <5>2 DEF Rec
          <6> QED
            BY <6>3, <6>4, <6>5
        <5> QED
          BY <5>1, <5>2
      <4>4. h[s] = f[Pick(s)] + It(t)[t]
        BY <3>2
      <4>5. Rec(f, h, s) = f[Pick(s)] + h[t]
        BY <3>2 DEF Rec
      <4> QED
        BY <4>3, <4>4, <4>5
    <3> QED
      BY <3>1, <3>2
  <2>3. Good(h, T)
    <3>1. h = [s \in SUBSET T |-> h[s]]
      OBVIOUS
    <3> HIDE DEF h
    <3> QED
      BY <2>2, <3>1
  <2> QED
    BY <2>3
<1> HIDE DEF G
<1>2. SUBSET S \subseteq G
  BY <1>1, SubsetInduction
<1>3. S \in G
  BY <1>2
<1> QED
  BY <1>3 DEF G

Table(f, S) == CHOOSE g : g = [s \in SUBSET S |-> Rec(f, g, s)]

\* A sum is what the table of its set says.
LEMMA SumRec ==
  ASSUME NEW f, NEW S, IsFiniteSet(S)
  PROVE  SumOver(f, S) = Table(f, S)[S] /\ Tabulates(Table(f, S), f, S)
<1> DEFINE g == Table(f, S)
<1>1. g = [s \in SUBSET S |-> Rec(f, g, s)]
  BY RecExists DEF Table
<1>2. SumOver(f, S) = g[S]
  BY DEF SumOver, MapThenSumSet, MapThenFoldSet, Rec, Pick, Table
<1> HIDE DEF g
<1>3. Tabulates(g, f, S)
  BY <1>1 DEF Tabulates
<1> QED
  BY <1>2, <1>3 DEF g

\* Any element may be taken first.
LEMMA RecAnyOrder ==
  ASSUME NEW S, IsFiniteSet(S), NEW f, \A x \in S : f[x] \in Int,
         NEW g, Tabulates(g, f, S)
  PROVE  \A T \in SUBSET S : g[T] \in Int /\ \A x \in T : g[T] = f[x] + g[T \ {x}]
<1> USE DEF Tabulates
<1> DEFINE Any(T) == g[T] \in Int /\ \A x \in T : g[T] = f[x] + g[T \ {x}]
           G == {T \in SUBSET S : Any(T)}
<1>1. ASSUME NEW T \in SUBSET S, \A U \in SUBSET T : U # T => U \in G
      PROVE  T \in G
  <2>1. CASE T = {}
    <3>1. g[T] = 0
      BY <2>1 DEF Rec
    <3> QED
      BY <2>1, <3>1
  <2>2. CASE T # {}
    <3> DEFINE p == Pick(T)
    <3>1. p \in T /\ f[p] \in Int
      BY <2>2, PickIn
    <3>2. g[T] = f[p] + g[T \ {p}]
      BY <2>2 DEF Rec
    <3> HIDE DEF p
    <3>3. g[T \ {p}] \in Int
      BY <1>1, <3>1
    <3>4. ASSUME NEW x \in T PROVE g[T] = f[x] + g[T \ {x}]
      <4>1. CASE x = p
        BY <3>2, <4>1
      <4>2. CASE x # p
        <5>1. g[T \ {p}] = f[x] + g[(T \ {p}) \ {x}]
          BY <1>1, <3>1, <4>2
        <5>2. g[T \ {x}] = f[p] + g[(T \ {x}) \ {p}]
          BY <1>1, <3>1, <4>2
        <5>3. (T \ {p}) \ {x} = (T \ {x}) \ {p} /\ (T \ {x}) \ {p} \in SUBSET T
          OBVIOUS
        <5>4. g[(T \ {x}) \ {p}] \in Int /\ f[x] \in Int
          BY <1>1, <3>1, <5>3
        <5> DEFINE rest == g[(T \ {x}) \ {p}]
        <5>5. g[T] = f[p] + (f[x] + rest) /\ g[T \ {x}] = f[p] + rest
          BY <3>2, <5>1, <5>2, <5>3
        <5> HIDE DEF rest
        <5> QED
          BY <3>1, <5>4, <5>5 DEF rest
      <4> QED
        BY <4>1, <4>2
    <3>5. g[T] \in Int
      BY <3>1, <3>2, <3>3
    <3> QED
      BY <3>4, <3>5
  <2> QED
    BY <2>1, <2>2
<1> HIDE DEF G
<1>2. SUBSET S \subseteq G
  BY <1>1, SubsetInduction
<1> QED
  BY <1>2 DEF G

-----------------------------------------------------------------------------
(* Sums.                                                                   *)

\* The sum of nothing is zero.
LEMMA SumEmpty == ASSUME NEW f PROVE SumOver(f, {}) = 0
<1>1. IsFiniteSet({})
  BY FS_EmptySet
<1> QED
  BY <1>1, SumRec DEF Tabulates, Rec

\* A sum of integers is an integer.
LEMMA SumType ==
  ASSUME NEW S, IsFiniteSet(S), NEW f, \A x \in S : f[x] \in Int
  PROVE  SumOver(f, S) \in Int
BY SumRec, RecAnyOrder

\* A subset has the same sum by its own table and by a larger one.
LEMMA SubTable ==
  ASSUME NEW f, NEW S, IsFiniteSet(S), NEW T, T \subseteq S
  PROVE  Table(f, T)[T] = Table(f, S)[T]
<1>1. IsFiniteSet(T)
  BY FS_Subset
<1> QED
  BY <1>1, SumRec, RecUnique

\* Any one term may be split off.
LEMMA SumRemove ==
  ASSUME NEW S, IsFiniteSet(S), NEW f, \A x \in S : f[x] \in Int, NEW x \in S
  PROVE  SumOver(f, S) = f[x] + SumOver(f, S \ {x})
<1> DEFINE T == S \ {x}
           g == Table(f, S)
<1>1. T \subseteq S /\ IsFiniteSet(T)
  BY FS_Subset
<1>2. SumOver(f, S) = g[S] /\ SumOver(f, T) = g[T]
  BY <1>1, SumRec, SubTable
<1>3. Tabulates(g, f, S)
  BY SumRec
<1> HIDE DEF g
<1>4. g[S] = f[x] + g[S \ {x}]
  BY <1>3, RecAnyOrder
<1> QED
  BY <1>2, <1>4

\* A further element adds its term.
LEMMA SumAdd ==
  ASSUME NEW S, IsFiniteSet(S), NEW f, NEW x, x \notin S, \A y \in S \cup {x} : f[y] \in Int
  PROVE  SumOver(f, S \cup {x}) = f[x] + SumOver(f, S)
<1> DEFINE T == S \cup {x}
<1>1. IsFiniteSet(T) /\ T \ {x} = S /\ x \in T
  BY FS_AddElement
<1> HIDE DEF T
<1>2. SumOver(f, T) = f[x] + SumOver(f, T \ {x})
  BY <1>1, SumRemove DEF T
<1> QED
  BY <1>1, <1>2 DEF T

\* Terms that agree have the same sum.
LEMMA SumSame ==
  ASSUME NEW S, IsFiniteSet(S), NEW f, NEW g,
         \A x \in S : f[x] \in Int /\ f[x] = g[x]
  PROVE  SumOver(f, S) = SumOver(g, S)
<1> DEFINE G == {T \in SUBSET S : SumOver(f, T) = SumOver(g, T)}
<1>1. ASSUME NEW T \in SUBSET S, \A U \in SUBSET T : U # T => U \in G
      PROVE  T \in G
  <2>1. CASE T = {}
    BY <2>1, SumEmpty
  <2>2. ASSUME NEW x \in T PROVE SumOver(f, T) = SumOver(g, T)
    <3>1. T \ {x} \in G
      BY <1>1
    <3>2. IsFiniteSet(T)
      BY FS_Subset
    <3>3. SumOver(f, T) = f[x] + SumOver(f, T \ {x})
      BY <3>2, SumRemove
    <3>4. SumOver(g, T) = g[x] + SumOver(g, T \ {x})
      BY <3>2, SumRemove
    <3> QED
      BY <3>1, <3>3, <3>4
  <2> QED
    BY <2>1, <2>2
<1> HIDE DEF G
<1>2. SUBSET S \subseteq G
  BY <1>1, SubsetInduction
<1> QED
  BY <1>2 DEF G

\* A sum of terms none of which is negative is not negative.
LEMMA SumNat ==
  ASSUME NEW S, IsFiniteSet(S), NEW f, \A x \in S : f[x] \in Nat
  PROVE  SumOver(f, S) \in Nat
<1> DEFINE G == {T \in SUBSET S : SumOver(f, T) \in Nat}
<1>1. ASSUME NEW T \in SUBSET S, \A U \in SUBSET T : U # T => U \in G
      PROVE  T \in G
  <2>1. CASE T = {}
    BY <2>1, SumEmpty
  <2>2. ASSUME NEW x \in T PROVE SumOver(f, T) \in Nat
    <3>1. T \ {x} \in G
      BY <1>1
    <3>2. IsFiniteSet(T)
      BY FS_Subset
    <3>3. SumOver(f, T) = f[x] + SumOver(f, T \ {x})
      BY <3>2, SumRemove
    <3> QED
      BY <3>1, <3>3
  <2> QED
    BY <2>1, <2>2
<1> HIDE DEF G
<1>2. SUBSET S \subseteq G
  BY <1>1, SubsetInduction
<1> QED
  BY <1>2 DEF G

\* A sum of which one term changes, changes as the term does.
LEMMA SumChange ==
  ASSUME NEW S, IsFiniteSet(S), NEW f, NEW g, NEW x \in S,
         \A y \in S : f[y] \in Int /\ g[y] \in Int,
         \A y \in S \ {x} : f[y] = g[y]
  PROVE  SumOver(g, S) = SumOver(f, S) - f[x] + g[x]
<1> DEFINE T == S \ {x}
<1>1. IsFiniteSet(T)
  BY FS_Subset
<1>2. SumOver(f, T) = SumOver(g, T) /\ SumOver(f, T) \in Int
  BY <1>1, SumSame, SumType
<1>3. SumOver(f, S) = f[x] + SumOver(f, T) /\ SumOver(g, S) = g[x] + SumOver(g, T)
  BY SumRemove
<1> QED
  BY <1>2, <1>3

\* The sums of two sets that have nothing in common.
LEMMA SumDisjoint ==
  ASSUME NEW S, IsFiniteSet(S), NEW R, IsFiniteSet(R), S \cap R = {},
         NEW f, \A x \in S \cup R : f[x] \in Int
  PROVE  SumOver(f, S \cup R) = SumOver(f, S) + SumOver(f, R)
<1> DEFINE G == {T \in SUBSET R : SumOver(f, S \cup T) = SumOver(f, S) + SumOver(f, T)}
<1>0. SumOver(f, S) \in Int
  BY SumType
<1>1. ASSUME NEW T \in SUBSET R, \A U \in SUBSET T : U # T => U \in G
      PROVE  T \in G
  <2>1. CASE T = {}
    BY <1>0, <2>1, SumEmpty
  <2>2. ASSUME NEW x \in T PROVE SumOver(f, S \cup T) = SumOver(f, S) + SumOver(f, T)
    <3>1. T \ {x} \in G
      BY <1>1
    <3>2. IsFiniteSet(T) /\ IsFiniteSet(T \ {x}) /\ IsFiniteSet(S \cup T)
      BY FS_Subset, FS_Union
    <3>3. SumOver(f, T) = f[x] + SumOver(f, T \ {x}) /\ SumOver(f, T \ {x}) \in Int
      BY <3>2, SumRemove, SumType
    <3>4. SumOver(f, S \cup T) = f[x] + SumOver(f, (S \cup T) \ {x})
      BY <3>2, SumRemove
    <3>5. (S \cup T) \ {x} = S \cup (T \ {x})
      OBVIOUS
    <3>6. SumOver(f, S \cup T) = f[x] + (SumOver(f, S) + SumOver(f, T \ {x})) /\ f[x] \in Int
      BY <3>1, <3>4, <3>5
    <3> QED
      BY <1>0, <3>3, <3>6
  <2> QED
    BY <2>1, <2>2
<1> HIDE DEF G
<1>2. SUBSET R \subseteq G
  BY <1>1, SubsetInduction
<1> QED
  BY <1>2 DEF G

\* Terms that are nowhere larger have a sum that is not larger.
LEMMA SumMonotone ==
  ASSUME NEW S, IsFiniteSet(S), NEW f, NEW g,
         \A x \in S : f[x] \in Int /\ g[x] \in Int /\ f[x] <= g[x]
  PROVE  SumOver(f, S) <= SumOver(g, S)
<1> DEFINE G == {T \in SUBSET S : SumOver(f, T) <= SumOver(g, T)}
<1>1. ASSUME NEW T \in SUBSET S, \A U \in SUBSET T : U # T => U \in G
      PROVE  T \in G
  <2>1. CASE T = {}
    BY <2>1, SumEmpty
  <2>2. ASSUME NEW x \in T PROVE SumOver(f, T) <= SumOver(g, T)
    <3>1. T \ {x} \in G
      BY <1>1
    <3>2. IsFiniteSet(T) /\ IsFiniteSet(T \ {x})
      BY FS_Subset
    <3>3. SumOver(f, T) = f[x] + SumOver(f, T \ {x}) /\ SumOver(f, T \ {x}) \in Int
      BY <3>2, SumRemove, SumType
    <3>4. SumOver(g, T) = g[x] + SumOver(g, T \ {x}) /\ SumOver(g, T \ {x}) \in Int
      BY <3>2, SumRemove, SumType
    <3> QED
      BY <3>1, <3>3, <3>4
  <2> QED
    BY <2>1, <2>2
<1> HIDE DEF G
<1>2. SUBSET S \subseteq G
  BY <1>1, SubsetInduction
<1> QED
  BY <1>2 DEF G

\* Terms that are zero add nothing.
LEMMA SumWithin ==
  ASSUME NEW R, IsFiniteSet(R), NEW S, S \subseteq R, NEW f,
         \A x \in S : f[x] \in Int, \A x \in R \ S : f[x] = 0
  PROVE  SumOver(f, R) = SumOver(f, S)
<1> DEFINE D == R \ S
           G == {T \in SUBSET D : SumOver(f, S \cup T) = SumOver(f, S)}
<1>0. IsFiniteSet(D) /\ IsFiniteSet(S) /\ SumOver(f, S) \in Int
  BY FS_Subset, SumType
<1>1. ASSUME NEW T \in SUBSET D, \A U \in SUBSET T : U # T => U \in G
      PROVE  T \in G
  <2>1. CASE T = {}
    BY <2>1
  <2>2. ASSUME NEW x \in T PROVE SumOver(f, S \cup T) = SumOver(f, S)
    <3>1. T \ {x} \in G /\ f[x] = 0
      BY <1>1
    <3>2. IsFiniteSet(S \cup T)
      BY FS_Subset
    <3>3. SumOver(f, S \cup T) = f[x] + SumOver(f, (S \cup T) \ {x})
      BY <3>1, <3>2, SumRemove
    <3>4. (S \cup T) \ {x} = S \cup (T \ {x})
      OBVIOUS
    <3> QED
      BY <1>0, <3>1, <3>3, <3>4
  <2> QED
    BY <2>1, <2>2
<1> HIDE DEF G, D
<1>2. SUBSET D \subseteq G
  BY <1>0, <1>1, SubsetInduction
<1>3. D \in G /\ S \cup D = R
  BY <1>2 DEF D
<1> QED
  BY <1>3 DEF G

\* Sums over one set are added term by term.
LEMMA SumPlus ==
  ASSUME NEW S, IsFiniteSet(S), NEW f, NEW g, NEW h,
         \A x \in S : f[x] \in Int /\ g[x] \in Int /\ h[x] = f[x] + g[x]
  PROVE  SumOver(h, S) = SumOver(f, S) + SumOver(g, S)
<1> DEFINE G == {T \in SUBSET S : SumOver(h, T) = SumOver(f, T) + SumOver(g, T)}
<1>1. ASSUME NEW T \in SUBSET S, \A U \in SUBSET T : U # T => U \in G
      PROVE  T \in G
  <2>1. CASE T = {}
    BY <2>1, SumEmpty
  <2>2. ASSUME NEW x \in T PROVE SumOver(h, T) = SumOver(f, T) + SumOver(g, T)
    <3>1. T \ {x} \in G
      BY <1>1
    <3>2. IsFiniteSet(T) /\ IsFiniteSet(T \ {x})
      BY FS_Subset
    <3>3. \A y \in T : h[y] \in Int
      OBVIOUS
    <3>4. /\ SumOver(f, T) = f[x] + SumOver(f, T \ {x}) /\ SumOver(f, T \ {x}) \in Int
          /\ SumOver(g, T) = g[x] + SumOver(g, T \ {x}) /\ SumOver(g, T \ {x}) \in Int
          /\ SumOver(h, T) = h[x] + SumOver(h, T \ {x})
      BY <3>2, <3>3, SumRemove, SumType
    <3> QED
      BY <3>1, <3>4
  <2> QED
    BY <2>1, <2>2
<1> HIDE DEF G
<1>2. SUBSET S \subseteq G
  BY <1>1, SubsetInduction
<1> QED
  BY <1>2 DEF G

\* Fewer terms, none of them negative, have no larger sum.
LEMMA SumFewer ==
  ASSUME NEW R, IsFiniteSet(R), NEW S, S \subseteq R, NEW f, \A x \in R : f[x] \in Nat
  PROVE  SumOver(f, S) <= SumOver(f, R)
<1>1. IsFiniteSet(S) /\ IsFiniteSet(R \ S) /\ S \cap (R \ S) = {} /\ S \cup (R \ S) = R
  BY FS_Subset
<1>2. SumOver(f, R) = SumOver(f, S) + SumOver(f, R \ S)
  <2>1. \A x \in S \cup (R \ S) : f[x] \in Int
    OBVIOUS
  <2>2. SumOver(f, S \cup (R \ S)) = SumOver(f, S) + SumOver(f, R \ S)
    BY <1>1, <2>1, SumDisjoint
  <2> QED
    BY <1>1, <2>2
<1>3. SumOver(f, S) \in Int /\ SumOver(f, R \ S) \in Nat
  BY <1>1, SumType, SumNat
<1> QED
  BY <1>2, <1>3

\* The sums over the fibres of a map add up to the sum over all of them.
LEMMA SumFibres ==
  ASSUME NEW R, IsFiniteSet(R), NEW S, IsFiniteSet(S), NEW f, NEW g, NEW key, NEW fibre,
         \A x \in R : f[x] \in Int,
         \A k \in S : fibre[k] \subseteq R /\ \A x \in R : x \in fibre[k] <=> key[x] = k,
         \A k \in S : g[k] = SumOver(f, fibre[k]),
         NEW all \in SUBSET R, \A x \in R : x \in all <=> key[x] \in S
  PROVE  SumOver(g, S) = SumOver(f, all)
<1> DEFINE Of(T) == {x \in R : key[x] \in T}
           G == {T \in SUBSET S : SumOver(g, T) = SumOver(f, Of(T))}
<1>1. ASSUME NEW T \in SUBSET S, \A U \in SUBSET T : U # T => U \in G
      PROVE  T \in G
  <2>1. ASSUME T = {} PROVE SumOver(g, T) = SumOver(f, Of(T))
    <3>1. Of(T) = {}
      BY <2>1
    <3> HIDE DEF Of
    <3> QED
      BY <2>1, <3>1, SumEmpty
  <2>2. ASSUME NEW k \in T PROVE SumOver(g, T) = SumOver(f, Of(T))
    <3> DEFINE One == fibre[k]
    <3>1. T \ {k} \in G
      BY <1>1
    <3>2. /\ IsFiniteSet(T) /\ IsFiniteSet(One) /\ IsFiniteSet(Of(T \ {k}))
      BY FS_Subset
    <3>3. Of(T) = Of(T \ {k}) \cup One /\ Of(T \ {k}) \cap One = {}
      OBVIOUS
    <3>4. \A x \in Of(T \ {k}) \cup One : f[x] \in Int
      OBVIOUS
    <3>5. g[k] = SumOver(f, One)
      OBVIOUS
    <3>6. \A y \in T : g[y] \in Int
      <4> SUFFICES ASSUME NEW y \in T PROVE g[y] \in Int
        OBVIOUS
      <4>1. IsFiniteSet(fibre[y]) /\ g[y] = SumOver(f, fibre[y])
            /\ \A x \in fibre[y] : f[x] \in Int
        BY FS_Subset
      <4> QED
        BY <4>1, SumType
    <3>7. SumOver(g, T \ {k}) = SumOver(f, Of(T \ {k}))
      BY <3>1
    <3> HIDE DEF Of, One, G
    <3>8. SumOver(f, Of(T)) = SumOver(f, Of(T \ {k})) + SumOver(f, One)
      <4> DEFINE A == Of(T \ {k})
      <4>1. IsFiniteSet(A) /\ IsFiniteSet(One) /\ A \cap One = {} /\ Of(T) = A \cup One
            /\ \A x \in A \cup One : f[x] \in Int
        BY <3>2, <3>3, <3>4
      <4> HIDE DEF A
      <4>2. SumOver(f, A \cup One) = SumOver(f, A) + SumOver(f, One)
        BY <4>1, SumDisjoint
      <4> QED
        BY <4>1, <4>2 DEF A
    <3>9. SumOver(g, T) = g[k] + SumOver(g, T \ {k})
      BY <3>2, <3>6, SumRemove
    <3>10. SumOver(f, One) \in Int /\ SumOver(f, Of(T \ {k})) \in Int
      BY <3>2, <3>4, SumType
    <3> QED
      BY <3>5, <3>7, <3>8, <3>9, <3>10
  <2>3. SumOver(g, T) = SumOver(f, Of(T))
    <3> HIDE DEF Of, G
    <3> QED
      BY <2>1, <2>2
  <2> QED
    BY <2>3
<1> HIDE DEF G, Of
<1>2. SUBSET S \subseteq G
  BY <1>1, SubsetInduction
<1>3. SumOver(g, S) = SumOver(f, Of(S))
  BY <1>2 DEF G
<1>4. Of(S) = all
  BY DEF Of
<1> QED
  BY <1>3, <1>4

\* One term changes by d.
LEMMA SumBy ==
  ASSUME NEW S, IsFiniteSet(S), NEW f, NEW g, NEW x \in S, NEW d \in Int,
         \A y \in S : f[y] \in Int /\ g[y] \in Int,
         \A y \in S \ {x} : f[y] = g[y],
         g[x] = f[x] + d
  PROVE  SumOver(g, S) = SumOver(f, S) + d
<1>1. SumOver(g, S) = SumOver(f, S) - f[x] + g[x]
  BY SumChange
<1>2. SumOver(f, S) \in Int /\ f[x] \in Int
  BY SumType
<1> QED
  BY <1>1, <1>2

\* Nothing adds up to nothing.
LEMMA SumZero ==
  ASSUME NEW S, IsFiniteSet(S), NEW f, \A x \in S : f[x] = 0
  PROVE  SumOver(f, S) = 0
<1>1. SumOver(f, S) = SumOver(f, {})
  BY SumWithin
<1> QED
  BY <1>1, SumEmpty
=============================================================================
