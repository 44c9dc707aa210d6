-------------------------- MODULE AlertOutputProofs --------------------------
(***************************************************************************)
(* What the loop of build_alert_output computes, for any list of results:  *)
(* used of the artifacts of a run and of the evaluation.                   *)
(***************************************************************************)
EXTENDS AlertOutput, SequenceTheorems, FiniteSetTheorems, WellFoundedInduction, TLAPS

\* A set of naturals has a least element: this stands for induction below.
LEMMA LeastNatural ==
  ASSUME NEW S, S \subseteq Nat, S # {}
  PROVE  \E x \in S : \A y \in S : x <= y
<1>1. \E x \in S : \A y \in S : ~ (<<y, x>> \in OpToRel(<, Nat))
  BY NatLessThanWellFounded, WFMin
<1>2. \A x, y \in S : ~ (<<y, x>> \in OpToRel(<, Nat)) => x <= y
  BY DEF OpToRel
<1> QED
  BY <1>1, <1>2

\* The alerts of the first n results are those of the first n - 1, and one more
\* if the n-th result raised one.
LEMMA AlertsUpToStep ==
  ASSUME NEW rs, Len(rs) \in Nat
  PROVE  /\ AlertsUpTo(rs)[0] = <<>>
         /\ \A n \in 1..Len(rs) :
              AlertsUpTo(rs)[n] = IF rs[n].alert_emitted
                                  THEN Append(AlertsUpTo(rs)[n - 1], Alert(rs[n]))
                                  ELSE AlertsUpTo(rs)[n - 1]
<1> DEFINE Body(f, n) == IF n = 0 THEN <<>>
                         ELSE IF rs[n].alert_emitted THEN Append(f[n - 1], Alert(rs[n]))
                         ELSE f[n - 1]
           Solves(f, m) == f = [n \in 0..m |-> Body(f, n)]
           Unsolved == {m \in 0..Len(rs) : ~ \E f : Solves(f, m)}
<1>1. \E f : Solves(f, 0)
  <2>1. Solves([n \in 0..0 |-> <<>>], 0)
    OBVIOUS
  <2> QED
    BY <2>1
<1>2. ASSUME NEW m \in Nat, NEW f, Solves(f, m)
      PROVE  \E g : Solves(g, m + 1)
  <2> DEFINE g == [n \in 0..(m + 1) |-> IF n = m + 1 THEN Body(f, m + 1) ELSE f[n]]
  <2>1. \A n \in 1..(m + 1) : g[n - 1] = f[n - 1]
    BY SMT
  <2>2. \A n \in 0..(m + 1) : Body(g, n) = Body(f, n)
    <3>1. \A n \in 0..(m + 1) : n # 0 => n \in 1..(m + 1)
      OBVIOUS
    <3> HIDE DEF g
    <3> QED BY <2>1, <3>1
  <2>3. \A n \in 0..m : f[n] = Body(f, n)
    <3> HIDE DEF Body
    <3> QED BY <1>2, Zenon
  <2>4. \A n \in 0..(m + 1) : n # m + 1 => n \in 0..m
    OBVIOUS
  <2>5. \A n \in 0..(m + 1) : g[n] = Body(g, n)
    <3> HIDE DEF Body
    <3>1. ASSUME NEW n \in 0..(m + 1) PROVE g[n] = Body(f, n)
      BY <2>3, <2>4
    <3> HIDE DEF g
    <3> QED BY <2>2, <3>1
  <2>6. g = [n \in 0..(m + 1) |-> g[n]]
    OBVIOUS
  <2>7. Solves(g, m + 1)
    <3> HIDE DEF Body, g
    <3> QED BY <2>5, <2>6
  <2> QED
    BY <2>7
<1> HIDE DEF Solves
<1>3. Unsolved = {}
  <2> SUFFICES ASSUME Unsolved # {} PROVE FALSE
    OBVIOUS
  <2>1. PICK m \in Unsolved : \A k \in Unsolved : m <= k
    <3>1. Unsolved \subseteq Nat
      OBVIOUS
    <3> QED BY <3>1, LeastNatural
  <2>2. m # 0 /\ m \in 0..Len(rs)
    BY <1>1, <2>1
  <2>3. m - 1 \in 0..Len(rs) /\ m - 1 \in Nat /\ ~ (m <= m - 1)
    BY <2>2
  <2>4. \E f : Solves(f, m - 1)
    BY <2>1, <2>3
  <2>5. \E g : Solves(g, (m - 1) + 1)
    BY <1>2, <2>3, <2>4
  <2> QED
    BY <2>1, <2>2, <2>5
<1>4. \E f : Solves(f, Len(rs))
  BY <1>3
<1>5. Solves(AlertsUpTo(rs), Len(rs))
  BY <1>4 DEF AlertsUpTo, Solves
<1>6. \A n \in 0..Len(rs) : AlertsUpTo(rs)[n] = Body(AlertsUpTo(rs), n)
  <2> HIDE DEF Body
  <2> QED BY <1>5, Zenon DEF Solves
<1> QED
  BY <1>6

\* The results that raised an alert among the first n.
Raising(rs, n) == {i \in 1..n : rs[i].alert_emitted}

\* The list is one alert for each result that raised one, in their order.
ListsAlerts(built, rs, n) ==
  /\ built \in Seq({Alert(rs[k]) : k \in Raising(rs, n)})
  /\ Len(built) = Cardinality(Raising(rs, n))
  /\ \A k \in Raising(rs, n) : \E j \in 1..Len(built) : built[j] = Alert(rs[k])
  /\ \A i, j \in 1..Len(built) : i < j =>
       \E k, l \in Raising(rs, n) : k < l /\ built[i] = Alert(rs[k]) /\ built[j] = Alert(rs[l])

LEMMA NothingListed ==
  ASSUME NEW rs
  PROVE  ListsAlerts(<<>>, rs, 0)
<1>1. Raising(rs, 0) = {}
  BY DEF Raising
<1>2. Cardinality({}) = 0
  BY FS_EmptySet
<1>3. <<>> \in Seq({Alert(rs[k]) : k \in {}}) /\ Len(<<>>) = 0
  BY EmptySeq
<1>4. 1..0 = {}
  OBVIOUS
<1> QED
  BY <1>1, <1>2, <1>3, <1>4 DEF ListsAlerts

\* A result that raised no alert leaves the list.
LEMMA NothingToList ==
  ASSUME NEW rs, NEW n \in Nat \ {0}, n \notin Raising(rs, n),
         NEW built, ListsAlerts(built, rs, n - 1)
  PROVE  ListsAlerts(built, rs, n)
<1>1. Raising(rs, n) = Raising(rs, n - 1)
  BY DEF Raising
<1> QED
  BY <1>1 DEF ListsAlerts

\* A result that raised one appends to it.
LEMMA OneMoreListed ==
  ASSUME NEW rs, NEW n \in Nat \ {0}, n \in Raising(rs, n),
         NEW built, ListsAlerts(built, rs, n - 1)
  PROVE  ListsAlerts(Append(built, Alert(rs[n])), rs, n)
<1> DEFINE longer == Append(built, Alert(rs[n]))
           Before == {Alert(rs[k]) : k \in Raising(rs, n - 1)}
           Now == {Alert(rs[k]) : k \in Raising(rs, n)}
<1>1. /\ Raising(rs, n) = Raising(rs, n - 1) \cup {n} /\ n \notin Raising(rs, n - 1)
      /\ \A k \in Raising(rs, n - 1) : k \in Int /\ k < n
  BY DEF Raising
<1>2. Cardinality(Raising(rs, n)) = Cardinality(Raising(rs, n - 1)) + 1
  <2>1. IsFiniteSet(Raising(rs, n - 1))
    <3>1. IsFiniteSet(1..(n - 1))
      BY FS_Interval
    <3> QED
      BY <3>1, FS_Subset DEF Raising
  <2> QED
    BY <1>1, <2>1, FS_AddElement
<1>3. Before \subseteq Now /\ Alert(rs[n]) \in Now
  BY <1>1
<1>4. built \in Seq(Before) /\ Len(built) \in Nat /\ \A i \in 1..Len(built) : built[i] \in Before
  BY LenProperties, ElementOfSeq DEF ListsAlerts
<1> HIDE DEF Before, Now
<1>5. built \in Seq(Now)
  BY <1>3, <1>4, SeqMonotonic
<1>6. /\ longer \in Seq(Now) /\ Len(longer) = Len(built) + 1
      /\ \A i \in 1..Len(built) : longer[i] = built[i]
      /\ longer[Len(built) + 1] = Alert(rs[n])
  BY <1>3, <1>5, AppendProperties
<1> HIDE DEF longer
<1>7. \A k \in Raising(rs, n) : \E j \in 1..Len(longer) : longer[j] = Alert(rs[k])
  <2>1. Len(built) + 1 \in 1..Len(longer) /\ \A j \in 1..Len(built) : j \in 1..Len(longer)
    BY <1>4, <1>6
  <2>2. \A k \in Raising(rs, n - 1) : \E j \in 1..Len(built) : built[j] = Alert(rs[k])
    BY DEF ListsAlerts
  <2> QED
    BY <1>1, <1>6, <2>1, <2>2
<1>8. ASSUME NEW i \in 1..Len(longer), NEW j \in 1..Len(longer), i < j
      PROVE  \E k, l \in Raising(rs, n) :
               k < l /\ longer[i] = Alert(rs[k]) /\ longer[j] = Alert(rs[l])
  <2>1. i \in 1..Len(built)
    BY <1>4, <1>6, <1>8
  <2>2. CASE j \in 1..Len(built)
    <3>1. \E k, l \in Raising(rs, n - 1) : k < l /\ built[i] = Alert(rs[k]) /\ built[j] = Alert(rs[l])
      BY <1>8, <2>1, <2>2 DEF ListsAlerts
    <3> QED
      BY <1>1, <1>6, <2>1, <2>2, <3>1
  <2>3. CASE j = Len(built) + 1
    <3>1. PICK k \in Raising(rs, n - 1) : built[i] = Alert(rs[k])
      BY <1>4, <2>1 DEF Before
    <3> QED
      BY <1>1, <1>6, <2>1, <2>3, <3>1
  <2> QED
    BY <1>4, <1>6, <2>2, <2>3
<1>9. Len(longer) = Cardinality(Raising(rs, n))
  BY <1>2, <1>6 DEF ListsAlerts
<1> QED
  BY <1>6, <1>7, <1>8, <1>9 DEF ListsAlerts, longer, Now

\* The alerts of the artifact: one for each result that raised one, in their order,
\* and nothing else (alert_output.py:43-62).
THEOREM AlertsListed ==
  ASSUME NEW S, NEW rs \in Seq(S)
  PROVE  ListsAlerts(AlertsOf(rs), rs, Len(rs))
<1> DEFINE A == AlertsUpTo(rs)
           Failing == {n \in 0..Len(rs) : ~ ListsAlerts(A[n], rs, n)}
<1>1. Len(rs) \in Nat
  BY LenProperties
<1>2. /\ A[0] = <<>>
      /\ \A n \in 1..Len(rs) : A[n] = IF rs[n].alert_emitted
                                      THEN Append(A[n - 1], Alert(rs[n]))
                                      ELSE A[n - 1]
  BY <1>1, AlertsUpToStep
<1> HIDE DEF A
<1>3. ASSUME NEW n \in 1..Len(rs), ListsAlerts(A[n - 1], rs, n - 1)
      PROVE  ListsAlerts(A[n], rs, n)
  <2>1. n \in Nat \ {0}
    BY <1>1
  <2>2. n \in Raising(rs, n) <=> rs[n].alert_emitted
    BY <2>1 DEF Raising
  <2>3. A[n] = IF n \in Raising(rs, n) THEN Append(A[n - 1], Alert(rs[n])) ELSE A[n - 1]
    BY <1>2, <2>2
  <2> QED
    BY <1>3, <2>1, <2>3, NothingToList, OneMoreListed
<1>4. Failing = {}
  <2> SUFFICES ASSUME Failing # {} PROVE FALSE
    OBVIOUS
  <2>1. PICK n \in Failing : \A k \in Failing : n <= k
    <3>1. Failing \subseteq Nat
      OBVIOUS
    <3> QED BY <3>1, LeastNatural
  <2>2. n \in 1..Len(rs) /\ n - 1 \in 0..Len(rs) /\ ~ (n <= n - 1)
    BY <1>1, <1>2, <2>1, NothingListed
  <2>3. ListsAlerts(A[n - 1], rs, n - 1)
    BY <2>1, <2>2
  <2> QED
    BY <1>3, <2>1, <2>2, <2>3
<1> QED
  BY <1>1, <1>4 DEF AlertsOf, A
=============================================================================
