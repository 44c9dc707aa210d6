-------------------------- MODULE RollingKpProofs --------------------------
(***************************************************************************)
(* Proofs about RollingKp for every value of its constants: the invariant  *)
(* of the deque, the seen set and the armed flag, that they implement the  *)
(* alert rule of KpAlertRule, and what that rule says of the whole past.   *)
(***************************************************************************)
EXTENDS RollingKp, SequenceTheorems, FiniteSetTheorems, WellFoundedInduction, TLAPS

-----------------------------------------------------------------------------
(* Minima, maxima and the window operators.                                *)

\* Min of a non-empty set of naturals is its least element.
LEMMA MinOfNaturals ==
  ASSUME NEW S, S \subseteq Nat, S # {}
  PROVE  Min(S) \in S /\ \A y \in S : Min(S) <= y
<1>1. \E x \in S : \A y \in S : ~ (<<y, x>> \in OpToRel(<, Nat))
  BY NatLessThanWellFounded, WFMin
<1>2. \A x, y \in S : ~ (<<y, x>> \in OpToRel(<, Nat)) => x <= y
  BY DEF OpToRel
<1>3. \E x \in S : \A y \in S : x <= y
  BY <1>1, <1>2
<1> QED
  BY <1>3 DEF Min

\* Max of a non-empty set of Kp values is its greatest element.
LEMMA MaxOfKpValues ==
  ASSUME NEW S, S \subseteq KpValues, S # {}
  PROVE  Max(S) \in S /\ \A y \in S : y <= Max(S)
<1> DEFINE T == {KpMax - k : k \in S}
<1>1. S \subseteq 0..KpMax /\ KpMax \in Nat
  BY ConstantsAssumption
<1>2. T \subseteq Nat /\ T # {}
  <2>1. \A k \in S : KpMax - k \in Nat
    BY <1>1, SMT
  <2> QED
    BY <2>1, Zenon
<1>3. Min(T) \in T /\ \A y \in T : Min(T) <= y
  BY <1>2, MinOfNaturals
<1>4. PICK k \in S : Min(T) = KpMax - k
  BY <1>3
<1>5. ASSUME NEW y \in S PROVE y <= k
  <2>1. KpMax - y \in T
    OBVIOUS
  <2>2. KpMax - k <= KpMax - y
    BY <1>3, <1>4, <2>1
  <2> QED
    BY <1>1, <2>2, SMT
<1> QED
  BY <1>1, <1>5 DEF Max

\* What the properties say of a deque: strictly older to newer.
Increasing(q) == \A i, j \in DOMAIN q : i < j => q[i].time_tag < q[j].time_tag

\* The events a deque holds.
Elements(q) == {q[i] : i \in DOMAIN q}

\* The fields of an event are integers of the declared ranges.
LEMMA EventFields ==
  ASSUME NEW e \in KpEvents
  PROVE  /\ e.time_tag \in TimeTags /\ e.time_tag \in Int
         /\ e.kp_value \in KpValues /\ e.kp_value \in Int
<1>1. e.time_tag \in TimeTags /\ e.kp_value \in KpValues
  BY DEF KpEvents
<1>2. TimeTags \subseteq Int /\ KpValues \subseteq Int
  <2>1. \A k \in 0..KpMax : k \in Int
    BY ConstantsAssumption
  <2> QED
    BY <2>1, ConstantsAssumption, Zenon
<1> QED
  BY <1>1, <1>2

\* rolling_max of a non-empty deque is the greatest Kp value in it.
LEMMA RollingMaxProperties ==
  ASSUME NEW q \in Seq(KpEvents), q # <<>>
  PROVE  /\ RollingMax(q) \in KpValues
         /\ \E i \in DOMAIN q : q[i].kp_value = RollingMax(q)
         /\ \A i \in DOMAIN q : q[i].kp_value <= RollingMax(q)
<1> DEFINE S == {q[i].kp_value : i \in DOMAIN q}
<1>1. DOMAIN q = 1..Len(q) /\ Len(q) \in Nat \ {0}
  BY LenProperties, EmptySeq
<1>2. \A i \in DOMAIN q : q[i] \in KpEvents
  BY <1>1, ElementOfSeq
<1>3. S \subseteq KpValues
  BY <1>2, EventFields
<1>4. q[1].kp_value \in S
  BY <1>1
<1>5. Max(S) \in S /\ \A y \in S : y <= Max(S)
  <2> HIDE DEF S
  <2> QED BY <1>3, <1>4, MaxOfKpValues
<1>6. RollingMax(q) = Max(S)
  BY DEF RollingMax
<1> QED
  BY <1>3, <1>5, <1>6

\* The label is elevated exactly when some event of the deque reaches the
\* threshold, and normal otherwise.
LEMMA RiskLabelProperties ==
  ASSUME NEW q \in Seq(KpEvents)
  PROVE  /\ RiskLabel(q) \in Labels
         /\ RiskLabel(q) = "elevated" <=> \E i \in DOMAIN q : q[i].kp_value >= Threshold
         /\ RiskLabel(q) = "normal" <=> \A i \in DOMAIN q : q[i].kp_value < Threshold
<1>1. \A i \in DOMAIN q : q[i].kp_value \in Int
  BY ElementOfSeq, LenProperties, EventFields
<1>2. CASE q = <<>>
  BY <1>2 DEF RiskLabel, Labels
<1>3. CASE q # <<>>
  <2>1. /\ RollingMax(q) \in Int
        /\ \E i \in DOMAIN q : q[i].kp_value = RollingMax(q)
        /\ \A i \in DOMAIN q : q[i].kp_value <= RollingMax(q)
    <3>1. \A k \in KpValues : k \in Int
      BY ConstantsAssumption
    <3> QED
      BY <1>3, <3>1, RollingMaxProperties
  <2>2. Threshold \in Int
    BY ConstantsAssumption
  <2>3. RollingMax(q) >= Threshold <=> \E i \in DOMAIN q : q[i].kp_value >= Threshold
    BY <1>1, <2>1, <2>2
  <2>4. (\A i \in DOMAIN q : q[i].kp_value < Threshold)
          <=> ~ \E i \in DOMAIN q : q[i].kp_value >= Threshold
    BY <1>1, <2>2
  <2> QED
    BY <1>3, <2>3, <2>4 DEF RiskLabel, Labels
<1> QED
  BY <1>2, <1>3

\* On an increasing deque the popleft loop keeps exactly the events that are
\* not older than the cutoff, in their order.
LEMMA EvictProperties ==
  ASSUME NEW q \in Seq(KpEvents), Increasing(q), NEW cutoff \in Int
  PROVE  /\ Evict(q, cutoff) \in Seq(KpEvents)
         /\ Increasing(Evict(q, cutoff))
         /\ Elements(Evict(q, cutoff)) = {x \in Elements(q) : x.time_tag >= cutoff}
<1> DEFINE K == KeptIndices(q, cutoff) \cup {Len(q) + 1}
           m == Min(K)
           n == Len(q)
           r == SubSeq(q, m, n)
<1>1. DOMAIN q = 1..n /\ n \in Nat
  BY LenProperties
<1>2. \A i \in 1..n : q[i] \in KpEvents /\ q[i].time_tag \in Int
  BY ElementOfSeq, EventFields
<1>3. K \subseteq Nat /\ K # {}
  BY <1>1 DEF KeptIndices
<1>4. m \in K /\ \A y \in K : m <= y
  <2> HIDE DEF K
  <2> QED BY <1>3, MinOfNaturals
<1>5. m \in 1..(n + 1)
  BY <1>1, <1>4 DEF KeptIndices
<1> HIDE DEF m, K
<1>6. \A i \in 1..n : i < m => q[i].time_tag < cutoff
  <2> SUFFICES ASSUME NEW i \in 1..n, i < m, ~ (q[i].time_tag < cutoff)
               PROVE  FALSE
    OBVIOUS
  <2>1. i \in K
    BY <1>1, <1>2 DEF KeptIndices, K
  <2>2. m <= i
    BY <1>4, <2>1
  <2> QED
    BY <1>1, <1>5, <2>2
<1>7. \A i \in 1..n : m <= i => q[i].time_tag >= cutoff
  <2> SUFFICES ASSUME NEW i \in 1..n, m <= i
               PROVE  q[i].time_tag >= cutoff
    OBVIOUS
  <2>1. m \in 1..n
    BY <1>1, <1>5
  <2>2. q[m].time_tag >= cutoff
    BY <1>1, <1>4, <2>1 DEF KeptIndices, K
  <2> QED
    BY <1>1, <1>2, <2>1, <2>2 DEF Increasing
<1>8. /\ r \in Seq(KpEvents)
      /\ Len(r) = n - m + 1
      /\ \A i \in 1..(n - m + 1) : r[i] = q[m + i - 1]
  <2>1. \A i \in m..n : q[i] \in KpEvents
    BY <1>1, <1>2, <1>5
  <2>2. m \in Int /\ n \in Int /\ m <= n + 1
    BY <1>1, <1>5
  <2>3. /\ r \in Seq(KpEvents)
        /\ Len(r) = IF m <= n THEN n - m + 1 ELSE 0
        /\ \A i \in 1..(n - m + 1) : r[i] = q[m + i - 1]
    BY <2>1, <2>2, SubSeqProperties
  <2> HIDE DEF r
  <2> QED
    BY <1>1, <2>2, <2>3
<1> HIDE DEF r
<1>9. DOMAIN r = 1..(n - m + 1)
  BY <1>8, LenProperties
<1>10. Increasing(r)
  <2> SUFFICES ASSUME NEW i \in DOMAIN r, NEW j \in DOMAIN r, i < j
               PROVE  r[i].time_tag < r[j].time_tag
    BY DEF Increasing
  <2>1. m + i - 1 \in 1..n /\ m + j - 1 \in 1..n /\ m + i - 1 < m + j - 1
    BY <1>1, <1>5, <1>9
  <2> QED
    BY <1>1, <1>8, <1>9, <2>1 DEF Increasing
<1>11. Elements(r) = {x \in Elements(q) : x.time_tag >= cutoff}
  <2>1. ASSUME NEW i \in DOMAIN r
        PROVE  r[i] \in Elements(q) /\ r[i].time_tag >= cutoff
    <3>1. m + i - 1 \in 1..n /\ m <= m + i - 1
      BY <1>1, <1>5, <1>9
    <3> QED
      BY <1>1, <1>7, <1>8, <1>9, <3>1 DEF Elements
  <2>2. ASSUME NEW i \in DOMAIN q, q[i].time_tag >= cutoff
        PROVE  q[i] \in Elements(r)
    <3>1. m <= i
      <4>1. ~ (i < m)
        BY <1>1, <1>2, <1>6, <2>2
      <4> QED
        BY <1>1, <1>5, <4>1
    <3>2. i - m + 1 \in DOMAIN r /\ m + (i - m + 1) - 1 = i
      BY <1>1, <1>5, <1>9, <3>1
    <3>3. r[i - m + 1] = q[i]
      BY <1>8, <1>9, <3>2
    <3> QED
      BY <3>2, <3>3 DEF Elements
  <2> QED
    BY <2>1, <2>2 DEF Elements
<1>12. Evict(q, cutoff) = r
  BY DEF Evict, r, m, K
<1> QED
  BY <1>8, <1>10, <1>11, <1>12
-----------------------------------------------------------------------------
(* The list of results.                                                    *)

\* One call of process() appends one result: the earlier results keep their
\* place, and each set of positions grows by the new position or stays.
LEMMA AppendedResult ==
  ASSUME results \in Seq(Results), NEW r \in Results, results' = Append(results, r)
  PROVE  /\ results' \in Seq(Results)
         /\ Len(results) \in Nat
         /\ Len(results') = Len(results) + 1
         /\ DOMAIN results = 1..Len(results)
         /\ DOMAIN results' = 1..(Len(results) + 1)
         /\ \A i \in 1..Len(results) : results'[i] = results[i]
         /\ results'[Len(results) + 1] = r
         /\ \A s : WithStatus(s)' = IF r.status = s
                                    THEN WithStatus(s) \cup {Len(results) + 1}
                                    ELSE WithStatus(s)
         /\ Alerting' = IF r.alert_emitted THEN Alerting \cup {Len(results) + 1}
                        ELSE Alerting
<1> DEFINE n == Len(results)
<1>1. /\ results' \in Seq(Results)
      /\ Len(results') = n + 1
      /\ \A i \in 1..n : results'[i] = results[i]
      /\ results'[n + 1] = r
  BY AppendProperties
<1>2. n \in Nat /\ DOMAIN results = 1..n /\ DOMAIN results' = 1..(n + 1)
  BY <1>1, LenProperties
<1>3. 1..(n + 1) = (1..n) \cup {n + 1}
  BY <1>2
<1> HIDE DEF n
<1>4. ASSUME NEW s
      PROVE  WithStatus(s)' = IF r.status = s THEN WithStatus(s) \cup {n + 1}
                              ELSE WithStatus(s)
  BY <1>1, <1>2, <1>3 DEF WithStatus
<1>5. Alerting' = IF r.alert_emitted THEN Alerting \cup {n + 1} ELSE Alerting
  BY <1>1, <1>2, <1>3 DEF Alerting
<1> QED
  BY <1>1, <1>2, <1>4, <1>5 DEF n

-----------------------------------------------------------------------------
(* The inductive invariant.                                                *)

\* The seen set is exactly the set of accepted time tags.
SeenExact == seen_time_tags = {Tag(i) : i \in Accepted}

\* latest_time_tag is the greatest accepted time tag.
LatestExact ==
  IF latest_time_tag = None
  THEN Accepted = {}
  ELSE /\ \E i \in Accepted : Tag(i) = latest_time_tag
       /\ \A i \in Accepted : Tag(i) <= latest_time_tag

\* Accepted events are in strictly increasing time order.
AcceptedIncreasing == \A i, j \in Accepted : i < j => Tag(i) < Tag(j)

\* While alerts are disarmed a storm is under way: it began with an alert and
\* every event accepted since is labelled elevated.
StormUnderWay ==
  ~ alert_armed =>
    \E i \in Alerting : \A k \in Accepted : i <= k => results[k].risk_label = "elevated"

\* TypeOK is not inductive alone: that a skipped result has a rolling maximum
\* needs the window to be non-empty once an event has been accepted.
WindowInv ==
  /\ TypeOK
  /\ SeenExact
  /\ LatestExact
  /\ AcceptedIncreasing
  /\ WindowExact

AlertInv ==
  /\ ArmedIffQuiet
  /\ AlertIsPeak
  /\ AlertSpacing
  /\ StormUnderWay
  /\ StormReported

IdentityInv ==
  /\ AcceptedIffNewest
  /\ DuplicateIffAcceptedBefore

IInv == WindowInv /\ AlertInv /\ IdentityInv /\ CountsAgree

\* Initially everything is empty and alerts are armed.
LEMMA InitIInv == Init => IInv
<1> SUFFICES ASSUME Init PROVE IInv
  OBVIOUS
<1>1. /\ results = <<>> /\ events = <<>> /\ DOMAIN results = {} /\ DOMAIN events = {}
      /\ \A s : WithStatus(s) = {}
      /\ Accepted = {} /\ Alerting = {}
  BY DEF Init, Accepted, Alerting, WithStatus
<1>2. WindowInv
  BY <1>1 DEF Init, WindowInv, TypeOK, SeenExact, LatestExact, AcceptedIncreasing,
              WindowExact
<1>3. AlertInv
  BY <1>1 DEF Init, AlertInv, ArmedIffQuiet, AlertIsPeak, AlertSpacing, StormUnderWay,
              StormReported
<1>4. IdentityInv
  BY <1>1 DEF IdentityInv, AcceptedIffNewest, DuplicateIffAcceptedBefore
<1>5. CountsAgree
  BY <1>1, FS_EmptySet DEF Init, CountsAgree
<1> QED
  BY <1>2, <1>3, <1>4, <1>5 DEF IInv

\* What the invariant says of the indices of the results.
LEMMA AcceptedFacts ==
  ASSUME WindowInv
  PROVE  /\ Accepted \subseteq 1..Len(results)
         /\ Alerting \subseteq 1..Len(results)
         /\ \A i \in DOMAIN results : /\ results[i] \in Results
                                      /\ results[i].event \in KpEvents
                                      /\ Tag(i) \in Int /\ Kp(i) \in Int
<1>1. DOMAIN results = 1..Len(results) /\ \A i \in DOMAIN results : results[i] \in Results
  BY LenProperties, ElementOfSeq DEF WindowInv, TypeOK
<1>2. \A i \in DOMAIN results : results[i].event \in KpEvents
  BY <1>1 DEF Results
<1> QED
  BY <1>1, <1>2, EventFields DEF Accepted, WithStatus, Alerting, Tag, Kp

\* Once an event has been accepted the window is not empty: it holds at least
\* the newest accepted event.
LEMMA WindowNotEmpty ==
  ASSUME WindowInv, Accepted # {}
  PROVE  events # <<>>
<1>1. latest_time_tag # None /\ latest_time_tag \in Int
  BY ConstantsAssumption DEF WindowInv, LatestExact, TypeOK
<1>2. PICK i \in Accepted : Tag(i) = latest_time_tag
  BY <1>1 DEF WindowInv, LatestExact
<1>3. Tag(i) >= latest_time_tag - Window
  BY <1>1, <1>2, ConstantsAssumption
<1>4. results[i].event \in {events[k] : k \in DOMAIN events}
  BY <1>3 DEF WindowInv, WindowExact
<1> QED
  BY <1>4
-----------------------------------------------------------------------------
(* Skipped events.                                                         *)

\* A result computed from the unchanged, non-empty window is well typed.
LEMMA SkippedResultType ==
  ASSUME WindowInv, Accepted # {}, NEW e \in KpEvents, NEW s \in Status
  PROVE  SkippedResult(e, s) \in Results
<1>1. events \in Seq(KpEvents) /\ events # <<>>
  BY WindowNotEmpty DEF WindowInv, TypeOK
<1>2. RollingMax(events) \in KpValues /\ RiskLabel(events) \in Labels
  BY <1>1, RollingMaxProperties, RiskLabelProperties
<1> QED
  BY <1>2 DEF SkippedResult, Results

\* Reporting an event that is not newer than everything accepted, and leaving
\* the window, the seen set, the newest tag and the armed flag as they are,
\* keeps every part of the invariant but the counters.
LEMMA SkipKeepsInvariant ==
  ASSUME IInv, NEW e \in KpEvents, NEW s \in Status \ {"accepted"},
         results' = Append(results, SkippedResult(e, s)),
         UNCHANGED <<events, seen_time_tags, latest_time_tag, alert_armed>>,
         counters' \in Nat \X Nat \X Nat \X Nat, alerts_emitted' \in Nat,
         \E i \in Accepted : Tag(i) >= e.time_tag,
         s = "duplicate_skipped" <=> IsDuplicate(e)
  PROVE  WindowInv' /\ AlertInv' /\ IdentityInv'
<1> DEFINE r == SkippedResult(e, s)
<1>0. PICK n \in Nat : n = Len(results)
  BY LenProperties DEF IInv, WindowInv, TypeOK
<1>1. r \in Results /\ r.status = s /\ r.alert_emitted = FALSE /\ r.event = e
  BY SkippedResultType DEF IInv, SkippedResult
<1>2. results \in Seq(Results)
  BY DEF IInv, WindowInv, TypeOK
<1>3. /\ results' \in Seq(Results)
      /\ n \in Nat /\ DOMAIN results = 1..n /\ DOMAIN results' = 1..(n + 1)
      /\ \A i \in 1..n : results'[i] = results[i]
      /\ results'[n + 1] = r
      /\ Accepted' = Accepted
      /\ Alerting' = Alerting
  <2> HIDE DEF r
  <2>1. /\ results' \in Seq(Results)
        /\ n \in Nat /\ DOMAIN results = 1..n /\ DOMAIN results' = 1..(n + 1)
        /\ \A i \in 1..n : results'[i] = results[i]
        /\ results'[n + 1] = r
        /\ \A t : WithStatus(t)' = IF r.status = t THEN WithStatus(t) \cup {n + 1}
                                   ELSE WithStatus(t)
        /\ Alerting' = IF r.alert_emitted THEN Alerting \cup {n + 1} ELSE Alerting
    <3>1. results' = Append(results, r)
      BY DEF r
    <3> QED
      BY <1>0, <1>1, <1>2, <3>1, AppendedResult
  <2> QED
    BY <1>1, <2>1 DEF Accepted
<1> HIDE DEF r
<1>4. /\ Accepted \subseteq 1..n /\ Alerting \subseteq 1..n
      /\ \A i \in 1..n : Tag(i) \in Int /\ Kp(i) \in Int
  BY <1>0, <1>3, AcceptedFacts DEF IInv
<1>5. \A i \in 1..n : Tag(i)' = Tag(i) /\ Kp(i)' = Kp(i) /\ results'[i] = results[i]
  BY <1>3 DEF Tag, Kp
<1>10. \A i \in Accepted : i \in 1..n /\ i < n + 1
  <2>1. \A i \in 1..n : i < n + 1
    BY <1>0
  <2> QED
    BY <1>4, <2>1
<1>6. Tag(n + 1)' = e.time_tag
  BY <1>1, <1>3 DEF Tag
<1>7. WindowInv'
  <2>1. TypeOK'
    BY <1>3 DEF IInv, WindowInv, TypeOK, counters
  <2>2. SeenExact'
    BY <1>3, <1>4, <1>5 DEF IInv, WindowInv, SeenExact
  <2>3. LatestExact'
    BY <1>3, <1>4, <1>5 DEF IInv, WindowInv, LatestExact
  <2>4. AcceptedIncreasing'
    BY <1>3, <1>4, <1>5 DEF IInv, WindowInv, AcceptedIncreasing
  <2>5. WindowExact'
    <3>1. {k \in Accepted : Tag(k) >= latest_time_tag - Window}'
            = {k \in Accepted : Tag(k) >= latest_time_tag - Window}
      BY <1>3, <1>4, <1>5
    <3>2. {results[i].event : i \in {k \in Accepted : Tag(k) >= latest_time_tag - Window}}'
            = {results[i].event : i \in {k \in Accepted : Tag(k) >= latest_time_tag - Window}}
      <4> DEFINE S == {k \in Accepted : Tag(k) >= latest_time_tag - Window}
      <4>1. S' = S /\ S \subseteq 1..n
        BY <1>4, <3>1
      <4> HIDE DEF S
      <4>2. {results'[i].event : i \in S} = {results[i].event : i \in S}
        BY <1>3, <4>1
      <4> QED
        BY <4>1, <4>2 DEF S
    <3> QED
      BY <3>2 DEF IInv, WindowInv, WindowExact
  <2> QED
    BY <2>1, <2>2, <2>3, <2>4, <2>5 DEF WindowInv
<1>8. AlertInv'
  <2>1. ArmedIffQuiet'
    BY DEF IInv, AlertInv, ArmedIffQuiet
  <2>2. AlertIsPeak'
    BY <1>3, <1>4, <1>5 DEF IInv, AlertInv, AlertIsPeak
  <2>3. AlertSpacing'
    BY <1>3, <1>4, <1>5 DEF IInv, AlertInv, AlertSpacing
  <2>4. StormUnderWay'
    BY <1>3, <1>4 DEF IInv, AlertInv, StormUnderWay
  <2>5. StormReported'
    <3> SUFFICES ASSUME NEW j \in Accepted, Kp(j) >= Threshold
                 PROVE  \E i \in Alerting :
                           /\ i <= j
                           /\ \A k \in Accepted :
                                i <= k /\ k <= j => results'[k].risk_label = "elevated"
      BY <1>3, <1>5, <1>10 DEF StormReported
    <3>1. PICK i \in Alerting :
            /\ i <= j
            /\ \A k \in Accepted : i <= k /\ k <= j => results[k].risk_label = "elevated"
      BY DEF IInv, AlertInv, StormReported
    <3> QED
      BY <1>5, <1>10, <3>1
  <2> QED
    BY <2>1, <2>2, <2>3, <2>4, <2>5 DEF AlertInv
<1>9. IdentityInv'
  <2>1. AcceptedIffNewest'
    <3>1. ASSUME NEW j \in 1..n
          PROVE  (j \in Accepted <=> \A i \in Accepted : i < j => Tag(i) < Tag(j))'
      BY <1>3, <1>4, <1>5 DEF IInv, IdentityInv, AcceptedIffNewest
    <3>2. (n + 1 \in Accepted <=> \A i \in Accepted : i < n + 1 => Tag(i) < Tag(n + 1))'
      <4>1. PICK i \in Accepted : Tag(i) >= e.time_tag
        OBVIOUS
      <4>2. i < n + 1 /\ i \in Accepted' /\ ~ (Tag(i)' < Tag(n + 1)') /\ n + 1 \notin Accepted'
        <5>1. e.time_tag \in Int
          BY EventFields
        <5>2. Tag(i) \in Int /\ Tag(i)' = Tag(i) /\ i < n + 1 /\ i \in Accepted'
          BY <1>3, <1>4, <1>5, <1>10
        <5>3. ~ (Tag(i)' < Tag(n + 1)')
          BY <1>6, <4>1, <5>1, <5>2
        <5>4. n + 1 \notin 1..n
          BY <1>0
        <5> QED
          BY <1>3, <1>4, <5>2, <5>3, <5>4
      <4> QED
        BY <4>2
    <3> QED
      BY <1>3, <3>1, <3>2 DEF AcceptedIffNewest
  <2>2. DuplicateIffAcceptedBefore'
    <3>1. ASSUME NEW j \in 1..n
          PROVE  (results[j].status = "duplicate_skipped"
                    <=> \E i \in Accepted : i < j /\ Tag(i) = Tag(j))'
      <4>1. results[j].status = "duplicate_skipped"
              <=> \E i \in Accepted : i < j /\ Tag(i) = Tag(j)
        BY <1>3 DEF IInv, IdentityInv, DuplicateIffAcceptedBefore
      <4>2. (\E i \in Accepted : i < j /\ Tag(i) = Tag(j))
              <=> (\E i \in Accepted' : i < j /\ Tag(i)' = Tag(j)')
        BY <1>3, <1>5, <1>10
      <4> QED
        BY <1>3, <4>1, <4>2
    <3>2. (results[n + 1].status = "duplicate_skipped"
             <=> \E i \in Accepted : i < n + 1 /\ Tag(i) = Tag(n + 1))'
      <4>1. IsDuplicate(e) <=> \E i \in Accepted : Tag(i) = e.time_tag
        BY DEF IInv, WindowInv, SeenExact, IsDuplicate
      <4>2. results'[n + 1].status = s
        BY <1>1, <1>3
      <4>3. \A i \in Accepted : i < n + 1
        BY <1>10
      <4> QED
        BY <1>3, <1>10, <1>5, <1>6, <4>1, <4>2, <4>3
    <3> QED
      BY <1>3, <3>1, <3>2 DEF DuplicateIffAcceptedBefore
  <2> QED
    BY <2>1, <2>2 DEF IdentityInv
<1> QED
  BY <1>7, <1>8, <1>9

\* An event that is a duplicate or late is not newer than everything accepted.
LEMMA SkippedIsNotNewest ==
  ASSUME WindowInv, NEW e \in KpEvents, IsDuplicate(e) \/ IsLate(e)
  PROVE  \E i \in Accepted : Tag(i) >= e.time_tag
<1>1. e.time_tag \in Int
  BY EventFields
<1>2. CASE IsDuplicate(e)
  BY <1>1, <1>2 DEF WindowInv, SeenExact, IsDuplicate
<1>3. CASE IsLate(e)
  <2>1. latest_time_tag \in Int
    BY <1>3, ConstantsAssumption DEF IsLate, WindowInv, TypeOK
  <2> QED
    BY <1>1, <1>3, <2>1 DEF IsLate, WindowInv, LatestExact
<1> QED
  BY <1>2, <1>3

\* The counters of a skipped event move with the positions of its status.
LEMMA SkipKeepsCounts ==
  ASSUME IInv, NEW e \in KpEvents, NEW s \in Status \ {"accepted"},
         results' = Append(results, SkippedResult(e, s)),
         messages_seen' = messages_seen + 1,
         accepted_count' = accepted_count, alerts_emitted' = alerts_emitted,
         duplicate_count' = IF s = "duplicate_skipped" THEN duplicate_count + 1
                            ELSE duplicate_count,
         late_count' = IF s = "late_event_skipped" THEN late_count + 1 ELSE late_count,
         Accepted # {}
  PROVE  CountsAgree'
<1> DEFINE r == SkippedResult(e, s)
<1>1. r \in Results /\ r.status = s /\ r.alert_emitted = FALSE
  BY SkippedResultType DEF IInv, SkippedResult
<1>2. results \in Seq(Results)
  BY DEF IInv, WindowInv, TypeOK
<1>3. results' = Append(results, r)
  OBVIOUS
<1> HIDE DEF r
<1>0. PICK n \in Nat : n = Len(results)
  BY <1>2, LenProperties
<1>4. /\ DOMAIN results = 1..n
      /\ Len(results') = n + 1
      /\ \A t : WithStatus(t)' = IF r.status = t THEN WithStatus(t) \cup {n + 1}
                                 ELSE WithStatus(t)
      /\ Alerting' = Alerting
  BY <1>0, <1>1, <1>2, <1>3, AppendedResult
<1>5. \A t : /\ IsFiniteSet(WithStatus(t))
             /\ n + 1 \notin WithStatus(t)
             /\ Cardinality(WithStatus(t) \cup {n + 1}) = Cardinality(WithStatus(t)) + 1
  <2> SUFFICES ASSUME NEW t
               PROVE  /\ IsFiniteSet(WithStatus(t))
                      /\ n + 1 \notin WithStatus(t)
                      /\ Cardinality(WithStatus(t) \cup {n + 1})
                           = Cardinality(WithStatus(t)) + 1
    OBVIOUS
  <2>1. WithStatus(t) \subseteq 1..n
    BY <1>4 DEF WithStatus
  <2>2. IsFiniteSet(1..n)
    BY <1>0, FS_Interval
  <2>3. IsFiniteSet(WithStatus(t))
    BY <2>1, <2>2, FS_Subset
  <2>4. n + 1 \notin 1..n
    BY <1>0
  <2> QED
    BY <2>1, <2>3, <2>4, FS_AddElement
<1>6. CASE s = "duplicate_skipped"
  BY <1>0, <1>1, <1>4, <1>5, <1>6 DEF IInv, CountsAgree, Accepted
<1>7. CASE s = "late_event_skipped"
  BY <1>0, <1>1, <1>4, <1>5, <1>7 DEF IInv, CountsAgree, Accepted
<1> QED
  BY <1>6, <1>7 DEF Status

\* Skipping a duplicate preserves the inductive invariant (processor.py:124-126).
LEMMA DuplicateStep ==
  ASSUME IInv, NEW e \in KpEvents, ProcessDuplicate(e)
  PROVE  IInv'
<1> DEFINE s == "duplicate_skipped"
<1>1. \E i \in Accepted : Tag(i) >= e.time_tag
  BY SkippedIsNotNewest DEF IInv, ProcessDuplicate
<1>2. /\ s \in Status \ {"accepted"}
      /\ results' = Append(results, SkippedResult(e, s))
      /\ UNCHANGED <<events, seen_time_tags, latest_time_tag, alert_armed>>
      /\ s = "duplicate_skipped" <=> IsDuplicate(e)
  BY DEF ProcessDuplicate, Status
<1>3. counters' \in Nat \X Nat \X Nat \X Nat /\ alerts_emitted' \in Nat
  BY DEF ProcessDuplicate, IInv, WindowInv, TypeOK, counters
<1>4. WindowInv' /\ AlertInv' /\ IdentityInv'
  BY <1>1, <1>2, <1>3, SkipKeepsInvariant
<1>5. CountsAgree'
  <2>1. Accepted # {}
    BY <1>1
  <2> QED
    BY <1>2, <2>1, SkipKeepsCounts DEF ProcessDuplicate
<1> QED
  BY <1>4, <1>5 DEF IInv

\* Skipping a late event preserves the inductive invariant (processor.py:128-130).
LEMMA LateStep ==
  ASSUME IInv, NEW e \in KpEvents, ProcessLate(e)
  PROVE  IInv'
<1> DEFINE s == "late_event_skipped"
<1>1. \E i \in Accepted : Tag(i) >= e.time_tag
  BY SkippedIsNotNewest DEF IInv, ProcessLate
<1>2. /\ s \in Status \ {"accepted"}
      /\ results' = Append(results, SkippedResult(e, s))
      /\ UNCHANGED <<events, seen_time_tags, latest_time_tag, alert_armed>>
      /\ s = "duplicate_skipped" <=> IsDuplicate(e)
  BY DEF ProcessLate, Status
<1>3. counters' \in Nat \X Nat \X Nat \X Nat /\ alerts_emitted' \in Nat
  BY DEF ProcessLate, IInv, WindowInv, TypeOK, counters
<1>4. WindowInv' /\ AlertInv' /\ IdentityInv'
  BY <1>1, <1>2, <1>3, SkipKeepsInvariant
<1>5. CountsAgree'
  <2>1. Accepted # {}
    BY <1>1
  <2> QED
    BY <1>2, <2>1, SkipKeepsCounts DEF ProcessLate
<1> QED
  BY <1>4, <1>5 DEF IInv
-----------------------------------------------------------------------------
(* Accepted events.                                                        *)

\* Neither a duplicate nor late: newer than everything accepted.
LEMMA AcceptedIsNewest ==
  ASSUME WindowInv, NEW e \in KpEvents, ~ IsDuplicate(e), ~ IsLate(e)
  PROVE  /\ \A i \in Accepted : Tag(i) < e.time_tag
         /\ latest_time_tag # None => latest_time_tag \in Int /\ latest_time_tag < e.time_tag
<1>1. e.time_tag \in Int
  BY EventFields
<1>2. CASE latest_time_tag = None
  BY <1>2 DEF WindowInv, LatestExact
<1>3. CASE latest_time_tag # None
  <2>1. latest_time_tag \in Int /\ latest_time_tag <= e.time_tag
    BY <1>1, <1>3, ConstantsAssumption DEF IsLate, WindowInv, TypeOK
  <2>2. PICK l \in Accepted : Tag(l) = latest_time_tag
    BY <1>3 DEF WindowInv, LatestExact
  <2>3. latest_time_tag # e.time_tag
    BY <2>2 DEF IsDuplicate, WindowInv, SeenExact
  <2>4. \A i \in Accepted : Tag(i) \in Int
    BY AcceptedFacts DEF Accepted, WithStatus
  <2>5. \A i \in Accepted : Tag(i) <= latest_time_tag
    BY <1>3 DEF WindowInv, LatestExact
  <2> QED
    BY <1>1, <2>1, <2>3, <2>4, <2>5
<1> QED
  BY <1>2, <1>3

\* The window after an accepted event: the events of the old window, and the
\* new one, that are not older than the new cutoff, still in order.
LEMMA NextWindowProperties ==
  ASSUME WindowInv, NEW e \in KpEvents, ~ IsDuplicate(e), ~ IsLate(e)
  PROVE  /\ NextWindow(e) \in Seq(KpEvents)
         /\ NextWindow(e) # <<>>
         /\ Increasing(NextWindow(e))
         /\ Elements(NextWindow(e)) =
              {x \in Elements(events) \cup {e} : x.time_tag >= e.time_tag - Window}
         /\ e \in Elements(NextWindow(e))
<1> DEFINE q == Append(events, e)
<1>1. events \in Seq(KpEvents) /\ Increasing(events)
  BY DEF WindowInv, TypeOK, WindowExact, Increasing
<1>2. PICK m \in Nat : m = Len(events)
  BY <1>1, LenProperties
<1>3. /\ q \in Seq(KpEvents) /\ Len(q) = m + 1
      /\ DOMAIN events = 1..m /\ DOMAIN q = 1..(m + 1)
      /\ \A i \in 1..m : q[i] = events[i]
      /\ q[m + 1] = e
  BY <1>1, <1>2, AppendProperties, LenProperties
<1> HIDE DEF q
<1>4. \A i \in 1..(m + 1) : i \in 1..m \/ i = m + 1
  BY <1>2
<1>5. Elements(q) = Elements(events) \cup {e}
  <2>1. \A i \in 1..m : i \in 1..(m + 1)
    BY <1>2
  <2>2. m + 1 \in 1..(m + 1)
    BY <1>2
  <2> QED
    BY <1>3, <1>4, <2>1, <2>2 DEF Elements
<1>6. \A i \in 1..m : events[i].time_tag < e.time_tag
  <2>1. \A i \in 1..m : \E k \in Accepted : events[i] = results[k].event
    BY <1>3 DEF WindowInv, WindowExact
  <2> QED
    BY <2>1, AcceptedIsNewest DEF Tag
<1>7. Increasing(q)
  <2> SUFFICES ASSUME NEW i \in 1..(m + 1), NEW j \in 1..(m + 1), i < j
               PROVE  q[i].time_tag < q[j].time_tag
    BY <1>3 DEF Increasing
  <2>1. i \in 1..m
    BY <1>2
  <2>2. CASE j \in 1..m
    BY <1>1, <1>3, <2>1, <2>2 DEF Increasing
  <2>3. CASE j = m + 1
    BY <1>3, <1>6, <2>1, <2>3
  <2> QED
    BY <1>4, <2>2, <2>3
<1>8. e.time_tag \in Int /\ e.time_tag - Window \in Int /\ e.time_tag >= e.time_tag - Window
  BY EventFields, ConstantsAssumption
<1>9. /\ Evict(q, e.time_tag - Window) \in Seq(KpEvents)
      /\ Increasing(Evict(q, e.time_tag - Window))
      /\ Elements(Evict(q, e.time_tag - Window))
           = {x \in Elements(q) : x.time_tag >= e.time_tag - Window}
  BY <1>3, <1>7, <1>8, EvictProperties
<1>10. NextWindow(e) = Evict(q, e.time_tag - Window)
  BY DEF NextWindow, q
<1>11. e \in Elements(NextWindow(e))
  BY <1>5, <1>8, <1>9, <1>10
<1>12. NextWindow(e) # <<>>
  BY <1>11 DEF Elements
<1> QED
  BY <1>5, <1>9, <1>10, <1>11, <1>12

\* The label and the alert decision, in terms of the events of the window. An
\* alert is emitted only when nothing in the old window reaches the threshold,
\* so that the new event does, and is the rolling maximum.
LEMMA EmitsProperties ==
  ASSUME IInv, NEW e \in KpEvents, ~ IsDuplicate(e), ~ IsLate(e)
  PROVE  /\ AcceptedResult(e) \in Results
         /\ RiskLabel(NextWindow(e)) = "normal"
              <=> \A x \in Elements(NextWindow(e)) : x.kp_value < Threshold
         /\ RiskLabel(NextWindow(e)) \in Labels
         /\ e.kp_value >= Threshold => RiskLabel(NextWindow(e)) = "elevated"
         /\ Emits(e) => /\ \A x \in Elements(events) : x.kp_value < Threshold
                        /\ e.kp_value >= Threshold
                        /\ RollingMax(NextWindow(e)) = e.kp_value
<1> DEFINE q == NextWindow(e)
<1>1. /\ q \in Seq(KpEvents) /\ q # <<>>
      /\ Elements(q) \subseteq Elements(events) \cup {e}
      /\ e \in Elements(q)
  BY NextWindowProperties DEF IInv
<1> HIDE DEF q
<1>2. /\ RollingMax(q) \in KpValues
      /\ \E x \in Elements(q) : x.kp_value = RollingMax(q)
      /\ \A x \in Elements(q) : x.kp_value <= RollingMax(q)
  BY <1>1, RollingMaxProperties DEF Elements
<1>3. /\ RiskLabel(q) \in Labels
      /\ RiskLabel(q) = "elevated" <=> \E x \in Elements(q) : x.kp_value >= Threshold
      /\ RiskLabel(q) = "normal" <=> \A x \in Elements(q) : x.kp_value < Threshold
  BY <1>1, RiskLabelProperties DEF Elements
<1>4. \A k \in KpValues : k \in Int
  BY ConstantsAssumption
<1>5. AcceptedResult(e) \in Results
  <2>1. Emits(e) \in BOOLEAN
    BY DEF Emits, IInv, WindowInv, TypeOK
  <2> QED
    BY <1>2, <1>3, <2>1 DEF AcceptedResult, Results, Status, q
<1>6. ASSUME Emits(e)
      PROVE  /\ \A x \in Elements(events) : x.kp_value < Threshold
             /\ e.kp_value >= Threshold
             /\ RollingMax(q) = e.kp_value
  <2>1. \A x \in Elements(events) : x.kp_value < Threshold
    BY <1>6 DEF Emits, IInv, AlertInv, ArmedIffQuiet, Elements
  <2>2. \A x \in Elements(q) : x.kp_value \in Int
    <3>1. \A i \in DOMAIN q : q[i] \in KpEvents
      BY <1>1, LenProperties, ElementOfSeq
    <3> QED
      BY <3>1, EventFields DEF Elements
  <2>3. e.kp_value >= Threshold
    <3>1. PICK x \in Elements(q) : x.kp_value >= Threshold
      BY <1>3, <1>6 DEF Emits, q
    <3> QED
      BY <1>1, <2>1, <2>2, <3>1, ConstantsAssumption
  <2>4. RollingMax(q) = e.kp_value
    <3>1. PICK x \in Elements(q) : x.kp_value = RollingMax(q)
      BY <1>2
    <3>2. e.kp_value <= RollingMax(q)
      BY <1>1, <1>2
    <3>3. CASE x = e
      BY <3>1, <3>3
    <3>4. CASE x \in Elements(events)
      BY <1>1, <2>1, <2>2, <2>3, <3>1, <3>2, <3>4, ConstantsAssumption
    <3> QED
      BY <1>1, <3>1, <3>3, <3>4
  <2> QED
    BY <2>1, <2>3, <2>4
<1> QED
  BY <1>1, <1>3, <1>5, <1>6 DEF q

\* Accepting an event preserves the inductive invariant (processor.py:132-155).
LEMMA AcceptedStep ==
  ASSUME IInv, NEW e \in KpEvents, ProcessAccepted(e)
  PROVE  IInv'
<1> DEFINE r == AcceptedResult(e)
<1>1. results \in Seq(Results)
  BY DEF IInv, WindowInv, TypeOK
<1>2. PICK n \in Nat : n = Len(results)
  BY <1>1, LenProperties
<1>3. ~ IsDuplicate(e) /\ ~ IsLate(e) /\ results' = Append(results, r)
  BY DEF ProcessAccepted
<1>4. /\ r \in Results /\ r.status = "accepted" /\ r.event = e
      /\ r.alert_emitted = Emits(e)
      /\ r.risk_label = RiskLabel(NextWindow(e))
      /\ r.rolling_15m_max_kp = RollingMax(NextWindow(e))
  BY <1>3, EmitsProperties DEF AcceptedResult
<1> HIDE DEF r
<1>5. /\ results' \in Seq(Results)
      /\ Len(results') = n + 1
      /\ DOMAIN results = 1..n /\ DOMAIN results' = 1..(n + 1)
      /\ \A i \in 1..n : results'[i] = results[i]
      /\ results'[n + 1] = r
      /\ \A t : WithStatus(t)' = IF "accepted" = t THEN WithStatus(t) \cup {n + 1}
                                 ELSE WithStatus(t)
      /\ Alerting' = IF Emits(e) THEN Alerting \cup {n + 1} ELSE Alerting
  BY <1>1, <1>2, <1>3, <1>4, AppendedResult
<1>6. Accepted' = Accepted \cup {n + 1}
  BY <1>5 DEF Accepted
<1>7. /\ \A i \in Accepted : i \in 1..n /\ i < n + 1
      /\ \A i \in Alerting : i \in 1..n /\ i < n + 1
      /\ \A i \in 1..n : i < n + 1 /\ Tag(i) \in Int /\ Kp(i) \in Int
      /\ n + 1 \notin 1..n
      /\ \A i \in 1..(n + 1) : i \in 1..n \/ i = n + 1
      /\ 1..n \subseteq 1..(n + 1) /\ n + 1 \in 1..(n + 1)
  <2>1. \A i \in 1..n : i < n + 1
    BY <1>2
  <2>2. Accepted \subseteq 1..n /\ Alerting \subseteq 1..n
    BY <1>2, AcceptedFacts DEF IInv
  <2>3. \A i \in 1..n : Tag(i) \in Int /\ Kp(i) \in Int
    BY <1>5, AcceptedFacts DEF IInv
  <2> QED
    BY <1>2, <2>1, <2>2, <2>3
<1>8. \A i \in 1..n : Tag(i)' = Tag(i) /\ Kp(i)' = Kp(i)
  BY <1>5 DEF Tag, Kp
<1>9. Tag(n + 1)' = e.time_tag /\ Kp(n + 1)' = e.kp_value
  BY <1>4, <1>5 DEF Tag, Kp
<1>10. /\ e.time_tag \in TimeTags /\ e.time_tag \in Int /\ e.kp_value \in Int
       /\ Window \in Int /\ Window > 0
  BY EventFields, ConstantsAssumption
<1>11. /\ \A i \in Accepted : Tag(i) < e.time_tag
       /\ latest_time_tag # None => latest_time_tag \in Int /\ latest_time_tag < e.time_tag
  BY <1>3, AcceptedIsNewest DEF IInv
<1>12. /\ events' \in Seq(KpEvents)
       /\ Increasing(events')
       /\ Elements(events') =
            {x \in Elements(events) \cup {e} : x.time_tag >= e.time_tag - Window}
       /\ e \in Elements(events')
  BY <1>3, NextWindowProperties DEF IInv, ProcessAccepted
<1>13. /\ RiskLabel(NextWindow(e)) = "normal"
            <=> \A x \in Elements(events') : x.kp_value < Threshold
       /\ RiskLabel(NextWindow(e)) \in Labels
       /\ e.kp_value >= Threshold => RiskLabel(NextWindow(e)) = "elevated"
       /\ Emits(e) => /\ \A x \in Elements(events) : x.kp_value < Threshold
                      /\ e.kp_value >= Threshold
                      /\ RollingMax(NextWindow(e)) = e.kp_value
  BY <1>3, EmitsProperties DEF ProcessAccepted
<1>14. /\ latest_time_tag' = e.time_tag
       /\ seen_time_tags' = seen_time_tags \cup {e.time_tag}
       /\ alert_armed' = ArmedAfter(e)
  BY DEF ProcessAccepted
<1>15. WindowInv'
  <2>1. TypeOK'
    BY <1>5, <1>10, <1>12, <1>14
       DEF IInv, WindowInv, TypeOK, ProcessAccepted, ArmedAfter
  <2>2. SeenExact'
    <3>1. {Tag(i)' : i \in Accepted'} = {Tag(i) : i \in Accepted} \cup {e.time_tag}
      BY <1>6, <1>7, <1>8, <1>9
    <3> QED
      BY <1>14, <3>1 DEF IInv, WindowInv, SeenExact
  <2>3. LatestExact'
    <3>1. latest_time_tag' # None
      BY <1>10, <1>14, ConstantsAssumption
    <3>2. \A i \in Accepted' : Tag(i)' <= e.time_tag
      BY <1>6, <1>7, <1>8, <1>9, <1>10, <1>11
    <3> QED
      BY <1>6, <1>9, <1>14, <3>1, <3>2 DEF LatestExact
  <2>4. AcceptedIncreasing'
    BY <1>6, <1>7, <1>8, <1>9, <1>11 DEF IInv, WindowInv, AcceptedIncreasing
  <2>5. WindowExact'
    <3> DEFINE P == {k \in Accepted : Tag(k) >= latest_time_tag - Window}
               P2 == {k \in Accepted' : Tag(k)' >= e.time_tag - Window}
    <3>1. Elements(events) = {results[i].event : i \in P}
      BY DEF IInv, WindowInv, WindowExact, Elements
    <3>2. ASSUME NEW x \in Elements(events) \cup {e}, x.time_tag >= e.time_tag - Window
          PROVE  \E i \in P2 : x = results'[i].event
      <4>1. CASE x = e
        BY <1>4, <1>5, <1>6, <1>9, <1>10, <4>1
      <4>2. CASE x \in Elements(events)
        <5>1. PICK i \in P : x = results[i].event
          BY <3>1, <4>2
        <5>2. x.time_tag = Tag(i) /\ i \in Accepted' /\ i \in 1..n
          BY <1>6, <1>7, <5>1 DEF Tag
        <5> QED
          BY <1>5, <1>8, <3>2, <5>1, <5>2
      <4> QED
        BY <4>1, <4>2
    <3>3. ASSUME NEW i \in P2
          PROVE  /\ results'[i].event \in Elements(events) \cup {e}
                 /\ results'[i].event.time_tag >= e.time_tag - Window
      <4>1. results'[i].event.time_tag >= e.time_tag - Window
        BY DEF Tag
      <4>2. CASE i = n + 1
        BY <1>4, <1>5, <4>1, <4>2
      <4>3. CASE i \in Accepted
        <5>1. i \in 1..n /\ Tag(i) \in Int /\ Tag(i) >= e.time_tag - Window
          BY <1>7, <1>8, <4>3
        <5>2. latest_time_tag # None
          BY <4>3 DEF IInv, WindowInv, LatestExact
        <5>3. Tag(i) >= latest_time_tag - Window
          BY <1>10, <1>11, <5>1, <5>2
        <5>4. results[i].event \in Elements(events)
          BY <3>1, <4>3, <5>3
        <5> QED
          BY <1>5, <4>1, <5>1, <5>4
      <4> QED
        BY <1>6, <4>2, <4>3
    <3>4. Elements(events') = {results'[i].event : i \in P2}
      <4> HIDE DEF P2
      <4> QED BY <1>12, <3>2, <3>3
    <3>5. {results[i].event : i \in {k \in Accepted : Tag(k) >= latest_time_tag - Window}}'
            = {results'[i].event : i \in P2}
      BY <1>14
    <3> QED
      BY <1>12, <3>4, <3>5 DEF WindowExact, Increasing, Elements
  <2> QED
    BY <2>1, <2>2, <2>3, <2>4, <2>5 DEF WindowInv
<1>16. AlertInv'
  <2>1. ArmedIffQuiet'
    <3>1. ArmedAfter(e) <=> RiskLabel(NextWindow(e)) = "normal"
      BY <1>13 DEF ArmedAfter, Emits, Labels, IInv, WindowInv, TypeOK
    <3> QED
      BY <1>13, <1>14, <3>1 DEF ArmedIffQuiet, Elements
  <2>2. AlertIsPeak'
    <3>1. ASSUME NEW i \in Alerting
          PROVE  (/\ results[i].status = "accepted"
                  /\ results[i].rolling_15m_max_kp = Kp(i)
                  /\ Kp(i) >= Threshold)'
      BY <1>5, <1>7, <1>8 DEF IInv, AlertInv, AlertIsPeak
    <3>2. ASSUME Emits(e)
          PROVE  (/\ results[n + 1].status = "accepted"
                  /\ results[n + 1].rolling_15m_max_kp = Kp(n + 1)
                  /\ Kp(n + 1) >= Threshold)'
      BY <1>4, <1>5, <1>9, <1>13, <3>2
    <3> QED
      BY <1>5, <3>1, <3>2 DEF AlertIsPeak
  <2>3. AlertSpacing'
    <3>1. ASSUME Emits(e), NEW i \in Alerting
          PROVE  Tag(i) + Window < e.time_tag
      <4>1. i \in Accepted /\ i \in 1..n /\ Kp(i) >= Threshold
        BY <1>5, <1>7 DEF IInv, AlertInv, AlertIsPeak, Accepted, WithStatus
      <4>2. results[i].event \notin Elements(events)
        <5>1. \A x \in Elements(events) : x.kp_value < Threshold
          BY <1>13, <3>1
        <5> QED
          BY <1>7, <4>1, <5>1, ConstantsAssumption DEF Kp
      <4>3. ~ (Tag(i) >= latest_time_tag - Window)
        BY <4>1, <4>2 DEF IInv, WindowInv, WindowExact, Elements
      <4>4. latest_time_tag # None
        BY <4>1 DEF IInv, WindowInv, LatestExact
      <4> QED
        BY <1>7, <1>10, <1>11, <4>1, <4>3, <4>4
    <3>2. ASSUME NEW i \in Alerting', NEW j \in Alerting', i < j
          PROVE  Tag(j)' > Tag(i)' + Window
      <4>1. CASE j \in Alerting
        <5>1. i \in Alerting
          BY <1>2, <1>5, <1>7, <3>2, <4>1
        <5> QED
          BY <1>7, <1>8, <3>2, <4>1, <5>1 DEF IInv, AlertInv, AlertSpacing
      <4>2. CASE Emits(e) /\ j = n + 1
        <5>1. i \in Alerting
          BY <1>2, <1>5, <3>2, <4>2
        <5> QED
          BY <1>7, <1>8, <1>9, <1>10, <3>1, <4>2, <5>1
      <4> QED
        BY <1>5, <4>1, <4>2
    <3> QED
      BY <3>2 DEF AlertSpacing
  <2>4. StormUnderWay'
    <3>1. CASE Emits(e)
      BY <1>2, <1>4, <1>5, <1>6, <1>7, <3>1 DEF StormUnderWay, Emits
    <3>2. CASE ~ Emits(e)
      <4> SUFFICES ASSUME ~ ArmedAfter(e)
                   PROVE  \E i \in Alerting : \A k \in Accepted' :
                            i <= k => results'[k].risk_label = "elevated"
        BY <1>5, <1>14, <3>2 DEF StormUnderWay
      <4>1. ~ alert_armed /\ RiskLabel(NextWindow(e)) = "elevated"
        BY <1>13, <3>2 DEF ArmedAfter, Labels
      <4>2. PICK i \in Alerting :
              \A k \in Accepted : i <= k => results[k].risk_label = "elevated"
        BY <4>1 DEF IInv, AlertInv, StormUnderWay
      <4> QED
        BY <1>4, <1>5, <1>6, <1>7, <4>1, <4>2
    <3> QED
      BY <3>1, <3>2
  <2>5. StormReported'
    <3>1. Alerting \subseteq Alerting'
      BY <1>5
    <3>2. ASSUME NEW j \in Accepted', Kp(j)' >= Threshold
          PROVE  \E i \in Alerting' :
                    /\ i <= j
                    /\ \A k \in Accepted' :
                         i <= k /\ k <= j => results'[k].risk_label = "elevated"
      <4>1. CASE j \in Accepted
        <5>1. PICK i \in Alerting :
                /\ i <= j
                /\ \A k \in Accepted : i <= k /\ k <= j => results[k].risk_label = "elevated"
          BY <1>7, <1>8, <3>2, <4>1 DEF IInv, AlertInv, StormReported
        <5>2. ~ (n + 1 <= j)
          BY <1>2, <1>7, <4>1
        <5> QED
          BY <1>5, <1>6, <1>7, <3>1, <5>1, <5>2
      <4>2. CASE j = n + 1
        <5>1. RiskLabel(NextWindow(e)) = "elevated"
          BY <1>9, <1>13, <3>2, <4>2
        <5>2. CASE alert_armed
          BY <1>2, <1>4, <1>5, <1>6, <1>7, <4>2, <5>1, <5>2 DEF Emits
        <5>3. CASE ~ alert_armed
          <6>1. PICK i \in Alerting :
                  \A k \in Accepted : i <= k => results[k].risk_label = "elevated"
            BY <5>3 DEF IInv, AlertInv, StormUnderWay
          <6>2. i <= n + 1
            BY <1>2, <1>7
          <6> QED
            BY <1>4, <1>5, <1>6, <1>7, <3>1, <4>2, <5>1, <6>1, <6>2
        <5> QED
          BY <5>2, <5>3
      <4> QED
        BY <1>6, <4>1, <4>2
    <3> QED
      BY <3>2 DEF StormReported
  <2> QED
    BY <2>1, <2>2, <2>3, <2>4, <2>5 DEF AlertInv
<1>17. IdentityInv'
  <2>1. AcceptedIffNewest'
    <3>1. ASSUME NEW j \in 1..n
          PROVE  (j \in Accepted <=> \A i \in Accepted : i < j => Tag(i) < Tag(j))'
      <4>1. j \in Accepted <=> \A i \in Accepted : i < j => Tag(i) < Tag(j)
        BY <1>5 DEF IInv, IdentityInv, AcceptedIffNewest
      <4>2. j \in Accepted' <=> j \in Accepted
        BY <1>6, <1>7
      <4>3. ~ (n + 1 < j)
        BY <1>2
      <4> QED
        BY <1>6, <1>7, <1>8, <4>1, <4>2, <4>3
    <3>2. (n + 1 \in Accepted <=> \A i \in Accepted : i < n + 1 => Tag(i) < Tag(n + 1))'
      BY <1>2, <1>6, <1>7, <1>8, <1>9, <1>11
    <3> QED
      BY <1>5, <1>7, <3>1, <3>2 DEF AcceptedIffNewest
  <2>2. DuplicateIffAcceptedBefore'
    <3>1. ASSUME NEW j \in 1..n
          PROVE  (results[j].status = "duplicate_skipped"
                    <=> \E i \in Accepted : i < j /\ Tag(i) = Tag(j))'
      <4>1. results[j].status = "duplicate_skipped"
              <=> \E i \in Accepted : i < j /\ Tag(i) = Tag(j)
        BY <1>5 DEF IInv, IdentityInv, DuplicateIffAcceptedBefore
      <4>2. ~ (n + 1 < j)
        BY <1>2
      <4>3. (\E i \in Accepted : i < j /\ Tag(i) = Tag(j))
              <=> (\E i \in Accepted' : i < j /\ Tag(i)' = Tag(j)')
        BY <1>6, <1>7, <1>8, <4>2
      <4> QED
        BY <1>5, <4>1, <4>3
    <3>2. (results[n + 1].status = "duplicate_skipped"
             <=> \E i \in Accepted : i < n + 1 /\ Tag(i) = Tag(n + 1))'
      <4>1. results'[n + 1].status # "duplicate_skipped"
        BY <1>4, <1>5
      <4>2. ~ \E i \in Accepted' : i < n + 1 /\ Tag(i)' = Tag(n + 1)'
        BY <1>2, <1>6, <1>7, <1>8, <1>9, <1>10, <1>11
      <4> QED
        BY <4>1, <4>2
    <3> QED
      BY <1>5, <1>7, <3>1, <3>2 DEF DuplicateIffAcceptedBefore
  <2> QED
    BY <2>1, <2>2 DEF IdentityInv
<1>18. CountsAgree'
  <2>1. ASSUME NEW S, S \subseteq 1..n
        PROVE  Cardinality(S \cup {n + 1}) = Cardinality(S) + 1
    <3>1. IsFiniteSet(1..n)
      BY <1>2, FS_Interval
    <3>2. IsFiniteSet(S)
      BY <2>1, <3>1, FS_Subset
    <3> QED
      BY <1>7, <2>1, <3>2, FS_AddElement
  <2>2. Cardinality(Accepted') = Cardinality(Accepted) + 1
    BY <1>6, <1>7, <2>1
  <2>3. Cardinality(Alerting') = IF Emits(e) THEN Cardinality(Alerting) + 1
                                 ELSE Cardinality(Alerting)
    BY <1>5, <1>7, <2>1
  <2>4. /\ WithStatus("duplicate_skipped")' = WithStatus("duplicate_skipped")
        /\ WithStatus("late_event_skipped")' = WithStatus("late_event_skipped")
    BY <1>5
  <2> QED
    BY <1>2, <1>5, <2>2, <2>3, <2>4 DEF IInv, CountsAgree, ProcessAccepted
<1> QED
  BY <1>15, <1>16, <1>17, <1>18 DEF IInv
-----------------------------------------------------------------------------
(* The theorems.                                                           *)

\* A step that changes nothing preserves the inductive invariant.
LEMMA StutterStep ==
  ASSUME IInv, UNCHANGED vars
  PROVE  IInv'
<1> USE DEF vars, counters
<1>1. \A i : Tag(i)' = Tag(i) /\ Kp(i)' = Kp(i)
  BY DEF Tag, Kp
<1>2. Accepted' = Accepted /\ Alerting' = Alerting /\ \A s : WithStatus(s)' = WithStatus(s)
  BY DEF Accepted, Alerting, WithStatus
<1>3. WindowInv'
  <2>1. TypeOK'
    BY DEF IInv, WindowInv, TypeOK
  <2>2. SeenExact' /\ LatestExact' /\ AcceptedIncreasing'
    BY <1>1, <1>2 DEF IInv, WindowInv, SeenExact, LatestExact, AcceptedIncreasing
  <2>3. WindowExact'
    BY <1>1, <1>2 DEF IInv, WindowInv, WindowExact
  <2> QED
    BY <2>1, <2>2, <2>3 DEF WindowInv
<1>4. AlertInv'
  BY <1>1, <1>2 DEF IInv, AlertInv, ArmedIffQuiet, AlertIsPeak, AlertSpacing,
                    StormUnderWay, StormReported
<1>5. IdentityInv'
  BY <1>1, <1>2 DEF IInv, IdentityInv, AcceptedIffNewest, DuplicateIffAcceptedBefore
<1>6. CountsAgree'
  BY <1>1, <1>2 DEF IInv, CountsAgree
<1> QED
  BY <1>3, <1>4, <1>5, <1>6 DEF IInv

\* Every step of the processor preserves the inductive invariant.
LEMMA NextIInv ==
  ASSUME IInv, [Next]_vars
  PROVE  IInv'
<1>1. ASSUME NEW e \in KpEvents, Process(e)
      PROVE  IInv'
  <2>1. CASE ProcessDuplicate(e)
    BY <2>1, DuplicateStep
  <2>2. CASE ProcessLate(e)
    BY <2>2, LateStep
  <2>3. CASE ProcessAccepted(e)
    BY <2>3, AcceptedStep
  <2> QED
    BY <1>1, <2>1, <2>2, <2>3 DEF Process
<1>2. CASE UNCHANGED vars
  BY <1>2, StutterStep
<1> QED
  BY <1>1, <1>2 DEF Next

\* The inductive invariant holds in every reachable state.
THEOREM InductiveInvariant == Spec => []IInv
BY InitIInv, NextIInv, PTL DEF Spec

\* Type correctness: in particular no result ever lacks a rolling maximum
\* (processor.py:71-75).
THEOREM TypeCorrect == Spec => []TypeOK
<1>1. IInv => TypeOK
  BY DEF IInv, WindowInv
<1> QED
  BY <1>1, InductiveInvariant, PTL

\* The deque is exactly the inclusive window ending at the newest accepted
\* event, for every window length and every order of arrival
\* (processor.py:132-139).
THEOREM WindowIsExact == Spec => []WindowExact
<1>1. IInv => WindowExact
  BY DEF IInv, WindowInv
<1> QED
  BY <1>1, InductiveInvariant, PTL

\* Exactly the events newer than everything accepted before are accepted
\* (processor.py:124-130).
THEOREM EventsAccepted == Spec => []AcceptedIffNewest
<1>1. IInv => AcceptedIffNewest
  BY DEF IInv, IdentityInv
<1> QED
  BY <1>1, InductiveInvariant, PTL

\* Exactly the tags accepted before are duplicates, also when their event has left
\* the window long ago (processor.py:124-126).
THEOREM DuplicatesRecognized == Spec => []DuplicateIffAcceptedBefore
<1>1. IInv => DuplicateIffAcceptedBefore
  BY DEF IInv, IdentityInv
<1> QED
  BY <1>1, InductiveInvariant, PTL

\* The armed flag mirrors the window (processor.py:141-147).
THEOREM ArmedMirrorsWindow == Spec => []ArmedIffQuiet
<1>1. IInv => ArmedIffQuiet
  BY DEF IInv, AlertInv
<1> QED
  BY <1>1, InductiveInvariant, PTL

\* Two alerts are more than one window apart (processor.py:141-147).
THEOREM AlertsSpaced == Spec => []AlertSpacing
<1>1. IInv => AlertSpacing
  BY DEF IInv, AlertInv
<1> QED
  BY <1>1, InductiveInvariant, PTL

\* The event that raises an alert is the maximum of its window (processor.py:141-155).
THEOREM AlertsArePeaks == Spec => []AlertIsPeak
<1>1. IInv => AlertIsPeak
  BY DEF IInv, AlertInv
<1> QED
  BY <1>1, InductiveInvariant, PTL

\* No accepted event at or above the threshold goes unreported
\* (README.md:144-154, processor.py:141-147).
THEOREM StormsReported == Spec => []StormReported
<1>1. IInv => StormReported
  BY DEF IInv, AlertInv
<1> QED
  BY <1>1, InductiveInvariant, PTL

\* The processor's counters and the run_counts of alert.json agree
\* (alert_output.py:67-79).
THEOREM CountersAgree == Spec => []CountsAgree
<1>1. IInv => CountsAgree
  BY DEF IInv
<1> QED
  BY <1>1, InductiveInvariant, PTL
-----------------------------------------------------------------------------
(* The published alert rule: RollingKp refines KpAlertRule.                *)

\* The refinement mapping of RollingKp!Rule.
Readings   == {results[i].event : i \in Accepted}
AlertTags  == {Tag(i) : i \in Alerting}

\* A skipped event changes neither what was accepted nor what was alerted.
LEMMA SkipKeepsReadings ==
  ASSUME WindowInv, NEW e \in KpEvents, NEW s \in Status \ {"accepted"},
         results' = Append(results, SkippedResult(e, s)), Accepted # {}
  PROVE  Readings' = Readings /\ AlertTags' = AlertTags
<1> DEFINE r == SkippedResult(e, s)
<1>1. r \in Results /\ r.status = s /\ r.alert_emitted = FALSE
  BY SkippedResultType DEF SkippedResult
<1>2. results \in Seq(Results) /\ results' = Append(results, r)
  BY DEF WindowInv, TypeOK
<1> HIDE DEF r
<1>3. /\ \A i \in 1..Len(results) : results'[i] = results[i]
      /\ WithStatus("accepted")' = WithStatus("accepted")
      /\ Alerting' = Alerting
  BY <1>1, <1>2, AppendedResult
<1>4. Accepted \subseteq 1..Len(results) /\ Alerting \subseteq 1..Len(results)
  BY AcceptedFacts
<1> QED
  BY <1>3, <1>4 DEF Readings, AlertTags, Accepted, Tag

\* An accepted event joins the readings, and the alerts when it is emitted.
LEMMA AcceptExtendsReadings ==
  ASSUME IInv, NEW e \in KpEvents, ProcessAccepted(e)
  PROVE  /\ Readings' = Readings \cup {e}
         /\ AlertTags' = IF Emits(e) THEN AlertTags \cup {e.time_tag} ELSE AlertTags
<1> DEFINE r == AcceptedResult(e)
<1>1. PICK n \in Nat : n = Len(results)
  BY LenProperties DEF IInv, WindowInv, TypeOK
<1>2. r \in Results /\ r.status = "accepted" /\ r.event = e /\ r.alert_emitted = Emits(e)
  BY EmitsProperties DEF AcceptedResult, ProcessAccepted
<1>3. results \in Seq(Results) /\ results' = Append(results, r)
  BY DEF IInv, WindowInv, TypeOK, ProcessAccepted
<1> HIDE DEF r
<1>4. /\ \A i \in 1..n : results'[i] = results[i]
      /\ results'[n + 1] = r
      /\ WithStatus("accepted")' = WithStatus("accepted") \cup {n + 1}
      /\ Alerting' = IF Emits(e) THEN Alerting \cup {n + 1} ELSE Alerting
  BY <1>1, <1>2, <1>3, AppendedResult
<1>5. Accepted \subseteq 1..n /\ Alerting \subseteq 1..n
  BY <1>1, AcceptedFacts DEF IInv
<1>6. Readings' = Readings \cup {e}
  BY <1>2, <1>4, <1>5 DEF Readings, Accepted
<1>7. AlertTags' = IF Emits(e) THEN AlertTags \cup {e.time_tag} ELSE AlertTags
  BY <1>2, <1>4, <1>5 DEF AlertTags, Tag
<1> QED
  BY <1>6, <1>7

\* The armed flag and the label decide exactly as the published rule does.
LEMMA EmitsIffCrosses ==
  ASSUME IInv, NEW e \in KpEvents, ~ IsDuplicate(e), ~ IsLate(e)
  PROVE  /\ \A x \in Readings : x.time_tag < e.time_tag
         /\ Emits(e) <=> Rule!Crosses(e)
<1>1. \A i \in Accepted : Tag(i) < e.time_tag /\ Tag(i) \in Int
  BY AcceptedIsNewest, AcceptedFacts DEF IInv, Accepted, WithStatus
<1>2. \A x \in Readings : x.time_tag < e.time_tag /\ x.time_tag \in Int /\ x.kp_value \in Int
  BY <1>1, AcceptedFacts DEF Readings, Tag, Kp, IInv, Accepted, WithStatus
<1>3. e.time_tag \in Int /\ e.kp_value \in Int /\ Window \in Int /\ Window > 0 /\ Threshold \in Int
  BY EventFields, ConstantsAssumption
<1>4. Elements(events) = {x \in Readings : \A y \in Readings : y.time_tag - Window <= x.time_tag}
  <2>1. Elements(events) = {results[i].event : i \in {k \in Accepted : Tag(k) >= latest_time_tag - Window}}
    BY DEF IInv, WindowInv, WindowExact, Elements
  <2>2. CASE Accepted = {}
    BY <2>1, <2>2 DEF Readings
  <2>3. CASE Accepted # {}
    <3>1. latest_time_tag # None /\ latest_time_tag \in Int
      BY <2>3, ConstantsAssumption DEF IInv, WindowInv, LatestExact, TypeOK
    <3>2. PICK l \in Readings : l.time_tag = latest_time_tag
      BY <3>1 DEF IInv, WindowInv, LatestExact, Readings, Tag
    <3>3. \A y \in Readings : y.time_tag <= latest_time_tag
      BY <3>1 DEF IInv, WindowInv, LatestExact, Readings, Tag
    <3>4. \A x \in Readings : x.time_tag >= latest_time_tag - Window
                                <=> \A y \in Readings : y.time_tag - Window <= x.time_tag
      BY <1>2, <1>3, <3>1, <3>2, <3>3
    <3>5. Elements(events) = {x \in Readings : x.time_tag >= latest_time_tag - Window}
      BY <2>1 DEF Readings, Tag
    <3> QED
      BY <3>4, <3>5
  <2> QED
    BY <2>2, <2>3
<1>5. alert_armed <=> \A x \in Elements(events) : x.kp_value < Threshold
  BY DEF IInv, AlertInv, ArmedIffQuiet, Elements
<1>6. Elements(NextWindow(e)) =
        {x \in Readings \cup {e} : e.time_tag - Window <= x.time_tag /\ x.time_tag <= e.time_tag}
  <2>1. Elements(NextWindow(e)) = {x \in Elements(events) \cup {e} : x.time_tag >= e.time_tag - Window}
    BY NextWindowProperties DEF IInv
  <2>2. \A x \in Readings : x.time_tag >= e.time_tag - Window => x \in Elements(events)
    BY <1>2, <1>3, <1>4
  <2> QED
    BY <1>2, <1>3, <1>4, <2>1, <2>2
<1>7. RiskLabel(NextWindow(e)) = "elevated"
        <=> ~ \A x \in Elements(NextWindow(e)) : x.kp_value < Threshold
  BY EmitsProperties DEF Labels
<1>8. Rule!PreviousWindow = Elements(events)
  BY <1>4 DEF Rule!PreviousWindow, Readings
<1>9. Rule!InWindow(Readings \cup {e}, e.time_tag) = Elements(NextWindow(e))
  BY <1>6 DEF Rule!InWindow
<1>10. Rule!Crosses(e) <=> /\ \A x \in Elements(events) : x.kp_value < Threshold
                           /\ ~ \A x \in Elements(NextWindow(e)) : x.kp_value < Threshold
  BY <1>8, <1>9 DEF Rule!Crosses, Rule!Quiet, Readings
<1> QED
  BY <1>2, <1>5, <1>7, <1>10 DEF Emits

\* Every step of the processor is an observation of the rule or a stutter.
LEMMA StepRefines ==
  ASSUME IInv, [Next]_vars
  PROVE  [Rule!Next]_(Rule!vars)
<1>1. ASSUME NEW e \in KpEvents, ProcessDuplicate(e) \/ ProcessLate(e)
      PROVE  UNCHANGED Rule!vars
  <2>1. Accepted # {}
    BY <1>1, SkippedIsNotNewest DEF IInv, ProcessDuplicate, ProcessLate
  <2>2. \E s \in Status \ {"accepted"} : results' = Append(results, SkippedResult(e, s))
    BY <1>1 DEF ProcessDuplicate, ProcessLate, Status
  <2>3. Readings' = Readings /\ AlertTags' = AlertTags
    BY <2>1, <2>2, SkipKeepsReadings DEF IInv
  <2> QED
    BY <2>3 DEF Rule!vars, Readings, AlertTags
<1>2. ASSUME NEW e \in KpEvents, ProcessAccepted(e)
      PROVE  Rule!Next
  <2>1. ~ IsDuplicate(e) /\ ~ IsLate(e)
    BY <1>2 DEF ProcessAccepted
  <2>2. /\ Readings' = Readings \cup {e}
        /\ AlertTags' = IF Rule!Crosses(e) THEN AlertTags \cup {e.time_tag} ELSE AlertTags
        /\ \A x \in Readings : x.time_tag < e.time_tag
    BY <1>2, <2>1, AcceptExtendsReadings, EmitsIffCrosses
  <2>3. Rule!Observe(e)
    BY <2>2 DEF Rule!Observe, Readings, AlertTags
  <2> QED
    BY <2>3 DEF Rule!Next, Rule!KpEvents, KpEvents
<1>3. CASE UNCHANGED vars
  BY <1>3 DEF vars, Rule!vars, Accepted, WithStatus, Alerting, Tag
<1> QED
  BY <1>1, <1>2, <1>3 DEF Next, Process

\* RollingKp implements the alert rule of README.md:144-154: whatever the order
\* in which events arrive, repeat or lag, an alert is raised exactly at the
\* accepted events where the rolling maximum crosses the threshold.
THEOREM Refinement == Spec => ImplementsRule
<1>1. Init => Rule!Init
  BY DEF Init, Rule!Init, Accepted, WithStatus, Alerting
<1>2. IInv /\ [Next]_vars => [Rule!Next]_(Rule!vars)
  BY StepRefines
<1> QED
  BY <1>1, <1>2, InductiveInvariant, PTL DEF Spec, ImplementsRule, Rule!Spec

-----------------------------------------------------------------------------
(* The alerts of a whole run. KpAlertRule says when a new observation      *)
(* raises an alert; here is the same rule without any order of arrival.    *)

\* Some reading in the window that ends at time t reaches the threshold.
ElevatedAt(S, t) ==
  \E r \in S : t - Window <= r.time_tag /\ r.time_tag <= t /\ r.kp_value >= Threshold

TagsOf(S) == {r.time_tag : r \in S}

\* The times at which the window of S becomes elevated: it is elevated there, and
\* was not at the observation before, if there is one.
CrossingsOf(S) ==
  {t \in TagsOf(S) :
     /\ ElevatedAt(S, t)
     /\ \A p \in TagsOf(S) :
          p < t /\ (\A q \in TagsOf(S) : q < t => q <= p) => ~ ElevatedAt(S, p)}

AlertsAtCrossings == AlertTags = CrossingsOf(Readings)

\* An observation newer than all the others leaves their crossings as they were.
LEMMA CrossingsGrow ==
  ASSUME NEW S, \A r \in S : r.time_tag \in Int /\ r.kp_value \in Int,
         NEW e, e.time_tag \in Int, e.kp_value \in Int,
         \A r \in S : r.time_tag < e.time_tag
  PROVE  /\ \A t \in TagsOf(S) : t \in CrossingsOf(S \cup {e}) <=> t \in CrossingsOf(S)
         /\ e.time_tag \in CrossingsOf(S \cup {e})
              <=> /\ ElevatedAt(S \cup {e}, e.time_tag)
                  /\ \A p \in TagsOf(S) :
                       (\A q \in TagsOf(S) : q <= p) => ~ ElevatedAt(S, p)
<1> DEFINE T == S \cup {e}
<1>1. TagsOf(T) = TagsOf(S) \cup {e.time_tag}
  BY DEF TagsOf
<1>2. \A t \in TagsOf(S) : t \in Int /\ t < e.time_tag
  BY DEF TagsOf
<1>3. ASSUME NEW t \in TagsOf(S)
      PROVE  ElevatedAt(T, t) <=> ElevatedAt(S, t)
  <2>1. ~ (e.time_tag <= t)
    BY <1>2
  <2> QED
    BY <2>1 DEF ElevatedAt
<1> HIDE DEF T
<1>4. ASSUME NEW t \in TagsOf(S)
      PROVE  t \in CrossingsOf(T) <=> t \in CrossingsOf(S)
  <2>1. ~ (e.time_tag < t) /\ t \in TagsOf(T)
    BY <1>1, <1>2
  <2>2. ASSUME NEW p
        PROVE  (\A q \in TagsOf(T) : q < t => q <= p) <=> \A q \in TagsOf(S) : q < t => q <= p
    BY <1>1, <2>1
  <2>3. (\A p \in TagsOf(T) :
           p < t /\ (\A q \in TagsOf(T) : q < t => q <= p) => ~ ElevatedAt(T, p))
        <=> \A p \in TagsOf(S) :
              p < t /\ (\A q \in TagsOf(S) : q < t => q <= p) => ~ ElevatedAt(S, p)
    BY <1>1, <1>3, <2>1, <2>2
  <2> QED
    BY <1>3, <2>1, <2>3 DEF CrossingsOf
<1>5. e.time_tag \in CrossingsOf(T)
        <=> /\ ElevatedAt(T, e.time_tag)
            /\ \A p \in TagsOf(S) : (\A q \in TagsOf(S) : q <= p) => ~ ElevatedAt(S, p)
  <2>1. ~ (e.time_tag < e.time_tag)
    OBVIOUS
  <2>2. ASSUME NEW p
        PROVE  (\A q \in TagsOf(T) : q < e.time_tag => q <= p) <=> \A q \in TagsOf(S) : q <= p
    BY <1>1, <1>2, <2>1
  <2>3. (\A p \in TagsOf(T) :
           p < e.time_tag /\ (\A q \in TagsOf(T) : q < e.time_tag => q <= p)
             => ~ ElevatedAt(T, p))
        <=> \A p \in TagsOf(S) : (\A q \in TagsOf(S) : q <= p) => ~ ElevatedAt(S, p)
    BY <1>1, <1>2, <1>3, <2>1, <2>2
  <2>4. e.time_tag \in TagsOf(T)
    BY <1>1
  <2> QED
    BY <2>3, <2>4 DEF CrossingsOf
<1> QED
  BY <1>4, <1>5 DEF T

\* The readings are those of accepted events, and there is a newest one.
LEMMA ReadingsProperties ==
  ASSUME IInv
  PROVE  /\ \A r \in Readings : r.time_tag \in Int /\ r.kp_value \in Int
         /\ Readings # {} => \E l \in Readings : \A r \in Readings : r.time_tag <= l.time_tag
<1>1. \A r \in Readings : r.time_tag \in Int /\ r.kp_value \in Int
  BY AcceptedFacts DEF Readings, Tag, Kp, IInv, Accepted, WithStatus
<1>2. ASSUME Readings # {}
      PROVE  \E l \in Readings : \A r \in Readings : r.time_tag <= l.time_tag
  <2>1. latest_time_tag # None
    BY <1>2 DEF IInv, WindowInv, LatestExact, Readings
  <2>2. /\ \E i \in Accepted : Tag(i) = latest_time_tag
        /\ \A i \in Accepted : Tag(i) <= latest_time_tag
    BY <2>1 DEF IInv, WindowInv, LatestExact
  <2> QED
    BY <2>2 DEF Readings, Tag
<1> QED
  BY <1>1, <1>2

\* The rule of KpAlertRule, which looks at the previous and the new window, picks the
\* crossings of the whole past.
LEMMA CrossingStep ==
  ASSUME IInv, NEW e \in KpEvents, ~ IsDuplicate(e), ~ IsLate(e)
  PROVE  Rule!Crosses(e)
           <=> /\ ElevatedAt(Readings \cup {e}, e.time_tag)
               /\ \A p \in TagsOf(Readings) :
                    (\A q \in TagsOf(Readings) : q <= p) => ~ ElevatedAt(Readings, p)
<1>1. \A r \in Readings : r.time_tag \in Int /\ r.kp_value \in Int
  BY ReadingsProperties
<1>2. e.time_tag \in Int /\ e.kp_value \in Int /\ Threshold \in Int /\ Window \in Int
  BY EventFields, ConstantsAssumption
<1>3. ~ Rule!Quiet(Rule!InWindow(Readings \cup {e}, e.time_tag))
        <=> ElevatedAt(Readings \cup {e}, e.time_tag)
  BY <1>1, <1>2 DEF Rule!Quiet, Rule!InWindow, ElevatedAt
<1>4. Rule!Quiet(Rule!PreviousWindow)
        <=> \A p \in TagsOf(Readings) :
              (\A q \in TagsOf(Readings) : q <= p) => ~ ElevatedAt(Readings, p)
  <2>1. CASE Readings = {}
    BY <2>1 DEF Rule!Quiet, Rule!PreviousWindow, TagsOf, Readings
  <2>2. CASE Readings # {}
    <3>1. PICK l \in Readings : \A r \in Readings : r.time_tag <= l.time_tag
      BY <2>2, ReadingsProperties
    <3>2. ASSUME NEW p \in TagsOf(Readings)
          PROVE  (\A q \in TagsOf(Readings) : q <= p) <=> p = l.time_tag
      BY <1>1, <3>1 DEF TagsOf
    <3>3. Rule!PreviousWindow = {r \in Readings : l.time_tag - Window <= r.time_tag}
      <4>1. ASSUME NEW r \in Readings
            PROVE  (\A newest \in Readings : newest.time_tag - Window <= r.time_tag)
                     <=> l.time_tag - Window <= r.time_tag
        BY <1>1, <1>2, <3>1
      <4> QED
        BY <4>1 DEF Rule!PreviousWindow, Readings
    <3>4. Rule!Quiet(Rule!PreviousWindow) <=> ~ ElevatedAt(Readings, l.time_tag)
      BY <1>1, <1>2, <3>1, <3>3 DEF Rule!Quiet, ElevatedAt
    <3>5. l.time_tag \in TagsOf(Readings)
      BY DEF TagsOf
    <3> QED
      BY <3>2, <3>4, <3>5
  <2> QED
    BY <2>1, <2>2
<1> QED
  BY <1>3, <1>4 DEF Rule!Crosses, Readings

LEMMA CrossingsStep ==
  ASSUME IInv, AlertsAtCrossings, [Next]_vars
  PROVE  AlertsAtCrossings'
<1>1. ASSUME NEW e \in KpEvents, ProcessDuplicate(e) \/ ProcessLate(e)
      PROVE  AlertsAtCrossings'
  <2>1. Accepted # {}
    BY <1>1, SkippedIsNotNewest DEF IInv, ProcessDuplicate, ProcessLate
  <2>2. \E s \in Status \ {"accepted"} : results' = Append(results, SkippedResult(e, s))
    BY <1>1 DEF ProcessDuplicate, ProcessLate, Status
  <2>3. Readings' = Readings /\ AlertTags' = AlertTags
    BY <2>1, <2>2, SkipKeepsReadings DEF IInv
  <2> QED
    BY <2>3 DEF AlertsAtCrossings, CrossingsOf, TagsOf, ElevatedAt
<1>2. ASSUME NEW e \in KpEvents, ProcessAccepted(e)
      PROVE  AlertsAtCrossings'
  <2>1. ~ IsDuplicate(e) /\ ~ IsLate(e)
    BY <1>2 DEF ProcessAccepted
  <2>2. /\ Readings' = Readings \cup {e}
        /\ AlertTags' = IF Rule!Crosses(e) THEN AlertTags \cup {e.time_tag} ELSE AlertTags
        /\ \A x \in Readings : x.time_tag < e.time_tag
    BY <1>2, <2>1, AcceptExtendsReadings, EmitsIffCrosses
  <2>3. e.time_tag \in Int /\ e.kp_value \in Int
    BY EventFields
  <2>4. /\ \A t \in TagsOf(Readings) :
              t \in CrossingsOf(Readings \cup {e}) <=> t \in CrossingsOf(Readings)
        /\ e.time_tag \in CrossingsOf(Readings \cup {e}) <=> Rule!Crosses(e)
    BY <2>1, <2>2, <2>3, CrossingsGrow, CrossingStep, ReadingsProperties
  <2>5. /\ CrossingsOf(Readings) \subseteq TagsOf(Readings)
        /\ CrossingsOf(Readings \cup {e}) \subseteq TagsOf(Readings) \cup {e.time_tag}
        /\ e.time_tag \notin TagsOf(Readings)
    BY <2>2, <2>3, ReadingsProperties DEF CrossingsOf, TagsOf
  <2>6. CrossingsOf(Readings \cup {e}) =
          IF Rule!Crosses(e) THEN CrossingsOf(Readings) \cup {e.time_tag}
          ELSE CrossingsOf(Readings)
    BY <2>4, <2>5
  <2>7. CrossingsOf(Readings)' = CrossingsOf(Readings \cup {e})
    BY <2>2 DEF CrossingsOf, TagsOf, ElevatedAt
  <2> QED
    BY <2>2, <2>6, <2>7 DEF AlertsAtCrossings
<1>3. CASE UNCHANGED vars
  <2>1. Readings' = Readings /\ AlertTags' = AlertTags
    BY <1>3 DEF vars, Readings, AlertTags, Accepted, WithStatus, Alerting, Tag
  <2> QED
    BY <2>1 DEF AlertsAtCrossings, CrossingsOf, TagsOf, ElevatedAt
<1> QED
  BY <1>1, <1>2, <1>3 DEF Next, Process

LEMMA CrossingsInit == Init => AlertsAtCrossings
BY DEF Init, AlertsAtCrossings, AlertTags, Readings, CrossingsOf, TagsOf, Accepted,
       WithStatus, Alerting

\* At every moment the tags that raised an alert are the crossings of everything
\* accepted so far (README.md:144-154): no later event makes an alert wrong.
THEOREM AlertsAreCrossings == Spec => []AlertsAtCrossings
BY CrossingsInit, CrossingsStep, InductiveInvariant, PTL DEF Spec

-----------------------------------------------------------------------------
(* The results told from the events alone.                                 *)

\* What is told of a position depends on the events up to it only.
LEMMA EarlierEvents ==
  ASSUME NEW E, NEW F, NEW n \in Nat, \A j \in 1..n : E[j] = F[j]
  PROVE  \A i \in 1..n :
           /\ IsNewest(E, i) <=> IsNewest(F, i)
           /\ KpInWindow(E, i) = KpInWindow(F, i)
           /\ LabelAfter(E, i) = LabelAfter(F, i)
           /\ StatusOf(E, i) = StatusOf(F, i)
           /\ RaisesAlert(E, i) <=> RaisesAlert(F, i)
<1>1. \A i \in 1..n : \A k \in 1..i : k \in 1..n /\ k - 1 \in 0..n
  OBVIOUS
<1>2. \A i \in 1..n : IsNewest(E, i) <=> IsNewest(F, i)
  BY DEF IsNewest
<1>3. ASSUME NEW i \in 1..n
      PROVE  KpInWindow(E, i) = KpInWindow(F, i)
  <2>1. \A k \in 1..i : IsNewest(E, k) <=> IsNewest(F, k)
    BY <1>1, <1>2
  <2>2. \A k \in 1..i : E[k] = F[k]
    BY <1>1
  <2>3. {k \in 1..i : IsNewest(E, k) /\ \A m \in 1..i : E[m].time_tag - Window <= E[k].time_tag}
        = {k \in 1..i : IsNewest(F, k) /\ \A m \in 1..i : F[m].time_tag - Window <= F[k].time_tag}
    BY <2>1, <2>2
  <2> QED
    BY <2>2, <2>3 DEF KpInWindow
<1>4. \A i \in 1..n : LabelAfter(E, i) = LabelAfter(F, i)
  BY <1>3 DEF LabelAfter
<1>5. ASSUME NEW i \in 1..n
      PROVE  StatusOf(E, i) = StatusOf(F, i)
  <2>1. \A k \in 1..i : (IsNewest(E, k) <=> IsNewest(F, k)) /\ E[k] = F[k]
    BY <1>1, <1>2
  <2>2. i \in 1..i /\ \A k \in 1..(i - 1) : k \in 1..i
    OBVIOUS
  <2>3. (\E j \in 1..(i - 1) : IsNewest(E, j) /\ E[j].time_tag = E[i].time_tag)
        <=> \E j \in 1..(i - 1) : IsNewest(F, j) /\ F[j].time_tag = F[i].time_tag
    BY <2>1, <2>2
  <2> QED
    BY <2>1, <2>2, <2>3 DEF StatusOf
<1>6. ASSUME NEW i \in 1..n
      PROVE  RaisesAlert(E, i) <=> RaisesAlert(F, i)
  <2>1. i > 1 => i - 1 \in 1..n
    OBVIOUS
  <2> QED
    BY <1>2, <1>4, <2>1 DEF RaisesAlert
<1> QED
  BY <1>2, <1>3, <1>4, <1>5, <1>6

KpOf(q) == {q[i].kp_value : i \in DOMAIN q}

\* The same of one state: who is accepted and with what status, and which values are
\* in the window, told from the events.
Told ==
  /\ \A j \in DOMAIN results : j \in Accepted <=> IsNewest(Processed, j)
  /\ \A j \in DOMAIN results : results[j].status = StatusOf(Processed, j)
  /\ results # <<>> => KpInWindow(Processed, Len(results)) = KpOf(events)

LEMMA StateIsTold == IInv => Told
<1> SUFFICES ASSUME IInv PROVE Told
  OBVIOUS
<1> DEFINE n == Len(results)
<1>1. /\ n \in Nat /\ DOMAIN results = 1..n
      /\ \A i \in 1..n : results[i] \in Results /\ Tag(i) \in Int /\ Kp(i) \in Int
  BY LenProperties, AcceptedFacts DEF IInv, WindowInv, TypeOK
<1> HIDE DEF n
<1>2. /\ DOMAIN Processed = 1..n
      /\ \A i \in 1..n : Processed[i].time_tag = Tag(i) /\ Processed[i].kp_value = Kp(i)
  BY <1>1 DEF Processed, Tag, Kp
<1>3. ASSUME NEW j \in 1..n
      PROVE  j \in Accepted <=> IsNewest(Processed, j)
  <2>1. j \in Accepted <=> \A i \in Accepted : i < j => Tag(i) < Tag(j)
    BY <1>1 DEF IInv, IdentityInv, AcceptedIffNewest
  <2>2. Accepted \subseteq 1..n
    BY <1>1 DEF Accepted, WithStatus
  <2>3. ASSUME j \in Accepted, NEW k \in 1..(j - 1)
        PROVE  Tag(k) < Tag(j)
    <3>1. k \in 1..n /\ k < j
      BY <1>1
    <3>2. CASE k \in Accepted
      BY <2>1, <2>3, <3>1, <3>2
    <3>3. CASE k \notin Accepted
      <4>1. PICK i \in Accepted : i < k /\ ~ (Tag(i) < Tag(k))
        BY <1>1, <3>1, <3>3 DEF IInv, IdentityInv, AcceptedIffNewest
      <4>2. Tag(i) < Tag(j)
        BY <1>1, <2>1, <2>2, <2>3, <3>1, <4>1
      <4> QED
        BY <1>1, <2>2, <3>1, <4>1, <4>2
    <3> QED
      BY <3>2, <3>3
  <2>4. IsNewest(Processed, j) <=> \A k \in 1..(j - 1) : Tag(k) < Tag(j)
    BY <1>1, <1>2 DEF IsNewest
  <2>5. ASSUME \A k \in 1..(j - 1) : Tag(k) < Tag(j)
        PROVE  j \in Accepted
    BY <1>1, <2>1, <2>2, <2>5
  <2> QED
    BY <2>3, <2>4, <2>5
<1>4. ASSUME NEW j \in 1..n
      PROVE  results[j].status = StatusOf(Processed, j)
  <2>1. results[j].status \in Status
    BY <1>1 DEF Results
  <2>2. results[j].status = "accepted" <=> IsNewest(Processed, j)
    BY <1>1, <1>3 DEF Accepted, WithStatus
  <2>3. results[j].status = "duplicate_skipped"
          <=> \E i \in 1..(j - 1) : IsNewest(Processed, i) /\ Tag(i) = Tag(j)
    <3>1. results[j].status = "duplicate_skipped"
            <=> \E i \in Accepted : i < j /\ Tag(i) = Tag(j)
      BY <1>1 DEF IInv, IdentityInv, DuplicateIffAcceptedBefore
    <3>2. Accepted \subseteq 1..n
      BY <1>1 DEF Accepted, WithStatus
    <3>3. \A i \in 1..(j - 1) : i \in 1..n /\ i < j
      BY <1>1
    <3>4. \A i \in 1..n : i < j => i \in 1..(j - 1)
      BY <1>1
    <3> QED
      BY <1>3, <3>1, <3>2, <3>3, <3>4
  <2>4. (\E i \in 1..(j - 1) : IsNewest(Processed, i) /\ Tag(i) = Tag(j))
        <=> \E i \in 1..(j - 1) :
              IsNewest(Processed, i) /\ Processed[i].time_tag = Processed[j].time_tag
    BY <1>1, <1>2
  <2> QED
    BY <2>1, <2>2, <2>3, <2>4 DEF StatusOf, Status
<1>5. ASSUME results # <<>>
      PROVE  KpInWindow(Processed, n) = KpOf(events)
  <2>1. n > 0 /\ 1 \in 1..n
    BY <1>1, <1>5, EmptySeq DEF n, IInv, WindowInv, TypeOK
  <2>2. Accepted # {} /\ Accepted \subseteq 1..n
    BY <1>1, <1>3, <2>1 DEF IsNewest, Accepted, WithStatus
  <2>3. latest_time_tag # None /\ latest_time_tag \in Int
    BY <2>2, ConstantsAssumption DEF IInv, WindowInv, LatestExact, TypeOK
  <2>4. PICK l \in Accepted : Tag(l) = latest_time_tag /\ \A i \in Accepted : Tag(i) <= Tag(l)
    BY <2>3 DEF IInv, WindowInv, LatestExact
  <2>5. \A m \in 1..n : Tag(m) <= Tag(l)
    <3>1. ASSUME NEW m \in 1..n, m \notin Accepted
          PROVE  \E i \in Accepted : Tag(m) <= Tag(i)
      BY <1>1, <2>2, <3>1 DEF IInv, IdentityInv, AcceptedIffNewest
    <3> QED
      BY <1>1, <2>2, <2>4, <3>1
  <2>6. ASSUME NEW k \in 1..n
        PROVE  (\A m \in 1..n : Tag(m) - Window <= Tag(k)) <=> Tag(k) >= latest_time_tag - Window
    BY <1>1, <2>2, <2>3, <2>4, <2>5, ConstantsAssumption
  <2> DEFINE W == {k \in Accepted : Tag(k) >= latest_time_tag - Window}
  <2>7. {k \in 1..n : IsNewest(Processed, k)
                        /\ \A m \in 1..n : Processed[m].time_tag - Window <= Processed[k].time_tag}
        = W
    <3>1. \A k \in 1..n : (\A m \in 1..n : Processed[m].time_tag - Window <= Processed[k].time_tag)
                           <=> Tag(k) >= latest_time_tag - Window
      BY <1>2, <2>6
    <3> QED
      BY <1>3, <2>2, <3>1
  <2>8. KpInWindow(Processed, n) = {Kp(k) : k \in W}
    <3> HIDE DEF W
    <3>1. W \subseteq 1..n
      BY <2>2 DEF W
    <3> QED
      BY <1>2, <2>7, <3>1 DEF KpInWindow
  <2>9. {events[i] : i \in DOMAIN events} = {results[i].event : i \in W}
    BY DEF IInv, WindowInv, WindowExact
  <2>10. {Kp(k) : k \in W} = {x.kp_value : x \in {results[i].event : i \in W}}
    BY DEF Kp
  <2>11. KpOf(events) = {x.kp_value : x \in {events[i] : i \in DOMAIN events}}
    BY DEF KpOf
  <2> QED
    BY <2>8, <2>9, <2>10, <2>11
<1> QED
  BY <1>1, <1>3, <1>4, <1>5 DEF Told, n

\* The results so far are those of ResultsOf, field by field.
AsTold ==
  \A i \in DOMAIN results :
     /\ results[i].rolling_15m_max_kp = Max(KpInWindow(Processed, i))
     /\ results[i].risk_label = LabelAfter(Processed, i)
     /\ i \in Alerting <=> RaisesAlert(Processed, i)

\* The label of a deque is that of the values it holds.
LEMMA LabelIsTold ==
  ASSUME NEW q \in Seq(KpEvents), NEW E, NEW i, KpInWindow(E, i) = KpOf(q)
  PROVE  RiskLabel(q) = LabelAfter(E, i)
<1>1. RiskLabel(q) = "elevated" <=> \E kp \in KpOf(q) : kp >= Threshold
  BY RiskLabelProperties DEF KpOf
<1>2. RiskLabel(q) \in {"normal", "elevated"}
  BY RiskLabelProperties DEF Labels
<1> QED
  BY <1>1, <1>2 DEF LabelAfter

\* The alert at the end of a sequence of events looks at the label before it.
LEMMA NextRaises ==
  ASSUME NEW E, NEW n \in Nat
  PROVE  RaisesAlert(E, n + 1)
           <=> /\ IsNewest(E, n + 1)
               /\ LabelAfter(E, n + 1) = "elevated"
               /\ n + 1 > 1 => LabelAfter(E, n) = "normal"
<1>1. ASSUME NEW m, n = m
      PROVE  LabelAfter(E, m) = LabelAfter(E, n)
  BY <1>1
<1>2. n = n + 1 - 1
  OBVIOUS
<1>3. LabelAfter(E, n + 1 - 1) = LabelAfter(E, n)
  BY <1>1, <1>2
<1> QED
  BY <1>3 DEF RaisesAlert

\* A new result agrees with the events, given what has been told of the new state.
LEMMA ToldResult ==
  ASSUME IInv, AsTold, Told', NEW r \in Results, results' = Append(results, r),
         events' \in Seq(KpEvents), events' # <<>>,
         r.rolling_15m_max_kp = RollingMax(events'),
         r.risk_label = RiskLabel(events'),
         Len(results) + 1 \in Alerting' <=>
           /\ Len(results) + 1 \in Accepted'
           /\ RiskLabel(events') = "elevated" /\ alert_armed,
         Told
  PROVE  AsTold'
<1> DEFINE n == Len(results)
           E == Processed
           F == Processed'
<1>1. /\ n \in Nat /\ DOMAIN results = 1..n /\ DOMAIN results' = 1..(n + 1)
      /\ \A i \in 1..n : results'[i] = results[i]
      /\ results'[n + 1] = r
      /\ Alerting \subseteq 1..n
      /\ Alerting' = Alerting \/ Alerting' = Alerting \cup {n + 1}
  BY AppendedResult, AcceptedFacts DEF IInv, WindowInv, TypeOK
<1>2. Len(results') = n + 1 /\ results' # <<>>
  <2>1. results' \in Seq(Results) /\ Len(results') = n + 1
    BY AppendedResult DEF IInv, WindowInv, TypeOK
  <2> QED
    BY <1>1, <2>1, EmptySeq
<1> HIDE DEF n
<1>3. \A i \in 1..n : F[i] = E[i] /\ i \in 1..(n + 1)
  BY <1>1 DEF Processed
<1> HIDE DEF E, F
<1>4. \A i \in 1..n : /\ KpInWindow(F, i) = KpInWindow(E, i)
                      /\ LabelAfter(F, i) = LabelAfter(E, i)
                      /\ RaisesAlert(F, i) <=> RaisesAlert(E, i)
  BY <1>1, <1>3, EarlierEvents
<1>5. ASSUME NEW i \in 1..n
      PROVE  /\ results'[i].rolling_15m_max_kp = Max(KpInWindow(F, i))
             /\ results'[i].risk_label = LabelAfter(F, i)
             /\ i \in Alerting' <=> RaisesAlert(F, i)
  <2>1. i # n + 1
    BY <1>1
  <2>2. /\ results[i].rolling_15m_max_kp = Max(KpInWindow(E, i))
        /\ results[i].risk_label = LabelAfter(E, i)
        /\ i \in Alerting <=> RaisesAlert(E, i)
    BY <1>1 DEF AsTold, E
  <2> QED
    BY <1>1, <1>4, <2>1, <2>2
<1>6. KpInWindow(F, n + 1) = KpOf(events')
  BY <1>2 DEF Told, F, KpOf
<1>7. r.rolling_15m_max_kp = Max(KpInWindow(F, n + 1))
  BY <1>6 DEF RollingMax, KpOf
<1>8. RiskLabel(events') = LabelAfter(F, n + 1)
  BY <1>6, LabelIsTold
<1>9. n + 1 \in Accepted' <=> IsNewest(F, n + 1)
  BY <1>1 DEF Told, F
<1>10. alert_armed <=> (n + 1 > 1 => LabelAfter(F, n) = "normal")
  <2>1. alert_armed <=> \A kp \in KpOf(events) : kp < Threshold
    BY DEF IInv, AlertInv, ArmedIffQuiet, KpOf
  <2>2. events \in Seq(KpEvents)
    BY DEF IInv, WindowInv, TypeOK
  <2>3. alert_armed <=> RiskLabel(events) = "normal"
    BY <2>1, <2>2, RiskLabelProperties DEF KpOf
  <2>4. CASE n = 0
    <3>1. Accepted = {}
      BY <1>1, <2>4 DEF Accepted, WithStatus
    <3>2. {events[i] : i \in DOMAIN events} = {}
      BY <3>1 DEF IInv, WindowInv, WindowExact
    <3>3. \A i \in DOMAIN events : FALSE
      BY <3>2
    <3> QED
      BY <2>1, <2>4, <3>3 DEF KpOf
  <2>5. CASE n # 0
    <3>1. results # <<>> /\ n \in 1..n
      BY <1>1, <2>5, EmptySeq DEF n
    <3>2. KpInWindow(E, n) = KpOf(events)
      BY <3>1 DEF Told, E, n
    <3>3. RiskLabel(events) = LabelAfter(E, n)
      BY <2>2, <3>2, LabelIsTold
    <3> QED
      BY <1>1, <1>4, <2>3, <2>5, <3>1, <3>3
  <2> QED
    BY <2>4, <2>5
<1>11. n + 1 \in Alerting' <=> RaisesAlert(F, n + 1)
  <2>1. n + 1 - 1 = n
    BY <1>1
  <2>2. n + 1 \in Alerting' <=> n + 1 \in Accepted' /\ RiskLabel(events') = "elevated" /\ alert_armed
    BY DEF n
  <2>3. RaisesAlert(F, n + 1) <=> /\ IsNewest(F, n + 1)
                                  /\ LabelAfter(F, n + 1) = "elevated"
                                  /\ n + 1 > 1 => LabelAfter(F, n) = "normal"
    BY <1>1, NextRaises
  <2> QED
    BY <1>8, <1>9, <1>10, <2>2, <2>3
<1>12. \A i \in 1..(n + 1) : i \in 1..n \/ i = n + 1
  BY <1>1
<1>13. \A i \in 1..(n + 1) :
          /\ results'[i].rolling_15m_max_kp = Max(KpInWindow(F, i))
          /\ results'[i].risk_label = LabelAfter(F, i)
          /\ i \in Alerting' <=> RaisesAlert(F, i)
  <2>1. r.risk_label = LabelAfter(F, n + 1)
    BY <1>8
  <2> QED
    BY <1>1, <1>5, <1>7, <1>11, <1>12, <2>1
<1> QED
  BY <1>1, <1>13 DEF AsTold, F

LEMMA ToldStep ==
  ASSUME IInv, AsTold, Told, Told', [Next]_vars
  PROVE  AsTold'
<1> DEFINE n == Len(results)
<1>1. /\ n \in Nat /\ DOMAIN results = 1..n
      /\ Accepted \subseteq 1..n /\ Alerting \subseteq 1..n
      /\ results \in Seq(Results) /\ events \in Seq(KpEvents)
  BY LenProperties, AcceptedFacts DEF IInv, WindowInv, TypeOK
<1>2. n + 1 \notin 1..n
  BY <1>1
<1> HIDE DEF n
<1>3. ASSUME NEW e \in KpEvents, ProcessDuplicate(e) \/ ProcessLate(e)
      PROVE  AsTold'
  <2>1. PICK s \in Status \ {"accepted"} : results' = Append(results, SkippedResult(e, s))
    BY <1>3 DEF ProcessDuplicate, ProcessLate, Status
  <2> DEFINE r == SkippedResult(e, s)
  <2>2. Accepted # {} /\ events' = events
    BY <1>3, SkippedIsNotNewest DEF IInv, ProcessDuplicate, ProcessLate
  <2>3. r \in Results /\ events' \in Seq(KpEvents) /\ events' # <<>>
    BY <1>1, <2>2, SkippedResultType, WindowNotEmpty DEF IInv
  <2>4. /\ r.rolling_15m_max_kp = RollingMax(events') /\ r.risk_label = RiskLabel(events')
        /\ r.status = s /\ r.alert_emitted = FALSE
    BY <2>2 DEF SkippedResult
  <2> HIDE DEF r
  <2>5. n + 1 \notin Alerting' /\ n + 1 \notin Accepted'
    BY <1>1, <1>2, <2>1, <2>3, <2>4, AppendedResult DEF Accepted, n, r
  <2> QED
    BY <2>1, <2>3, <2>4, <2>5, ToldResult DEF r, n
<1>4. ASSUME NEW e \in KpEvents, ProcessAccepted(e)
      PROVE  AsTold'
  <2> DEFINE r == AcceptedResult(e)
  <2>1. ~ IsDuplicate(e) /\ ~ IsLate(e) /\ events' = NextWindow(e) /\ results' = Append(results, r)
    BY <1>4 DEF ProcessAccepted
  <2>2. r \in Results /\ events' \in Seq(KpEvents) /\ events' # <<>>
    BY <2>1, EmitsProperties, NextWindowProperties DEF IInv
  <2>3. /\ r.rolling_15m_max_kp = RollingMax(events') /\ r.risk_label = RiskLabel(events')
        /\ r.status = "accepted" /\ r.alert_emitted = Emits(e)
    BY <2>1 DEF AcceptedResult
  <2> HIDE DEF r
  <2>4. /\ n + 1 \in Accepted'
        /\ Alerting' = IF Emits(e) THEN Alerting \cup {n + 1} ELSE Alerting
    BY <1>1, <2>1, <2>2, <2>3, AppendedResult DEF Accepted, n
  <2>5. n + 1 \in Alerting' <=> Emits(e)
    BY <1>1, <1>2, <2>4
  <2>6. Emits(e) <=> RiskLabel(events') = "elevated" /\ alert_armed
    BY <2>1 DEF Emits
  <2> QED
    BY <2>1, <2>2, <2>3, <2>4, <2>5, <2>6, ToldResult DEF n
<1>5. CASE UNCHANGED vars
  BY <1>5 DEF vars, AsTold, Alerting, Processed
<1> QED
  BY <1>3, <1>4, <1>5 DEF Next, Process

\* The results of process() are a function of the events it has been given, whatever
\* their order: that of ResultsOf, which keeps no state (processor.py:121-155).
THEOREM ResultsAreFunctionOfEvents == Spec => []FunctionOfEvents
<1>1. Init => AsTold
  BY DEF Init, AsTold
<1>2. Spec => []Told
  BY StateIsTold, InductiveInvariant, PTL
<1>3. Spec => []AsTold
  BY <1>1, <1>2, ToldStep, InductiveInvariant, PTL DEF Spec
<1>4. IInv /\ Told /\ AsTold => FunctionOfEvents
  <2> SUFFICES ASSUME IInv, Told, AsTold PROVE FunctionOfEvents
    OBVIOUS
  <2> DEFINE E == Processed
             R == ResultsOf(E)
  <2>1. /\ DOMAIN results = 1..Len(results) /\ Len(results) \in Nat
        /\ results = [i \in DOMAIN results |-> results[i]]
        /\ \A i \in DOMAIN results : results[i] \in Results
    BY LenProperties, ElementOfSeq DEF IInv, WindowInv, TypeOK
  <2>2. DOMAIN E = DOMAIN results /\ \A i \in DOMAIN results : E[i] = results[i].event
    BY DEF Processed
  <2>3. DOMAIN R = DOMAIN results
    BY <2>2 DEF ResultsOf
  <2>4. ASSUME NEW i \in DOMAIN results
        PROVE  results[i] = R[i]
    <3> DEFINE x == results[i]
    <3>1. /\ x.event = E[i]
          /\ x.rolling_15m_max_kp = Max(KpInWindow(E, i))
          /\ x.risk_label = LabelAfter(E, i)
          /\ x.status = StatusOf(E, i)
      BY <2>2 DEF AsTold, Told
    <3>2. x.alert_emitted = RaisesAlert(E, i)
      <4>1. x.alert_emitted \in BOOLEAN
        BY <2>1 DEF Results
      <4>2. i \in Alerting <=> RaisesAlert(E, i)
        BY DEF AsTold
      <4>3. i \in Alerting <=> x.alert_emitted
        BY DEF Alerting
      <4>4. RaisesAlert(E, i) \in BOOLEAN
        BY DEF RaisesAlert
      <4> HIDE DEF x
      <4>5. \A a, b \in BOOLEAN : (a <=> b) => a = b
        OBVIOUS
      <4>6. x.alert_emitted <=> RaisesAlert(E, i)
        BY <4>2, <4>3, Zenon
      <4> QED
        BY <4>1, <4>4, <4>5, <4>6, Zenon
    <3>3. R[i] = [event |-> E[i], rolling_15m_max_kp |-> Max(KpInWindow(E, i)),
                  risk_label |-> LabelAfter(E, i), alert_emitted |-> RaisesAlert(E, i),
                  status |-> StatusOf(E, i)]
      BY <2>2 DEF ResultsOf
    <3>4. x = [event |-> x.event, rolling_15m_max_kp |-> x.rolling_15m_max_kp,
               risk_label |-> x.risk_label, alert_emitted |-> x.alert_emitted,
               status |-> x.status]
      BY <2>1 DEF Results
    <3> QED
      BY <3>1, <3>2, <3>3, <3>4, Zenon
  <2>5. R = [i \in DOMAIN results |-> R[i]]
    BY <2>2 DEF ResultsOf
  <2> QED
    BY <2>1, <2>3, <2>4, <2>5, Zenon DEF FunctionOfEvents
<1> QED
  BY <1>2, <1>3, <1>4, InductiveInvariant, PTL
=============================================================================
