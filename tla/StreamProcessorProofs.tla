----------------------- MODULE StreamProcessorProofs -----------------------
(***************************************************************************)
(* StreamProcessor for any topic, any number of expected events and every  *)
(* point at which it may fail or be killed. The invariant of the processor *)
(* inside the run (RollingKpProofs) is carried through the run, so that    *)
(* what is proved of RollingKp holds of the artifacts.                     *)
(***************************************************************************)
EXTENDS StreamProcessor, AlertOutputProofs

PP == INSTANCE RollingKpProofs WITH MaxMessages <- ExpectedEvents

\* The run gives the processor's constants values the processor accepts.
LEMMA ProcessorConstants == PP!ConstantsAssumption
  BY StreamAssumption DEF PP!ConstantsAssumption
-----------------------------------------------------------------------------
(* P and PP name the same processor.                                       *)

LEMMA SameWindow ==
  /\ P!KpEvents = PP!KpEvents /\ P!Results = PP!Results
  /\ \A q : P!RollingMax(q) = PP!RollingMax(q) /\ P!RiskLabel(q) = PP!RiskLabel(q)
  /\ \A e : P!NextWindow(e) = PP!NextWindow(e)
<1>1. P!KpEvents = PP!KpEvents
  BY DEF P!KpEvents, PP!KpEvents
<1>2. P!Results = PP!Results
  BY <1>1 DEF P!Results, PP!Results, P!Labels, PP!Labels, P!Status, PP!Status
<1>3. \A S : P!Max(S) = PP!Max(S) /\ P!Min(S) = PP!Min(S)
  BY DEF P!Max, PP!Max, P!Min, PP!Min
<1>4. \A q : P!RollingMax(q) = PP!RollingMax(q)
  BY <1>3 DEF P!RollingMax, PP!RollingMax
<1>5. \A q : P!RiskLabel(q) = PP!RiskLabel(q)
  BY <1>4 DEF P!RiskLabel, PP!RiskLabel
<1>6. \A q, c : P!Evict(q, c) = PP!Evict(q, c)
  BY <1>3 DEF P!Evict, PP!Evict, P!KeptIndices, PP!KeptIndices
<1>7. \A e : P!NextWindow(e) = PP!NextWindow(e)
  BY <1>6 DEF P!NextWindow, PP!NextWindow
<1> QED
  BY <1>1, <1>2, <1>4, <1>5, <1>7

LEMMA SameCardinality == \A S : PP!Cardinality(S) = Cardinality(S)
  BY DEF PP!Cardinality, Cardinality, PP!IsFiniteSet, IsFiniteSet

LEMMA SameProcess == \A e : P!Process(e) <=> PP!Process(e)
<1> TAKE e
<1>1. /\ P!IsDuplicate(e) <=> PP!IsDuplicate(e)
      /\ P!IsLate(e) <=> PP!IsLate(e)
  BY DEF P!IsDuplicate, PP!IsDuplicate, P!IsLate, PP!IsLate
<1>2. P!Emits(e) = PP!Emits(e)
  BY SameWindow DEF P!Emits, PP!Emits
<1>3. \A s : P!SkippedResult(e, s) = PP!SkippedResult(e, s)
  BY SameWindow DEF P!SkippedResult, PP!SkippedResult
<1>4. P!AcceptedResult(e) = PP!AcceptedResult(e)
  BY SameWindow, <1>2 DEF P!AcceptedResult, PP!AcceptedResult
<1>5. P!ArmedAfter(e) = PP!ArmedAfter(e)
  BY SameWindow, <1>2 DEF P!ArmedAfter, PP!ArmedAfter
<1>6. P!ProcessDuplicate(e) <=> PP!ProcessDuplicate(e)
  BY <1>1, <1>3 DEF P!ProcessDuplicate, PP!ProcessDuplicate
<1>7. P!ProcessLate(e) <=> PP!ProcessLate(e)
  BY <1>1, <1>3 DEF P!ProcessLate, PP!ProcessLate
<1>8. P!ProcessAccepted(e) <=> PP!ProcessAccepted(e)
  BY SameWindow, <1>1, <1>2, <1>4, <1>5 DEF P!ProcessAccepted, PP!ProcessAccepted
<1> QED
  BY <1>6, <1>7, <1>8 DEF P!Process, PP!Process

LEMMA SameSpec ==
  /\ P!Init <=> PP!Init
  /\ P!vars = PP!vars /\ (P!Next <=> PP!Next)
  /\ P!TypeOK <=> PP!TypeOK
<1>1. P!Init <=> PP!Init
  BY DEF P!Init, PP!Init
<1>2. P!vars = PP!vars
  BY DEF P!vars, PP!vars, P!counters, PP!counters
<1>3. P!Next <=> PP!Next
  BY SameWindow, SameProcess DEF P!Next, PP!Next
<1>4. P!TypeOK <=> PP!TypeOK
  BY SameWindow DEF P!TypeOK, PP!TypeOK
<1> QED
  BY <1>1, <1>2, <1>3, <1>4

LEMMA SameResultsOf == \A evs : PP!ResultsOf(evs) = P!ResultsOf(evs)
<1>1. \A S : P!Max(S) = PP!Max(S)
  BY DEF P!Max, PP!Max, P!Min, PP!Min
<1>2. \A evs, i : P!IsNewest(evs, i) = PP!IsNewest(evs, i)
  BY DEF P!IsNewest, PP!IsNewest
<1>3. \A evs, i : P!KpInWindow(evs, i) = PP!KpInWindow(evs, i)
  BY <1>2 DEF P!KpInWindow, PP!KpInWindow
<1>4. \A evs, i : P!LabelAfter(evs, i) = PP!LabelAfter(evs, i)
  BY <1>3 DEF P!LabelAfter, PP!LabelAfter
<1>5. \A evs, i : P!StatusOf(evs, i) = PP!StatusOf(evs, i)
  BY <1>2 DEF P!StatusOf, PP!StatusOf
<1>6. \A evs, i : P!RaisesAlert(evs, i) = PP!RaisesAlert(evs, i)
  BY <1>2, <1>4 DEF P!RaisesAlert, PP!RaisesAlert
<1> QED
  BY <1>1, <1>3, <1>4, <1>5, <1>6 DEF P!ResultsOf, PP!ResultsOf

\* One call of process appends a result of the event and keeps the invariant of
\* the processor.
LEMMA ProcessStep ==
  ASSUME PP!IInv, NEW e \in P!KpEvents, P!Process(e), Len(results) < ExpectedEvents
  PROVE  /\ PP!IInv'
         /\ P!Next
         /\ results \in Seq(P!Results) /\ results' \in Seq(P!Results)
         /\ Len(results') = Len(results) + 1
         /\ \A i \in 1..Len(results) : results'[i] = results[i]
         /\ results'[Len(results) + 1].event = e
<1>1. P!Next
  BY DEF P!Next
<1>2. PP!IInv'
  <2>1. [PP!Next]_PP!vars
    BY <1>1, SameSpec
  <2> QED
    BY <2>1, PP!NextIInv, ProcessorConstants
<1>3. results \in Seq(P!Results) /\ results' \in Seq(P!Results)
  BY <1>2, SameWindow DEF PP!IInv, PP!WindowInv, PP!TypeOK
<1>4. PICK r : results' = Append(results, r) /\ r.event = e
  BY DEF P!Process, P!ProcessDuplicate, P!ProcessLate, P!ProcessAccepted,
         P!SkippedResult, P!AcceptedResult
<1>5. results \in Seq(P!Results \cup {r})
  BY <1>3, SeqMonotonic
<1> QED
  BY <1>1, <1>2, <1>3, <1>4, <1>5, AppendProperties
-----------------------------------------------------------------------------
(* What is built from the results.                                         *)

\* The fields of a result of the processor.
LEMMA ResultFields ==
  ASSUME NEW r \in P!Results
  PROVE  /\ r.event.time_tag \in Int /\ r.event.kp_value \in Int
         /\ r.rolling_15m_max_kp \in Int
         /\ r.risk_label \in {"normal", "elevated"} /\ r.alert_emitted \in BOOLEAN
         /\ r.status \in {"accepted", "duplicate_skipped", "late_event_skipped"}
<1>1. /\ r.event \in P!KpEvents /\ r.rolling_15m_max_kp \in KpValues
      /\ r.risk_label \in {"normal", "elevated"} /\ r.alert_emitted \in BOOLEAN
      /\ r.status \in {"accepted", "duplicate_skipped", "late_event_skipped"}
  BY DEF P!Results, P!Labels, P!Status
<1>2. r.event.time_tag \in TimeTags /\ r.event.kp_value \in KpValues
  BY <1>1 DEF P!KpEvents
<1>3. TimeTags \subseteq Int /\ KpValues \subseteq Int
  <2>1. \A k \in 0..KpMax : k \in Int
    BY StreamAssumption
  <2> QED
    BY <2>1, StreamAssumption, Zenon
<1> QED
  BY <1>1, <1>2, <1>3

LEMMA AlertType ==
  ASSUME NEW r \in P!Results
  PROVE  Alert(r) \in Alerts
<1>1. /\ r.event.time_tag \in Int /\ r.event.kp_value \in Int
      /\ r.rolling_15m_max_kp \in Int /\ r.event.time_tag - Window \in Int
  BY ResultFields, StreamAssumption
<1> QED
  BY <1>1 DEF Alert, Alerts

\* One alert for each result that raised one, and nothing else.
LEMMA AlertsOfProperties ==
  ASSUME NEW rs \in Seq(P!Results)
  PROVE  /\ AlertsOf(rs) \in Seq(Alerts)
         /\ Len(AlertsOf(rs)) = Cardinality({i \in DOMAIN rs : rs[i].alert_emitted})
         /\ \A j \in DOMAIN AlertsOf(rs) :
              \E k \in DOMAIN rs : rs[k].alert_emitted /\ AlertsOf(rs)[j] = Alert(rs[k])
<1> DEFINE Raised == {Alert(rs[k]) : k \in Raising(rs, Len(rs))}
<1>1. ListsAlerts(AlertsOf(rs), rs, Len(rs))
  BY AlertsListed
<1>2. DOMAIN rs = 1..Len(rs) /\ Raising(rs, Len(rs)) = {i \in DOMAIN rs : rs[i].alert_emitted}
  BY LenProperties DEF Raising
<1>3. AlertsOf(rs) \in Seq(Raised) /\ Len(AlertsOf(rs)) = Cardinality(Raising(rs, Len(rs)))
  BY <1>1 DEF ListsAlerts
<1>4. Raised \subseteq Alerts
  <2>1. \A k \in DOMAIN rs : Alert(rs[k]) \in Alerts
    BY <1>2, ElementOfSeq, AlertType
  <2> QED
    BY <1>2, <2>1
<1>5. \A x \in Raised : \E k \in DOMAIN rs : rs[k].alert_emitted /\ x = Alert(rs[k])
  BY <1>2
<1> HIDE DEF Raised
<1>6. AlertsOf(rs) \in Seq(Alerts)
  BY <1>3, <1>4, SeqMonotonic
<1>7. \A j \in DOMAIN AlertsOf(rs) : AlertsOf(rs)[j] \in Raised
  BY <1>3, LenProperties, ElementOfSeq
<1> QED
  BY <1>2, <1>3, <1>5, <1>6, <1>7

\* What is built for an artifact is what that artifact can hold.
LEMMA BuiltContents ==
  ASSUME results \in Seq(P!Results), NEW a \in Artifacts
  PROVE  Built(a) \in Contents(a)
<1>1. Len(results) \in Nat /\ DOMAIN results = 1..Len(results)
      /\ \A i \in 1..Len(results) : results[i] \in P!Results
  BY LenProperties, ElementOfSeq
<1>2. ASSUME NEW S, S \subseteq DOMAIN results
      PROVE  Cardinality(S) \in Nat
  <2>1. IsFiniteSet(1..Len(results))
    BY <1>1, FS_Interval
  <2> QED
    BY <1>1, <1>2, <2>1, FS_Subset, FS_CardinalityType
<1>3. CASE a = "alert.json"
  <2>1. AlertsOf(results) \in Seq(Alerts) /\ Len(AlertsOf(results)) \in Nat
    BY AlertsOfProperties, LenProperties
  <2>2. \A s : WithStatus(results, s) \in Nat
    BY <1>2 DEF WithStatus
  <2> QED
    BY <1>1, <1>3, <2>1, <2>2
       DEF Built, Contents, BuildAlertOutput, RunCounts, AlertOutputs
<1>4. CASE a = "metrics.csv"
  <2> DEFINE Row(i) == [time_tag |-> results[i].event.time_tag, kp_value |-> results[i].event.kp_value,
             rolling_15m_max_kp |-> results[i].rolling_15m_max_kp, risk_label |-> results[i].risk_label,
             alert_emitted |-> results[i].alert_emitted, processing_status |-> results[i].status]
  <2>1. \A i \in 1..Len(results) : Row(i) \in MetricsRows
    BY <1>1, ResultFields DEF MetricsRows
  <2>2. [i \in 1..Len(results) |-> Row(i)] \in [1..Len(results) -> MetricsRows]
    <3> HIDE DEF Row
    <3> QED BY <2>1
  <2>3. [i \in 1..Len(results) |-> Row(i)] \in Seq(MetricsRows)
    <3> HIDE DEF Row
    <3> QED BY <1>1, <2>2, SeqDef, Zenon
  <2> QED
    BY <1>1, <1>4, <2>3 DEF Built, Contents, BuildMetricsRows
<1> QED
  BY <1>3, <1>4 DEF Artifacts
-----------------------------------------------------------------------------
(* The rank of a message among the valid ones.                             *)

LEMMA RankProperties ==
  ASSUME NEW k \in Nat
  PROVE  /\ IsFiniteSet(ValidUpTo(k)) /\ Rank(k) \in 0..k
         /\ \A i \in ValidUpTo(k) : Rank(i) \in 1..Rank(k)
         /\ ValidUpTo(k + 1) = IF topic[k + 1] # Malformed THEN ValidUpTo(k) \cup {k + 1}
                               ELSE ValidUpTo(k)
         /\ Rank(k + 1) = IF topic[k + 1] # Malformed THEN Rank(k) + 1 ELSE Rank(k)
<1>1. \A n \in Nat : IsFiniteSet(1..n) /\ Cardinality(1..n) = n
  BY FS_Interval
<1>2. ASSUME NEW n \in Nat
      PROVE  /\ IsFiniteSet(ValidUpTo(n)) /\ Rank(n) \in Nat /\ Rank(n) <= n
  <2>1. ValidUpTo(n) \subseteq 1..n
    BY DEF ValidUpTo
  <2> QED
    BY <1>1, <2>1, FS_Subset, FS_CardinalityType DEF Rank
<1>3. ASSUME NEW i \in ValidUpTo(k)
      PROVE  Rank(i) \in 1..Rank(k)
  <2>1. i \in 1..k /\ i \in ValidUpTo(i) /\ ValidUpTo(i) \subseteq ValidUpTo(k)
    BY DEF ValidUpTo
  <2>2. Rank(i) <= Rank(k)
    BY <1>2, <2>1, FS_Subset DEF Rank
  <2>3. Rank(i) # 0
    BY <1>2, <2>1, FS_EmptySet DEF Rank
  <2>4. i \in Nat
    BY <2>1
  <2> QED
    BY <1>2, <2>2, <2>3, <2>4
<1>4. ValidUpTo(k + 1) = IF topic[k + 1] # Malformed THEN ValidUpTo(k) \cup {k + 1}
                         ELSE ValidUpTo(k)
  <2>1. 1..(k + 1) = 1..k \cup {k + 1}
    OBVIOUS
  <2> QED
    BY <2>1 DEF ValidUpTo
<1>5. k + 1 \notin ValidUpTo(k)
  BY DEF ValidUpTo
<1>6. Rank(k + 1) = IF topic[k + 1] # Malformed THEN Rank(k) + 1 ELSE Rank(k)
  BY <1>2, <1>4, <1>5, FS_AddElement DEF Rank
<1> QED
  BY <1>2, <1>3, <1>4, <1>6

\* What is appended to the topic does not change the rank of what was there.
LEMMA RankKept ==
  ASSUME NEW k \in Nat, \A i \in 1..k : topic'[i] = topic[i]
  PROVE  /\ ValidUpTo(k)' = ValidUpTo(k)
         /\ \A i \in 0..k : Rank(i)' = Rank(i)
<1>1. \A n \in 0..k : ValidUpTo(n)' = ValidUpTo(n)
  <2>1. \A n \in 0..k : \A i \in 1..n : i \in 1..k
    OBVIOUS
  <2> QED
    BY <2>1 DEF ValidUpTo
<1> QED
  BY <1>1 DEF Rank
-----------------------------------------------------------------------------
(* The inductive invariant.                                                *)

\* The loop reads on exactly while events are missing, and the artifacts are
\* written exactly when all of them have been processed.
CountsEvents ==
  /\ pc = "start" => results = <<>>
  /\ pc = "consume" => Len(results) < ExpectedEvents
  /\ pc \in {"open", "fill", "replace"} => Len(results) = ExpectedEvents

\* How far the artifacts are, from where the run stands.
WritesInOrder ==
  /\ pc \in {"start", "consume", "open", "fill", "replace"} => ~ failed
  /\ pc = "replace" => temporary = Built(target)
  /\ target = "metrics.csv" =>
       Len(results) = ExpectedEvents /\ files["alert.json"] = Built("alert.json")
  /\ pc = "close" /\ ~ failed =>
       target = "metrics.csv" /\ files["metrics.csv"] = Built("metrics.csv")
  /\ files["metrics.csv"] # OldRun => target = "metrics.csv"
  /\ exit_code # None => pc = "exit"
  /\ exit_code = 0 =>
       target = "metrics.csv" /\ files["metrics.csv"] = Built("metrics.csv")

IInv == PP!IInv /\ TypeOK /\ ConsumesInOrder /\ CountsEvents /\ WritesInOrder /\ ArtifactsWhole

\* A run that has not begun, whatever is on the topic already.
NotStarted ==
  /\ P!Init
  /\ position = 0 /\ waited = 0 /\ idle = 0 /\ malformed_messages_skipped = 0
  /\ pc = "start" /\ consumer_open = FALSE
  /\ target = "alert.json" /\ temporary = None
  /\ failed = FALSE /\ exit_code = None

LEMMA StartIInv ==
  ASSUME NotStarted, topic \in Seq(P!KpEvents \cup {Malformed}),
         files = [a \in Artifacts |-> OldRun]
  PROVE  IInv
<1>1. PP!IInv
  <2>1. PP!Init
    BY SameSpec DEF NotStarted
  <2> QED
    BY <2>1, PP!InitIInv, ProcessorConstants
<1>2. P!TypeOK
  BY <1>1, SameSpec DEF PP!IInv, PP!WindowInv
<1>3. results = <<>> /\ Len(results) = 0 /\ DOMAIN results = {}
  BY DEF NotStarted, P!Init
<1>4. TypeOK
  <2>1. Len(topic) \in Nat
    BY LenProperties
  <2>2. position \in 0..Len(topic) /\ waited \in 0..IdleTimeout /\ idle \in Nat
    BY <2>1, StreamAssumption DEF NotStarted
  <2>3. DOMAIN files = Artifacts /\ \A a \in Artifacts : files[a] = OldRun
    OBVIOUS
  <2> QED
    BY <1>2, <2>1, <2>2, <2>3 DEF TypeOK, NotStarted, Artifacts
<1>5. ConsumesInOrder
  <2>1. ValidUpTo(0) = {} /\ Rank(0) = 0
    BY FS_EmptySet DEF ValidUpTo, Rank
  <2> QED
    BY <1>3, <2>1 DEF ConsumesInOrder, NotStarted
<1>6. CountsEvents /\ WritesInOrder /\ ArtifactsWhole
  BY <1>3, StreamAssumption
     DEF NotStarted, CountsEvents, WritesInOrder, ArtifactsWhole, Artifacts
<1> QED
  BY <1>1, <1>4, <1>5, <1>6 DEF IInv

LEMMA InitIInv == Init => IInv
<1>1. <<>> \in Seq(P!KpEvents \cup {Malformed})
  BY EmptySeq
<1> QED
  BY <1>1, StartIInv DEF Init, NotStarted

\* A step that leaves the processor, the part of the topic that was read and the
\* position alone keeps what was said of them.
LEMMA ReadingKept ==
  ASSUME IInv, UNCHANGED <<processor, position, malformed_messages_skipped>>,
         \A i \in 1..position : topic'[i] = topic[i]
  PROVE  /\ PP!IInv' /\ P!TypeOK' /\ ConsumesInOrder'
         /\ UNCHANGED P!vars
<1>1. UNCHANGED PP!vars
  BY DEF processor, PP!vars, PP!counters
<1>2. PP!IInv'
  BY <1>1, PP!StutterStep, ProcessorConstants DEF IInv
<1>3. P!TypeOK'
  BY <1>2, SameWindow DEF PP!IInv, PP!WindowInv, PP!TypeOK, P!TypeOK
<1>4. position \in Nat
  BY LenProperties DEF IInv, TypeOK
<1>5. /\ ValidUpTo(position)' = ValidUpTo(position)
      /\ \A i \in 0..position : Rank(i)' = Rank(i)
  <2>1. /\ \A i \in 0..position : Rank(i)' = Rank(i)
        /\ \A k \in Nat : k = position => ValidUpTo(k)' = ValidUpTo(k)
    BY <1>4, RankKept
  <2> QED
    BY <1>4, <2>1 DEF ValidUpTo
<1>6. ConsumesInOrder'
  <2>1. \A i \in ValidUpTo(position) : i \in 0..position /\ i \in 1..position
    BY <1>4 DEF ValidUpTo
  <2>2. Rank(position)' = Rank(position)
    BY <1>5 DEF Rank
  <2> QED
    BY <1>5, <2>1, <2>2 DEF ConsumesInOrder, IInv, processor
<1> QED
  BY <1>2, <1>3, <1>6 DEF processor, P!vars, P!counters

\* What is built does not change while the results do not.
LEMMA BuiltKept ==
  ASSUME UNCHANGED results
  PROVE  \A a : Built(a)' = Built(a)
  BY DEF Built
-----------------------------------------------------------------------------
(* The steps.                                                              *)

\* main up to the first consume call, and the polls that bring no event.
LEMMA ControlIInv ==
  ASSUME IInv, Subscribe \/ StartFails \/ PollNone \/ ConsumeTimeout \/ PollError
               \/ Close \/ Kill
  PROVE  IInv' /\ UNCHANGED P!vars
<1>0. UNCHANGED <<processor, topic, position, malformed_messages_skipped, writing>>
  BY DEF Subscribe, StartFails, PollNone, ConsumeTimeout, PollError, Close, Kill, Fail,
         consuming, writing
<1>1. PP!IInv' /\ P!TypeOK' /\ ConsumesInOrder' /\ UNCHANGED P!vars
  BY <1>0, ReadingKept
<1>2. results' = results /\ \A a : Built(a)' = Built(a)
  BY <1>0, BuiltKept DEF processor
<1>3. TypeOK'
  <2>1. waited' \in 0..IdleTimeout /\ idle' \in Nat
    BY StreamAssumption
       DEF IInv, TypeOK, Subscribe, StartFails, PollNone, CanPoll, ConsumeTimeout, PollError,
           Close, Kill, Fail, consuming
  <2>2. /\ pc' \in {"start", "consume", "open", "fill", "replace", "close", "exit", "killed"}
        /\ consumer_open' \in BOOLEAN /\ failed' \in BOOLEAN
        /\ exit_code' \in {None, 0, 1}
    BY DEF IInv, TypeOK, Subscribe, StartFails, PollNone, CanPoll, ConsumeTimeout, PollError,
           Close, Kill, Fail
  <2> QED
    BY <1>0, <1>1, <2>1, <2>2 DEF IInv, TypeOK, writing
<1>4. CountsEvents'
  <2>1. results = <<>> => Len(results) < ExpectedEvents
    BY StreamAssumption
  <2> QED
    BY <1>2, <2>1
       DEF IInv, CountsEvents, Subscribe, StartFails, PollNone, CanPoll, ConsumeTimeout,
           PollError, Close, Kill, Fail
<1>5. WritesInOrder'
  BY <1>0, <1>2, StreamAssumption
     DEF IInv, TypeOK, WritesInOrder, Subscribe, StartFails, PollNone, CanPoll,
         ConsumeTimeout, PollError, Close, Kill, Fail, writing
<1>6. ArtifactsWhole'
  BY <1>0, <1>2 DEF IInv, ArtifactsWhole, writing
<1> QED
  BY <1>1, <1>3, <1>4, <1>5, <1>6 DEF IInv

\* A malformed message is counted and passed over.
LEMMA MalformedIInv ==
  ASSUME IInv, PollMalformed
  PROVE  IInv' /\ UNCHANGED P!vars
<1>0. UNCHANGED <<processor, topic, writing>>
      /\ position' = position + 1
      /\ malformed_messages_skipped' = malformed_messages_skipped + 1
      /\ topic[position + 1] = Malformed
  BY DEF PollMalformed
<1>1. /\ UNCHANGED PP!vars /\ UNCHANGED P!vars
      /\ results' = results /\ \A a : Built(a)' = Built(a)
  BY <1>0, BuiltKept DEF processor, PP!vars, PP!counters, P!vars, P!counters
<1>2. PP!IInv'
  BY <1>1, PP!StutterStep, ProcessorConstants DEF IInv
<1>3. position \in Nat /\ position + 1 <= Len(topic) /\ Len(topic) \in Nat
  BY LenProperties DEF PollMalformed, Unread, IInv, TypeOK
<1>4. TypeOK'
  <2>1. P!TypeOK'
    BY <1>2, SameWindow DEF PP!IInv, PP!WindowInv, PP!TypeOK, P!TypeOK
  <2> QED
    BY <1>0, <1>3, <2>1, StreamAssumption DEF IInv, TypeOK, PollMalformed, CanPoll, writing
<1>5. ConsumesInOrder'
  <2>1. ValidUpTo(position + 1) = ValidUpTo(position) /\ Rank(position + 1) = Rank(position)
        /\ Rank(position) \in Nat
    <3>1. /\ Rank(position) \in 0..position
          /\ ValidUpTo(position + 1) = IF topic[position + 1] # Malformed
                                       THEN ValidUpTo(position) \cup {position + 1}
                                       ELSE ValidUpTo(position)
          /\ Rank(position + 1) = IF topic[position + 1] # Malformed
                                  THEN Rank(position) + 1 ELSE Rank(position)
      BY <1>3, RankProperties
    <3> QED
      BY <1>0, <3>1
  <2>2. \A k : ValidUpTo(k)' = ValidUpTo(k) /\ Rank(k)' = Rank(k)
    BY <1>0 DEF ValidUpTo, Rank
  <2>3. ValidUpTo(position)' = ValidUpTo(position) /\ Rank(position)' = Rank(position)
    BY <1>0, <2>1 DEF ValidUpTo, Rank
  <2> QED
    BY <1>0, <1>1, <1>3, <2>1, <2>2, <2>3 DEF IInv, TypeOK, ConsumesInOrder
<1>6. CountsEvents' /\ WritesInOrder' /\ ArtifactsWhole'
  BY <1>0, <1>1
     DEF IInv, CountsEvents, WritesInOrder, ArtifactsWhole, PollMalformed, CanPoll, writing
<1> QED
  BY <1>1, <1>2, <1>4, <1>5, <1>6 DEF IInv

\* A valid message becomes the next result, and the last one ends the loop.
LEMMA EventIInv ==
  ASSUME IInv, PollEvent
  PROVE  IInv' /\ P!Next
<1> DEFINE e == topic[position + 1]
<1>0. /\ pc = "consume" /\ waited < IdleTimeout /\ position < Len(topic) /\ e # Malformed
      /\ P!Process(e) /\ position' = position + 1
      /\ pc' = IF LoopContinues THEN "consume" ELSE "open"
      /\ UNCHANGED <<topic, malformed_messages_skipped, consumer_open, writing, failed, exit_code>>
  BY DEF PollEvent, CanPoll, Unread
<1>1. position \in Nat /\ Len(topic) \in Nat /\ position + 1 \in 1..Len(topic)
  BY <1>0, LenProperties DEF IInv, TypeOK
<1>2. e \in P!KpEvents
  BY <1>0, <1>1, ElementOfSeq DEF IInv, TypeOK
<1>3. Len(results) < ExpectedEvents
  BY <1>0 DEF IInv, CountsEvents
<1> HIDE DEF e
<1>4. /\ PP!IInv' /\ P!Next
      /\ results \in Seq(P!Results) /\ results' \in Seq(P!Results)
      /\ Len(results') = Len(results) + 1
      /\ \A i \in 1..Len(results) : results'[i] = results[i]
      /\ results'[Len(results) + 1].event = e
  BY <1>0, <1>2, <1>3, ProcessStep DEF IInv
<1>5. Len(results) \in Nat
  BY <1>4, LenProperties
<1>6. TypeOK'
  <2>1. P!TypeOK'
    BY <1>4, SameWindow DEF PP!IInv, PP!WindowInv, PP!TypeOK, P!TypeOK
  <2> QED
    BY <1>0, <1>1, <2>1, StreamAssumption DEF IInv, TypeOK, PollEvent, writing
<1>7. ConsumesInOrder'
  <2>1. /\ ValidUpTo(position + 1) = ValidUpTo(position) \cup {position + 1}
        /\ Rank(position + 1) = Rank(position) + 1
        /\ Rank(position) \in Nat
        /\ \A i \in ValidUpTo(position) : Rank(i) \in 1..Rank(position)
    <3>1. e # Malformed
      BY <1>0
    <3>2. /\ Rank(position) \in 0..position
          /\ \A i \in ValidUpTo(position) : Rank(i) \in 1..Rank(position)
      BY <1>1, RankProperties
    <3>3. /\ ValidUpTo(position + 1) = IF e # Malformed THEN ValidUpTo(position) \cup {position + 1}
                                       ELSE ValidUpTo(position)
          /\ Rank(position + 1) = IF e # Malformed THEN Rank(position) + 1 ELSE Rank(position)
      BY <1>1, RankProperties DEF e
    <3> QED
      BY <3>1, <3>2, <3>3
  <2>2. \A k : ValidUpTo(k)' = ValidUpTo(k) /\ Rank(k)' = Rank(k)
    BY <1>0 DEF ValidUpTo, Rank
  <2>3. /\ ValidUpTo(position)' = ValidUpTo(position) \cup {position + 1}
        /\ Rank(position)' = Rank(position) + 1
    BY <1>0, <2>1 DEF ValidUpTo, Rank
  <2>4. Len(results) = Rank(position)
    BY DEF IInv, ConsumesInOrder
  <2>5. ASSUME NEW i \in ValidUpTo(position)'
        PROVE  (results[Rank(i)].event = topic[i])'
    <3>1. CASE i \in ValidUpTo(position)
      <4>1. results[Rank(i)].event = topic[i] /\ Rank(i) \in 1..Len(results)
        BY <2>1, <2>4, <3>1 DEF IInv, ConsumesInOrder
      <4> QED
        BY <1>0, <1>4, <2>2, <4>1
    <3>2. CASE i = position + 1
      BY <1>0, <1>4, <2>1, <2>2, <2>4, <3>2 DEF e
    <3> QED
      BY <2>3, <2>5, <3>1, <3>2
  <2> QED
    BY <1>0, <1>1, <1>4, <2>1, <2>3, <2>4, <2>5 DEF IInv, TypeOK, ConsumesInOrder
<1>8. CountsEvents'
  BY <1>0, <1>3, <1>4, <1>5, StreamAssumption DEF CountsEvents, LoopContinues
<1>9. \A a \in Artifacts : files[a] = OldRun /\ target # "metrics.csv"
  BY <1>3 DEF IInv, ArtifactsWhole, WritesInOrder
<1>10. WritesInOrder' /\ ArtifactsWhole'
  BY <1>0, <1>9 DEF IInv, WritesInOrder, ArtifactsWhole, Artifacts, writing
<1> QED
  BY <1>4, <1>6, <1>7, <1>8, <1>10 DEF IInv

\* The writers.
LEMMA WriterIInv ==
  ASSUME IInv, OpenTemporary \/ FillTemporary \/ Replace \/ WriteFails
  PROVE  IInv' /\ UNCHANGED P!vars
<1>0. /\ UNCHANGED <<processor, topic, consuming, exit_code>>
      /\ pc \in {"open", "fill", "replace"}
  BY DEF OpenTemporary, FillTemporary, Replace, WriteFails
<1>1. PP!IInv' /\ P!TypeOK' /\ ConsumesInOrder' /\ UNCHANGED P!vars
  BY <1>0, ReadingKept DEF consuming
<1>2. results' = results /\ \A a : Built(a)' = Built(a)
  BY <1>0, BuiltKept DEF processor
<1>3. /\ Len(results) = ExpectedEvents /\ ~ failed /\ target \in Artifacts
      /\ DOMAIN files = Artifacts
      /\ \A a \in Artifacts : files[a] \in {OldRun} \cup Contents(a)
      /\ exit_code = None
      /\ \A a \in Artifacts : Built(a) \in Contents(a)
      /\ pc = "replace" => temporary = Built(target)
  BY <1>0, BuiltContents DEF IInv, CountsEvents, WritesInOrder, TypeOK, P!TypeOK
<1>4. TypeOK'
  <2>1. /\ topic' \in Seq(P!KpEvents \cup {Malformed})
        /\ position' \in 0..Len(topic')
        /\ waited' \in 0..IdleTimeout /\ idle' \in Nat
        /\ malformed_messages_skipped' \in Nat
        /\ exit_code' \in {None, 0, 1}
    BY <1>0 DEF IInv, TypeOK, consuming
  <2>2. /\ pc' \in {"start", "consume", "open", "fill", "replace", "close", "exit", "killed"}
        /\ consumer_open' \in BOOLEAN /\ failed' \in BOOLEAN
        /\ target' \in Artifacts
    BY <1>3 DEF OpenTemporary, FillTemporary, Replace, WriteFails, Fail, IInv, TypeOK,
                Artifacts
  <2>3. temporary' \in {None, Partial} \cup Contents(target')
    BY <1>3 DEF OpenTemporary, FillTemporary, Replace, WriteFails, IInv, TypeOK
  <2>4. /\ DOMAIN files' = Artifacts
        /\ \A a \in Artifacts : files'[a] \in {OldRun} \cup Contents(a)
    BY <1>3 DEF OpenTemporary, FillTemporary, Replace, WriteFails
  <2> QED
    BY <1>1, <2>1, <2>2, <2>3, <2>4 DEF TypeOK
<1>5. CountsEvents'
  BY <1>2, <1>3
     DEF CountsEvents, OpenTemporary, FillTemporary, Replace, WriteFails, Fail
<1>6. WritesInOrder'
  BY <1>0, <1>2, <1>3
     DEF IInv, WritesInOrder, OpenTemporary, FillTemporary, Replace, WriteFails, Fail,
         Artifacts
<1>7. ArtifactsWhole'
  BY <1>2, <1>3
     DEF IInv, ArtifactsWhole, OpenTemporary, FillTemporary, Replace, WriteFails
<1> QED
  BY <1>1, <1>4, <1>5, <1>6, <1>7 DEF IInv

\* A producer appends to the topic.
LEMMA AppendIInv ==
  ASSUME IInv, NEW m \in P!KpEvents \cup {Malformed}, topic' = Append(topic, m),
         UNCHANGED <<processor, consuming, pc, consumer_open, writing, failed, exit_code>>
  PROVE  IInv' /\ UNCHANGED P!vars
<1>1. /\ topic' \in Seq(P!KpEvents \cup {Malformed})
      /\ Len(topic') = Len(topic) + 1 /\ Len(topic) \in Nat
      /\ \A i \in 1..Len(topic) : topic'[i] = topic[i]
  BY AppendProperties, LenProperties DEF IInv, TypeOK
<1>2. PP!IInv' /\ P!TypeOK' /\ ConsumesInOrder' /\ UNCHANGED P!vars
  <2>1. \A i \in 1..position : topic'[i] = topic[i]
    BY <1>1 DEF IInv, TypeOK
  <2> QED
    BY <2>1, ReadingKept DEF consuming
<1>3. results' = results /\ \A a : Built(a)' = Built(a)
  BY BuiltKept DEF processor
<1>4. TypeOK'
  BY <1>1, <1>2 DEF IInv, TypeOK, consuming, writing
<1>5. CountsEvents' /\ WritesInOrder' /\ ArtifactsWhole'
  BY <1>3 DEF IInv, CountsEvents, WritesInOrder, ArtifactsWhole, writing
<1> QED
  BY <1>2, <1>4, <1>5 DEF IInv

\* Every step keeps the invariant, and is a step or a stutter of the processor.
LEMMA NextIInv == IInv /\ [Next]_vars => IInv' /\ [P!Next]_P!vars
<1> SUFFICES ASSUME IInv, [Next]_vars
             PROVE  IInv' /\ [P!Next]_P!vars
  OBVIOUS
<1>1. CASE Run
  BY <1>1, ControlIInv, MalformedIInv, EventIInv, WriterIInv DEF Run
<1>2. CASE Fault
  BY <1>2, ControlIInv, WriterIInv DEF Fault
<1>3. CASE Produce
  BY <1>3, AppendIInv DEF Produce
<1>4. CASE UNCHANGED vars
  <2>1. UNCHANGED <<processor, topic, consuming, pc, consumer_open, writing, failed, exit_code>>
    BY <1>4 DEF vars
  <2>2. PP!IInv' /\ P!TypeOK' /\ ConsumesInOrder' /\ UNCHANGED P!vars
    BY <2>1, ReadingKept DEF consuming
  <2>3. results' = results /\ \A a : Built(a)' = Built(a)
    BY <2>1, BuiltKept DEF processor
  <2>4. TypeOK'
    BY <2>1, <2>2 DEF IInv, TypeOK, consuming, writing
  <2>5. CountsEvents' /\ WritesInOrder' /\ ArtifactsWhole'
    BY <2>1, <2>3 DEF IInv, CountsEvents, WritesInOrder, ArtifactsWhole, writing
  <2> QED
    BY <2>2, <2>4, <2>5 DEF IInv
<1> QED
  BY <1>1, <1>2, <1>3, <1>4 DEF Next
-----------------------------------------------------------------------------
(* The theorems.                                                           *)

\* The inductive invariant holds in every reachable state.
THEOREM InductiveInvariant == Spec => []IInv
  BY InitIInv, NextIInv, PTL DEF Spec

\* Type correctness; in particular what is on disk under the name of an artifact is
\* always of that artifact's form (stream_processor.py:76-77).
THEOREM TypeCorrect == Spec => []TypeOK
<1>1. IInv => TypeOK
  BY DEF IInv
<1> QED
  BY <1>1, InductiveInvariant, PTL

\* Valid messages are processed once each and in their order, malformed ones are
\* counted and nothing else (stream_processor.py:67-74).
THEOREM ReadInOrder == Spec => []ConsumesInOrder
<1>1. IInv => ConsumesInOrder
  BY DEF IInv
<1> QED
  BY <1>1, InductiveInvariant, PTL

\* No reader ever finds a part of an artifact, wherever the run fails or is killed
\* (alert_output.py:94-110, metrics_output.py:57-77).
THEOREM ArtifactsAreWhole == Spec => []ArtifactsWhole
<1>1. IInv => ArtifactsWhole
  BY DEF IInv
<1> QED
  BY <1>1, InductiveInvariant, PTL

\* The run drives its processor as RollingKp says, for the expected number of events
\* and not one more: all that is proved of RollingKp holds inside the run
\* (stream_processor.py:56-77).
THEOREM ProcessorImplemented == Spec => ImplementsProcessor
<1>1. Init => P!Init
  BY DEF Init
<1> QED
  BY <1>1, InductiveInvariant, NextIInv, PTL DEF Spec, ImplementsProcessor, P!Spec

\* In the final state of a successful run the artifacts and the processor's counters
\* tell one story.
LEMMA CompleteAtExit == IInv => ExitZeroMeansComplete
<1> SUFFICES ASSUME IInv, exit_code = 0
             PROVE  ExitZeroMeansComplete
  BY DEF ExitZeroMeansComplete
<1> DEFINE alert == files["alert.json"]
           rows  == files["metrics.csv"]
           Rows(s) == Cardinality({i \in DOMAIN rows : rows[i].processing_status = s})
<1>1. /\ alert = BuildAlertOutput(results) /\ rows = BuildMetricsRows(results)
      /\ Len(results) = ExpectedEvents
      /\ Built("alert.json") = alert /\ Built("metrics.csv") = rows
  <2>1. target = "metrics.csv" /\ files["metrics.csv"] = Built("metrics.csv")
    BY DEF IInv, WritesInOrder
  <2> QED
    BY <2>1 DEF IInv, WritesInOrder, Built
<1>2. results \in Seq(P!Results)
  BY DEF IInv, TypeOK, P!TypeOK
<1>3. DOMAIN results = 1..Len(results) /\ Len(results) \in Nat
  BY <1>2, LenProperties
<1>4. alert # OldRun /\ rows # OldRun
  BY <1>1, <1>2, BuiltContents, StreamAssumption DEF Artifacts
<1>5. /\ DOMAIN rows = DOMAIN results /\ Len(rows) = ExpectedEvents
      /\ \A i \in DOMAIN results : /\ rows[i].processing_status = results[i].status
                                   /\ rows[i].alert_emitted = results[i].alert_emitted
                                   /\ rows[i].time_tag = results[i].event.time_tag
  <2>1. /\ DOMAIN rows = DOMAIN results
        /\ \A i \in DOMAIN results : /\ rows[i].processing_status = results[i].status
                                     /\ rows[i].alert_emitted = results[i].alert_emitted
                                     /\ rows[i].time_tag = results[i].event.time_tag
    BY <1>1 DEF BuildMetricsRows
  <2>2. rows \in Seq(MetricsRows)
    BY <1>1, <1>2, BuiltContents DEF Artifacts, Contents
  <2>3. Len(rows) = Len(results)
    BY <1>3, <2>1, <2>2, LenProperties
  <2> QED
    BY <1>1, <2>1, <2>3
<1>6. /\ messages_seen = Len(results)
      /\ accepted_count = WithStatus(results, "accepted")
      /\ duplicate_count = WithStatus(results, "duplicate_skipped")
      /\ late_count = WithStatus(results, "late_event_skipped")
      /\ alerts_emitted = Cardinality({i \in DOMAIN results : results[i].alert_emitted})
  <2>1. /\ messages_seen = Len(results)
        /\ accepted_count = Cardinality(PP!Accepted)
        /\ duplicate_count = Cardinality(PP!WithStatus("duplicate_skipped"))
        /\ late_count = Cardinality(PP!WithStatus("late_event_skipped"))
        /\ alerts_emitted = Cardinality(PP!Alerting)
    BY SameCardinality DEF IInv, PP!IInv, PP!CountsAgree
  <2>2. \A s : Cardinality(PP!WithStatus(s)) = WithStatus(results, s)
    BY DEF PP!WithStatus, WithStatus
  <2>3. PP!Accepted = PP!WithStatus("accepted")
    BY DEF PP!Accepted
  <2>4. PP!Alerting = {i \in DOMAIN results : results[i].alert_emitted}
    BY DEF PP!Alerting
  <2> QED
    BY <2>1, <2>2, <2>3, <2>4
<1>7. \A s : Rows(s) = WithStatus(results, s)
  <2>1. ASSUME NEW s
        PROVE  {i \in DOMAIN rows : rows[i].processing_status = s}
                 = {i \in DOMAIN results : results[i].status = s}
    BY <1>5
  <2> QED
    BY <2>1 DEF WithStatus
<1>8. /\ alert.run_counts = RunCounts(results) /\ alert.alerts = AlertsOf(results)
      /\ alert.run_counts.messages_consumed = Len(results)
      /\ alert.run_counts.unique_events = WithStatus(results, "accepted")
      /\ alert.run_counts.duplicates_skipped = WithStatus(results, "duplicate_skipped")
      /\ alert.run_counts.late_events_skipped = WithStatus(results, "late_event_skipped")
      /\ alert.run_counts.alerts_emitted = Len(AlertsOf(results))
  BY <1>1 DEF BuildAlertOutput, RunCounts
<1>9. Len(AlertsOf(results)) = alerts_emitted
  BY <1>2, <1>6, AlertsOfProperties
<1>10. \A i \in DOMAIN alert.alerts :
         \E k \in DOMAIN rows :
            rows[k].alert_emitted /\ rows[k].time_tag = alert.alerts[i].triggered_at
  <2>1. \A i \in DOMAIN AlertsOf(results) :
          \E k \in DOMAIN results :
             results[k].alert_emitted /\ AlertsOf(results)[i] = Alert(results[k])
    BY <1>2, AlertsOfProperties
  <2>2. \A r : Alert(r).triggered_at = r.event.time_tag
    BY DEF Alert
  <2> QED
    BY <1>5, <1>8, <2>1, <2>2
<1> HIDE DEF Rows
<1> QED
  BY <1>1, <1>4, <1>5, <1>6, <1>7, <1>8, <1>9, <1>10 DEF ExitZeroMeansComplete, Rows

\* Exit code 0 promises both artifacts of this run, and that their counts, their rows
\* and the processor's counters agree (run_demo.sh:71-80, stream_processor.py:138-145).
THEOREM ExitZeroIsComplete == Spec => []ExitZeroMeansComplete
  BY CompleteAtExit, InductiveInvariant, PTL

\* The events a list of which the artifacts are built from: as many as were expected,
\* the valid messages of the topic in their order.
IsReadFrom(evs, n) ==
  /\ Len(evs) = ExpectedEvents /\ Rank(n) = ExpectedEvents
  /\ \A i \in ValidUpTo(n) : evs[Rank(i)] = topic[i]

\* The artifacts of a successful run depend on nothing but the valid messages read.
ArtifactsTellTheTopic ==
  exit_code = 0 =>
    \E evs \in Seq(P!KpEvents) :
       /\ IsReadFrom(evs, position)
       /\ files["alert.json"] = BuildAlertOutput(P!ResultsOf(evs))
       /\ files["metrics.csv"] = BuildMetricsRows(P!ResultsOf(evs))

LEMMA TopicIsTold == IInv /\ PP!FunctionOfEvents => ArtifactsTellTheTopic
<1> SUFFICES ASSUME IInv, PP!FunctionOfEvents, exit_code = 0
             PROVE  ArtifactsTellTheTopic
  BY DEF ArtifactsTellTheTopic
<1> DEFINE evs == PP!Processed
           n == Len(results)
<1>1. /\ files["alert.json"] = BuildAlertOutput(results)
      /\ files["metrics.csv"] = BuildMetricsRows(results)
      /\ n = ExpectedEvents
  BY DEF IInv, WritesInOrder, Built
<1>2. /\ n \in Nat /\ DOMAIN results = 1..n
      /\ \A i \in 1..n : results[i].event \in P!KpEvents
  <2>1. results \in Seq(P!Results)
    BY DEF IInv, TypeOK, P!TypeOK
  <2>2. n \in Nat /\ DOMAIN results = 1..n /\ \A i \in 1..n : results[i] \in P!Results
    BY <2>1, LenProperties, ElementOfSeq
  <2> QED
    BY <2>2 DEF P!Results
<1> HIDE DEF n
<1>3. evs = [i \in 1..n |-> results[i].event]
  BY <1>2 DEF PP!Processed
<1>4. evs \in Seq(P!KpEvents) /\ Len(evs) = n
  <2>1. evs \in [1..n -> P!KpEvents]
    BY <1>2, <1>3
  <2>2. evs \in Seq(P!KpEvents)
    <3> HIDE DEF evs
    <3> QED
      BY <1>2, <2>1, SeqDef
  <2> QED
    BY <1>2, <1>3, <2>2, LenProperties
<1>5. IsReadFrom(evs, position)
  <2>1. position \in Nat /\ Rank(position) = n
    BY LenProperties DEF IInv, TypeOK, ConsumesInOrder, n
  <2>2. \A i \in ValidUpTo(position) : Rank(i) \in 1..n /\ results[Rank(i)].event = topic[i]
    BY <2>1, RankProperties DEF IInv, ConsumesInOrder
  <2> QED
    BY <1>1, <1>3, <1>4, <2>1, <2>2 DEF IsReadFrom
<1>6. results = P!ResultsOf(evs)
  BY SameResultsOf DEF PP!FunctionOfEvents
<1> HIDE DEF evs
<1> QED
  BY <1>1, <1>4, <1>5, <1>6 DEF ArtifactsTellTheTopic

\* Both artifacts of a successful run are functions of the valid messages read, in
\* their order: when they came, between which malformed ones and after how many empty
\* polls makes no difference (stream_processor.py:56-77).
THEOREM ArtifactsAreFunctionOfTopic == Spec => []ArtifactsTellTheTopic
<1>1. Spec => PP!Spec
  <2>1. Init => PP!Init
    BY SameSpec DEF Init
  <2>2. IInv /\ [Next]_vars => [PP!Next]_PP!vars
    <3> SUFFICES ASSUME IInv, [Next]_vars PROVE [PP!Next]_PP!vars
      OBVIOUS
    <3>1. [P!Next]_P!vars
      BY NextIInv
    <3>2. UNCHANGED P!vars => UNCHANGED PP!vars
      BY DEF P!vars, PP!vars, P!counters, PP!counters
    <3> QED
      BY <3>1, <3>2, SameSpec
  <2> QED
    BY <2>1, <2>2, InductiveInvariant, PTL DEF Spec, PP!Spec
<1>2. PP!Spec => []PP!FunctionOfEvents
  BY PP!ResultsAreFunctionOfEvents, ProcessorConstants
<1> QED
  BY <1>1, <1>2, TopicIsTold, InductiveInvariant, PTL
=============================================================================
