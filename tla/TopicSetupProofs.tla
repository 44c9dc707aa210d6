-------------------------- MODULE TopicSetupProofs --------------------------
(***************************************************************************)
(* TopicSetup for any number of callers and every order of their steps and *)
(* the broker's. What a caller concludes from metadata stays true because  *)
(* a topic, once there, keeps its partitions, and metadata never speak of  *)
(* a topic that is not there.                                              *)
(***************************************************************************)
EXTENDS TopicSetup, TLAPS

\* Every variable has its type.
TypeOK ==
  /\ topic \in {0, Partitions, Foreign}
  /\ metadata \in {"absent", "error", "usable"}
  /\ pc \in [Processes -> {"list", "create", "verify"} \cup Ended]
  /\ request \in [Processes -> {"none", "sent", "created", "exists", "refused"}]
  /\ faulty \in BOOLEAN

\* Metadata speak of topics that exist, and a foreign topic is a fault.
MetadataSound ==
  /\ topic = 0 => metadata = "absent"
  /\ topic = Foreign => faulty

\* What each outcome of a request and of a call says of the rest.
OutcomeSound(p) ==
  /\ request[p] = "refused" => faulty
  /\ pc[p] = "ready" => topic = Partitions
  /\ pc[p] = "KafkaConfigurationError" => topic = Foreign
  /\ pc[p] \in Ended \ {"ready"} => faulty

IInv == TypeOK /\ MetadataSound /\ \A p \in Processes : OutcomeSound(p)
-----------------------------------------------------------------------------
\* A step of one caller that leaves the topic, the metadata and the other callers
\* alone keeps the invariant if it leaves this caller with a sound outcome.
LEMMA CallerStep ==
  ASSUME IInv, NEW p \in Processes,
         NEW where \in {"list", "create", "verify"} \cup Ended,
         NEW answer \in {"none", "sent", "created", "exists", "refused"},
         pc' = [pc EXCEPT ![p] = where],
         request' = [request EXCEPT ![p] = answer],
         faulty' \in BOOLEAN, faulty => faulty',
         UNCHANGED <<topic, metadata>>,
         answer = "refused" => faulty',
         where = "ready" => topic = Partitions,
         where = "KafkaConfigurationError" => topic = Foreign,
         where \in Ended \ {"ready"} => faulty'
  PROVE  IInv'
<1>1. TypeOK'
  BY DEF IInv, TypeOK
<1>2. MetadataSound'
  BY DEF IInv, MetadataSound
<1>3. \A q \in Processes : OutcomeSound(q)'
  <2> SUFFICES ASSUME NEW q \in Processes PROVE OutcomeSound(q)'
    OBVIOUS
  <2>1. CASE q = p
    BY <2>1 DEF IInv, TypeOK, OutcomeSound
  <2>2. CASE q # p
    BY <2>2 DEF IInv, TypeOK, OutcomeSound
  <2> QED
    BY <2>1, <2>2
<1> QED
  BY <1>1, <1>2, <1>3 DEF IInv

\* A step of the broker on the topic or its metadata keeps the invariant if the
\* topic is not taken away and nothing is said of one that is not there.
LEMMA BrokerStep ==
  ASSUME IInv, UNCHANGED pc,
         request' \in [Processes -> {"none", "sent", "created", "exists", "refused"}],
         \A q \in Processes : request'[q] = "refused" => faulty',
         topic' \in {0, Partitions, Foreign}, topic # 0 => topic' = topic,
         metadata' \in {"absent", "error", "usable"},
         faulty' \in BOOLEAN, faulty => faulty',
         MetadataSound'
  PROVE  IInv'
<1>1. TypeOK'
  BY DEF IInv, TypeOK
<1>2. \A q \in Processes : OutcomeSound(q)'
  BY PartitionsAssumption DEF IInv, TypeOK, OutcomeSound
<1> QED
  BY <1>1, <1>2 DEF IInv

\* The metadata of a topic lead to a verdict that holds.
LEMMA MetadataVerdict ==
  ASSUME IInv, NEW p \in Processes, metadata # "absent", CheckMetadata(p),
         request' = request, UNCHANGED <<topic, metadata>>
  PROVE  IInv'
<1>1. request' = [request EXCEPT ![p] = request[p]]
  BY DEF IInv, TypeOK
<1>2. topic \in {Partitions, Foreign} /\ (topic = Foreign => faulty)
  BY DEF IInv, TypeOK, MetadataSound
<1>3. request[p] \in {"none", "sent", "created", "exists", "refused"}
  BY DEF IInv, TypeOK
<1>4. faulty \in BOOLEAN /\ (request[p] = "refused" => faulty)
  BY DEF IInv, TypeOK, OutcomeSound
<1>5. CASE metadata = "error"
  <2>1. pc' = [pc EXCEPT ![p] = "KafkaIOError"] /\ faulty' = TRUE
    BY <1>5 DEF CheckMetadata, Goto
  <2> QED
    BY <2>1, <1>1, <1>3, CallerStep DEF Ended, KafkaErrors
<1>6. CASE metadata # "error" /\ topic = Partitions
  <2>1. pc' = [pc EXCEPT ![p] = "ready"] /\ faulty' = faulty
    BY <1>6 DEF CheckMetadata, Goto
  <2> QED
    BY <2>1, <1>1, <1>3, <1>4, <1>6, CallerStep DEF Ended, KafkaErrors
<1>7. CASE metadata # "error" /\ topic = Foreign
  <2>1. pc' = [pc EXCEPT ![p] = "KafkaConfigurationError"] /\ faulty' = faulty
    BY <1>7, PartitionsAssumption DEF CheckMetadata, Goto
  <2> QED
    BY <2>1, <1>1, <1>2, <1>3, <1>4, <1>7, CallerStep DEF Ended, KafkaErrors
<1> QED
  BY <1>2, <1>5, <1>6, <1>7
-----------------------------------------------------------------------------
\* Nothing has been concluded yet.
LEMMA InitIInv == Init => IInv
  BY PartitionsAssumption
     DEF Init, IInv, TypeOK, MetadataSound, OutcomeSound, Ended, KafkaErrors

\* The steps of ensure_kp_topic.
LEMMA CallIInv ==
  ASSUME IInv, NEW p \in Processes, Call(p) \/ Unreachable(p)
  PROVE  IInv'
<1>1. request = [request EXCEPT ![p] = request[p]]
  BY DEF IInv, TypeOK
<1>2. request[p] \in {"none", "sent", "created", "exists", "refused"}
  BY DEF IInv, TypeOK
<1>3. faulty \in BOOLEAN /\ (request[p] = "refused" => faulty)
  BY DEF IInv, TypeOK, OutcomeSound
<1>4. CASE List(p) /\ metadata = "absent"
  <2>1. /\ pc' = [pc EXCEPT ![p] = "create"] /\ request' = [request EXCEPT ![p] = "sent"]
        /\ UNCHANGED <<faulty, topic, metadata>>
    BY <1>4 DEF List, Goto
  <2> QED
    BY <2>1, <1>3, CallerStep DEF Ended, KafkaErrors
<1>5. CASE List(p) /\ metadata # "absent"
  BY <1>5, MetadataVerdict DEF List
<1>6. CASE Await(p)
  <2>1. CASE request[p] = "refused"
    <3>1. pc' = [pc EXCEPT ![p] = "KafkaIOError"]
      BY <1>6, <2>1 DEF Await, Goto
    <3> QED
      BY <3>1, <2>1, <1>1, <1>2, <1>3, <1>6, CallerStep DEF Await, Ended, KafkaErrors
  <2>2. CASE request[p] # "refused"
    <3>1. pc' = [pc EXCEPT ![p] = "verify"]
      BY <1>6, <2>2 DEF Await, Goto
    <3> QED
      BY <3>1, <2>2, <1>1, <1>2, <1>3, <1>6, CallerStep DEF Await, Ended, KafkaErrors
  <2> QED
    BY <2>1, <2>2
<1>7. CASE AwaitTimesOut(p)
  BY <1>1, <1>2, <1>7, CallerStep DEF AwaitTimesOut, Goto, Ended, KafkaErrors
<1>8. CASE Verify(p) /\ metadata = "absent"
  BY <1>1, <1>2, <1>8, CallerStep DEF Verify, Goto, Ended, KafkaErrors
<1>9. CASE Verify(p) /\ metadata # "absent"
  BY <1>9, MetadataVerdict DEF Verify
<1>10. CASE Unreachable(p)
  <2>1. PICK where \in {"KafkaUnavailableError", "KafkaIOError"} :
          pc' = [pc EXCEPT ![p] = where]
    BY <1>10 DEF Unreachable, Goto
  <2> QED
    BY <2>1, <1>1, <1>2, <1>10, CallerStep DEF Unreachable, Ended, KafkaErrors
<1> QED
  BY <1>4, <1>5, <1>6, <1>7, <1>8, <1>9, <1>10 DEF Call

\* The steps of the broker and of whoever else creates the topic.
LEMMA BrokerIInv ==
  ASSUME IInv,
         \/ \E p \in Processes : BrokerCreates(p) \/ BrokerRefuses(p)
         \/ BrokerPropagates
         \/ ForeignCreates
  PROVE  IInv'
<1>1. /\ topic \in {0, Partitions, Foreign} /\ metadata \in {"absent", "error", "usable"}
      /\ request \in [Processes -> {"none", "sent", "created", "exists", "refused"}]
      /\ faulty \in BOOLEAN /\ MetadataSound
      /\ \A q \in Processes : request[q] = "refused" => faulty
  BY DEF IInv, TypeOK, OutcomeSound
<1>2. ASSUME NEW p \in Processes, BrokerCreates(p) PROVE IInv'
  <2>1. CASE topic = 0
    BY <1>1, <1>2, <2>1, BrokerStep, PartitionsAssumption
       DEF BrokerCreates, MetadataSound
  <2>2. CASE topic # 0
    BY <1>1, <1>2, <2>2, BrokerStep DEF BrokerCreates, MetadataSound
  <2> QED
    BY <2>1, <2>2
<1>3. ASSUME NEW p \in Processes, BrokerRefuses(p) PROVE IInv'
  BY <1>1, <1>3, BrokerStep DEF BrokerRefuses, MetadataSound
<1>4. CASE BrokerPropagates
  BY <1>1, <1>4, BrokerStep DEF BrokerPropagates, MetadataSound
<1>5. CASE ForeignCreates
  BY <1>1, <1>5, BrokerStep, PartitionsAssumption DEF ForeignCreates, MetadataSound
<1> QED
  BY <1>2, <1>3, <1>4, <1>5

\* Every step keeps the invariant.
LEMMA NextIInv == IInv /\ [Next]_vars => IInv'
<1> SUFFICES ASSUME IInv, [Next]_vars PROVE IInv'
  OBVIOUS
<1>1. CASE UNCHANGED vars
  BY <1>1 DEF vars, IInv, TypeOK, MetadataSound, OutcomeSound
<1>2. ASSUME NEW p \in Processes, Call(p) \/ Unreachable(p) PROVE IInv'
  BY <1>2, CallIInv
<1>3. CASE \/ \E p \in Processes : BrokerCreates(p) \/ BrokerRefuses(p)
           \/ BrokerPropagates
           \/ ForeignCreates
  BY <1>3, BrokerIInv
<1> QED
  BY <1>1, <1>2, <1>3 DEF Next

\* The invariant holds in every reachable state.
THEOREM InductiveInvariant == Spec => []IInv
  BY InitIInv, NextIInv, PTL DEF Spec

\* However many processes call ensure_kp_topic, and whatever is still under way:
\* one that goes on has a topic of the right number of partitions, for good, and
\* one that complains has seen another (kafka_io.py:138-143).
THEOREM VerdictsHold == Spec => []VerdictHolds
<1>1. IInv => VerdictHolds
  BY PartitionsAssumption DEF IInv, OutcomeSound, VerdictHolds
<1> QED
  BY <1>1, InductiveInvariant, PTL

\* No caller fails because of other callers, however many there are
\* (kafka_io.py:122-129).
THEOREM AllCallersSucceed == Spec => []LosersSucceed
<1>1. IInv => LosersSucceed
  BY DEF IInv, OutcomeSound, LosersSucceed
<1> QED
  BY <1>1, InductiveInvariant, PTL
=============================================================================
