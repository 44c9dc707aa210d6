----------------------------- MODULE TopicSetup -----------------------------
(***************************************************************************)
(* ensure_kp_topic (kafka_io.py:92-143), run by several processes at once: *)
(* run_demo.sh starts the consumer and the producer together on a broker   *)
(* that has no topic yet, and a poller may start as well. The broker       *)
(* handles creation requests in any order, its metadata follow, and it may *)
(* be unreachable, slow, or refuse; something else may create the topic.   *)
(***************************************************************************)
EXTENDS Integers

CONSTANTS
  Processes,   \* callers of ensure_kp_topic
  Partitions,  \* KP_TOPIC_PARTITIONS
  Foreign      \* the partitions of a topic that something else creates

ASSUME PartitionsAssumption ==
  /\ Partitions \in Nat \ {0}
  /\ Foreign \in Nat \ {0, Partitions}

VARIABLES
  topic,     \* the partitions of kp_observations; 0 while there is no such topic
  metadata,  \* what list_topics says of it: "absent", an "error", or "usable"
  pc,        \* where each call stands, and then how it ended
  request,   \* what has become of its creation request
  faulty     \* history: has anything but another caller interfered?

vars == <<topic, metadata, pc, request, faulty>>

\* The ways a call ends: normally, or with an exception.
KafkaErrors == {"KafkaUnavailableError", "KafkaIOError", "KafkaConfigurationError"}
Ended       == {"ready", "TimeoutError"} \cup KafkaErrors

Goto(p, where) == pc' = [pc EXCEPT ![p] = where]
-----------------------------------------------------------------------------
(* The broker and its surroundings.                                        *)

\* The first request creates the topic, the others learn that it exists.
BrokerCreates(p) ==
  /\ request[p] = "sent"
  /\ IF topic = 0 THEN topic' = Partitions /\ request' = [request EXCEPT ![p] = "created"]
                  ELSE topic' = topic /\ request' = [request EXCEPT ![p] = "exists"]
  /\ UNCHANGED <<metadata, pc, faulty>>

\* Any other error: not authorized, no broker for the replica, ...
BrokerRefuses(p) ==
  /\ request[p] = "sent"
  /\ request' = [request EXCEPT ![p] = "refused"]
  /\ faulty' = TRUE
  /\ UNCHANGED <<topic, metadata, pc>>

\* The metadata learn of the topic, and then of its leader.
BrokerPropagates ==
  /\ topic # 0
  /\ \/ metadata = "absent" /\ metadata' \in {"error", "usable"}
     \/ metadata = "error" /\ metadata' = "usable"
  /\ UNCHANGED <<topic, pc, request, faulty>>

ForeignCreates ==
  /\ topic = 0
  /\ topic' = Foreign
  /\ faulty' = TRUE
  /\ UNCHANGED <<metadata, pc, request>>
-----------------------------------------------------------------------------
(* ensure_kp_topic.                                                        *)

\* Bug: the partitions of an existing topic are not looked at.
CheckMetadata_NotCounted(p) ==
  IF metadata = "error" THEN Goto(p, "KafkaIOError") /\ faulty' = TRUE
  ELSE Goto(p, "ready") /\ UNCHANGED faulty

\* The checks on the metadata of an existing topic.
CheckMetadata(p) ==
  IF metadata = "error" THEN Goto(p, "KafkaIOError") /\ faulty' = TRUE
  ELSE /\ Goto(p, IF topic = Partitions THEN "ready" ELSE "KafkaConfigurationError")
       /\ UNCHANGED faulty

\* list_topics, and create_topics if the topic is not among them.
List(p) ==
  /\ pc[p] = "list"
  /\ IF metadata = "absent"
     THEN /\ Goto(p, "create")
          /\ request' = [request EXCEPT ![p] = "sent"]
          /\ UNCHANGED faulty
     ELSE CheckMetadata(p) /\ UNCHANGED request
  /\ UNCHANGED <<topic, metadata>>

Unreachable(p) ==
  /\ pc[p] \in {"list", "verify"}
  /\ Goto(p, IF pc[p] = "list" THEN "KafkaUnavailableError" ELSE "KafkaIOError")
  /\ faulty' = TRUE
  /\ UNCHANGED <<topic, metadata, request>>

\* Bug: TOPIC_ALREADY_EXISTS is an error like any other.
Await_ExistsIsError(p) ==
  /\ pc[p] = "create"
  /\ request[p] \in {"created", "exists", "refused"}
  /\ Goto(p, IF request[p] = "created" THEN "verify" ELSE "KafkaIOError")
  /\ UNCHANGED <<topic, metadata, request, faulty>>

\* future.result: the topic that another caller has created is as good.
Await(p) ==
  /\ pc[p] = "create"
  /\ request[p] \in {"created", "exists", "refused"}
  /\ Goto(p, IF request[p] = "refused" THEN "KafkaIOError" ELSE "verify")
  /\ UNCHANGED <<topic, metadata, request, faulty>>

\* Bug: the future is awaited without a timeout.
AwaitTimesOut_Never(p) == FALSE /\ UNCHANGED vars

\* future.result(timeout) gives up; the broker may still handle the request.
\* TimeoutError is no KafkaException, and no clause of the function names it.
AwaitTimesOut(p) ==
  /\ pc[p] = "create"
  /\ request[p] = "sent"
  /\ Goto(p, "TimeoutError")
  /\ faulty' = TRUE
  /\ UNCHANGED <<topic, metadata, request>>

\* The second list_topics, of this topic alone.
Verify(p) ==
  /\ pc[p] = "verify"
  /\ IF metadata = "absent" THEN Goto(p, "KafkaIOError") /\ faulty' = TRUE
                            ELSE CheckMetadata(p)
  /\ UNCHANGED <<topic, metadata, request>>
-----------------------------------------------------------------------------
Init ==
  /\ topic \in {0, Partitions, Foreign}
  /\ metadata = IF topic = 0 THEN "absent" ELSE "usable"
  /\ pc = [p \in Processes |-> "list"]
  /\ request = [p \in Processes |-> "none"]
  /\ faulty = (topic = Foreign)

Call(p) == List(p) \/ Await(p) \/ AwaitTimesOut(p) \/ Verify(p)

Next ==
  \/ \E p \in Processes :
       Call(p) \/ Unreachable(p) \/ BrokerCreates(p) \/ BrokerRefuses(p)
  \/ BrokerPropagates
  \/ ForeignCreates

\* Only the callers are scheduled: the broker may never answer.
Spec == Init /\ [][Next]_vars /\ \A p \in Processes : WF_vars(Call(p))
-----------------------------------------------------------------------------
(* Properties.                                                             *)

\* The verdict is true for good: a caller goes on only with a topic of one
\* partition, the order of the topic being the order of the events, and complains
\* of another number only when there is another; no request that is still under
\* way changes that (kafka_io.py:138-143).
VerdictHolds ==
  \A p \in Processes :
    /\ pc[p] = "ready" => topic = Partitions
    /\ pc[p] = "KafkaConfigurationError" => topic \notin {0, Partitions}

\* Callers do not fail one another: of any number of processes that find no topic
\* and all create it, none fails, unless the broker or something else is at fault
\* (kafka_io.py:122-129; run_demo.sh:64-69 starts two).
LosersSucceed ==
  \A p \in Processes : pc[p] \in Ended \ {"ready"} => faulty

\* Every call ends, even if the broker never answers (kafka_io.py:95, 123).
CallsEnd == \A p \in Processes : <>(pc[p] \in Ended)

\* "Base error for a failed bounded Kafka operation" (kafka_io.py:21-22): a call
\* that fails raises one of the errors derived from it.
FailsWithKafkaError ==
  \A p \in Processes : pc[p] \in Ended \ {"ready"} => pc[p] \in KafkaErrors
=============================================================================
