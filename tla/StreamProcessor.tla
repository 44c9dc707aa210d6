-------------------------- MODULE StreamProcessor --------------------------
(***************************************************************************)
(* One run of `python -m src.stream_processor` (main, run_stream_processor,*)
(* consume_event and the two artifact writers) against a Kafka topic that  *)
(* other processes append to, with the RollingKpProcessor of RollingKp     *)
(* inside it. The run ends in exit code 0 or 1, or is killed (the cleanup  *)
(* trap of run_demo.sh, Ctrl-C).                                           *)
(*                                                                         *)
(* Time is counted in units of one bounded poll, min(1.0, remaining) of    *)
(* kafka_io.py:209: a poll that returns no message takes one unit, a poll  *)
(* that returns one takes none.                                            *)
(***************************************************************************)
EXTENDS AlertOutput

CONSTANTS
  TimeTags, KpValues, KpMax, Threshold, None,   \* see RollingKp
  ExpectedEvents,  \* --expected-events
  IdleTimeout,     \* --idle-timeout-seconds, in polls
  MaxTopic,        \* bound: messages ever appended to the topic
  Malformed,       \* a message that violates the project contract
  OldRun,          \* whatever an earlier run left of an artifact (or no file)
  Partial          \* the content of a file that is being written

Artifacts == {"alert.json", "metrics.csv"}

\* What an artifact holds once it has been written.
Contents(artifact) == IF artifact = "alert.json" THEN AlertOutputs ELSE Seq(MetricsRows)

ASSUME StreamAssumption ==
  /\ ExpectedEvents \in Nat \ {0}   \* run_stream_processor refuses any other value
  /\ IdleTimeout \in Nat \ {0}
  /\ MaxTopic \in Nat
  \* what RollingKp asks of its constants
  /\ TimeTags \subseteq Int
  /\ KpMax \in Nat /\ KpValues \subseteq 0..KpMax
  /\ Window \in Nat \ {0}
  /\ Threshold \in Int
  /\ None \notin Int
  \* an artifact of this run is told apart from one that was there before
  /\ \A a \in Artifacts : OldRun \notin Contents(a)

VARIABLES
  \* the processor, and the results list of run_stream_processor
  events, seen_time_tags, latest_time_tag, messages_seen, accepted_count,
  duplicate_count, late_count, alert_armed, alerts_emitted, results,
  topic,                      \* the single partition: every message ever appended
  position,                   \* how many of them this consumer has read
  pc,                         \* where the run stands
  consumer_open,              \* subscribed and not yet closed
  waited,                     \* polls since this consume_event call began
  idle,                       \* history: polls since the last valid event
  malformed_messages_skipped,
  target,                     \* the artifact being written
  temporary,                  \* its temporary file, or None
  files,                      \* the artifacts on disk
  failed,                     \* an exception is propagating
  exit_code                   \* None until main returns

processor == <<events, seen_time_tags, latest_time_tag, messages_seen, accepted_count,
               duplicate_count, late_count, alert_armed, alerts_emitted, results>>
consuming == <<position, waited, idle, malformed_messages_skipped>>
writing   == <<target, temporary, files>>
vars == <<processor, topic, consuming, pc, consumer_open, writing, failed, exit_code>>

P == INSTANCE RollingKp WITH MaxMessages <- ExpectedEvents
-----------------------------------------------------------------------------
\* The content of an artifact.
Built(artifact) ==
  IF artifact = "alert.json" THEN BuildAlertOutput(results) ELSE BuildMetricsRows(results)
-----------------------------------------------------------------------------
(* main, up to the first consume call.                                     *)

\* ensure_kp_topic and new_consumer succeed; nothing has been read yet, and
\* with a group of its own the consumer starts at the earliest offset.
Subscribe ==
  /\ pc = "start"
  /\ pc' = "consume"
  /\ consumer_open' = TRUE
  /\ UNCHANGED <<processor, topic, consuming, writing, failed, exit_code>>

\* Kafka is unreachable or the topic is unusable: main returns 1.
StartFails ==
  /\ pc = "start"
  /\ pc' = "exit"
  /\ failed' = TRUE
  /\ exit_code' = 1
  /\ UNCHANGED <<processor, topic, consuming, consumer_open, writing>>
-----------------------------------------------------------------------------
(* The consume loop.                                                       *)

\* Bug: the deadline is never looked at.
CanPoll_NoDeadline == pc = "consume"

\* consume_event polls only while its deadline lies ahead.
CanPoll == pc = "consume" /\ waited < IdleTimeout
Unread  == position < Len(topic)

\* An exception leaves the try block; the finally clause comes next.
Fail ==
  /\ failed' = TRUE
  /\ pc' = "close"

\* Bug: an empty poll restarts the deadline.
PollNone_NoDeadline ==
  /\ CanPoll
  /\ waited' = 0
  /\ UNCHANGED <<processor, topic, position, idle, malformed_messages_skipped, pc,
                 consumer_open, writing, failed, exit_code>>

\* The bounded poll returns nothing; a message may be there and not yet
\* fetched (group join, fetch latency).
PollNone ==
  /\ CanPoll
  /\ waited' = waited + 1
  /\ idle' = idle + 1
  /\ UNCHANGED <<processor, topic, position, malformed_messages_skipped, pc,
                 consumer_open, writing, failed, exit_code>>

\* The deadline of this consume_event call has passed: KafkaConsumeTimeout.
ConsumeTimeout ==
  /\ pc = "consume"
  /\ waited >= IdleTimeout
  /\ Fail
  /\ UNCHANGED <<processor, topic, consuming, consumer_open, writing, exit_code>>

\* The poll reports a Kafka error: KafkaIOError.
PollError ==
  /\ CanPoll
  /\ Fail
  /\ UNCHANGED <<processor, topic, consuming, consumer_open, writing, exit_code>>

\* KafkaMessageError: count it, and call consume_event again with a new deadline.
PollMalformed ==
  /\ CanPoll
  /\ Unread
  /\ topic[position + 1] = Malformed
  /\ position' = position + 1
  /\ waited' = 0
  /\ malformed_messages_skipped' = malformed_messages_skipped + 1
  /\ UNCHANGED <<processor, topic, idle, pc, consumer_open, writing, failed, exit_code>>

\* Bug: one event too many is read before the artifacts are written.
LoopContinues_OffByOne == Len(results) < ExpectedEvents

\* Does the while condition still hold once the next result is appended?
LoopContinues == Len(results) + 1 < ExpectedEvents

\* Bug: the position does not move past the message.
PollEvent_Redelivered ==
  /\ CanPoll
  /\ Unread
  /\ topic[position + 1] # Malformed
  /\ P!Process(topic[position + 1])
  /\ waited' = 0
  /\ idle' = 0
  /\ pc' = IF LoopContinues THEN "consume" ELSE "open"
  /\ UNCHANGED <<topic, position, malformed_messages_skipped, consumer_open, writing,
                 failed, exit_code>>

\* A valid event is processed; after the last one the artifacts are written.
PollEvent ==
  /\ CanPoll
  /\ Unread
  /\ topic[position + 1] # Malformed
  /\ P!Process(topic[position + 1])
  /\ position' = position + 1
  /\ waited' = 0
  /\ idle' = 0
  /\ pc' = IF LoopContinues THEN "consume" ELSE "open"
  /\ UNCHANGED <<topic, malformed_messages_skipped, consumer_open, writing, failed,
                 exit_code>>
-----------------------------------------------------------------------------
(* write_alert_output, then write_metrics_output.                          *)

\* tempfile.mkstemp next to the target.
OpenTemporary ==
  /\ pc = "open"
  /\ temporary' = Partial
  /\ pc' = "fill"
  /\ UNCHANGED <<processor, topic, consuming, consumer_open, target, files, failed,
                 exit_code>>

\* Bug: the target itself is opened for writing.
FillTemporary_InPlace ==
  /\ pc = "fill"
  /\ temporary' = Built(target)
  /\ files' = [files EXCEPT ![target] = Partial]
  /\ pc' = "replace"
  /\ UNCHANGED <<processor, topic, consuming, consumer_open, target, failed, exit_code>>

\* write, flush, fsync.
FillTemporary ==
  /\ pc = "fill"
  /\ temporary' = Built(target)
  /\ pc' = "replace"
  /\ UNCHANGED <<processor, topic, consuming, consumer_open, target, files, failed,
                 exit_code>>

\* os.replace, then the next artifact or the finally clause.
Replace ==
  /\ pc = "replace"
  /\ files' = [files EXCEPT ![target] = temporary]
  /\ temporary' = None
  /\ IF target = "alert.json" THEN target' = "metrics.csv" /\ pc' = "open"
                              ELSE target' = target /\ pc' = "close"
  /\ UNCHANGED <<processor, topic, consuming, consumer_open, failed, exit_code>>

\* Bug: an OSError of the first writer does not keep the second from running.
WriteFails_NextArtifact ==
  /\ pc \in {"open", "fill", "replace"}
  /\ temporary' = None
  /\ IF target = "alert.json" THEN target' = "metrics.csv" /\ pc' = "open"
                              ELSE target' = target /\ pc' = "close"
  /\ UNCHANGED <<processor, topic, consuming, consumer_open, files, failed, exit_code>>

\* An OSError on the way: the temporary file is unlinked, unless that fails too.
WriteFails ==
  /\ pc \in {"open", "fill", "replace"}
  /\ temporary' \in {None, temporary}
  /\ Fail
  /\ UNCHANGED <<processor, topic, consuming, consumer_open, target, files, exit_code>>
-----------------------------------------------------------------------------
(* The end of the run.                                                     *)

\* finally: consumer.close(); main turns an exception into exit code 1.
Close ==
  /\ pc = "close"
  /\ pc' = "exit"
  /\ consumer_open' = FALSE
  /\ exit_code' = IF failed THEN 1 ELSE 0
  /\ UNCHANGED <<processor, topic, consuming, writing, failed>>

\* SIGTERM or SIGKILL: nothing more runs, not even the finally clauses.
Kill ==
  /\ pc \notin {"exit", "killed"}
  /\ pc' = "killed"
  /\ UNCHANGED <<processor, topic, consuming, consumer_open, writing, failed, exit_code>>

\* Some producer appends a message, before or during the run.
Produce ==
  /\ Len(topic) < MaxTopic
  /\ \E m \in P!KpEvents \cup {Malformed} : topic' = Append(topic, m)
  /\ UNCHANGED <<processor, consuming, pc, consumer_open, writing, failed, exit_code>>
-----------------------------------------------------------------------------
Init ==
  /\ P!Init
  /\ topic = <<>>
  /\ position = 0 /\ waited = 0 /\ idle = 0 /\ malformed_messages_skipped = 0
  /\ pc = "start"
  /\ consumer_open = FALSE
  /\ target = "alert.json"
  /\ temporary = None
  /\ files = [a \in Artifacts |-> OldRun]
  /\ failed = FALSE
  /\ exit_code = None

\* One step of the run itself.
Run ==
  \/ Subscribe
  \/ PollNone \/ ConsumeTimeout \/ PollMalformed \/ PollEvent
  \/ OpenTemporary \/ FillTemporary \/ Replace
  \/ Close

\* What the environment makes of a step.
Fault == StartFails \/ PollError \/ WriteFails \/ Kill

Next == Run \/ Fault \/ Produce

\* The process is scheduled: a run that can take a step eventually takes one. No
\* error is bound to happen.
Spec == Init /\ [][Next]_vars /\ WF_vars(Run)
-----------------------------------------------------------------------------
(* Properties.                                                             *)

\* Every variable has its type.
TypeOK ==
  /\ P!TypeOK
  /\ topic \in Seq(P!KpEvents \cup {Malformed})
  /\ position \in 0..Len(topic)
  /\ waited \in 0..IdleTimeout /\ idle \in Nat
  /\ malformed_messages_skipped \in Nat
  /\ pc \in {"start", "consume", "open", "fill", "replace", "close", "exit", "killed"}
  /\ consumer_open \in BOOLEAN /\ failed \in BOOLEAN
  /\ target \in Artifacts
  /\ temporary \in {None, Partial} \cup Contents(target)
  /\ DOMAIN files = Artifacts
  /\ \A a \in Artifacts : files[a] \in {OldRun} \cup Contents(a)
  /\ exit_code \in {None, 0, 1}

\* The positions up to k that hold a valid message; the rank of a valid message
\* is the number of them up to it.
ValidUpTo(k) == {i \in 1..k : topic[i] # Malformed}
Rank(i) == Cardinality(ValidUpTo(i))

\* Nothing valid on the topic is skipped or reordered, and nothing malformed is
\* processed: the valid messages among those read are, in their order, the events
\* of the results, and the others have been counted (stream_processor.py:67-74).
ConsumesInOrder ==
  /\ Len(results) = Rank(position)
  /\ \A i \in ValidUpTo(position) : results[Rank(i)].event = topic[i]
  /\ malformed_messages_skipped = position - Rank(position)

\* A reader of the artifacts, whenever it looks, finds in each of them either
\* what was there before the run or the whole artifact of a run that processed
\* all its events; a killed or failing run never leaves a truncated file
\* (alert_output.py:94-110, metrics_output.py:57-77).
ArtifactsWhole ==
  \A a \in Artifacts :
     \/ files[a] = OldRun
     \/ Len(results) = ExpectedEvents /\ files[a] = Built(a)

\* Exit code 0 promises both artifacts, and that the counts of alert.json, the
\* rows of metrics.csv and the processor's own counters tell one story: this is
\* what run_demo.sh relies on when it goes on to the briefing
\* (run_demo.sh:71-80, stream_processor.py:138-145).
ExitZeroMeansComplete ==
  exit_code = 0 =>
    /\ files["metrics.csv"] # OldRun /\ files["alert.json"] # OldRun
    /\ Len(files["metrics.csv"]) = ExpectedEvents
    /\ LET alert == files["alert.json"]
           rows  == files["metrics.csv"]
           Rows(s) == Cardinality({i \in DOMAIN rows : rows[i].processing_status = s})
           counts == alert.run_counts
       IN /\ counts.messages_consumed = ExpectedEvents
          /\ counts.unique_events = accepted_count /\ accepted_count = Rows("accepted")
          /\ counts.duplicates_skipped = duplicate_count
          /\ duplicate_count = Rows("duplicate_skipped")
          /\ counts.late_events_skipped = late_count
          /\ late_count = Rows("late_event_skipped")
          /\ counts.alerts_emitted = alerts_emitted /\ Len(alert.alerts) = alerts_emitted
          /\ \A i \in DOMAIN alert.alerts :
               \E k \in DOMAIN rows :
                  rows[k].alert_emitted /\ rows[k].time_tag = alert.alerts[i].triggered_at

\* The processor inside the run is the processor of RollingKp, which processes
\* exactly the expected number of events and not one more.
ImplementsProcessor == P!Spec

\* The run cannot hang: with a bounded number of malformed messages it ends,
\* whatever is or is not produced (stream_processor.py:53, kafka_io.py:202-212).
Terminates == <>(pc \in {"exit", "killed"})

\* The help text of --idle-timeout-seconds, "Fail if the next valid Kafka event
\* does not arrive in this time" (stream_processor.py:113; README.md:140-141):
\* a run that is still consuming has waited no longer than that for it.
NextValidEventInTime == pc = "consume" => idle <= IdleTimeout
=============================================================================
