--------------------------- MODULE ReplayProducer ---------------------------
(***************************************************************************)
(* `python -m src.replay_producer` (main, run_replay, replay_events): the  *)
(* replay file is validated as a whole, the topic prepared, and the events *)
(* published one by one, each of them confirmed before the next. The first *)
(* failure ends the replay; what was published stays on the topic.         *)
(***************************************************************************)
EXTENDS ReplayFile

VARIABLES
  replay_file,   \* the lines of the file
  topic,         \* the partition, shared with every other client
  replay,        \* where the producer stands
  published      \* the events confirmed by the broker

Exited(code) == IF code = 0 THEN "exit_0" ELSE "exit_1"
-----------------------------------------------------------------------------
\* load_replay accepts or refuses the file; nothing has been published yet.
LoadReplay ==
  /\ replay = "load"
  /\ replay' = IF ValidReplay(replay_file) THEN "ensure" ELSE Exited(1)
  /\ UNCHANGED <<replay_file, topic, published>>

\* ensure_kp_topic finds or makes a usable topic.
EnsureTopic ==
  /\ replay = "ensure"
  /\ replay' = "publish"
  /\ UNCHANGED <<replay_file, topic, published>>

\* publish_event confirms one event.
PublishNext ==
  /\ replay = "publish"
  /\ topic' = Append(topic, replay_file[published + 1])
  /\ published' = published + 1
  /\ replay' = IF published + 1 < Len(replay_file) THEN "publish" ELSE Exited(0)
  /\ UNCHANGED replay_file

\* Kafka is unreachable, or the topic is unusable.
EnsureFails ==
  /\ replay = "ensure"
  /\ replay' = Exited(1)
  /\ UNCHANGED <<replay_file, topic, published>>

\* Bug: the error is swallowed and the replay goes on with the next event.
PublishFails_GoesOn ==
  /\ replay = "publish"
  /\ topic' \in {topic, Append(topic, replay_file[published + 1])}
  /\ published' = published + 1
  /\ replay' = IF published + 1 < Len(replay_file) THEN "publish" ELSE Exited(0)
  /\ UNCHANGED replay_file

\* publish_event raises: the broker may or may not have stored the event.
PublishFails ==
  /\ replay = "publish"
  /\ topic' \in {topic, Append(topic, replay_file[published + 1])}
  /\ replay' = Exited(1)
  /\ UNCHANGED <<replay_file, published>>

Replaying == LoadReplay \/ EnsureTopic \/ PublishNext
ReplayFault == EnsureFails \/ PublishFails
=============================================================================
