---------------------------- MODULE MCTopicSetup ----------------------------
(***************************************************************************)
(* Instance of TopicSetup for TLC: the consumer and the producer of        *)
(* run_demo.sh and a poller, on a broker with no topic, with the right one *)
(* or with one of three partitions.                                        *)
(***************************************************************************)
EXTENDS TopicSetup

CONSTANTS consumer, producer, poller
=============================================================================
