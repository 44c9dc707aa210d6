----------------------------- MODULE ReplayFile -----------------------------
(***************************************************************************)
(* load_replay (replay_producer.py:44-88): the whole file is read and      *)
(* validated before anything else happens, by the producer and by the      *)
(* evaluation alike. A line is an event or Invalid: blank, no JSON, no     *)
(* object, or no KpEvent, each of which ends in an error.                  *)
(***************************************************************************)
EXTENDS Integers, Sequences

CONSTANT Invalid

\* Bug: the order of the lines is not looked at.
ValidReplay_AnyOrder(lines) ==
  lines # <<>> /\ \A i \in DOMAIN lines : lines[i] # Invalid

ValidReplay(lines) ==
  /\ lines # <<>>
  /\ \A i \in DOMAIN lines : lines[i] # Invalid
  /\ \A i, j \in DOMAIN lines : i < j => lines[i].time_tag <= lines[j].time_tag
=============================================================================
