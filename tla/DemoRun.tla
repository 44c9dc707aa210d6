------------------------------ MODULE DemoRun ------------------------------
(***************************************************************************)
(* run_demo.sh: it resets the broker, clears the artifacts, starts the     *)
(* stream processor in the background and the replay producer in the       *)
(* foreground, waits for both, writes the briefing and the evaluation and  *)
(* compares the artifacts with data/fixtures/replay_expected.json. The     *)
(* consumer is StreamProcessor, the producer ReplayProducer; they meet at  *)
(* the topic, and the script sees nothing but their exit codes and files.  *)
(* OldRun of StreamProcessor stands here for: no such file.                *)
(***************************************************************************)
EXTENDS StreamProcessor, ReplayFile

CONSTANTS
  Fixture,          \* data/sample_or_replay_data/kp_replay.jsonl
  OtherFiles,       \* other contents the replay file may have
  Leftovers,        \* what earlier runs may have left on the topic
  ExpectedCounts, ExpectedAlerts, ExpectedMetrics,   \* replay_expected.json
  Stale,            \* an artifact of an earlier run
  Fresh             \* a briefing, or a passed evaluation, of this run

VARIABLES
  script,      \* the step of the script
  child,       \* the consumer process: none, forked (CONSUMER_PID not yet
               \* assigned), known (CONSUMER_PID set) or reaped
  replay_file, replay, published,   \* see ReplayProducer
  reports,     \* briefing.txt and evaluation.json
  kept,        \* history: the reset left an old topic behind
  disturbed    \* history: something outside the program went wrong

producer == <<replay_file, replay, published>>
shell    == <<script, child, reports>>
demoVars == <<vars, producer, shell, kept, disturbed>>

R == INSTANCE ReplayProducer

ASSUME DemoAssumption ==
  /\ Leftovers \subseteq Seq(P!KpEvents \cup {Malformed})
  /\ {Fixture} \cup OtherFiles \subseteq Seq(P!KpEvents \cup {Invalid})
  /\ Fresh # OldRun
  /\ Malformed \notin P!KpEvents

\* replay_expected.json is what ResultsOf, which keeps no state, makes of
\* kp_replay.jsonl; the file is in time order and has --expected-events lines.
ASSUME FixtureAssumption ==
  LET expected == P!ResultsOf(Fixture)
  IN /\ ValidReplay(Fixture)
     /\ ExpectedEvents = Len(Fixture)
     /\ ExpectedCounts = RunCounts(expected)
     /\ ExpectedAlerts = Summaries(AlertsOf(expected))
     /\ ExpectedMetrics = BuildMetricsRows(expected)

Reports == {"briefing.txt", "evaluation.json"}
Ended   == {"done", "failed"}
Exists(file) == file # OldRun

ConsumerEnded == pc \in {"exit", "killed"}
-----------------------------------------------------------------------------
(* The script, a command at a time.                                        *)

\* From one command to the next; the other processes move on their own.
Goto(from, to) == script = from /\ script' = to

\* The tools are there.
Preflight ==
  /\ Goto("preflight", "down")
  /\ UNCHANGED <<vars, producer, child, reports, kept, disturbed>>

\* docker compose down -v: a failure of it is ignored (|| true).
ResetBroker ==
  /\ Goto("down", "up")
  /\ \/ topic' = <<>> /\ UNCHANGED <<kept, disturbed>>
     \/ topic' = topic /\ kept' = (topic # <<>>) /\ disturbed' = TRUE
  /\ UNCHANGED <<processor, consuming, pc, consumer_open, writing, failed, exit_code,
                 producer, child, reports>>

\* docker compose up --wait: the broker is healthy.
StartBroker ==
  /\ Goto("up", "clear")
  /\ UNCHANGED <<vars, producer, child, reports, kept, disturbed>>

\* rm -f of the four artifacts.
ClearArtifacts ==
  /\ Goto("clear", "launch")
  /\ files' = [a \in Artifacts |-> OldRun]
  /\ reports' = [r \in Reports |-> OldRun]
  /\ UNCHANGED <<processor, topic, consuming, pc, consumer_open, target, temporary,
                 failed, exit_code, producer, child, kept, disturbed>>

\* The consumer is started in the background.
Launch ==
  /\ Goto("launch", "remember")
  /\ child' = "forked"
  /\ UNCHANGED <<vars, producer, reports, kept, disturbed>>

\* CONSUMER_PID=$!
Remember ==
  /\ Goto("remember", "replay")
  /\ child' = "known"
  /\ UNCHANGED <<vars, producer, reports, kept, disturbed>>

\* The producer has ended.
ReplayEnded ==
  /\ replay \in {"exit_0", "exit_1"}
  /\ Goto("replay", IF replay = "exit_0" THEN "wait" ELSE "cleanup")
  /\ UNCHANGED <<vars, producer, child, reports, kept, disturbed>>

\* Bug: the script goes on while the consumer still runs.
AwaitConsumer_Forgotten ==
  /\ Goto("wait", "briefing")
  /\ UNCHANGED <<vars, producer, child, reports, kept, disturbed>>

\* Bug: the script waits for the artifacts, not for the process.
AwaitConsumer_ForArtifacts ==
  /\ Exists(files["metrics.csv"])
  /\ Goto("wait", "briefing")
  /\ UNCHANGED <<vars, producer, child, reports, kept, disturbed>>

\* wait "$CONSUMER_PID"
AwaitConsumer ==
  /\ ConsumerEnded
  /\ Goto("wait", IF exit_code = 0 THEN "briefing" ELSE "cleanup")
  /\ child' = "reaped"
  /\ UNCHANGED <<vars, producer, reports, kept, disturbed>>

\* python -m src.briefing fails without alert.json.
WriteBriefing ==
  LET input == Exists(files["alert.json"])
  IN /\ Goto("briefing", IF input THEN "evaluate" ELSE "cleanup")
     /\ reports' = IF input THEN [reports EXCEPT !["briefing.txt"] = Fresh] ELSE reports
     /\ UNCHANGED <<vars, producer, child, kept, disturbed>>

\* python -m src.evaluate reads the replay file, not the artifacts (Evaluation).
Evaluate ==
  /\ Goto("evaluate", "verify")
  /\ reports' = [reports EXCEPT !["evaluation.json"] = Fresh]
  /\ UNCHANGED <<vars, producer, child, kept, disturbed>>

\* What the acceptance check compares.
Matches ==
  /\ files["alert.json"].run_counts = ExpectedCounts
  /\ Summaries(files["alert.json"].alerts) = ExpectedAlerts
  /\ files["metrics.csv"] = ExpectedMetrics
  /\ \A r \in Reports : reports[r] = Fresh

\* Bug: the files are looked for and not compared.
Verify_FilesExist ==
  /\ Goto("verify", IF /\ \A a \in Artifacts : Exists(files[a])
                       /\ \A r \in Reports : Exists(reports[r])
                    THEN "tests" ELSE "cleanup")
  /\ UNCHANGED <<vars, producer, child, reports, kept, disturbed>>

Verify ==
  /\ Goto("verify", IF Matches THEN "tests" ELSE "cleanup")
  /\ UNCHANGED <<vars, producer, child, reports, kept, disturbed>>

\* The test suite passes.
Tests ==
  /\ Goto("tests", "done")
  /\ UNCHANGED <<vars, producer, child, reports, kept, disturbed>>

\* A command fails for a reason outside the program: docker, rm, an unwritable
\* directory. rm is taken to have removed nothing then.
CommandFails ==
  /\ script \in {"preflight", "up", "clear", "briefing", "evaluate", "verify", "tests"}
  /\ script' = "cleanup"
  /\ disturbed' = TRUE
  /\ UNCHANGED <<vars, producer, child, reports, kept>>

\* Ctrl-C: the producer, in the foreground, gets it too, and the event its client is
\* delivering may still reach the topic; the consumer, a background job of a
\* non-interactive shell, ignores it.
Interrupt ==
  /\ script \notin Ended \cup {"cleanup", "reap"}
  /\ script' = "cleanup"
  /\ IF script = "replay"
     THEN /\ replay' = "killed"
          /\ \/ UNCHANGED topic
             \/ replay = "publish" /\ topic' = Append(topic, replay_file[published + 1])
     ELSE UNCHANGED <<replay, topic>>
  /\ disturbed' = TRUE
  /\ UNCHANGED <<processor, consuming, pc, consumer_open, writing, failed, exit_code,
                 child, reports, replay_file, published, kept>>

\* Bug: no trap.
Cleanup_NoTrap ==
  /\ Goto("cleanup", "failed")
  /\ UNCHANGED <<vars, producer, child, reports, kept, disturbed>>

\* The EXIT trap: it sends a signal to a consumer it knows of and finds alive.
Cleanup ==
  /\ Goto("cleanup", IF child = "known" /\ ~ ConsumerEnded THEN "reap" ELSE "failed")
  /\ UNCHANGED <<vars, producer, child, reports, kept, disturbed>>

\* The trap waits until the signalled consumer is gone.
Reap ==
  /\ ConsumerEnded
  /\ Goto("reap", "failed")
  /\ child' = "reaped"
  /\ UNCHANGED <<vars, producer, reports, kept, disturbed>>

Script ==
  \/ Preflight \/ ResetBroker \/ StartBroker \/ ClearArtifacts \/ Launch \/ Remember
  \/ ReplayEnded \/ AwaitConsumer \/ WriteBriefing \/ Evaluate \/ Verify \/ Tests
  \/ Cleanup \/ Reap
-----------------------------------------------------------------------------
(* The processes the script started.                                       *)

\* Giving up at the idle deadline is the environment's doing: nothing came in time.
Consumer ==
  /\ child # "none"
  /\ Run
  /\ disturbed' = (disturbed \/ (pc = "consume" /\ pc' = "close"))
  /\ UNCHANGED <<producer, shell, kept>>

ConsumerFault ==
  /\ child # "none"
  /\ StartFails \/ PollError \/ WriteFails \/ Kill
  /\ disturbed' = TRUE
  /\ UNCHANGED <<producer, shell, kept>>

\* The signal of the trap reaches the consumer.
Terminated ==
  /\ script = "reap"
  /\ Kill
  /\ UNCHANGED <<producer, shell, kept, disturbed>>

Producer ==
  /\ script = "replay"
  /\ R!Replaying
  /\ UNCHANGED <<processor, consuming, pc, consumer_open, writing, failed, exit_code,
                 shell, kept, disturbed>>

ProducerFault ==
  /\ script = "replay"
  /\ R!ReplayFault
  /\ disturbed' = TRUE
  /\ UNCHANGED <<processor, consuming, pc, consumer_open, writing, failed, exit_code,
                 shell, kept>>
-----------------------------------------------------------------------------
DemoInit ==
  /\ P!Init
  /\ topic \in Leftovers
  /\ position = 0 /\ waited = 0 /\ idle = 0 /\ malformed_messages_skipped = 0
  /\ pc = "start" /\ consumer_open = FALSE
  /\ target = "alert.json" /\ temporary = None
  /\ files = [a \in Artifacts |-> Stale]
  /\ failed = FALSE /\ exit_code = None
  /\ script = "preflight" /\ child = "none"
  /\ replay_file \in {Fixture} \cup OtherFiles
  /\ replay = "load" /\ published = 0
  /\ reports = [r \in Reports |-> Stale]
  /\ kept = FALSE
  /\ disturbed = (replay_file # Fixture)

DemoNext ==
  \/ Script \/ CommandFails \/ Interrupt
  \/ Consumer \/ ConsumerFault \/ Terminated
  \/ Producer \/ ProducerFault

\* Every process is scheduled, and a signal that was sent arrives.
DemoSpec ==
  /\ DemoInit /\ [][DemoNext]_demoVars
  /\ WF_demoVars(Script) /\ WF_demoVars(Consumer) /\ WF_demoVars(Producer)
  /\ WF_demoVars(Terminated)
-----------------------------------------------------------------------------
(* Properties.                                                             *)

\* The demo is reproducible: whatever the consumer and the producer do in
\* parallel, and whatever earlier runs left on the topic and on disk, it fails
\* only if something outside the program went wrong (a command, the broker, a
\* signal, the consumer's idle deadline, another replay file). In particular the
\* processor computes what replay_expected.json says (run_demo.sh:57-155).
UndisturbedDemoSucceeds == script \in {"cleanup", "reap", "failed"} => disturbed

\* No consumer outlives the script, however it ends: it has ended by itself, and
\* then closed its Kafka client, or the trap has waited for its death. The one
\* exception is an interrupt between the fork and the assignment of CONSUMER_PID
\* (run_demo.sh:34-40, 65-66; stream_processor.py:78-79).
NoConsumerLeftBehind ==
  script \in Ended =>
    \/ child \in {"none", "forked"}
    \/ pc = "killed"
    \/ pc = "exit" /\ ~ consumer_open

\* Once the artifacts are cleared, they appear in the order alert, metrics,
\* briefing, evaluation, and each of them is of this run; the briefing is never
\* written next to artifacts of a run that failed (run_demo.sh:62-83,
\* stream_processor.py:76-77).
ArtifactsInOrder ==
  \/ files["alert.json"] = Stale
  \/ /\ Exists(files["metrics.csv"]) => files["alert.json"] = BuildAlertOutput(results)
     /\ Exists(reports["briefing.txt"]) =>
          exit_code = 0 /\ files["metrics.csv"] = BuildMetricsRows(results)
     /\ Exists(reports["evaluation.json"]) => Exists(reports["briefing.txt"])

\* On a broker that was reset, the topic is a prefix of the replay file, each
\* event once and in order, the confirmed ones all there and at most one more;
\* it stays empty when any line of the file is unusable, and a producer that
\* exits with 0 has put the whole file there (replay_producer.py:106-132).
TopicIsReplayPrefix ==
  child # "none" /\ ~ kept =>
    /\ topic = SubSeq(replay_file, 1, Len(topic))
    /\ Len(topic) - published \in {0, 1}
    /\ replay = "exit_0" => topic = replay_file
    /\ topic # <<>> => ValidReplay(replay_file)

\* A demo that passes has processed the events of the repository's replay, all of
\* them and in their order, even if the broker was not reset and an earlier run left
\* messages on the topic: at worst they are those of that run, when it was a complete
\* replay (run_demo.sh:57-58, 98-132; kafka_io.py:87).
PassedDemoReadTheFixture ==
  script = "done" =>
    /\ Len(results) = Len(Fixture)
    /\ \A i \in 1..Len(Fixture) : results[i].event = Fixture[i]

\* The demo ends: neither the wait for the consumer nor the one in the trap blocks
\* for ever, though the consumer may fail, be killed or see too few events
\* (run_demo.sh:37, 72).
DemoTerminates == <>(script \in Ended)
=============================================================================
