--------------------------- MODULE DemoRunProofs ---------------------------
(***************************************************************************)
(* DemoRun for every replay file, every content of the topic and of the    *)
(* directory it starts from, every schedule of the script, the consumer    *)
(* and the producer, and every place an error, a kill or an interrupt can  *)
(* hit. The consumer's own invariant (StreamProcessorProofs) holds from    *)
(* the launch on; before it the consumer has not begun.                    *)
(***************************************************************************)
EXTENDS DemoRun, StreamProcessorProofs

\* The steps before the consumer is started, and those after the wait for it.
Unlaunched == {"preflight", "down", "up", "clear", "launch"}
Concluding == {"briefing", "evaluate", "verify", "tests", "done"}

\* Every variable has its type; the consumer's are typed by its own invariant.
DemoTypeOK ==
  /\ script \in Unlaunched \cup {"remember", "replay", "wait"} \cup Concluding
                \cup {"cleanup", "reap", "failed"}
  /\ child \in {"none", "forked", "known", "reaped"}
  /\ replay_file \in Seq(P!KpEvents \cup {Invalid})
  /\ replay \in {"load", "ensure", "publish", "exit_0", "exit_1", "killed"}
  /\ published \in Nat
  /\ topic \in Seq(P!KpEvents \cup {Malformed})
  /\ DOMAIN reports = Reports
  /\ kept \in BOOLEAN

\* Until the launch nothing has happened but the reset and the removal of files.
BeforeLaunch ==
  child = "none" =>
    /\ NotStarted /\ replay = "load" /\ published = 0
    /\ \/ script # "launch" /\ files = [a \in Artifacts |-> Stale]
       \/ files = [a \in Artifacts |-> OldRun] /\ reports = [r \in Reports |-> OldRun]
    /\ script \in {"up", "clear", "launch"} /\ ~ kept => topic = <<>>

\* From the launch on the consumer is in a state of its own invariant, and its Kafka
\* client is open only in between.
ConsumerSound ==
  child # "none" => IInv /\ (pc \in {"start", "exit"} => ~ consumer_open)

\* What the script knows of the consumer, by the step it has reached.
ChildSound ==
  /\ script \in Unlaunched <=> child = "none" /\ script \notin {"cleanup", "failed"}
  /\ script = "remember" => child = "forked"
  /\ script \in {"replay", "wait", "reap"} => child = "known"
  /\ script \in Concluding => child = "reaped"
  /\ child = "reaped" => ConsumerEnded
  /\ script = "failed" => child \in {"none", "forked"} \/ ConsumerEnded

\* The reports follow the artifacts of a successful run, in their order.
ReportsSound ==
  child # "none" =>
    /\ script \in Concluding => exit_code = 0
    /\ script \in Concluding \ {"briefing"} => Exists(reports["briefing.txt"])
    /\ Exists(reports["briefing.txt"]) => exit_code = 0
    /\ Exists(reports["evaluation.json"]) => Exists(reports["briefing.txt"])

\* The producer publishes from a valid file, and within it.
ReplaySound ==
  /\ replay \in {"load", "ensure"} => published = 0
  /\ replay \in {"ensure", "publish"} => ValidReplay(replay_file)
  /\ replay = "publish" => published < Len(replay_file)

\* What the producer has put on a topic that was empty.
TopicSound ==
  child # "none" /\ ~ kept =>
    /\ Len(topic) <= Len(replay_file)
    /\ \A i \in 1..Len(topic) : topic[i] = replay_file[i]
    /\ Len(topic) - published \in {0, 1}
    /\ topic # <<>> => ValidReplay(replay_file)
    /\ replay \in {"load", "ensure", "publish", "exit_0"} => Len(topic) = published
    /\ replay = "exit_0" => published = Len(replay_file)

DemoInv ==
  DemoTypeOK /\ BeforeLaunch /\ ConsumerSound /\ ChildSound /\ ReportsSound /\ ReplaySound
  /\ TopicSound
-----------------------------------------------------------------------------
(* The consumer.                                                           *)

\* A step of the script leaves the consumer as it is.
LEMMA ConsumerUntouched ==
  ASSUME UNCHANGED vars
  PROVE  /\ UNCHANGED <<topic, pc, consumer_open, files, exit_code, results>>
         /\ IInv => IInv'
         /\ NotStarted => NotStarted'
<1>1. UNCHANGED <<topic, pc, consumer_open, files, exit_code, results>>
  BY DEF vars, writing, processor
<1>2. IInv => IInv'
  BY NextIInv
<1>3. NotStarted => NotStarted'
  BY DEF vars, processor, consuming, writing, NotStarted, P!Init
<1> QED
  BY <1>1, <1>2, <1>3

\* A step of the consumer, a failure and its death included.
LEMMA ConsumerMoves ==
  ASSUME IInv, pc \in {"start", "exit"} => ~ consumer_open,
         Run \/ StartFails \/ PollError \/ WriteFails \/ Kill
  PROVE  /\ IInv' /\ UNCHANGED topic
         /\ ~ ConsumerEnded
         /\ (pc \in {"start", "exit"} => ~ consumer_open)'
<1>1. IInv'
  BY NextIInv DEF Next, Fault
<1>2. UNCHANGED topic
  BY DEF Run, Subscribe, StartFails, PollNone, ConsumeTimeout, PollMalformed, PollError,
         PollEvent, OpenTemporary, FillTemporary, Replace, WriteFails, Close, Kill
<1>3. ~ ConsumerEnded
  BY DEF ConsumerEnded, Run, Subscribe, StartFails, PollNone, CanPoll, ConsumeTimeout,
         PollMalformed, PollError, PollEvent, OpenTemporary, FillTemporary, Replace, WriteFails,
         Close, Kill
<1>4. (pc \in {"start", "exit"} => ~ consumer_open)'
  BY DEF Run, Subscribe, StartFails, PollNone, CanPoll, ConsumeTimeout, PollMalformed, PollError,
         PollEvent, OpenTemporary, FillTemporary, Replace, WriteFails, Close, Kill, Fail
<1> QED
  BY <1>1, <1>2, <1>3, <1>4

LEMMA ConsumerInv ==
  ASSUME DemoInv, Consumer \/ ConsumerFault \/ Terminated
  PROVE  DemoInv'
<1>1. child # "none"
  BY DEF Consumer, ConsumerFault, Terminated, DemoInv, ChildSound
<1>2. UNCHANGED <<producer, shell, kept>>
  BY DEF Consumer, ConsumerFault, Terminated
<1>3. /\ IInv /\ IInv' /\ UNCHANGED topic
      /\ ~ ConsumerEnded
      /\ (pc \in {"start", "exit"} => ~ consumer_open)'
  BY <1>1, ConsumerMoves DEF Consumer, ConsumerFault, Terminated, DemoInv, ConsumerSound
<1>4. exit_code # 0
  BY <1>3, StreamAssumption DEF IInv, WritesInOrder, ConsumerEnded
<1>5. ReportsSound'
  BY <1>1, <1>2, <1>4 DEF DemoInv, ReportsSound, shell, Exists
<1>6. DemoTypeOK' /\ BeforeLaunch' /\ ConsumerSound' /\ ReplaySound' /\ TopicSound'
  BY <1>1, <1>2, <1>3
     DEF DemoInv, DemoTypeOK, BeforeLaunch, ConsumerSound, ReplaySound, TopicSound, shell, producer
<1>7. ChildSound'
  BY <1>1, <1>2, <1>3 DEF DemoInv, ChildSound, shell, Unlaunched, Concluding
<1> QED
  BY <1>5, <1>6, <1>7 DEF DemoInv
-----------------------------------------------------------------------------
(* The producer.                                                           *)

LEMMA SameReplay ==
  /\ \A lines : R!ValidReplay(lines) <=> ValidReplay(lines)
  /\ R!Exited(0) = "exit_0" /\ R!Exited(1) = "exit_1"
  BY DEF R!ValidReplay, ValidReplay, R!Exited

\* The steps that publish nothing.
LEMMA ReplayControlInv ==
  ASSUME DemoInv, script = "replay",
         R!LoadReplay \/ R!EnsureTopic \/ R!EnsureFails,
         UNCHANGED <<processor, consuming, pc, consumer_open, writing, failed, exit_code,
                     shell, kept>>
  PROVE  DemoInv'
<1>1. /\ UNCHANGED <<replay_file, topic, published>> /\ published = 0
      /\ replay \in {"load", "ensure"}
      /\ replay' \in {"ensure", "publish", "exit_1"}
      /\ replay' \in {"ensure", "publish"} => ValidReplay(replay_file)
  BY SameReplay
     DEF R!LoadReplay, R!EnsureTopic, R!EnsureFails, DemoInv, ReplaySound
<1>2. UNCHANGED vars
  BY <1>1 DEF vars
<1>3. ConsumerSound' /\ child' = child /\ child # "none"
  BY <1>2, ConsumerUntouched DEF DemoInv, ConsumerSound, ChildSound, shell
<1>4. DemoTypeOK' /\ BeforeLaunch' /\ ReplaySound'
  <2>1. ValidReplay(replay_file) => 0 < Len(replay_file)
    BY LenProperties, EmptySeq DEF ValidReplay, DemoInv, DemoTypeOK
  <2> QED
    BY <1>1, <1>3, <2>1
       DEF DemoInv, DemoTypeOK, BeforeLaunch, ReplaySound, shell
<1>5. ChildSound' /\ ReportsSound'
  BY <1>1, <1>3 DEF DemoInv, ChildSound, ReportsSound, ConsumerEnded, shell
<1>6. TopicSound'
  BY <1>1, <1>3 DEF DemoInv, TopicSound, shell
<1> QED
  BY <1>3, <1>4, <1>5, <1>6 DEF DemoInv

\* The next event of the replay reaches the topic, confirmed or not: it is an event,
\* and the next one of a valid file.
LEMMA AppendKept ==
  ASSUME DemoInv, child # "none", replay = "publish",
         topic' = Append(topic, replay_file[published + 1]),
         UNCHANGED <<replay_file, child, kept>>,
         \/ published' = published + 1
            /\ replay' = IF published + 1 < Len(replay_file) THEN "publish" ELSE "exit_0"
         \/ published' = published /\ replay' \in {"exit_1", "killed"},
         UNCHANGED <<processor, consuming, pc, consumer_open, writing, failed, exit_code>>
  PROVE  /\ topic' \in Seq(P!KpEvents \cup {Malformed}) /\ published' \in Nat
         /\ ConsumerSound' /\ ReplaySound' /\ TopicSound'
<1> DEFINE e == replay_file[published + 1]
<1>1. /\ ValidReplay(replay_file) /\ published < Len(replay_file)
      /\ published \in Nat /\ Len(replay_file) \in Nat
      /\ DOMAIN replay_file = 1..Len(replay_file)
      /\ published + 1 \in 1..Len(replay_file)
  BY LenProperties DEF DemoInv, ReplaySound, DemoTypeOK
<1>2. e \in P!KpEvents
  <2>1. e \in P!KpEvents \cup {Invalid}
    BY <1>1, ElementOfSeq DEF DemoInv, DemoTypeOK
  <2> QED
    BY <1>1, <2>1 DEF ValidReplay
<1>3. /\ topic' \in Seq(P!KpEvents \cup {Malformed})
      /\ Len(topic') = Len(topic) + 1 /\ Len(topic) \in Nat
      /\ \A i \in 1..Len(topic) : topic'[i] = topic[i]
      /\ topic'[Len(topic) + 1] = e
  BY <1>2, AppendProperties, LenProperties DEF DemoInv, DemoTypeOK
<1>4. ConsumerSound'
  BY <1>2, AppendIInv DEF DemoInv, ConsumerSound
<1>5. ReplaySound' /\ published' \in Nat
  BY <1>1 DEF DemoInv, ReplaySound
<1>6. TopicSound'
  <2> SUFFICES ASSUME ~ kept PROVE TopicSound'
    BY DEF TopicSound
  <2>1. /\ Len(topic) = published
        /\ \A i \in 1..Len(topic) : topic[i] = replay_file[i]
    BY DEF DemoInv, TopicSound
  <2>2. \A i \in 1..Len(topic') : topic'[i] = replay_file[i]
    <3> SUFFICES ASSUME NEW i \in 1..Len(topic') PROVE topic'[i] = replay_file[i]
      OBVIOUS
    <3>1. i \in 1..Len(topic) \/ i = Len(topic) + 1
      BY <1>3
    <3> QED
      BY <1>3, <2>1, <3>1
  <2>3. /\ Len(topic') = published + 1 /\ Len(topic') <= Len(replay_file)
        /\ published' = published \/ published' = published + 1
        /\ replay' = "exit_0" => published' = Len(replay_file)
        /\ replay' \in {"publish", "exit_0"} => published' = published + 1
        /\ replay' \notin {"load", "ensure"}
    BY <1>1, <1>3, <2>1
  <2>4. Len(topic') - published' \in {0, 1}
    <3>1. (published + 1) - published = 1 /\ (published + 1) - (published + 1) = 0
      BY <1>1
    <3> QED
      BY <2>3, <3>1
  <2> QED
    BY <1>1, <2>2, <2>3, <2>4 DEF TopicSound
<1> QED
  BY <1>3, <1>4, <1>5, <1>6

LEMMA ReplayAppendInv ==
  ASSUME DemoInv, script = "replay", replay = "publish",
         topic' = Append(topic, replay_file[published + 1]),
         UNCHANGED replay_file,
         \/ published' = published + 1
            /\ replay' = IF published + 1 < Len(replay_file) THEN "publish" ELSE "exit_0"
         \/ published' = published /\ replay' = "exit_1",
         UNCHANGED <<processor, consuming, pc, consumer_open, writing, failed, exit_code,
                     shell, kept>>
  PROVE  DemoInv'
<1>1. child # "none" /\ UNCHANGED <<script, child, reports>>
  BY DEF DemoInv, ChildSound, shell
<1>2. /\ topic' \in Seq(P!KpEvents \cup {Malformed}) /\ published' \in Nat
      /\ ConsumerSound' /\ ReplaySound' /\ TopicSound'
  BY <1>1, AppendKept
<1>3. DemoTypeOK' /\ BeforeLaunch'
  BY <1>1, <1>2 DEF DemoInv, DemoTypeOK, BeforeLaunch
<1>4. ChildSound' /\ ReportsSound'
  BY <1>1 DEF DemoInv, ChildSound, ReportsSound, ConsumerEnded
<1> QED
  BY <1>2, <1>3, <1>4 DEF DemoInv

\* Every step of the producer.
LEMMA ProducerInv ==
  ASSUME DemoInv, Producer \/ ProducerFault
  PROVE  DemoInv'
<1>0. /\ script = "replay" /\ (R!Replaying \/ R!ReplayFault)
      /\ UNCHANGED <<processor, consuming, pc, consumer_open, writing, failed, exit_code,
                     shell, kept>>
  BY DEF Producer, ProducerFault
<1>1. CASE R!LoadReplay \/ R!EnsureTopic \/ R!EnsureFails
  BY <1>0, <1>1, ReplayControlInv DEF Producer, ProducerFault
<1>2. CASE R!PublishNext
  BY <1>0, <1>2, ReplayAppendInv, SameReplay DEF R!PublishNext, Producer, ProducerFault
<1>3. CASE R!PublishFails /\ topic' # topic
  BY <1>0, <1>3, ReplayAppendInv, SameReplay DEF R!PublishFails, Producer, ProducerFault
<1>4. CASE R!PublishFails /\ topic' = topic
  <2>1. UNCHANGED <<replay_file, published, script, child, reports, kept>> /\ UNCHANGED vars
        /\ replay = "publish" /\ replay' = "exit_1" /\ child # "none"
    BY <1>0, <1>4, SameReplay
       DEF R!PublishFails, Producer, ProducerFault, shell, vars, DemoInv, ChildSound
  <2>2. ConsumerSound'
    BY <2>1, ConsumerUntouched DEF DemoInv, ConsumerSound
  <2>3. DemoTypeOK' /\ BeforeLaunch' /\ ReplaySound' /\ TopicSound'
    BY <1>4, <2>1 DEF DemoInv, DemoTypeOK, BeforeLaunch, ReplaySound, TopicSound
  <2>4. ChildSound' /\ ReportsSound'
    BY <1>0, <2>1 DEF DemoInv, ChildSound, ReportsSound, ConsumerEnded
  <2> QED
    BY <2>2, <2>3, <2>4 DEF DemoInv
<1> QED
  BY <1>0, <1>1, <1>2, <1>3, <1>4 DEF R!Replaying, R!ReplayFault
-----------------------------------------------------------------------------
(* The script.                                                             *)

\* A step of the script that touches no artifact, no topic and no other process keeps
\* what is not its own.
LEMMA ScriptKept ==
  ASSUME DemoInv, UNCHANGED <<vars, producer, kept>>, child' = "none" <=> child = "none",
         script' \in Unlaunched \cup {"remember", "replay", "wait"} \cup Concluding
                     \cup {"cleanup", "reap", "failed"},
         child' \in {"none", "forked", "known", "reaped"}, DOMAIN reports' = Reports
  PROVE  /\ DemoTypeOK' /\ ConsumerSound' /\ ReplaySound' /\ TopicSound'
         /\ UNCHANGED <<topic, pc, consumer_open, files, exit_code, results>>
         /\ ConsumerEnded' = ConsumerEnded
<1>1. /\ UNCHANGED <<topic, pc, consumer_open, files, exit_code, results>>
      /\ IInv => IInv'
  BY ConsumerUntouched
<1>2. DemoTypeOK' /\ ConsumerSound' /\ ReplaySound' /\ TopicSound'
  BY <1>1 DEF DemoInv, DemoTypeOK, ConsumerSound, ReplaySound, TopicSound, producer
<1> QED
  BY <1>1, <1>2 DEF ConsumerEnded

\* The steps before the launch.
LEMMA PreparationInv ==
  ASSUME DemoInv, Preflight \/ StartBroker
  PROVE  DemoInv'
<1>1. /\ UNCHANGED <<vars, producer, kept, child, reports>>
      /\ script \in Unlaunched \ {"launch"} /\ script' \in {"down", "clear"}
      /\ script' = "clear" => script = "up"
  BY DEF Preflight, StartBroker, Goto, Unlaunched
<1>2. child = "none" /\ DOMAIN reports = Reports
  BY <1>1 DEF DemoInv, ChildSound, DemoTypeOK
<1>3. /\ DemoTypeOK' /\ ConsumerSound' /\ ReplaySound' /\ TopicSound'
      /\ UNCHANGED <<topic, pc, consumer_open, files, exit_code, results>>
  BY <1>1, <1>2, ScriptKept DEF Unlaunched
<1>4. BeforeLaunch'
  BY <1>1, <1>2, <1>3, ConsumerUntouched DEF DemoInv, BeforeLaunch, producer
<1>5. ChildSound' /\ ReportsSound'
  BY <1>1, <1>2 DEF ChildSound, ReportsSound, Unlaunched, Concluding
<1> QED
  BY <1>3, <1>4, <1>5 DEF DemoInv

\* The reset empties the topic, or leaves it as it was and says so.
LEMMA ResetInv ==
  ASSUME DemoInv, ResetBroker
  PROVE  DemoInv'
<1>1. /\ script = "down" /\ script' = "up"
      /\ \/ topic' = <<>> /\ kept' = kept
         \/ topic' = topic /\ kept' = (topic # <<>>)
      /\ UNCHANGED <<processor, consuming, pc, consumer_open, writing, failed, exit_code,
                     producer, child, reports>>
  BY DEF ResetBroker, Goto
<1>2. child = "none"
  BY <1>1 DEF DemoInv, ChildSound, Unlaunched
<1>3. DemoTypeOK'
  BY <1>1, EmptySeq DEF DemoInv, DemoTypeOK, Unlaunched, producer
<1>4. BeforeLaunch'
  <2>1. NotStarted'
    BY <1>1, <1>2
       DEF DemoInv, BeforeLaunch, NotStarted, P!Init, processor, consuming, writing
  <2> QED
    BY <1>1, <1>2, <2>1 DEF DemoInv, BeforeLaunch, writing, producer
<1>5. ConsumerSound' /\ ChildSound' /\ ReportsSound' /\ TopicSound'
  BY <1>1, <1>2 DEF ConsumerSound, ChildSound, ReportsSound, TopicSound, Unlaunched, Concluding
<1>6. ReplaySound'
  BY <1>1 DEF DemoInv, ReplaySound, producer
<1> QED
  BY <1>3, <1>4, <1>5, <1>6 DEF DemoInv

\* Nothing of an earlier run is left in the directory.
LEMMA ClearInv ==
  ASSUME DemoInv, ClearArtifacts
  PROVE  DemoInv'
<1>1. /\ script = "clear" /\ script' = "launch"
      /\ files' = [a \in Artifacts |-> OldRun]
      /\ reports' = [r \in Reports |-> OldRun]
      /\ UNCHANGED <<processor, topic, consuming, pc, consumer_open, target, temporary,
                     failed, exit_code, producer, child, kept>>
  BY DEF ClearArtifacts, Goto
<1>2. child = "none"
  BY <1>1 DEF DemoInv, ChildSound, Unlaunched
<1>3. DemoTypeOK'
  BY <1>1 DEF DemoInv, DemoTypeOK, Unlaunched, producer
<1>4. BeforeLaunch'
  <2>1. NotStarted'
    BY <1>1, <1>2
       DEF DemoInv, BeforeLaunch, NotStarted, P!Init, processor, consuming
  <2> QED
    BY <1>1, <1>2, <2>1 DEF DemoInv, BeforeLaunch, producer
<1>5. ConsumerSound' /\ ChildSound' /\ ReportsSound' /\ TopicSound'
  BY <1>1, <1>2 DEF ConsumerSound, ChildSound, ReportsSound, TopicSound, Unlaunched, Concluding
<1>6. ReplaySound'
  BY <1>1 DEF DemoInv, ReplaySound, producer
<1> QED
  BY <1>3, <1>4, <1>5, <1>6 DEF DemoInv

\* The consumer starts on a cleared directory, and on an empty topic unless the
\* reset has failed.
LEMMA LaunchInv ==
  ASSUME DemoInv, Launch
  PROVE  DemoInv'
<1>1. /\ script = "launch" /\ script' = "remember" /\ child' = "forked"
      /\ UNCHANGED <<vars, producer, reports, kept>>
  BY DEF Launch, Goto
<1>2. child = "none"
  BY <1>1 DEF DemoInv, ChildSound, Unlaunched
<1>3. /\ NotStarted /\ replay = "load" /\ published = 0
      /\ files = [a \in Artifacts |-> OldRun] /\ reports = [r \in Reports |-> OldRun]
      /\ ~ kept => topic = <<>>
  BY <1>1, <1>2 DEF DemoInv, BeforeLaunch
<1>4. IInv /\ pc = "start" /\ ~ consumer_open
  BY <1>3, StartIInv DEF DemoInv, DemoTypeOK, NotStarted
<1>5. IInv' /\ UNCHANGED <<topic, pc, consumer_open, files, exit_code, results>>
  BY <1>1, <1>4, ConsumerUntouched
<1>6. DemoTypeOK' /\ BeforeLaunch' /\ ConsumerSound' /\ ReplaySound'
  BY <1>1, <1>4, <1>5
     DEF DemoInv, DemoTypeOK, BeforeLaunch, ConsumerSound, ReplaySound, producer
<1>7. ChildSound' /\ ReportsSound'
  BY <1>1, <1>3 DEF ChildSound, ReportsSound, Unlaunched, Concluding, Exists, Reports
<1>8. TopicSound'
  <2>1. topic = <<>> => Len(topic) = 0
    OBVIOUS
  <2>2. Len(replay_file) \in Nat
    BY LenProperties DEF DemoInv, DemoTypeOK
  <2> QED
    BY <1>1, <1>3, <1>5, <2>1, <2>2 DEF TopicSound, producer
<1> QED
  BY <1>6, <1>7, <1>8 DEF DemoInv

\* From the launch to the end of the wait.
LEMMA WaitingInv ==
  ASSUME DemoInv, Remember \/ ReplayEnded \/ AwaitConsumer
  PROVE  DemoInv'
<1>1. /\ UNCHANGED <<vars, producer, kept, reports>>
      /\ script \in {"remember", "replay", "wait"}
      /\ script' \in {"replay", "wait", "briefing", "cleanup"}
      /\ child' \in {"forked", "known", "reaped"}
      /\ script' \in {"replay", "wait"} => child' = "known"
      /\ child' = "reaped" => ConsumerEnded
      /\ script' = "briefing" => child' = "reaped" /\ exit_code = 0
  BY DEF Remember, ReplayEnded, AwaitConsumer, Goto, DemoInv, ChildSound
<1>2. child # "none" /\ DOMAIN reports = Reports
  BY <1>1 DEF DemoInv, ChildSound, DemoTypeOK
<1>3. /\ DemoTypeOK' /\ ConsumerSound' /\ ReplaySound' /\ TopicSound'
      /\ UNCHANGED <<topic, pc, consumer_open, files, exit_code, results>>
      /\ ConsumerEnded' = ConsumerEnded
  BY <1>1, <1>2, ScriptKept DEF Concluding
<1>4. BeforeLaunch'
  BY <1>1 DEF BeforeLaunch
<1>5. ChildSound'
  BY <1>1, <1>3 DEF ChildSound, Unlaunched, Concluding
<1>6. ReportsSound'
  BY <1>1, <1>2, <1>3 DEF DemoInv, ReportsSound, Concluding, Exists
<1> QED
  BY <1>3, <1>4, <1>5, <1>6 DEF DemoInv

\* After a successful wait: the reports are written and compared.
LEMMA ConcludingInv ==
  ASSUME DemoInv, WriteBriefing \/ Evaluate \/ Verify \/ Tests
  PROVE  DemoInv'
<1>1. /\ UNCHANGED <<vars, producer, kept, child>>
      /\ script \in Concluding
      /\ script' \in Concluding \cup {"cleanup"} /\ script' # "briefing"
      /\ DOMAIN reports = Reports
  BY DEF WriteBriefing, Evaluate, Verify, Tests, Goto, Concluding, DemoInv, DemoTypeOK
<1>2. /\ child = "reaped" /\ ConsumerEnded /\ exit_code = 0
      /\ script # "briefing" => Exists(reports["briefing.txt"])
      /\ Exists(reports["evaluation.json"]) => Exists(reports["briefing.txt"])
  BY <1>1 DEF DemoInv, ChildSound, ReportsSound
<1>3. /\ DOMAIN reports' = Reports
      /\ script' \in Concluding => Exists(reports["briefing.txt"])'
      /\ Exists(reports["evaluation.json"])' => Exists(reports["briefing.txt"])'
  BY <1>1, <1>2, DemoAssumption
     DEF WriteBriefing, Evaluate, Verify, Tests, Goto, Concluding, Reports, Exists
<1>4. /\ DemoTypeOK' /\ ConsumerSound' /\ ReplaySound' /\ TopicSound'
      /\ UNCHANGED <<topic, pc, consumer_open, files, exit_code, results>>
      /\ ConsumerEnded' = ConsumerEnded
  BY <1>1, <1>2, <1>3, ScriptKept
<1>5. BeforeLaunch' /\ ReportsSound'
  BY <1>1, <1>2, <1>3, <1>4 DEF BeforeLaunch, ReportsSound
<1>6. ChildSound'
  BY <1>1, <1>2, <1>4 DEF ChildSound, Unlaunched, Concluding
<1> QED
  BY <1>4, <1>5, <1>6 DEF DemoInv

\* Ctrl-C while the client is delivering an event, which reaches the topic.
LEMMA InFlightInv ==
  ASSUME DemoInv, Interrupt, topic' # topic
  PROVE  DemoInv'
<1>1. /\ script = "replay" /\ script' = "cleanup" /\ child # "none"
      /\ replay = "publish" /\ replay' = "killed"
      /\ topic' = Append(topic, replay_file[published + 1])
      /\ UNCHANGED <<processor, consuming, pc, consumer_open, writing, failed, exit_code,
                     child, reports, replay_file, published, kept>>
  BY DEF Interrupt, DemoInv, ChildSound
<1>2. /\ topic' \in Seq(P!KpEvents \cup {Malformed}) /\ published' \in Nat
      /\ ConsumerSound' /\ ReplaySound' /\ TopicSound'
  BY <1>1, AppendKept
<1>3. DemoTypeOK' /\ BeforeLaunch'
  BY <1>1, <1>2 DEF DemoInv, DemoTypeOK, BeforeLaunch
<1>4. ChildSound' /\ ReportsSound'
  BY <1>1 DEF DemoInv, ChildSound, ReportsSound, ConsumerEnded, Unlaunched, Concluding
<1> QED
  BY <1>2, <1>3, <1>4 DEF DemoInv

\* A command fails, or Ctrl-C with nothing on its way: the trap comes next.
LEMMA BreakInv ==
  ASSUME DemoInv, CommandFails \/ (Interrupt /\ topic' = topic)
  PROVE  DemoInv'
<1>1. /\ UNCHANGED <<vars, child, reports, kept, replay_file, published>>
      /\ script \notin {"cleanup", "reap", "failed", "done"} /\ script' = "cleanup"
      /\ replay' = replay \/ (script = "replay" /\ replay' = "killed")
      /\ DOMAIN reports = Reports
  BY DEF CommandFails, Interrupt, Ended, producer, vars, DemoInv, DemoTypeOK
<1>2. /\ UNCHANGED <<topic, pc, consumer_open, files, exit_code, results>>
      /\ (IInv => IInv') /\ (NotStarted => NotStarted')
  BY <1>1, ConsumerUntouched
<1>3. DemoTypeOK' /\ ConsumerSound' /\ ReplaySound' /\ TopicSound'
  BY <1>1, <1>2 DEF DemoInv, DemoTypeOK, ConsumerSound, ReplaySound, TopicSound
<1>4. BeforeLaunch'
  <2> SUFFICES ASSUME child = "none" PROVE BeforeLaunch'
    BY <1>1 DEF BeforeLaunch
  <2>1. /\ NotStarted /\ replay = "load" /\ published = 0
        /\ \/ files = [a \in Artifacts |-> Stale]
           \/ files = [a \in Artifacts |-> OldRun] /\ reports = [r \in Reports |-> OldRun]
    BY DEF DemoInv, BeforeLaunch
  <2>2. replay' = replay
    BY <1>1 DEF DemoInv, ChildSound
  <2> QED
    BY <1>1, <1>2, <2>1, <2>2 DEF BeforeLaunch
<1>5. ChildSound' /\ ReportsSound'
  BY <1>1, <1>2
     DEF DemoInv, ChildSound, ReportsSound, ConsumerEnded, Unlaunched, Concluding
<1> QED
  BY <1>3, <1>4, <1>5 DEF DemoInv

\* The trap.
LEMMA TrapInv ==
  ASSUME DemoInv, Cleanup \/ Reap
  PROVE  DemoInv'
<1>1. /\ UNCHANGED <<vars, producer, kept, reports>>
      /\ script \in {"cleanup", "reap"} /\ script' \in {"reap", "failed"}
      /\ child' = "none" <=> child = "none"
      /\ child' \in {"none", "forked", "known", "reaped"}
      /\ child' = "reaped" => ConsumerEnded
      /\ script' = "reap" => child' = "known"
      /\ script' = "failed" => child' \in {"none", "forked"} \/ ConsumerEnded
      /\ DOMAIN reports = Reports
  BY DEF Cleanup, Reap, Goto, DemoInv, ChildSound, DemoTypeOK
<1>2. /\ DemoTypeOK' /\ ConsumerSound' /\ ReplaySound' /\ TopicSound'
      /\ UNCHANGED <<topic, pc, consumer_open, files, exit_code, results>>
      /\ ConsumerEnded' = ConsumerEnded
  BY <1>1, ScriptKept
<1>3. BeforeLaunch'
  BY <1>1, <1>2, ConsumerUntouched DEF DemoInv, BeforeLaunch, producer, ChildSound
<1>4. ChildSound'
  BY <1>1, <1>2 DEF ChildSound, Unlaunched, Concluding
<1>5. ReportsSound'
  BY <1>1, <1>2 DEF DemoInv, ReportsSound, Concluding, Exists
<1> QED
  BY <1>2, <1>3, <1>4, <1>5 DEF DemoInv
-----------------------------------------------------------------------------
(* The theorems.                                                           *)

LEMMA DemoInitInv == DemoInit => DemoInv
<1> SUFFICES ASSUME DemoInit PROVE DemoInv
  OBVIOUS
<1>1. /\ NotStarted /\ script = "preflight" /\ child = "none" /\ replay = "load"
      /\ published = 0 /\ kept = FALSE /\ files = [a \in Artifacts |-> Stale]
      /\ reports = [r \in Reports |-> Stale]
  BY DEF DemoInit, NotStarted
<1>2. /\ topic \in Seq(P!KpEvents \cup {Malformed})
      /\ replay_file \in Seq(P!KpEvents \cup {Invalid})
  BY DemoAssumption DEF DemoInit
<1> QED
  BY <1>1, <1>2
     DEF DemoInv, DemoTypeOK, BeforeLaunch, ConsumerSound, ChildSound, ReportsSound,
         ReplaySound, TopicSound, Unlaunched, Concluding

\* Every step keeps the invariant.
LEMMA DemoNextInv == DemoInv /\ [DemoNext]_demoVars => DemoInv'
<1> SUFFICES ASSUME DemoInv, [DemoNext]_demoVars PROVE DemoInv'
  OBVIOUS
<1>1. CASE Script
  BY <1>1, PreparationInv, ResetInv, ClearInv, LaunchInv, WaitingInv, ConcludingInv, TrapInv
     DEF Script
<1>2. CASE CommandFails \/ Interrupt
  BY <1>2, BreakInv, InFlightInv
<1>3. CASE Consumer \/ ConsumerFault \/ Terminated
  BY <1>3, ConsumerInv
<1>4. CASE Producer \/ ProducerFault
  BY <1>4, ProducerInv
<1>5. CASE UNCHANGED demoVars
  <2>1. /\ UNCHANGED <<vars, producer, kept, script, child, reports>>
        /\ UNCHANGED <<replay_file, replay, published>>
    BY <1>5 DEF demoVars, shell, producer
  <2>2. /\ UNCHANGED <<topic, pc, consumer_open, files, exit_code, results>>
        /\ (IInv => IInv') /\ (NotStarted => NotStarted')
    BY <2>1, ConsumerUntouched
  <2>3. DemoTypeOK' /\ ConsumerSound' /\ ReplaySound' /\ TopicSound'
    BY <2>1, <2>2 DEF DemoInv, DemoTypeOK, ConsumerSound, ReplaySound, TopicSound
  <2>4. BeforeLaunch'
    BY <2>1, <2>2 DEF DemoInv, BeforeLaunch
  <2>5. ChildSound' /\ ReportsSound'
    BY <2>1, <2>2 DEF DemoInv, ChildSound, ReportsSound, ConsumerEnded
  <2> QED
    BY <2>3, <2>4, <2>5 DEF DemoInv
<1> QED
  BY <1>1, <1>2, <1>3, <1>4, <1>5 DEF DemoNext

\* The inductive invariant of the demo holds in every reachable state.
THEOREM DemoInvariant == DemoSpec => []DemoInv
  BY DemoInitInv, DemoNextInv, PTL DEF DemoSpec

\* The one way a consumer can outlive the script is an interrupt between the fork and
\* the assignment of its process id (run_demo.sh:34-40, 65-66).
THEOREM ConsumerNotLeftBehind == DemoSpec => []NoConsumerLeftBehind
<1>1. DemoInv => NoConsumerLeftBehind
  BY DEF DemoInv, DemoTypeOK, ChildSound, ConsumerSound, ConsumerEnded, Concluding,
         NoConsumerLeftBehind, Ended
<1> QED
  BY <1>1, DemoInvariant, PTL

\* The artifacts of a run appear in their order, and the briefing only next to the
\* artifacts of a run that succeeded (run_demo.sh:62-83).
THEOREM ArtifactsAppearInOrder == DemoSpec => []ArtifactsInOrder
<1>1. DemoInv => ArtifactsInOrder
  <2> SUFFICES ASSUME DemoInv, files["alert.json"] # Stale PROVE ArtifactsInOrder
    BY DEF ArtifactsInOrder
  <2>1. CASE child = "none"
    BY <2>1 DEF DemoInv, BeforeLaunch, ArtifactsInOrder, Exists, Artifacts, Reports
  <2>2. CASE child # "none"
    <3>1. IInv /\ ReportsSound
      BY <2>2 DEF DemoInv, ConsumerSound
    <3>2. /\ Built("alert.json") = BuildAlertOutput(results)
          /\ Built("metrics.csv") = BuildMetricsRows(results)
      BY DEF Built
    <3> QED
      BY <2>2, <3>1, <3>2 DEF IInv, WritesInOrder, ReportsSound, ArtifactsInOrder, Exists
  <2> QED
    BY <2>1, <2>2
<1> QED
  BY <1>1, DemoInvariant, PTL

\* What the producer puts on a topic that was reset is a prefix of the replay file,
\* in order and without a repetition (replay_producer.py:106-132).
THEOREM ReplayPublishedInOrder == DemoSpec => []TopicIsReplayPrefix
<1>1. DemoInv => TopicIsReplayPrefix
  <2> SUFFICES ASSUME DemoInv, child # "none", ~ kept PROVE TopicIsReplayPrefix
    BY DEF TopicIsReplayPrefix
  <2> DEFINE S == P!KpEvents \cup {Malformed, Invalid}
             n == Len(topic)
             r == SubSeq(replay_file, 1, n)
  <2>1. TopicSound
    BY DEF DemoInv
  <2>2. /\ topic \in Seq(S) /\ replay_file \in Seq(S)
        /\ n \in Nat /\ Len(replay_file) \in Nat /\ n <= Len(replay_file)
    <3>1. topic \in Seq(P!KpEvents \cup {Malformed}) /\ replay_file \in Seq(P!KpEvents \cup {Invalid})
      BY DEF DemoInv, DemoTypeOK
    <3>2. P!KpEvents \cup {Malformed} \subseteq S /\ P!KpEvents \cup {Invalid} \subseteq S
      OBVIOUS
    <3> HIDE DEF S
    <3>3. topic \in Seq(S) /\ replay_file \in Seq(S)
      BY <3>1, <3>2, SeqMonotonic
    <3> QED
      BY <2>1, <3>3, LenProperties DEF TopicSound
  <2> HIDE DEF S
  <2>3. r \in Seq(S) /\ Len(r) = n /\ \A i \in 1..n : r[i] = replay_file[i]
    <3>1. \A i \in 1..n : replay_file[i] \in S
      BY <2>2, ElementOfSeq
    <3> QED
      BY <2>2, <3>1, SubSeqProperties
  <2>4. topic = r
    <3> HIDE DEF r
    <3> QED BY <2>1, <2>2, <2>3, SeqEqual DEF TopicSound
  <2>5. replay = "exit_0" => topic = replay_file
    BY <2>1, <2>2, SeqEqual DEF TopicSound
  <2> QED
    BY <2>1, <2>4, <2>5 DEF TopicSound, TopicIsReplayPrefix
<1> QED
  BY <1>1, DemoInvariant, PTL

-----------------------------------------------------------------------------
(* The undisturbed demo.                                                   *)

\* While nothing outside the program goes wrong, none of the three processes fails and
\* the reports are of this run.
Calm ==
  /\ disturbed \in BOOLEAN
  /\ disturbed = FALSE =>
       /\ replay_file = Fixture /\ kept = FALSE
       /\ script \notin {"cleanup", "reap", "failed"}
       /\ replay \in {"load", "ensure", "publish", "exit_0"}
       /\ pc # "killed" /\ failed = FALSE
       /\ pc = "exit" => exit_code = 0
       /\ script \in {"evaluate", "verify"} => reports["briefing.txt"] = Fresh
       /\ script = "verify" => reports["evaluation.json"] = Fresh

\* Every step of the demo is a call of process(), or leaves the processor alone.
LEMMA DemoStepsProcess ==
  ASSUME DemoInv, [DemoNext]_demoVars
  PROVE  [P!Next]_P!vars
<1>1. CASE Consumer \/ ConsumerFault \/ Terminated
  <2>1. IInv /\ Next
    BY <1>1 DEF Consumer, ConsumerFault, Terminated, DemoInv, ChildSound, ConsumerSound,
                Next, Fault
  <2> QED
    BY <2>1, NextIInv
<1>2. CASE Script \/ CommandFails \/ Interrupt
  <2>1. UNCHANGED processor
    BY <1>2 DEF Script, Preflight, ResetBroker, StartBroker, ClearArtifacts, Launch, Remember,
                ReplayEnded, AwaitConsumer, WriteBriefing, Evaluate, Verify, Tests, Cleanup,
                Reap, CommandFails, Interrupt, vars
  <2> QED
    BY <2>1 DEF processor, P!vars, P!counters
<1>3. CASE Producer \/ ProducerFault
  BY <1>3 DEF Producer, ProducerFault, processor, P!vars, P!counters
<1>4. CASE UNCHANGED demoVars
  BY <1>4 DEF demoVars, vars, processor, P!vars, P!counters
<1> QED
  BY <1>1, <1>2, <1>3, <1>4 DEF DemoNext

\* What is proved of RollingKp holds of the processor inside the demo's consumer.
LEMMA DemoFunctionOfEvents == DemoSpec => []PP!FunctionOfEvents
<1>1. DemoInit => PP!Init
  BY SameSpec DEF DemoInit
<1>2. DemoInv /\ [DemoNext]_demoVars => [PP!Next]_PP!vars
  <2> SUFFICES ASSUME DemoInv, [DemoNext]_demoVars PROVE [PP!Next]_PP!vars
    OBVIOUS
  <2>1. [P!Next]_P!vars
    BY DemoStepsProcess
  <2>2. UNCHANGED P!vars => UNCHANGED PP!vars
    BY DEF P!vars, PP!vars, P!counters, PP!counters
  <2> QED
    BY <2>1, <2>2, SameSpec
<1>3. DemoSpec => PP!Spec
  BY <1>1, <1>2, DemoInvariant, PTL DEF DemoSpec, PP!Spec
<1>4. PP!Spec => []PP!FunctionOfEvents
  BY PP!ResultsAreFunctionOfEvents, ProcessorConstants
<1> QED
  BY <1>3, <1>4, PTL

LEMMA CalmInit == DemoInit => Calm
  BY DEF DemoInit, Calm

\* The steps of the three processes; the script's are the next lemma's.
LEMMA CalmProcesses ==
  ASSUME DemoInv, Calm,
         Consumer \/ ConsumerFault \/ Terminated \/ Producer \/ ProducerFault
  PROVE  Calm'
<1>1. UNCHANGED <<shell, kept, replay_file>>
  BY DEF Consumer, ConsumerFault, Terminated, Producer, ProducerFault, producer,
         R!Replaying, R!ReplayFault, R!LoadReplay, R!EnsureTopic, R!PublishNext,
         R!EnsureFails, R!PublishFails
<1>2. CASE ConsumerFault \/ ProducerFault
  BY <1>2 DEF ConsumerFault, ProducerFault, Calm
<1>3. CASE Terminated
  BY <1>1, <1>3 DEF Terminated, Calm, shell
<1>4. CASE Consumer
  <2>1. disturbed' \in BOOLEAN
    BY <1>4 DEF Consumer
  <2> SUFFICES ASSUME disturbed' = FALSE PROVE Calm'
    BY <2>1 DEF Calm
  <2>2. disturbed = FALSE /\ ~ (pc = "consume" /\ pc' = "close") /\ Run /\ UNCHANGED producer
    BY <1>4 DEF Consumer, Calm
  <2>3. ~ ConsumeTimeout
    BY <2>2 DEF ConsumeTimeout, Fail
  <2>4. pc' # "killed" /\ failed' = FALSE /\ (pc' = "exit" => exit_code' = 0)
    BY <2>2, <2>3 DEF Calm, Run, Subscribe, PollNone, PollMalformed, PollEvent,
           OpenTemporary, FillTemporary, Replace, Close, CanPoll
  <2> QED
    BY <1>1, <2>1, <2>2, <2>4 DEF Calm, shell, producer
<1>5. CASE Producer
  <2>1. UNCHANGED <<pc, failed, exit_code, disturbed>>
    BY <1>5 DEF Producer
  <2>2. ASSUME disturbed = FALSE
        PROVE  replay' \in {"load", "ensure", "publish", "exit_0"}
    <3>1. R!ValidReplay(replay_file)
      BY <2>2, SameReplay, FixtureAssumption DEF Calm
    <3> QED
      BY <1>5, <3>1, SameReplay
         DEF Producer, R!Replaying, R!LoadReplay, R!EnsureTopic, R!PublishNext
  <2> QED
    BY <1>1, <2>1, <2>2 DEF Calm, shell
<1> QED
  BY <1>2, <1>3, <1>4, <1>5

\* After a successful run the artifacts are those of replay_expected.json: the topic
\* was the fixture, and the results are a function of it.
LEMMA ArtifactsMatch ==
  ASSUME DemoInv, PP!FunctionOfEvents, child # "none", exit_code = 0,
         replay_file = Fixture, kept = FALSE
  PROVE  /\ files["alert.json"].run_counts = ExpectedCounts
         /\ Summaries(files["alert.json"].alerts) = ExpectedAlerts
         /\ files["metrics.csv"] = ExpectedMetrics
<1> DEFINE n == Len(Fixture)
<1>1. IInv /\ TopicSound /\ Fixture \in Seq(P!KpEvents \cup {Invalid})
  BY DEF DemoInv, ConsumerSound, DemoTypeOK
<1>2. n \in Nat /\ DOMAIN Fixture = 1..n /\ \A i \in 1..n : Fixture[i] \in P!KpEvents
  <2>1. n \in Nat /\ DOMAIN Fixture = 1..n /\ \A i \in 1..n : Fixture[i] \in P!KpEvents \cup {Invalid}
    BY <1>1, LenProperties, ElementOfSeq
  <2> QED
    BY <2>1, FixtureAssumption DEF ValidReplay
<1>3. /\ files["alert.json"] = BuildAlertOutput(results)
      /\ files["metrics.csv"] = BuildMetricsRows(results)
      /\ Len(results) = n
  BY <1>1, FixtureAssumption DEF IInv, WritesInOrder, Built
<1>4. /\ results \in Seq(P!Results) /\ DOMAIN results = 1..n
      /\ position \in Nat /\ position <= Len(topic) /\ Len(topic) \in Nat
  BY <1>1, <1>3, LenProperties DEF IInv, TypeOK, P!TypeOK
<1>5. /\ Len(topic) <= n
      /\ \A i \in 1..Len(topic) : topic[i] = Fixture[i] /\ topic[i] # Malformed
  BY <1>1, <1>2, <1>4, DemoAssumption DEF TopicSound
<1> HIDE DEF n
<1>6. ASSUME NEW i \in 0..position
      PROVE  ValidUpTo(i) = 1..i /\ Rank(i) = i
  <2>1. ValidUpTo(i) = 1..i
    BY <1>4, <1>5 DEF ValidUpTo
  <2> QED
    BY <1>4, <2>1, FS_Interval DEF Rank
<1>7. position = n
  <2>1. Rank(position) = position
    BY <1>4, <1>6
  <2> QED
    BY <1>1, <1>3, <2>1 DEF IInv, ConsumesInOrder
<1>8. \A i \in 1..n : results[i].event = Fixture[i]
  BY <1>1, <1>4, <1>5, <1>6, <1>7 DEF IInv, ConsumesInOrder
<1>9. PP!Processed = Fixture
  <2>1. PP!Processed = [i \in 1..n |-> results[i].event]
    BY <1>4 DEF PP!Processed
  <2>2. [i \in 1..n |-> results[i].event] = [i \in 1..n |-> Fixture[i]]
    BY <1>8
  <2>3. Fixture = [i \in 1..n |-> Fixture[i]]
    BY <1>1, <1>2, LenProperties
  <2> QED
    BY <2>1, <2>2, <2>3
<1>10. results = P!ResultsOf(Fixture)
  BY <1>9, SameResultsOf DEF PP!FunctionOfEvents
<1> QED
  BY <1>3, <1>10, FixtureAssumption DEF BuildAlertOutput

LEMMA CalmScript ==
  ASSUME DemoInv, PP!FunctionOfEvents, Calm, Script \/ CommandFails \/ Interrupt
  PROVE  Calm'
<1>1. CASE CommandFails \/ Interrupt
  BY <1>1 DEF CommandFails, Interrupt, Calm
<1>2. CASE ResetBroker
  BY <1>2 DEF ResetBroker, Goto, Calm, producer
<1>3. CASE Script /\ ~ ResetBroker
  <2>1. /\ UNCHANGED <<producer, kept, disturbed, pc, failed, exit_code>>
    BY <1>3 DEF Script, Preflight, StartBroker, ClearArtifacts, Launch, Remember,
                ReplayEnded, AwaitConsumer, WriteBriefing, Evaluate, Verify, Tests, Cleanup,
                Reap, vars
  <2> SUFFICES ASSUME disturbed = FALSE PROVE Calm'
    BY <2>1 DEF Calm
  <2>2. /\ replay_file = Fixture /\ kept = FALSE /\ pc # "killed" /\ failed = FALSE
        /\ replay \in {"load", "ensure", "publish", "exit_0"}
        /\ pc = "exit" => exit_code = 0
        /\ script \notin {"cleanup", "reap", "failed"}
        /\ script \in {"evaluate", "verify"} => reports["briefing.txt"] = Fresh
        /\ script = "verify" => reports["evaluation.json"] = Fresh
        /\ DOMAIN reports = Reports
    BY DEF Calm, DemoInv, DemoTypeOK
  <2>3. script \in Concluding => /\ child # "none" /\ exit_code = 0
    BY DEF DemoInv, ChildSound, ReportsSound
  <2>4. script = "briefing" => Exists(files["alert.json"])
    <3>1. script = "briefing" => ExitZeroMeansComplete /\ exit_code = 0
      BY <2>3, CompleteAtExit DEF Concluding, DemoInv, ConsumerSound
    <3> QED
      BY <3>1 DEF ExitZeroMeansComplete, Artifacts, Exists
  <2>5. script = "verify" => Matches
    BY <2>2, <2>3, ArtifactsMatch DEF Matches, Concluding, Reports
  <2>6. /\ script' \notin {"cleanup", "reap", "failed"}
        /\ script' \in {"evaluate", "verify"} => reports'["briefing.txt"] = Fresh
        /\ script' = "verify" => reports'["evaluation.json"] = Fresh
    <3>1. CASE Preflight \/ StartBroker \/ ClearArtifacts \/ Launch \/ Remember
      BY <3>1 DEF Preflight, StartBroker, ClearArtifacts, Launch, Remember, Goto
    <3>2. CASE ReplayEnded \/ AwaitConsumer
      BY <2>2, <3>2 DEF ReplayEnded, AwaitConsumer, Goto, ConsumerEnded
    <3>3. CASE WriteBriefing
      BY <2>2, <2>4, <3>3 DEF WriteBriefing, Goto, Reports
    <3>4. CASE Evaluate
      BY <2>2, <3>4 DEF Evaluate, Goto, Reports
    <3>5. CASE Verify \/ Tests
      BY <2>2, <2>5, <3>5 DEF Verify, Tests, Goto
    <3>6. CASE Cleanup \/ Reap
      BY <2>2, <3>6 DEF Cleanup, Reap, Goto
    <3> QED
      BY <1>3, <3>1, <3>2, <3>3, <3>4, <3>5, <3>6 DEF Script
  <2> QED
    BY <2>1, <2>2, <2>6 DEF Calm, producer
<1> QED
  BY <1>1, <1>2, <1>3

LEMMA CalmStep ==
  DemoInv /\ PP!FunctionOfEvents /\ Calm /\ [DemoNext]_demoVars => Calm'
<1> SUFFICES ASSUME DemoInv, PP!FunctionOfEvents, Calm, [DemoNext]_demoVars
             PROVE  Calm'
  OBVIOUS
<1>1. CASE UNCHANGED demoVars
  BY <1>1 DEF demoVars, vars, producer, shell, Calm
<1> QED
  BY <1>1, CalmProcesses, CalmScript DEF DemoNext

\* The demo fails only when something outside the program goes wrong: for every
\* schedule of the consumer and the producer, and whatever earlier runs left behind,
\* the artifacts are those of replay_expected.json (run_demo.sh:57-155).
THEOREM UndisturbedDemoWorks == DemoSpec => []UndisturbedDemoSucceeds
<1>1. Calm => UndisturbedDemoSucceeds
  BY DEF Calm, UndisturbedDemoSucceeds
<1>2. DemoSpec => []Calm
  BY CalmInit, CalmStep, DemoInvariant, DemoFunctionOfEvents, PTL DEF DemoSpec
<1> QED
  BY <1>1, <1>2, PTL
-----------------------------------------------------------------------------
(* What a passing demo has processed.                                      *)

\* The consumer has processed the events of the fixture, in their order.
ReadTheFixture ==
  /\ Len(results) = Len(Fixture)
  /\ \A i \in 1..Len(Fixture) : results[i].event = Fixture[i]

\* The comparison of metrics.csv with the expected rows passes for no other events:
\* the row of an event shows its two fields.
LEMMA MetricsTellTheEvents ==
  ASSUME DemoInv, script = "verify", Matches
  PROVE  ReadTheFixture
<1> DEFINE n == Len(Fixture)
           expected == P!ResultsOf(Fixture)
<1>1. IInv /\ exit_code = 0
  BY DEF DemoInv, ChildSound, ConsumerSound, ReportsSound, Concluding
<1>2. /\ BuildMetricsRows(results) = BuildMetricsRows(expected)
      /\ Len(results) = n
  BY <1>1, FixtureAssumption DEF IInv, WritesInOrder, Built, Matches
<1>3. n \in Nat /\ DOMAIN Fixture = 1..n /\ \A i \in 1..n : Fixture[i] \in P!KpEvents
  <2>1. /\ Fixture \in Seq(P!KpEvents \cup {Invalid})
    BY DemoAssumption
  <2>2. n \in Nat /\ DOMAIN Fixture = 1..n /\ \A i \in 1..n : Fixture[i] \in P!KpEvents \cup {Invalid}
    BY <2>1, LenProperties, ElementOfSeq
  <2> QED
    BY <2>2, FixtureAssumption DEF ValidReplay
<1>4. /\ results \in Seq(P!Results) /\ DOMAIN results = 1..n
      /\ \A i \in 1..n : results[i].event \in P!KpEvents
  <2>1. results \in Seq(P!Results)
    BY <1>1 DEF IInv, TypeOK, P!TypeOK
  <2>2. DOMAIN results = 1..n /\ \A i \in 1..n : results[i] \in P!Results
    BY <1>2, <2>1, LenProperties, ElementOfSeq
  <2> QED
    BY <2>1, <2>2 DEF P!Results
<1>5. DOMAIN expected = 1..n /\ \A i \in 1..n : expected[i].event = Fixture[i]
  BY <1>3 DEF P!ResultsOf
<1> HIDE DEF n, expected
<1>6. ASSUME NEW i \in 1..n PROVE results[i].event = Fixture[i]
  <2>1. BuildMetricsRows(results)[i] = BuildMetricsRows(expected)[i]
    BY <1>2
  <2>2. /\ BuildMetricsRows(results)[i].time_tag = results[i].event.time_tag
        /\ BuildMetricsRows(results)[i].kp_value = results[i].event.kp_value
    BY <1>4 DEF BuildMetricsRows
  <2>3. /\ BuildMetricsRows(expected)[i].time_tag = Fixture[i].time_tag
        /\ BuildMetricsRows(expected)[i].kp_value = Fixture[i].kp_value
    BY <1>5 DEF BuildMetricsRows
  <2> QED
    BY <1>3, <1>4, <2>1, <2>2, <2>3 DEF P!KpEvents
<1> QED
  BY <1>2, <1>6 DEF ReadTheFixture, n

\* After the comparison the consumer is gone and the results are what they were.
PassedSound == script \in {"tests", "done"} => ReadTheFixture

LEMMA PassedStep == DemoInv /\ PassedSound /\ [DemoNext]_demoVars => PassedSound'
<1> SUFFICES ASSUME DemoInv, PassedSound, [DemoNext]_demoVars, script' \in {"tests", "done"}
             PROVE  ReadTheFixture'
  BY DEF PassedSound
<1>1. \/ Verify /\ Matches /\ script = "verify"
      \/ Tests /\ script = "tests"
      \/ script' = script /\ (Consumer \/ ConsumerFault \/ Terminated)
      \/ script' = script /\ (Producer \/ ProducerFault \/ UNCHANGED demoVars)
  BY DEF DemoNext, Script, Preflight, ResetBroker, StartBroker, ClearArtifacts, Launch,
         Remember, ReplayEnded, AwaitConsumer, WriteBriefing, Evaluate, Verify, Tests,
         Cleanup, Reap, CommandFails, Interrupt, Goto, Consumer, ConsumerFault, Terminated,
         Producer, ProducerFault, shell, demoVars
<1>2. CASE Consumer \/ ConsumerFault \/ Terminated
  <2>1. ~ ConsumerEnded
    BY <1>2, ConsumerMoves DEF Consumer, ConsumerFault, Terminated, DemoInv, ChildSound,
       ConsumerSound
  <2>2. script \notin {"tests", "done"}
    BY <2>1 DEF DemoInv, ChildSound, Concluding
  <2>3. script' = script
    BY <1>2 DEF Consumer, ConsumerFault, Terminated, shell
  <2> QED
    BY <2>2, <2>3
<1>3. CASE ~ (Consumer \/ ConsumerFault \/ Terminated)
  <2>1. script \in {"tests", "done"} \/ (script = "verify" /\ Matches)
    BY <1>1, <1>3
  <2>2. ReadTheFixture
    BY <2>1, MetricsTellTheEvents DEF PassedSound
  <2>3. results' = results
    BY <1>1, <1>3 DEF Verify, Tests, Producer, ProducerFault, demoVars, vars, processor
  <2> QED
    BY <2>2, <2>3 DEF ReadTheFixture
<1> QED
  BY <1>2, <1>3

\* A demo that passes has processed the events of the repository's replay in their
\* order, whatever earlier runs left on a topic that was not reset and whatever
\* failed on the way (run_demo.sh:57-58, 98-132).
THEOREM PassedDemoProcessedTheFixture == DemoSpec => []PassedDemoReadTheFixture
<1>1. DemoInit => PassedSound
  BY DEF DemoInit, PassedSound
<1>2. DemoSpec => []PassedSound
  BY <1>1, PassedStep, DemoInvariant, PTL DEF DemoSpec
<1>3. PassedSound => PassedDemoReadTheFixture
  BY DEF PassedSound, PassedDemoReadTheFixture, ReadTheFixture
<1> QED
  BY <1>2, <1>3, PTL
=============================================================================
