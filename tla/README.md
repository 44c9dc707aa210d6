# A formal model of the Space Weather Radio Risk Monitor

TLA+ modules that follow the Python sources in `src/`, TLC configurations that
check them on small instances, and proofs that TLAPS checks for every value of
the constants. Paths and line numbers are those of the repository
(`processor.py` stands for `src/processor.py`).

## 1. Inventory

| Component | State it keeps | Operations | What is hard about it |
|---|---|---|---|
| `processor.py` `RollingKpProcessor` | deque of the window, seen tags, newest tag, armed flag, five counters | `process(event)` | long sequences of duplicates, late events, expiries and gaps; an inclusive boundary; a flag that must mirror the window |
| `contract.py` `KpEvent` | none | parse, bound and serialize one event | tags lose fractions of a second when written out |
| `stream_processor.py` | list of results, malformed count, position of the consumer | consume loop, two writers, `finally: close` | per-call deadlines, malformed messages, a writer that fails after the other succeeded, kills |
| `alert_output.py`, `metrics_output.py` | one file each | build, write to a temporary file, fsync, replace | a crash between any two of these steps |
| `kafka_io.py` | the client's producer queue; the topic is in the broker | `ensure_kp_topic`, `publish_event`, `consume_event` | a flush that times out leaves the message queued; a delivery error is ambiguous; two processes create the topic at once |
| `live_poller.py` | seen set in memory, checkpoint on disk | fetch, select, publish one by one, save; retry for ever | crash between publication and checkpoint, partial publication, failing saves, a feed that changes between polls |
| `replay_producer.py` | none | validate the file, publish in order | stops half way; a second replay repeats what the first published |
| `briefing.py`, `demo_ui.py` | `briefing.txt`, the candidate file | read facts, ask the model, write; three HTTP routes | concurrent requests, facts that go stale during the model call, readers of several files |
| `evaluate.py` | `evaluation.json` | replay in memory, compare with labels, six fixed cases, one atomic write | comparisons that are too weak, fixed cases that do not fit the facts, an exit code that tells another story than the file |
| `run_demo.sh` | the consumer's pid, the artifacts | reset, start consumer, produce, wait, brief, evaluate, verify | the idle deadline runs while the producer starts; a failure or Ctrl-C at any command while the consumer runs; a reset that fails silently |

How they interact: `live_poller` and `replay_producer` call `publish_event` and
so append to the one partition of `kp_observations`; `stream_processor` reads it
from the beginning through `consume_event`, hands every valid event to
`RollingKpProcessor.process`, and from the list of results writes `alert.json`
and then `metrics.csv`. `briefing`, `demo_ui` and `evaluate` read those files.
`run_demo.sh` starts these processes and relies on their exit codes. No two of
them share memory: they meet at the topic and at the files.

What makes each correct:

- processor: an event counts exactly when it is newer than all that counted
  before; the window is exact; an alert is raised exactly at a crossing of the
  rolling maximum; the counters and the results tell the same story.
- stream processor: everything valid is processed in order, exactly the expected
  number of times; the artifacts are whole whenever someone looks; exit code 0
  means both are there and agree; the run ends.
- poller: the checkpoint is never ahead of Kafka and never goes back; once a
  checkpoint has been saved, no row that a later poll selected is lost while NOAA serves
  it (before that, a process that ends can lose one, see section 6); nothing at or below
  the watermark is published again; the newest row is handled in the end.
- topic setup: processes that create the topic at once all succeed, on one topic
  of one partition.
- replay: nothing is published from an invalid file; the topic holds a prefix.
- briefing and UI: what is written tells the facts that were read; the two files of
  a request agree unless another writer comes in between; neither readers nor
  requests make the demo fail.
- evaluation: passing means that the labels are right; exit code and file agree.
- demo: it fails only if something outside the program does, leaves no consumer
  behind, and ends.

The hazards behind these are listed one by one, with lines, in `PROJECT.json`.

## 2. Modules

| Module | Models | Uses |
|---|---|---|
| `KpAlertRule` | the published rule (repository `README.md:144-154`): a growing set of observations and the tags that raised an alert; no deque, no flag | - |
| `RollingKp` | `processor.py`, with the list of results its callers keep | `Rule == INSTANCE KpAlertRule` |
| `RollingKpProofs` | proofs: the inductive invariant, that `RollingKp` implements `KpAlertRule`, that its alerts are the crossings and its results a function of the events | `RollingKp` |
| `AlertOutput` | the content of `alert.json` and `metrics.csv` as a function of the results | - |
| `AlertOutputProofs` | proof of what the loop of `build_alert_output` collects | `AlertOutput` |
| `StreamProcessor` | one run of `stream_processor.main`: `consume_event`, `run_stream_processor`, both writers | `AlertOutput`, `P == INSTANCE RollingKp` |
| `StreamProcessorProofs` | proofs about a run, from those about its processor | `StreamProcessor`, `AlertOutputProofs`, `PP == INSTANCE RollingKpProofs` |
| `LivePoller` | `live_poller.py` with `publish_event`'s queue | - |
| `LivePollerProofs` | its invariant and proofs | `LivePoller` |
| `TopicSetup` | `ensure_kp_topic` called by several processes | - |
| `TopicSetupProofs` | its invariant and proofs for any number of callers | `TopicSetup` |
| `ReplayFile` | `load_replay`: which replay files are accepted | - |
| `ReplayProducer` | `replay_producer.main` | `ReplayFile` |
| `BriefingText` | facts, candidate texts, the six checks, the fallback of `generate_briefing` | - |
| `Briefing` | `write_briefing` by concurrent writers, `read_artifacts`, and the file steps of `run_demo.sh` | `BriefingText` |
| `BriefingProofs` | its invariant and proofs for any number of requests | `Briefing` |
| `Evaluation` | one run of `evaluate.main` | `BriefingText`, `AlertOutput`, `ReplayFile`, `P == INSTANCE RollingKp`, `Rule == INSTANCE KpAlertRule` |
| `EvaluationProofs` | proofs for every replay file and every labelling | `Evaluation`, `AlertOutputProofs`, `PP == INSTANCE RollingKpProofs` |
| `DemoRun` | `run_demo.sh` with its two child processes | `StreamProcessor`, `R == INSTANCE ReplayProducer` |
| `DemoRunProofs` | its invariant and proofs, with the consumer's invariant as a part | `DemoRun`, `StreamProcessorProofs` |
| `MC...` | the instances for TLC | the module each is named after |

Operators whose names carry a suffix after an underscore and whose comment
starts with "Bug:" are defective variants of the operator they stand before.
They occur in no specification; each shows, put in the place of the sound
operator, that some property would notice.

### RollingKp

The variables are the attributes of the class (`processor.py:53-61`). `results`
is what the callers accumulate (`stream_processor.py:57, 74`). `Process(e)` has a
disjunct per way out of `process`: `ProcessDuplicate` (124-126), `ProcessLate`
(128-130) and `ProcessAccepted` (132-155). The `popleft` loop is `Evict`, which
keeps the deque from the first event that is not older than the cutoff: the loop
stops there. An event is a time tag and a Kp value, since `process` looks at
nothing else.

`ResultsOf(evs)` tells the same results without any state: whether an event counts,
what its rolling maximum is and whether it raises an alert is read off the events
before it. `FunctionOfEvents` says that the object with its deque, flag and
counters computes exactly that.

### StreamProcessor

`pc` follows `main` and `run_stream_processor`: start, consume, open / fill /
replace (once per artifact), close, exit; or killed. `PollNone`, `PollMalformed`,
`PollEvent`, `PollError` and `ConsumeTimeout` are the five outcomes of one turn
of the loop in `consume_event`; `waited` is the part of its deadline that has
gone by and starts again with every call, `idle` is a history variable that only
a valid event resets. Time passes in units of one bounded poll. A message may be
on the topic and still not be returned by a poll (group join, fetch latency), so
`PollNone` is always possible. `WriteFails` stands for an `OSError` at any step
of a writer, after which the temporary file is removed or, if that fails too,
left behind.

### LivePoller

An observation is its tag, since the poller compares nothing else. `Second` is
the number of ticks of a tag in a second: tags keep fractions in memory and lose
them on the topic and in the checkpoint (`contract.py:104`, `live_poller.py:177`).
One poll is `Fetch` (select the candidates), one `Publish` per candidate,
`FinishPoll` (add the baseline) and `Save`. `PublishTimesOut` delivers any prefix
of the producer's queue and leaves the rest, which `BackgroundDelivery` delivers
or drops later and the next `flush` delivers first; `PublishRejected` is a rejected or
failed delivery, with or without the message on the topic. `PollFailed` is the
`except` clause: continuous mode sleeps, `--once` ends with 1. `Crash` may happen
at any point; `Start` is a new process that reads the checkpoint. NOAA's response
gains rows of any age and loses its oldest ones, between polls.

`Watermark` is the newest tag the poller believes handled: in memory, or in the
checkpoint when there is no process or it has seen nothing yet. `offered` remembers the
rows that later polls selected, across restarts; `abandoned` those of them that were
not confirmed when a process started without a checkpoint, and so took the whole
response for its baseline.

### TopicSetup

A call goes from `list` to `create` and `verify`, or ends in `ready` or in the name
of the exception. `request` is the creation request in flight; it outlives the call
that gave it up (`AwaitTimesOut`), so the broker may still handle it. The broker
creates the topic for the first request, answers `exists` to the others, and its
metadata follow with a delay and, for a while, with an error (no leader yet).
`faulty` remembers that anything but another caller interfered: an unreachable or
slow broker, lagging metadata, a refusal, a topic that something else created.

### ReplayFile and ReplayProducer

A line of the file is an event or `Invalid`. The whole file is judged before the
topic is even prepared (`LoadReplay`), then events are published one at a time;
`PublishFails` stores the event or does not, and ends the replay.

### BriefingText and Briefing

A text is the record of what the checks of `validate_briefing` find in it (how many
sentence ends, which labels, numbers, timestamps, unsupported details), so every
check is modelled and the regular expressions are not. `Briefing` gives each writer
the steps of `write_briefing`: read the facts, generate, replace `briefing.txt`,
write or unlink the candidate. A request of the UI asks the model, the command line
of the demo does not. `_atomic_write_text` is one step here, since its temporary
file has a name of its own (`StreamProcessor` has the same writer step by step). The
page goes through the four artifacts with `exists()` and the read as separate steps.
`run_demo.sh` appears with its steps on these files.

### Evaluation

The replay goes through `RollingKp`'s `Process` event by event; `Build` compares the
output with labels that may be right or wrong and runs the six cases of
`default_cases` through `GenerateBriefing`; `Write` replaces the file and returns the
exit code, `WriteFails` returns 1 and leaves the file of an earlier run.

### DemoRun

`script` is the command the shell is at, `child` what it knows of its background
process: forked, known (`CONSUMER_PID` assigned) or reaped. The consumer is the
whole `StreamProcessor`, whose actions are taken under `Consumer`, `ConsumerFault`
and `Terminated` (the signal of the trap); the producer is `ReplayProducer`, in the
foreground. Every command may fail, the consumer may be killed, Ctrl-C may come at
any command; the event that the producer's client is delivering then may still arrive. `down ... || true` may leave the old topic (`kept`). `disturbed`
remembers that something outside the program went wrong; an idle deadline that
passes counts as such, because nothing in the script bounds how long the producer
takes to start.

`FixtureAssumption` says that `replay_expected.json` agrees with what `ResultsOf`
makes of `kp_replay.jsonl`. It is an assumption for the proof only:
TLC evaluates it on the nine events of the repository in the run `demo`, and finds
it true.

## 3. Runs

| Run | Instance | Shows |
|---|---|---|
| `processor` | `MCRollingKp.cfg`: tags 0..5, Kp 5, 6 or 7, window 2, threshold 6, five events in any order | the nine invariants of the processor and `ImplementsRule` |
| `stream` | `MCStreamProcessor.cfg`: three expected events, a topic of at most four messages, idle timeout of two polls | reading, artifacts, exit code, the processor inside, termination |
| `poller` | `MCLivePoller.cfg`: tags 2, 3, 4 with two ticks a second, three failures, restarts while the topic holds fewer than four messages | checkpoint, losses, repetitions, exit code, progress |
| `topic_setup` | `MCTopicSetup.cfg`: consumer, producer and poller; no topic, the right one, or one of three partitions | verdicts, no mutual failure, every call ends |
| `briefing` | `MCBriefing.cfg`: two requests, one page, one demo run, one failure; an alert or none; a model text that passes the checks, one that does not, or no answer | what reaches the two files, who can disturb whom, every request answered |
| `evaluation` | `MCEvaluation.cfg`: every file of up to three lines with tags 0, 2, 3, four Kp values and unusable lines, against labellings right and wrong in each field | what passing certifies, exit code and file, which facts the cases fit |
| `demo` | `MCDemoRun.cfg`: the repository's nine events and `replay_expected.json`; three unusable files; a topic left empty, complete or half full | the demo fails only when disturbed and passes only on the fixture's events, no consumer left, order of artifacts, content of the topic, termination |
| `create_times_out` | `CreateTimesOut.cfg` | a divergence, see section 6 |
| `stale_briefing` | `StaleBriefing.cfg`, two alerts | a divergence |
| `idle_timeout` | `IdleTimeout.cfg` | a divergence, see section 6 |
| `late_rows` | `LateRows.cfg`, whole seconds, no failure | a divergence |
| `republish` | `Republish.cfg`, whole seconds, one failure | a divergence |

Why the bounds are enough for the cases of interest. Processor: six tags span
more than two windows, so events expire one at a time and all at once, the
boundary tag (exactly one window old) occurs, an alert can be followed by a quiet
window and a second alert, and duplicates of events inside and outside the window
occur; the values lie below, at and above the threshold. The proofs of section 5
remove the bounds altogether. Stream: three expected events out of four messages
leave room for a malformed message, a duplicate and a late event, messages left
unread and a topic that falls silent. Poller: three failures allow a timed-out publication, a crash and a
failed save in one behaviour; a tag between two seconds makes the truncation
visible, and the bound on restarts is needed because a `--once` run repeats such a
tag without end.

Topic setup: three callers give a winner, a loser that finds the topic on creating
it and one that finds it on listing. Briefing: two requests suffice for every
conflict over the two files, one demo run deletes and rewrites everything once; one
failure can hit any of its steps. Evaluation: three lines hold two crossings with a quiet window between them, a
duplicate, and a Kp that `:g` rounds; the Kp values include the 8 that a fixed case
has written into it. Demo: it runs on the real fixture, so its own bound is the idle
timeout of two polls, enough for a deadline that is postponed and one that passes.

All passing runs but `poller` turn the deadlock check off, because what they model
ends. `LivePoller` has no state without a successor.

### Fairness

- `StreamProcessor`: `WF(Run)`, the process is scheduled. No
  error is assumed to happen, and nothing about what is produced. `Terminates` then needs a bounded number of malformed
  messages, which the bound on the topic gives; with an unbounded number of them
  the claim would be false, as the run `idle_timeout` indicates.
- `LivePoller`: `WF(Progress)`, a live process goes on taking the steps of its
  loop, waking from `sleep` included. Failures need no fairness and are bounded,
  so `NewestIsPublished` says that a bounded number of failures only delays the
  newest row. `Start` is not fair: nothing in the repository restarts a poller.
- `TopicSetup`: `WF(Call(p))`. The broker is not fair and may never answer, so
  `CallsEnd` rests on the timeouts alone.
- `Briefing`: `WF(Writer(w))`. The model call ends, at the latest with its timeout
  (`OPENAI_TIMEOUT_SECONDS`, no retries); pages and the demo are not fair.
- `DemoRun`: each process is scheduled, and a signal that was sent arrives. No
  fault is bound to happen or to stay away.
- `Evaluation` states no liveness: it is a loop over a file.

## 4. Properties

Each is stated in words before its definition, with the lines it is about. The
ones that carry most: `ImplementsRule` (the flag and the deque together are the
published rule), `StormReported`, `AlertSpacing`, `ArtifactsWhole`,
`ExitZeroMeansComplete`, `CheckpointIsOnTopic`, `SelectedNotLost`,
`CheckpointMonotone`, `OnlyNewerPublished` and `NewestIsPublished`; across processes `LosersSucceed`,
`WritesWhatItRead`, `CandidateOfTheRequest`, `DemoNotGated`, `UndisturbedDemoSucceeds`,
`PassedDemoReadTheFixture` and `NoConsumerLeftBehind`. `ImplementsProcessor` says that the
processor inside a run is the one of `RollingKp`, bounded by the number of
expected events, so what is proved of `RollingKp` carries over to the artifacts.

## 5. Proofs

Every safety invariant and every action property that a run checks is also a theorem:
the run shows it on a small instance, the theorem for every value of the constants
that the module's assumption allows. The method is the same everywhere. The property
is not inductive by itself, so an `IInv` collects what it rests on; `Init` implies it,
one lemma per action (or group of actions that disturb the same conjuncts) shows that
a step keeps it, and the property follows from it. An action property follows from
`IInv` and one step.

### RollingKp

From `ConstantsAssumption` alone (integer tags, Kp values in 0..`KpMax`, a
positive window as `__init__` demands), and so for every number and order of
events. That an alert is raised at the right event depends on the flag, the flag
on the window, the window on which results were accepted. `IInv` joins

- `WindowInv`: the seen set is the set of accepted tags, the newest tag is the
  last accepted one, accepted tags increase, the deque is the window;
- `AlertInv`: the flag mirrors the window, alerts are peaks and spaced, and while
  the flag is down the last alert is followed by elevated results only
  (`StormUnderWay`);
- `IdentityInv` (accepted exactly when newest, duplicates exactly when accepted
  before) and `CountsAgree`.

There is one lemma per disjunct of `Process`, and under the accepting one a step
per conjunct. They rest on lemmas about `Min`, `Max`, `Evict`, `RollingMax`,
`RiskLabel` and on what appending a result does to the sets of positions.

- `TypeCorrect`, `WindowIsExact`, `EventsAccepted`, `DuplicatesRecognized`,
  `ArmedMirrorsWindow`, `AlertsSpaced`, `AlertsArePeaks`, `StormsReported` and
  `CountersAgree`: the invariants the run `processor` checks.
- `Refinement`: `Spec => ImplementsRule`. A skipped event is a stuttering step of
  the rule; an accepted one is an `Observe`, and `EmitsIffCrosses` shows that flag
  and label decide as the rule's two windows do.
- `AlertsAreCrossings`: the tags that raised an alert are exactly the crossings
  among all accepted readings. The rule decides when a reading arrives; this says
  that no later reading changes the verdict (`CrossingsGrow`).
- `ResultsAreFunctionOfEvents`: the results are `ResultsOf` of the events processed.
  `StateIsTold` shows that the deque and the flag are what the events before tell,
  `ToldStep` that one more event adds the result they tell.

### AlertOutput

- `AlertsListed`: for any list of results, `build_alert_output` collects one alert
  for each result that raised one, in their order, and nothing else. The provers
  cannot instantiate an induction theorem, so the proof takes the least prefix for
  which this would be false (`LeastNatural`) and refutes it with `OneMoreListed`.

### StreamProcessor

From `StreamAssumption`. `IInv` is the invariant of the processor, `PP!IInv`, with
`TypeOK`, `ConsumesInOrder`, `ArtifactsWhole`, `CountsEvents` (the loop reads exactly
while events are missing) and `WritesInOrder` (metrics come after alerts, and nothing
follows a failure). `NextIInv` proves with it that each step of a run is a call of
`process` or leaves the processor alone.

- `TypeCorrect`, `ReadInOrder`, `ArtifactsAreWhole`, `ProcessorImplemented`.
- `ExitZeroIsComplete`: needs `CountersAgree` of the processor and `AlertsListed`.
- `ArtifactsAreFunctionOfTopic`: after exit code 0, what both files contain is
  `ResultsOf` the valid messages read, whatever happened between, so two successful
  runs on the same topic write the same artifacts.

### LivePoller

From `PollerAssumption` (integer tags, finitely many): any length of a second, any
number of failures and restarts. `IInv` needs, for the checkpoint and the losses, that

- the candidates of a later poll ascend and lie above everything seen, those of the
  first are the newest row of its baseline (`CandidatesSound`);
- the newest tag seen and every confirmed tag are on the topic (`OnTopic`), and the
  checkpoint is never above what the process has seen (`CheckpointBelow`);
- a tag that was selected, is not confirmed and was not given up by a start without a
  checkpoint lies above everything seen and above the checkpoint, and the poll at work
  has it among its candidates (`OfferedSound`);
- what still waits in the producer is newer than everything seen (`QueuedNewer`): a
  confirmation comes only from a flush that empties the queue;
- the newest row is still to come or seen (`NewestHandled`).

Crash, failed start and failed poll lose the memory in the same way: `GivesUp` is
treated once. The ascending order of the candidates is a `CHOOSE` expression, so `AscendingExists`
shows first that what it chooses exists, again by a least counterexample.

- `PollerTypeCorrect`, `CheckpointOnTopic`, `CheckpointNeverGoesBack`,
  `ExitZeroIsHandled`.
- `NoSelectedTagIsLost`: `SelectedNotLost`, with its one exception stated in it.
- `OnlyNewerIsPublished`: no restriction on failures. `TopicStep` shows that every step
  that lengthens the topic does so with tags newer than all seen, and
  `NewTagsAboveWatermark` that those are above the checkpoint as well. It does not
  exclude repetitions altogether, which the code does not either (section 6).

### TopicSetup

From `PartitionsAssumption` (a topic of something else has another number of
partitions), for any number of callers of `ensure_kp_topic`: `VerdictsHold` and
`AllCallersSucceed`. The invariant adds that metadata never speak of a topic that is
not there, that a foreign topic or a refusal counts as a fault, and that a complaint
about partitions means a foreign topic. `CallerStep` and `BrokerStep` say once what a
step of either side must respect; the actions are cases of them.

### Briefing

From `BriefingAssumption`, for any number of requests and any facts and responses.
`IInv` says that no blank text ever becomes `briefing.txt` (`NeverBlank`, from
`AcceptedIsWithinBoundary`: what the six checks accept is not empty), that a writer
holds facts `alert.json` had while it worked and what was generated from them
(`WritersSound`), that a request nobody came across is the only one at work
(`LoneSound`), and which artifacts exist at each step of the demo and of a page.

- `DemoIsNotGated`, `PageSurvivesReplacements`, and the action properties
  `WritersTellWhatTheyRead` and `FilesOfTheRequestAgree`.

### Evaluation

From `EvaluationAssumption`, for every replay file and every labelling. `IInv` joins
the processor's invariant and `AlertsAtCrossings` with `InStep` (the results are those
of the first lines) and `StageInv` (the report on hand is that of the whole file, and
the exit code and the file on disk go together).

- `PassingCertifiesLabels`: the labels are compared with what the processor makes of
  the file, and that is brought back to the file itself: the accepted results are
  the lines with a tag that stands in no earlier line, the alerts the crossings of the
  rule among them. Here `AlertsAreCrossings` and `AlertsListed` are needed.
- `ExitCodeTellsSummary`.
- `CasesFitFacts`: the six cases are worked out for all facts, which takes the
  arithmetic of `:g` on the model's units of Kp (`ShownExactly`).

### DemoRun

From `DemoAssumption`, for any fixture, other replay files, leftovers of a topic and
idle timeout. `DemoInv` relates the step of the script to what it knows of its child,
the consumer to its own invariant once it has been started, the reports to the
artifacts, and the topic to what the producer has published.

- `ConsumerNotLeftBehind`, `ArtifactsAppearInOrder`, `ReplayPublishedInOrder`.
- `PassedDemoProcessedTheFixture`: the rows of `metrics.csv` show both fields of an
  event, so the comparison in `Verify` lets no other events through
  (`MetricsTellTheEvents`), and the consumer that produced them is gone by then.
- `UndisturbedDemoWorks`: as long as nothing outside the program goes wrong, no step of
  the three processes fails. `Calm` is the invariant. At the consumer's exit
  the topic holds the fixture, so by `ArtifactsAreFunctionOfTopic`'s argument the
  artifacts are those of `ResultsOf(Fixture)`, which `FixtureAssumption` compares with
  the expected file. The proof thus leaves to evaluation only the nine events.

### Only model-checked

Liveness: `Terminates`, `NewestIsPublished`, `CallsEnd`, `RequestsAnswered` and
`DemoTerminates` rest on fairness, which the prover does not reach. The properties of
the five runs that expect a violation are false of the code.

## 6. Where the documents say something else

- `stream_processor.py:113` and the repository `README.md:139-140` promise failure
  when the next *valid* event does not arrive in time; every malformed message
  restarts the deadline (`stream_processor.py:68-73`). Run `idle_timeout`.
- `live_poller.py:111` and `DATA_SOURCE.md:24-25` say that later polls publish
  every tag that appears; rows older than the newest tag seen are left out, and a
  test expects it (`test_late_older_timestamp_is_not_published_after_watermark`).
  Run `late_rows`.
- The repository `README.md:56` says "once", `docs/demo-plan.md:237-238` that a
  restart does not republish; a publication that timed out is retried while the
  client still holds it, and a crash after the broker has stored a message and
  before the save repeats it. The
  repository leaves exactly-once out of scope (`README.md:67`) and the consumer
  skips the copy. Run `republish`.
- `kafka_io.py:21-22` calls `KafkaIOError` the base error of every failed bounded
  operation. When the creation request is not answered in time, `ensure_kp_topic`
  raises `TimeoutError` instead (`kafka_io.py:123-124`), which the poller and the
  replay producer do not catch. Run `create_times_out`.
- The repository `README.md:322` says the demo verifies that the facts of the
  briefing match the alert; `run_demo.sh:134-137` looks whether the file is blank. A
  live request of the UI that began before the demo can publish a text about the
  older alert in between. Run `stale_briefing`.

What the models show besides, where no document says otherwise:

- A selected row can be lost before the first checkpoint is saved. A poller without a
  checkpoint publishes its baseline row but cannot save (`live_poller.py:187-189`); its
  next poll selects two rows, the publication of the older one times out, and the
  process ends. The next one finds no checkpoint (149-151), takes the whole response
  for its baseline and publishes the newest row only (122-129). The row in between is
  still served and is never published. `SelectedNotLost` names this exception, and it
  is the only one.
- A tag with a fraction of a second is newer than its own checkpoint
  (`live_poller.py:177`), so every start from that checkpoint publishes it again, after
  a clean `--once` run too. `OnlyNewerPublished` allows this, and `ExitZeroMeansHandled`
  holds to the second only.
- If `docker compose down` fails, which the script ignores (`run_demo.sh:58`), and
  the topic still holds a complete earlier replay, the consumer reads that one and
  the demo passes; with half a replay on the topic it fails at the comparison. The
  repository `README.md:286` says that no run can reuse stale topics; what holds is that
  a demo that passes has processed the fixture's events (`PassedDemoReadTheFixture`),
  if not the copies it published itself.
- An interrupt between `run_demo.sh:65` and `:66` leaves the consumer running; it
  ends by itself, at the latest with its idle timeout. `NoConsumerLeftBehind` names
  this exception.
- A request answered with 409 may have replaced `briefing.txt` (the candidate could
  not be written), and two requests at once can leave a candidate next to the
  briefing of the other; `CandidateOfTheRequest` therefore speaks of a request that
  nobody came across.
- The page answers 500 if the demo deletes an artifact between `exists()` and the
  read, and only then.
- `CasesFitTheFacts`: on a replay whose last alert has a Kp of exactly 8 the wrong
  number of `evaluate.py:75` is right, and with a Kp of more than six significant
  digits the deterministic text, which prints with `:g`, is rejected by the number
  check. The repository's fixture has neither.

## 7. What is not modelled

- Parsing of timestamps, numbers and sources in `contract.py`, of one Kafka message
  in `kafka_io.py`, and the regular expressions of `briefing.py`: pure functions of
  one record or string.
- JSON, CSV and log formatting, the HTML and script of the page, HTTP routing. The
  window start, the alert id and the source of an alert are functions of its tag or
  constants.
- A corrupt checkpoint, beyond the start that fails, and artifacts edited by hand.
- Memory growth of the seen sets.
- A second Ctrl-C while the trap of `run_demo.sh` runs; how long the producer takes
  to start in relation to the consumer's idle timeout.
- The poller feeding the processor directly: the processor's properties are proved
  for events in every order and number, so copies and late rows from the poller are
  among them.

## 8. Plan

The components are modelled, and the safety properties that the runs check are
proved. What could follow:

1. The poller and the processor composed: the topic of `LivePoller` as the input of
   `RollingKp`, with the theorem that a confirmed tag is accepted at most once, whatever
   was repeated (from `OnlyNewerIsPublished` and `EventsAccepted`).
2. The safety part of the liveness properties: a measure that each fair step of
   `StreamProcessor`, `TopicSetup` and `DemoRun` lowers, so that only the fairness
   itself is left to TLC.
3. `BriefingText`: that the deterministic briefing passes `validate_briefing` on facts
   whose Kp has at most six significant digits, as a theorem of its own.
