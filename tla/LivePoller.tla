----------------------------- MODULE LivePoller -----------------------------
(***************************************************************************)
(* python -m src.live_poller (run_poller, poll_once, load_checkpoint and   *)
(* save_checkpoint) with the publish step of kafka_io: NOAA's response     *)
(* changes under it, publications fail in every way publish_event can see  *)
(* or not see, the checkpoint write fails, and the process crashes and is  *)
(* started again.                                                          *)
(*                                                                         *)
(* An observation is its time tag: the poller compares nothing else. Tags  *)
(* are integers, Second of them to a whole second, since the event contract*)
(* accepts fractions of a second and drops them wherever a tag is written  *)
(* out (contract.py:104, live_poller.py:177).                              *)
(***************************************************************************)
EXTENDS Integers, Sequences, FiniteSets, SequencesExt

CONSTANTS
  TimeTags,     \* the observation times NOAA may report
  Second,       \* ticks of a time tag in one second
  MaxFailures,  \* bound: failed fetches, publications, saves and crashes
  MaxTopic,     \* bound: the process is started again below this many messages
  None

ASSUME PollerAssumption ==
  /\ TimeTags \subseteq Int /\ IsFiniteSet(TimeTags)
  /\ Second \in Nat \ {0}
  /\ MaxFailures \in Nat /\ MaxTopic \in Nat
  /\ None \notin Int

VARIABLES
  feed,        \* the valid tags in NOAA's current response
  pc,          \* where the process stands; "down" when there is none
  once,        \* was it started with --once?
  seen,        \* seen_time_tags
  candidates,  \* the events this poll still has to publish, oldest first
  startup_baseline,
  queued,      \* produced messages whose delivery is not known yet
  topic,       \* the serialized tags on the Kafka topic, in order
  checkpoint,  \* the tag in .state/live_poller.json, or None
  exit_code,   \* of the last process to end by itself, or None
  failures,    \* how many failures have happened
  newest,      \* the newest tag of the response fetched last, or None
  acked,       \* history: the tags whose delivery was confirmed
  offered,     \* history: the tags selected by a later poll of any process, less
               \* those that NOAA no longer served when they were to be retried
  abandoned,   \* history: those of them that were not confirmed when a process
               \* had to start without a checkpoint
  fresh        \* history: did this process start without a checkpoint?

memory  == <<once, seen, candidates, startup_baseline>>
kafka   == <<queued, topic>>
history == <<newest, acked, offered, abandoned, fresh>>
vars == <<feed, pc, memory, kafka, checkpoint, exit_code, failures, history>>

\* What is left of a tag when it is written out: whole seconds.
Serialized(t) == t - (t % Second)
-----------------------------------------------------------------------------
(* NOAA. Only a fetch reads the response, so what happens to it during a   *)
(* poll is left to the time before the next one.                           *)

Between == pc \in {"down", "sleep"}

\* A row appears: new, or late, or one that was invalid until now.
FeedGains ==
  /\ Between
  /\ \E t \in TimeTags \ feed : feed' = feed \cup {t}
  /\ UNCHANGED <<pc, memory, kafka, checkpoint, exit_code, failures, history>>

\* The oldest row leaves the roughly six hours of the response.
FeedExpires ==
  /\ Between
  /\ feed # {}
  /\ feed' = feed \ {Min(feed)}
  /\ UNCHANGED <<pc, memory, kafka, checkpoint, exit_code, failures, history>>
-----------------------------------------------------------------------------
(* Starting and ending.                                                    *)

\* ensure_topic, make_producer, load_checkpoint.
Start ==
  /\ pc = "down"
  /\ Len(topic) < MaxTopic
  /\ pc' = "poll"
  /\ once' \in BOOLEAN
  /\ seen' = IF checkpoint = None THEN {} ELSE {checkpoint}
  /\ abandoned' = IF checkpoint = None THEN offered \ acked ELSE abandoned
  /\ fresh' = (checkpoint = None)
  /\ newest' = None
  /\ exit_code' = None
  /\ UNCHANGED <<feed, candidates, startup_baseline, kafka, checkpoint, failures,
                 acked, offered>>

Failure == failures < MaxFailures /\ failures' = failures + 1

\* Kafka cannot be reached, or the checkpoint cannot be read.
StartFails ==
  /\ pc = "down"
  /\ Failure
  /\ exit_code' = 1
  /\ UNCHANGED <<feed, pc, memory, kafka, checkpoint, history>>

\* What a process that ends leaves behind: messages still queued are gone.
Forget ==
  /\ pc' = "down"
  /\ seen' = {} /\ candidates' = <<>> /\ startup_baseline' = {}
  /\ queued' = <<>>

\* What the client is delivering: its queue, and the event of a publish call.
InFlight ==
  IF pc = "publish" /\ candidates # <<>>
  THEN Append(queued, Serialized(Head(candidates))) ELSE queued

\* A crash, or Ctrl-C, at any point, in the middle of a delivery too.
Crash ==
  /\ pc # "down"
  /\ Failure
  /\ Forget
  /\ \E n \in 0..Len(InFlight) : topic' = topic \o SubSeq(InFlight, 1, n)
  /\ UNCHANGED <<feed, once, checkpoint, exit_code, history>>

\* The except clause: continuous mode sleeps until the next interval, --once
\* returns 1. Everything local to poll_once is gone; what is still queued in
\* the client stays there as long as the process lives.
PollFailed(stillQueued) ==
  IF once THEN Forget /\ exit_code' = 1
  ELSE /\ pc' = "sleep"
       /\ candidates' = <<>> /\ startup_baseline' = {}
       /\ queued' = stillQueued
       /\ UNCHANGED <<seen, exit_code>>

\* The next interval.
Wake ==
  /\ pc = "sleep"
  /\ pc' = "poll"
  /\ UNCHANGED <<feed, memory, kafka, checkpoint, exit_code, failures, history>>
-----------------------------------------------------------------------------
(* poll_once.                                                              *)

\* sorted(): the tags of S, oldest first.
Ascending(S) ==
  CHOOSE s \in [1..Cardinality(S) -> S] : \A i, j \in DOMAIN s : i < j => s[i] < s[j]

\* Bug: newest first.
Candidates_Descending(response) ==
  IF seen # {} THEN Reverse(Ascending({t \in response : t > Max(seen)}))
  ELSE <<Max(response)>>

\* Bug: membership instead of the watermark.
Candidates_NotSeen(response) ==
  IF seen # {} THEN Ascending(response \ seen) ELSE <<Max(response)>>

\* Bug: the last row of the response is left out of the slice.
Candidates_SkipsNewest(response) ==
  IF seen # {} THEN Ascending({t \in response : t > Max(seen) /\ t < Max(response)})
  ELSE <<Max(response)>>

\* Later polls select everything newer than the newest tag seen, in order; the
\* first poll selects the newest row alone.
Candidates(response) ==
  IF seen # {} THEN Ascending({t \in response : t > Max(seen)}) ELSE <<Max(response)>>

\* Fetch and normalize a response with at least one valid row.
Fetch ==
  /\ pc = "poll"
  /\ feed # {}
  /\ candidates' = Candidates(feed)
  /\ startup_baseline' = IF seen # {} THEN {} ELSE feed
  /\ pc' = "publish"
  /\ LET selected == IF seen # {} THEN ToSet(Candidates(feed)) ELSE {}
     IN /\ offered' = (offered \cap (feed \cup acked)) \cup selected
        /\ abandoned' = abandoned \ selected
  /\ newest' = Max(feed)
  /\ UNCHANGED <<feed, once, seen, kafka, checkpoint, exit_code, failures, acked, fresh>>

\* The request fails, or its payload is not a non-empty array of objects.
FetchFails ==
  /\ pc = "poll"
  /\ Failure
  /\ PollFailed(queued)
  /\ UNCHANGED <<feed, once, topic, checkpoint, history>>

\* No row of the response is valid.
NoValidRows ==
  /\ pc = "poll"
  /\ feed = {}
  /\ PollFailed(queued)
  /\ UNCHANGED <<feed, once, topic, checkpoint, failures, history>>

\* flush() delivers everything that is queued, this event last, and the one
\* delivery report says so.
Publish ==
  /\ pc = "publish"
  /\ candidates # <<>>
  /\ topic' = topic \o InFlight
  /\ queued' = <<>>
  /\ seen' = seen \cup {Head(candidates)}
  /\ candidates' = Tail(candidates)
  /\ acked' = acked \cup {Head(candidates)}
  /\ UNCHANGED <<feed, pc, once, startup_baseline, checkpoint, exit_code, failures,
                 newest, offered, abandoned, fresh>>

\* flush() times out: some of the queue was delivered, the rest stays queued in
\* the client, which goes on trying; KafkaDeliveryError.
PublishTimesOut ==
  /\ pc = "publish"
  /\ candidates # <<>>
  /\ Failure
  /\ \E n \in 0..(Len(InFlight) - 1) :
       /\ topic' = topic \o SubSeq(InFlight, 1, n)
       /\ PollFailed(SubSeq(InFlight, n + 1, Len(InFlight)))
  /\ UNCHANGED <<feed, once, checkpoint, history>>

\* The event is rejected, or its delivery report is an error; a report of an
\* error does not say that the broker has not stored the event.
PublishRejected ==
  /\ pc = "publish"
  /\ candidates # <<>>
  /\ Failure
  /\ \/ topic' = topic /\ PollFailed(queued)
     \/ topic' = topic \o queued /\ PollFailed(<<>>)
     \/ topic' = topic \o InFlight /\ PollFailed(<<>>)
  /\ UNCHANGED <<feed, once, checkpoint, history>>

\* Between calls the client's own thread delivers what is queued, or gives up.
BackgroundDelivery ==
  /\ queued # <<>>
  /\ queued' = Tail(queued)
  /\ topic' \in {topic, Append(topic, Head(queued))}
  /\ UNCHANGED <<feed, pc, memory, checkpoint, exit_code, failures, history>>

\* Bug: the baseline is recorded before its newest event is confirmed.
FinishPoll_BaselineFirst ==
  /\ pc = "publish"
  /\ candidates = <<>> \/ startup_baseline # {}
  /\ seen' = seen \cup startup_baseline
  /\ candidates' = <<>>
  /\ startup_baseline' = {}
  /\ pc' = "save"
  /\ UNCHANGED <<feed, once, kafka, checkpoint, exit_code, failures, history>>

\* Every candidate is confirmed; a first poll now also counts the rest of the
\* response as seen.
FinishPoll ==
  /\ pc = "publish"
  /\ candidates = <<>>
  /\ seen' = seen \cup startup_baseline
  /\ startup_baseline' = {}
  /\ pc' = "save"
  /\ UNCHANGED <<feed, once, candidates, kafka, checkpoint, exit_code, failures, history>>
-----------------------------------------------------------------------------
(* save_checkpoint.                                                        *)

\* Bug: the newest tag of the response instead of the newest tag seen.
NewestTag_OfResponse == Serialized(newest)

\* Bug: the tag is not brought to the precision of the file.
NewestTag_NotTruncated == Max(seen)

NewestTag == Serialized(Max(seen))

\* After a poll without an error: --once returns 0, continuous mode sleeps.
PollSucceeded ==
  IF once THEN Forget /\ exit_code' = 0
  ELSE pc' = "sleep" /\ UNCHANGED <<seen, candidates, startup_baseline, queued, exit_code>>

\* The temporary file replaces the checkpoint.
Save ==
  /\ pc = "save"
  /\ checkpoint' = NewestTag
  /\ PollSucceeded
  /\ UNCHANGED <<feed, once, topic, failures, history>>

\* Bug: the error is logged and forgotten.
SaveFails_Swallowed ==
  /\ pc = "save"
  /\ Failure
  /\ PollSucceeded
  /\ UNCHANGED <<feed, once, topic, checkpoint, history>>

\* An OSError before the replacement: LivePollerError, the old checkpoint stays.
SaveFails ==
  /\ pc = "save"
  /\ Failure
  /\ PollFailed(queued)
  /\ UNCHANGED <<feed, once, topic, checkpoint, history>>
-----------------------------------------------------------------------------
Init ==
  /\ feed \in SUBSET TimeTags
  /\ pc = "down"
  /\ once = FALSE
  /\ seen = {} /\ candidates = <<>> /\ startup_baseline = {}
  /\ queued = <<>> /\ topic = <<>>
  /\ checkpoint = None
  /\ exit_code = None
  /\ failures = 0
  /\ newest = None /\ acked = {} /\ offered = {} /\ abandoned = {} /\ fresh = FALSE

\* What the process does when nothing fails.
Progress == Fetch \/ NoValidRows \/ Publish \/ FinishPoll \/ Save \/ Wake

Next ==
  \/ FeedGains \/ FeedExpires
  \/ Start \/ StartFails \/ Crash
  \/ Progress
  \/ FetchFails \/ PublishTimesOut \/ PublishRejected \/ SaveFails
  \/ BackgroundDelivery

\* A running process goes on running.
Spec == Init /\ [][Next]_vars /\ WF_vars(Progress)
-----------------------------------------------------------------------------
(* Properties.                                                             *)

\* Every variable has its type.
TypeOK ==
  /\ feed \subseteq TimeTags
  /\ pc \in {"down", "poll", "publish", "save", "sleep"}
  /\ once \in BOOLEAN
  /\ seen \subseteq TimeTags \cup {Serialized(t) : t \in TimeTags}
  /\ candidates \in Seq(TimeTags)
  /\ startup_baseline \subseteq TimeTags
  /\ queued \in Seq({Serialized(t) : t \in TimeTags})
  /\ topic \in Seq({Serialized(t) : t \in TimeTags})
  /\ checkpoint \in {None} \cup {Serialized(t) : t \in TimeTags}
  /\ exit_code \in {None, 0, 1}
  /\ failures \in 0..MaxFailures
  /\ newest \in TimeTags \cup {None}
  /\ acked \subseteq TimeTags /\ offered \subseteq TimeTags /\ abandoned \subseteq TimeTags
  /\ fresh \in BOOLEAN

\* The newest tag the poller believes handled: in memory, or on disk when there
\* is no process or it has not fetched anything yet.
Watermark ==
  IF seen # {} THEN Max(seen) ELSE IF checkpoint = None THEN None ELSE checkpoint

\* The checkpoint never runs ahead of Kafka: the tag in it is on the topic
\* (live_poller.py:131-135, 237; test_live_poller.py "failed startup delivery").
CheckpointIsOnTopic == checkpoint # None => checkpoint \in ToSet(topic)

\* The checkpoint never goes back, over any number of polls, failures, crashes
\* and restarts, whatever NOAA serves (live_poller.py:177, 212).
CheckpointMonotone ==
  [][checkpoint # None => checkpoint' # None /\ checkpoint' >= checkpoint]_vars

\* No gap: a tag that a later poll selected has been confirmed and is on the topic,
\* or it is still above the watermark and so selected again while NOAA serves it,
\* over failed publications and saves, crashes and restarts (live_poller.py:122-133,
\* 187-189). There is one way to lose it: its process ends before any checkpoint has
\* been saved, and the next one takes the row for a part of its baseline (124-129).
SelectedNotLost ==
  \A t \in offered :
     \/ t \in acked /\ Serialized(t) \in ToSet(topic)
     \/ Watermark # None /\ t > Watermark
     \/ t \in abandoned
     \/ pc = "down" /\ checkpoint = None   \* abandoned by the next start

\* Whatever comes to stand on the topic is a tag above the watermark, in the middle
\* of failures, crashes and restarts too: what a process has confirmed and what a
\* checkpoint covers is never published again, however often NOAA serves it. A copy
\* is thus a tag whose delivery was not known, or whose process ended before it was
\* saved, or that has a fraction of a second and is newer than its own checkpoint
\* (live_poller.py:122-133, 165, 177; kafka_io.py:157-188).
OnlyNewerPublished ==
  [][\A i \in DOMAIN topic' \ DOMAIN topic :
       \E t \in TimeTags :
          topic'[i] = Serialized(t) /\ (Watermark # None => t > Watermark)]_vars

\* Exit code 0 of --once promises that the newest row of the response it fetched
\* is covered by the checkpoint, to the second that a checkpoint can hold: the next
\* run selects no other row of an earlier second (live_poller.py:177, 237-243).
ExitZeroMeansHandled ==
  pc = "down" /\ exit_code = 0 =>
    checkpoint # None /\ checkpoint >= Serialized(newest)

\* A running continuous poller handles the newest observation of the feed: its
\* watermark reaches it, unless a newer row takes its place, the row disappears
\* or the process ends. Every failure is retried (live_poller.py:238-244), so a
\* bounded number of them only delays it.
NewestIsPublished ==
  \A t \in TimeTags :
    (pc # "down" /\ ~ once /\ t \in feed /\ (Watermark = None \/ t > Watermark))
      ~> (feed = {} \/ t # Max(feed) \/ pc = "down" \/ (Watermark # None /\ Watermark >= t))

\* poll_once, "Later polls publish every valid timestamp that appeared after
\* that baseline" (live_poller.py:111): in a process that made its own baseline,
\* seen is that baseline and what was published, and a later poll selects every
\* row of the response that is not in it.
LaterPollsPublishAll ==
  [][fresh /\ pc = "poll" /\ pc' = "publish" /\ seen # {} =>
       feed \ seen \subseteq ToSet(candidates')]_vars

\* "publishes each newly appeared time_tag once" (README.md:56), "so a restarted
\* poller does not republish the same NOAA observation" (docs/demo-plan.md:238).
NeverRepublished == \A i, j \in DOMAIN topic : i < j => topic[i] # topic[j]
=============================================================================
