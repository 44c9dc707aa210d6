----------------------------- MODULE RollingKp -----------------------------
(***************************************************************************)
(* RollingKpProcessor (src/processor.py): event-time deduplication, the    *)
(* inclusive rolling window and the armed flag of the alert rule, driven   *)
(* by any order of valid events, together with the list of results its     *)
(* caller accumulates (stream_processor.py:57,74; evaluate.py) and from    *)
(* which both artifacts are built.                                         *)
(*                                                                         *)
(* A time tag is an integer, a Kp value a natural number below KpMax (the  *)
(* contract bounds it, contract.py:89); source and ingested_at are never   *)
(* read by the processor and are left out of an event.                     *)
(***************************************************************************)
EXTENDS Integers, Sequences, FiniteSetsExt

CONSTANTS
  TimeTags,     \* the event times NOAA or the replay may deliver
  KpValues,     \* the Kp values an event may carry
  KpMax,        \* the largest Kp value the event contract admits
  Window,       \* WINDOW_DURATION
  Threshold,    \* RISK_THRESHOLD_KP
  MaxMessages,  \* bound: how many events the caller hands to process()
  None          \* Python's None

ASSUME ConstantsAssumption ==
  /\ TimeTags \subseteq Int
  /\ KpMax \in Nat /\ KpValues \subseteq 0..KpMax
  /\ Window \in Nat \ {0}           \* __init__ refuses any other window
  /\ Threshold \in Int
  /\ MaxMessages \in Nat
  /\ None \notin Int

VARIABLES
  events,           \* the deque of events inside the window, oldest first
  seen_time_tags,   \* every accepted time tag; never pruned
  latest_time_tag,  \* the newest accepted time tag, or None
  messages_seen, accepted_count, duplicate_count, late_count,
  alert_armed,      \* may the next elevated result raise an alert?
  alerts_emitted,
  results           \* what process() returned, call by call

counters == <<messages_seen, accepted_count, duplicate_count, late_count>>
vars == <<events, seen_time_tags, latest_time_tag, counters, alert_armed,
          alerts_emitted, results>>

KpEvents == [time_tag : TimeTags, kp_value : KpValues]
Status   == {"accepted", "duplicate_skipped", "late_event_skipped"}
Labels   == {"normal", "elevated"}
Results  == [event : KpEvents, rolling_15m_max_kp : KpValues, risk_label : Labels,
             alert_emitted : BOOLEAN, status : Status]
-----------------------------------------------------------------------------
(* The window.                                                             *)

\* Bug: the cutoff itself is treated as outside the window.
KeptIndices_ExclusiveWindow(q, cutoff) == {i \in DOMAIN q : q[i].time_tag > cutoff}

\* The positions of the deque at which the popleft loop can stop.
KeptIndices(q, cutoff) == {i \in DOMAIN q : q[i].time_tag >= cutoff}

\* Bug: nothing ever leaves the deque.
Evict_Never(q, cutoff) == q

\* Bug: one event too many is popped.
Evict_OneTooMany(q, cutoff) ==
  SubSeq(q, Min(KeptIndices(q, cutoff) \cup {Len(q) + 1}) + 1, Len(q))

\* popleft while the head is older than the cutoff.
Evict(q, cutoff) ==
  SubSeq(q, Min(KeptIndices(q, cutoff) \cup {Len(q) + 1}), Len(q))

\* Bug: the newest value instead of the largest.
RollingMax_Newest(q) == IF q = <<>> THEN None ELSE q[Len(q)].kp_value

RollingMax(q) ==
  IF q = <<>> THEN None ELSE Max({q[i].kp_value : i \in DOMAIN q})

\* Bug: strictly above the threshold.
RiskLabel_Strict(q) ==
  IF q # <<>> /\ RollingMax(q) > Threshold THEN "elevated" ELSE "normal"

RiskLabel(q) ==
  IF q # <<>> /\ RollingMax(q) >= Threshold THEN "elevated" ELSE "normal"
-----------------------------------------------------------------------------
(* process(event).                                                         *)

\* Bug: identity is looked up in the window instead of in the seen set.
IsDuplicate_WindowOnly(e) == \E i \in DOMAIN events : events[i].time_tag = e.time_tag

IsDuplicate(e) == e.time_tag \in seen_time_tags

\* Bug: no event is ever late.
IsLate_Never(e) == FALSE

IsLate(e) == latest_time_tag # None /\ e.time_tag < latest_time_tag

\* The result of an event that is reported and otherwise ignored.
SkippedResult(e, status) ==
  [event |-> e, rolling_15m_max_kp |-> RollingMax(events),
   risk_label |-> RiskLabel(events), alert_emitted |-> FALSE, status |-> status]

\* The deque once the event has been appended and the old events evicted.
NextWindow(e) == Evict(Append(events, e), e.time_tag - Window)

\* Bug: the rule looks at the new event alone.
Emits_Unarmed(e) == RiskLabel(NextWindow(e)) = "elevated"

\* Is this accepted event the crossing that raises an alert?
Emits(e) == RiskLabel(NextWindow(e)) = "elevated" /\ alert_armed

AcceptedResult(e) ==
  [event |-> e, rolling_15m_max_kp |-> RollingMax(NextWindow(e)),
   risk_label |-> RiskLabel(NextWindow(e)), alert_emitted |-> Emits(e),
   status |-> "accepted"]

\* Bug: the flag is never set again.
ArmedAfter_NoRearm(e) == ~ Emits(e) /\ alert_armed

\* Emitting disarms, a normal label arms, anything else leaves the flag alone.
ArmedAfter(e) ==
  ~ Emits(e) /\ (RiskLabel(NextWindow(e)) = "normal" \/ alert_armed)

\* Bug: the duplicate is reported but counted as late.
ProcessDuplicate_CountedLate(e) ==
  /\ IsDuplicate(e)
  /\ messages_seen' = messages_seen + 1
  /\ late_count' = late_count + 1
  /\ results' = Append(results, SkippedResult(e, "duplicate_skipped"))
  /\ UNCHANGED <<events, seen_time_tags, latest_time_tag, accepted_count,
                 duplicate_count, alert_armed, alerts_emitted>>

\* The time tag was accepted before, however long ago and whatever its Kp.
ProcessDuplicate(e) ==
  /\ IsDuplicate(e)
  /\ messages_seen' = messages_seen + 1
  /\ duplicate_count' = duplicate_count + 1
  /\ results' = Append(results, SkippedResult(e, "duplicate_skipped"))
  /\ UNCHANGED <<events, seen_time_tags, latest_time_tag, accepted_count,
                 late_count, alert_armed, alerts_emitted>>

\* Not a duplicate, and older than the newest accepted event.
ProcessLate(e) ==
  /\ ~ IsDuplicate(e)
  /\ IsLate(e)
  /\ messages_seen' = messages_seen + 1
  /\ late_count' = late_count + 1
  /\ results' = Append(results, SkippedResult(e, "late_event_skipped"))
  /\ UNCHANGED <<events, seen_time_tags, latest_time_tag, accepted_count,
                 duplicate_count, alert_armed, alerts_emitted>>

\* Everything else enters the window and may raise an alert.
ProcessAccepted(e) ==
  /\ ~ IsDuplicate(e)
  /\ ~ IsLate(e)
  /\ messages_seen' = messages_seen + 1
  /\ events' = NextWindow(e)
  /\ seen_time_tags' = seen_time_tags \cup {e.time_tag}
  /\ latest_time_tag' = e.time_tag
  /\ accepted_count' = accepted_count + 1
  /\ alert_armed' = ArmedAfter(e)
  /\ alerts_emitted' = IF Emits(e) THEN alerts_emitted + 1 ELSE alerts_emitted
  /\ results' = Append(results, AcceptedResult(e))
  /\ UNCHANGED <<duplicate_count, late_count>>

Process(e) == ProcessDuplicate(e) \/ ProcessLate(e) \/ ProcessAccepted(e)

Init ==
  /\ events = <<>>
  /\ seen_time_tags = {}
  /\ latest_time_tag = None
  /\ messages_seen = 0 /\ accepted_count = 0 /\ duplicate_count = 0 /\ late_count = 0
  /\ alert_armed = TRUE
  /\ alerts_emitted = 0
  /\ results = <<>>

Next ==
  /\ Len(results) < MaxMessages
  /\ \E e \in KpEvents : Process(e)

Spec == Init /\ [][Next]_vars
-----------------------------------------------------------------------------
(* Properties.                                                             *)

\* Every variable has its type. A result always carries a Kp value: the None
\* of rolling_max (processor.py:73) is never reported, since the first event
\* is accepted and the newest accepted event never leaves the window.
TypeOK ==
  /\ events \in Seq(KpEvents)
  /\ seen_time_tags \subseteq TimeTags
  /\ latest_time_tag \in TimeTags \cup {None}
  /\ messages_seen \in Nat /\ accepted_count \in Nat
  /\ duplicate_count \in Nat /\ late_count \in Nat
  /\ alert_armed \in BOOLEAN
  /\ alerts_emitted \in Nat
  /\ results \in Seq(Results)

\* Positions of the results of accepted events, of those of a given status,
\* and of those that raised an alert.
WithStatus(s) == {i \in DOMAIN results : results[i].status = s}
Accepted      == WithStatus("accepted")
Alerting      == {i \in DOMAIN results : results[i].alert_emitted}

Tag(i) == results[i].event.time_tag
Kp(i)  == results[i].event.kp_value

\* An event is accepted exactly when it is newer than everything accepted
\* before it: no replayed, redelivered, reordered or revised observation is
\* ever counted twice, and no new one is lost (processor.py:124-130).
AcceptedIffNewest ==
  \A j \in DOMAIN results :
     j \in Accepted <=> \A i \in Accepted : i < j => Tag(i) < Tag(j)

\* A skipped event is called a duplicate exactly when its tag was accepted
\* before, even after that event has left the window (processor.py:124).
DuplicateIffAcceptedBefore ==
  \A j \in DOMAIN results :
     results[j].status = "duplicate_skipped"
        <=> \E i \in Accepted : i < j /\ Tag(i) = Tag(j)

\* The deque holds the accepted events of the inclusive window ending at the
\* newest one, all of them, no other, oldest first (processor.py:132-139).
WindowExact ==
  /\ \A i, j \in DOMAIN events : i < j => events[i].time_tag < events[j].time_tag
  /\ {events[i] : i \in DOMAIN events} =
     {results[i].event : i \in {k \in Accepted : Tag(k) >= latest_time_tag - Window}}

\* The armed flag is a function of the window: alerts are armed exactly while
\* every Kp in the window is below the threshold (processor.py:141-147).
ArmedIffQuiet ==
  alert_armed <=> \A i \in DOMAIN events : events[i].kp_value < Threshold

\* Two alerts are more than one window apart: a storm that keeps the window
\* elevated raises one alert (README.md:154).
AlertSpacing ==
  \A i, j \in Alerting : i < j => Tag(j) > Tag(i) + Window

\* The event that raises an alert is itself the maximum of its window, and is
\* at or above the threshold: latest_kp and rolling_15m_max_kp of an alert in
\* alert.json are the same number (alert_output.py:56-57).
AlertIsPeak ==
  \A i \in Alerting :
     /\ results[i].status = "accepted"
     /\ results[i].rolling_15m_max_kp = Kp(i)
     /\ Kp(i) >= Threshold

\* No storm goes unreported: every accepted event at or above the threshold is
\* covered by an alert raised at it or before it, with the label elevated at
\* every accepted event from the alert on.
StormReported ==
  \A j \in Accepted : Kp(j) >= Threshold =>
     \E i \in Alerting :
        /\ i <= j
        /\ \A k \in Accepted : i <= k /\ k <= j => results[k].risk_label = "elevated"

\* The processor's own counters agree with the run_counts that alert.json
\* recomputes from the results (alert_output.py:67-79).
CountsAgree ==
  /\ messages_seen = Len(results)
  /\ accepted_count = Cardinality(Accepted)
  /\ duplicate_count = Cardinality(WithStatus("duplicate_skipped"))
  /\ late_count = Cardinality(WithStatus("late_event_skipped"))
  /\ alerts_emitted = Cardinality(Alerting)

\* Refinement: the accepted events and the tags that raised an alert behave as
\* the published alert rule says (README.md:144-154).
Rule == INSTANCE KpAlertRule WITH
          readings <- {results[i].event : i \in Accepted},
          alerts   <- {Tag(i) : i \in Alerting}

ImplementsRule == Rule!Spec
-----------------------------------------------------------------------------
(* The same results told from the events alone: no deque, no seen set, no  *)
(* flag.                                                                   *)

\* The i-th event is newer than everything before it.
IsNewest(evs, i) == \A j \in 1..(i - 1) : evs[j].time_tag < evs[i].time_tag

\* The Kp values of the inclusive window that ends at the newest of the first i events.
KpInWindow(evs, i) ==
  {evs[j].kp_value : j \in {k \in 1..i :
     IsNewest(evs, k) /\ \A m \in 1..i : evs[m].time_tag - Window <= evs[k].time_tag}}

LabelAfter(evs, i) ==
  IF \E kp \in KpInWindow(evs, i) : kp >= Threshold THEN "elevated" ELSE "normal"

StatusOf(evs, i) ==
  IF IsNewest(evs, i) THEN "accepted"
  ELSE IF \E j \in 1..(i - 1) : IsNewest(evs, j) /\ evs[j].time_tag = evs[i].time_tag
       THEN "duplicate_skipped"
       ELSE "late_event_skipped"

\* The newest event raises an alert when the label changes to elevated.
RaisesAlert(evs, i) ==
  /\ IsNewest(evs, i)
  /\ LabelAfter(evs, i) = "elevated"
  /\ i > 1 => LabelAfter(evs, i - 1) = "normal"

ResultsOf(evs) ==
  [i \in DOMAIN evs |->
     [event |-> evs[i], rolling_15m_max_kp |-> Max(KpInWindow(evs, i)),
      risk_label |-> LabelAfter(evs, i), alert_emitted |-> RaisesAlert(evs, i),
      status |-> StatusOf(evs, i)]]

\* The events process() has been given.
Processed == [i \in DOMAIN results |-> results[i].event]

\* process() is a function of the events it has been given (processor.py:121-155):
\* whatever state is kept, the results are those of ResultsOf.
FunctionOfEvents == results = ResultsOf(Processed)
=============================================================================
