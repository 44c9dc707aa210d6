---------------------------- MODULE AlertOutput ----------------------------
(***************************************************************************)
(* What alert_output.py and metrics_output.py build from a list of results *)
(* of RollingKp; used by the stream processor and by the evaluation. The   *)
(* tags are whole seconds, as every producer of the topic writes them; the *)
(* other fields of an alert are constants or functions of its tag.         *)
(***************************************************************************)
EXTENDS Integers, Sequences, FiniteSets

CONSTANT Window   \* WINDOW_DURATION

Alert(r) ==
  [triggered_at |-> r.event.time_tag, latest_kp |-> r.event.kp_value,
   rolling_15m_max_kp |-> r.rolling_15m_max_kp,
   window_start_utc |-> r.event.time_tag - Window, window_end_utc |-> r.event.time_tag]

\* The loop over the results: the alerts of the first n of them.
AlertsUpTo(rs) ==
  LET alerts[n \in 0..Len(rs)] ==
        IF n = 0 THEN <<>>
        ELSE IF rs[n].alert_emitted THEN Append(alerts[n - 1], Alert(rs[n]))
        ELSE alerts[n - 1]
  IN alerts

AlertsOf(rs) == AlertsUpTo(rs)[Len(rs)]

WithStatus(rs, s) == Cardinality({i \in DOMAIN rs : rs[i].status = s})

\* Bug: skipped events are counted as unique too.
RunCounts_AllUnique(rs) ==
  [messages_consumed |-> Len(rs), unique_events |-> Len(rs),
   duplicates_skipped |-> WithStatus(rs, "duplicate_skipped"),
   late_events_skipped |-> WithStatus(rs, "late_event_skipped"),
   alerts_emitted |-> Len(AlertsOf(rs))]

RunCounts(rs) ==
  [messages_consumed |-> Len(rs), unique_events |-> WithStatus(rs, "accepted"),
   duplicates_skipped |-> WithStatus(rs, "duplicate_skipped"),
   late_events_skipped |-> WithStatus(rs, "late_event_skipped"),
   alerts_emitted |-> Len(AlertsOf(rs))]

BuildAlertOutput(rs) ==
  [run_counts |-> RunCounts(rs), alerts |-> AlertsOf(rs)]

\* One row per result, in order.
BuildMetricsRows(rs) ==
  [i \in DOMAIN rs |->
     [time_tag |-> rs[i].event.time_tag, kp_value |-> rs[i].event.kp_value,
      rolling_15m_max_kp |-> rs[i].rolling_15m_max_kp, risk_label |-> rs[i].risk_label,
      alert_emitted |-> rs[i].alert_emitted, processing_status |-> rs[i].status]]

\* What the two artifacts can hold.
Alerts == [triggered_at : Int, latest_kp : Int, rolling_15m_max_kp : Int,
           window_start_utc : Int, window_end_utc : Int]
AlertOutputs ==
  [run_counts : [messages_consumed : Nat, unique_events : Nat, duplicates_skipped : Nat,
                 late_events_skipped : Nat, alerts_emitted : Nat],
   alerts : Seq(Alerts)]
MetricsRows ==
  [time_tag : Int, kp_value : Int, rolling_15m_max_kp : Int,
   risk_label : {"normal", "elevated"}, alert_emitted : BOOLEAN,
   processing_status : {"accepted", "duplicate_skipped", "late_event_skipped"}]

\* The fields of an alert that replay_expected.json lists, and that run_demo.sh and
\* evaluate.py compare.
Summaries(alerts) ==
  [i \in DOMAIN alerts |->
     [triggered_at |-> alerts[i].triggered_at, latest_kp |-> alerts[i].latest_kp,
      rolling_15m_max_kp |-> alerts[i].rolling_15m_max_kp]]
=============================================================================
