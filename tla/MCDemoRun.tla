----------------------------- MODULE MCDemoRun -----------------------------
(***************************************************************************)
(* Instance of DemoRun for TLC: the nine events of kp_replay.jsonl and the *)
(* values of replay_expected.json themselves, tags in minutes since        *)
(* midnight and Kp in tenths; three unusable replay files; a topic left    *)
(* empty, by a whole replay, or by one that failed half way.               *)
(***************************************************************************)
EXTENDS DemoRun

E(minute, kp) == [time_tag |-> minute, kp_value |-> kp]

MCFixture == <<E(0, 40), E(5, 50), E(10, 63), E(10, 63), E(20, 55), E(25, 52),
               E(26, 50), E(27, 70), E(30, 67)>>
MCOtherFiles == {<<>>, <<E(0, 40), Invalid>>, <<E(5, 50), E(0, 40)>>}
MCLeftovers  == {<<>>, MCFixture, SubSeq(MCFixture, 1, 4)}
MCTimeTags   == {MCFixture[i].time_tag : i \in DOMAIN MCFixture}
MCKpValues   == {MCFixture[i].kp_value : i \in DOMAIN MCFixture}

MCExpectedCounts ==
  [messages_consumed |-> 9, unique_events |-> 8, duplicates_skipped |-> 1,
   late_events_skipped |-> 0, alerts_emitted |-> 2]

MCExpectedAlerts ==
  <<[triggered_at |-> 10, latest_kp |-> 63, rolling_15m_max_kp |-> 63],
    [triggered_at |-> 27, latest_kp |-> 70, rolling_15m_max_kp |-> 70]>>

Row(minute, kp, max, label, alert, status) ==
  [time_tag |-> minute, kp_value |-> kp, rolling_15m_max_kp |-> max,
   risk_label |-> label, alert_emitted |-> alert, processing_status |-> status]

MCExpectedMetrics ==
  <<Row(0, 40, 40, "normal", FALSE, "accepted"),
    Row(5, 50, 50, "normal", FALSE, "accepted"),
    Row(10, 63, 63, "elevated", TRUE, "accepted"),
    Row(10, 63, 63, "elevated", FALSE, "duplicate_skipped"),
    Row(20, 55, 63, "elevated", FALSE, "accepted"),
    Row(25, 52, 63, "elevated", FALSE, "accepted"),
    Row(26, 50, 55, "normal", FALSE, "accepted"),
    Row(27, 70, 70, "elevated", TRUE, "accepted"),
    Row(30, 67, 70, "elevated", FALSE, "accepted")>>
=============================================================================
