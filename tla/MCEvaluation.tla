---------------------------- MODULE MCEvaluation ----------------------------
(***************************************************************************)
(* Instance of Evaluation for TLC: replay files of up to three lines, in   *)
(* which two crossings with a quiet window between them, a duplicate and a *)
(* Kp that `:g` rounds all fit, and labels that may be right or wrong in   *)
(* their counts and in each field of an alert.                             *)
(***************************************************************************)
EXTENDS Evaluation

MCTimeTags == {0, 2, 3}
MCKpValues == {10, 13, 14, 16}   \* Kp 5, 6.5 (in digits that :g drops), 7 and 8

LabelledAlerts ==
  LET alert == [triggered_at : MCTimeTags, latest_kp : {13, 14, 16},
                rolling_15m_max_kp : {14, 16}]
  IN {s \in {<<>>} \cup {<<a>> : a \in alert} \cup {<<a, b>> : a, b \in alert} :
        \A i \in DOMAIN s : s[i].latest_kp = 13 \/ s[i].latest_kp = s[i].rolling_15m_max_kp}

MCLabels ==
  {[run_counts |-> [messages_consumed |-> u + d, unique_events |-> u,
                    duplicates_skipped |-> d, late_events_skipped |-> 0,
                    alerts_emitted |-> Len(a)],
    alerts |-> a] : u \in 1..3, d \in 0..1, a \in LabelledAlerts}
=============================================================================
