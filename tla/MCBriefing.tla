----------------------------- MODULE MCBriefing -----------------------------
(***************************************************************************)
(* Instance of Briefing for TLC: two requests, a page and one demo run     *)
(* that moves alert.json from one alert's facts to another's or to none.   *)
(* The model may answer with a text about either of them, with a sentence  *)
(* that names no number at all, or with a cause nobody supplied.           *)
(***************************************************************************)
EXTENDS Briefing, TLC

CONSTANTS r1, r2

MCRequests == {r1, r2}
MCSymmetry == Permutations(MCRequests)

Alert(kp, t) == [latest_kp |-> kp, rolling_15m_max_kp |-> kp,
                 window_start_utc |-> t - 15, window_end_utc |-> t]

MCFacts == {Alert(63, 10)}
TwoAlerts == {Alert(63, 10), Alert(70, 27)}

Sentence(numbers, times, details) ==
  [nonempty |-> TRUE, ends |-> 1, labels |-> {"elevated"}, negated |-> FALSE,
   numbers |-> numbers, timestamps |-> times, details |-> details]

MCResponses == {Sentence({63}, {10}, {}), Sentence({}, {}, {"cause"})}
=============================================================================
