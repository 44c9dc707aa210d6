----------------------------- MODULE Evaluation -----------------------------
(***************************************************************************)
(* One run of `python -m src.evaluate`: the replay file goes through the   *)
(* processor of RollingKp in memory, its alerts are compared with labelled *)
(* ones, six fixed candidates go through the briefing path with the facts  *)
(* of the last alert, and evaluation.json is replaced.                     *)
(***************************************************************************)
EXTENDS BriefingText, AlertOutput, ReplayFile

CONSTANTS
  TimeTags, KpValues, KpMax, Threshold,   \* see RollingKp
  MaxLines,   \* bound: lines of the replay file
  Labellings,     \* the labelled artifacts that replay_expected.json may hold
  KpUnit,     \* Kp 1.0 in the units of KpValues
  OldRun      \* what an earlier run left of evaluation.json (or no file)

CaseNames == {"correct", "wrong_number", "wrong_label", "unsupported_detail", "too_long",
              "api_unavailable"}

\* What the facts, a candidate, the checks of one and an evaluation can be.
Facts       == [latest_kp : Int, rolling_15m_max_kp : Int, window_start_utc : Int,
                window_end_utc : Int]
Candidates  == [nonempty : BOOLEAN, ends : Nat, labels : SUBSET {"normal", "elevated"},
                negated : BOOLEAN, numbers : SUBSET Int, timestamps : SUBSET Int,
                details : SUBSET {"cause"}]
Checks      == [nonempty : BOOLEAN, sentence_limit : BOOLEAN, risk_label : BOOLEAN,
                approved_numbers : BOOLEAN, approved_timestamps : BOOLEAN,
                unsupported_details : BOOLEAN]
Evaluations == [alert_evaluation : [expected : Labellings, counts_match : BOOLEAN,
                                    alerts_match : BOOLEAN],
                ai_cases_passed : SUBSET CaseNames, overall_passed : BOOLEAN]

ASSUME EvaluationAssumption ==
  /\ KpUnit \in Nat /\ Digit <= KpUnit /\ KpUnit % Digit = 0
  \* what RollingKp asks of its constants
  /\ TimeTags \subseteq Int
  /\ KpMax = 9 * KpUnit /\ KpValues \subseteq 0..KpMax
  /\ Window \in Nat \ {0}
  /\ Threshold \in Int
  /\ MaxLines \in Nat
  \* None is no other value, and the evaluation of this run is told apart from
  \* what was there before
  /\ None \notin Int /\ None \notin Facts /\ None \notin Candidates /\ None \notin Checks
  /\ OldRun \notin Evaluations

VARIABLES
  \* the processor, and the results of _alert_evaluation
  events, seen_time_tags, latest_time_tag, messages_seen, accepted_count,
  duplicate_count, late_count, alert_armed, alerts_emitted, results,
  lines,       \* the replay file
  pc,          \* where the run stands
  report,      \* what build_evaluation returned, or None
  evaluation,  \* evaluation.json on disk
  exit_code

processor == <<events, seen_time_tags, latest_time_tag, messages_seen, accepted_count,
               duplicate_count, late_count, alert_armed, alerts_emitted, results>>
vars == <<processor, lines, pc, report, evaluation, exit_code>>

P == INSTANCE RollingKp WITH MaxMessages <- MaxLines
-----------------------------------------------------------------------------
(* The six cases.                                                          *)

Sentences(n, labels, numbers, details) ==
  [nonempty |-> TRUE, ends |-> n, labels |-> labels, negated |-> FALSE,
   numbers |-> numbers, timestamps |-> {}, details |-> details]

Case(response, decision) ==
  [response |-> response, decision |-> decision, fallback |-> decision # "accepted"]

\* The numbers 8 and 7 are written into the candidates; the first one alone looks
\* at the facts.
DefaultCases(f) ==
  [correct            |-> Case(DeterministicBriefing(f), "accepted"),
   wrong_number       |-> Case(Sentences(1, {"elevated"}, {8 * KpUnit}, {}), "rejected"),
   wrong_label        |-> Case(Sentences(1, {"normal"}, {7 * KpUnit}, {}), "rejected"),
   unsupported_detail |-> Case(Sentences(1, {"elevated"}, {}, {"cause"}), "rejected"),
   too_long           |-> Case(Sentences(3, {"elevated"}, {7 * KpUnit}, {}), "rejected"),
   api_unavailable    |-> Case(None, "unavailable")]

ActualDecision(g) ==
  IF g.validation = None THEN "unavailable"
  ELSE IF Accepted(g.validation) THEN "accepted" ELSE "rejected"

\* expected_matches_actual of _case_result, which asks with a client of its own.
CaseMatches(case, f) ==
  LET g == GenerateBriefing(f, TRUE, case.response)
  IN /\ ActualDecision(g) = case.decision
     /\ (g.source = "fallback") = case.fallback

FactsOf(alert) ==
  [latest_kp |-> alert.latest_kp, rolling_15m_max_kp |-> alert.rolling_15m_max_kp,
   window_start_utc |-> alert.window_start_utc, window_end_utc |-> alert.window_end_utc]
-----------------------------------------------------------------------------
(* main.                                                                   *)

Exit(code) == pc' = "exit" /\ exit_code' = code

Load ==
  /\ pc = "load"
  /\ IF ValidReplay(lines) THEN pc' = "process" /\ UNCHANGED exit_code ELSE Exit(1)
  /\ UNCHANGED <<processor, lines, report, evaluation>>

ProcessNext ==
  /\ pc = "process"
  /\ Len(results) < Len(lines)
  /\ P!Process(lines[Len(results) + 1])
  /\ UNCHANGED <<lines, pc, report, evaluation, exit_code>>

\* Bug: the number of alerts is compared, not the alerts.
Compare_Numbers(expected) ==
  LET actual == BuildAlertOutput(results)
  IN [expected |-> expected, counts_match |-> actual.run_counts = expected.run_counts,
      alerts_match |-> Len(actual.alerts) = Len(expected.alerts)]

\* The comparison of _alert_evaluation.
Compare(expected) ==
  LET actual == BuildAlertOutput(results)
  IN [expected |-> expected, counts_match |-> actual.run_counts = expected.run_counts,
      alerts_match |-> Summaries(actual.alerts) = expected.alerts]

\* What build_evaluation returns: the comparison, the cases whose outcome is the
\* expected one, and whether all that agrees.
Evaluated(expected) ==
  LET alerts == BuildAlertOutput(results).alerts
      facts  == FactsOf(alerts[Len(alerts)])
      cases  == DefaultCases(facts)
      alert_evaluation == Compare(expected)
      passed == {c \in DOMAIN cases : CaseMatches(cases[c], facts)}
  IN [alert_evaluation |-> alert_evaluation, ai_cases_passed |-> passed,
      overall_passed |-> /\ alert_evaluation.counts_match
                         /\ alert_evaluation.alerts_match
                         /\ passed = DOMAIN cases]

\* build_evaluation, once the labels have been read.
Build ==
  /\ pc = "process"
  /\ Len(results) = Len(lines)
  /\ alerts_emitted > 0
  /\ \E expected \in Labellings : report' = Evaluated(expected)
  /\ pc' = "write"
  /\ UNCHANGED <<processor, lines, evaluation, exit_code>>

\* The labels cannot be read, or (ValueError) there is no alert to take facts from.
BuildFails ==
  /\ pc = "process"
  /\ Len(results) = Len(lines)
  /\ Exit(1)
  /\ UNCHANGED <<processor, lines, report, evaluation>>

\* Bug: the exit code only says that the file was written.
Write_AlwaysZero ==
  /\ pc = "write"
  /\ evaluation' = report
  /\ Exit(0)
  /\ UNCHANGED <<processor, lines, report>>

\* write_evaluation, and the exit code that goes with the summary.
Write ==
  /\ pc = "write"
  /\ evaluation' = report
  /\ Exit(IF report.overall_passed THEN 0 ELSE 1)
  /\ UNCHANGED <<processor, lines, report>>

\* An OSError before the replacement.
WriteFails ==
  /\ pc = "write"
  /\ Exit(1)
  /\ UNCHANGED <<processor, lines, report, evaluation>>

Init ==
  /\ P!Init
  /\ lines \in UNION {[1..n -> P!KpEvents \cup {Invalid}] : n \in 0..MaxLines}
  /\ pc = "load"
  /\ report = None
  /\ evaluation = OldRun
  /\ exit_code = None

Next == Load \/ ProcessNext \/ Build \/ BuildFails \/ Write \/ WriteFails

Spec == Init /\ [][Next]_vars
-----------------------------------------------------------------------------
(* Properties.                                                             *)

Rule == INSTANCE KpAlertRule WITH readings <- {}, alerts <- {}

\* The observations of the file, a repeated tag counting once, and the tags at which
\* the published rule (README.md:144-154) raises an alert over them.
Readings  == {lines[i] : i \in {k \in DOMAIN lines :
                                  \A j \in 1..(k - 1) : lines[j].time_tag # lines[k].time_tag}}
Crossings ==
  LET Elevated(t) == ~ Rule!Quiet(Rule!InWindow(Readings, t))
      tags == {r.time_tag : r \in Readings}
  IN {t \in tags : Elevated(t) /\ \A p \in tags :
        p < t /\ (\A q \in tags : q < t => q <= p) => ~ Elevated(p)}

\* An evaluation that passes certifies the labels: the labelled alerts are the
\* crossings of the published rule, in order, and the labelled counts are those of
\* the file, in which nothing is late (evaluate.py:186-192, 288-306).
PassCertifiesLabels ==
  exit_code = 0 =>
    LET labels == evaluation.alert_evaluation.expected
    IN /\ {labels.alerts[i].triggered_at : i \in DOMAIN labels.alerts} = Crossings
       /\ \A i, j \in DOMAIN labels.alerts :
            i < j => labels.alerts[i].triggered_at < labels.alerts[j].triggered_at
       /\ labels.run_counts.messages_consumed = Len(lines)
       /\ labels.run_counts.unique_events = Cardinality(Readings)
       /\ labels.run_counts.late_events_skipped = 0

\* run_demo.sh trusts the exit code and then the summary on disk, and they agree:
\* this run left a passing evaluation exactly when it returned 0
\* (evaluate.py:248, 300-306; run_demo.sh:83, 139-143).
ExitCodeIsSummary ==
  pc = "exit" =>
    (exit_code = 0 <=> evaluation # OldRun /\ evaluation.overall_passed)

\* Which facts the six cases fit: their decisions are the expected ones exactly when
\* neither Kp is the 8 of the wrong number and both have at most the six significant
\* digits that `:g` prints; then the model's text would be judged as the cases claim
\* (evaluate.py:61-112, briefing.py:338-339).
CasesFitTheFacts ==
  report # None =>
    LET alerts == BuildAlertOutput(results).alerts
        kps    == ApprovedNumbers(FactsOf(alerts[Len(alerts)]))
    IN report.ai_cases_passed = DOMAIN DefaultCases(FactsOf(alerts[Len(alerts)]))
         <=> 8 * KpUnit \notin kps /\ \A kp \in kps : kp % Digit = 0
=============================================================================
