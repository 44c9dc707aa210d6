---------------------------- MODULE BriefingText ----------------------------
(***************************************************************************)
(* The texts of briefing.py as far as its checks tell them apart. A text   *)
(* is the record of what the checks find in it: is it blank, how many      *)
(* sentence ends, which risk labels, is the label negated, which numbers   *)
(* and timestamps stand in it (the phrase "15-minute" is no number), and   *)
(* which kinds of unsupported detail (cause, location, impact,             *)
(* recommendation). Kp values and times are integers; the risk label of    *)
(* the facts can only be "elevated" (briefing.py:54).                      *)
(***************************************************************************)
EXTENDS Integers

CONSTANTS
  Digit,   \* Kp units in the last of the six significant digits that `:g` prints
  None     \* Python's None

ASSUME DigitAssumption == Digit \in Nat \ {0}

ApprovedNumbers(f)    == {f.latest_kp, f.rolling_15m_max_kp}
ApprovedTimestamps(f) == {f.window_start_utc, f.window_end_utc}
-----------------------------------------------------------------------------
(* validate_briefing.                                                      *)

SentenceCount(c) == IF c.nonempty /\ c.ends = 0 THEN 1 ELSE c.ends

TimestampCheck(c, f) == c.timestamps \subseteq ApprovedTimestamps(f)

\* Only approved timestamps are cut out before the numbers are looked for, and
\* the digits of any other one are numbers nobody approved.
NumberCheck(c, f) == c.numbers \subseteq ApprovedNumbers(f) /\ TimestampCheck(c, f)

LabelCheck(c) == c.labels = {"elevated"} /\ ~ c.negated

\* The six checks, by name.
ValidateBriefing(c, f) ==
  [nonempty            |-> c.nonempty,
   sentence_limit      |-> SentenceCount(c) <= 2,
   risk_label          |-> LabelCheck(c),
   approved_numbers    |-> NumberCheck(c, f),
   approved_timestamps |-> TimestampCheck(c, f),
   unsupported_details |-> c.details = {}]

Accepted(checks) == \A name \in DOMAIN checks : checks[name]
-----------------------------------------------------------------------------
(* generate_briefing.                                                      *)

\* A Kp value as `:g` prints it: to the nearest multiple of the last digit.
Shown(kp) == ((2 * kp + Digit) \div (2 * Digit)) * Digit

\* Two sentences; without facts (an empty list of alerts) they say that no
\* elevated alert was emitted.
DeterministicBriefing(f) ==
  [nonempty |-> TRUE, ends |-> 2, labels |-> {"elevated"}, negated |-> FALSE,
   numbers    |-> IF f = None THEN {} ELSE {Shown(kp) : kp \in ApprovedNumbers(f)},
   timestamps |-> IF f = None THEN {} ELSE ApprovedTimestamps(f),
   details |-> {}]

Fallback(f, candidate, checks) ==
  [text |-> DeterministicBriefing(f), source |-> "fallback", candidate |-> candidate,
   validation |-> checks]

\* Bug: the candidate is used whatever the checks say.
GenerateBriefing_Unchecked(f, live, response) ==
  IF ~ live \/ f = None \/ response = None THEN Fallback(f, None, None)
  ELSE [text |-> response, source |-> "model", candidate |-> response,
        validation |-> ValidateBriefing(response, f)]

\* The response is None when no usable text came back: the key is missing, the
\* request failed or timed out, or its output is not text.
GenerateBriefing(f, live, response) ==
  IF ~ live \/ f = None \/ response = None THEN Fallback(f, None, None)
  ELSE LET checks == ValidateBriefing(response, f)
       IN IF Accepted(checks)
          THEN [text |-> response, source |-> "model", candidate |-> response,
                validation |-> checks]
          ELSE Fallback(f, response, checks)
-----------------------------------------------------------------------------
\* What the AI boundary (README.md:343-350) leaves a model text about the facts f:
\* no other label, number or time, nothing invented.
WithinBoundary(c, f) ==
  /\ f # None
  /\ c.nonempty /\ c.ends <= 2
  /\ "elevated" \in c.labels /\ "normal" \notin c.labels /\ ~ c.negated
  /\ \A n \in c.numbers : n = f.latest_kp \/ n = f.rolling_15m_max_kp
  /\ \A t \in c.timestamps : t = f.window_start_utc \/ t = f.window_end_utc
  /\ c.details = {}

\* The text tells the facts f: deterministically, or within the boundary.
Tells(c, f) == c = DeterministicBriefing(f) \/ WithinBoundary(c, f)
=============================================================================
