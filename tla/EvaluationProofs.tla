-------------------------- MODULE EvaluationProofs --------------------------
(***************************************************************************)
(* Evaluation for replay files of any length, any labels and any Kp unit:  *)
(* what the exit code 0, the file on disk and the six cases say.           *)
(***************************************************************************)
EXTENDS Evaluation, AlertOutputProofs

PP == INSTANCE RollingKpProofs WITH MaxMessages <- MaxLines

\* The evaluation gives the processor's constants values the processor accepts.
LEMMA ProcessorConstants == PP!ConstantsAssumption
<1>1. KpMax \in Nat
  BY EvaluationAssumption
<1> QED
  BY <1>1, EvaluationAssumption DEF PP!ConstantsAssumption
-----------------------------------------------------------------------------
(* P and PP name the same processor.                                       *)

LEMMA SameWindow ==
  /\ P!KpEvents = PP!KpEvents /\ P!Results = PP!Results
  /\ \A q : P!RollingMax(q) = PP!RollingMax(q) /\ P!RiskLabel(q) = PP!RiskLabel(q)
  /\ \A e : P!NextWindow(e) = PP!NextWindow(e)
<1>1. P!KpEvents = PP!KpEvents
  BY DEF P!KpEvents, PP!KpEvents
<1>2. P!Results = PP!Results
  BY <1>1 DEF P!Results, PP!Results, P!Labels, PP!Labels, P!Status, PP!Status
<1>3. \A S : P!Max(S) = PP!Max(S) /\ P!Min(S) = PP!Min(S)
  BY DEF P!Max, PP!Max, P!Min, PP!Min
<1>4. \A q : P!RollingMax(q) = PP!RollingMax(q)
  BY <1>3 DEF P!RollingMax, PP!RollingMax
<1>5. \A q : P!RiskLabel(q) = PP!RiskLabel(q)
  BY <1>4 DEF P!RiskLabel, PP!RiskLabel
<1>6. \A q, c : P!Evict(q, c) = PP!Evict(q, c)
  BY <1>3 DEF P!Evict, PP!Evict, P!KeptIndices, PP!KeptIndices
<1>7. \A e : P!NextWindow(e) = PP!NextWindow(e)
  BY <1>6 DEF P!NextWindow, PP!NextWindow
<1> QED
  BY <1>1, <1>2, <1>4, <1>5, <1>7

LEMMA SameCardinality == \A S : PP!Cardinality(S) = Cardinality(S)
  BY DEF PP!Cardinality, Cardinality, PP!IsFiniteSet, IsFiniteSet

LEMMA SameProcess == \A e : P!Process(e) <=> PP!Process(e)
<1> TAKE e
<1>1. /\ P!IsDuplicate(e) <=> PP!IsDuplicate(e)
      /\ P!IsLate(e) <=> PP!IsLate(e)
  BY DEF P!IsDuplicate, PP!IsDuplicate, P!IsLate, PP!IsLate
<1>2. P!Emits(e) = PP!Emits(e)
  BY SameWindow DEF P!Emits, PP!Emits
<1>3. \A s : P!SkippedResult(e, s) = PP!SkippedResult(e, s)
  BY SameWindow DEF P!SkippedResult, PP!SkippedResult
<1>4. P!AcceptedResult(e) = PP!AcceptedResult(e)
  BY SameWindow, <1>2 DEF P!AcceptedResult, PP!AcceptedResult
<1>5. P!ArmedAfter(e) = PP!ArmedAfter(e)
  BY SameWindow, <1>2 DEF P!ArmedAfter, PP!ArmedAfter
<1>6. P!ProcessDuplicate(e) <=> PP!ProcessDuplicate(e)
  BY <1>1, <1>3 DEF P!ProcessDuplicate, PP!ProcessDuplicate
<1>7. P!ProcessLate(e) <=> PP!ProcessLate(e)
  BY <1>1, <1>3 DEF P!ProcessLate, PP!ProcessLate
<1>8. P!ProcessAccepted(e) <=> PP!ProcessAccepted(e)
  BY SameWindow, <1>1, <1>2, <1>4, <1>5 DEF P!ProcessAccepted, PP!ProcessAccepted
<1> QED
  BY <1>6, <1>7, <1>8 DEF P!Process, PP!Process

LEMMA SameSpec ==
  /\ P!Init <=> PP!Init
  /\ P!vars = PP!vars /\ (P!Next <=> PP!Next)
  /\ P!TypeOK <=> PP!TypeOK
<1>1. P!Init <=> PP!Init
  BY DEF P!Init, PP!Init
<1>2. P!vars = PP!vars
  BY DEF P!vars, PP!vars, P!counters, PP!counters
<1>3. P!Next <=> PP!Next
  BY SameWindow, SameProcess DEF P!Next, PP!Next
<1>4. P!TypeOK <=> PP!TypeOK
  BY SameWindow DEF P!TypeOK, PP!TypeOK
<1> QED
  BY <1>1, <1>2, <1>3, <1>4

\* One call of process appends a result of the event and keeps the invariants of
\* the processor.
LEMMA ProcessStep ==
  ASSUME PP!IInv, PP!AlertsAtCrossings, NEW e \in P!KpEvents, P!Process(e), Len(results) < MaxLines
  PROVE  /\ PP!IInv' /\ PP!AlertsAtCrossings'
         /\ results \in Seq(P!Results) /\ results' \in Seq(P!Results)
         /\ Len(results') = Len(results) + 1
         /\ \A i \in 1..Len(results) : results'[i] = results[i]
         /\ results'[Len(results) + 1].event = e
<1>1. P!Next
  BY DEF P!Next
<1>2. PP!IInv' /\ PP!AlertsAtCrossings'
  <2>1. [PP!Next]_PP!vars
    BY <1>1, SameSpec
  <2> QED
    BY <2>1, PP!NextIInv, PP!CrossingsStep, ProcessorConstants
<1>3. results \in Seq(P!Results) /\ results' \in Seq(P!Results)
  BY <1>2, SameWindow DEF PP!IInv, PP!WindowInv, PP!TypeOK
<1>4. PICK r : results' = Append(results, r) /\ r.event = e
  BY DEF P!Process, P!ProcessDuplicate, P!ProcessLate, P!ProcessAccepted,
         P!SkippedResult, P!AcceptedResult
<1>5. results \in Seq(P!Results \cup {r})
  BY <1>3, SeqMonotonic
<1> QED
  BY <1>2, <1>3, <1>4, <1>5, AppendProperties
-----------------------------------------------------------------------------
(* The six cases.                                                          *)

\* Quotient and remainder are the only such pair.
LEMMA Division ==
  ASSUME NEW a \in Int, NEW b \in Nat \ {0}, NEW q \in Int, NEW r \in 0..(b - 1),
         a = q * b + r
  PROVE  a \div b = q /\ a % b = r
  OBVIOUS

LEMMA Remainder ==
  ASSUME NEW a \in Int, NEW b \in Nat \ {0}
  PROVE  /\ a \div b \in Int /\ a % b \in 0..(b - 1)
         /\ a = (a \div b) * b + (a % b)
<1>1. a \div b \in Int
  OBVIOUS
<1>2. a % b \in 0..(b - 1)
  OBVIOUS
<1>3. a % b = a - b * (a \div b)
  OBVIOUS
<1> QED
  BY <1>1, <1>2, <1>3

\* The number that `:g` prints is the Kp itself when its last digit is shown.
LEMMA ShownExactly ==
  ASSUME NEW kp \in Int
  PROVE  Shown(kp) \in Int /\ (Shown(kp) = kp <=> kp % Digit = 0)
<1>1. Digit \in Nat \ {0} /\ 2 * Digit \in Nat \ {0} /\ 2 * kp + Digit \in Int
  BY DigitAssumption
<1>2. (2 * kp + Digit) \div (2 * Digit) \in Int
  BY <1>1, Remainder
<1>3. Shown(kp) \in Int
  BY <1>1, <1>2 DEF Shown
<1>4. ASSUME kp % Digit = 0
      PROVE  Shown(kp) = kp
  <2>1. PICK q \in Int : kp = q * Digit
    BY <1>1, <1>4, Remainder
  <2>2. 2 * kp + Digit = q * (2 * Digit) + Digit
    BY <1>1, <2>1
  <2>3. Digit \in 0..(2 * Digit - 1)
    BY <1>1
  <2>4. (2 * kp + Digit) \div (2 * Digit) = q
    BY <1>1, <2>1, <2>2, <2>3, Division
  <2> QED
    BY <2>1, <2>4 DEF Shown
<1>5. ASSUME Shown(kp) = kp
      PROVE  kp % Digit = 0
  <2>1. PICK q \in Int : kp = q * Digit
    BY <1>2, <1>5 DEF Shown
  <2>2. kp = q * Digit + 0 /\ 0 \in 0..(Digit - 1)
    BY <1>1, <2>1
  <2> QED
    BY <1>1, <2>1, <2>2, Division
<1> QED
  BY <1>3, <1>4, <1>5

\* The facts of an alert whose two Kp values are the same (AlertIsPeak).
PeakFacts == {f \in Facts : f.latest_kp = f.rolling_15m_max_kp}

LEMMA PeakFactsProperties ==
  ASSUME NEW f \in PeakFacts
  PROVE  /\ f # None /\ f.latest_kp \in Int
         /\ ApprovedNumbers(f) = {f.latest_kp}
         /\ ApprovedTimestamps(f) \subseteq Int
  BY EvaluationAssumption DEF PeakFacts, Facts, ApprovedNumbers, ApprovedTimestamps

\* What becomes of a candidate: it is accepted or not, by the six checks.
LEMMA JudgedCandidate ==
  ASSUME NEW f, f # None, NEW c, c # None, ValidateBriefing(c, f) \in Checks,
         NEW decision \in {"accepted", "rejected"}
  PROVE  CaseMatches(Case(c, decision), f)
           <=> (Accepted(ValidateBriefing(c, f)) <=> decision = "accepted")
<1> DEFINE g == GenerateBriefing(f, TRUE, c)
           checks == ValidateBriefing(c, f)
<1>1. checks # None
  BY EvaluationAssumption
<1>2. CASE Accepted(checks)
  <2>1. g.validation = checks /\ g.source = "model"
    BY <1>2 DEF GenerateBriefing
  <2> HIDE DEF checks
  <2>2. ActualDecision(g) = "accepted"
    BY <1>1, <1>2, <2>1 DEF ActualDecision
  <2> QED
    BY <1>2, <2>1, <2>2 DEF CaseMatches, Case, checks
<1>3. CASE ~ Accepted(checks)
  <2>1. g.validation = checks /\ g.source = "fallback"
    BY <1>3 DEF GenerateBriefing, Fallback
  <2> HIDE DEF checks
  <2>2. ActualDecision(g) = "rejected"
    BY <1>1, <1>3, <2>1 DEF ActualDecision
  <2> QED
    BY <1>3, <2>1, <2>2 DEF CaseMatches, Case, checks
<1> QED
  BY <1>2, <1>3

\* The six checks one by one.
LEMMA ChecksProperties ==
  ASSUME NEW f \in PeakFacts, NEW c \in Candidates
  PROVE  /\ c # None /\ ValidateBriefing(c, f) \in Checks
         /\ Accepted(ValidateBriefing(c, f))
              <=> /\ c.nonempty /\ SentenceCount(c) <= 2 /\ LabelCheck(c)
                  /\ NumberCheck(c, f) /\ TimestampCheck(c, f) /\ c.details = {}
<1> DEFINE checks == ValidateBriefing(c, f)
<1>1. c # None
  BY EvaluationAssumption
<1>2. checks \in Checks
  BY DEF Candidates, ValidateBriefing, Checks, LabelCheck, NumberCheck, TimestampCheck
<1>3. DOMAIN checks = {"nonempty", "sentence_limit", "risk_label", "approved_numbers",
                       "approved_timestamps", "unsupported_details"}
  BY DEF ValidateBriefing
<1>4. /\ checks["nonempty"] = c.nonempty
      /\ checks["sentence_limit"] = (SentenceCount(c) <= 2)
      /\ checks["risk_label"] = LabelCheck(c)
      /\ checks["approved_numbers"] = NumberCheck(c, f)
      /\ checks["approved_timestamps"] = TimestampCheck(c, f)
      /\ checks["unsupported_details"] = (c.details = {})
  BY DEF ValidateBriefing
<1> HIDE DEF checks
<1>5. Accepted(checks)
        <=> /\ checks["nonempty"] /\ checks["sentence_limit"] /\ checks["risk_label"]
            /\ checks["approved_numbers"] /\ checks["approved_timestamps"]
            /\ checks["unsupported_details"]
  BY <1>3, Zenon DEF Accepted
<1> QED
  BY <1>1, <1>2, <1>4, <1>5, Zenon DEF checks

\* A candidate of Sentences is a candidate.
LEMMA SentencesType ==
  ASSUME NEW n \in Nat, NEW labels \in SUBSET {"normal", "elevated"},
         NEW numbers \in SUBSET Int, NEW details \in SUBSET {"cause"}
  PROVE  Sentences(n, labels, numbers, details) \in Candidates
  BY DEF Sentences, Candidates

LEMMA EightIsInt == 8 * KpUnit \in Int /\ 7 * KpUnit \in Int
  BY EvaluationAssumption

\* The deterministic text passes when `:g` prints the Kp of the alert exactly.
LEMMA CorrectCase ==
  ASSUME NEW f \in PeakFacts
  PROVE  CaseMatches(DefaultCases(f)["correct"], f) <=> f.latest_kp % Digit = 0
<1> DEFINE c == DeterministicBriefing(f)
<1>1. f # None /\ f.latest_kp \in Int /\ ApprovedNumbers(f) = {f.latest_kp}
      /\ ApprovedTimestamps(f) \subseteq Int
  BY PeakFactsProperties
<1>2. Shown(f.latest_kp) \in Int /\ (Shown(f.latest_kp) = f.latest_kp <=> f.latest_kp % Digit = 0)
  BY <1>1, ShownExactly
<1>3. /\ c.nonempty = TRUE /\ c.ends = 2 /\ c.labels = {"elevated"} /\ c.negated = FALSE
      /\ c.numbers = {Shown(f.latest_kp)} /\ c.timestamps = ApprovedTimestamps(f)
      /\ c.details = {}
  BY <1>1 DEF DeterministicBriefing
<1>4. c \in Candidates
  BY <1>1, <1>2 DEF DeterministicBriefing, Candidates
<1> HIDE DEF c
<1>5. Accepted(ValidateBriefing(c, f)) <=> f.latest_kp % Digit = 0
  <2>1. SentenceCount(c) <= 2 /\ LabelCheck(c) /\ TimestampCheck(c, f)
    BY <1>3 DEF SentenceCount, LabelCheck, TimestampCheck
  <2>2. NumberCheck(c, f) <=> Shown(f.latest_kp) = f.latest_kp
    BY <1>1, <1>3, <2>1 DEF NumberCheck
  <2> QED
    BY <1>2, <1>3, <1>4, <2>1, <2>2, ChecksProperties
<1>6. DefaultCases(f)["correct"] = Case(c, "accepted")
  BY DEF DefaultCases, c
<1> QED
  BY <1>1, <1>4, <1>5, <1>6, JudgedCandidate, ChecksProperties

\* The candidate with the number 8 is rejected unless that is the Kp of the alert.
LEMMA WrongNumberCase ==
  ASSUME NEW f \in PeakFacts
  PROVE  CaseMatches(DefaultCases(f)["wrong_number"], f) <=> 8 * KpUnit # f.latest_kp
<1> DEFINE c == Sentences(1, {"elevated"}, {8 * KpUnit}, {})
<1>1. c \in Candidates
  BY SentencesType, EightIsInt
<1>2. /\ c.nonempty = TRUE /\ c.ends = 1 /\ c.labels = {"elevated"} /\ c.negated = FALSE
      /\ c.numbers = {8 * KpUnit} /\ c.timestamps = {} /\ c.details = {}
  BY DEF Sentences
<1>3. DefaultCases(f)["wrong_number"] = Case(c, "rejected")
  BY DEF DefaultCases
<1> HIDE DEF c
<1>4. SentenceCount(c) <= 2 /\ LabelCheck(c) /\ TimestampCheck(c, f)
  BY <1>2 DEF SentenceCount, LabelCheck, TimestampCheck
<1>5. NumberCheck(c, f) <=> 8 * KpUnit = f.latest_kp
  BY <1>2, <1>4, PeakFactsProperties DEF NumberCheck
<1>6. Accepted(ValidateBriefing(c, f)) <=> 8 * KpUnit = f.latest_kp
  BY <1>1, <1>2, <1>4, <1>5, ChecksProperties
<1> QED
  BY <1>1, <1>3, <1>6, JudgedCandidate, ChecksProperties, PeakFactsProperties

\* Whatever the facts, the other three texts are rejected and no answer is no answer.
LEMMA OtherCases ==
  ASSUME NEW f \in PeakFacts
  PROVE  \A name \in {"wrong_label", "unsupported_detail", "too_long", "api_unavailable"} :
           CaseMatches(DefaultCases(f)[name], f)
<1> DEFINE label  == Sentences(1, {"normal"}, {7 * KpUnit}, {})
           detail == Sentences(1, {"elevated"}, {}, {"cause"})
           long   == Sentences(3, {"elevated"}, {7 * KpUnit}, {})
<1>1. label \in Candidates /\ detail \in Candidates /\ long \in Candidates
  BY SentencesType, EightIsInt
<1>2. label.labels # {"elevated"} /\ detail.details # {} /\ long.nonempty /\ long.ends = 3
  BY DEF Sentences
<1>3. /\ DefaultCases(f)["wrong_label"] = Case(label, "rejected")
      /\ DefaultCases(f)["unsupported_detail"] = Case(detail, "rejected")
      /\ DefaultCases(f)["too_long"] = Case(long, "rejected")
      /\ DefaultCases(f)["api_unavailable"] = Case(None, "unavailable")
  BY DEF DefaultCases
<1> HIDE DEF label, detail, long
<1>4. /\ ~ Accepted(ValidateBriefing(label, f)) /\ ~ Accepted(ValidateBriefing(detail, f))
      /\ ~ Accepted(ValidateBriefing(long, f))
  <2>1. ~ LabelCheck(label)
    BY <1>2 DEF LabelCheck
  <2>2. ~ (SentenceCount(long) <= 2)
    BY <1>2 DEF SentenceCount
  <2> QED
    BY <1>1, <1>2, <2>1, <2>2, ChecksProperties
<1>5. \A c \in {label, detail, long} : CaseMatches(Case(c, "rejected"), f)
  BY <1>1, <1>4, JudgedCandidate, ChecksProperties, PeakFactsProperties
<1>6. CaseMatches(Case(None, "unavailable"), f)
  <2>1. GenerateBriefing(f, TRUE, None) = Fallback(f, None, None)
    BY DEF GenerateBriefing
  <2>2. ActualDecision(Fallback(f, None, None)) = "unavailable"
    BY DEF ActualDecision, Fallback
  <2>3. Fallback(f, None, None).source = "fallback"
    BY DEF Fallback
  <2>4. LET case == Case(None, "unavailable")
        IN  case.response = None /\ case.decision = "unavailable" /\ case.fallback = TRUE
    BY DEF Case
  <2> QED
    BY <2>1, <2>2, <2>3, <2>4 DEF CaseMatches
<1> QED
  BY <1>3, <1>5, <1>6

\* Together: which facts the six cases fit.
LEMMA FittingFacts ==
  ASSUME NEW f \in PeakFacts
  PROVE  /\ DOMAIN DefaultCases(f) = CaseNames
         /\ {c \in CaseNames : CaseMatches(DefaultCases(f)[c], f)} = CaseNames
              <=> /\ 8 * KpUnit \notin ApprovedNumbers(f)
                  /\ \A kp \in ApprovedNumbers(f) : kp % Digit = 0
<1>1. DOMAIN DefaultCases(f) = CaseNames
  BY DEF DefaultCases, CaseNames
<1>2. {c \in CaseNames : CaseMatches(DefaultCases(f)[c], f)} = CaseNames
        <=> \A c \in CaseNames : CaseMatches(DefaultCases(f)[c], f)
  OBVIOUS
<1>3. (\A c \in CaseNames : CaseMatches(DefaultCases(f)[c], f))
        <=> /\ CaseMatches(DefaultCases(f)["correct"], f)
            /\ CaseMatches(DefaultCases(f)["wrong_number"], f)
  BY OtherCases DEF CaseNames
<1> QED
  BY <1>1, <1>2, <1>3, CorrectCase, WrongNumberCase, PeakFactsProperties
-----------------------------------------------------------------------------
(* A file that has been read to its end.                                   *)

\* The results are those of the first lines of the file.
InStep ==
  /\ lines \in Seq(P!KpEvents \cup {Invalid}) /\ Len(lines) <= MaxLines
  /\ Len(results) <= Len(lines)
  /\ \A i \in 1..Len(results) : results[i].event = lines[i]

Complete == ValidReplay(lines) /\ Len(results) = Len(lines)

\* The lines whose tag stands in no earlier line.
Firsts == {k \in DOMAIN lines : \A j \in 1..(k - 1) : lines[j].time_tag # lines[k].time_tag}

LEMMA LinesAreResults ==
  ASSUME PP!IInv, InStep, Complete
  PROVE  /\ Len(lines) \in Nat /\ DOMAIN lines = 1..Len(lines) /\ DOMAIN results = 1..Len(lines)
         /\ \A i \in 1..Len(lines) : /\ lines[i].time_tag = PP!Tag(i) /\ lines[i].kp_value = PP!Kp(i)
                                     /\ PP!Tag(i) \in Int /\ PP!Kp(i) \in Int
                                     /\ lines[i] = results[i].event
         /\ \A i, j \in 1..Len(lines) : i < j => PP!Tag(i) <= PP!Tag(j)
         /\ PP!Accepted \subseteq 1..Len(lines) /\ PP!Alerting \subseteq 1..Len(lines)
<1>1. Len(lines) \in Nat /\ DOMAIN lines = 1..Len(lines)
  BY LenProperties DEF InStep
<1>2. results \in Seq(PP!Results)
  BY DEF PP!IInv, PP!WindowInv, PP!TypeOK
<1>3. DOMAIN results = 1..Len(lines)
  BY <1>2, LenProperties DEF Complete
<1>4. /\ PP!Accepted \subseteq 1..Len(results) /\ PP!Alerting \subseteq 1..Len(results)
      /\ \A i \in DOMAIN results : PP!Tag(i) \in Int /\ PP!Kp(i) \in Int
  BY PP!AcceptedFacts, ProcessorConstants DEF PP!IInv
<1>5. \A i \in 1..Len(lines) : lines[i] = results[i].event
  BY DEF InStep, Complete
<1>6. \A i \in 1..Len(lines) : lines[i].time_tag = PP!Tag(i) /\ lines[i].kp_value = PP!Kp(i)
  BY <1>5 DEF PP!Tag, PP!Kp
<1>7. \A i, j \in 1..Len(lines) : i < j => PP!Tag(i) <= PP!Tag(j)
  BY <1>1, <1>6 DEF Complete, ValidReplay
<1> QED
  BY <1>1, <1>3, <1>4, <1>5, <1>6, <1>7 DEF Complete

\* In a file that is in order the accepted events are the first ones of each tag,
\* and nothing is late.
LEMMA FirstsAreAccepted ==
  ASSUME PP!IInv, InStep, Complete
  PROVE  /\ PP!Accepted = Firsts
         /\ PP!WithStatus("late_event_skipped") = {}
<1> DEFINE n == Len(lines)
<1>1. /\ n \in Nat /\ DOMAIN lines = 1..n /\ DOMAIN results = 1..n
      /\ \A i \in 1..n : lines[i].time_tag = PP!Tag(i) /\ PP!Tag(i) \in Int
      /\ \A i, j \in 1..n : i < j => PP!Tag(i) <= PP!Tag(j)
      /\ PP!Accepted \subseteq 1..n
  BY LinesAreResults
<1> HIDE DEF n
<1>2. \A j \in 1..n : j \in PP!Accepted <=> \A i \in PP!Accepted : i < j => PP!Tag(i) < PP!Tag(j)
  BY <1>1 DEF PP!IInv, PP!IdentityInv, PP!AcceptedIffNewest
<1>3. \A k \in 1..n : k \in Firsts <=> \A j \in 1..(k - 1) : PP!Tag(j) # PP!Tag(k)
  BY <1>1 DEF Firsts
<1>4. ASSUME NEW k \in Firsts
      PROVE  k \in PP!Accepted
  <2>1. k \in 1..n
    BY <1>1 DEF Firsts
  <2>2. ASSUME NEW i \in PP!Accepted, i < k
        PROVE  PP!Tag(i) < PP!Tag(k)
    <3>1. i \in 1..n /\ i \in 1..(k - 1)
      BY <1>1, <2>1, <2>2
    <3> QED
      BY <1>1, <1>3, <2>1, <2>2, <3>1
  <2> QED
    BY <1>2, <2>1, <2>2
<1>5. ASSUME NEW k \in PP!Accepted, k \notin Firsts
      PROVE  FALSE
  <2> DEFINE Same == {j \in 1..(k - 1) : PP!Tag(j) = PP!Tag(k)}
  <2>1. k \in 1..n /\ Same # {} /\ Same \subseteq Nat
    BY <1>1, <1>3, <1>5
  <2>2. PICK j \in Same : \A x \in Same : j <= x
    BY <2>1, LeastNatural
  <2>3. j \in 1..n /\ j < k /\ PP!Tag(j) = PP!Tag(k)
    BY <1>1, <2>1, <2>2
  <2>4. j \in Firsts
    BY <1>1, <1>3, <2>1, <2>2, <2>3
  <2>5. PP!Tag(j) < PP!Tag(k)
    BY <1>2, <1>4, <2>1, <2>3, <2>4
  <2> QED
    BY <1>1, <2>3, <2>5
<1>6. PP!Accepted = Firsts
  BY <1>1, <1>4, <1>5
<1>7. ASSUME NEW j \in 1..n, j \notin PP!Accepted
      PROVE  results[j].status = "duplicate_skipped"
  <2>1. PICK i \in PP!Accepted : i < j /\ ~ (PP!Tag(i) < PP!Tag(j))
    BY <1>2, <1>7
  <2>2. PP!Tag(i) = PP!Tag(j)
    BY <1>1, <2>1
  <2> QED
    BY <1>1, <2>1, <2>2 DEF PP!IInv, PP!IdentityInv, PP!DuplicateIffAcceptedBefore
<1>8. PP!WithStatus("late_event_skipped") = {}
  <2>1. ASSUME NEW j \in 1..n PROVE results[j].status # "late_event_skipped"
    <3>1. CASE j \in PP!Accepted
      BY <3>1 DEF PP!Accepted, PP!WithStatus
    <3>2. CASE j \notin PP!Accepted
      BY <1>7, <3>2
    <3> QED
      BY <3>1, <3>2
  <2> QED
    BY <1>1, <2>1 DEF PP!WithStatus
<1> QED
  BY <1>6, <1>8

\* The readings of the file are the accepted ones, each counted once.
LEMMA ReadingsAreAccepted ==
  ASSUME PP!IInv, InStep, Complete
  PROVE  /\ Readings = PP!Readings
         /\ Cardinality(Readings) = Cardinality(PP!Accepted)
<1> DEFINE f == [i \in PP!Accepted |-> lines[i]]
<1>1. Readings = {lines[i] : i \in PP!Accepted}
  BY FirstsAreAccepted DEF Readings, Firsts
<1>2. /\ PP!Accepted \subseteq 1..Len(lines) /\ Len(lines) \in Nat
      /\ \A i \in 1..Len(lines) : lines[i] = results[i].event /\ lines[i].time_tag = PP!Tag(i)
                                  /\ PP!Tag(i) \in Int
  BY LinesAreResults
<1>3. Readings = PP!Readings
  BY <1>1, <1>2 DEF PP!Readings
<1>4. f \in Bijection(PP!Accepted, Readings)
  <2>1. f \in [PP!Accepted -> Readings] /\ \A r \in Readings : \E i \in PP!Accepted : f[i] = r
    BY <1>1
  <2>2. \A i, j \in PP!Accepted : f[i] = f[j] => i = j
    <3>1. \A i, j \in PP!Accepted : i < j => PP!Tag(i) < PP!Tag(j)
      BY DEF PP!IInv, PP!WindowInv, PP!AcceptedIncreasing
    <3>2. \A i, j \in PP!Accepted : f[i] = f[j] => PP!Tag(i) = PP!Tag(j)
      BY <1>2
    <3> QED
      BY <1>2, <3>1, <3>2
  <2> QED
    BY <2>1, <2>2 DEF Bijection, Injection, Surjection, IsInjective
<1>5. IsFiniteSet(PP!Accepted)
  <2>1. IsFiniteSet(1..Len(lines))
    BY <1>2, FS_Interval
  <2> QED
    BY <1>2, <2>1, FS_Subset
<1> QED
  BY <1>3, <1>4, <1>5, FS_Bijection DEF ExistsBijection

\* The crossings of the published rule over the file are the tags that raised an alert.
LEMMA CrossingsAreAlerts ==
  ASSUME PP!IInv, PP!AlertsAtCrossings, InStep, Complete
  PROVE  Crossings = {PP!Tag(i) : i \in PP!Alerting}
<1>1. Readings = PP!Readings
  BY ReadingsAreAccepted
<1>2. \A r \in Readings : r.time_tag \in Int /\ r.kp_value \in Int
  BY <1>1, PP!ReadingsProperties, ProcessorConstants
<1>3. \A t : ~ Rule!Quiet(Rule!InWindow(Readings, t)) <=> PP!ElevatedAt(Readings, t)
  BY <1>2, EvaluationAssumption DEF Rule!Quiet, Rule!InWindow, PP!ElevatedAt
<1>4. {r.time_tag : r \in Readings} = PP!TagsOf(Readings)
  BY DEF PP!TagsOf
<1>5. Crossings = PP!CrossingsOf(Readings)
  BY <1>3, <1>4 DEF Crossings, PP!CrossingsOf
<1> QED
  BY <1>1, <1>5 DEF PP!AlertsAtCrossings, PP!AlertTags
-----------------------------------------------------------------------------
(* The alerts of the run and the labels they are compared with.            *)

LEMMA AlertsOfRun ==
  ASSUME PP!IInv
  PROVE  LET alerts == AlertsOf(results)
         IN  /\ DOMAIN alerts = 1..Len(alerts) /\ Len(alerts) = alerts_emitted
             /\ {alerts[i].triggered_at : i \in DOMAIN alerts} = {PP!Tag(i) : i \in PP!Alerting}
             /\ \A i, j \in DOMAIN alerts : i < j => alerts[i].triggered_at < alerts[j].triggered_at
             /\ \A i \in DOMAIN alerts : FactsOf(alerts[i]) \in PeakFacts
<1> DEFINE alerts == AlertsOf(results)
           Raised == {Alert(results[k]) : k \in Raising(results, Len(results))}
<1>1. results \in Seq(PP!Results)
  BY DEF PP!IInv, PP!WindowInv, PP!TypeOK
<1>2. ListsAlerts(alerts, results, Len(results))
  BY <1>1, AlertsListed
<1>3. Raising(results, Len(results)) = PP!Alerting
  BY <1>1, LenProperties DEF Raising, PP!Alerting
<1>4. /\ alerts \in Seq(Raised) /\ Len(alerts) = Cardinality(PP!Alerting)
      /\ \A k \in PP!Alerting : \E j \in 1..Len(alerts) : alerts[j] = Alert(results[k])
      /\ \A i, j \in 1..Len(alerts) : i < j =>
           \E k, l \in PP!Alerting :
             k < l /\ alerts[i] = Alert(results[k]) /\ alerts[j] = Alert(results[l])
  BY <1>2, <1>3 DEF ListsAlerts
<1>5. \A x \in Raised : \E k \in PP!Alerting : x = Alert(results[k])
  BY <1>3
<1> HIDE DEF alerts, Raised
<1>6. /\ DOMAIN alerts = 1..Len(alerts)
      /\ \A i \in 1..Len(alerts) : \E k \in PP!Alerting : alerts[i] = Alert(results[k])
  BY <1>4, <1>5, LenProperties, ElementOfSeq
<1>7. Len(alerts) = alerts_emitted
  <2>1. PP!Cardinality(PP!Alerting) = Cardinality(PP!Alerting)
    BY SameCardinality
  <2> QED
    BY <1>4, <2>1 DEF PP!IInv, PP!CountsAgree
<1>8. \A k : Alert(results[k]).triggered_at = PP!Tag(k)
  BY DEF Alert, PP!Tag
<1>9. {alerts[i].triggered_at : i \in DOMAIN alerts} = {PP!Tag(i) : i \in PP!Alerting}
  <2>1. \A i \in DOMAIN alerts : \E k \in PP!Alerting : alerts[i].triggered_at = PP!Tag(k)
    BY <1>6, <1>8
  <2>2. \A k \in PP!Alerting : \E i \in DOMAIN alerts : alerts[i].triggered_at = PP!Tag(k)
    BY <1>4, <1>6, <1>8
  <2> QED
    BY <2>1, <2>2
<1>10. \A i \in PP!Alerting : /\ i \in PP!Accepted /\ i \in DOMAIN results
                              /\ results[i].rolling_15m_max_kp = PP!Kp(i)
                              /\ PP!Tag(i) \in Int /\ PP!Kp(i) \in Int
  <2>1. PP!Alerting \subseteq DOMAIN results
    BY DEF PP!Alerting
  <2>2. \A i \in DOMAIN results : PP!Tag(i) \in Int /\ PP!Kp(i) \in Int
    BY PP!AcceptedFacts, ProcessorConstants DEF PP!IInv
  <2> QED
    BY <2>1, <2>2 DEF PP!IInv, PP!AlertInv, PP!AlertIsPeak, PP!Accepted, PP!WithStatus
<1>11. \A k, l \in PP!Alerting : k < l => PP!Tag(k) < PP!Tag(l)
  BY <1>10 DEF PP!IInv, PP!WindowInv, PP!AcceptedIncreasing
<1>12. \A i, j \in DOMAIN alerts : i < j => alerts[i].triggered_at < alerts[j].triggered_at
  BY <1>4, <1>6, <1>8, <1>11
<1>13. \A k \in PP!Alerting : FactsOf(Alert(results[k])) \in PeakFacts
  <2> TAKE k \in PP!Alerting
  <2>1. /\ Alert(results[k]).latest_kp = PP!Kp(k) /\ Alert(results[k]).rolling_15m_max_kp = PP!Kp(k)
        /\ Alert(results[k]).window_start_utc = PP!Tag(k) - Window
        /\ Alert(results[k]).window_end_utc = PP!Tag(k)
    BY <1>10 DEF Alert, PP!Tag, PP!Kp
  <2>2. PP!Tag(k) \in Int /\ PP!Kp(k) \in Int /\ PP!Tag(k) - Window \in Int
    BY <1>10, EvaluationAssumption
  <2> QED
    BY <2>1, <2>2 DEF FactsOf, PeakFacts, Facts
<1>14. \A i \in DOMAIN alerts : FactsOf(alerts[i]) \in PeakFacts
  BY <1>6, <1>13
<1> QED
  BY <1>6, <1>7, <1>9, <1>12, <1>14 DEF alerts

\* Labels that agree with the alerts and the counts of a complete run are right.
LEMMA AgreeingLabels ==
  ASSUME PP!IInv, PP!AlertsAtCrossings, InStep, Complete, NEW labels,
         labels.run_counts = RunCounts(results),
         labels.alerts = Summaries(AlertsOf(results))
  PROVE  /\ {labels.alerts[i].triggered_at : i \in DOMAIN labels.alerts} = Crossings
         /\ \A i, j \in DOMAIN labels.alerts :
              i < j => labels.alerts[i].triggered_at < labels.alerts[j].triggered_at
         /\ labels.run_counts.messages_consumed = Len(lines)
         /\ labels.run_counts.unique_events = Cardinality(Readings)
         /\ labels.run_counts.late_events_skipped = 0
<1> DEFINE alerts == AlertsOf(results)
           listed == labels.alerts
<1>1. /\ {alerts[i].triggered_at : i \in DOMAIN alerts} = {PP!Tag(i) : i \in PP!Alerting}
      /\ \A i, j \in DOMAIN alerts : i < j => alerts[i].triggered_at < alerts[j].triggered_at
  BY AlertsOfRun
<1>2. DOMAIN listed = DOMAIN alerts
  BY DEF Summaries
<1>3. \A i \in DOMAIN alerts : listed[i].triggered_at = alerts[i].triggered_at
  BY DEF Summaries
<1> HIDE DEF alerts, listed
<1>4. {listed[i].triggered_at : i \in DOMAIN listed} = Crossings
  BY <1>1, <1>2, <1>3, CrossingsAreAlerts
<1>5. \A i, j \in DOMAIN listed : i < j => listed[i].triggered_at < listed[j].triggered_at
  BY <1>1, <1>2, <1>3
<1>6. \A s : WithStatus(results, s) = Cardinality(PP!WithStatus(s))
  BY DEF WithStatus, PP!WithStatus
<1>7. /\ RunCounts(results).messages_consumed = Len(results)
      /\ RunCounts(results).unique_events = Cardinality(PP!WithStatus("accepted"))
      /\ RunCounts(results).late_events_skipped = Cardinality(PP!WithStatus("late_event_skipped"))
  BY <1>6 DEF RunCounts
<1>8. Cardinality(PP!WithStatus("accepted")) = Cardinality(Readings)
  BY ReadingsAreAccepted DEF PP!Accepted
<1>9. Cardinality(PP!WithStatus("late_event_skipped")) = 0
  BY FirstsAreAccepted, FS_EmptySet
<1> QED
  BY <1>4, <1>5, <1>7, <1>8, <1>9 DEF listed, Complete
-----------------------------------------------------------------------------
(* The inductive invariant.                                                *)

\* What build_evaluation returns is an evaluation, about the labels it was given.
LEMMA EvaluatedProperties ==
  ASSUME PP!IInv, alerts_emitted > 0, NEW expected \in Labellings
  PROVE  LET r == Evaluated(expected)
             alerts == BuildAlertOutput(results).alerts
             facts  == FactsOf(alerts[Len(alerts)])
         IN  /\ r \in Evaluations
             /\ r.alert_evaluation.expected = expected
             /\ r.overall_passed => /\ expected.run_counts = RunCounts(results)
                                    /\ expected.alerts = Summaries(AlertsOf(results))
             /\ facts \in PeakFacts
             /\ r.ai_cases_passed = {c \in CaseNames : CaseMatches(DefaultCases(facts)[c], facts)}
<1> DEFINE alerts == BuildAlertOutput(results).alerts
           facts  == FactsOf(alerts[Len(alerts)])
           passed == {c \in DOMAIN DefaultCases(facts) : CaseMatches(DefaultCases(facts)[c], facts)}
           c1 == RunCounts(results) = expected.run_counts
           c2 == Summaries(AlertsOf(results)) = expected.alerts
<1>1. alerts = AlertsOf(results)
  BY DEF BuildAlertOutput
<1>2. facts \in PeakFacts
  <2>1. alerts_emitted \in Nat
    BY DEF PP!IInv, PP!WindowInv, PP!TypeOK
  <2>2. Len(alerts) \in DOMAIN alerts
    BY <1>1, <2>1, AlertsOfRun
  <2> QED
    BY <1>1, <2>2, AlertsOfRun
<1>3. DOMAIN DefaultCases(facts) = CaseNames
  BY <1>2, FittingFacts
<1>4. Compare(expected) = [expected |-> expected, counts_match |-> c1, alerts_match |-> c2]
  BY DEF Compare, BuildAlertOutput
<1>5. Evaluated(expected) = [alert_evaluation |-> Compare(expected), ai_cases_passed |-> passed,
                             overall_passed |-> /\ Compare(expected).counts_match
                                                /\ Compare(expected).alerts_match
                                                /\ passed = DOMAIN DefaultCases(facts)]
  BY DEF Evaluated
<1> HIDE DEF facts
<1>6. passed \subseteq CaseNames /\ passed = {c \in CaseNames : CaseMatches(DefaultCases(facts)[c], facts)}
  BY <1>3
<1> HIDE DEF passed
<1>7. c1 \in BOOLEAN /\ c2 \in BOOLEAN
  OBVIOUS
<1> HIDE DEF c1, c2
<1>8. /\ Compare(expected).expected = expected
      /\ Compare(expected).counts_match = c1 /\ Compare(expected).alerts_match = c2
      /\ Compare(expected) \in [expected : Labellings, counts_match : BOOLEAN, alerts_match : BOOLEAN]
  BY <1>4, <1>7
<1>9. Evaluated(expected) \in Evaluations
  BY <1>5, <1>6, <1>8, <1>7 DEF Evaluations
<1>10. Evaluated(expected).overall_passed => c1 /\ c2
  BY <1>5, <1>7, <1>8
<1>11. Evaluated(expected).alert_evaluation.expected = expected /\ Evaluated(expected).ai_cases_passed = passed
  BY <1>5, <1>8
<1> QED
  BY <1>2, <1>6, <1>9, <1>10, <1>11 DEF facts, c1, c2

\* The report on hand is the evaluation of the whole file.
Judged ==
  /\ Complete /\ alerts_emitted > 0
  /\ \E expected \in Labellings : report = Evaluated(expected)

\* Where the run stands decides what is on hand and on disk.
StageInv ==
  /\ pc \in {"load", "process", "write", "exit"}
  /\ pc = "process" => ValidReplay(lines)
  /\ pc \in {"load", "process"} => report = None
  /\ pc = "write" \/ report # None => Judged
  /\ pc # "exit" => evaluation = OldRun /\ exit_code = None
  /\ pc = "exit" =>
       \/ exit_code = 0 /\ Judged /\ report.overall_passed = TRUE /\ evaluation = report
       \/ exit_code = 1 /\ Judged /\ report.overall_passed = FALSE /\ evaluation = report
       \/ exit_code = 1 /\ evaluation = OldRun

IInv == PP!IInv /\ PP!AlertsAtCrossings /\ InStep /\ StageInv

LEMMA InitIInv == Init => IInv
<1> SUFFICES ASSUME Init PROVE IInv
  OBVIOUS
<1>1. PP!IInv /\ PP!AlertsAtCrossings
  BY SameSpec, PP!InitIInv, PP!CrossingsInit, ProcessorConstants DEF Init
<1>2. InStep
  <2>1. PICK n \in 0..MaxLines : lines \in [1..n -> P!KpEvents \cup {Invalid}]
    BY DEF Init
  <2>2. lines \in Seq(P!KpEvents \cup {Invalid}) /\ Len(lines) = n /\ n \in Nat
    BY <2>1, EvaluationAssumption, SeqDef, LenProperties
  <2>3. results = <<>> /\ Len(<<>>) = 0
    BY DEF Init, P!Init
  <2> QED
    BY <2>1, <2>2, <2>3, EvaluationAssumption DEF InStep
<1>3. StageInv
  BY DEF Init, StageInv
<1> QED
  BY <1>1, <1>2, <1>3 DEF IInv

\* What the steps after the processing leave alone.
LEMMA Kept ==
  ASSUME IInv, UNCHANGED <<processor, lines>>
  PROVE  /\ PP!IInv' /\ PP!AlertsAtCrossings' /\ InStep'
         /\ UNCHANGED report => Judged' = Judged
         /\ (Complete' <=> Complete) /\ (ValidReplay(lines)' <=> ValidReplay(lines))
         /\ alerts_emitted' = alerts_emitted
         /\ \A expected : Evaluated(expected)' = Evaluated(expected)
<1>1. UNCHANGED PP!vars
  BY DEF processor, PP!vars, PP!counters
<1>2. PP!IInv' /\ PP!AlertsAtCrossings'
  BY <1>1, PP!NextIInv, PP!CrossingsStep, ProcessorConstants DEF IInv
<1>3. results' = results /\ lines' = lines /\ alerts_emitted' = alerts_emitted
  BY DEF processor
<1>4. InStep' /\ (Complete' <=> Complete)
  BY <1>3 DEF IInv, InStep, Complete
<1>5. \A expected : Evaluated(expected)' = Evaluated(expected)
  BY <1>3 DEF Evaluated, Compare
<1>6. UNCHANGED report => Judged' = Judged
  BY <1>3, <1>4, <1>5 DEF Judged
<1> QED
  BY <1>2, <1>3, <1>4, <1>5, <1>6

LEMMA LoadKeepsIInv == IInv /\ Load => IInv'
<1> SUFFICES ASSUME IInv, Load PROVE IInv'
  OBVIOUS
<1>1. PP!IInv' /\ PP!AlertsAtCrossings' /\ InStep'
  BY Kept DEF Load
<1>2. ValidReplay(lines)' <=> ValidReplay(lines)
  BY Kept DEF Load
<1>3. StageInv'
  BY <1>2 DEF IInv, StageInv, Load, Exit
<1> QED
  BY <1>1, <1>3 DEF IInv

LEMMA ProcessNextKeepsIInv == IInv /\ ProcessNext => IInv'
<1> SUFFICES ASSUME IInv, ProcessNext PROVE IInv'
  OBVIOUS
<1> DEFINE n == Len(results)
<1>1. lines \in Seq(P!KpEvents \cup {Invalid}) /\ Len(lines) \in Nat /\ DOMAIN lines = 1..Len(lines)
  BY LenProperties DEF IInv, InStep
<1>2. n \in Nat /\ n < Len(lines) /\ Len(lines) <= MaxLines /\ n < MaxLines
  <2>1. results \in Seq(PP!Results)
    BY DEF IInv, PP!IInv, PP!WindowInv, PP!TypeOK
  <2>2. n \in Nat
    BY <2>1, LenProperties
  <2> QED
    BY <1>1, <2>2, EvaluationAssumption DEF IInv, InStep, ProcessNext
<1>3. ValidReplay(lines) /\ n + 1 \in DOMAIN lines
  BY <1>1, <1>2 DEF IInv, StageInv, ProcessNext
<1>4. lines[n + 1] \in P!KpEvents
  <2>1. lines[n + 1] \in P!KpEvents \cup {Invalid}
    BY <1>1, <1>3, ElementOfSeq
  <2> QED
    BY <1>3, <2>1 DEF ValidReplay
<1>5. /\ PP!IInv' /\ PP!AlertsAtCrossings'
      /\ Len(results') = n + 1
      /\ \A i \in 1..n : results'[i] = results[i]
      /\ results'[n + 1].event = lines[n + 1]
  BY <1>2, <1>4, ProcessStep DEF IInv, ProcessNext
<1>6. InStep'
  <2>1. lines' = lines
    BY DEF ProcessNext
  <2>2. \A i \in 1..(n + 1) : results'[i].event = lines[i]
    <3>1. \A i \in 1..n : results[i].event = lines[i]
      BY DEF IInv, InStep
    <3>2. \A i \in 1..(n + 1) : i \in 1..n \/ i = n + 1
      BY <1>2
    <3> QED
      BY <1>5, <3>1, <3>2
  <2> QED
    BY <1>1, <1>2, <1>5, <2>1, <2>2 DEF InStep
<1>7. StageInv'
  <2>1. UNCHANGED <<lines, pc, report, evaluation, exit_code>> /\ pc = "process"
    BY DEF ProcessNext
  <2>2. ValidReplay(lines)'
    BY <1>3, <2>1
  <2> QED
    BY <2>1, <2>2 DEF IInv, StageInv
<1> QED
  BY <1>5, <1>6, <1>7 DEF IInv

LEMMA BuildKeepsIInv == IInv /\ Build => IInv'
<1> SUFFICES ASSUME IInv, Build PROVE IInv'
  OBVIOUS
<1>1. PP!IInv' /\ PP!AlertsAtCrossings' /\ InStep'
  BY Kept DEF Build
<1>2. Judged'
  <2>1. Complete
    BY DEF Complete, IInv, StageInv, Build
  <2>2. PICK expected \in Labellings : report' = Evaluated(expected)
    BY DEF Build
  <2> QED
    BY <2>1, <2>2, Kept DEF Judged, Build
<1>3. StageInv'
  BY <1>2 DEF IInv, StageInv, Build
<1> QED
  BY <1>1, <1>3 DEF IInv

LEMMA BuildFailsKeepsIInv == IInv /\ BuildFails => IInv'
<1> SUFFICES ASSUME IInv, BuildFails PROVE IInv'
  OBVIOUS
<1>1. PP!IInv' /\ PP!AlertsAtCrossings' /\ InStep'
  BY Kept DEF BuildFails
<1>2. StageInv'
  BY DEF IInv, StageInv, BuildFails, Exit
<1> QED
  BY <1>1, <1>2 DEF IInv

LEMMA WriteKeepsIInv == IInv /\ Write => IInv'
<1> SUFFICES ASSUME IInv, Write PROVE IInv'
  OBVIOUS
<1>1. PP!IInv' /\ PP!AlertsAtCrossings' /\ InStep'
  BY Kept DEF Write
<1>2. Judged /\ Judged'
  BY Kept DEF IInv, StageInv, Write
<1>3. report.overall_passed \in BOOLEAN
  <2>1. PICK expected \in Labellings : report = Evaluated(expected)
    BY <1>2 DEF Judged
  <2>2. report \in Evaluations
    BY <1>2, <2>1, EvaluatedProperties DEF Judged, IInv
  <2> QED
    BY <2>2 DEF Evaluations
<1>4. /\ pc' = "exit" /\ evaluation' = report /\ report' = report
      /\ exit_code' = IF report.overall_passed THEN 0 ELSE 1
  BY DEF Write, Exit
<1>5. CASE report.overall_passed = TRUE
  <2>1. exit_code' = 0
    BY <1>4, <1>5
  <2> QED
    BY <1>1, <1>2, <1>4, <1>5, <2>1 DEF IInv, StageInv
<1>6. CASE report.overall_passed = FALSE
  <2>1. exit_code' = 1
    BY <1>4, <1>6
  <2> QED
    BY <1>1, <1>2, <1>4, <1>6, <2>1 DEF IInv, StageInv
<1> QED
  BY <1>3, <1>5, <1>6

LEMMA WriteFailsKeepsIInv == IInv /\ WriteFails => IInv'
<1> SUFFICES ASSUME IInv, WriteFails PROVE IInv'
  OBVIOUS
<1>1. PP!IInv' /\ PP!AlertsAtCrossings' /\ InStep' /\ Judged'
  BY Kept DEF WriteFails, IInv, StageInv
<1>2. StageInv'
  BY <1>1 DEF IInv, StageInv, WriteFails, Exit
<1> QED
  BY <1>1, <1>2 DEF IInv

LEMMA NextIInv == IInv /\ [Next]_vars => IInv'
<1> SUFFICES ASSUME IInv, [Next]_vars PROVE IInv'
  OBVIOUS
<1>1. ASSUME UNCHANGED vars PROVE IInv'
  <2>1. PP!IInv' /\ PP!AlertsAtCrossings' /\ InStep' /\ (Judged' = Judged)
        /\ (ValidReplay(lines)' <=> ValidReplay(lines))
    BY <1>1, Kept DEF vars
  <2>2. StageInv'
    BY <1>1, <2>1 DEF IInv, StageInv, vars
  <2> QED
    BY <2>1, <2>2 DEF IInv
<1> QED
  BY <1>1, LoadKeepsIInv, ProcessNextKeepsIInv, BuildKeepsIInv, BuildFailsKeepsIInv,
     WriteKeepsIInv, WriteFailsKeepsIInv DEF Next
-----------------------------------------------------------------------------
(* The theorems.                                                           *)

\* The inductive invariant holds in every reachable state (evaluate.py:169-306).
THEOREM EvaluationInvariant == Spec => []IInv
BY InitIInv, NextIInv, PTL DEF Spec

\* An evaluation that passes certifies its labels against the published rule
\* (evaluate.py:186-192, 288-306).
THEOREM PassingCertifiesLabels == Spec => []PassCertifiesLabels
<1>1. IInv => PassCertifiesLabels
  <2> SUFFICES ASSUME IInv, exit_code = 0
               PROVE  LET labels == evaluation.alert_evaluation.expected
                      IN /\ {labels.alerts[i].triggered_at : i \in DOMAIN labels.alerts} = Crossings
                         /\ \A i, j \in DOMAIN labels.alerts :
                              i < j => labels.alerts[i].triggered_at < labels.alerts[j].triggered_at
                         /\ labels.run_counts.messages_consumed = Len(lines)
                         /\ labels.run_counts.unique_events = Cardinality(Readings)
                         /\ labels.run_counts.late_events_skipped = 0
    BY DEF PassCertifiesLabels
  <2>1. Judged /\ evaluation = report /\ report.overall_passed = TRUE
    BY EvaluationAssumption DEF IInv, StageInv
  <2>2. PICK expected \in Labellings : report = Evaluated(expected)
    BY <2>1 DEF Judged
  <2>3. /\ evaluation.alert_evaluation.expected = expected
        /\ expected.run_counts = RunCounts(results)
        /\ expected.alerts = Summaries(AlertsOf(results))
    <3>1. PP!IInv /\ alerts_emitted > 0
      BY <2>1 DEF IInv, Judged
    <3>2. Evaluated(expected).overall_passed
      BY <2>1, <2>2
    <3> QED
      BY <2>1, <2>2, <3>1, <3>2, EvaluatedProperties
  <2>4. PP!IInv /\ PP!AlertsAtCrossings /\ InStep /\ Complete
    BY <2>1 DEF IInv, Judged
  <2> DEFINE labels == evaluation.alert_evaluation.expected
  <2>5. labels.run_counts = RunCounts(results) /\ labels.alerts = Summaries(AlertsOf(results))
    BY <2>3
  <2> HIDE DEF labels
  <2>6. /\ {labels.alerts[i].triggered_at : i \in DOMAIN labels.alerts} = Crossings
        /\ \A i, j \in DOMAIN labels.alerts :
             i < j => labels.alerts[i].triggered_at < labels.alerts[j].triggered_at
        /\ labels.run_counts.messages_consumed = Len(lines)
        /\ labels.run_counts.unique_events = Cardinality(Readings)
        /\ labels.run_counts.late_events_skipped = 0
    BY <2>4, <2>5, AgreeingLabels
  <2> QED
    BY <2>6 DEF labels
<1> QED
  BY <1>1, EvaluationInvariant, PTL

\* The exit code and the summary on disk agree (evaluate.py:248, 300-306).
THEOREM ExitCodeTellsSummary == Spec => []ExitCodeIsSummary
<1>1. IInv => ExitCodeIsSummary
  <2> SUFFICES ASSUME IInv, pc = "exit"
               PROVE  exit_code = 0 <=> evaluation # OldRun /\ evaluation.overall_passed
    BY DEF ExitCodeIsSummary
  <2>1. CASE Judged /\ evaluation = report
    <3>1. report \in Evaluations
      BY <2>1, EvaluatedProperties DEF Judged, IInv
    <3>2. report # OldRun
      BY <3>1, EvaluationAssumption
    <3> QED
      BY <2>1, <3>2 DEF IInv, StageInv
  <2>2. CASE exit_code = 1 /\ evaluation = OldRun
    BY <2>2
  <2> QED
    BY <2>1, <2>2 DEF IInv, StageInv
<1> QED
  BY <1>1, EvaluationInvariant, PTL

\* The decisions of the six cases are the expected ones exactly when the Kp of the
\* last alert is not the 8 of the wrong number and is printed exactly
\* (evaluate.py:61-112, briefing.py:338-339).
THEOREM CasesFitFacts == Spec => []CasesFitTheFacts
<1>1. IInv => CasesFitTheFacts
  <2> SUFFICES ASSUME IInv, report # None PROVE CasesFitTheFacts
    BY DEF CasesFitTheFacts
  <2>1. PP!IInv /\ Judged
    BY DEF IInv, StageInv
  <2>2. PICK expected \in Labellings : report = Evaluated(expected)
    BY <2>1 DEF Judged
  <2> DEFINE alerts == BuildAlertOutput(results).alerts
             facts  == FactsOf(alerts[Len(alerts)])
  <2>3. /\ facts \in PeakFacts
        /\ report.ai_cases_passed = {c \in CaseNames : CaseMatches(DefaultCases(facts)[c], facts)}
    BY <2>1, <2>2, EvaluatedProperties DEF Judged
  <2> HIDE DEF facts
  <2>4. report.ai_cases_passed = DOMAIN DefaultCases(facts)
          <=> /\ 8 * KpUnit \notin ApprovedNumbers(facts)
              /\ \A kp \in ApprovedNumbers(facts) : kp % Digit = 0
    BY <2>3, FittingFacts
  <2> QED
    BY <2>4 DEF CasesFitTheFacts, facts
<1> QED
  BY <1>1, EvaluationInvariant, PTL
=============================================================================
