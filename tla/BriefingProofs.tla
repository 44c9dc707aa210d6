--------------------------- MODULE BriefingProofs ---------------------------
(***************************************************************************)
(* Briefing for any number of requests, any alerts and any answers of the  *)
(* model.                                                                  *)
(***************************************************************************)
EXTENDS Briefing, TLAPS
-----------------------------------------------------------------------------
(* What generate_briefing returns.                                         *)

Texts       == Responses \cup {DeterministicBriefing(f) : f \in Facts \cup {None}}
\* The command line of the demo, which does not ask, gets what no answer gives.
Generations == {GenerateBriefing(f, TRUE, response) :
                  f \in Facts \cup {None}, response \in Responses \cup {None}}

\* A text that passes the six checks stays within the AI boundary.
LEMMA AcceptedIsWithinBoundary ==
  ASSUME NEW c, NEW f, f # None, Accepted(ValidateBriefing(c, f))
  PROVE  WithinBoundary(c, f) /\ c.nonempty
<1> DEFINE checks == ValidateBriefing(c, f)
<1>1. DOMAIN checks = {"nonempty", "sentence_limit", "risk_label", "approved_numbers",
                       "approved_timestamps", "unsupported_details"}
  BY DEF ValidateBriefing
<1>2. /\ checks["nonempty"] /\ checks["sentence_limit"] /\ checks["risk_label"]
      /\ checks["approved_numbers"] /\ checks["approved_timestamps"]
      /\ checks["unsupported_details"]
  <2> HIDE DEF checks
  <2>1. Accepted(checks)
    BY DEF checks
  <2> QED
    BY <1>1, <2>1 DEF Accepted
<1>3. c.nonempty
  BY <1>2 DEF ValidateBriefing
<1>4. SentenceCount(c) <= 2
  BY <1>2 DEF ValidateBriefing
<1>5. LabelCheck(c)
  BY <1>2 DEF ValidateBriefing
<1>6. NumberCheck(c, f)
  BY <1>2 DEF ValidateBriefing
<1>7. TimestampCheck(c, f)
  BY <1>2 DEF ValidateBriefing
<1>8. c.details = {}
  BY <1>2 DEF ValidateBriefing
<1>9. c.ends <= 2
  BY <1>4 DEF SentenceCount
<1> QED
  BY <1>3, <1>5, <1>6, <1>7, <1>8, <1>9 DEF WithinBoundary, LabelCheck, NumberCheck,
     TimestampCheck, ApprovedNumbers, ApprovedTimestamps

\* Whatever the model answers, the text tells the facts; the answer is kept as the
\* candidate.
LEMMA GenerationFields ==
  ASSUME NEW f \in Facts \cup {None}, NEW live, NEW response \in Responses \cup {None}
  PROVE  LET g == GenerateBriefing(f, live, response)
         IN  /\ g.text \in Texts /\ g.text.nonempty /\ g.text # NoFile
             /\ Tells(g.text, f)
             /\ g.candidate \in Responses \cup {None}
             /\ g.source = "model" => g.candidate # None /\ g.candidate = g.text
<1> DEFINE g == GenerateBriefing(f, live, response)
           d == DeterministicBriefing(f)
           checks == ValidateBriefing(response, f)
<1>1. d \in Texts /\ d.nonempty /\ d # NoFile /\ Tells(d, f)
  BY BriefingAssumption DEF Texts, Tells, DeterministicBriefing
<1> HIDE DEF d
<1>2. CASE ~ live \/ f = None \/ response = None
  <2>1. g.text = d /\ g.candidate = None /\ g.source = "fallback"
    BY <1>2 DEF GenerateBriefing, Fallback, d
  <2> QED
    BY <1>1, <2>1
<1>3. CASE ~ (~ live \/ f = None \/ response = None) /\ Accepted(checks)
  <2>1. g.text = response /\ g.candidate = response
    BY <1>3 DEF GenerateBriefing
  <2>2. WithinBoundary(response, f) /\ response.nonempty
    BY <1>3, AcceptedIsWithinBoundary
  <2> QED
    BY <1>3, <2>1, <2>2, BriefingAssumption DEF Texts, Tells
<1>4. CASE ~ (~ live \/ f = None \/ response = None) /\ ~ Accepted(checks)
  <2>1. g.text = d /\ g.candidate = response /\ g.source = "fallback"
    BY <1>4 DEF GenerateBriefing, Fallback, d
  <2> QED
    BY <1>1, <2>1
<1> QED
  BY <1>2, <1>3, <1>4
-----------------------------------------------------------------------------
(* The inductive invariant.                                                *)

Contents == {NoFile, Whole, None} \cup Facts \cup Texts

\* Every variable has its type.
TypeOK ==
  /\ files \in [FileNames -> Contents]
  /\ files["alert.json"] \in Facts \cup {None, NoFile}
  /\ files["briefing.txt"] \in Texts \cup {NoFile}
  /\ pc \in [Writers -> {"idle", "load", "generate", "write", "candidate", "done", "failed"}]
  /\ facts \in [Writers -> Facts \cup {None, NoFile}]
  /\ generation \in [Writers -> Generations \cup {None}]
  /\ demo \in {"idle", "stream", "metrics", "brief", "verify", "passed", "failed"}
  /\ page \in {"idle", "exists", "read", "200", "500"} /\ reading \in 1..4
  /\ faults \in [{"demo", "ui"} -> Nat]
  /\ during \in [Writers -> SUBSET (Facts \cup {None, NoFile})]
  /\ lone \in Requests \cup {None}
  /\ removed \in BOOLEAN

\* No blank text ever becomes briefing.txt.
NeverBlank == files["briefing.txt"] # NoFile => files["briefing.txt"].nonempty

\* What a writer at work holds: facts that alert.json had since it began, and what
\* was generated from them.
WritersSound ==
  \A w \in Writers :
    /\ AtWork(w) => files["alert.json"] \in during[w]
    /\ pc[w] \in {"generate", "write", "candidate"} => facts[w] \in during[w] \ {NoFile}
    /\ pc[w] \in {"write", "candidate"} =>
         \E response \in Responses \cup {None} :
           generation[w] = GenerateBriefing(facts[w], w \in Requests, response)

\* A request that nothing came across is the only one at work, and the first of its
\* files is the one it wrote.
LoneSound ==
  \A r \in Requests :
    lone = r =>
      /\ \A w \in Writers : AtWork(w) => w = r
      /\ pc[r] = "candidate" => files["briefing.txt"] = generation[r].text

\* What run_demo.sh finds when it goes on: nobody but itself removes an artifact.
DemoSound ==
  /\ demo \in {"idle", "stream", "metrics"} => pc[CLI] = "idle"
  /\ pc[CLI] # "candidate" /\ (AtWork(CLI) => demo = "brief")
  /\ pc[CLI] = "failed" => faults["demo"] > 0
  /\ demo \in {"metrics", "brief", "verify"} => files["alert.json"] # NoFile
  /\ demo \in {"brief", "verify"} => files["metrics.csv"] # NoFile
  /\ demo = "verify" \/ (demo = "brief" /\ pc[CLI] = "done") => files["briefing.txt"] # NoFile
  /\ demo = "verify" => files["evaluation.json"] # NoFile
  /\ DemoNotGated

\* The file a page is about to read is there unless the demo removed it, which it
\* does once.
PageSound ==
  /\ removed => demo # "idle"
  /\ page = "read" => files[Artifacts[reading]] # NoFile \/ removed
  /\ PageFailsOnlyByRemoval

IInv ==
  /\ TypeOK
  /\ NeverBlank
  /\ WritersSound
  /\ LoneSound
  /\ DemoSound
  /\ PageSound
-----------------------------------------------------------------------------
(* The names of the files.                                                 *)

LEMMA FileNamesProperties ==
  /\ DOMAIN Artifacts = 1..4 /\ Len(Artifacts) = 4
  /\ Artifacts[1] = "alert.json" /\ Artifacts[2] = "metrics.csv"
  /\ Artifacts[3] = "briefing.txt" /\ Artifacts[4] = "evaluation.json"
  /\ FileNames = {"alert.json", "metrics.csv", "briefing.txt", "evaluation.json", Candidate}
  /\ \A i \in 1..4 : Artifacts[i] \in FileNames /\ Artifacts[i] # Candidate
<1>1. /\ DOMAIN Artifacts = 1..4 /\ Len(Artifacts) = 4
      /\ Artifacts[1] = "alert.json" /\ Artifacts[2] = "metrics.csv"
      /\ Artifacts[3] = "briefing.txt" /\ Artifacts[4] = "evaluation.json"
  BY DEF Artifacts
<1>2. \A i \in 1..4 : i = 1 \/ i = 2 \/ i = 3 \/ i = 4
  OBVIOUS
<1>3. 1 \in 1..4 /\ 2 \in 1..4 /\ 3 \in 1..4 /\ 4 \in 1..4
  OBVIOUS
<1>4. FileNames = {"alert.json", "metrics.csv", "briefing.txt", "evaluation.json", Candidate}
  BY <1>1, <1>2, <1>3 DEF FileNames
<1> QED
  BY <1>1, <1>2, <1>4 DEF Candidate

LEMMA WriterNames ==
  /\ CLI \in Writers /\ CLI \notin Requests /\ None \notin Requests
  /\ \A w \in Writers : w \in Requests \/ w = CLI
  /\ \A r \in Requests : r \in Writers /\ r # CLI
  BY BriefingAssumption DEF Writers
-----------------------------------------------------------------------------
(* The steps of a writer.                                                  *)

LEMMA PostKeepsIInv == ASSUME IInv, NEW r \in Requests, Post(r) PROVE IInv'
<1>0. /\ TypeOK /\ r \in Writers /\ r # CLI /\ pc[r] = "idle"
      /\ \A w \in Writers : pc'[w] = IF w = r THEN "load" ELSE pc[w]
      /\ \A w \in Writers : during'[w] = IF w = r THEN {files["alert.json"]} ELSE during[w]
      /\ lone' \in {r, None} /\ (lone' = r => ~ \E v \in Writers : AtWork(v))
      /\ UNCHANGED <<files, facts, generation, demo, page, reading, faults, removed>>
  BY WriterNames DEF IInv, Post, Begin, TypeOK, browser
<1>1. TypeOK'
  BY <1>0 DEF Post, Begin, TypeOK
<1>2. NeverBlank' /\ PageSound'
  BY <1>0 DEF IInv, NeverBlank, PageSound, PageFailsOnlyByRemoval
<1>3. WritersSound'
  BY <1>0 DEF IInv, WritersSound, AtWork
<1>4. LoneSound'
  BY <1>0, WriterNames DEF LoneSound, AtWork
<1>5. DemoSound'
  BY <1>0, WriterNames DEF IInv, DemoSound, DemoNotGated, AtWork
<1> QED
  BY <1>1, <1>2, <1>3, <1>4, <1>5 DEF IInv

LEMMA LoadFactsKeepsIInv == ASSUME IInv, NEW v \in Writers, LoadFacts(v) PROVE IInv'
<1>0. /\ TypeOK /\ pc[v] = "load" /\ files["alert.json"] \in Facts \cup {None}
      /\ files["alert.json"] # NoFile
      /\ \A w \in Writers : pc'[w] = IF w = v THEN "generate" ELSE pc[w]
      /\ \A w \in Writers : facts'[w] = IF w = v THEN files["alert.json"] ELSE facts[w]
      /\ UNCHANGED <<files, generation, demo, page, reading, faults, during, lone, removed>>
  BY DEF IInv, LoadFacts, TypeOK, browser, history
<1>1. TypeOK'
  BY <1>0 DEF LoadFacts, TypeOK
<1>2. NeverBlank' /\ PageSound'
  BY <1>0 DEF IInv, NeverBlank, PageSound, PageFailsOnlyByRemoval
<1>3. WritersSound'
  BY <1>0 DEF IInv, WritersSound, AtWork
<1>4. LoneSound'
  BY <1>0, WriterNames DEF IInv, LoneSound, AtWork
<1>5. DemoSound'
  BY <1>0, WriterNames DEF IInv, DemoSound, DemoNotGated, AtWork
<1> QED
  BY <1>1, <1>2, <1>3, <1>4, <1>5 DEF IInv

LEMMA GenerateKeepsIInv == ASSUME IInv, NEW v \in Writers, Generate(v) PROVE IInv'
<1>0. PICK response \in Responses \cup {None} :
        generation' = [generation EXCEPT ![v] =
                         GenerateBriefing(facts[v], v \in Requests, response)]
  BY DEF Generate
<1> DEFINE g == GenerateBriefing(facts[v], v \in Requests, response)
<1>1. /\ TypeOK /\ pc[v] = "generate"
      /\ facts[v] \in Facts \cup {None}
      /\ \A w \in Writers : pc'[w] = IF w = v THEN "write" ELSE pc[w]
      /\ \A w \in Writers : generation'[w] = IF w = v THEN g ELSE generation[w]
      /\ UNCHANGED <<files, facts, demo, page, reading, faults, during, lone, removed>>
  BY <1>0 DEF IInv, Generate, TypeOK, browser, history, WritersSound
<1>2. g \in Generations
  <2>1. \E a \in Responses \cup {None} : g = GenerateBriefing(facts[v], TRUE, a)
    <3>1. CASE v \in Requests
      <4>1. g = GenerateBriefing(facts[v], TRUE, response)
        BY <3>1 DEF GenerateBriefing
      <4> QED
        BY <4>1
    <3>2. CASE v \notin Requests
      <4>1. g = GenerateBriefing(facts[v], TRUE, None)
        BY <3>2 DEF GenerateBriefing
      <4> QED
        BY <4>1
    <3> QED
      BY <3>1, <3>2
  <2>2. facts[v] \in Facts \cup {None}
    BY <1>1
  <2>3. \A f \in Facts \cup {None}, a \in Responses \cup {None} :
          GenerateBriefing(f, TRUE, a) \in Generations
    <3> DEFINE G(f, a) == GenerateBriefing(f, TRUE, a)
    <3>1. Generations = {G(f, a) : f \in Facts \cup {None}, a \in Responses \cup {None}}
      BY DEF Generations
    <3> HIDE DEF G
    <3>2. \A f \in Facts \cup {None}, a \in Responses \cup {None} : G(f, a) \in Generations
      BY <3>1
    <3> QED
      BY <3>2 DEF G
  <2> HIDE DEF g
  <2> QED
    BY <2>1, <2>2, <2>3, Zenon
<1> HIDE DEF g
<1>3. TypeOK'
  BY <1>0, <1>1, <1>2 DEF Generate, TypeOK, g
<1>4. NeverBlank' /\ PageSound'
  BY <1>1 DEF IInv, NeverBlank, PageSound, PageFailsOnlyByRemoval
<1>5. WritersSound'
  <2> SUFFICES ASSUME NEW w \in Writers
               PROVE  /\ AtWork(w)' => files["alert.json"] \in during[w]
                      /\ pc'[w] \in {"generate", "write", "candidate"} =>
                           facts[w] \in during[w] \ {NoFile}
                      /\ pc'[w] \in {"write", "candidate"} =>
                           \E a \in Responses \cup {None} :
                             generation'[w] = GenerateBriefing(facts[w], w \in Requests, a)
    BY <1>1 DEF WritersSound
  <2>1. CASE w = v
    BY <1>1, <2>1 DEF IInv, WritersSound, AtWork, g
  <2>2. CASE w # v
    BY <1>1, <2>2 DEF IInv, WritersSound, AtWork
  <2> QED
    BY <2>1, <2>2
<1>6. LoneSound'
  BY <1>1, WriterNames DEF IInv, LoneSound, AtWork
<1>7. DemoSound'
  BY <1>1, WriterNames DEF IInv, DemoSound, DemoNotGated, AtWork
<1> QED
  BY <1>3, <1>4, <1>5, <1>6, <1>7 DEF IInv

\* A writer that ends, whatever it did to the candidate file.
LEMMA EndKeepsIInv ==
  ASSUME IInv, NEW v \in Writers, NEW outcome \in {"done", "failed"}, End(v, outcome),
         AtWork(v), NEW c \in Contents,
         \/ files' = files
         \/ files' = [files EXCEPT ![Candidate] = c]
         \/ /\ files' = [files EXCEPT !["briefing.txt"] = c] /\ v = CLI
            /\ c \in Texts /\ c # NoFile /\ c.nonempty,
         v = CLI /\ outcome = "done" => files'["briefing.txt"] # NoFile,
         v = CLI /\ outcome = "failed" => faults'["demo"] > 0,
         faults' \in [{"demo", "ui"} -> Nat], faults'["demo"] >= faults["demo"],
         UNCHANGED <<demo, page, reading, lone, removed>>
  PROVE  IInv'
<1>0. /\ TypeOK
      /\ \A w \in Writers : pc'[w] = IF w = v THEN outcome ELSE pc[w]
      /\ \A w \in Writers : facts'[w] = IF w = v THEN NoFile ELSE facts[w]
      /\ \A w \in Writers : generation'[w] = IF w = v THEN None ELSE generation[w]
      /\ \A w \in Writers : during'[w] = IF w = v THEN {} ELSE during[w]
  BY DEF IInv, End, TypeOK
<1>f. /\ files' \in [FileNames -> Contents]
      /\ files'["alert.json"] = files["alert.json"]
      /\ files'["metrics.csv"] = files["metrics.csv"]
      /\ files'["evaluation.json"] = files["evaluation.json"]
      /\ v # CLI => files'["briefing.txt"] = files["briefing.txt"]
      /\ files["briefing.txt"] # NoFile => files'["briefing.txt"] # NoFile
      /\ files'["briefing.txt"] \in Texts \cup {NoFile}
      /\ files'["briefing.txt"] # NoFile => files'["briefing.txt"].nonempty
  <2>1. /\ files \in [FileNames -> Contents] /\ files["briefing.txt"] \in Texts \cup {NoFile}
        /\ files["briefing.txt"] # NoFile => files["briefing.txt"].nonempty
    BY <1>0 DEF IInv, TypeOK, NeverBlank
  <2>2. \A name \in FileNames :
          \/ files'[name] = files[name]
          \/ name = Candidate
          \/ /\ name = "briefing.txt" /\ v = CLI /\ files'[name] = c
             /\ c \in Texts /\ c # NoFile /\ c.nonempty
    BY <2>1
  <2>3. files' \in [FileNames -> Contents]
    BY <2>1
  <2> QED
    BY <2>1, <2>2, <2>3, FileNamesProperties DEF Candidate
<1>1. TypeOK'
  BY <1>0, <1>f DEF End, TypeOK
<1>2. NeverBlank'
  BY <1>f DEF NeverBlank
<1>3. PageSound'
  <2>1. \A i \in 1..4 : files[Artifacts[i]] # NoFile => files'[Artifacts[i]] # NoFile
    <3>1. \A i \in 1..4 : i = 1 \/ i = 2 \/ i = 3 \/ i = 4
      OBVIOUS
    <3> QED
      BY <1>f, <3>1, FileNamesProperties
  <2> QED
    BY <1>0, <2>1 DEF IInv, PageSound, PageFailsOnlyByRemoval, TypeOK
<1>4. WritersSound'
  BY <1>0, <1>f DEF IInv, WritersSound, AtWork
<1>5. LoneSound'
  BY <1>0, <1>f, WriterNames DEF IInv, LoneSound, AtWork
<1>6. DemoSound'
  BY <1>0, <1>f, WriterNames DEF IInv, DemoSound, DemoNotGated, AtWork, TypeOK
<1> QED
  BY <1>1, <1>2, <1>3, <1>4, <1>5, <1>6 DEF IInv

LEMMA LoadFailsKeepsIInv == ASSUME IInv, NEW v \in Writers, LoadFails(v) PROVE IInv'
<1>1. /\ End(v, "failed") /\ AtWork(v) /\ files' = files /\ v # CLI
      /\ UNCHANGED <<demo, page, reading, faults, lone, removed>>
  BY DEF LoadFails, IInv, DemoSound, AtWork, browser
<1>2. faults' \in [{"demo", "ui"} -> Nat] /\ faults'["demo"] >= faults["demo"] /\ NoFile \in Contents
  BY <1>1 DEF IInv, TypeOK, Contents
<1> QED
  BY <1>1, <1>2, EndKeepsIInv

LEMMA WriteFailsKeepsIInv == ASSUME IInv, NEW v \in Writers, WriteFails(v) PROVE IInv'
<1>1. /\ End(v, "failed") /\ AtWork(v) /\ files' = files
      /\ UNCHANGED <<demo, page, reading, lone, removed>>
  BY DEF WriteFails, AtWork, browser
<1>2. /\ faults' \in [{"demo", "ui"} -> Nat] /\ faults'["demo"] >= faults["demo"]
      /\ v = CLI => faults'["demo"] > 0
      /\ NoFile \in Contents
  BY DEF WriteFails, Fault, IInv, TypeOK, Contents
<1> QED
  BY <1>1, <1>2, EndKeepsIInv

\* What a writer has generated.
LEMMA GenerationOfWriter ==
  ASSUME IInv, NEW v \in Writers, pc[v] \in {"write", "candidate"}
  PROVE  /\ facts[v] \in during[v] \ {NoFile}
         /\ generation[v].text \in Texts /\ generation[v].text.nonempty
         /\ generation[v].text # NoFile
         /\ Tells(generation[v].text, facts[v])
         /\ generation[v].candidate \in Responses \cup {None}
         /\ generation[v].source = "model" =>
              generation[v].candidate # None /\ generation[v].candidate = generation[v].text
<1>1. PICK response \in Responses \cup {None} :
        generation[v] = GenerateBriefing(facts[v], v \in Requests, response)
  BY DEF IInv, WritersSound
<1>2. facts[v] \in during[v] \ {NoFile} /\ facts[v] \in Facts \cup {None}
  BY DEF IInv, WritersSound, TypeOK
<1> QED
  BY <1>1, <1>2, GenerationFields

LEMMA WriteBriefingKeepsIInv ==
  ASSUME IInv, NEW v \in Writers, WriteBriefing(v) PROVE IInv'
<1> DEFINE t == generation[v].text
<1>0. /\ pc[v] = "write" /\ AtWork(v) /\ files' = [files EXCEPT !["briefing.txt"] = t]
      /\ t \in Texts /\ t.nonempty /\ t # NoFile /\ t \in Contents
      /\ UNCHANGED <<demo, page, reading, faults, lone, removed>>
  BY GenerationOfWriter DEF WriteBriefing, AtWork, browser, Contents
<1>1. CASE v \notin Requests
  <2>1. v = CLI /\ End(v, "done")
    BY <1>1, WriterNames DEF WriteBriefing
  <2>2. faults' \in [{"demo", "ui"} -> Nat] /\ faults'["demo"] >= faults["demo"]
    BY <1>0 DEF IInv, TypeOK
  <2>3. files'["briefing.txt"] = t
    BY <1>0, FileNamesProperties DEF IInv, TypeOK
  <2> HIDE DEF t
  <2> QED
    BY <1>0, <2>1, <2>2, <2>3, EndKeepsIInv
<1>2. CASE v \in Requests
  <2>1. /\ TypeOK
        /\ \A w \in Writers : pc'[w] = IF w = v THEN "candidate" ELSE pc[w]
        /\ UNCHANGED <<facts, generation, during>>
    BY <1>2 DEF IInv, TypeOK, WriteBriefing
  <2>2. /\ files' \in [FileNames -> Contents] /\ files'["briefing.txt"] = t
        /\ files'["alert.json"] = files["alert.json"]
        /\ files'["metrics.csv"] = files["metrics.csv"]
        /\ files'["evaluation.json"] = files["evaluation.json"]
    <3> HIDE DEF t
    <3> QED
      BY <1>0, <2>1, FileNamesProperties DEF TypeOK
  <2>3. TypeOK'
    <3>1. pc' = [pc EXCEPT ![v] = "candidate"]
      BY <1>2 DEF WriteBriefing
    <3> QED
      BY <1>0, <2>1, <2>2, <3>1 DEF TypeOK
  <2>4. NeverBlank'
    BY <1>0, <2>2 DEF NeverBlank
  <2>5. PageSound'
    <3>1. \A i \in 1..4 : files[Artifacts[i]] # NoFile => files'[Artifacts[i]] # NoFile
      <4>1. \A i \in 1..4 : i = 1 \/ i = 2 \/ i = 3 \/ i = 4
        OBVIOUS
      <4> QED
        BY <1>0, <2>2, <4>1, FileNamesProperties
    <3> QED
      BY <1>0, <2>1, <3>1 DEF IInv, PageSound, PageFailsOnlyByRemoval, TypeOK
  <2>6. WritersSound'
    BY <1>0, <2>1, <2>2 DEF IInv, WritersSound, AtWork
  <2>7. LoneSound'
    BY <1>0, <2>1, <2>2, WriterNames DEF IInv, LoneSound, AtWork
  <2>8. DemoSound'
    BY <1>0, <1>2, <2>1, <2>2, WriterNames DEF IInv, DemoSound, DemoNotGated, AtWork
  <2> QED
    BY <2>3, <2>4, <2>5, <2>6, <2>7, <2>8 DEF IInv
<1> QED
  BY <1>1, <1>2

LEMMA WriteCandidateKeepsIInv ==
  ASSUME IInv, NEW v \in Writers, WriteCandidate(v) PROVE IInv'
<1> DEFINE c == IF generation[v].candidate = None THEN NoFile ELSE generation[v].candidate
<1>0. /\ pc[v] = "candidate" /\ AtWork(v) /\ files' = [files EXCEPT ![Candidate] = c]
      /\ End(v, "done")
      /\ UNCHANGED <<demo, page, reading, faults, lone, removed>>
  BY DEF WriteCandidate, AtWork, browser
<1>1. c \in Contents
  BY <1>0, GenerationOfWriter DEF Contents, Texts
<1>2. faults' \in [{"demo", "ui"} -> Nat] /\ faults'["demo"] >= faults["demo"]
  BY <1>0 DEF IInv, TypeOK
<1>3. v # CLI
  BY <1>0 DEF IInv, DemoSound
<1> HIDE DEF c
<1> QED
  BY <1>0, <1>1, <1>2, <1>3, EndKeepsIInv
-----------------------------------------------------------------------------
(* The page and the demo script.                                           *)

\* The page only reads.
LEMMA PageKeepsIInv == IInv /\ Page => IInv'
<1> SUFFICES ASSUME IInv, Page PROVE IInv'
  OBVIOUS
<1>0. /\ TypeOK /\ reading \in 1..4
      /\ UNCHANGED <<files, pc, facts, generation, demo, faults, during, lone>>
      /\ page' \in {"idle", "exists", "read", "200", "500"} /\ reading' \in 1..4
      /\ removed' \in BOOLEAN
  <2>1. TypeOK /\ reading \in 1..4
    BY DEF IInv, TypeOK
  <2>2. PageAdvances => page' \in {"exists", "200"} /\ reading' \in 1..4
    BY <2>1, FileNamesProperties DEF PageAdvances
  <2>3. CASE OpenPage
    <3>1. removed' \in BOOLEAN
      BY <2>3, Zenon DEF OpenPage
    <3>2. page' = "exists" /\ reading' = 1
      BY <2>3 DEF OpenPage
    <3>3. UNCHANGED <<files, pc, facts, generation, demo, faults, during, lone>>
      BY <2>3 DEF OpenPage, briefing
    <3> QED
      BY <2>1, <3>1, <3>2, <3>3
  <2>4. CASE PageExists
    BY <2>1, <2>2, <2>4 DEF PageExists, briefing, history, TypeOK
  <2>5. CASE PageReads
    BY <2>1, <2>2, <2>5 DEF PageReads, briefing, history, TypeOK
  <2> QED
    BY <2>3, <2>4, <2>5 DEF Page
<1>1. TypeOK'
  BY <1>0 DEF TypeOK
<1>2. NeverBlank' /\ WritersSound' /\ LoneSound' /\ DemoSound'
  BY <1>0 DEF IInv, NeverBlank, WritersSound, LoneSound, DemoSound, DemoNotGated, AtWork
<1>3. PageSound'
  <2>1. CASE OpenPage
    BY <1>0, <2>1 DEF OpenPage, PageSound, PageFailsOnlyByRemoval
  <2>2. CASE PageExists
    BY <1>0, <2>2 DEF PageExists, PageAdvances, history, IInv, PageSound, PageFailsOnlyByRemoval
  <2>3. CASE PageReads
    BY <1>0, <2>3 DEF PageReads, PageAdvances, history, IInv, PageSound, PageFailsOnlyByRemoval
  <2> QED
    BY <2>1, <2>2, <2>3 DEF Page
<1> QED
  BY <1>1, <1>2, <1>3 DEF IInv

LEMMA RemoveKeepsIInv == IInv /\ Remove => IInv'
<1> SUFFICES ASSUME IInv, Remove PROVE IInv'
  OBVIOUS
<1>0. /\ TypeOK /\ demo = "idle" /\ demo' = "stream"
      /\ lone' = None /\ removed' = (page \in {"exists", "read"})
      /\ \A w \in Writers :
           during'[w] = IF AtWork(w) THEN during[w] \cup {NoFile} ELSE during[w]
      /\ UNCHANGED <<pc, facts, generation, page, reading, faults>>
  BY DEF IInv, Remove, briefing, browser
<1>1. /\ files' \in [FileNames -> Contents]
      /\ files'["alert.json"] = NoFile /\ files'["briefing.txt"] = NoFile
  BY <1>0, FileNamesProperties DEF Remove, TypeOK, Contents, Candidate
<1>2. during' \in [Writers -> SUBSET (Facts \cup {None, NoFile})]
  BY <1>0 DEF Remove, TypeOK
<1>3. TypeOK'
  BY <1>0, <1>1, <1>2 DEF TypeOK
<1>4. NeverBlank'
  BY <1>1 DEF NeverBlank
<1>5. WritersSound'
  BY <1>0, <1>1 DEF IInv, WritersSound, AtWork
<1>6. LoneSound'
  BY <1>0, WriterNames DEF LoneSound
<1>7. DemoSound'
  BY <1>0, WriterNames DEF IInv, DemoSound, DemoNotGated, AtWork
<1>8. PageSound'
  <2>1. CASE page \in {"exists", "read"}
    BY <1>0, <2>1 DEF PageSound, PageFailsOnlyByRemoval
  <2>2. CASE page \notin {"exists", "read"}
    BY <1>0, <2>2 DEF IInv, PageSound, PageFailsOnlyByRemoval
  <2> QED
    BY <2>1, <2>2
<1> QED
  BY <1>3, <1>4, <1>5, <1>6, <1>7, <1>8 DEF IInv

LEMMA WriteAlertKeepsIInv == IInv /\ WriteAlert => IInv'
<1> SUFFICES ASSUME IInv, WriteAlert PROVE IInv'
  OBVIOUS
<1>0. PICK f \in Facts \cup {None} :
        /\ files' = [files EXCEPT !["alert.json"] = f]
        /\ during' = [w \in Writers |->
                        IF AtWork(w) THEN during[w] \cup {f} ELSE during[w]]
  BY DEF WriteAlert
<1>1. /\ TypeOK /\ demo = "stream" /\ demo' = "metrics" /\ f # NoFile
      /\ \A w \in Writers : during'[w] = IF AtWork(w) THEN during[w] \cup {f} ELSE during[w]
      /\ UNCHANGED <<pc, facts, generation, page, reading, faults, lone, removed>>
  BY <1>0, BriefingAssumption DEF IInv, WriteAlert, briefing, browser
<1>2. /\ files' \in [FileNames -> Contents] /\ files'["alert.json"] = f
      /\ \A name \in FileNames : name # "alert.json" => files'[name] = files[name]
      /\ files'["briefing.txt"] = files["briefing.txt"]
  BY <1>0, <1>1, FileNamesProperties DEF TypeOK, Contents
<1>3. during' \in [Writers -> SUBSET (Facts \cup {None, NoFile})]
  BY <1>0, <1>1 DEF TypeOK
<1>4. TypeOK'
  BY <1>1, <1>2, <1>3 DEF TypeOK
<1>5. NeverBlank'
  BY <1>2 DEF IInv, NeverBlank
<1>6. WritersSound'
  BY <1>1, <1>2 DEF IInv, WritersSound, AtWork
<1>7. LoneSound'
  BY <1>1, <1>2 DEF IInv, LoneSound, AtWork
<1>8. DemoSound'
  BY <1>1, <1>2, WriterNames DEF IInv, DemoSound, DemoNotGated, AtWork
<1>9. PageSound'
  <2>1. \A i \in 1..4 : files[Artifacts[i]] # NoFile => files'[Artifacts[i]] # NoFile
    BY <1>1, <1>2, FileNamesProperties
  <2> QED
    BY <1>1, <2>1 DEF IInv, PageSound, PageFailsOnlyByRemoval, TypeOK
<1> QED
  BY <1>4, <1>5, <1>6, <1>7, <1>8, <1>9 DEF IInv

LEMMA WriteMetricsKeepsIInv == IInv /\ WriteMetrics => IInv'
<1> SUFFICES ASSUME IInv, WriteMetrics PROVE IInv'
  OBVIOUS
<1>0. /\ TypeOK /\ demo = "metrics" /\ demo' = "brief"
      /\ files' = [files EXCEPT !["metrics.csv"] = Whole]
      /\ pc' = [pc EXCEPT ![CLI] = "load"]
      /\ during' = [during EXCEPT ![CLI] = {files["alert.json"]}]
      /\ lone' = None
      /\ UNCHANGED <<facts, generation, page, reading, faults, removed>>
  BY WriterNames DEF IInv, WriteMetrics, Begin, browser
<1>1. /\ \A w \in Writers : pc'[w] = IF w = CLI THEN "load" ELSE pc[w]
      /\ \A w \in Writers : during'[w] = IF w = CLI THEN {files["alert.json"]} ELSE during[w]
  BY <1>0 DEF TypeOK
<1>2. /\ files' \in [FileNames -> Contents] /\ files'["metrics.csv"] = Whole
      /\ \A name \in FileNames : name # "metrics.csv" => files'[name] = files[name]
      /\ files'["briefing.txt"] = files["briefing.txt"]
      /\ files'["alert.json"] = files["alert.json"]
      /\ Whole # NoFile
  BY <1>0, BriefingAssumption, FileNamesProperties DEF TypeOK, Contents
<1>3. TypeOK'
  BY <1>0, <1>2 DEF TypeOK
<1>4. NeverBlank'
  BY <1>2 DEF IInv, NeverBlank
<1>5. WritersSound'
  BY <1>0, <1>1, <1>2 DEF IInv, WritersSound, AtWork
<1>6. LoneSound'
  BY <1>0, WriterNames DEF LoneSound
<1>7. DemoSound'
  BY <1>0, <1>1, <1>2, WriterNames DEF IInv, DemoSound, DemoNotGated, AtWork
<1>8. PageSound'
  <2>1. \A i \in 1..4 : files[Artifacts[i]] # NoFile => files'[Artifacts[i]] # NoFile
    BY <1>2, FileNamesProperties
  <2> QED
    BY <1>0, <2>1 DEF IInv, PageSound, PageFailsOnlyByRemoval, TypeOK
<1> QED
  BY <1>3, <1>4, <1>5, <1>6, <1>7, <1>8 DEF IInv

LEMMA EvaluateKeepsIInv == IInv /\ Evaluate => IInv'
<1> SUFFICES ASSUME IInv, Evaluate PROVE IInv'
  OBVIOUS
<1>0. /\ TypeOK /\ demo = "brief" /\ pc[CLI] = "done" /\ demo' = "verify"
      /\ files' = [files EXCEPT !["evaluation.json"] = Whole]
      /\ UNCHANGED <<pc, facts, generation, page, reading, faults, during, lone, removed>>
  BY DEF IInv, Evaluate, briefing, browser, history
<1>1. /\ files' \in [FileNames -> Contents] /\ files'["evaluation.json"] = Whole
      /\ \A name \in FileNames : name # "evaluation.json" => files'[name] = files[name]
      /\ files'["briefing.txt"] = files["briefing.txt"]
      /\ files'["alert.json"] = files["alert.json"]
      /\ files'["metrics.csv"] = files["metrics.csv"]
      /\ Whole # NoFile
  BY <1>0, BriefingAssumption, FileNamesProperties DEF TypeOK, Contents
<1>2. TypeOK'
  BY <1>0, <1>1 DEF TypeOK
<1>3. NeverBlank' /\ WritersSound' /\ LoneSound'
  BY <1>0, <1>1 DEF IInv, NeverBlank, WritersSound, LoneSound, AtWork
<1>4. DemoSound'
  BY <1>0, <1>1 DEF IInv, DemoSound, DemoNotGated, AtWork
<1>5. PageSound'
  <2>1. \A i \in 1..4 : files[Artifacts[i]] # NoFile => files'[Artifacts[i]] # NoFile
    BY <1>1, FileNamesProperties
  <2> QED
    BY <1>0, <2>1 DEF IInv, PageSound, PageFailsOnlyByRemoval, TypeOK
<1> QED
  BY <1>2, <1>3, <1>4, <1>5 DEF IInv

\* The script ends, or nothing happens.
LEMMA EndsKeepsIInv ==
  ASSUME IInv, UNCHANGED <<files, briefing, browser, history>>,
         \/ demo' = demo /\ faults' = faults
         \/ demo' = "passed" /\ faults' = faults
         \/ /\ demo' = "failed" /\ faults' \in [{"demo", "ui"} -> Nat]
            /\ faults'["demo"] > 0 /\ faults'["demo"] >= faults["demo"],
         AtWork(CLI) => demo' = demo
  PROVE  IInv'
<1> USE DEF briefing, browser, history
<1>1. TypeOK'
  BY DEF IInv, TypeOK
<1>2. NeverBlank' /\ WritersSound' /\ LoneSound' /\ PageSound'
  BY DEF IInv, NeverBlank, WritersSound, LoneSound, PageSound, PageFailsOnlyByRemoval, AtWork
<1>3. DemoSound'
  BY DEF IInv, TypeOK, DemoSound, DemoNotGated, AtWork
<1> QED
  BY <1>1, <1>2, <1>3 DEF IInv

LEMMA VerifyKeepsIInv == IInv /\ Verify => IInv'
<1> SUFFICES ASSUME IInv, Verify PROVE IInv'
  OBVIOUS
<1>0. demo = "verify" /\ UNCHANGED <<files, briefing, browser, faults, history>>
  BY DEF Verify
<1>1. \A i \in DOMAIN Artifacts : files[Artifacts[i]] # NoFile
  <2>1. \A i \in 1..4 : i = 1 \/ i = 2 \/ i = 3 \/ i = 4
    OBVIOUS
  <2> QED
    BY <1>0, <2>1, FileNamesProperties DEF IInv, DemoSound
<1>2. files["briefing.txt"].nonempty
  BY <1>0 DEF IInv, DemoSound, NeverBlank
<1>3. demo' = "passed"
  BY <1>1, <1>2 DEF Verify
<1>4. ~ AtWork(CLI)
  BY <1>0 DEF IInv, DemoSound
<1> QED
  BY <1>0, <1>3, <1>4, EndsKeepsIInv

LEMMA DemoFailsKeepsIInv == IInv /\ DemoFails => IInv'
<1> SUFFICES ASSUME IInv, DemoFails PROVE IInv'
  OBVIOUS
<1>0. demo' = "failed" /\ UNCHANGED <<files, briefing, browser, history>>
  BY DEF DemoFails
<1>1. /\ faults' \in [{"demo", "ui"} -> Nat]
      /\ faults'["demo"] > 0 /\ faults'["demo"] >= faults["demo"]
  BY DEF DemoFails, Fault, IInv, TypeOK, DemoSound
<1>2. ~ AtWork(CLI)
  BY DEF DemoFails, AtWork, IInv, DemoSound
<1> QED
  BY <1>0, <1>1, <1>2, EndsKeepsIInv
-----------------------------------------------------------------------------
(* The theorems.                                                           *)

LEMMA InitIInv == Init => IInv
<1> SUFFICES ASSUME Init PROVE IInv
  OBVIOUS
<1>1. /\ files \in [FileNames -> Contents]
      /\ files["alert.json"] \in Facts \cup {None, NoFile}
      /\ files["briefing.txt"] \in Texts \cup {NoFile}
      /\ files["briefing.txt"] # NoFile => files["briefing.txt"].nonempty
  <2>1. CASE files = [f \in FileNames |-> NoFile]
    BY <2>1, FileNamesProperties DEF Contents
  <2>2. CASE \E a \in Facts \cup {None} :
               files = [f \in FileNames |-> CASE f = "alert.json"   -> a
                                              [] f = "briefing.txt" -> DeterministicBriefing(a)
                                              [] f = Candidate      -> NoFile
                                              [] OTHER              -> Whole]
    <3>1. PICK a \in Facts \cup {None} :
            files = [f \in FileNames |-> CASE f = "alert.json"   -> a
                                           [] f = "briefing.txt" -> DeterministicBriefing(a)
                                           [] f = Candidate      -> NoFile
                                           [] OTHER              -> Whole]
      BY <2>2
    <3> DEFINE d == DeterministicBriefing(a)
    <3>2. d \in Texts /\ d.nonempty
      BY DEF Texts, DeterministicBriefing
    <3> HIDE DEF d
    <3>3. /\ files["alert.json"] = a /\ files["briefing.txt"] = d
          /\ files["metrics.csv"] = Whole /\ files["evaluation.json"] = Whole
          /\ files[Candidate] = NoFile
      BY <3>1, FileNamesProperties DEF Candidate, d
    <3>4. files = [f \in FileNames |-> files[f]]
      BY <3>1
    <3>5. \A f \in FileNames : files[f] \in Contents
      BY <3>2, <3>3, FileNamesProperties DEF Contents
    <3> QED
      BY <3>2, <3>3, <3>4, <3>5
  <2> QED
    BY <2>1, <2>2 DEF Init
<1>2. TypeOK
  <2>1. /\ pc \in [Writers -> {"idle", "load", "generate", "write", "candidate", "done",
                             "failed"}]
        /\ facts \in [Writers -> Facts \cup {None, NoFile}]
        /\ generation \in [Writers -> Generations \cup {None}]
        /\ during \in [Writers -> SUBSET (Facts \cup {None, NoFile})]
    BY DEF Init
  <2>2. /\ demo = "idle" /\ page = "idle" /\ reading = 1 /\ lone = None
        /\ faults = [side \in {"demo", "ui"} |-> 0]
    BY DEF Init
  <2>3. removed \in BOOLEAN
    BY Zenon DEF Init
  <2>4. reading \in 1..4 /\ faults \in [{"demo", "ui"} -> Nat]
    BY <2>2
  <2> QED
    BY <1>1, <2>1, <2>2, <2>3, <2>4 DEF TypeOK
<1>3. NeverBlank
  BY <1>1 DEF NeverBlank
<1>4. WritersSound /\ LoneSound
  BY WriterNames DEF Init, WritersSound, LoneSound, AtWork
<1>5. DemoSound /\ PageSound
  BY WriterNames DEF Init, DemoSound, DemoNotGated, PageSound, PageFailsOnlyByRemoval, AtWork
<1> QED
  BY <1>2, <1>3, <1>4, <1>5 DEF IInv

LEMMA NextIInv == IInv /\ [Next]_vars => IInv'
<1> SUFFICES ASSUME IInv, [Next]_vars PROVE IInv'
  OBVIOUS
<1>1. CASE \E r \in Requests : Post(r)
  BY <1>1, PostKeepsIInv
<1>2. CASE \E w \in Writers : Writer(w) \/ WriteFails(w)
  BY <1>2, LoadFactsKeepsIInv, LoadFailsKeepsIInv, GenerateKeepsIInv, WriteBriefingKeepsIInv,
     WriteCandidateKeepsIInv, WriteFailsKeepsIInv DEF Writer
<1>3. CASE Page
  BY <1>3, PageKeepsIInv
<1>4. CASE Demo
  BY <1>4, RemoveKeepsIInv, WriteAlertKeepsIInv, WriteMetricsKeepsIInv, EvaluateKeepsIInv,
     VerifyKeepsIInv, DemoFailsKeepsIInv DEF Demo
<1>5. CASE UNCHANGED vars
  BY <1>5, EndsKeepsIInv DEF vars
<1> QED
  BY <1>1, <1>2, <1>3, <1>4, <1>5 DEF Next

\* What the sharers of the files keep true of them and of what each one holds.
THEOREM BriefingInvariant == Spec => []IInv
  BY InitIInv, NextIInv, PTL DEF Spec

\* Requests and pages running at any moment never make run_demo.sh fail, a request
\* whose write fails included
\* (docs/ui-demo.md:3-4, demo_ui.py:3-5).
THEOREM DemoIsNotGated == Spec => []DemoNotGated
<1>1. IInv => DemoNotGated
  BY DEF IInv, DemoSound
<1> QED
  BY <1>1, BriefingInvariant, PTL

\* The page answers 500 only if run_demo.sh deleted the artifacts while it was
\* reading them (demo_ui.py:52-76, 361-364).
THEOREM PageSurvivesReplacements == Spec => []PageFailsOnlyByRemoval
<1>1. IInv => PageFailsOnlyByRemoval
  BY DEF IInv, PageSound
<1> QED
  BY <1>1, BriefingInvariant, PTL

\* A writer that has generated moves by a step of its own.
LEMMA OwnStep ==
  ASSUME IInv, [Next]_vars, NEW v \in Writers, pc[v] \in {"write", "candidate"}, pc'[v] # pc[v]
  PROVE  WriteBriefing(v) \/ WriteCandidate(v) \/ WriteFails(v)
<1>0. TypeOK
  BY DEF IInv
<1>1. CASE \E r \in Requests : Post(r)
  BY <1>0, <1>1, WriterNames DEF Post, Begin, TypeOK
<1>2. CASE \E w \in Writers : Writer(w) \/ WriteFails(w)
  <2>1. PICK w \in Writers : Writer(w) \/ WriteFails(w)
    BY <1>2
  <2>2. \E p : pc' = [pc EXCEPT ![w] = p]
    BY <2>1 DEF Writer, WriteFails, LoadFacts, LoadFails, Generate, WriteBriefing,
       WriteCandidate, End
  <2>3. w = v
    BY <1>0, <2>2 DEF TypeOK
  <2> QED
    BY <2>1, <2>3 DEF Writer, LoadFacts, LoadFails, Generate
<1>3. CASE WriteMetrics
  <2>1. v # CLI
    BY <1>3 DEF WriteMetrics, IInv, DemoSound
  <2> QED
    BY <1>0, <1>3, <2>1, WriterNames DEF WriteMetrics, Begin, TypeOK
<1>4. CASE Page \/ Remove \/ WriteAlert \/ Evaluate \/ Verify \/ DemoFails \/ UNCHANGED vars
  BY <1>4 DEF Page, OpenPage, PageExists, PageReads, Remove, WriteAlert, Evaluate, Verify,
     DemoFails, vars, briefing
<1> QED
  BY <1>1, <1>2, <1>3, <1>4 DEF Next, Demo

\* Whatever replaces briefing.txt tells the facts that alert.json carried at some
\* moment since the writer began (briefing.py:476-483; README.md:339-352).
THEOREM WritersTellWhatTheyRead == Spec => WritesWhatItRead
<1>1. ASSUME IInv, [Next]_vars, NEW w \in Writers, pc[w] = "write",
             pc'[w] \in {"candidate", "done"}
      PROVE  \E f \in during[w] \ {NoFile} : Tells(files'["briefing.txt"], f)
  <2>1. WriteBriefing(w)
    <3>1. WriteBriefing(w) \/ WriteCandidate(w) \/ WriteFails(w)
      BY <1>1, OwnStep
    <3>2. ~ WriteCandidate(w)
      BY <1>1 DEF WriteCandidate
    <3>3. ~ WriteFails(w)
      BY <1>1 DEF WriteFails, End, IInv, TypeOK
    <3> QED
      BY <3>1, <3>2, <3>3
  <2>2. files'["briefing.txt"] = generation[w].text
    BY <1>1, <2>1, FileNamesProperties DEF WriteBriefing, IInv, TypeOK
  <2>3. facts[w] \in during[w] \ {NoFile} /\ Tells(generation[w].text, facts[w])
    BY <1>1, GenerationOfWriter
  <2> QED
    BY <2>2, <2>3
<1>2. IInv /\ [Next]_vars =>
        [\A w \in Writers :
           pc[w] = "write" /\ pc'[w] \in {"candidate", "done"} =>
             \E f \in during[w] \ {NoFile} : Tells(files'["briefing.txt"], f)]_vars
  BY <1>1
<1> QED
  BY <1>2, BriefingInvariant, PTL DEF Spec, WritesWhatItRead

\* A request that no other writer and no demo run came across leaves the two files
\* in agreement (briefing.py:483-489).
THEOREM FilesOfTheRequestAgree == Spec => CandidateOfTheRequest
<1> DEFINE Agree(r) ==
      LET text == files'["briefing.txt"]
          candidate == files'[Candidate]
      IN /\ \E f \in during[r] \ {NoFile} : Tells(text, f)
         /\ IF generation[r].candidate = None
            THEN candidate = NoFile
            ELSE candidate = generation[r].candidate
         /\ generation[r].source = "model" => candidate = text
<1>1. ASSUME IInv, [Next]_vars, NEW r \in Requests, pc[r] = "candidate", pc'[r] = "done",
             lone = r
      PROVE  Agree(r)
  <2>0. r \in Writers
    BY WriterNames
  <2>1. WriteCandidate(r)
    <3>1. WriteBriefing(r) \/ WriteCandidate(r) \/ WriteFails(r)
      BY <1>1, <2>0, OwnStep
    <3>2. ~ WriteBriefing(r)
      BY <1>1 DEF WriteBriefing
    <3>3. ~ WriteFails(r)
      BY <1>1, <2>0 DEF WriteFails, End, IInv, TypeOK
    <3> QED
      BY <3>1, <3>2, <3>3
  <2>2. files["briefing.txt"] = generation[r].text
    BY <1>1 DEF IInv, LoneSound
  <2>3. /\ files'["briefing.txt"] = generation[r].text
        /\ files'[Candidate] = IF generation[r].candidate = None THEN NoFile
                               ELSE generation[r].candidate
    <3>1. files \in [FileNames -> Contents]
      BY <1>1 DEF IInv, TypeOK
    <3> QED
      BY <2>1, <2>2, <3>1, FileNamesProperties DEF WriteCandidate, Candidate
  <2>4. /\ facts[r] \in during[r] \ {NoFile} /\ Tells(generation[r].text, facts[r])
        /\ generation[r].source = "model" =>
             generation[r].candidate # None /\ generation[r].candidate = generation[r].text
    BY <1>1, <2>0, GenerationOfWriter
  <2> QED
    BY <2>3, <2>4
<1>2. IInv /\ [Next]_vars =>
        [\A r \in Requests : pc[r] = "candidate" /\ pc'[r] = "done" /\ lone = r => Agree(r)]_vars
  BY <1>1
<1> QED
  BY <1>2, BriefingInvariant, PTL DEF Spec, CandidateOfTheRequest
=============================================================================
