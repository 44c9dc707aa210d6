------------------------------ MODULE Briefing ------------------------------
(***************************************************************************)
(* The files that briefing.py, demo_ui.py and run_demo.sh share without a  *)
(* lock: live-briefing requests, each in a thread of its own (demo_ui.py   *)
(* serves with ThreadingHTTPServer), a page that reads the artifacts, and  *)
(* run_demo.sh, which deletes them, writes them anew and runs the command  *)
(* line of briefing.py in between.                                         *)
(*                                                                         *)
(* A file has the content its last os.replace gave it. The temporary file  *)
(* of _atomic_write_text has a name no other process uses, so a write is   *)
(* one step that replaces the target or fails and leaves it alone.         *)
(***************************************************************************)
EXTENDS BriefingText, Sequences

CONSTANTS
  Requests,   \* POST /api/live-briefing
  Facts,      \* the facts of the latest alert that alert.json may carry
  Responses,  \* the texts the model may answer
  MaxFaults,  \* bound: failed writes and failed programs
  NoFile      \* the file does not exist

CLI == "python -m src.briefing"
Writers == Requests \cup {CLI}

\* In the order in which the page reads them. The content of alert.json is the
\* facts of its latest alert, or None when its list of alerts is empty; of
\* metrics.csv and evaluation.json it only matters that they are there.
Artifacts == <<"alert.json", "metrics.csv", "briefing.txt", "evaluation.json">>
Candidate == "live_candidate.txt"
Whole     == "whole"
FileNames == {Artifacts[i] : i \in DOMAIN Artifacts} \cup {Candidate}

ASSUME BriefingAssumption ==
  /\ CLI \notin Requests /\ None \notin Requests
  /\ NoFile \notin Facts /\ NoFile \notin Responses /\ NoFile # None /\ NoFile # Whole
  /\ \A f \in Facts \cup {None} : NoFile # DeterministicBriefing(f)

VARIABLES
  files,       \* the contents of the artifacts and of the candidate file
  pc,          \* where each writer stands
  facts,       \* what it has read from alert.json
  generation,  \* what generate_briefing returned to it
  demo,        \* where run_demo.sh stands
  page,        \* GET /api/artifacts: where it stands, and then its status code
  reading,     \* the artifact it is at
  faults,      \* how many failures have happened, in the demo and in the UI
  during,      \* history: the contents alert.json had while a writer was at work
  lone,        \* history: the request that nothing has interfered with so far
  removed      \* history: were artifacts deleted while the page was being read?

briefing == <<pc, facts, generation>>
browser  == <<page, reading>>
history  == <<during, lone, removed>>
vars == <<files, briefing, demo, browser, faults, history>>

AtWork(w) == pc[w] \in {"load", "generate", "write", "candidate"}

Fault(side) ==
  /\ faults["demo"] + faults["ui"] < MaxFaults
  /\ faults' = [faults EXCEPT ![side] = @ + 1]
-----------------------------------------------------------------------------
(* write_briefing.                                                         *)

\* A writer begins, a request in a thread of its own.
Begin(w) ==
  /\ pc' = [pc EXCEPT ![w] = "load"]
  /\ during' = [during EXCEPT ![w] = {files["alert.json"]}]
  /\ lone' = IF w \in Requests /\ ~ \E v \in Writers : AtWork(v) THEN w ELSE None

Post(r) ==
  /\ pc[r] = "idle"
  /\ Begin(r)
  /\ UNCHANGED <<files, facts, generation, demo, browser, faults, removed>>

\* Bug: the facts of the last call are kept in a cache.
LoadFacts_Cached(w) ==
  /\ pc[w] = "load"
  /\ files["alert.json"] # NoFile
  /\ pc' = [pc EXCEPT ![w] = "generate"]
  /\ facts' = LET earlier == {facts[v] : v \in Writers} \ {NoFile}
              IN [facts EXCEPT ![w] = IF earlier = {} THEN files["alert.json"]
                                      ELSE CHOOSE f \in earlier : TRUE]
  /\ UNCHANGED <<files, generation, demo, browser, faults, history>>

LoadFacts(w) ==
  /\ pc[w] = "load"
  /\ files["alert.json"] # NoFile
  /\ pc' = [pc EXCEPT ![w] = "generate"]
  /\ facts' = [facts EXCEPT ![w] = files["alert.json"]]
  /\ UNCHANGED <<files, generation, demo, browser, faults, history>>

\* What a writer leaves behind when it has ended.
End(w, outcome) ==
  /\ pc' = [pc EXCEPT ![w] = outcome]
  /\ facts' = [facts EXCEPT ![w] = NoFile]
  /\ generation' = [generation EXCEPT ![w] = None]
  /\ during' = [during EXCEPT ![w] = {}]

\* Bug: the handler does not catch BriefingError, and the thread ends.
LoadFails_Uncaught(w) ==
  /\ pc[w] = "load"
  /\ files["alert.json"] = NoFile
  /\ End(w, IF w = CLI THEN "failed" ELSE "no answer")
  /\ UNCHANGED <<files, demo, browser, faults, lone, removed>>

\* BriefingError: exit code 1, or status 409.
LoadFails(w) ==
  /\ pc[w] = "load"
  /\ files["alert.json"] = NoFile
  /\ End(w, "failed")
  /\ UNCHANGED <<files, demo, browser, faults, lone, removed>>

\* The model is asked, which may take seconds; the command line of the demo does
\* not ask it.
Generate(w) ==
  /\ pc[w] = "generate"
  /\ pc' = [pc EXCEPT ![w] = "write"]
  /\ \E response \in Responses \cup {None} :
       generation' = [generation EXCEPT ![w] =
                        GenerateBriefing(facts[w], w \in Requests, response)]
  /\ UNCHANGED <<files, facts, demo, browser, faults, history>>

\* Bug: the old text is removed before the new one is there.
WriteBriefing_RemoveFirst(w) ==
  /\ pc[w] = "write"
  /\ IF files["briefing.txt"] # NoFile
     THEN /\ files' = [files EXCEPT !["briefing.txt"] = NoFile]
          /\ UNCHANGED <<briefing, during>>
     ELSE /\ files' = [files EXCEPT !["briefing.txt"] = generation[w].text]
          /\ IF w \in Requests
             THEN pc' = [pc EXCEPT ![w] = "candidate"] /\ UNCHANGED <<facts, generation, during>>
             ELSE End(w, "done")
  /\ UNCHANGED <<demo, browser, faults, lone, removed>>

\* The first of the two files; only the UI passes a candidate_path.
WriteBriefing(w) ==
  /\ pc[w] = "write"
  /\ files' = [files EXCEPT !["briefing.txt"] = generation[w].text]
  /\ IF w \in Requests
     THEN pc' = [pc EXCEPT ![w] = "candidate"] /\ UNCHANGED <<facts, generation, during>>
     ELSE End(w, "done")
  /\ UNCHANGED <<demo, browser, faults, lone, removed>>

\* Bug: the candidate of an earlier request is left where it is.
WriteCandidate_KeepsStale(w) ==
  /\ pc[w] = "candidate"
  /\ files' = IF generation[w].candidate = None THEN files
              ELSE [files EXCEPT ![Candidate] = generation[w].candidate]
  /\ End(w, "done")
  /\ UNCHANGED <<demo, browser, faults, lone, removed>>

\* Bug: what is unlinked is the output, not the candidate.
WriteCandidate_WrongUnlink(w) ==
  /\ pc[w] = "candidate"
  /\ files' = IF generation[w].candidate = None
              THEN [files EXCEPT !["briefing.txt"] = NoFile]
              ELSE [files EXCEPT ![Candidate] = generation[w].candidate]
  /\ End(w, "done")
  /\ UNCHANGED <<demo, browser, faults, lone, removed>>

\* The second file, written or unlinked; then status 200.
WriteCandidate(w) ==
  /\ pc[w] = "candidate"
  /\ files' = [files EXCEPT ![Candidate] =
                 IF generation[w].candidate = None THEN NoFile
                 ELSE generation[w].candidate]
  /\ End(w, "done")
  /\ UNCHANGED <<demo, browser, faults, lone, removed>>

\* An OSError of either write: exit code 1, or status 409, although the first
\* file may have been replaced.
WriteFails(w) ==
  /\ pc[w] \in {"write", "candidate"}
  /\ Fault(IF w = CLI THEN "demo" ELSE "ui")
  /\ End(w, "failed")
  /\ UNCHANGED <<files, demo, browser, lone, removed>>
-----------------------------------------------------------------------------
(* read_artifacts, behind GET /api/artifacts.                              *)

OpenPage ==
  /\ page = "idle"
  /\ page' = "exists"
  /\ reading' = 1
  /\ removed' = FALSE
  /\ UNCHANGED <<files, briefing, demo, faults, during, lone>>

\* On to the next artifact, or to the answer.
PageAdvances ==
  IF reading < Len(Artifacts) THEN page' = "exists" /\ reading' = reading + 1
                              ELSE page' = "200" /\ UNCHANGED reading

PageExists ==
  /\ page = "exists"
  /\ IF files[Artifacts[reading]] = NoFile THEN PageAdvances   \* a hint
     ELSE page' = "read" /\ UNCHANGED reading
  /\ UNCHANGED <<files, briefing, demo, faults, history>>

\* read_text raises FileNotFoundError if the file has gone since.
PageReads ==
  /\ page = "read"
  /\ IF files[Artifacts[reading]] = NoFile THEN page' = "500" /\ UNCHANGED reading
     ELSE PageAdvances
  /\ UNCHANGED <<files, briefing, demo, faults, history>>
-----------------------------------------------------------------------------
(* run_demo.sh, from the deletion of the artifacts to their verification.  *)

\* rm -f of the four artifacts; the candidate file stays.
Remove ==
  /\ demo = "idle"
  /\ demo' = "stream"
  /\ files' = [f \in DOMAIN files |-> IF f = Candidate THEN files[f] ELSE NoFile]
  /\ during' = [w \in Writers |->
                  IF AtWork(w) THEN during[w] \cup {NoFile} ELSE during[w]]
  /\ lone' = None
  /\ removed' = (page \in {"exists", "read"})
  /\ UNCHANGED <<briefing, browser, faults>>

\* The stream processor replaces alert.json,
WriteAlert ==
  /\ demo = "stream"
  /\ demo' = "metrics"
  /\ \E f \in Facts \cup {None} :
       /\ files' = [files EXCEPT !["alert.json"] = f]
       /\ during' = [w \in Writers |->
                       IF AtWork(w) THEN during[w] \cup {f} ELSE during[w]]
  /\ UNCHANGED <<briefing, browser, faults, lone, removed>>

\* then metrics.csv, and the script starts the command line of briefing.py.
WriteMetrics ==
  /\ demo = "metrics"
  /\ demo' = "brief"
  /\ files' = [files EXCEPT !["metrics.csv"] = Whole]
  /\ Begin(CLI)
  /\ UNCHANGED <<facts, generation, browser, faults, removed>>

Evaluate ==
  /\ demo = "brief"
  /\ pc[CLI] = "done"
  /\ demo' = "verify"
  /\ files' = [files EXCEPT !["evaluation.json"] = Whole]
  /\ UNCHANGED <<briefing, browser, faults, history>>

\* Of briefing.txt the script verifies that it is there and not blank.
Verify ==
  /\ demo = "verify"
  /\ demo' = IF /\ \A i \in DOMAIN Artifacts : files[Artifacts[i]] # NoFile
                /\ files["briefing.txt"].nonempty
             THEN "passed" ELSE "failed"
  /\ UNCHANGED <<files, briefing, browser, faults, history>>

\* A program of the script exits nonzero.
DemoFails ==
  /\ \/ demo \in {"stream", "metrics"} /\ Fault("demo")
     \/ demo = "brief" /\ pc[CLI] = "done" /\ Fault("demo")   \* src.evaluate
     \/ demo = "brief" /\ pc[CLI] = "failed" /\ UNCHANGED faults
  /\ demo' = "failed"
  /\ UNCHANGED <<files, briefing, browser, history>>
-----------------------------------------------------------------------------
\* Nothing has run yet, or an earlier run left its artifacts.
Init ==
  /\ files \in {[f \in FileNames |-> NoFile]} \cup
       {[f \in FileNames |-> CASE f = "alert.json"   -> a
                               [] f = "briefing.txt" -> DeterministicBriefing(a)
                               [] f = Candidate      -> NoFile
                               [] OTHER              -> Whole] : a \in Facts \cup {None}}
  /\ pc = [w \in Writers |-> "idle"]
  /\ facts = [w \in Writers |-> NoFile]
  /\ generation = [w \in Writers |-> None]
  /\ demo = "idle"
  /\ page = "idle" /\ reading = 1
  /\ faults = [side \in {"demo", "ui"} |-> 0]
  /\ during = [w \in Writers |-> {}]
  /\ lone = None
  /\ removed = FALSE

\* The steps of write_briefing once it has begun.
Writer(w) ==
  LoadFacts(w) \/ LoadFails(w) \/ Generate(w) \/ WriteBriefing(w) \/ WriteCandidate(w)

Page == OpenPage \/ PageExists \/ PageReads

Demo == Remove \/ WriteAlert \/ WriteMetrics \/ Evaluate \/ Verify \/ DemoFails

Next ==
  \/ \E r \in Requests : Post(r)
  \/ \E w \in Writers : Writer(w) \/ WriteFails(w)
  \/ Page
  \/ Demo

\* A thread or process that can take a step eventually takes one; the model call
\* ends, at the latest with its timeout (OPENAI_TIMEOUT_SECONDS, no retries).
Spec == Init /\ [][Next]_vars /\ \A w \in Writers : WF_vars(Writer(w))
-----------------------------------------------------------------------------
(* Properties.                                                             *)

\* Whatever replaces briefing.txt tells the facts that alert.json carried at some
\* moment since the writer began: neither a text the model made up nor the facts
\* of an earlier call, whoever else reads, writes or deletes meanwhile
\* (briefing.py:476-483; README.md:339-352).
WritesWhatItRead ==
  [][\A w \in Writers :
       pc[w] = "write" /\ pc'[w] \in {"candidate", "done"} =>
         \E f \in during[w] \ {NoFile} : Tells(files'["briefing.txt"], f)]_vars

\* A request that no other writer and no demo run came across leaves the two
\* files in agreement: the candidate file holds the model's answer to this very
\* request, accepted or not, and is gone when there was none
\* (briefing.py:483-489; test_failed_live_request_removes_stale_candidate).
CandidateOfTheRequest ==
  [][\A r \in Requests :
       pc[r] = "candidate" /\ pc'[r] = "done" /\ lone = r =>
         LET text == files'["briefing.txt"]
             candidate == files'[Candidate]
         IN /\ \E f \in during[r] \ {NoFile} : Tells(text, f)
            /\ IF generation[r].candidate = None
               THEN candidate = NoFile
               ELSE candidate = generation[r].candidate
            /\ generation[r].source = "model" => candidate = text]_vars

\* The UI never gates the demo: with requests and pages running at any moment, and
\* their writes failing, the script fails only if a program of its own fails
\* (docs/ui-demo.md:3-4, demo_ui.py:3-5).
DemoNotGated == demo = "failed" => faults["demo"] > 0

\* The page answers 500 only if run_demo.sh deleted the artifacts while it was
\* reading them: a replacement never makes a file unreadable
\* (demo_ui.py:52-76, 361-364).
PageFailsOnlyByRemoval == page = "500" => removed

\* Every request is answered, 200 or 409 (demo_ui.py:368-373).
RequestsAnswered ==
  \A r \in Requests : pc[r] = "load" ~> pc[r] \in {"done", "failed"}

\* "briefing facts match the deterministic alert facts, or the fallback is used"
\* (README.md:322, of a run of run_demo.sh that passed).
VerifiedBriefingMatchesAlert ==
  demo = "passed" =>
    \/ Tells(files["briefing.txt"], files["alert.json"])
    \/ \E f \in Facts \cup {None} : files["briefing.txt"] = DeterministicBriefing(f)
=============================================================================
