-------------------------------- MODULE EvalRun --------------------------------
(***************************************************************************)
(* Runs of one scenario of the agent validation lab                        *)
(* (evals/actionlineage_evals: runner.py, replay.py, environment.py,       *)
(* eventing.py).  A live run and its repetitions write the same directory, *)
(* of which only the journal is removed first; a replay writes one of its  *)
(* own.  Tools, recording, artifacts and scoring may raise, and the        *)
(* process may die, at any step.                                           *)
(***************************************************************************)
EXTENDS EvalScoring

CONSTANTS
  EvalScenarios,   \* scenario files, one of which a behaviour runs
  LiveAnswers,     \* sequences of calls a live model may answer with
  MaxRuns          \* runs that are started

\* A scenario file names a failure class, which no class is not, and bounds the requests.
ASSUME ScenarioFiles ==
  /\ Absent \notin FailureClasses
  /\ \A file \in EvalScenarios : file.class \in FailureClasses /\ file.maxRequests \in Int

VARIABLES
  scenario,
  evalRun,     \* the run under way, or Absent
  evalDirs,    \* what the directories "live" and "replay" hold
  corpus,      \* promoted bundles: [candidates, regressions]
  returned,    \* the result of the last run, Absent if it raised or died
  runsMade,
  baseline     \* [commit, inputs] of the repository, the committed report, the last check

evalVars == <<scenario, evalRun, evalDirs, corpus, returned, runsMade, baseline>>

Artifacts == <<"mutations", "transcript", "tool_calls", "oracle", "provenance">>

EmptyDir ==
  [journal |-> Absent, onDisk |-> {}, transcript |-> Absent, stateful |-> Absent,
   minimized |-> Absent, card |-> Absent, bundle |-> Absent, commit |-> Absent]

EvalRunInit ==
  /\ scenario \in EvalScenarios
  /\ evalRun = Absent
  /\ evalDirs = [dir \in {"live", "replay"} |-> EmptyDir]
  /\ corpus = [candidates |-> {}, regressions |-> {}]
  /\ returned = Absent
  /\ runsMade = 0
  /\ baseline = [commit |-> 0, inputs |-> 0, report |-> Absent, status |-> Absent]

----------------------------------------------------------------------------
Running(phase) == evalRun # Absent /\ evalRun.phase = phase
Here == evalDirs[evalRun.dir]
Calls == IF evalRun.turns = << >> THEN << >> ELSE evalRun.turns[1]
Concurrent == scenario.id \in {"AVL-012", "AVL-013"}

Goes(phase) == evalRun' = [evalRun EXCEPT !.phase = phase]
Journals(journal) == evalDirs' = [evalDirs EXCEPT ![evalRun.dir].journal = journal]

\* An exception that run_scenario catches: no scores, and a harness error.
Raised(run) == [run EXCEPT !.phase = "stop", !.errors = @ \cup {"harness"}, !.scores = << >>]

KeepResults == UNCHANGED <<scenario, corpus, returned, runsMade, baseline>>

StartRun(dir, adapter, docker, source) ==
  /\ evalRun = Absent
  /\ runsMade < MaxRuns
  /\ runsMade' = runsMade + 1
  /\ returned' = Absent
  /\ evalRun' = [dir |-> dir, adapter |-> adapter, docker |-> docker, source |-> source,
                 phase |-> "environment", turns |-> << >>, done |-> 0, errors |-> {},
                 scores |-> << >>]
  /\ baseline' = [baseline EXCEPT !.status = Absent]
  /\ UNCHANGED <<scenario, evalDirs, corpus>>

StartLive == \E adapter \in {"scripted", "live"}, docker \in BOOLEAN :
               StartRun("live", adapter, docker, Absent)

\* replay_bundle: a bundle without a manifest cannot be replayed.
StartReplay ==
  LET bundle == evalDirs["live"].bundle
  IN  /\ bundle # Absent /\ bundle.card # Absent
      /\ StartRun("replay", "replay", FALSE, bundle)

\* run_regression_corpus: one bundle that is not reviewed keeps all from being replayed.
StartRegression ==
  /\ \A entry \in corpus.regressions : entry.reviewed
  /\ \E entry \in corpus.regressions : StartRun("replay", "replay", FALSE, entry.bundle)

EnvironmentStarts == Running("environment") /\ Goes("recorder") /\ KeepResults /\ UNCHANGED evalDirs

EnvironmentFails ==
  /\ Running("environment")
  /\ evalRun.docker
  /\ evalRun' = Raised(evalRun)
  /\ KeepResults /\ UNCHANGED evalDirs

\* EventRecorder removes the journal of an earlier run.
RecorderStarts ==
  /\ Running("recorder")
  /\ Goes("agent")
  /\ Journals(<<Event("agent.intent.recorded", "none"), Event("agent.run.started", "none")>>)
  /\ KeepResults

----------------------------------------------------------------------------
(***************************************************************************)
(* The agent: it returns after its first turn.                             *)
(***************************************************************************)
\* The turns a model may generate; none is a provider error.
ModelAnswers ==
  CASE evalRun.adapter = "scripted" ->
         IF scenario.id = "AVL-007" THEN {<< >>}
         ELSE {<<SelectSeq(ScriptedCalls(scenario.id),
                           LAMBDA c : c.name \in scenario.tools \/ scenario.id = "AVL-010")>>}
    [] evalRun.adapter = "live"   -> {<< >>} \cup {<<calls>> : calls \in LiveAnswers}
    [] evalRun.adapter = "replay" -> {evalRun.source.transcript}

AgentErrors(turns) ==
  CASE scenario.maxRequests < 1 -> {"budget", "agent"}
    [] scenario.maxRequests >= 1 /\ turns = << >> -> {"provider"}
    [] scenario.maxRequests >= 1 /\ turns # << >> ->
         IF ~CallsAreValid(turns[1], scenario.tools) THEN {"agent"}
         ELSE IF Len(turns[1]) > scenario.maxCalls THEN {"budget", "agent"}
         ELSE IF scenario.id = "AVL-009" THEN {"harness"} ELSE {}

\* An error of the budget or the provider leaves no turns, one of the agent keeps them.
AgentRuns ==
  /\ Running("agent")
  /\ \E turns \in ModelAnswers :
       LET errors == AgentErrors(turns)
       IN  evalRun' = [evalRun EXCEPT
                         !.phase = IF errors = {} THEN "plan" ELSE "write",
                         !.errors = errors,
                         !.turns = IF "budget" \in errors THEN << >> ELSE turns]
  /\ KeepResults /\ UNCHANGED evalDirs

----------------------------------------------------------------------------
(***************************************************************************)
(* The tool plan.                                                          *)
(***************************************************************************)
\* The labels in the order in which the calls name them first.
CallLabels ==
  FoldLeft(LAMBDA labels, call :
             IF call.label \in ToSet(labels) THEN labels ELSE Append(labels, call.label),
           << >>, Calls)

ScopedRuns(type) == [i \in DOMAIN CallLabels |-> [Event(type, "none") EXCEPT !.run = CallLabels[i]]]

\* A call without a run label is an error of the agent.
PlanCalls ==
  /\ Running("plan")
  /\ IF Concurrent /\ \E c \in ToSet(Calls) : c.label \notin Labels
     THEN /\ evalRun' = [evalRun EXCEPT !.phase = "write", !.errors = {"agent"}]
          /\ UNCHANGED evalDirs
     ELSE /\ Goes("calls")
          /\ Journals(Here.journal \o IF Concurrent THEN ScopedRuns("agent.run.started") ELSE << >>)
  /\ KeepResults

NextCall == Calls[evalRun.done + 1]
RunOfCall == IF Concurrent THEN NextCall.label ELSE "coordinator"

\* Whether the receiver's log holds a request.
Receipts == IF evalRun.docker THEN BOOLEAN ELSE {FALSE}

ExecuteCall ==
  /\ Running("calls")
  /\ evalRun.done < Len(Calls)
  /\ \E receipts \in Receipts :
       Journals(Recorded(Here.journal, CallEvents(NextCall, receipts), RunOfCall))
  /\ evalRun' = IF ReadFileRaises(NextCall) THEN Raised(evalRun)
                ELSE [evalRun EXCEPT !.done = @ + 1]
  /\ KeepResults

\* An append fails, or Docker's proxy cannot be configured.
CallFails ==
  /\ Running("calls")
  /\ evalRun.done < Len(Calls)
  /\ Journals(Recorded(Here.journal, AllowedLifecycle(NextCall.name), RunOfCall))
  /\ evalRun' = Raised(evalRun)
  /\ KeepResults

FinishPlan ==
  /\ Running("calls")
  /\ evalRun.done = Len(Calls)
  /\ LET contaminates == scenario.id = "AVL-013"
         finished == (IF contaminates THEN Contaminated(Here.journal) ELSE Here.journal)
                     \o IF Concurrent THEN ScopedRuns("agent.run.completed") ELSE << >>
         mutated == finished \o MutationEvents(scenario.mutations)
     IN  IF contaminates /\ ~CanContaminate(Here.journal)
         THEN evalRun' = [evalRun EXCEPT !.phase = "write", !.errors = {"agent"}] /\ UNCHANGED evalDirs
         ELSE /\ Goes("write")
              /\ IF scenario.id = "AVL-014"
                 THEN evalDirs' = [evalDirs EXCEPT
                        ![evalRun.dir].journal = Append(mutated, Observed("resource.observed")),
                        ![evalRun.dir].stateful = StatefulReport]
                 ELSE Journals(mutated)
  /\ KeepResults

----------------------------------------------------------------------------
(***************************************************************************)
(* Artifacts, the end of the run and its scores.                           *)
(***************************************************************************)
WritesUpTo(n) ==
  LET names == ToSet(SubSeq(Artifacts, 1, n))
  IN  evalDirs' = [evalDirs EXCEPT
        ![evalRun.dir].onDisk = @ \cup names,
        ![evalRun.dir].transcript = IF "transcript" \in names THEN evalRun.turns ELSE @,
        ![evalRun.dir].commit = IF "provenance" \in names THEN baseline.commit ELSE @]

WriteArtifacts ==
  /\ Running("write")
  /\ WritesUpTo(Len(Artifacts))
  /\ Goes("score")
  /\ KeepResults

WriteFails ==
  /\ Running("write")
  /\ \E n \in 0..(Len(Artifacts) - 1) : WritesUpTo(n)
  /\ evalRun' = Raised(evalRun)
  /\ KeepResults

HoldsCanary(turns) ==
  turns # Absent /\ \E i \in DOMAIN turns : \E c \in ToSet(turns[i]) : c.canary

\* Whatever is in the directory is scanned, files of earlier runs included.
Leaks(dir) ==
  IF ~scenario.canaries THEN {}
  ELSE {<<dir, file>> : file \in
          {f \in {"transcript", "minimized", "bundle"} :
             CASE f = "transcript" -> HoldsCanary(evalDirs[dir].transcript)
               [] f = "minimized"  -> HoldsCanary(evalDirs[dir].minimized)
               [] f = "bundle"     -> evalDirs[dir].bundle # Absent
                                      /\ HoldsCanary(evalDirs[dir].bundle.transcript)}}

Ended ==
  Event(IF evalRun.errors = {} THEN "agent.run.completed" ELSE "agent.run.failed", "none")

RunIsScored ==
  /\ Running("score")
  /\ Journals(Append(Here.journal, Ended))
  /\ \E rebuildFails \in BOOLEAN :
       evalRun' = [evalRun EXCEPT
         !.phase = "stop",
         !.scores = ScoreRun(scenario, Append(Here.journal, Ended), Leaks(evalRun.dir),
                             Here.onDisk, Here.stateful, rebuildFails)]
  /\ KeepResults

ScoringFails ==
  /\ Running("score")
  /\ evalRun' = Raised(evalRun)
  /\ KeepResults /\ UNCHANGED evalDirs

\* environment.stop raises in the finally clause: no scorecard is written.
StopFails ==
  /\ Running("stop")
  /\ evalRun.docker
  /\ evalRun' = Absent
  /\ UNCHANGED <<scenario, evalDirs, corpus, returned, runsMade, baseline>>

FinalCard ==
  LET scored == Scorecard(scenario, evalRun.scores, evalRun.errors)
  IN  IF evalRun.source = Absent THEN scored
      ELSE Scorecard(scenario,
                     Append(scored.scores, ScoreReplayEquivalence(evalRun.source.card, scored)),
                     evalRun.errors)

WriteScorecard ==
  /\ Running("stop")
  /\ Goes("report")
  /\ evalDirs' = [evalDirs EXCEPT
       ![evalRun.dir].card = FinalCard,
       ![evalRun.dir].minimized =
          IF FinalCard.class = "agent" /\ evalRun.turns # << >>
          THEN <<MinimizeToolCalls(evalRun.turns[1])>> ELSE @]
  /\ KeepResults

----------------------------------------------------------------------------
(***************************************************************************)
(* Replay bundles.  The files are copied over those of an earlier bundle,  *)
(* the manifest, with its hashes, comes last.                              *)
(***************************************************************************)
NewBundle ==
  [transcript |-> Here.transcript, journal |-> Here.journal,
   minimized |-> IF Here.minimized = Absent /\ Here.bundle # Absent
                 THEN Here.bundle.minimized ELSE Here.minimized,
   card |-> Here.card,
   providers |-> IF evalRun.turns = << >> THEN {} ELSE {evalRun.adapter},
   hashed |-> <<Here.transcript, Here.journal>>]

\* The journal is copied first and the transcript last, before the manifest.
TornBundles ==
  LET copied == IF Here.bundle = Absent THEN [NewBundle EXCEPT !.card = Absent, !.hashed = Absent]
                ELSE [NewBundle EXCEPT !.card = Here.bundle.card, !.hashed = Here.bundle.hashed,
                                       !.providers = Here.bundle.providers]
  IN  {copied, [copied EXCEPT !.transcript = IF Here.bundle = Absent THEN Absent
                                             ELSE Here.bundle.transcript]}

Intact(bundle) == bundle.hashed = <<bundle.transcript, bundle.journal>>
HasReplay == Here.transcript # Absent /\ Here.journal # Absent
BundleNow == IF HasReplay THEN NewBundle ELSE Here.bundle

ReturnRun ==
  /\ Running("report")
  /\ evalDirs' = [evalDirs EXCEPT ![evalRun.dir].bundle = BundleNow]
  /\ returned' = [dir |-> evalRun.dir, passed |-> Here.card.passed, class |-> Here.card.class,
                  source |-> evalRun.source]
  /\ evalRun' = Absent
  /\ \E promote \in BOOLEAN :
       corpus' = IF promote /\ ~Here.card.passed /\ BundleNow # Absent /\ BundleNow.card # Absent
                 THEN [corpus EXCEPT !.candidates = @ \cup {BundleNow}] ELSE corpus
  /\ UNCHANGED <<scenario, runsMade, baseline>>

RunDies ==
  /\ evalRun # Absent
  /\ evalRun' = Absent
  /\ \E bundle \in {Here.bundle} \cup
                     IF evalRun.phase = "report" /\ HasReplay THEN TornBundles ELSE {} :
       evalDirs' = [evalDirs EXCEPT ![evalRun.dir].bundle = bundle]
  /\ UNCHANGED <<scenario, corpus, returned, runsMade, baseline>>

Reviewable(bundle) ==
  /\ bundle.card # Absent /\ bundle.card.class # Absent
  /\ bundle.minimized # Absent
  /\ "live" \notin bundle.providers
  /\ ~HoldsCanary(bundle.transcript) /\ ~HoldsCanary(bundle.minimized)

\* The copy is marked as reviewed in a second step, before which the process may die.
PromoteReviewed ==
  /\ evalRun = Absent
  /\ \E bundle \in ({evalDirs["live"].bundle} \cup corpus.candidates) \ {Absent},
        marked \in BOOLEAN :
       /\ Reviewable(bundle)
       /\ corpus' = [corpus EXCEPT !.regressions =
             {e \in @ : e.bundle # bundle} \cup {[bundle |-> bundle, reviewed |-> marked]}]
  /\ UNCHANGED <<scenario, evalRun, evalDirs, returned, runsMade, baseline>>

----------------------------------------------------------------------------
(***************************************************************************)
(* The public baseline: a report of the scorecards and journals below the  *)
(* live directory is committed, and checked against a new one.             *)
(***************************************************************************)
FailureFingerprint(card) ==
  IF card.passed /\ card.class = Absent THEN Absent
  ELSE <<card.class, card.passed, card.id,
         [i \in DOMAIN card.scores |->
            IF card.scores[i].ok THEN Absent ELSE <<card.scores[i].name, card.scores[i].class>>]>>

\* Without scorecards nothing has failed.
SummaryOk == evalDirs["live"].card = Absent \/ evalDirs["live"].card.passed

PublicReport ==
  LET dir == evalDirs["live"]
  IN  [inputs |-> baseline.inputs,
       commits |-> IF dir.card = Absent THEN {} ELSE {dir.commit} \ {Absent},
       ok |-> SummaryOk /\ scenario.covered,
       runs |-> IF dir.card = Absent THEN << >>
                ELSE <<[passed |-> dir.card.passed, class |-> dir.card.class,
                        fingerprint |-> FailureFingerprint(dir.card),
                        types |-> IF dir.journal = Absent THEN << >> ELSE TypesSeen(dir.journal)]>>]

SemanticReport(report) == <<report.ok, report.runs>>

BaselineStatus(committed, current) ==
  CASE SemanticReport(committed) # SemanticReport(current) -> "semantic_drift"
    [] SemanticReport(committed) = SemanticReport(current) /\ committed.inputs # current.inputs ->
         "input_drift"
    [] /\ SemanticReport(committed) = SemanticReport(current)
       /\ committed.inputs = current.inputs /\ committed.commits # current.commits ->
         "provenance_only_drift"
    [] committed = current -> "matched"

CommitBaseline ==
  /\ evalRun = Absent
  /\ baseline.report = Absent /\ runsMade > 0
  /\ baseline' = [baseline EXCEPT !.report = PublicReport]
  /\ UNCHANGED <<scenario, evalRun, evalDirs, corpus, returned, runsMade>>

CheckBaseline ==
  /\ evalRun = Absent
  /\ baseline.report # Absent
  /\ baseline' = [baseline EXCEPT !.status = BaselineStatus(baseline.report, PublicReport)]
  /\ UNCHANGED <<scenario, evalRun, evalDirs, corpus, returned, runsMade>>

\* A commit, which may change files that the baseline depends on.
ChangeRepository ==
  /\ evalRun = Absent
  /\ baseline.commit = 0 /\ baseline.report # Absent
  /\ \E inputs \in {0, 1} :
       baseline' = [baseline EXCEPT !.commit = 1, !.inputs = inputs, !.status = Absent]
  /\ UNCHANGED <<scenario, evalRun, evalDirs, corpus, returned, runsMade>>

EvalRunNext ==
  \/ StartLive \/ StartReplay \/ StartRegression
  \/ EnvironmentStarts \/ EnvironmentFails \/ RecorderStarts
  \/ AgentRuns \/ PlanCalls \/ ExecuteCall \/ CallFails \/ FinishPlan
  \/ WriteArtifacts \/ WriteFails \/ RunIsScored \/ ScoringFails
  \/ StopFails \/ WriteScorecard \/ ReturnRun \/ RunDies
  \/ PromoteReviewed
  \/ CommitBaseline \/ CheckBaseline \/ ChangeRepository

EvalRunSpec == EvalRunInit /\ [][EvalRunNext]_evalVars

----------------------------------------------------------------------------
\* A replay that passes without a failure class reproduced its run: the run
\* had passed, and its journal held the same events in the same order, on any
\* environment and whatever earlier runs left behind.  The bundle must be one
\* whose files are those its manifest was written for.
PassedReplaysReproduce ==
  (/\ returned # Absent
   /\ returned.source # Absent
   /\ returned.passed /\ returned.class = Absent
   /\ Intact(returned.source))
  => /\ returned.source.card.passed
     /\ TypesSeen(evalDirs["replay"].journal) = TypesSeen(returned.source.journal)
=============================================================================
