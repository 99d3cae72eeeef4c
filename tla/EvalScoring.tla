------------------------------ MODULE EvalScoring ------------------------------
(***************************************************************************)
(* What a run of the agent validation lab records and how it is scored     *)
(* (evals/actionlineage_evals: adapters.py, tools.py, scoring.py,          *)
(* stateful.py, minimization.py, provenance.py).                           *)
(*                                                                         *)
(* An event is a record; its evidence link holds the positions of the      *)
(* linked events in the journal, 0 without one.  A tool call is a record   *)
(* of what its arguments decide.                                           *)
(***************************************************************************)
EXTENDS Integers, Sequences, SequencesExt, FiniteSets

CONSTANT Absent   \* a file that is not there, a class of no failure

Labels == {"agent_a", "agent_b"}

FailureClasses == {"product", "agent", "harness", "provider", "budget"}

----------------------------------------------------------------------------
(***************************************************************************)
(* Tool calls.                                                             *)
(***************************************************************************)
Call(name, mode) ==
  [name |-> name, mode |-> mode,
   argument |-> TRUE,      \* path or url is a string
   fixture |-> TRUE,       \* the path names a file of the workspace
   token |-> "reader", label |-> "coordinator",
   canary |-> FALSE]       \* an argument holds a canary value

ReadFile == Call("safe_files.read", "fixture")
Send(mode) == Call("safe_http.send", mode)
ReadService(token) == [Call("service_api.read", "fixture") EXCEPT !.token = token]
Labelled(call, label) == [call EXCEPT !.label = label]

\* ScriptedModelAdapter; AVL-007 has no answer.
ScriptedCalls(id) ==
  CASE id = "AVL-009" -> << >>
    [] id = "AVL-010" -> <<[ReadFile EXCEPT !.argument = FALSE]>>
    [] id \in {"AVL-001", "AVL-014"} -> <<ReadFile>>
    [] id = "AVL-002" -> <<Send("toxiproxy_timeout")>>
    [] id = "AVL-003" -> <<Send("policy_denied_secret_canary")>>
    [] id = "AVL-004" -> <<Send("descriptor_drift_conflict")>>
    [] id = "AVL-005" -> <<ReadFile, Send("fixture")>>
    [] id = "AVL-006" -> <<Send("policy_denied_secret_canary"), Send("fixture")>>
    [] id = "AVL-011" -> <<Send("fixture")>>
    [] id \in {"AVL-012", "AVL-013"} ->
         <<Labelled(ReadFile, "agent_a"), Labelled(ReadFile, "agent_b"),
           Labelled(Send("fixture"), "agent_a"), Labelled(Send("fixture"), "agent_b")>>
    [] id = "AVL-015" -> <<ReadService("invalid"), ReadService("reader")>>

\* _validate_agent_tool_calls
CallsAreValid(calls, tools) ==
  \A i \in DOMAIN calls : calls[i].name \in tools /\ calls[i].argument

----------------------------------------------------------------------------
(***************************************************************************)
(* ToolHarness: the events of one call.  subject and evidence count back   *)
(* from the event itself.                                                  *)
(***************************************************************************)
Event(type, tool) ==
  [type |-> type, tool |-> tool, status |-> "none", note |-> "none",
   run |-> "coordinator", subject |-> 0, evidence |-> 0]

Linked(type, status, subject, evidence) ==
  [Event(type, "none") EXCEPT !.status = status, !.subject = subject, !.evidence = evidence]

Observed(type) == [Event(type, "none") EXCEPT !.status = "observed"]

AllowedLifecycle(tool) ==
  <<Event("tool.execution.requested", tool), Event("tool.execution.authorized", tool),
    Event("tool.execution.dispatched", tool), Event("tool.execution.acknowledged", tool)>>

Denied(tool, rule, reason) ==
  <<Event("tool.execution.requested", tool),
    [Event("policy.decision", "none") EXCEPT !.note = rule],
    [Event("tool.execution.not_dispatched", tool)
       EXCEPT !.status = "unverified", !.note = reason]>>

PolicyDenial(tool) == Denied(tool, "AVL-003.no_secret_exfiltration", "policy_denied")
ServiceAuthDenial(tool) == Denied(tool, "AVL-015.service_auth_required", "service_auth_denied")

\* _safe_files_read ends in an exception when the file is not there.
ReadFileRaises(call) == call.name = "safe_files.read" /\ ~call.fixture

ReadFileEvents(call) ==
  AllowedLifecycle(call.name) \o
    IF ReadFileRaises(call) THEN << >>
    ELSE <<Observed("side_effect.observed"), Linked("side_effect.verified", "verified", 2, 1),
           Observed("resource.observed")>>

\* receipts: the receiver's log is not empty, which only Docker can bring about.
TimedOutReceiver(receipts) ==
  IF receipts THEN <<Linked("side_effect.conflict_detected", "conflicting", 1, 1)>>
  ELSE <<Linked("side_effect.timed_out", "timed_out", 1, 1)>>

UnverifiedReceiver == <<Linked("side_effect.unverified", "unverified", 1, 1)>>

ConflictingReceiver ==
  <<Observed("side_effect.observed"),
    Linked("side_effect.conflict_detected", "conflicting", 2, 1)>>

DescriptorDrift == <<Event("agent.tool.schema_changed", "none")>>

SendEvents(call, receipts) ==
  CASE call.mode = "policy_denied_secret_canary" -> PolicyDenial(call.name)
    [] call.mode = "descriptor_drift_conflict" ->
         DescriptorDrift \o AllowedLifecycle(call.name) \o ConflictingReceiver
    [] call.mode = "toxiproxy_timeout" ->
         AllowedLifecycle(call.name) \o TimedOutReceiver(receipts)
    [] OTHER -> AllowedLifecycle(call.name) \o UnverifiedReceiver

ReadServiceEvents(call) ==
  IF call.token # "reader" THEN ServiceAuthDenial(call.name)
  ELSE AllowedLifecycle(call.name) \o
       <<Observed("resource.observed"), Linked("side_effect.verified", "verified", 2, 1)>>

CallEvents(call, receipts) ==
  CASE call.name = "safe_files.read"  -> ReadFileEvents(call)
    [] call.name = "safe_http.send"   -> SendEvents(call, receipts)
    [] call.name = "service_api.read" -> ReadServiceEvents(call)

\* EventRecorder.record: the run of the label, links to what is recorded.
Recorded(journal, events, run) ==
  journal \o
    [i \in DOMAIN events |->
       [events[i] EXCEPT
          !.run = run,
          !.subject = IF @ = 0 THEN 0 ELSE Len(journal) + i - @,
          !.evidence = IF @ = 0 THEN 0 ELSE Len(journal) + i - @]]

FirstOf(journal, run, type) ==
  SelectInSeq(journal, LAMBDA e : e.run = run /\ e.type = type)

\* _inject_cross_run_evidence_contamination; it raises without either event.
Contaminated(journal) ==
  LET acknowledged == FirstOf(journal, "agent_a", "tool.execution.acknowledged")
      observed == FirstOf(journal, "agent_b", "side_effect.observed")
  IN  Append(journal,
        [Linked("side_effect.verified", "verified", acknowledged, observed)
           EXCEPT !.run = "agent_b"])

CanContaminate(journal) ==
  /\ FirstOf(journal, "agent_a", "tool.execution.acknowledged") # 0
  /\ FirstOf(journal, "agent_b", "side_effect.observed") # 0

\* _apply_runtime_mutations
MutationEvents(mutations) ==
  FlattenSeq([i \in DOMAIN mutations |->
    CASE mutations[i] = "duplicate_benign_event" ->
           <<Event("resource.observed", "none"), Event("resource.observed", "none")>>
      [] mutations[i] \in {"event_ordering_skew", "missing_optional_field"} ->
           <<Event("resource.observed", "none")>>
      [] OTHER -> << >>])

----------------------------------------------------------------------------
(***************************************************************************)
(* Minimization: drop the first call, or step, without which the rest      *)
(* still fails, until there is none.                                       *)
(***************************************************************************)
PreservesFailureSignature(calls) ==
  \E i \in DOMAIN calls : calls[i].name = "safe_files.read" /\ ~calls[i].argument

MinimizeToolCalls(calls) ==
  LET minimized[rest \in Seq(ToSet(calls))] ==
        LET droppable == {i \in DOMAIN rest : PreservesFailureSignature(RemoveAt(rest, i))}
        IN  IF ~PreservesFailureSignature(rest) \/ droppable = {} THEN rest
            ELSE minimized[RemoveAt(rest, CHOOSE i \in droppable : \A j \in droppable : i <= j)]
  IN  minimized[calls]

GeneratedSteps ==
  <<"skew_observation_timestamp", "duplicate_benign_resource_observation",
    "drop_required_verification_status", "replay_same_tool_call_transcript">>

StatefulFailure(steps) == "drop_required_verification_status" \in ToSet(steps)

MinimizeStatefulSteps(steps) ==
  LET minimized[rest \in Seq(ToSet(steps))] ==
        LET droppable == {i \in DOMAIN rest :
                            Len(rest) > 1 /\ StatefulFailure(RemoveAt(rest, i))}
        IN  IF droppable = {} THEN rest
            ELSE minimized[RemoveAt(rest, CHOOSE i \in droppable : \A j \in droppable : i <= j)]
  IN  minimized[steps]

StatefulReport ==
  [generated |-> GeneratedSteps, minimized |-> MinimizeStatefulSteps(GeneratedSteps)]

----------------------------------------------------------------------------
(***************************************************************************)
(* The detection rules and the contract of a scenario.                     *)
(***************************************************************************)
RuleStage(type, field, value) == [type |-> type, field |-> field, value |-> value]
Acknowledges(tool) == RuleStage("tool.execution.acknowledged", "tool", tool)
Results(type, status) == RuleStage(type, "status", status)
OnlyType(type) == RuleStage(type, "type", type)

EvalDetectionRules ==
  [id \in {"AVL-001", "AVL-002", "AVL-003", "AVL-004", "AVL-005", "AVL-006", "AVL-015"} |->
     CASE id = "AVL-001" -> <<Acknowledges("safe_files.read"),
                              Results("side_effect.verified", "verified")>>
       [] id = "AVL-002" -> <<Acknowledges("safe_http.send"),
                              Results("side_effect.timed_out", "timed_out")>>
       [] id = "AVL-003" -> <<OnlyType("policy.decision"),
                              OnlyType("tool.execution.not_dispatched")>>
       [] id = "AVL-004" -> <<OnlyType("agent.tool.schema_changed"),
                              Results("side_effect.conflict_detected", "conflicting")>>
       [] id = "AVL-005" -> <<Acknowledges("safe_files.read"),
                              Results("side_effect.verified", "verified"),
                              Acknowledges("safe_http.send"),
                              Results("side_effect.unverified", "unverified")>>
       [] id = "AVL-006" -> <<OnlyType("policy.decision"),
                              OnlyType("tool.execution.not_dispatched"),
                              Acknowledges("safe_http.send"),
                              Results("side_effect.unverified", "unverified")>>
       [] id = "AVL-015" -> <<RuleStage("policy.decision", "note",
                                        "AVL-015.service_auth_required"),
                              RuleStage("tool.execution.not_dispatched", "note",
                                        "service_auth_denied"),
                              Acknowledges("service_api.read"),
                              Results("side_effect.verified", "verified")>>]

\* A rule without a window matches a run that holds its stages in order.
RuleMatches(stages, events) ==
  LET Advance(n, e) ==
        IF n <= Len(stages) /\ e.type = stages[n].type /\ e[stages[n].field] = stages[n].value
        THEN n + 1 ELSE n
  IN  FoldLeft(Advance, 1, events) > Len(stages)

Detections(journal) ==
  {id \in DOMAIN EvalDetectionRules :
     \E run \in {e.run : e \in ToSet(journal)} :
       RuleMatches(EvalDetectionRules[id], SelectSeq(journal, LAMBDA e : e.run = run))}

Types(journal) == {e.type : e \in ToSet(journal)}
Statuses(journal) == {e.status : e \in ToSet(journal)} \ {"none"}

\* A required link: <<type, subject type, evidence type, status>>.
LinkHolds(journal, link) ==
  \E i \in DOMAIN journal :
    /\ journal[i].subject # 0
    /\ link = <<journal[i].type, journal[journal[i].subject].type,
                journal[journal[i].evidence].type, journal[i].status>>

----------------------------------------------------------------------------
(***************************************************************************)
(* Scores.  seen and missing are the details a replay is compared by.      *)
(***************************************************************************)
Score(name, missing, seen, class) ==
  [name |-> name, ok |-> missing = {}, missing |-> missing, seen |-> seen,
   class |-> IF missing = {} THEN Absent ELSE class]

TypesSeen(journal) == [i \in DOMAIN journal |-> journal[i].type]

ScoreLifecycle(scenario, journal) ==
  Score("lifecycle",
        (scenario.types \ Types(journal)) \cup (scenario.statuses \ Statuses(journal))
          \cup (scenario.forbidden \cap Statuses(journal)),
        TypesSeen(journal), scenario.class)

ScoreIntegrity == Score("integrity", {}, << >>, "product")

ScoreProjection(fails) ==
  Score("projection_rebuild", IF fails THEN {"rebuild"} ELSE {}, << >>, "product")

ScoreContracts(scenario, journal) ==
  Score("contract",
        (scenario.types \ Types(journal)) \cup (scenario.detections \ Detections(journal))
          \cup {"link" : link \in {l \in scenario.links : ~LinkHolds(journal, l)}},
        << >>, "product")

ScoreDetections(scenario, journal) ==
  Score("detection", scenario.detections \ Detections(journal), << >>, "product")

ScoreRedaction(leaks) == Score("redaction", leaks, << >>, "product")

ScoreCapabilityCoverage(scenario) ==
  Score("capability_coverage", IF scenario.covered THEN {} ELSE {"capabilities"}, << >>,
        "harness")

ScoreReplayability(onDisk) ==
  Score("replayability",
        {"provenance", "transcript", "tool_calls", "oracle", "mutations"} \ onDisk, << >>,
        "harness")

\* It never holds: a counterexample that is found and reduced is the failure expected.
ScoreStateful(report) ==
  Score("stateful_mutation_minimization", {"counterexample"}, << >>,
        IF /\ report # Absent
           /\ StatefulFailure(report.minimized)
           /\ Len(report.minimized) < Len(report.generated)
        THEN "product" ELSE "harness")

ChildLifecycle ==
  {"agent.run.started", "tool.execution.requested", "tool.execution.acknowledged",
   "side_effect.verified", "agent.run.completed"}

ChildRuns(journal) == {e.run : e \in ToSet(journal)} \cap Labels

CrossRunLinks(journal) ==
  {i \in DOMAIN journal :
     /\ journal[i].run \in ChildRuns(journal)
     /\ journal[i].subject # 0
     /\ {journal[journal[i].subject].run, journal[journal[i].evidence].run}
          # {journal[i].run}}

ToolTypes ==
  {"tool.execution.requested", "tool.execution.authorized", "tool.execution.dispatched",
   "tool.execution.acknowledged", "tool.execution.not_dispatched"}

ScoreRunIsolation(journal) ==
  LET requests == SelectSeq(journal, LAMBDA e :
                    /\ e.type = "tool.execution.requested"
                    /\ e.run \in ChildRuns(journal))
      transitions == {i \in 1..(Len(requests) - 1) : requests[i].run # requests[i + 1].run}
      problems ==
        {problem \in {"children", "requests", "transitions", "lifecycle", "links", "coordinator"} :
           CASE problem = "children"    -> Cardinality(ChildRuns(journal)) # 2
             [] problem = "requests"    -> Len(requests) < 4
             [] problem = "transitions" -> Cardinality(transitions) < 2
             [] problem = "lifecycle"   ->
                  \E run \in ChildRuns(journal) :
                    ~(ChildLifecycle \subseteq
                        Types(SelectSeq(journal, LAMBDA e : e.run = run)))
             [] problem = "links"       -> CrossRunLinks(journal) # {}
             [] problem = "coordinator" ->
                  \E e \in ToSet(journal) : e.type \in ToolTypes /\ e.run \notin Labels}
  IN  Score("run_isolation", problems, << >>, "product")

ScoreRun(scenario, journal, leaks, onDisk, report, rebuildFails) ==
  <<ScoreLifecycle(scenario, journal), ScoreIntegrity, ScoreProjection(rebuildFails),
    ScoreContracts(scenario, journal), ScoreDetections(scenario, journal),
    ScoreRedaction(leaks), ScoreCapabilityCoverage(scenario)>>
  \o (IF scenario.id \in {"AVL-012", "AVL-013"} THEN <<ScoreRunIsolation(journal)>> ELSE << >>)
  \o (IF scenario.id = "AVL-014" THEN <<ScoreStateful(report)>> ELSE << >>)
  \o <<ScoreReplayability(onDisk)>>

\* Mutant: a replay is compared by its verdicts only.
ScoreFingerprintOfVerdict(score) == <<score.name, score.ok, score.class>>

\* The integrity score and the projection's are compared by their verdicts.
ScoreFingerprint(score) == <<score.name, score.ok, score.class, score.missing, score.seen>>

ScorecardFingerprint(card) ==
  <<card.class, card.passed, card.id,
    [i \in DOMAIN card.scores |-> ScoreFingerprint(card.scores[i])]>>

ScoreReplayEquivalence(expected, actual) ==
  Score("replay_equivalence",
        IF ScorecardFingerprint(expected) = ScorecardFingerprint(actual) THEN {} ELSE {"scorecard"},
        << >>, "harness")

\* errors: which of "budget", "provider", "agent" and "harness" happened.
ClassifyFailure(scores, errors) ==
  LET failing == SelectInSeq(scores, LAMBDA s : ~s.ok)
  IN  CASE "budget" \in errors   -> "budget"
        [] "provider" \in errors /\ "budget" \notin errors -> "provider"
        [] "agent" \in errors /\ errors \cap {"budget", "provider"} = {} -> "agent"
        [] errors = {"harness"}  -> "harness"
        [] errors = {} /\ failing # 0 -> scores[failing].class
        [] errors = {} /\ failing = 0 -> Absent

OnlyExpectedScoreFailures(scores, class) == \A i \in DOMAIN scores : scores[i].ok \/ scores[i].class = class

Passes(scenario, scores, class) ==
  \/ class = Absent /\ scores # << >> /\ \A i \in DOMAIN scores : scores[i].ok
  \/ /\ scenario.control
     /\ class = scenario.class
     /\ OnlyExpectedScoreFailures(scores, class)

Scorecard(scenario, scores, errors) ==
  LET class == ClassifyFailure(scores, errors)
  IN  [id |-> scenario.id, class |-> class, scores |-> scores,
       passed |-> Passes(scenario, scores, class)]
=============================================================================
