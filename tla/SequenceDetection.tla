-------------------------- MODULE SequenceDetection --------------------------
(***************************************************************************)
(* Sequence detections over the events of a verified journal               *)
(* (detection/sequence.py) and the robustness lab that replays a rule over *)
(* mutated copies of a corpus (lab/robustness.py).                         *)
(*                                                                         *)
(* An event is a record: id, type, occurrence time and position in the     *)
(* journal, and the values found at the paths of its envelope and of its   *)
(* payload.  Times are milliseconds.  A value is a number, a text or       *)
(* Absent; a string pattern is the set of texts that it matches.           *)
(* A rule document is a record with every field of the format, Nil where   *)
(* the field is missing and Bad where its value has the wrong type.        *)
(***************************************************************************)
EXTENDS Integers, Sequences, SequencesExt, FiniteSetsExt, TLC

CONSTANTS
  Absent, Nil, Bad,
  Empty,          \* the empty text, or an empty container
  EventPool,      \* events that may have been recorded
  Packs,          \* rule packs: sequences of documents
  MaxEvents       \* events in a corpus

\* A pack is a list of documents, each with a list of stages or none; where
\* there is no document, load_sequence_rules has no rule to explain.
ASSUME PackDocuments ==
  \A documents \in Packs :
    /\ documents # << >> /\ documents \in Seq(Range(documents))
    /\ \A document \in Range(documents) :
         /\ "stages" \in DOMAIN document
         /\ document.stages \in {Nil, Bad} \/ document.stages \in Seq(Range(document.stages))

\* Events have the fields that are read, and every event has its own id.
ASSUME PooledEvents ==
  \A e \in EventPool :
    /\ {"id", "type", "at", "sequence", "envelope", "payload"} \subseteq DOMAIN e
    /\ e.at \in Int /\ e.sequence \in Int /\ e.id \in Int
    /\ \A f \in EventPool : e.id = f.id => e = f

VARIABLES
  corpus,   \* events, in the order in which they arrived
  pack,     \* the documents given to load_sequence_rules, or Nil
  rules,    \* the rules loaded from them, or Bad
  report,   \* what explain_sequence_rule says of the first rule, or Nil
  replay    \* what the lab says of the first rule over mutated corpora, or Nil

detectionVars == <<corpus, pack, rules, report, replay>>

----------------------------------------------------------------------------
(***************************************************************************)
(* Loading.  A package wraps the rule in metadata and a spec, and only a    *)
(* package may give its durations with a unit.  One document that does not *)
(* load rejects the pack.                                                  *)
(***************************************************************************)
Default(value, default) == IF value = Nil THEN default ELSE value

Milliseconds == [ms |-> 1, s |-> 1000, m |-> 60000, h |-> 3600000]

DurationSeconds(duration) ==
  IF duration = Nil THEN Nil
  ELSE duration.amount * Milliseconds[Default(duration.unit, "s")]

Operators ==
  <<"in", "exists", "prefix", "suffix", "regex", "not", "gt", "gte", "lt", "lte">>

\* The argument of `not` is not looked into.
PredicateLoads(expected) ==
  "literal" \in DOMAIN expected
    \/ /\ DOMAIN expected \subseteq Range(Operators)
       /\ \A op \in DOMAIN expected \cap {"in", "exists", "prefix", "suffix", "regex"} :
            expected[op] # Bad

StageLoads(stage) ==
  /\ Bad \notin {stage.name, stage.event_type, stage.where}
  /\ stage.event_type # Nil
  /\ stage.where # Nil => \A path \in DOMAIN stage.where : PredicateLoads(stage.where[path])

DocumentLoads(document) ==
  /\ \A field \in DOMAIN document : document[field] # Bad
  /\ document.name # Nil
  /\ \A duration \in {document.within_seconds, document.suppression_seconds} \ {Nil} :
       duration.unit # Nil => document.kind = "SequenceDetection"
  /\ document.stages \notin {Nil, << >>}
  /\ \A i \in DOMAIN document.stages : StageLoads(document.stages[i])

SequenceRuleFromDict(document) ==
  [rule_id             |-> document.rule_id,
   name                |-> document.name,
   group_by            |-> LET paths == Default(document.group_by, << >>)
                           IN  IF paths = << >> THEN <<"correlation.run_id">> ELSE paths,
   ordered             |-> Default(document.ordered, TRUE),
   within_seconds      |-> DurationSeconds(document.within_seconds),
   deduplicate         |-> Default(document.deduplicate, TRUE),
   suppression_seconds |-> DurationSeconds(document.suppression_seconds),
   suppression_key     |-> Default(document.suppression_key, << >>),
   stages              |-> [i \in DOMAIN document.stages |->
                              [event_type |-> document.stages[i].event_type,
                               where |-> Default(document.stages[i].where, << >>)]]]

LoadSequenceRules(documents) ==
  IF \A i \in DOMAIN documents : DocumentLoads(documents[i])
  THEN [i \in DOMAIN documents |-> SequenceRuleFromDict(documents[i])]
  ELSE Bad

(***************************************************************************)
(* built_in_sequence_rules, as the rules that these documents describe.    *)
(***************************************************************************)
Stage(type, where) == [name |-> Nil, event_type |-> type, where |-> where]

RuleOf(id, stages) ==
  [kind |-> Nil, rule_id |-> id, name |-> id, group_by |-> Nil, ordered |-> Nil,
   within_seconds |-> Nil, deduplicate |-> Nil, suppression_seconds |-> Nil,
   suppression_key |-> Nil, stages |-> stages]

Equals(path, value) == path :> [literal |-> value]
OneOf(path, values) == path :> [in |-> values]

BuiltInDocuments ==
 <<RuleOf("AL-DET-001",
    <<Stage("action.normalized",
            Equals("action.resources.0.attributes.sensitivity", "restricted")),
      Stage("side_effect.verified", Equals("evidence_link.verification_status", "verified"))>>),
  RuleOf("AL-DET-002",
    <<Stage("agent.tool.schema_changed", Nil), Stage("action.normalized", Nil)>>),
  RuleOf("AL-DET-003",
    <<Stage("tool.execution.acknowledged",
            Equals("tool_identity.name", "safe_http.send")
              @@ OneOf("acknowledgement.status", {"success", "succeeded"})),
      Stage("side_effect.unverified",
            OneOf("evidence_link.verification_status", {"unverified", "timed_out"}))>>),
  RuleOf("AL-DET-004", <<Stage("side_effect.conflict_detected", Nil)>>),
  RuleOf("AL-DET-005",
    <<Stage("policy.decision", OneOf("outcome", {"deny", "error"})),
      Stage("tool.execution.not_dispatched",
            Equals("not_dispatched.downstream_forwarded", FALSE))>>)>>

BuiltInSequenceRules ==
  [i \in DOMAIN BuiltInDocuments |-> SequenceRuleFromDict(BuiltInDocuments[i])]

----------------------------------------------------------------------------
(***************************************************************************)
(* Predicates.  A path is looked up in the envelope, then in the payload.  *)
(* Of several operators in one predicate only the first one counts.        *)
(***************************************************************************)
PathValue(event, path) ==
  CASE path \in DOMAIN event.envelope -> event.envelope[path]
    [] path \in DOMAIN event.payload \ DOMAIN event.envelope -> event.payload[path]
    [] OTHER -> Absent

FirstOperator(expected) ==
  LET precedence == <<"literal">> \o Operators
      i == SelectInSeq(precedence, LAMBDA op : op \in DOMAIN expected)
  IN  IF i = 0 THEN "none" ELSE precedence[i]

\* Numbers.  Two texts that are timestamps are compared in the same way, which is
\* left out: here a comparison of texts fails.
Compare(actual, op, threshold) ==
  /\ actual \in Int /\ threshold \in Int
  /\ CASE op = "gt"  -> actual > threshold
       [] op = "gte" -> actual >= threshold
       [] op = "lt"  -> actual < threshold
       [] op = "lte" -> actual <= threshold

\* Whether a value satisfies a predicate, given whether it satisfies the one
\* that the predicate negates.
Satisfies(actual, expected, negated) ==
  LET op == FirstOperator(expected) IN
  CASE op = "literal" -> actual = expected.literal
    [] op = "exists"  -> (actual # Absent) = expected.exists
    [] op \in {"in", "prefix", "suffix", "regex"} -> actual \in expected[op]
    [] op = "not"     -> actual # Absent /\ ~negated
    [] op \in {"gt", "gte", "lt", "lte"} -> Compare(actual, op, expected[op])
    [] OTHER          -> FALSE

\* A predicate holds the one that it negates, and so on.
MatchesExpected(actual, expected) ==
  LET inner[n \in Nat] == IF n = 0 THEN expected ELSE inner[n - 1].not
      holds[n \in Nat] == Satisfies(actual, inner[n], holds[n + 1])
  IN  holds[0]

EventMatchesStage(event, stage) ==
  /\ event.type = stage.event_type
  /\ \A path \in DOMAIN stage.where :
       MatchesExpected(PathValue(event, path), stage.where[path])

----------------------------------------------------------------------------
(***************************************************************************)
(* evaluate_sequence_rule                                                  *)
(***************************************************************************)
Text(value) == IF value = Absent THEN Empty ELSE value

GroupKey(event, paths) == [i \in DOMAIN paths |-> Text(PathValue(event, paths[i]))]

\* Keys in the order in which they first appear.
GroupKeys(events, paths) ==
  FoldLeft(LAMBDA keys, event :
             LET key == GroupKey(event, paths)
             IN  IF key \in Range(keys) THEN keys ELSE Append(keys, key),
           << >>, events)

Before(e, f) ==
  \/ e.at < f.at
  \/ e.at = f.at /\ e.sequence < f.sequence
  \/ e.at = f.at /\ e.sequence = f.sequence /\ e.id < f.id

\* Mutant: events stay in the order in which they arrived.
ArrivalOrder(events, paths, key) ==
  SelectSeq(events, LAMBDA event : GroupKey(event, paths) = key)

\* In front of the first event that it comes before.
InsertInOrder(ordered, event) ==
  LET i == SelectInSeq(ordered, LAMBDA other : Before(event, other))
  IN  InsertAt(ordered, IF i = 0 THEN Len(ordered) + 1 ELSE i, event)

OrderedGroup(events, paths, key) ==
  FoldLeft(LAMBDA ordered, event :
             IF GroupKey(event, paths) = key THEN InsertInOrder(ordered, event) ELSE ordered,
           << >>, events)

Times(events) == {event.at : event \in Range(events)}

WithinWindow(events, within) ==
  within = Nil \/ Len(events) < 2 \/ Max(Times(events)) - Min(Times(events)) <= within

\* One pass: each event may fill the next open stage; a completed sequence is
\* kept when it fits the window, and the search goes on behind it either way.
MatchOrdered(events, stages, within) ==
  FoldLeft(
    LAMBDA scan, event :
      LET matched == Append(scan.matched, event) IN
      IF ~EventMatchesStage(event, stages[Len(matched)]) THEN scan
      ELSE IF Len(matched) < Len(stages) THEN [scan EXCEPT !.matched = matched]
      ELSE [matched |-> << >>,
            matches |-> IF WithinWindow(matched, within)
                        THEN Append(scan.matches, matched) ELSE scan.matches],
    [matched |-> << >>, matches |-> << >>], events).matches

\* Each stage takes the first event left that matches it; one match at most.
TakeNth(scan, i) ==
  IF i = 0 THEN [scan EXCEPT !.failed = TRUE]
  ELSE [scan EXCEPT !.left = RemoveAt(@, i), !.matched = Append(@, scan.left[i])]

TakeStages(events, stages) ==
  FoldLeft(
    LAMBDA scan, stage :
      TakeNth(scan, SelectInSeq(scan.left, LAMBDA event : EventMatchesStage(event, stage))),
    [left |-> events, matched |-> << >>, failed |-> FALSE], stages)

MatchOf(taken, within) ==
  IF taken.failed \/ ~WithinWindow(taken.matched, within) THEN << >> ELSE <<taken.matched>>

MatchUnordered(events, stages, within) == MatchOf(TakeStages(events, stages), within)

SuppressionKey(rule, key, matched) ==
  IF rule.suppression_key = << >> THEN key
  ELSE GroupKey(matched[1], rule.suppression_key)

Recalled(last, under, at) ==
  [k \in DOMAIN last \cup {under} |-> IF k = under THEN at ELSE last[k]]

\* A match is held back when it starts too soon after the last one reported
\* under its key.
SuppressAndDedupe(matches, rule, key) ==
  FoldLeft(
    LAMBDA done, matched :
      LET under  == SuppressionKey(rule, key, matched)
          at     == Min(Times(matched))
          ids    == [i \in DOMAIN matched |-> matched[i].id]
          tooSoon == /\ rule.suppression_seconds # Nil
                     /\ under \in DOMAIN done.last
                     /\ at - done.last[under] <= rule.suppression_seconds
      IN  IF rule.deduplicate /\ ids \in done.seen THEN done
          ELSE IF tooSoon THEN [done EXCEPT !.seen = @ \cup {ids}]
          ELSE [seen |-> done.seen \cup {ids}, last |-> Recalled(done.last, under, at),
                emitted |-> Append(done.emitted, matched)],
    [seen |-> {}, last |-> << >>, emitted |-> << >>], matches).emitted

Keyed(key, matches) == [i \in DOMAIN matches |-> [key |-> key, events |-> matches[i]]]

MatchesOfGroup(events, rule, key) ==
  LET ordered == OrderedGroup(events, rule.group_by, key)
      found   == IF rule.ordered
                 THEN MatchOrdered(ordered, rule.stages, rule.within_seconds)
                 ELSE MatchUnordered(ordered, rule.stages, rule.within_seconds)
  IN  Keyed(key, SuppressAndDedupe(found, rule, key))

EvaluateSequenceRule(events, rule) ==
  LET keys == GroupKeys(events, rule.group_by)
  IN  FlattenSeq([i \in DOMAIN keys |-> MatchesOfGroup(events, rule, keys[i])])

Matches(events, rule) == EvaluateSequenceRule(events, rule) # << >>

\* The built-in rules that match: what validators and the service evaluate.
DetectedRules(events) ==
  {BuiltInSequenceRules[i].rule_id :
     i \in {j \in DOMAIN BuiltInSequenceRules : Matches(events, BuiltInSequenceRules[j])}}

\* explain_sequence_rule: the candidates of every stage, group by group.
Candidates(events, rule, key) ==
  [i \in DOMAIN rule.stages |->
     SelectSeq(OrderedGroup(events, rule.group_by, key),
               LAMBDA event : EventMatchesStage(event, rule.stages[i]))]

ExplainSequenceRule(events, rule) ==
  [matches |-> EvaluateSequenceRule(events, rule),
   groups  |-> [key \in Range(GroupKeys(events, rule.group_by)) |->
                  Candidates(events, rule, key)]]

----------------------------------------------------------------------------
(***************************************************************************)
(* The lab.  mutate_events, one strategy at a time, for seed 0; skew,      *)
(* missing optional fields and other spellings of a path change fields     *)
(* that no modelled rule reads.                                            *)
(***************************************************************************)
BenignDistractor(events) ==
  Append(events, [Last(events) EXCEPT !.id = @ + 1, !.type = "resource.observed",
                                      !.payload = << >>])

DuplicateEvent(events, seed) ==
  LET index == (seed % Len(events)) + 1
  IN  Append(events, [events[index] EXCEPT !.id = @ + 2, !.sequence = @ + 10000 + seed])

OutcomeUncertainty(events) ==
  LET i == SelectInSeq(events, LAMBDA event : event.type = "side_effect.verified")
  IN  IF i = 0 THEN events
      ELSE [events EXCEPT ![i].type = "side_effect.unverified",
              ![i].payload = [path \in DOMAIN @ |->
                IF path = "evidence_link.verification_status" THEN "unverified" ELSE @[path]]]

Strategies ==
  {"benign_distractor", "duplicate_event", "reorder_unrelated", "timestamp_skew",
   "missing_optional_field", "path_url_normalization", "outcome_uncertainty"}

MutateEvents(events, strategy, expected, seed) ==
  [expected |-> IF strategy = "outcome_uncertainty" /\ events # << >> THEN FALSE ELSE expected,
   events   |-> IF events = << >> THEN << >>
                ELSE CASE strategy = "benign_distractor"    -> BenignDistractor(events)
                       [] strategy = "duplicate_event"      -> DuplicateEvent(events, seed)
                       [] strategy = "reorder_unrelated"    -> Reverse(events)
                       [] strategy = "outcome_uncertainty"  -> OutcomeUncertainty(events)
                       [] OTHER                             -> events]

\* score_detection_robustness: the cases whose verdict is not the expected one.
ScoreDetectionRobustness(rule, cases) ==
  LET wrong == {case \in DOMAIN cases : Matches(cases[case].events, rule) # cases[case].expected}
      positive == {case \in DOMAIN cases : cases[case].expected}
  IN  [false_positive |-> wrong \ positive, false_negative |-> wrong \cap positive,
       passed |-> Cardinality(DOMAIN cases) - Cardinality(wrong)]

\* Mutant: every event is tried against the whole case, not against what is left.
MinimizeAgainstWhole(rule, case) ==
  IF Matches(case.events, rule) = case.expected THEN case
  ELSE [case EXCEPT !.events =
          SelectSeq(@, LAMBDA event :
            Matches(SelectSeq(case.events, LAMBDA e : e # event), rule) = case.expected)]

\* minimize_counterexample: drop the first event without which the verdict is
\* still wrong, and start again until there is none.
WithoutFirst(rule, events, expected) ==
  LET i == SelectInSeq([j \in DOMAIN events |-> RemoveAt(events, j)],
                       LAMBDA fewer : Matches(fewer, rule) # expected)
  IN  IF i = 0 THEN events ELSE RemoveAt(events, i)

MinimizeCounterexample(rule, case) ==
  LET left[n \in 0 .. Len(case.events)] ==
        IF n = 0 THEN case.events ELSE WithoutFirst(rule, left[n - 1], case.expected)
  IN  IF Matches(case.events, rule) = case.expected THEN case
      ELSE [case EXCEPT !.events = left[Len(case.events)]]

----------------------------------------------------------------------------
DetectionInit ==
  corpus = << >> /\ pack = Nil /\ rules = << >> /\ report = Nil /\ replay = Nil

LoadPack ==
  /\ pack = Nil
  /\ pack' \in Packs
  /\ rules' = LoadSequenceRules(pack')
  /\ UNCHANGED <<corpus, report, replay>>

Arrive ==
  /\ pack # Nil /\ rules # Bad /\ report = Nil
  /\ Len(corpus) < MaxEvents
  /\ \E event \in EventPool \ Range(corpus) : corpus' = Append(corpus, event)
  /\ UNCHANGED <<pack, rules, report, replay>>

Explain ==
  /\ pack # Nil /\ rules # Bad /\ report = Nil
  /\ report' = ExplainSequenceRule(corpus, rules[1])
  /\ UNCHANGED <<corpus, pack, rules, replay>>

\* The lab takes the verdict over the corpus as the expected one, scores every
\* mutation of it, and minimizes the case of a reviewer who expects the other.
Replay ==
  /\ report # Nil /\ replay = Nil
  /\ \E seed \in 0 .. Max({0, Len(corpus) - 1}) :
       LET verdict == Matches(corpus, rules[1])
           cases   == [strategy \in Strategies |->
                         MutateEvents(corpus, strategy, verdict, seed)]
       IN  replay' = [score |-> ScoreDetectionRobustness(rules[1], cases),
                      failing |-> MinimizeCounterexample(rules[1],
                                    [events |-> corpus, expected |-> ~verdict])]
  /\ UNCHANGED <<corpus, pack, rules, report>>

DetectionNext == LoadPack \/ Arrive \/ Explain \/ Replay

DetectionSpec == DetectionInit /\ [][DetectionNext]_detectionVars

----------------------------------------------------------------------------
\* The ways to assign events of a group, in the order they occurred, to the
\* stages of a rule: positions that grow when the rule is ordered, and that
\* differ when it is not.
Occurrences(events, rule) ==
  {at \in [DOMAIN rule.stages -> DOMAIN events] :
     /\ \A i \in DOMAIN at : EventMatchesStage(events[at[i]], rule.stages[i])
     /\ \A i, j \in DOMAIN at : i < j => IF rule.ordered THEN at[i] < at[j] ELSE at[i] # at[j]
     /\ WithinWindow([i \in DOMAIN at |-> events[at[i]]], rule.within_seconds)}

Overlapping(rule) ==
  \E i, j \in DOMAIN rule.stages :
    i # j /\ rule.stages[i].event_type = rule.stages[j].event_type

\* The same events in any order of arrival.
Rearranged(events) ==
  {[i \in DOMAIN events |-> events[order[i]]] :
     order \in Bijection(DOMAIN events, DOMAIN events)}

\* What a rule reports happened: every match is one occurrence of its stages in
\* its group, within the window, and shares no event with another match; a rule
\* without a window reports every group in which its stages occur (an unordered
\* one when its stages cannot compete for an event); and neither depends on the
\* order in which the events arrived.
ReportedSequencesOccurred ==
  report # Nil =>
    LET rule  == rules[1]
        found == Range(report.matches)
        InGroup(key) == OrderedGroup(corpus, rule.group_by, key)
    IN  /\ \A match \in found :
             \E at \in Occurrences(InGroup(match.key), rule) :
               match.events = [i \in DOMAIN at |-> InGroup(match.key)[at[i]]]
        /\ \A m, n \in found : m # n => Range(m.events) \cap Range(n.events) = {}
        /\ rule.within_seconds = Nil /\ (rule.ordered \/ ~Overlapping(rule)) =>
             \A key \in DOMAIN report.groups :
               Occurrences(InGroup(key), rule) # {} => \E match \in found : match.key = key
        /\ \A other \in Rearranged(corpus) : Range(EvaluateSequenceRule(other, rule)) = found

\* The lab: when no two events of the corpus occurred at once, no two stages
\* compete for an event and none asks for what the distractor is, a rule gives
\* the same verdict over every copy that only adds a distractor or a duplicate or
\* arrives in another order; and a minimized counterexample is part of the corpus
\* in its order, still fails, and no longer does without any one of its events.
LabVerdictsStand ==
  replay # Nil =>
    LET case == replay.failing
        stages == rules[1].stages
    IN
    /\ /\ \A i, j \in DOMAIN corpus : i # j => corpus[i].at # corpus[j].at
       /\ ~Overlapping(rules[1])
       /\ \A i \in DOMAIN stages : stages[i].event_type # "resource.observed"
       => (replay.score.false_positive \cup replay.score.false_negative)
            \subseteq {"outcome_uncertainty"}
    /\ \E at \in [DOMAIN case.events -> DOMAIN corpus] :
         /\ \A i, j \in DOMAIN at : i < j => at[i] < at[j]
         /\ case.events = [i \in DOMAIN at |-> corpus[at[i]]]
    /\ Matches(case.events, rules[1]) # case.expected
    /\ \A i \in DOMAIN case.events :
         Matches(RemoveAt(case.events, i), rules[1]) = case.expected

=============================================================================
