------------------------ MODULE MCJournalVerification ------------------------
(***************************************************************************)
(* What the readers of stored evidence conclude, on a small instance: the  *)
(* scan of changed lines, contracts over a journal that changes between a  *)
(* snapshot and a validation, and detections over events that arrive in    *)
(* any order.  A behaviour examines one reader and leaves the variables of *)
(* the others alone.                                                       *)
(***************************************************************************)
EXTENDS ContractValidation

VARIABLE reader

Symmetry == Permutations(Bodies)

----------------------------------------------------------------------------
Event(n, type, at, run, payload) ==
  [id |-> 10 * n, type |-> type, at |-> at, sequence |-> n,
   envelope |-> IF run = Absent THEN << >> ELSE "correlation.run_id" :> run,
   payload |-> payload]

Read(n, at, run, risk)   == Event(n, "action.normalized", at, run, "risk" :> risk)
Effect(n, at, run, status) ==
  Event(n, "side_effect.verified", at, run, "evidence_link.verification_status" :> status)

SmallPool ==
  {Read(1, 0, "r1", 2), Effect(2, 1000, "r1", "verified"), Read(3, 1000, "r1", 1),
   Effect(4, 2000, "r1", "verified"), Read(5, 3000, "r2", 2), Effect(6, 3000, "r2", "verified"),
   Read(7, 2000, Absent, 1)}

ReadStage     == Stage("action.normalized", Nil)
RiskyRead     == Stage("action.normalized", "risk" :> [gte |-> 2, lt |-> 0])
SafeRead      == Stage("action.normalized", "risk" :> [not |-> [gt |-> 1]])
VerifiedStage == Stage("side_effect.verified",
                       "evidence_link.verification_status" :> [literal |-> "verified"])
KnownStage    == Stage("side_effect.verified",
                       "correlation.run_id" :> [exists |-> TRUE])
PrefixStage   == Stage("side_effect.verified",
                       "evidence_link.verification_status" :> [prefix |-> {"verified"}])

Seconds(n) == [amount |-> n, unit |-> Nil]

Rule(stages) == RuleOf("rule", stages)

ReadThenEffect == Rule(<<RiskyRead, VerifiedStage>>)
TwoStages      == Rule(<<ReadStage, KnownStage>>)

Documents ==
  {ReadThenEffect, TwoStages,
   [TwoStages EXCEPT !.within_seconds = Seconds(1)],
   [TwoStages EXCEPT !.ordered = FALSE, !.group_by = << >>],
   [TwoStages EXCEPT !.kind = "SequenceDetection", !.ordered = FALSE,
                     !.within_seconds = [amount |-> 500, unit |-> "ms"]],
   [Rule(<<ReadStage>>) EXCEPT !.suppression_seconds = Seconds(1)],
   [Rule(<<VerifiedStage>>) EXCEPT !.suppression_seconds = Seconds(1), !.deduplicate = FALSE,
                     !.suppression_key = <<"evidence_link.verification_status">>,
                     !.group_by = <<"absent">>],
   Rule(<<ReadStage, SafeRead>>),
   [Rule(<<PrefixStage, PrefixStage, ReadStage>>) EXCEPT !.ordered = FALSE,
                     !.group_by = <<"absent">>],
   [TwoStages EXCEPT !.within_seconds = [amount |-> 1, unit |-> "m"]],
   [TwoStages EXCEPT !.stages = << >>],
   [TwoStages EXCEPT !.deduplicate = Bad],
   Rule(<<ReadStage, Stage(Nil, Nil)>>),
   Rule(<<Stage("action.normalized", "risk" :> [contains |-> 1])>>)}

SmallPacks == {<<document>> : document \in Documents} \cup {<<TwoStages, Rule(<< >>)>>}


----------------------------------------------------------------------------
\* Events and documents for contracts.
Call(n, type, at, payload, parent) ==
  [Event(n, type, at, "r1", payload) EXCEPT !.envelope = "causality.parent_event_id" :> parent @@ @]

LinkTo(subject, evidence) ==
  "evidence_link.subject_event_id" :> subject @@ "evidence_link.evidence_event_id" :> evidence
    @@ "evidence_link.verification_status" :> "verified"

SmallRecordable ==
  {Call(1, "tool.execution.requested", 0,
        "tool_identity.name" :> "tool" @@ "tool_identity.descriptor_hash" :> [algorithm |-> "sha256"],
        Absent),
   Call(2, "action.normalized", 1000,
        "action.resources.0.attributes.sensitivity" :> "restricted", 10),
   Call(3, "side_effect.verified", 3000, LinkTo(10, 20), 20),
   Call(4, "side_effect.verified", 2000, "evidence_link.subject_event_id" :> 10, 10)}

LinksOnly == [NoRequirements("links") EXCEPT !.evidence_links = <<AnyLink>>]

Covered ==
  [LinksOnly EXCEPT
     !.events = <<[event_type |-> "tool.execution.requested",
                   fields |-> {<<"payload", "tool_identity.name">>}]>>,
     !.relationships = <<[child |-> "action.normalized", parent |-> "tool.execution.requested",
                          field |-> Nil]>>,
     !.latency = <<[start |-> "action.normalized", end |-> "side_effect.verified",
                    max_seconds |-> 2000, group_by |-> Nil]>>,
     !.descriptors = <<[event_type |-> "tool.execution.requested", hash_field |-> Nil,
                        name_field |-> Nil, hash_prefix |-> Nil]>>,
     !.detections = <<[rule_id |-> "AL-DET-001", required |-> Nil,
                       event_types |-> {"side_effect.verified"}, statuses |-> {"verified"}]>>,
     !.allowed = {"verified"}, !.required_status = "verified"]

SmallContracts ==
  {ContractTemplate, LinksOnly, Covered, [Covered EXCEPT !.descriptors[1].hash_prefix = "sha512"],
   [LinksOnly EXCEPT !.hash_chain = FALSE],
   [NoRequirements("chain") EXCEPT !.hash_chain = TRUE],
   [LinksOnly EXCEPT !.detections = <<[rule_id |-> Nil, required |-> Nil, event_types |-> {},
                                       statuses |-> {}]>>],
   [LinksOnly EXCEPT !.relationships = Bad]}

----------------------------------------------------------------------------
MCInit ==
  \/ reader = "scan" /\ Init /\ ContractIdle /\ DetectionInit
  \/ reader = "contract" /\ ContractInit /\ DetectionInit
  \/ reader = "detection" /\ ContractInit /\ DetectionInit

MCNext ==
  /\ UNCHANGED reader
  /\ \/ reader = "scan" /\ Next /\ UNCHANGED <<contractVars, detectionVars>>
     \/ reader = "contract" /\ ContractNext /\ UNCHANGED detectionVars
     \/ reader = "detection" /\ DetectionNext /\ UNCHANGED <<vars, contractVars>>

MCSpec == MCInit /\ [][MCNext]_<<reader, vars, contractVars, detectionVars>>
==============================================================================
