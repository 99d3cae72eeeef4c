-------------------------- MODULE ContractValidation --------------------------
(***************************************************************************)
(* Lineage contracts over the events of a journal                          *)
(* (contracts/validation.py), as the command line, the service and library *)
(* callers validate them: the scan of JournalVerification decides what     *)
(* counts as evidence, the rules of SequenceDetection what was detected.   *)
(*                                                                         *)
(* The body of a line is an event of SequenceDetection; a required path    *)
(* starts with "payload" or not, and is a pair here.  A contract document  *)
(* is a record with every field of the format, Nil where it is missing.    *)
(***************************************************************************)
EXTENDS JournalVerification, SequenceDetection

CONSTANTS
  Contracts,     \* contract documents that are validated
  Recordable     \* events that may be recorded

VARIABLES
  held,      \* the lines of the snapshot that a library caller holds, or Nil
  verdict    \* the last result, with what was judged and what the file held

contractVars == <<held, verdict>>

----------------------------------------------------------------------------
(***************************************************************************)
(* contract_from_dict and contract_to_dict: defaults and required fields.  *)
(***************************************************************************)
DefaultAll(items, field, default) ==
  [i \in DOMAIN items |-> [items[i] EXCEPT ![field] = Default(@, default)]]

ContractLoads(document) ==
  /\ \A field \in DOMAIN document : document[field] # Bad
  /\ document.name # Nil
  /\ \A i \in DOMAIN document.events : document.events[i].event_type # Nil
  /\ \A i \in DOMAIN document.relationships :
       Nil \notin {document.relationships[i].child, document.relationships[i].parent}
  /\ \A i \in DOMAIN document.latency :
       Nil \notin {document.latency[i].start, document.latency[i].end,
                   document.latency[i].max_seconds}
  /\ \A i \in DOMAIN document.descriptors : document.descriptors[i].event_type # Nil
  /\ \A i \in DOMAIN document.detections : document.detections[i].rule_id # Nil

ContractFromDict(document) ==
  [document EXCEPT
     !.evidence_links = DefaultAll(@, "event_type", "side_effect.verified"),
     !.latency        = DefaultAll(@, "group_by", <<"correlation.run_id">>),
     !.descriptors    = DefaultAll(DefaultAll(DefaultAll(@,
                          "hash_field", <<"payload", "tool_identity.descriptor_hash">>),
                          "name_field", <<"payload", "tool_identity.name">>),
                          "hash_prefix", "sha256"),
     !.detections     = DefaultAll(@, "required", TRUE),
     !.hash_chain     = Default(@, TRUE)]

NoRequirements(name) ==
  [name |-> name, events |-> << >>, relationships |-> << >>, evidence_links |-> << >>,
   latency |-> << >>, descriptors |-> << >>, detections |-> << >>,
   allowed |-> {}, required_status |-> Nil, hash_chain |-> Nil]

AnyLink ==
  [event_type |-> Nil, subject_type |-> Nil, evidence_type |-> Nil, relationship |-> Nil,
   status |-> Nil, observer |-> Nil, corroboration |-> {}]

\* write_contract_template
ContractTemplate ==
  [NoRequirements("actionlineage-contract") EXCEPT
     !.events = <<
       [event_type |-> "tool.execution.requested",
        fields |-> {<<"payload", "tool_identity.name">>}],
       [event_type |-> "tool.execution.acknowledged",
        fields |-> {<<"payload", "acknowledgement.status">>}],
       [event_type |-> "side_effect.verified",
        fields |-> {<<"payload", "evidence_link.subject_event_id">>,
                    <<"payload", "evidence_link.evidence_event_id">>,
                    <<"payload", "evidence_link.verification_status">>}]>>,
     !.relationships = <<[child |-> "tool.execution.acknowledged",
                          parent |-> "tool.execution.dispatched", field |-> Nil]>>,
     !.evidence_links = <<[AnyLink EXCEPT !.event_type = "side_effect.verified",
                                          !.status = "verified"]>>,
     !.descriptors = <<[event_type |-> "tool.execution.requested", hash_field |-> Nil,
                        name_field |-> Nil, hash_prefix |-> Nil]>>,
     !.allowed = {"verified", "unverified", "timed_out", "conflicting", "observed"}]

----------------------------------------------------------------------------
(***************************************************************************)
(* Reading events.                                                         *)
(***************************************************************************)
Bodied(file) == [i \in DOMAIN file |-> file[i].body]

OfType(events, type) == {event \in Range(events) : event.type = type}

GetPath(event, path) ==
  LET fields == IF path[1] = "payload" THEN event.payload ELSE event.envelope
  IN  IF path[2] \in DOMAIN fields THEN fields[path[2]] ELSE Absent

\* An empty text or container does not count.
HasNonemptyField(event, path) == GetPath(event, path) \notin {Absent, Empty}

LinkField(event, field) ==
  LET value == GetPath(event, <<"payload", field>>)
  IN  IF value = Empty THEN Absent ELSE value

LinkFields ==
  {"evidence_link.subject_event_id", "evidence_link.evidence_event_id",
   "evidence_link.relationship", "evidence_link.verification_status",
   "evidence_link.observer_identity", "evidence_link.corroboration_type"}

HasLink(event) == DOMAIN event.payload \cap LinkFields # {}

\* events_by_id: of events with one id the last is found.
EventById(events, id) ==
  LET at == {i \in DOMAIN events : events[i].id = id}
  IN  IF at = {} THEN Absent ELSE events[Max(at)]

VerificationStatuses(events) ==
  {LinkField(event, field) :
     event \in Range(events),
     field \in {"evidence_link.verification_status", "verification_status"}} \ {Absent}

\* What a violation is about: a kind of thing and which one.
Violation(code, about) == [code |-> code, about |-> about]
InEvent(code, event) == Violation(code, <<"event", event.id>>)
InType(code, type)   == Violation(code, <<"type", type>>)

----------------------------------------------------------------------------
(***************************************************************************)
(* The requirements, one operator each: the violations that it finds.      *)
(***************************************************************************)
\* Mutant: the terminal hash of the verification is not compared.
IntegrityByCount(supplied, verification) ==
  CASE verification = Nil  -> {Violation("journal_integrity_unverified", Nil)}
    [] verification # Nil /\ ~verification.ok ->
         {Violation("journal_integrity_violation", Nil)}
    [] OTHER -> IF verification.records # Len(supplied)
                THEN {Violation("journal_integrity_snapshot_mismatch", Nil)} ELSE {}

IntegrityViolations(supplied, verification) ==
  CASE verification = Nil  -> {Violation("journal_integrity_unverified", Nil)}
    [] verification # Nil /\ ~verification.ok ->
         {Violation("journal_integrity_violation", Nil)}
    [] OTHER -> IF \/ verification.records # Len(supplied)
                   \/ verification.lastHash # TerminalHash(supplied)
                THEN {Violation("journal_integrity_snapshot_mismatch", Nil)} ELSE {}

EventViolations(events, requirement) ==
  LET matches == OfType(events, requirement.event_type) IN
  IF matches = {} THEN {InType("required_event_missing", requirement.event_type)}
  ELSE {Violation("required_field_missing", <<"field", field>>) :
          field \in {f \in requirement.fields :
                       \A event \in matches : ~HasNonemptyField(event, f)}}

RelationshipExists(events, relationship) ==
  \E child \in OfType(events, relationship.child) :
    LET parentId == IF relationship.field # Nil THEN GetPath(child, relationship.field)
                    ELSE GetPath(child, <<"envelope", "causality.parent_event_id">>)
        parent   == EventById(events, parentId)
    IN  parentId # Absent /\ parent # Absent /\ parent.type = relationship.parent

RelationshipViolations(events, relationship) ==
  IF RelationshipExists(events, relationship) THEN {}
  ELSE {InType("relationship_missing", relationship.child)}

LinkTypeViolations(event, requirement, subject, evidence) ==
  LET Expected(wanted, actual) == wanted \in {Nil, actual}
      matches ==
        /\ Expected(requirement.subject_type, subject.type)
        /\ Expected(requirement.evidence_type, evidence.type)
        /\ Expected(requirement.relationship, LinkField(event, "evidence_link.relationship"))
        /\ Expected(requirement.status, LinkField(event, "evidence_link.verification_status"))
        /\ Expected(requirement.observer, LinkField(event, "evidence_link.observer_identity"))
        /\ requirement.corroboration # {} =>
             LinkField(event, "evidence_link.corroboration_type") \in requirement.corroboration
  IN  IF matches THEN {} ELSE {InEvent("evidence_link_requirement_mismatch", event)}

LinkViolations(events, requirement) ==
  LET matches == OfType(events, requirement.event_type)
      Of(event) ==
        LET subjectId  == LinkField(event, "evidence_link.subject_event_id")
            evidenceId == LinkField(event, "evidence_link.evidence_event_id")
            subject    == EventById(events, subjectId)
            evidence   == EventById(events, evidenceId)
        IN  IF ~HasLink(event) THEN {InEvent("evidence_link_missing", event)}
            ELSE IF Absent \in {subjectId, evidenceId}
            THEN {InEvent("evidence_link_field_missing", event)}
            ELSE IF Absent \in {subject, evidence}
            THEN {InEvent("evidence_link_reference_missing", event)}
            ELSE LinkTypeViolations(event, requirement, subject, evidence)
  IN  IF matches = {}
      THEN {InType("evidence_link_event_missing", requirement.event_type)}
      ELSE UNION {Of(event) : event \in matches}

Distance(s, e) == IF s.at <= e.at THEN e.at - s.at ELSE s.at - e.at

\* Every end is measured from the nearest start of its group, before it or
\* after it; a start that has no end is not looked at.
LatencyViolations(events, requirement) ==
  LET starts == OfType(events, requirement.start)
      ends   == OfType(events, requirement.end)
      StartsFor(end) == {start \in starts : GroupKey(start, requirement.group_by)
                                              = GroupKey(end, requirement.group_by)}
      Of(end) ==
        IF StartsFor(end) = {} THEN {InEvent("latency_start_missing", end)}
        ELSE IF Min({Distance(start, end) : start \in StartsFor(end)})
                  > requirement.max_seconds
        THEN {InEvent("latency_breach", end)}
        ELSE {}
  IN  IF {} \in {starts, ends} THEN {InType("latency_event_missing", requirement.end)}
      ELSE UNION {Of(end) : end \in ends}

\* Of a hash, the prefix it begins with matters.
DescriptorViolations(events, requirement) ==
  LET matches == OfType(events, requirement.event_type)
      Of(event) ==
        LET name == GetPath(event, requirement.name_field)
            hash == GetPath(event, requirement.hash_field)
        IN  IF name = Absent \/ hash = Absent
            THEN {InEvent("descriptor_identity_missing", event)}
            ELSE IF hash.algorithm # requirement.hash_prefix
            THEN {InEvent("descriptor_hash_invalid", event)}
            ELSE {}
  IN  IF matches = {} THEN {InType("descriptor_event_missing", requirement.event_type)}
      ELSE UNION {Of(event) : event \in matches}

DetectionViolations(events, detected, requirement) ==
  IF requirement.rule_id \notin detected
  THEN IF requirement.required
       THEN {Violation("required_detection_missing", <<"rule", requirement.rule_id>>)} ELSE {}
  ELSE IF \/ \E type \in requirement.event_types : OfType(events, type) = {}
          \/ ~(requirement.statuses \subseteq VerificationStatuses(events))
  THEN {Violation("detection_control_dependency_missing", <<"rule", requirement.rule_id>>)}
  ELSE {}

StatusViolations(events, contract) ==
  LET statuses == VerificationStatuses(events) IN
  {Violation("verification_status_missing", <<"status", status>>) :
     status \in {contract.required_status} \ (statuses \cup {Nil})}
  \cup {Violation("verification_status_not_allowed", <<"status", status>>) :
          status \in IF contract.allowed = {} THEN {} ELSE statuses \ contract.allowed}

ValidateContract(supplied, contract, detected, verification) ==
  LET events == Bodied(supplied)
      All(requirements, Of(_)) == UNION {Of(requirements[i]) : i \in DOMAIN requirements}
      Events(r)        == EventViolations(events, r)
      Relationships(r) == RelationshipViolations(events, r)
      Links(r)         == LinkViolations(events, r)
      Latency(r)       == LatencyViolations(events, r)
      Descriptors(r)   == DescriptorViolations(events, r)
      Detections(r)    == DetectionViolations(events, detected, r)
  IN  (IF contract.hash_chain THEN IntegrityViolations(supplied, verification) ELSE {})
        \cup All(contract.events, Events)
        \cup All(contract.relationships, Relationships)
        \cup All(contract.evidence_links, Links)
        \cup All(contract.latency, Latency)
        \cup All(contract.descriptors, Descriptors)
        \cup All(contract.detections, Detections)
        \cup StatusViolations(events, contract)

\* _validate_contract_from_files and the endpoint of the service: one snapshot,
\* refused as a whole when the scan found an issue.
ValidateFromFiles(file, contract, builtIn) ==
  LET events == Bodied(file) IN
  IF ~LocalScan(file).ok THEN {Violation("journal_integrity_violation", Nil)}
  ELSE ValidateContract(file, contract, IF builtIn THEN DetectedRules(events) ELSE {},
                        LocalScan(file))

----------------------------------------------------------------------------
ContractIdle == held = Nil /\ verdict = Nil

ContractInit ==
  ContractIdle /\ written = << >> /\ lines = << >> /\ edits = 0 /\ resealed = FALSE

\* Events are recorded until the stored lines are first changed.
Record ==
  /\ Len(lines) < MaxRecords /\ edits = 0
  /\ \E event \in Recordable \ Range(Bodied(lines)) :
       lines' = Append(lines, Prepared(lines, event))
  /\ written' = lines'
  /\ UNCHANGED <<edits, resealed, held, verdict>>

\* The file is exchanged for one with other contents: its tail is lost, or an
\* event is replaced, with or without recomputed integrity fields behind it.
Exchange ==
  /\ lines # << >> /\ edits < 2
  /\ \/ Change(Front(lines)) /\ UNCHANGED resealed
     \/ \E i \in DOMAIN lines, event \in Recordable \ Range(Bodied(lines)) :
          LET edited == [lines EXCEPT ![i].body = event] IN
          \/ Change(edited) /\ UNCHANGED resealed
          \/ Change(Sealed(Bodied(edited))) /\ resealed' = TRUE
  /\ UNCHANGED <<held, verdict>>

\* A library caller keeps the events of a verified snapshot.
TakeSnapshot ==
  /\ held = Nil
  /\ held' = SubSeq(lines, 1, LocalScan(lines).records)
  /\ UNCHANGED <<written, lines, edits, resealed, verdict>>

Judge(document, judged, violations) ==
  /\ verdict' = IF ContractLoads(document)
                THEN [contract |-> ContractFromDict(document), judged |-> judged,
                      file |-> lines, ok |-> violations = {}, violations |-> violations]
                ELSE Bad
  /\ UNCHANGED <<written, lines, edits, resealed, held>>

ValidateFiles ==
  \E document \in Contracts, builtIn \in BOOLEAN :
    Judge(document, lines,
          ValidateFromFiles(lines, ContractFromDict(document), builtIn))

\* The caller verifies the journal again, or passes no verification.
ValidateHeld ==
  /\ held # Nil
  /\ \E document \in Contracts, verification \in {Nil, LocalScan(lines)} :
       Judge(document, held,
             ValidateContract(held, ContractFromDict(document),
                              DetectedRules(Bodied(held)), verification))

\* One validation ends a behaviour.
ContractNext ==
  /\ verdict = Nil
  /\ Record \/ Exchange \/ TakeSnapshot \/ ValidateFiles \/ ValidateHeld

ContractSpec == ContractInit /\ [][ContractNext]_<<vars, contractVars>>

----------------------------------------------------------------------------
\* A contract that asks for the hash chain passes only over the whole contents of
\* the file, as the append path could have written them, whoever read them and
\* whatever became of the file since; every event whose link it examined links to
\* events recorded there; and the stages of every rule it requires occurred.
PassedContractsHold ==
  verdict \notin {Nil, Bad} /\ verdict.ok =>
    LET events == Bodied(verdict.judged)
        contract == verdict.contract
        Links(type) == OfType(events, type)
    IN  /\ contract.hash_chain => /\ verdict.judged = verdict.file
                                  /\ verdict.file = Sealed(events)
        /\ \A i \in DOMAIN contract.evidence_links :
             /\ Links(contract.evidence_links[i].event_type) # {}
             /\ \A event \in Links(contract.evidence_links[i].event_type) :
                  {event.payload["evidence_link.subject_event_id"],
                   event.payload["evidence_link.evidence_event_id"]}
                    \subseteq {e.id : e \in Range(events)}
        /\ \A i \in DOMAIN contract.detections :
             contract.detections[i].required =>
               \E rule \in Range(BuiltInSequenceRules) :
                 /\ rule.rule_id = contract.detections[i].rule_id
                 /\ \E key \in Range(GroupKeys(events, rule.group_by)) :
                      Occurrences(OrderedGroup(events, rule.group_by, key), rule) # {}

=============================================================================
