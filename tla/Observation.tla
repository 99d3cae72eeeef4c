----------------------------- MODULE Observation -----------------------------
(***************************************************************************)
(* Observers of side effects and the decisions made from them              *)
(* (observers/): tools deliver to receivers that may lose, repeat or alter *)
(* what was sent, an observer reads what its source recorded, and          *)
(* verify_observation turns the observation into a decision, later and     *)
(* under a declaration that may have expired by then.                      *)
(*                                                                         *)
(* A record of a fixture receiver, server log, response readback or        *)
(* webhook log has a key (the destination, URL or callback) and fields     *)
(* that may be None.  What an observer was told to expect has the same     *)
(* shape, None where the caller named nothing.  Days are numbers.          *)
(***************************************************************************)
EXTENDS Naturals, Sequences, SequencesExt, FiniteSetsExt

CONSTANTS
  None,
  Calls,           \* what tools send: records as a receiver would keep them
  Expectations,    \* what observers of receivers are asked for
  CloudRecords,    \* audit records of cloud providers, and None
  SensorRecords,   \* records of external sensor feeds
  Declarations,    \* observer attestation declarations, and None
  MaxRecords,      \* records that receivers keep
  MaxDay,          \* the last day
  MaxAge           \* max_review_age_days

\* Records and expectations have the fields that observers compare; a reviewed
\* declaration names days, and boundaries that there are.
Boundaries ==
  {"tool", "principal", "credential", "execution_host", "network_path", "storage_plane",
   "administrative_control_plane"}

ASSUME RecordsAssumption ==
  \A r \in Calls \cup Expectations :
    r = [key |-> r.key, part |-> r.part, digest |-> r.digest, status |-> r.status, etag |-> r.etag]
ASSUME DeclarationsAssumption ==
  \A declaration \in Declarations \ {None} :
    /\ declaration.reviewedAt \in Nat
    /\ declaration.validUntil \in Nat \cup {None}
    /\ declaration.independent \subseteq Boundaries
ASSUME DaysAssumption == MaxRecords \in Nat /\ MaxDay \in Nat /\ MaxAge \in Nat

VARIABLES
  sent,         \* history: the calls that tools made, in order
  receipts,     \* what the receivers recorded
  store,        \* a file and a database: whether they exist, rows, errors
  day,          \* the date attestations are judged as of
  observation,  \* the last outcome, or None
  decision      \* what was last decided, or None

observationVars == <<sent, receipts, store, day, observation, decision>>

----------------------------------------------------------------------------
(***************************************************************************)
(* Receivers: MockHttpReceiver, HttpServerLog, HttpResponseReadback and    *)
(* WebhookReceipt all look for one record of the key, and of the method or *)
(* delivery named, that contradicts nothing expected.                      *)
(***************************************************************************)
Candidates(expected) ==
  {i \in DOMAIN receipts : /\ receipts[i].key = expected.key
                           /\ expected.part \in {None, receipts[i].part}}

Conflicts(record, expected) ==
  {field \in {"digest", "status", "etag"} : expected[field] \notin {None, record[field]}}

ExactMatches(expected) ==
  {i \in Candidates(expected) : Conflicts(receipts[i], expected) = {}}

\* Mutant: any exact match corroborates, however many there are.
ReceiptOutcomeOfAny(expected) ==
  CASE ExactMatches(expected) # {}  -> "observed"
    [] ExactMatches(expected) = {} /\ Candidates(expected) # {} -> "conflicting"
    [] OTHER                           -> "unverified"

ReceiptOutcome(expected) ==
  CASE Cardinality(ExactMatches(expected)) = 1 -> "observed"
    [] ExactMatches(expected) = {} /\ Candidates(expected) # {} -> "conflicting"
    [] OTHER                           -> "unverified"

(***************************************************************************)
(* The other observers.                                                    *)
(***************************************************************************)
\* FilesystemObserver: an absent file proves nothing unless one was expected.
FileOutcome(expectedExists) ==
  CASE store.file = "slow"        -> "timed_out"
    [] store.file = "unreadable"  -> "unavailable"
    [] store.file = "present"     -> IF expectedExists = FALSE THEN "conflicting" ELSE "observed"
    [] store.file = "absent"      -> IF expectedExists = TRUE THEN "conflicting" ELSE "unverified"

\* SqliteReadbackObserver: a failing query says nothing, a missing row does.
RowOutcome(predicates, expectedExists) ==
  CASE ~store.database                    -> "unverified"
    [] store.database /\ (store.broken \/ predicates = {}) -> "unavailable"
    [] OTHER -> IF expectedExists = (store.rows > 0) THEN "observed" ELSE "conflicting"

ProcessOutcome(timedOut) == IF timedOut THEN "timed_out" ELSE "observed"

\* The cloud observers: a record either describes the write that was expected
\* or conflicts with it.  The GCP observer looks for bucket and object at the
\* end of the resource name: `ends` are the pairs that the name ends in.  The
\* Azure observer looks for the names anywhere in the resource id: `parts` are
\* the texts that the id contains.
CloudObserved(record, wanted) ==
  CASE record.provider = "aws" ->
         /\ record.service = "s3.amazonaws.com"
         /\ record.operation \in {"CompleteMultipartUpload", "CopyObject", "PutObject"}
         /\ record.container = wanted.container /\ record.name = wanted.name
    [] record.provider = "gcp" ->
         /\ record.service = "storage.googleapis.com"
         /\ record.operation \in {"storage.objects.create", "storage.objects.update"}
         /\ <<wanted.container, wanted.name>> \in record.ends
    [] record.provider = "azure" ->
         /\ record.operation = "write"
         /\ {wanted.account, wanted.container, wanted.name} \subseteq record.parts
    [] record.provider = "kubernetes" ->
         /\ record.stage = "ResponseComplete"
         /\ record.code \in 200 .. 399
         /\ wanted.operation \in {None, record.operation}
         /\ record.resource = wanted.resource /\ record.name = wanted.name
         /\ record.container = wanted.container /\ record.group = wanted.group

CloudOutcome(record, wanted) ==
  CASE record = None                              -> "unverified"
    [] record # None /\ CloudObserved(record, wanted) -> "observed"
    [] OTHER                                      -> "conflicting"

\* ObservationOutcome, with what was expected and what could be read kept as
\* history (of receivers only), and the event type it is recorded under.
Outcome(observer, resource, expected, outcome) ==
  [observer |-> observer, resource |-> resource, expected |-> expected, outcome |-> outcome,
   exact |-> IF expected # None THEN Cardinality(ExactMatches(expected)) ELSE 0]

EventTypeOf(outcome) ==
  CASE outcome = "observed"    -> "side_effect.observed"
    [] outcome = "timed_out"   -> "side_effect.timed_out"
    [] outcome = "conflicting" -> "side_effect.conflict_detected"
    [] OTHER                   -> "side_effect.unverified"

----------------------------------------------------------------------------
(***************************************************************************)
(* Attestation: what stands against a claim of independence.               *)
(***************************************************************************)
\* ObserverAttestationDeclaration.__post_init__
DeclarationIsValid(declaration) ==
  /\ declaration.complete /\ declaration.resources # {}
  /\ declaration.validUntil # None => declaration.validUntil >= declaration.reviewedAt

\* The date of the check is the reference date that the caller passes, or today
\* when it passes none: `day` stands for the one that the check goes by.
RejectionReasons(declaration, observed, action, resource) ==
  IF declaration = None THEN {"missing"}
  ELSE {reason \in {"identity", "evidence_kind", "action", "resource", "future", "expired",
                    "stale", "shared"} \cup Boundaries :
          CASE reason = "identity"      -> declaration.observer # observed.observer
            [] reason = "evidence_kind" -> declaration.kind # "independent_live_telemetry"
            [] reason = "action"        -> action = None \/ {"*", action} \cap declaration.actions = {}
            [] reason = "resource"      -> resource = None \/ resource \notin declaration.resources
            [] reason = "future"        -> declaration.reviewedAt > day
            [] reason = "expired"       -> declaration.validUntil # None /\ declaration.validUntil < day
            [] reason = "stale"         -> day > declaration.reviewedAt + MaxAge
            [] reason = "shared"        -> declaration.shared # {}
            [] OTHER                    -> reason \notin declaration.independent}

(***************************************************************************)
(* verify_observation                                                      *)
(***************************************************************************)
StatusOf(outcome) ==
  CASE outcome = "observed" -> "verified"
    [] outcome \in {"timed_out", "conflicting"} -> outcome
    [] OTHER -> "unverified"

RelationshipOf(status) ==
  CASE status = "conflicting" -> "contradicts"
    [] status = "verified"    -> "corroborates"
    [] OTHER                  -> "limits"

DecisionEventType(status) ==
  IF status = "verified" THEN "side_effect.verified" ELSE EventTypeOf(status)

Decision(observed, corroboration, declaration) ==
  LET status == StatusOf(observed.outcome) IN
  [observation |-> observed, corroboration |-> corroboration, declaration |-> declaration,
   status |-> status, relationship |-> RelationshipOf(status),
   type |-> DecisionEventType(status), day |-> day]

----------------------------------------------------------------------------
EmptyStore == [file |-> "absent", database |-> FALSE, rows |-> 0, broken |-> FALSE]

ObservationInit ==
  /\ sent = << >> /\ receipts = << >>
  /\ store = EmptyStore
  /\ day = 0 /\ observation = None /\ decision = None

\* A behaviour is about receivers or about the local store, to bound both.
\* A tool sends: the receiver records it, loses it, or records another status.
Send ==
  /\ store = EmptyStore
  /\ Len(sent) < MaxRecords /\ Len(receipts) < MaxRecords
  /\ \E call \in Calls :
       /\ sent' = Append(sent, call)
       /\ \/ receipts' = Append(receipts, call)
          \/ receipts' = Append(receipts, [call EXCEPT !.status = 500])
          \/ UNCHANGED receipts
  /\ UNCHANGED <<store, day, observation, decision>>

\* A receiver records once more what was sent.
Redeliver ==
  /\ Len(receipts) < MaxRecords
  /\ \E i \in DOMAIN sent : receipts' = Append(receipts, sent[i])
  /\ UNCHANGED <<sent, store, day, observation, decision>>

ChangeStore ==
  /\ day < MaxDay /\ sent = << >>
  /\ store' \in [file : {"absent", "present", "slow", "unreadable"}, database : BOOLEAN,
                 rows : {0, 1}, broken : BOOLEAN] \ {store}
  /\ day' = day + 1
  /\ UNCHANGED <<sent, receipts, observation, decision>>

Observe(outcome) ==
  /\ observation' = outcome /\ decision' = None
  /\ UNCHANGED <<sent, receipts, store, day>>

ObserveReceipt ==
  \E expected \in Expectations :
    Observe(Outcome("receiver", "url", expected, ReceiptOutcome(expected)))

ObserveFile ==
  \E expectedExists \in {None, TRUE, FALSE} :
    Observe(Outcome("filesystem", "file", None, FileOutcome(expectedExists)))

ObserveRow ==
  \E predicates \in {{}, {"id"}}, expectedExists \in BOOLEAN :
    Observe(Outcome("sqlite", "database_record", None, RowOutcome(predicates, expectedExists)))

ObserveProcess ==
  \E timedOut \in BOOLEAN :
    Observe(Outcome("process", "process", None, ProcessOutcome(timedOut)))

ObserveCloud ==
  \E record \in CloudRecords, wanted \in CloudRecords \ {None} :
    /\ record # None => record.provider = wanted.provider
    /\ Observe(Outcome("cloud", "cloud_resource", None, CloudOutcome(record, wanted)))

\* ExternalSensorFeedObserver passes on the outcome that its sensor reported.
ObserveSensor ==
  \E record \in SensorRecords :
    Observe(Outcome(record.sensor, record.resource, None, record.outcome))

\* A claim of independence needs a declaration that nothing stands against;
\* otherwise ObserverAttestationError is raised and nothing is decided.
Verify ==
  /\ observation # None
  /\ \E corroboration \in {"unknown", "independent_observer"}, declaration \in Declarations,
        action \in {None, "send"}, resource \in {None, "url", "file"} :
       /\ declaration # None => DeclarationIsValid(declaration)
       /\ corroboration = "independent_observer" =>
            RejectionReasons(declaration, observation, action, resource) = {}
       /\ decision' = Decision(observation, corroboration, declaration)
  /\ observation' = None
  /\ UNCHANGED <<sent, receipts, store, day>>

\* self_reported_verification: an acknowledgement alone verifies nothing.
SelfReport ==
  /\ decision' = Decision(Outcome("tool", "url", None, "unverified"), "self_reported", None)
  /\ observation' = None
  /\ UNCHANGED <<sent, receipts, store, day>>

NextDay ==
  /\ day < MaxDay
  /\ day' = day + 1
  /\ UNCHANGED <<sent, receipts, store, observation, decision>>

ObservationNext ==
  \/ Send \/ Redeliver \/ ChangeStore \/ NextDay
  \/ ObserveReceipt \/ ObserveFile \/ ObserveRow \/ ObserveProcess \/ ObserveCloud
  \/ ObserveSensor \/ Verify \/ SelfReport

ObservationSpec == ObservationInit /\ [][ObservationNext]_observationVars

----------------------------------------------------------------------------
\* What was sent that is as the observer was told to expect it.
SentAsExpected(expected) ==
  {call \in Range(sent) : /\ call.key = expected.key /\ expected.part \in {None, call.part}
                          /\ Conflicts(call, [expected EXCEPT !.status = None]) = {}}

\* What a decision about a receiver's records says happened: verified only when
\* a tool sent what was expected and the receiver held one record of it and not
\* several; what no tool sent is neither verified nor contradicted; and no claim
\* of independence outlives its declaration or rests on a lesser kind of source
\* (verify_observation, require_independent_observer_attestation).
DecisionsFollowTheRecords ==
  decision # None =>
    LET observed == decision.observation
        expected == observed.expected
        declared == decision.declaration
    IN  /\ expected # None =>
             /\ decision.status = "verified" =>
                  SentAsExpected(expected) # {} /\ observed.exact = 1
             /\ {call \in Range(sent) : call.key = expected.key} = {} =>
                  decision.status = "unverified"
        /\ decision.corroboration = "independent_observer" =>
             /\ decision.day \in declared.reviewedAt .. declared.reviewedAt + MaxAge
             /\ declared.validUntil # None => decision.day <= declared.validUntil
             /\ declared.kind = "independent_live_telemetry" /\ declared.shared = {}
             /\ declared.independent = Boundaries
             /\ observed.observer = declared.observer

=============================================================================
