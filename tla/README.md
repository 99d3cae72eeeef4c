# TLA+ models of ActionLineage

ActionLineage records what an agent did as an append-only, hash-chained journal of lineage
events, derives a disposable SQLite projection from it, and serves imports and investigations
over HTTP and a command line. This directory holds TLA+ models of its core, TLC
configurations that check them on small instances, and TLAPS proofs of what the components
guarantee for every instance. Paths below are relative to `src/actionlineage/`; the evaluation
harness is `evals/actionlineage_evals/`.

## The system

| component | state it keeps | operations | what is hard |
|---|---|---|---|
| local journal (`journal/local.py`, `hashing.py`) | one JSONL file, a lock file | `append_event`, `iter_events`, `verified_journal_snapshot` | processes share the file under `flock` with a deadline; write, flush and fsync may each fail; process and host crashes |
| verification (`journal/local.py`, `verify.py`) | none | scan of the file, with or without a trusted count and terminal hash | which alterations a hash chain shows |
| anchors, archives (`journal/anchors.py`, `archive.py`, `attestation.py`, `git_anchor.py`) | checkpoint files, an anchor log, segment manifests | create, append, verify, export of the verified prefix | anchors of a journal that grows; a log without a lock |
| evidence ingestion (`evidence/`) | none of its own: idempotency lives in the journal | `import_evidence_batch_atomically`, `import_evidence_batch` | retries, races on keys, partial batches, a normalizer that counts on its own |
| projection (`projection/sqlite.py`) | a database file | rebuild, schema migration, verified reads, case bundles | reads while journal and database change; crashes in migration and publication |
| service (`service/`) | none; roles and tokens from configuration | `/ingest`, queries, export, validation, health | what the status says after a partial failure |
| mcp adapter, approvals (`adapters/`) | a session's events, an in-memory replay cache | plan, execute, approval claim | a tool is called between two appends |
| observers (`observers/`) | none | observe effects, verify them against claims | lost, repeated and conflicting records; declarations that expire |
| sequence detection, robustness lab (`detection/`, `lab/`) | none | ordered and unordered matching over a timeline; replay over mutated corpora | greedy matching with windows, events in any order |
| contracts (`contracts/`) | none | validation against events and a verification | events and verification may come from different reads |
| evaluations (`evals/`) | run directories, bundles, a regression corpus, a committed baseline | live runs, replays, promotion, scoring, baseline check | directories that are used again, failures and deaths at any step |
| postgres projection, exporters, packs, console, CLI, demo, release scripts | none of their own | loading, formatting, an optional backend | callers and conversions |

The journal is the only source of truth. The ingestion importer takes the journal's exclusive
lock and appends inside it; the projection reads a verified snapshot under the shared lock and
writes its database later, without any lock on the journal; a verified read compares its
database snapshot with the journal before and after the query; anchors and archives read the
journal and keep commitments about it elsewhere.

Properties that make the parts correct: the journal is one chain, acknowledged appends are
durable, refused ones leave nothing, readers see no unfinished append, nobody waits for ever;
an import never commits a key twice, tells the truth about each record and can be retried; a
projection read that succeeds is the journal, and a rebuild repairs; verification accepts what
`append_event` writes and reports any other change it can see; an artifact that pins a journal
down verifies only against the journal that it was made of; what a detection, a contract, an
observer or a replay concludes is true of what was recorded; and the views of an incident agree.

## Modules

### `DurableLog`: the promise of the journal

A log that only grows, of which a prefix is durable; acknowledgement only of durable events;
reads of the whole log at one instant; a host crash may cost the part that was not durable.
It knows no file, lock, hash or failure. `LocalJournal!Log` instantiates it with a refinement
mapping (the whole lines of the file, the whole synced lines, the acknowledged events, the
snapshots returned) and `Implements` states `Log!Spec` of it.

### `LocalJournal`: `append_event` and `verified_journal_snapshot`

One action per step between which another process, a crash or an I/O failure can intervene:

| code | actions |
|---|---|
| `_journal_lock`, `_lock_file` (636-671, 613-633) | `LockExclusive`, `LockShared`, `LockTimeout`, `LockFileFails`, `Unlock` |
| `append_event` (200-248) | `BeginAppend`, `PreflightAccepts`, `PreflightRefuses` |
| `_append_line` (539-557) | `WriteLine`, `WriteFails`, `Fsync`, `FsyncFails` |
| `verified_journal_snapshot` (312-536) | `BeginSnapshot`, `OpenForScan`, `ScanLine`, `ScanStops`, `ScanEnds`, `ReadFails` |
| the world | `ProcessCrash`, `HostCrash` |

A line keeps its sequence number, previous hash, event and whether its newline was written.
A hash is the history it commits to (see Assumptions). `fate` records what became of each
event: `appended` (acknowledged), `refused` (an error that promises nothing was written) or
`unknown` (`JournalAppendError`, or the process died).

### `JournalVerification`: the scan as a function

`Scan(lines, expectedCount, expectedHash)` is the verdict of `verified_journal_snapshot` on
stored lines: parse failures, schema, missing terminator, sequence, previous hash and
recomputed hash, in the order of the code, and the comparison with a trusted count and hash.
The state machine writes a journal with the append path's own sealing and then changes it:
lost tail, lost, repeated or swapped lines, an edited line, and resealing by a tool that
recomputes the integrity fields. `FormFault` and `SealedAfter` say of one line and its predecessor
what the scan and the append path ask of it; the scan itself is a fold.

### `EvidenceIngestion`: `import_evidence_batch_atomically`

The journal is that of `LocalJournal` seen under its lock: entries, and possibly a torn tail.
Clients submit batches, and submit them again with or without having heard an answer.
`Acquire` is the preflight (verify, rebase the normalizer, collect idempotency entries);
`SkipMatched` is `_matched_idempotency_outcome`; `AppendRecord`, `FailMalformed`,
`FailUnpersistable`, `AbortUnhashable`, `AbortUnredactable`, `RejectOutOfSequence` and
`FailAppend` are what can become of one record, each with what it does to the normalizer, the
outcomes and the rest of the batch; `Answer` returns the outcomes; `Crash` may happen anywhere,
inside an append too.

### `BatchImport`: `import_evidence_batch`

The importer that holds no lock of its own, over the records and batches of
`EvidenceIngestion`. `CallImport` is the call with the normalizer its caller made (from the
journal's length or from 0, with `existing_events` or without), `ScanKeys` is
`_existing_idempotency_entries`; then one action per record: `AnswerKnown`, `RejectMalformed`,
`AppendNext`, `AppendFails`, `StopUnhashable`, `StopUnredactable`. Each append is one call of
`LocalJournal.append`, atomic under its lock, so between two records other importers append.

### `Projection`: rebuild and verified reads

Rebuilders go through `BeginRebuild` (verified snapshot), `EnsureSchema`, `AddColumn` and
`SetVersion` (migration from version 1, one commit each), `BeginWrite` and `Commit`; readers
through `BeginRead` (SQLite snapshot), `CheckPasses`/`CheckFails` (`StateCode` is
`_verify_projection_state_on_connection`), `EndQuery` and `Recheck`. The journal grows and
tears, the host crashes, and the database file is changed or deleted from outside. SQLite is
external: one write transaction at a time, a commit waits for no reader to be in a
transaction, a reader sees one committed state. Metadata digests are the journal they commit to.

### `CaseViews`: what is read from a projection

`Row` is `_event_projection_values`, `IndexJournal` a rebuild that `index_event` may refuse
(`Indexable`), `Investigate` a verified read of a timeline. `QueryTimeline`, `FilteredTimeline`,
`IncidentSummary`, `GroundedSummary`, `InvestigationGraph` and `ExplainEvent` are the functions
of the same names in `projection/sqlite.py`; the graph is built as the code builds it, event
after event (`VisitEvent`) and then link after link. Journal and journal length are
those of a verified read: how such a read comes about is `Projection`.

### `IngestService`, `ServiceAccess`: `POST /ingest`

`IngestService` composes the importer of `EvidenceIngestion` with the rebuild that follows it
and the response. `Request` and `TurnAway` are the checks in front of the importer, `Import` is
a step of the importer and, when it returns or raises, what the handler makes of that
(`Handle`), `TakeSnapshot`, `FindInvalid`, `SnapshotRaises`, `CommitProjection` and
`RebuildFails` are `rebuild_projection` as the handler sees it, `ReportRebuilt` is the response
that is built after it has returned, and `Status` and `Body` are `_ingest_status_code` and
`_ingest_response_body`. Between the commit and the response other handlers go on: a rebuild with an
older snapshot may be committed over this one, so that "rebuilt" does not say what the projection
holds when the client reads it (the race of `projection_racing_rebuilds`, met again in this module).
What `RebuiltCoversOutcomes` states is that the handler got there only by committing a projection with
every event that it reports as imported or duplicate, or having none to report. Snapshots and the content of the projection
are lengths of the journal, which only grows here; the projection's own states are in
`Projection`. `ServiceAccess` defines roles, capabilities and what each endpoint asks for.

### `McpRuntime`: `execute_mcp_tool_call` and approvals

`BeginCall` is the caller's claim of an approval (`Accepts`, `Claim`) and the plan (`Plan`,
`DispatchAllowed`); `Record` and `RecordFails` append one event of the plan, `CallDownstream` is
the tool, `Acknowledge` and `AcknowledgeFails` append what it answered. An append moves the
session's normalizer first and may then be refused, fail with none, part or all of its line in
the file, or succeed, as in `LocalJournal`. Sessions share the journal and nothing else; `Crash`
loses normalizer and replay cache, `Open` starts again from the length of the journal.

### `DerivedArtifacts`: the anchor log and case bundles

Files derived from the journal and written beside it, by processes that share no lock.
`VerifyLog` is the verification in front of `append_journal_anchor_log` (`Verified` is
`verify_journal_anchor_log`), `AppendEntry` and `AppendFails` the write; a line may be left
without its newline, and the next entry then continues it. `BeginExport`, `WriteFile`,
`SyncStaging`, `Publish`, `SyncParent` and `ExportFails` are `export_case_bundle` after its
verified read (which is `Projection`'s), for exports that have one output path. `ProcessCrash` leaves a
staging directory behind, `HostCrash` loses what was not synced: any tail of the anchor log, the
files of a directory that was not synced, and a rename until the parent directory is.

### `TrustedRoots`: artifacts that pin a journal down

Anchors, segment manifests, archive manifests, git statements, external attestations and
exports of the verified prefix. Each command is a sequence of its reads and writes
(`CreateAnchor`, `WriteArtifact`; `VerifyAnchor`, `AnswerAnchor`; `HashArchivedJournal`,
`AnswerArchive`; `ResolveRef`, `CreateStatement`; `ReadAnchorFile`, `ReadRepository` for the git
processes that look for the commit and for its blob, `AnswerStatement` with the one that resolves the
ref; `StartExport`, `ExportEvent`, ...), between which the journal is appended
to, altered or restored, the anchor's file is committed or checked out, the ref moves, and the
process may die with a file half written. `TailIssues`, `SignatureIssues` and
`RepositoryIssues` are what the verifiers compare.

### `Observation`: observers and decisions

Tools send (`Send`), a receiver keeps, loses or repeats the record (`Redeliver`), files, rows,
cloud trails and sensors hold records. `ReceiptOutcome`, `FileOutcome`, `RowOutcome`,
`ProcessOutcome` and `CloudOutcome` are the observers' answers; `Verify` is `verify_observation`
with `require_independent_observer_attestation` (`RejectionReasons`) in front of it, on the same
or a later day; `SelfReport` is a tool's own claim. The code judges a declaration as of a reference
date that its caller may pass, and of today otherwise: `day` is that date, and `DecisionsFollowTheRecords`
says that a declaration was in force on it.

### `SequenceDetection`: rules and the robustness lab

Loading (`LoadPack`), predicates (`Compare`, `MatchesExpected`), grouping, the two matchers,
`WithinWindow`, `SuppressAndDedupe` and `EvaluateSequenceRule` as functions; events `Arrive` in
any order and `Explain` reports the matches. A group is sorted by inserting its events one after the
other (`OrderedGroup`), the matchers and the suppression are folds. `Replay` is the lab: `MutateEvents`
for each strategy, `ScoreDetectionRobustness`, and `MinimizeCounterexample`, which goes on as long as
it can do without some event (`WithoutFirst`).

### `ContractValidation`: contracts

`ContractFromDict` with its defaults, and one operator per kind of requirement
(`IntegrityViolations`, `EventViolations`, `LinkViolations`, `LatencyViolations`, ...), joined by
`ValidateContract` in the order of the code. It extends `JournalVerification` for the journal's
lines and their scan, and `SequenceDetection` for required detections. `ValidateFiles` is the
command and the service, `TakeSnapshot` and `ValidateHeld` a caller that keeps a snapshot while the file
is written to or exchanged.

### `EvalScoring`, `EvalRun`: the agent validation lab

`EvalScoring` has the journal that each tool call records (`CallEvents`), mutations, the scores
(`ScoreRun`), minimization and the fingerprints, as functions. `EvalRun` runs one scenario
several times, live and replayed: environment, recorder, model, tool calls, artifacts, scoring, stop,
scorecard, bundle; every step may raise (`EnvironmentFails`, `CallFails`, `WriteFails`,
`ScoringFails`, `StopFails`) and the process may die (`RunDies`). `PromoteReviewed` and
`StartRegression` are the regression corpus, `CommitBaseline` and `CheckBaseline` the public
baseline. A live run writes the directory of the one before, of which only the journal is removed.
The two minimizers are recursive functions over the sequences of the values of what they shrink.

### `MC*` and `*Proofs` modules

The `MC` modules give the constants small values and define symmetry sets. Modules that have
nothing to say to each other share a run: a behaviour chooses one of them at its start and leaves the
variables of the others alone (`importer`, `topic`, `reader` and `subject` in
`MCEvidenceIngestion`, `MCProjection`, `MCJournalVerification`, `MCMcpRuntime` and
`MCDerivedArtifacts`). Each such behaviour is one of the chosen module's.
Each proof module extends the module it is about: `LocalJournalProofs`,
`JournalVerificationProofs`, `EvidenceIngestionProofs` (with `BatchImport`), `IngestServiceProofs`
(which uses the one before), `ProjectionProofs`, `McpRuntimeProofs` (with `Observation`),
`DerivedArtifactsProofs` (with `TrustedRoots` and `EvalRun`) and `SequenceDetectionProofs`, on which the part of `JournalVerificationProofs` about `ContractValidation`
rests. A specification that a proof is about and that shares a run is named in its module: `BatchSpec`,
`ObservationSpec`, `TrustedRootsSpec`, `EvalRunSpec`, `DetectionSpec`, `ContractSpec`.

Operators introduced by a comment `Mutant:` are not part of a model: each is a plausible wrong
version of the definition below it, and replacing the definition by it makes the property
named in `PROJECT.json` fail. They show that the property depends on that code.

## Runs

| run | shows |
|---|---|
| `journal` | 2 processes, 2 events, host crashes. The chain (`ChainIntact`), durability (`AcknowledgedIsDurable`), refusals (`RefusedIsAbsent`), reads without dirty data (`SnapshotIsCommitted`), nothing behind a torn line (`TornTailBlocksAppends`), the refinement (`Implements`) and termination of calls (`CallsReturn`) |
| `verification` | all journals of up to 3 records under up to 3 changes. The scan accepts what append writes; its verified prefix is the longest one that append could have written; with no recomputed hashes only a loss of whole records at the end passes; with a trusted count and terminal hash nothing passes. Corpora of up to 4 of 7 events under 14 rule documents: every match occurred, in any order of arrival (`ReportedSequencesOccurred`), and the lab's verdicts and counterexamples stand (`LabVerdictsStand`). 8 contracts over journals that change between snapshot and validation: a pass is about a whole verified journal (`PassedContractsHold`) |
| `ingestion` | 2 clients, 6 batches, 2 attempts each. No key twice, outcomes true of the journal, attempts not interleaved, no dangling parent, retries resolve, requests answered. The same batches through the importer without a lock: an import without failed records is as good as atomic (`CleanImportsAreAtomic`) |
| `ingestion_aborted` | violated: a record that cannot be fingerprinted or redacted ends the import with an exception after part of the batch was committed; docs/INGESTION.md promises failures per record |
| `ingestion_rewritten_key` | violated: a key that redaction rewrites is imported again on a retry |
| `projection` | 2 rebuilders with 2 rebuilds each, 1 reader, 2 events, one disturbance, starting from a version 1 file. Reads that succeed are the journal, `stale` means behind, a rebuild without overlap leaves a readable database. Journals of up to 4 of 5 events that refer to each other, backwards in time and across traces: the views agree (`ViewsAgree`) |
| `projection_racing_rebuilds` | violated: of two rebuilds that both succeed, the older snapshot may win |
| `projection_migration` | violated: a crash during migration leaves a file no rebuild can migrate |
| `service` | a writer, an administrator and a reader, 4 batches, 2 attempts. The status and `journal_committed` are true of the journal (`StatusIsTrue`), a handler answers "rebuilt" only after a projection that held what the response reports was committed for it (`RebuiltCoversOutcomes`) |
| `service_commit_reported` | violated: when the rebuild cannot lock or read the journal, a committed batch is answered by a bare 503 or 500 |
| `mcp` | 2 sessions, 2 calls, 3 process lives, an approval that expires. No tool is called without its whole plan in the journal (`ToolsRunOnEvidence`), the journal holds of each call the beginning of its lifecycle (`RecordedInOrder`), results are in it (`ResultsAreRecorded`), an approval is spent once (`ApprovalsAreSpentOnce`), and a parent that is not in it stands behind another session's event (`DanglingParentsAreForeign`). Two calls with two digests, receivers with up to 2 records, 3 days, cloud and sensor records, 6 declarations and none: decisions follow what was recorded (`DecisionsFollowTheRecords`) |
| `artifacts` | 2 processes, bundles of 2 files, 4 operations. An anchor log that verifies has lost no acknowledged entry (`VerifiedLogHoldsAcknowledged`); what is at the output path is a whole bundle (`PublishedIsComplete`), is not replaced (`PublishedStays`) and, once acknowledged, survives (`AcknowledgedExportStays`). A journal of 2 events, 4 changes by others, each artifact: what verifies is what was pinned down (`TrustedRootsHold`). 6 scenarios, 3 runs: a replay that passes reproduced its run (`PassedReplaysReproduce`) |

### Bounds, and why they are enough

- Two processes: the lock is exclusive or shared between any two parties; a third one can only
  be another waiter. Wherever a safety property is proved (below), it is for any number.
- Two or three events: a chain violation needs a line and a successor, a torn line followed by
  another needs two; the proofs remove the bound. `MaxSequence` lets callers ask for the right,
  an earlier and a later number.
- Six batches of two to four records: a key twice in a batch, a conflict within and between
  batches, a legacy entry without fingerprint, and each kind of record that fails in front of
  one that must still succeed. Two attempts: a retry after success, failure, or death.
- Two rebuilds each: a rebuild before, during and after another; one disturbance: a second one
  does not reach a reader that the first one could not.
- Service: four batches are the fewest in which each status occurs with each way the importer
  can end; the third client has a credential that lacks one of the two capabilities.
- MCP: two calls are the fewest for a replayed approval, and two sessions for an event at the
  position that a failed append had claimed; the decisions taken make the longest plans, and
  `allow`, `dry_run` and `deny` make the same plans as `require_approval` with and without approval.
- Artifacts: four operations are an entry, two that race to follow it, and one on what they left;
  two files are the fewest of which a crash can leave some.
- `BatchImport`: one import per client is enough for two imports to interleave at every record;
  with two the retry after a failure is `ingestion`'s own question.
- `CaseViews`: five events, of which a journal holds up to four in any order: one timed before its
  parent, two with links, one of them incomplete in status and one to another trace, and one there.
- `SequenceDetection`, `ContractValidation`: four events are two matches of a rule of two stages;
  the documents hold each operator, window, grouping, suppression and each way a document fails to load.
- `Observation`: two records are a repeated one, or one of something else beside it; three days are
  in force, expired, and older than a review may be.
- `TrustedRoots`: one event before an artifact is made and one after; four changes let others
  alter a file or ref between two reads, put it back, and do so once more.
- `EvalRun`: three runs are a live one, one that dies over its bundle, and a replay of what it left; to
  keep the run short the third is only made as a replay of scenario AVL-005.
- Verification: three records are the fewest with a middle one; three changes are the fewest
  that edit a record, hide it and reseal.

### Fairness

`LocalJournal!FairSpec` assumes weak fairness of each process's steps inside a call: code
runs on, and while the lock is taken the poll loop reaches its deadline, so some step is
always enabled. It does not assume that a caller starts a call, that I/O succeeds or fails or that a
lock holder is ever quick. `EvidenceIngestion!FairSpec` is the same for importers: waiting ends in
the lock or in a refusal, and the loop over the batch goes on; `MCFairSpec` states it in the run that
`BatchImport` shares, for the behaviours of `EvidenceIngestion`.

### Assumptions of the models

- SHA-256 has no collisions: a digest is modelled as what it commits to.
- POSIX: `fcntl` is present and `flock` is released when a process dies. Without `fcntl` the
  code takes no lock at all, and nothing here applies.
- A successful fsync makes the whole file durable, bytes of earlier failed appends and the
  directory entry of a new file included. The code does not fsync the directory after creating
  the journal and does not treat a failed fsync as losing the page cache.
- Nothing syncs the anchor log, so a host crash may cut it anywhere. A rename onto an existing, non-empty directory fails.
- Callers append events with fresh event ids.
- A rewritten idempotency key reads back as text that nobody submits.
- Sequence predicates compare numbers; the comparison of texts that are timestamps, which
  `_compare` has too, is left out (`Compare`), as no property tells the two apart.
- A clock reading and a git object are given: nobody forges a commit, a signature or a day.
- A process reads a small file (an anchor, a manifest) in one step; reads of the journal by
  different functions are separate steps.
- SQLite runs in its default rollback-journal mode, as the code leaves it.

## Proofs

TLC checks every property below on the instance of its run; the theorems hold for every set of
processes, clients, sessions, events, batches, lines, files and keys, and for every bound. The proofs
use the named assumptions of the modules: bounds are natural numbers, a null value is not one of the
values it stands beside, batches are sequences of records, records have the fields that are read,
a scenario file names failure classes of `FailureClass` and an integer as its budget (`ScenarioFiles`,
which `evals/actionlineage_evals/models.py` converts them to as it reads the file), a rule pack is a
list of documents, each with a list of stages or without one (`PackDocuments`), and events have their
fields, with times, positions and ids that can be compared and an id of their own (`PooledEvents`).
TLC evaluates them on the runs. Two more are hypotheses of the theorems that need them, and hold in
the run `ingestion`: `KeysArePersisted` (redaction rewrites no key; the run `ingestion_rewritten_key`
shows that the theorems fail without it) and `LegacyKeysDiffer` (the journal that is there at the
start has no key twice).

Each property follows from an inductive invariant, a conjunction of named parts that each say what
one program counter, one file or one position in the journal may rely on. The proof that a step
keeps a part has one case for each action that touches its variables, and lemmas about the model's
operators where several cases need them.

### The journal (`LocalJournalProofs`)

| theorem | statement |
|---|---|
| `TypeCorrect` | `Spec => []TypeOK` |
| `WritersAreAlone` | the process inside the exclusive section is the only holder of the lock |
| `ChainHolds` | `Spec => []ChainIntact` |
| `TornTailBlocks` | `Spec => TornTailBlocksAppends` |
| `AcknowledgedStaysDurable` | `Spec => []AcknowledgedIsDurable` |
| `RefusedLeavesNothing` | `Spec => []RefusedIsAbsent` |
| `SnapshotsAreCommitted` | `Spec => []SnapshotIsCommitted` |
| `JournalImplementsLog` | `Spec => Implements`: the journal refines `DurableLog` |

1. `TypeInv`: types, and requests of idle processes are empty.
2. `LockInv`: an exclusive holder is alone, and the program counter says which lock is held.
   Needed because the chain argument is about one writer at a time.
3. `ChainInv`: the file is a chain with at most a torn last line, and a process at `write`
   holds the next sequence number of a file that still verifies, which is what its preflight
   established and what nobody could change since.
4. `FateInv`: a pending event belongs to one request; what was acknowledged is in the synced
   whole part; what was refused, or is new, is in no line; a process at `fsync` has its
   event in the last line.
5. `OwnerInv` and `SnapshotInv`: the floor of a snapshot (what was acknowledged when its call
   began) stays in the file; what a scan has read is a prefix of the file, and a verified result at
   `unlock` is all of it, because the shared lock that is still held keeps writers out.

None of the properties is inductive without the layers below it. The refinement maps each action to
a step of `DurableLog` or to a stutter: `WriteLine` extends the log, `Fsync` makes it durable, `Unlock`
of an append that succeeded acknowledges, `ScanEnds` of a whole file reads, `BeginSnapshot` forgets what was read
before, `HostCrash` loses what was not durable, and the rest stutters.

### Verification (`JournalVerificationProofs`)

| theorem | statement |
|---|---|
| `ScansAcceptWhatAppendWrites` | `Spec => []VerifiesWhatAppendWrites` |
| `ScansVerifyTheLongestPrefix` | `Spec => []VerifiedPrefixIsLongest` |
| `OnlyTailLossGoesUnseen` | `Spec => []OnlyTailLossPasses` |
| `AnchorsDetectEverything` | `Spec => []AnchoredScanDetectsEverything` |
| `PassedContractsAreTrue` | `ContractSpec => []PassedContractsHold` |

`StoredLinesAreKnown` is the invariant: what was written is a chain (`WrittenInv`), and until a tool
recomputes hashes, the seal of each stored line is that of a line that was written (`SealInv`): lines
are lost, repeated, moved and edited, but no hash is made. That is why a chain of such lines is a
prefix. The count of the scan is a fold; that it is the length of the longest chained prefix is shown
by induction on positions, stated with sets (`Induction`).

`ContractInv` is the invariant of contracts: no two lines of the file hold the same event, what a caller
holds was a chain when it was taken, and a result that passes says what it should. The verification
of a held snapshot is a later read of a file that may have changed: `SnapshotIsFile` shows that its
count and terminal hash leave only the file that was read before, and `LinksAreRecorded` and
`DetectedHappened` take links and detections from the judged lines to the events.

### Detections (`SequenceDetectionProofs`)

| theorem | statement |
|---|---|
| `RulesReportWhatOccurred` | `DetectionSpec => []ReportedSequencesOccurred` |
| `LabVerdictsHold` | `DetectionSpec => []LabVerdictsStand` |

The invariants say that a report is `EvaluateSequenceRule` of the corpus (`DetectionInv`) and that a replay is
what the lab computes for one seed (`LabInv`); the rest is about functions.

- A fold over a sequence is unrolled into its stages (`FoldStages`), the values after each element, and
  what a fold computes is shown by induction on the stage.
- Two lists of the same events, sorted by a key that no two of them share, are equal (`SortedEqual`); so a
  group is the same whatever the order of arrival (`GroupShape`, `GroupsAgree`), and with it every match.
- Ordered matching is greedy: what is matched so far stands at increasing positions of the group and
  apart from earlier matches (`ScanFound`, `Fills`), and until the first match no choice of events fills
  more stages (`Greedy`). Hence it misses no group that has an occurrence. Without an order each stage takes
  the first event left (`Taken`), which misses none as long as no event fits two stages.
- Suppression and deduplication emit only what was found, and something if anything was (`EmittedShape`),
  so that a rule matches exactly when it finds something in some group (`MatchesMeans`).
- An event that the lab adds is at one position of one group (`NextGroup`). No stage asks for a distractor;
  a duplicate goes right behind its original (`CopyShadowed`), where the stage that is open asks
  for something else (`CopySkipped`), or the stage that could take it finds the original first
  (`HiddenInStages`). Either way the group's verdict stays (`ExtraUnseen`). With simultaneous events or
  competing stages it may not, which is why `LabVerdictsStand` excludes both, and likewise rules that
  ask for `resource.observed`, the type of the distractor. Ids play no part: a copy may
  have the id of another event.
- Each round of the minimization drops one event or leaves a minimal case (`WithoutFirstShape`), so after as many
  rounds as there are events the case is minimal (`CounterexampleIsMinimal`).

### Imports (`EvidenceIngestionProofs`, `IngestServiceProofs`)

| theorem | statement |
|---|---|
| `ImportersAreAlone` | the importer past its preflight is the only one, until it answers or dies |
| `AttemptsStayContiguous` | `Spec => []AttemptsAreContiguous` |
| `ParentsAreThere` | `Spec => []ParentsAreCommitted` |
| `KeysAreImportedOnce` | keys persisted, legacy keys differ: `Spec => []KeyImportedOnce` |
| `OutcomesStayTrue` | under the same: `Spec => []OutcomesAreTrue` |
| `RetriesResolveCommitted` | under the same: `Spec => []RetryResolvesCommitted` |
| `UnfailedImportsAreAtomic` | keys persisted: `BatchSpec => []CleanImportsAreAtomic` |
| `HandlersServeImports` | `ServiceSpec => []ServiceInv /\ OpenSpec` |
| `StatusStaysTrue` | `ServiceSpec => []StatusIsTrue` |
| `RebuildsCoverOutcomes` | `ServiceSpec => RebuiltCoversOutcomes` |

- `EvidenceIngestion`: `LockInv` (the lock's holder and no one else works), `TailInv` (what one
  attempt committed is at the end of the journal while it works), `AgeInv` (no entry is of an attempt that has
  not begun), `EntryInv` (keys and fingerprints of entries are those of their records), `NormalizerInv`
  (the normalizer counts at least what was committed, and is at an event of the journal whenever its
  number is the journal's), `OutcomesInv` (each outcome is true of the journal, while the batch is
  worked on and in the reply). `ParentsAreCommitted` is where the normalizer matters: it
  moves before an append that may fail, and is then out of sequence for the rest of the batch.
- These are proved of `OpenSpec`, which adds one step: the reply of an idle client may be forgotten.
  A handler of the service reuses its client that way, so that `HandlersServeImports` (every step of
  the service is a step of `OpenSpec`) carries them over to the service.
- `IngestService`: `HttpInv` (the handler's program counter against the importer's), `HeldInv` and
  `CoverInv` (what an outcome reports is in the journal, and in the snapshot of the rebuild that is about to commit,
  whence `CommitsHold`: what is committed holds it),
  `StoppedInv` and `ResultInv` (an import that stopped early has committed part and says so),
  `AnswerInv` (status and body are those of the reply).
- `BatchImport` has no lock between records, so its invariant `ImportInv` is about one import and any
  journal: as long as no record failed, the import's entries are together and were new (`Whole`), and its
  normalizer is at the last of them (`Ready`), since an entry of another importer in between makes the next append fail.

### Projection (`ProjectionProofs`)

| theorem | statement |
|---|---|
| `ReadsReturnTheJournal` | `Spec => ReadsAreCurrent` |
| `StaleViewsAreBehind` | `Spec => StaleMeansBehind` |
| `AloneRebuildsAreCurrent` | `Spec => []RebuiltAloneIsCurrent` |

`DatabasesFollowTheJournal` is the invariant. `ReadInv`: what a reader queries is what it
compared with the journal. `RebuildInv`, while nothing outside disturbed journal or
database: the schema is current where a rebuild writes (`SchemaInv`), targets and metadata are
prefixes of the journal (`TargetInv`, `MetaInv`), and a rebuild that no other one overlapped left its target in
the database (`AloneInv`).

### Tool calls and observers (`McpRuntimeProofs`)

| theorem | statement |
|---|---|
| `ApprovalsStaySpent` | `Spec => []ApprovalsAreSpentOnce` |
| `ParentsDangleBehindOthers` | `Spec => []DanglingParentsAreForeign` |
| `CallsAreRecordedInOrder` | `Spec => []RecordedInOrder` |
| `ToolsRunOnRecordedPlans` | `Spec => []ToolsRunOnEvidence` |
| `ResultsStandInTheJournal` | `Spec => []ResultsAreRecorded` |
| `DecisionsStandOnRecords` | `ObservationSpec => []DecisionsFollowTheRecords` |

- `SessionsExecuteTheirCalls`: a session that executes does so for a call of its own and of the
  process life it is in (`ExecutingInv`), with a plan to record exactly while it records (`TodoInv`).
- `SpentInv`: the nonce of an accepted approval is in the replay cache as long as that life lasts.
- `NumberInv`: an event's id ends in its position, and a normalizer that has a last event stands one
  behind it; so the parent of an event is missing only where another session's event took the place.
- `ProgressInv`, `PlacesInv`, `HistoryInv`: what a call has recorded and what it still has to record make up its plan, the
  recorded part stands in the order of the plan, and what ran or was told to the caller is recorded.
- `ObserversSeeWhatWasSent`: a receiver keeps what was sent, perhaps with another status
  (`RecordsInv`), and an observation not yet decided on is true of what was sent (`ObservedInv`). More
  may be sent between observation and decision, which leaves both true (`SaysOn`).

### Artifacts (`DerivedArtifactsProofs`)

| theorem | statement |
|---|---|
| `VerificationMissesNothing` | `Spec => []VerifiedLogHoldsAcknowledged` |
| `BundlesAreComplete` | `Spec => []PublishedIsComplete` |
| `ExportsAreDurable` | `Spec => []AcknowledgedExportStays` |
| `BundlesAreNotReplaced` | `Spec => PublishedStays` |
| `VerifiedRootsHold` | `TrustedRootsSpec => []TrustedRootsHold` |
| `CardsTellOfTheirJournals` | `EvalRunSpec => []ReplayInv` |
| `ReplaysReproduce` | `EvalRunSpec => []PassedReplaysReproduce` |

- `ArtifactsAreKept`: an acknowledged entry is somewhere in the anchor log, if need be in a line that another one
  continued (`LogInv`); a staging directory is whole and synced when it is renamed, and what was
  acknowledged is at the output path (`BundleInv`).
- `RootsStayPinned`: a file that is neither missing nor torn, a commit of the anchor, and a command
  under way hold what was computed from an undamaged journal (`FilesInv`, `RepoInv`, `TaskInv`).
  `TailIssuesMean` says that a verifier finds nothing to report exactly for the pinned journal.
- `CardsTellOfTheirJournals`: the card of a bundle tells of the journal that its manifest was written
  for, in each directory (`DirsInv`) and in the corpus (`CorpusInv`), however runs raised or died in
  between; the scores of a run tell of the journal in its directory from scoring to its bundle
  (`RunInv`). An intact bundle holds the journal of its manifest, which closes the argument.
  `LifecycleFirst` says which score is the first of a run, `PassedReplayReproduces` that a replay that
  passes without a failure class compared its events with the card it replays and found them equal.

### Only model-checked

- Liveness under fairness, which the prover does not reach: `CallsReturn`, `RequestsAreAnswered`.
- `ViewsAgree`, which no theorem states yet: `CaseViews` sorts timelines with the sort of TLC's module,
  which chooses a permutation whose existence would have to be shown first, and its summaries
  and graphs are counts and nested folds over them.

## Disagreements that are not a run

Met while modelling, and modelled as the code does it:

- `adapters/policy.py:67`: the result of an approval counts only under `require_approval`; with an
  allow decision a rejected approval is recorded and the call is dispatched, whereas
  docs/MCP_ADAPTER.md:66 says that rejected approvals produce `tool.execution.not_dispatched`.
- `projection/sqlite.py:1998`: an export whose last directory sync fails reports an error for a
  bundle that is published and stays; docs/JOURNAL_INTEGRITY.md:88 says that failures leave none.
- `projection/sqlite.py:702`: times are compared as text, in which `...:00Z` follows `...:00.5Z`;
  docs/DATA_MODEL.md:271 says that results are ordered by `occurred_at`.
- `projection/postgres.py:393`: the PostgreSQL projection derives status and link columns otherwise
  than SQLite (`CaseViews!EvidenceColumns`).

## Plan

Every component with a protocol of its own is modelled. Left:

1. Proofs: the parts of `ViewsAgree` that do not fold over the timeline, and a statement of what the
   importer promises (`EvidenceIngestion`) as an abstract specification that both importers implement.
2. Runs that show the disagreements above.
3. Tokens of `service/auth.py` (expiry, rotation) as a module that `IngestService` uses.

## Not modelled

- Exporters, console, command line, demo and rule packs: no protocol and no state of their own.
- The PostgreSQL projection: optional, not called by any other module, and its statements go through an
  executor and a reader of the caller, so that the code does not determine their isolation.
- Tenancy: path layout that no handler of the service uses.
- Tokens and JWT claims, health and runtime configuration of the service.
- Descriptors of MCP tools, the SDK transport and framework adapters: hashing and conversion.
- File permissions, formatting, redaction patterns and canonical JSON: their effects (a record that
  cannot be redacted, a rewritten key, a truncated text) are modelled where they are felt.
- Triage, linting and summaries of the evaluations; release scripts.
- Signatures and git themselves are external: modelled by what they commit to.
