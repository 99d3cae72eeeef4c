---------------------------- MODULE IngestService ----------------------------
(***************************************************************************)
(* POST /ingest of the service: a batch is imported (EvidenceIngestion),   *)
(* the projection is rebuilt when the journal holds any of its records,    *)
(* and the client is answered with a status that has to be true of what    *)
(* was committed, whatever failed in between.                              *)
(*                                                                         *)
(* The projection is that of module Projection, with what /ingest needs of *)
(* it: a rebuild takes a verified snapshot of the journal under the shared *)
(* lock and commits it later.  The journal only grows here, so a snapshot  *)
(* and the content of the projection are lengths of it.                    *)
(***************************************************************************)
EXTENDS EvidenceIngestion, ServiceAccess

CONSTANTS
  Grants,   \* [Clients -> Principals]: what each client's credential holds
  Trusting  \* batches that assert trusted evidence

ASSUME GrantsAssumption == Grants \in [Clients -> Principals]

VARIABLES
  http,       \* what the handler of each client's request is doing
  snapshot,   \* journal length its rebuild is indexing
  projected,  \* journal length the projection was last committed for
  response    \* the last response to each client

serviceVars == <<http, snapshot, projected, response>>

NoResponse == [status |-> 0, committed |-> FALSE, projection |-> "none", outcomes |-> << >>]

\* A response that carries no body about the batch.
Bare(status) == [NoResponse EXCEPT !.status = status]

Count(outs, status) == Cardinality({i \in 1 .. Len(outs) : outs[i].status = status})

\* Mutant: failures are looked at before what was imported.
StatusByFailures(outs) ==
  IF Count(outs, "failed") > 0 THEN 400
  ELSE IF Count(outs, "conflict") > 0 THEN 409
  ELSE 200

\* _ingest_status_code
Status(outs) ==
  IF Count(outs, "imported") > 0 /\ Count(outs, "conflict") + Count(outs, "failed") > 0
  THEN 207
  ELSE IF Count(outs, "conflict") > 0 THEN 409
  ELSE IF Count(outs, "failed") > 0 THEN 400
  ELSE 200

Body(status, state, outs) ==
  [status |-> status, committed |-> Count(outs, "imported") > 0,
   projection |-> state, outcomes |-> outs]

Respond(c, answer) ==
  /\ response' = [response EXCEPT ![c] = answer]
  /\ http' = [http EXCEPT ![c] = "idle"]

RespondStale(c) == Respond(c, Body(503, "stale", reply[c].outcomes))

RespondRebuilt(c, outs) == Respond(c, Body(Status(outs), "rebuilt", outs))

----------------------------------------------------------------------------
Admissible(c) == Admitted(Grants[c], "ingest")

Request(c) ==
  /\ http[c] = "idle"
  /\ Admissible(c)
  /\ Submit(c)
  /\ batch'[c] \in Trusting => MayAssertTrust(Grants[c])
  /\ http' = [http EXCEPT ![c] = "import"]
  /\ response' = [response EXCEPT ![c] = NoResponse]
  /\ UNCHANGED <<snapshot, projected>>

(***************************************************************************)
(* A ServiceAuthError, or a body that makes no batch: nothing is read or   *)
(* written.                                                                *)
(***************************************************************************)
TurnAway(c) ==
  /\ http[c] = "idle"
  /\ \/ ~Admissible(c) /\ Respond(c, Bare(403))
     \/ Batches \cap Trusting # {} /\ ~MayAssertTrust(Grants[c]) /\ Respond(c, Bare(403))
     \/ Admissible(c) /\ Respond(c, Bare(400))
  /\ reply' = [reply EXCEPT ![c] = NoReply]
  /\ UNCHANGED <<journal, torn, lock, pc, importerVars, index, sequence, lastEvent,
                 outcomes, snapshot, projected>>

\* Mutant: a retry whose records are all in the journal does not rebuild.
MustRebuildImported(outs) == Count(outs, "imported") > 0

MustRebuild(outs) == Count(outs, "imported") > 0 \/ Count(outs, "duplicate") > 0

(***************************************************************************)
(* What the handler makes of the importer's return: the batch's outcomes,  *)
(* a JournalError (503), a ValueError (400) or an exception that no        *)
(* handler expects (500).                                                  *)
(***************************************************************************)
Handle(c, result) ==
  \/ /\ result.kind = "result" /\ MustRebuild(result.outcomes)
     /\ http' = [http EXCEPT ![c] = "snapshot"]
     /\ UNCHANGED response
  \/ /\ result.kind = "result" /\ ~MustRebuild(result.outcomes)
     /\ http' = [http EXCEPT ![c] = "answer"]
     /\ UNCHANGED response
  \/ result.kind = "journal_error" /\ Respond(c, Bare(503))
  \/ result.kind = "value_error" /\ Respond(c, Bare(400))
  \/ result.kind = "redaction_error" /\ Respond(c, Bare(500))

Import(c) ==
  /\ http[c] = "import"
  /\ Acquire(c) \/ Refuse(c) \/ ImportStep(c)
  /\ IF pc'[c] = "idle" THEN Handle(c, reply'[c]) ELSE UNCHANGED <<http, response>>
  /\ UNCHANGED <<snapshot, projected>>

----------------------------------------------------------------------------
\* Mutant: the projection is rebuilt from what the importer verified.
TakeSnapshotOfImport(c) ==
  /\ http[c] = "snapshot"
  /\ lock = Null
  /\ ~torn
  /\ snapshot' = [snapshot EXCEPT ![c] = base[c]]
  /\ http' = [http EXCEPT ![c] = "commit"]
  /\ UNCHANGED <<vars, projected, response>>

(***************************************************************************)
(* rebuild_projection: the shared lock waits for importers, a journal that *)
(* does not verify is a ProjectionError, and so is any SQLite error.       *)
(***************************************************************************)
TakeSnapshot(c) ==
  /\ http[c] = "snapshot"
  /\ lock = Null
  /\ ~torn
  /\ snapshot' = [snapshot EXCEPT ![c] = Len(journal)]
  /\ http' = [http EXCEPT ![c] = "commit"]
  /\ UNCHANGED <<vars, projected, response>>

FindInvalid(c) ==
  /\ http[c] = "snapshot"
  /\ lock = Null
  /\ torn
  /\ RespondStale(c)
  /\ UNCHANGED <<vars, snapshot, projected>>

\* JournalLockError: the deadline of the poll loop, or the lock file fails; or
\* an OSError of the read, which no handler expects.
SnapshotRaises(c) ==
  /\ http[c] = "snapshot"
  /\ \E status \in {503, 500} : Respond(c, Bare(status))
  /\ UNCHANGED <<vars, snapshot, projected>>

CommitProjection(c) ==
  /\ http[c] = "commit"
  /\ projected' = snapshot[c]
  /\ http' = [http EXCEPT ![c] = "answer"]
  /\ UNCHANGED <<vars, snapshot, response>>

RebuildFails(c) ==
  /\ http[c] = "commit"
  /\ RespondStale(c)
  /\ UNCHANGED <<vars, snapshot, projected>>

\* The response is built after rebuild_projection has returned: by then the
\* rebuild of another handler may have been committed over this one.
ReportRebuilt(c) ==
  /\ http[c] = "answer"
  /\ RespondRebuilt(c, reply[c].outcomes)
  /\ UNCHANGED <<vars, snapshot, projected>>

\* The process of the handler dies, before or after SQLite's commit: the client
\* gets no response.
ServiceCrash(c) ==
  /\ http[c] # "idle"
  /\ IF http[c] = "import" THEN Crash(c) ELSE UNCHANGED vars
  /\ projected' \in IF http[c] = "commit" THEN {projected, snapshot[c]} ELSE {projected}
  /\ Respond(c, NoResponse)
  /\ UNCHANGED snapshot

----------------------------------------------------------------------------
ServiceInit ==
  /\ Init
  /\ http = [c \in Clients |-> "idle"]
  /\ snapshot = [c \in Clients |-> 0]
  /\ projected = 0
  /\ response = [c \in Clients |-> NoResponse]

HandlerStep(c) ==
  \/ Import(c) \/ TakeSnapshot(c) \/ FindInvalid(c) \/ SnapshotRaises(c)
  \/ CommitProjection(c) \/ RebuildFails(c) \/ ReportRebuilt(c)

ServiceNext ==
  \E c \in Clients : Request(c) \/ TurnAway(c) \/ HandlerStep(c) \/ ServiceCrash(c)

ServiceSpec == ServiceInit /\ [][ServiceNext]_<<vars, serviceVars>>

----------------------------------------------------------------------------
Answered(c) == response[c].status # 0

EntriesOfAttempt(c) == {n \in Positions : journal[n].id[1] = c /\ journal[n].id[2] = attempt[c]}

\* A response with outcomes is true of the journal: 200 means that it holds
\* every record of the batch (or an entry under its key without fingerprint),
\* 207 that this attempt left entries, 400 and 409 that it left none, and
\* journal_committed says the same, stale projection or not.
StatusIsTrue ==
  \A c \in Clients :
    LET body == response[c]
        kept(record) == \E n \in Positions : /\ journal[n].record.key = record.key
                                             /\ journal[n].print \in {Null, record}
    IN  body.outcomes # << >> =>
          /\ body.committed <=> EntriesOfAttempt(c) # {}
          /\ body.status = 200 => \A i \in 1 .. Len(batch[c]) : kept(batch[c][i])
          /\ body.status = 207 => EntriesOfAttempt(c) # {}
          /\ body.status \in {400, 409} => EntriesOfAttempt(c) = {}

\* A projection of the first entries of a journal holds what outcomes report.
Holds(log, length, outs) ==
  \A i \in 1 .. Len(outs) :
    outs[i].status \in {"imported", "duplicate"} =>
      \E n \in 1 .. length : log[n].id = outs[i].event

HeldWhenReached(c) ==
  http[c] # "answer" /\ http'[c] = "answer" =>
    Holds(journal', projected', reply'[c].outcomes)

RebuiltFromThere(c) ==
  ~Answered(c) /\ response'[c].projection = "rebuilt" =>
    http[c] = "answer" /\ response'[c].outcomes = reply[c].outcomes

\* A handler goes on to its answer "rebuilt" only at a moment when the projection
\* holds everything the importer reported as imported or duplicate, and answers
\* so only from there, with those outcomes: whatever was appended, torn, rebuilt
\* or retried meanwhile, the handler's own rebuild took them in.  That they are
\* still there when the response is sent is not claimed: a rebuild of another
\* handler, with an older snapshot, may be committed in between (the race of
\* RebuiltIsCurrent in Projection).
RebuiltCoversOutcomes ==
  [][\A c \in Clients : HeldWhenReached(c) /\ RebuiltFromThere(c)]_<<vars, serviceVars>>

\* What the importer committed is reported, whatever becomes of the rebuild.
\* docs/OPERATIONS.md: "If the journal append commits but the rebuildable
\* projection fails afterward, the response is HTTP 503 with
\* journal_committed: true and projection.state: stale".
CommitsAreReported ==
  \A c \in Clients :
    Answered(c) /\ Count(reply[c].outcomes, "imported") > 0 => response[c].committed
==============================================================================
