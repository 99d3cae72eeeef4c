----------------------------- MODULE BatchImport -----------------------------
(***************************************************************************)
(* import_evidence_batch, the importer that holds no lock of its own: it   *)
(* reads the idempotency keys once and hands every new record to           *)
(* LocalJournal.append, which locks, verifies and checks the sequence      *)
(* number for that record alone.  Importers share the journal.             *)
(*                                                                         *)
(* Records, batches, entries and outcomes are those of EvidenceIngestion.  *)
(* The caller creates the normalizer: at the length the journal had before *)
(* the call, or at 0.  Without existing_events the keys of the journal are *)
(* not looked at, and such a caller starts at 0.                           *)
(***************************************************************************)
EXTENDS EvidenceIngestion

CONSTANT MaxImports   \* times a client has its batch imported this way

VARIABLES
  store,    \* entries of the journal
  cut,      \* whether a torn line follows them
  imports   \* by client: the import at work, or the last one

batchVars == <<store, cut, imports>>

Imp(c) == imports[c]

Idle == [at |-> "idle", batch |-> << >>, attempt |-> 0, existing |-> FALSE, index |-> 1,
         base |-> 0, sequence |-> 0, last |-> Null, outcomes |-> << >>, result |-> "none"]

BatchInit ==
  /\ store = LegacyJournal
  /\ cut = FALSE
  /\ imports = [c \in Clients |-> Idle]

Becomes(c, import) == imports' = [imports EXCEPT ![c] = import]

ItsRecord(c) == Imp(c).batch[Imp(c).index]

ItsEventId(c) == <<c, Imp(c).attempt, Imp(c).index>>

ImportedBy(c) ==
  {i \in 1 .. Len(Imp(c).outcomes) : Imp(c).outcomes[i].status = "imported"}

\* import_evidence_batch is called, by a caller that made its normalizer just before.
CallImport(c) ==
  /\ Imp(c).at = "idle"
  /\ Imp(c).attempt < MaxImports
  /\ \E b \in IF Imp(c).attempt = 0 THEN Batches ELSE {Imp(c).batch},
        start \in {[existing |-> FALSE, at |-> 0], [existing |-> TRUE, at |-> 0],
                   [existing |-> TRUE, at |-> Len(store)]} :
       Becomes(c, [Idle EXCEPT !.at = "called", !.batch = b, !.attempt = Imp(c).attempt + 1,
                               !.existing = start.existing, !.sequence = start.at])
  /\ UNCHANGED <<store, cut>>

\* _existing_idempotency_entries: the journal is verified and its keys are kept.
ScanKeys(c) ==
  /\ Imp(c).at = "called"
  /\ Becomes(c, IF Imp(c).existing /\ cut
                THEN [Imp(c) EXCEPT !.at = "idle", !.result = "journal_error"]
                ELSE [Imp(c) EXCEPT !.at = "importing",
                                    !.base = IF Imp(c).existing THEN Len(store) ELSE 0])
  /\ UNCHANGED <<store, cut>>

\* The entry a record is matched with: the last of the scan that has its key, and
\* else the one of this batch that has it.
KnownEntry(c) ==
  LET key     == ItsRecord(c).key
      scanned == {n \in 1 .. Imp(c).base : store[n].key = key}
      earlier == {i \in ImportedBy(c) : Imp(c).batch[i].key = key}
  IN  IF scanned # {}
      THEN {[id |-> store[n].id, print |-> store[n].print] :
              n \in {m \in scanned : \A k \in scanned : k <= m}}
      ELSE {[id |-> Imp(c).outcomes[i].event, print |-> Imp(c).batch[i]] : i \in earlier}

----------------------------------------------------------------------------
AtRecord(c) == Imp(c).at = "importing" /\ Imp(c).index <= Len(Imp(c).batch)

NewRecord(c) == AtRecord(c) /\ ItsRecord(c) \notin Unhashable /\ KnownEntry(c) = {}

\* The import goes on with the next record, this one having the given outcome.
GoOn(c, import, status, event) ==
  Becomes(c, [import EXCEPT !.index = @ + 1,
                            !.outcomes = Append(@, Outcome(status, event))])

\* The import once normalizer.record has returned an event.
Normalized(c) == [Imp(c) EXCEPT !.sequence = @ + 1, !.last = ItsEventId(c)]

StopUnhashable(c) ==
  /\ AtRecord(c)
  /\ ItsRecord(c) \in Unhashable
  /\ Becomes(c, [Imp(c) EXCEPT !.at = "idle", !.result = "value_error"])
  /\ UNCHANGED <<store, cut>>

AnswerKnown(c) ==
  /\ AtRecord(c)
  /\ ItsRecord(c) \notin Unhashable
  /\ \E known \in KnownEntry(c) :
       GoOn(c, Imp(c), IF known.print \in {Null, ItsRecord(c)} THEN "duplicate" ELSE "conflict",
            known.id)
  /\ UNCHANGED <<store, cut>>

RejectMalformed(c) ==
  /\ NewRecord(c)
  /\ ItsRecord(c) \in Malformed
  /\ GoOn(c, Imp(c), "failed", Null)
  /\ UNCHANGED <<store, cut>>

\* Mutant: append_event only refuses a sequence number the journal has not reached.
AcceptsUpTo(c) == ~cut /\ Imp(c).sequence <= Len(store)

\* append_event under its lock: the journal verifies and the event is its next.
Accepts(c) == ~cut /\ Imp(c).sequence = Len(store)

ItsEntry(c) == Entry(ItsRecord(c), ItsRecord(c), ItsEventId(c), Imp(c).last)

AppendNext(c) ==
  /\ NewRecord(c)
  /\ ItsRecord(c) \notin Malformed \cup Unredactable \cup Unpersistable
  /\ Accepts(c)
  /\ store' = Append(store, ItsEntry(c))
  /\ GoOn(c, Normalized(c), "imported", ItsEventId(c))
  /\ UNCHANGED cut

\* append raises a JournalError or a ValueError: the lock times out, the journal
\* does not accept the event, or the write ends with nothing, a part of the line
\* or all of it behind.  The batch goes on; the normalizer has moved.
AppendFails(c) ==
  /\ NewRecord(c)
  /\ ItsRecord(c) \notin Malformed
  /\ GoOn(c, Normalized(c), "failed", Null)
  /\ \/ UNCHANGED <<store, cut>>
     \/ /\ Accepts(c)
        /\ ItsRecord(c) \notin Unredactable \cup Unpersistable
        /\ \/ cut' = TRUE /\ UNCHANGED store
           \/ store' = Append(store, ItsEntry(c)) /\ UNCHANGED cut

\* A RedactionError is none of the errors that are caught.
StopUnredactable(c) ==
  /\ NewRecord(c)
  /\ ItsRecord(c) \in Unredactable
  /\ Accepts(c)
  /\ Becomes(c, [Normalized(c) EXCEPT !.at = "idle", !.result = "redaction_error"])
  /\ UNCHANGED <<store, cut>>

ReturnOutcomes(c) ==
  /\ Imp(c).at = "importing"
  /\ Imp(c).index > Len(Imp(c).batch)
  /\ Becomes(c, [Imp(c) EXCEPT !.at = "idle", !.result = "result"])
  /\ UNCHANGED <<store, cut>>

\* The process dies between two records: a death inside an append leaves what a
\* failed append leaves.
Dies(c) ==
  /\ Imp(c).at # "idle"
  /\ Becomes(c, [Imp(c) EXCEPT !.at = "idle"])
  /\ UNCHANGED <<store, cut>>

BatchNext ==
  \E c \in Clients :
    \/ CallImport(c) \/ ScanKeys(c) \/ StopUnhashable(c) \/ AnswerKnown(c)
    \/ RejectMalformed(c) \/ AppendNext(c) \/ AppendFails(c) \/ StopUnredactable(c)
    \/ ReturnOutcomes(c) \/ Dies(c)

BatchSpec == BatchInit /\ [][BatchNext]_batchVars

----------------------------------------------------------------------------
\* The importer holds no lock between its records, yet an import that reports no
\* failed record was as good as atomic: what it imported stands together in the
\* journal, no key of it was there before, every parent is committed, and what it
\* calls a duplicate is.
CleanImportsAreAtomic ==
  \A c \in Clients :
    LET outcomes_ == Imp(c).outcomes
        entries   == {n \in 1 .. Len(store) : store[n].id[1] = c
                                              /\ store[n].id[2] = Imp(c).attempt}
    IN  Imp(c).result = "result" /\ (\A i \in 1 .. Len(outcomes_) : outcomes_[i].status # "failed")
          => /\ \A i \in ImportedBy(c) : \E n \in entries : store[n].id = outcomes_[i].event
             /\ Cardinality(entries) = Cardinality(ImportedBy(c))
             /\ \A m, n \in entries : \A k \in m .. n : k \in entries
             /\ \A n \in entries : \A m \in 1 .. n - 1 :
                  store[m].record.key # store[n].record.key
             /\ \A n \in entries :
                  store[n].parent # Null => \E m \in 1 .. n - 1 : store[m].id = store[n].parent
             /\ \A i \in 1 .. Len(outcomes_) :
                  outcomes_[i].status = "duplicate" =>
                    \E m \in 1 .. Len(store) : store[m].record.key = Imp(c).batch[i].key
                                               /\ store[m].id = outcomes_[i].event

=============================================================================
