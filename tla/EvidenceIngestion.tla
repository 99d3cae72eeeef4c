-------------------------- MODULE EvidenceIngestion --------------------------
(***************************************************************************)
(* import_evidence_batch_atomically: clients submit batches of evidence    *)
(* records to importers, which append the new ones to the shared journal   *)
(* while holding its exclusive lock, and submit a batch again when it was  *)
(* not acknowledged.                                                       *)
(*                                                                         *)
(* The journal is that of module LocalJournal, seen under its lock: a      *)
(* sequence of entries and possibly a torn tail, which makes verification  *)
(* fail.  An entry keeps what the importer reads back (the idempotency key *)
(* and fingerprint as they were persisted, after redaction), its event id  *)
(* and its parent's, and, as history, the record it was made from.         *)
(*                                                                         *)
(* A record is [key, body]; the fingerprint is collision-free, so it is    *)
(* modelled as the record.  A batch is the sequence of records after the   *)
(* importer's sort.                                                        *)
(***************************************************************************)
EXTENDS Naturals, Sequences, FiniteSets

CONSTANTS
  Clients,       \* clients, each served by an importer of its own
  Batches,       \* sequences of records that may be submitted
  Legacy,        \* records whose entries, without fingerprint, are there at the start
  MaxAttempts,   \* times a client submits its batch
  Unhashable,    \* records that have no fingerprint: their payload is no JSON
  Malformed,     \* records that do not make a valid event
  Unpersistable, \* records whose event is no longer valid once redacted
  Unredactable,  \* records that exceed the limits of the redaction policy
  RewrittenKeys, \* idempotency keys that the redaction policy rewrites
  Null           \* the value of an absent field

Records == UNION {{b[i] : i \in 1 .. Len(b)} : b \in Batches} \cup {Legacy[i] : i \in 1 .. Len(Legacy)}

ASSUME AttemptsAssumption == MaxAttempts \in Nat \ {0}
ASSUME RecordsAssumption ==
  /\ \A r \in Records : r = [key |-> r.key, body |-> r.body] /\ r.key # Null
  /\ Unhashable \cup Malformed \cup Unpersistable \cup Unredactable \subseteq Records

ASSUME BatchesAssumption == Batches \subseteq Seq(Records) /\ Legacy \in Seq(Records)
ASSUME ClientsAssumption == Null \notin Clients /\ "legacy" \notin Clients

VARIABLES
  journal,   \* verified entries of the journal
  torn,      \* whether a torn line follows them
  lock,      \* importer holding the exclusive lock, or Null
  pc,        \* where each importer is
  batch,     \* the batch each client submits
  attempt,   \* how many times it has submitted it
  index,     \* the record an importer looks at next
  base,      \* length of the journal when the importer verified it
  sequence,  \* the normalizer's next sequence number
  lastEvent, \* the normalizer's last event id
  outcomes,  \* outcomes recorded so far, one for each record looked at
  reply      \* what the client heard of its last attempt

vars == <<journal, torn, lock, pc, batch, attempt, index, base, sequence,
          lastEvent, outcomes, reply>>

importerVars == <<batch, attempt, base>>

NoReply == [kind |-> "none", outcomes |-> << >>]

----------------------------------------------------------------------------
\* The idempotency key as it is read back from a persisted event: a rewritten
\* key is no longer the text that was submitted.
PersistedKey(key) == IF key \in RewrittenKeys THEN Null ELSE key

EventId(c, i) == <<c, attempt[c], i>>

Entry(record, print, id, parent) ==
  [key |-> PersistedKey(record.key), print |-> print, id |-> id,
   parent |-> parent, record |-> record]

LegacyJournal ==
  [i \in 1 .. Len(Legacy) |->
     Entry(Legacy[i], Null, <<"legacy", 1, i>>,
           IF i = 1 THEN Null ELSE <<"legacy", 1, 1>>)]

Current(c) == batch[c][index[c]]

Imported(c) == {i \in 1 .. Len(outcomes[c]) : outcomes[c][i].status = "imported"}

(***************************************************************************)
(* Entries the record is matched with: those of the verified snapshot, by  *)
(* the key that was persisted (the last one wins), and else those this     *)
(* batch imported, by the key that was submitted.                          *)
(***************************************************************************)
\* Mutant: the last record of the journal is not looked at.
SnapshotMatchesBeforeLast(c) ==
  {n \in 1 .. base[c] - 1 : journal[n].key = Current(c).key}

SnapshotMatches(c) ==
  {n \in 1 .. base[c] : journal[n].key = Current(c).key}

BatchMatches(c) == {i \in Imported(c) : batch[c][i].key = Current(c).key}

\* Mutant: records of the same batch are not compared with each other.
MatchInSnapshot(c) ==
  {[id |-> journal[n].id, print |-> journal[n].print] : n \in SnapshotMatches(c)}

Match(c) ==
  IF SnapshotMatches(c) # {}
  THEN LET n == CHOOSE m \in SnapshotMatches(c) : \A k \in SnapshotMatches(c) : k <= m
       IN  {[id |-> journal[n].id, print |-> journal[n].print]}
  ELSE {[id |-> outcomes[c][i].event, print |-> batch[c][i]] : i \in BatchMatches(c)}

Outcome(status, event) == [status |-> status, event |-> event]

Record(c, status, event) ==
  outcomes' = [outcomes EXCEPT ![c] = Append(@, Outcome(status, event))]

NextRecord(c) == index' = [index EXCEPT ![c] = @ + 1]

Release(c) == lock' = Null

Goto(c, label) == pc' = [pc EXCEPT ![c] = label]

Raise(c, kind) ==
  /\ reply' = [reply EXCEPT ![c] = [kind |-> kind, outcomes |-> << >>]]
  /\ Release(c)
  /\ Goto(c, "idle")

----------------------------------------------------------------------------
(***************************************************************************)
(* A client submits its batch, for the first time or again.  Submitting    *)
(* again needs no reason: the answer may have been lost on its way.        *)
(***************************************************************************)
Submit(c) ==
  /\ pc[c] = "idle"
  /\ attempt[c] < MaxAttempts
  /\ \E b \in IF attempt[c] = 0 THEN Batches ELSE {batch[c]} :
       batch' = [batch EXCEPT ![c] = b]
  /\ attempt' = [attempt EXCEPT ![c] = @ + 1]
  /\ reply' = [reply EXCEPT ![c] = NoReply]
  /\ Goto(c, "waiting")
  /\ UNCHANGED <<journal, torn, lock, index, base, sequence, lastEvent, outcomes>>

\* Mutant: the importer does not wait for the importer at work.
AcquireBesideOthers(c) ==
  /\ pc[c] = "waiting"
  /\ ~torn
  /\ lock' = c
  /\ base' = [base EXCEPT ![c] = Len(journal)]
  /\ sequence' = [sequence EXCEPT ![c] = Len(journal)]
  /\ lastEvent' = [lastEvent EXCEPT ![c] = Null]
  /\ index' = [index EXCEPT ![c] = 1]
  /\ outcomes' = [outcomes EXCEPT ![c] = << >>]
  /\ Goto(c, "importing")
  /\ UNCHANGED <<journal, torn, batch, attempt, reply>>

(***************************************************************************)
(* Under the lock the whole journal is verified, the normalizer is rebased *)
(* on its length and the idempotency entries are collected.  A journal     *)
(* that does not verify, or whose file cannot be read, is an error.        *)
(***************************************************************************)
Acquire(c) ==
  /\ pc[c] = "waiting"
  /\ lock = Null
  /\ ~torn
  /\ lock' = c
  /\ base' = [base EXCEPT ![c] = Len(journal)]
  /\ sequence' = [sequence EXCEPT ![c] = Len(journal)]
  /\ lastEvent' = [lastEvent EXCEPT ![c] = Null]
  /\ index' = [index EXCEPT ![c] = 1]
  /\ outcomes' = [outcomes EXCEPT ![c] = << >>]
  /\ Goto(c, "importing")
  /\ UNCHANGED <<journal, torn, batch, attempt, reply>>

Refuse(c) ==
  /\ pc[c] = "waiting"
  /\ reply' = [reply EXCEPT ![c] = [kind |-> "journal_error", outcomes |-> << >>]]
  /\ Goto(c, "idle")
  /\ UNCHANGED <<journal, torn, lock, importerVars, index, sequence, lastEvent,
                 outcomes>>

----------------------------------------------------------------------------
Looking(c) == pc[c] = "importing" /\ index[c] <= Len(batch[c])

Fingerprinted(c) == Looking(c) /\ Current(c) \notin Unhashable

(***************************************************************************)
(* _record_idempotency_fingerprint raises ValueError, outside of the try   *)
(* that turns a record's errors into its outcome.                          *)
(***************************************************************************)
AbortUnhashable(c) ==
  /\ Looking(c)
  /\ Current(c) \in Unhashable
  /\ Raise(c, "value_error")
  /\ UNCHANGED <<journal, torn, importerVars, index, sequence, lastEvent, outcomes>>

\* Mutant: the fingerprint is not compared.
SkipMatchedByKey(c) ==
  /\ Fingerprinted(c)
  /\ \E m \in Match(c) : Record(c, "duplicate", m.id)
  /\ NextRecord(c)
  /\ UNCHANGED <<journal, torn, lock, pc, importerVars, sequence, lastEvent, reply>>

(***************************************************************************)
(* _matched_idempotency_outcome: the key is known.  An entry without a     *)
(* fingerprint counts as the same record.                                  *)
(***************************************************************************)
SkipMatched(c) ==
  /\ Fingerprinted(c)
  /\ \E m \in Match(c) :
       Record(c, IF m.print \in {Null, Current(c)} THEN "duplicate" ELSE "conflict", m.id)
  /\ NextRecord(c)
  /\ UNCHANGED <<journal, torn, lock, pc, importerVars, sequence, lastEvent, reply>>

(***************************************************************************)
(* normalizer.record raises ValueError: the record fails, the normalizer   *)
(* has not moved and the batch goes on.                                    *)
(***************************************************************************)
FailMalformed(c) ==
  /\ Fingerprinted(c)
  /\ Match(c) = {}
  /\ Current(c) \in Malformed
  /\ Record(c, "failed", Null)
  /\ NextRecord(c)
  /\ UNCHANGED <<journal, torn, lock, pc, importerVars, sequence, lastEvent, reply>>

(***************************************************************************)
(* normalizer.record succeeds: from here on its sequence and last event    *)
(* have moved, whatever becomes of the event.                              *)
(***************************************************************************)
Normalize(c) ==
  /\ Fingerprinted(c)
  /\ Match(c) = {}
  /\ Current(c) \notin Malformed
  /\ sequence' = [sequence EXCEPT ![c] = @ + 1]
  /\ lastEvent' = [lastEvent EXCEPT ![c] = EventId(c, index[c])]

\* Mutant: the sequence number of the new event is not checked.
InSequenceAssumed(c) == base[c] <= sequence[c]

InSequence(c) == sequence[c] = base[c] + Cardinality(Imported(c))

NewEntry(c) == Entry(Current(c), Current(c), EventId(c, index[c]), lastEvent[c])

AppendRecord(c) ==
  /\ Normalize(c)
  /\ InSequence(c)
  /\ Current(c) \notin Unredactable \cup Unpersistable
  /\ journal' = Append(journal, NewEntry(c))
  /\ Record(c, "imported", EventId(c, index[c]))
  /\ NextRecord(c)
  /\ UNCHANGED <<torn, lock, pc, importerVars, reply>>

\* A ValueError out of prepare_event_for_append, after the normalizer moved.
FailUnpersistable(c) ==
  /\ Normalize(c)
  /\ InSequence(c)
  /\ Current(c) \in Unpersistable
  /\ Record(c, "failed", Null)
  /\ NextRecord(c)
  /\ UNCHANGED <<journal, torn, lock, pc, importerVars, reply>>

\* A RedactionError is neither a JournalError nor a ValueError: it leaves the
\* importer, outcomes and all.
AbortUnredactable(c) ==
  /\ Normalize(c)
  /\ InSequence(c)
  /\ Current(c) \in Unredactable
  /\ Raise(c, "redaction_error")
  /\ UNCHANGED <<journal, torn, importerVars, index, outcomes>>

(***************************************************************************)
(* A JournalError: raised to the caller when this batch has imported       *)
(* nothing yet; otherwise the record fails and the rest is not looked at.  *)
(***************************************************************************)
JournalErrorOut(c) ==
  IF Imported(c) = {}
  THEN Raise(c, "journal_error") /\ UNCHANGED <<index, outcomes>>
  ELSE /\ Record(c, "failed", Null)
       /\ Goto(c, "stopped")
       /\ UNCHANGED <<lock, index, reply>>

RejectOutOfSequence(c) ==
  /\ Normalize(c)
  /\ ~InSequence(c)
  /\ JournalErrorOut(c)
  /\ UNCHANGED <<journal, torn, importerVars>>

\* The bytes an append leaves behind when it does not succeed: none, the
\* beginning of the line, or all of it when only the fsync failed.
PartOfAppend(c) ==
  \/ UNCHANGED <<journal, torn>>
  \/ torn' = TRUE /\ UNCHANGED journal
  \/ journal' = Append(journal, NewEntry(c)) /\ UNCHANGED torn

FailAppend(c) ==
  /\ Normalize(c)
  /\ InSequence(c)
  /\ Current(c) \notin Unredactable \cup Unpersistable
  /\ PartOfAppend(c)
  /\ JournalErrorOut(c)
  /\ UNCHANGED importerVars

\* Mutant: a batch that stopped early is forgotten.
AnswerWhenComplete(c) ==
  /\ pc[c] = "importing" /\ index[c] > Len(batch[c])
  /\ reply' = [reply EXCEPT ![c] = [kind |-> "result", outcomes |-> outcomes[c]]]
  /\ Release(c)
  /\ Goto(c, "idle")
  /\ UNCHANGED <<journal, torn, importerVars, index, sequence, lastEvent, outcomes>>

Answer(c) ==
  /\ \/ pc[c] = "importing" /\ index[c] > Len(batch[c])
     \/ pc[c] = "stopped"
  /\ reply' = [reply EXCEPT ![c] = [kind |-> "result", outcomes |-> outcomes[c]]]
  /\ Release(c)
  /\ Goto(c, "idle")
  /\ UNCHANGED <<journal, torn, importerVars, index, sequence, lastEvent, outcomes>>

(***************************************************************************)
(* The service dies, between two records or inside an append; the lock is  *)
(* freed with the process and the client hears nothing.                    *)
(***************************************************************************)
Crash(c) ==
  /\ pc[c] # "idle"
  /\ \/ UNCHANGED <<journal, torn>>
     \/ /\ Fingerprinted(c)
        /\ Match(c) = {}
        /\ InSequence(c)
        /\ Current(c) \notin Malformed \cup Unredactable \cup Unpersistable
        /\ PartOfAppend(c)
  /\ lock' = IF lock = c THEN Null ELSE lock
  /\ Goto(c, "idle")
  /\ UNCHANGED <<importerVars, index, sequence, lastEvent, outcomes, reply>>

----------------------------------------------------------------------------
Init ==
  /\ journal = LegacyJournal
  /\ torn = FALSE
  /\ lock = Null
  /\ pc = [c \in Clients |-> "idle"]
  /\ batch = [c \in Clients |-> << >>]
  /\ attempt = [c \in Clients |-> 0]
  /\ index = [c \in Clients |-> 1]
  /\ base = [c \in Clients |-> 0]
  /\ sequence = [c \in Clients |-> 0]
  /\ lastEvent = [c \in Clients |-> Null]
  /\ outcomes = [c \in Clients |-> << >>]
  /\ reply = [c \in Clients |-> NoReply]

ImportStep(c) ==
  \/ AbortUnhashable(c) \/ SkipMatched(c) \/ FailMalformed(c) \/ AppendRecord(c)
  \/ FailUnpersistable(c) \/ AbortUnredactable(c) \/ RejectOutOfSequence(c)
  \/ FailAppend(c) \/ Answer(c)

Next ==
  \E c \in Clients :
    \/ Submit(c) \/ Acquire(c) \/ Refuse(c) \/ ImportStep(c) \/ Crash(c)

Spec == Init /\ [][Next]_vars

(***************************************************************************)
(* Live importers keep going: a waiting one either gets the lock or is     *)
(* refused at the end of its poll loop, and under the lock it looks at one *)
(* record after the other.                                                 *)
(***************************************************************************)
FairSpec ==
  Spec /\ \A c \in Clients : WF_vars(Acquire(c) \/ Refuse(c)) /\ WF_vars(ImportStep(c))

----------------------------------------------------------------------------

Positions == 1 .. Len(journal)

\* However often batches are submitted, whichever importers race and wherever
\* they die, no idempotency key is imported twice.
KeyImportedOnce ==
  \A m, n \in Positions :
    journal[m].record.key = journal[n].record.key => m = n

EntriesOf(c) == {n \in Positions : journal[n].id[1] = c}

\* Every outcome a client is told is true of the journal it left: imported and
\* duplicate records are there (or the key is, without a fingerprint), and a
\* conflict means that the key is taken by another record and this one is not.
OutcomesAreTrue ==
  \A c \in Clients : \A i \in 1 .. Len(reply[c].outcomes) :
    LET record  == batch[c][i]
        outcome == reply[c].outcomes[i]
        holding == {n \in Positions : journal[n].id = outcome.event}
    IN  /\ outcome.status \in {"imported", "duplicate"} =>
             \E n \in holding : journal[n].record.key = record.key
                                /\ journal[n].print \in {Null, record}
        /\ outcome.status = "conflict" =>
             /\ \E n \in holding : journal[n].record.key = record.key
             /\ \A n \in Positions : journal[n].record # record

\* What one attempt committed is contiguous and in the order of its batch: the
\* entries of concurrent importers never interleave.
AttemptsAreContiguous ==
  \A m, n \in Positions :
    m < n /\ journal[m].id[1] = journal[n].id[1] /\ journal[m].id[2] = journal[n].id[2] =>
      /\ journal[m].id[3] < journal[n].id[3]
      /\ \A k \in m .. n : journal[k].id[1] = journal[n].id[1]

\* The parent of every committed event is a committed event before it, in spite
\* of records that failed after the normalizer had moved on.
ParentsAreCommitted ==
  \A n \in Positions :
    journal[n].parent # Null => \E m \in 1 .. n - 1 : journal[m].id = journal[n].parent

\* A record that the journal held when the importer took the lock, whether an
\* earlier attempt reported it or died before it could, is answered as a
\* duplicate.
RetryResolvesCommitted ==
  \A c \in Clients : \A i \in 1 .. Len(reply[c].outcomes) :
    (\E n \in 1 .. base[c] : journal[n].record = batch[c][i]) =>
      reply[c].outcomes[i].status = "duplicate"

\* A request is eventually answered unless its importer dies.
RequestsAreAnswered ==
  \A c \in Clients : pc[c] = "waiting" ~> pc[c] = "idle"

\* docs/INGESTION.md: "Import failures are reported per record with redacted
\* error messages": no attempt that looked at a record ends without outcomes
\* after it committed part of its batch.
FailuresReportedPerRecord ==
  \A c \in Clients :
    reply[c].kind \in {"value_error", "redaction_error"} => ~\E n \in EntriesOf(c) : journal[n].id[2] = attempt[c]

=============================================================================
