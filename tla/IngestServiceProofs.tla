-------------------------- MODULE IngestServiceProofs --------------------------
(***************************************************************************)
(* Proofs about IngestService, for any clients, credentials and batches:   *)
(* whatever fails between the append and the rebuild, the status that a    *)
(* client is answered with is true of the journal.                         *)
(*                                                                         *)
(* The importers of the service are those of EvidenceIngestion, with       *)
(* clients that also hear of requests that were turned away: what is       *)
(* proved of OpenSpec holds of the service.                                *)
(***************************************************************************)
EXTENDS IngestService, EvidenceIngestionProofs

----------------------------------------------------------------------------
(***************************************************************************)
(* Imports.  A record that is reported as imported or duplicate is in the  *)
(* journal (whatever the redaction policy does to keys), and a batch that  *)
(* was left early has a record that failed behind one that was imported.   *)
(***************************************************************************)
Held(c, i, outcome) ==
  outcome.status \in {"imported", "duplicate"} =>
    \E n \in Positions : /\ journal[n].id = outcome.event
                         /\ journal[n].record.key = batch[c][i].key
                         /\ journal[n].print \in {Null, batch[c][i]}

HeldInv == \A c \in Clients : Working(c) =>
  \A i \in 1 .. Len(outcomes[c]) : Held(c, i, outcomes[c][i])

Reports(outs, status) == \E i \in 1 .. Len(outs) : outs[i].status = status

StoppedInv == \A c \in Clients : pc[c] = "stopped" =>
  Imported(c) # {} /\ Reports(outcomes[c], "failed")

(***************************************************************************)
(* The outcomes of a finished batch: they report an import exactly when    *)
(* this attempt left entries, and they are complete unless one failed.     *)
(***************************************************************************)
Complete(c, outs) ==
  /\ Reports(outs, "imported") <=> EntriesOfAttempt(c) # {}
  /\ Len(outs) = Len(batch[c]) \/ Reports(outs, "failed")
  /\ \A i \in 1 .. Len(outs) : Held(c, i, outs[i])

ResultInv == \A c \in Clients : reply[c].kind = "result" =>
  pc[c] = "idle" /\ Complete(c, reply[c].outcomes)

LEMMA HeldStays ==
  ASSUME TypeOK, NEW c \in Clients, Act(c), NEW d \in Clients, NEW i, NEW outcome,
         Held(d, i, outcome), batch'[d] = batch[d]
  PROVE  Held(d, i, outcome)'
  BY JournalType DEF Held

\* The outcome of a matched record: the entry it was matched with has its key.
LEMMA MatchedHeld ==
  ASSUME TypeOK, LockInv, TailInv, EntryInv,
         NEW c \in Clients, Looking(c), NEW m \in Match(c),
         NEW status \in {"duplicate", "conflict"},
         status = "duplicate" <=> m.print \in {Null, Current(c)},
         NEW i, i = index[c], NEW outcome, outcome = Outcome(status, m.id)
  PROVE  Held(c, i, outcome)
<1>0. outcome.status = status /\ outcome.event = m.id
  BY DEF Outcome
<1>1. /\ Len(journal) \in Nat /\ base[c] \in Nat /\ base[c] <= Len(journal)
      /\ Positions = 1 .. Len(journal)
  BY LenProperties DEF TypeOK, LockInv, Phase, Positions
<1>2. Current(c) \in Records /\ Current(c).key # Null /\ Current(c) = batch[c][i]
  BY NewEntryShape, RecordShape DEF Current
<1> SUFFICES ASSUME status = "duplicate"
             PROVE  \E n \in Positions : /\ journal[n].id = m.id
                                         /\ journal[n].record.key = Current(c).key
                                         /\ journal[n].print = m.print
  BY <1>0, <1>2 DEF Held
<1>3. ASSUME NEW n \in SnapshotMatches(c), m = [id |-> journal[n].id, print |-> journal[n].print]
      PROVE  n \in Positions /\ journal[n].record.key = Current(c).key
  <2>1. n \in Positions /\ journal[n].key = Current(c).key
    BY <1>1 DEF SnapshotMatches
  <2> QED BY <1>2, <2>1 DEF EntryInv, PersistedKey
<1>4. ASSUME NEW j \in BatchMatches(c), m = [id |-> outcomes[c][j].event, print |-> batch[c][j]]
      PROVE  \E n \in Positions : /\ journal[n].id = m.id
                                  /\ journal[n].record.key = Current(c).key
                                  /\ journal[n].print = m.print
  <2>1. TailOf(c) /\ j \in Imported(c) /\ batch[c][j].key = Current(c).key
    BY DEF TailInv, Working, Looking, BatchMatches
  <2>2. PICK n \in base[c] + 1 .. Len(journal) :
          journal[n].id = EventId(c, j) /\ EntryOf(c, n) /\ outcomes[c][j].event = EventId(c, j)
    BY <2>1 DEF TailOf, Committed
  <2>3. journal[n].id[3] = j
    BY <2>2 DEF EventId
  <2>4. n \in Positions /\ journal[n].record = batch[c][j] /\ journal[n].print = batch[c][j]
    BY <1>1, <2>2, <2>3 DEF EntryOf
  <2> QED BY <1>4, <2>1, <2>2, <2>4
<1>5. CASE \E n \in SnapshotMatches(c) : m = [id |-> journal[n].id, print |-> journal[n].print]
  <2>1. PICK n \in SnapshotMatches(c) : m = [id |-> journal[n].id, print |-> journal[n].print]
    BY <1>5
  <2> QED BY <1>3, <2>1
<1> QED BY <1>1, <1>4, <1>5, MatchShape

\* A record that is appended is held.
LEMMA AppendedHeld ==
  ASSUME TypeOK, NEW c \in Clients, Appends(c), UNCHANGED batch,
         NEW i, i = index[c], NEW outcome, outcome = Outcome("imported", EventId(c, index[c]))
  PROVE  Held(c, i, outcome)'
<1>1. outcome.event = EventId(c, index[c])
  BY DEF Outcome
<1>2. /\ NewEntry(c).id = EventId(c, index[c]) /\ NewEntry(c).record = batch[c][i]
      /\ NewEntry(c).print = batch[c][i]
  BY NewEntryShape DEF Appends, Appendable, Fingerprinted, Current
<1>3. PICK n \in Positions' : journal'[n] = NewEntry(c)
  BY AppendedPositions
<1> QED BY <1>1, <1>2, <1>3 DEF Held

LEMMA HeldInvHolds == OpenSpec => []HeldInv
<1>1. Init => HeldInv
  BY DEF Init, HeldInv, Working
<1>2. ASSUME TypeOK, LockInv, TailInv, EntryInv, HeldInv, NEW c \in Clients, Act(c)
      PROVE  HeldInv'
  <2> SUFFICES ASSUME NEW d \in Clients, Working(d)', NEW i \in 1 .. Len(outcomes'[d]),
                      NEW outcome, outcome = outcomes'[d][i]
               PROVE  Held(d, i, outcome)'
    BY DEF HeldInv, Held
  <2>1. ASSUME Working(d), i \in 1 .. Len(outcomes[d]), outcomes'[d][i] = outcomes[d][i],
               batch'[d] = batch[d]
        PROVE  Held(d, i, outcome)'
    <3>1. Held(d, i, outcome)
      BY <1>2, <2>1 DEF HeldInv
    <3> QED BY <1>2, <2>1, <3>1, HeldStays
  <2>2. CASE d # c
    BY <1>2, <2>1, <2>2, OthersSteps DEF OthersAlone, Working
  <2>3. CASE d = c /\ Acquire(c)
    BY <1>2, <2>3 DEF Acquire, TypeOK
  <2>4. CASE d = c /\ ~Acquire(c)
    <3>1. /\ Fingerprinted(c) /\ Looking(c) /\ Working(c) /\ UNCHANGED batch
          /\ pc[c] = "importing"
      BY <1>2, <2>4, LookSteps DEF Fingerprinted, Looking, Working
    <3>2. index[c] \in Nat \ {0} /\ Len(outcomes[c]) = index[c] - 1
      BY <1>2, <3>1 DEF TypeOK, LockInv, Phase
    <3>3. ASSUME NEW status \in Statuses, NEW event \in Ids \cup {Null},
                 Record(c, status, event),
                 \/ \A o : o = Outcome(status, event) => Held(c, index[c], o)
                 \/ status = "failed"
                 \/ status = "imported" /\ Appends(c) /\ event = EventId(c, index[c])
          PROVE  Held(d, i, outcome)'
      <4>1. /\ Len(outcomes'[c]) = index[c] /\ outcomes'[c][index[c]] = Outcome(status, event)
            /\ \A j \in 1 .. index[c] - 1 : outcomes'[c][j] = outcomes[c][j]
        <5>1. /\ Len(outcomes'[c]) = Len(outcomes[c]) + 1
              /\ \A j \in 1 .. Len(outcomes[c]) : outcomes'[c][j] = outcomes[c][j]
              /\ outcomes'[c][Len(outcomes[c]) + 1] = Outcome(status, event)
          BY <1>2, <3>3, RecordType
        <5>2. (index[c] - 1) + 1 = index[c]
          BY <3>2
        <5> QED BY <3>2, <5>1, <5>2
      <4>2. CASE i \in 1 .. index[c] - 1
        BY <2>1, <2>4, <3>1, <3>2, <4>1, <4>2
      <4>3. CASE i = index[c]
        <5>1. outcome = Outcome(status, event)
          BY <2>4, <4>1, <4>3
        <5>2. CASE status = "failed"
          BY <5>1, <5>2 DEF Held, Outcome
        <5>3. CASE status = "imported" /\ Appends(c) /\ event = EventId(c, index[c])
          BY <1>2, <2>4, <3>1, <4>3, <5>1, <5>3, AppendedHeld
        <5>4. CASE \A o : o = Outcome(status, event) => Held(c, index[c], o)
          <6>1. Held(c, i, outcome)
            BY <4>3, <5>1, <5>4
          <6> QED BY <1>2, <2>4, <3>1, <6>1, HeldStays
        <5> QED BY <3>3, <5>2, <5>3, <5>4
      <4> QED BY <2>4, <3>2, <4>1, <4>2, <4>3
    <3>4. CASE AppendRecord(c)
      <4>1. EventId(c, index[c]) \in Ids
        BY <1>2, <3>1, NewEntryShape
      <4> QED
        BY <3>3, <3>4, <4>1 DEF AppendRecord, Normalize, Appends, Appendable, Statuses
    <3>5. CASE SkipMatched(c)
      <4>1. PICK m \in Match(c), status \in {"duplicate", "conflict"} :
              /\ m.id \in Ids \cup {Null}
              /\ status = "duplicate" <=> m.print \in {Null, Current(c)}
              /\ Record(c, status, m.id)
        BY <1>2, <3>5, SkippedPasses DEF Passes
      <4>2. ASSUME NEW o, o = Outcome(status, m.id) PROVE Held(c, index[c], o)
        BY <1>2, <3>1, <4>1, <4>2, MatchedHeld
      <4>3. PICK event \in Ids \cup {Null} : event = m.id
        BY <4>1
      <4>4. status \in Statuses
        BY DEF Statuses
      <4> QED BY <3>3, <4>1, <4>2, <4>3, <4>4
    <3>6. CASE Passes(c, "failed", Null)
      BY <3>3, <3>6 DEF Passes, Statuses
    <3> QED BY <1>2, <2>4, <3>4, <3>5, <3>6, LookSteps
  <2> QED BY <2>2, <2>3, <2>4
<1>3. HeldInv /\ UNCHANGED vars => HeldInv'
  BY DEF vars, HeldInv, Held, Working, Positions
<1>4. TypeOK /\ LockInv /\ TailInv /\ EntryInv /\ HeldInv /\ [OpenNext]_vars => HeldInv'
  BY <1>2, <1>3 DEF OpenNext
<1> QED BY <1>1, <1>4, AloneHolds, TailInvHolds, EntryInvHolds, PTL DEF OpenSpec


\* An importer that stops early has imported a record and failed on another.
LEMMA StoppedInvHolds == OpenSpec => []StoppedInv
<1>1. Init => StoppedInv
  BY DEF Init, StoppedInv
<1>2. ASSUME TypeOK, LockInv, StoppedInv, NEW c \in Clients, Act(c)
      PROVE  StoppedInv'
  <2> SUFFICES ASSUME NEW d \in Clients, pc'[d] = "stopped"
               PROVE  Imported(d)' # {} /\ Reports(outcomes[d], "failed")'
    BY DEF StoppedInv
  <2>0. pc \in [Clients -> {"idle", "waiting", "importing", "stopped"}]
    BY <1>2 DEF TypeOK
  <2>1. CASE d # c
    BY <1>2, <2>1, OthersSteps DEF OthersAlone, StoppedInv, Imported, Reports
  <2>2. CASE d = c
    <3>1. ~Acquire(c)
      BY <2>0, <2>2 DEF Acquire, Goto
    <3>2. pc[c] = "importing" /\ Working(c)'
      BY <1>2, <2>2, <3>1, LookSteps DEF Working, Fingerprinted, Looking
    <3>3. RejectOutOfSequence(c) \/ FailAppend(c)
      BY <1>2, <2>0, <2>2, <3>1, <3>2
      DEF Act, ImportStep, Submit, Refuse, Crash, Forget, AbortUnhashable, SkipMatched,
          FailMalformed, AppendRecord, FailUnpersistable, AbortUnredactable, Answer,
          Goto, Raise
    <3>4. Imported(c) # {} /\ Record(c, "failed", Null)
      BY <2>0, <2>2, <3>2, <3>3
      DEF RejectOutOfSequence, FailAppend, JournalErrorOut, Raise, Goto
    <3>5. Imported(c)' = Imported(c)
      BY <1>2, <3>4, RecordImported DEF Statuses
    <3>6. PICK n \in Nat : n = Len(outcomes[c])
      BY <1>2, LenProperties DEF TypeOK
    <3>7. Len(outcomes'[c]) = n + 1 /\ outcomes'[c][n + 1] = Outcome("failed", Null)
      BY <1>2, <3>4, <3>6, RecordType DEF Statuses
    <3>8. n + 1 \in 1 .. Len(outcomes'[c]) /\ outcomes'[c][n + 1].status = "failed"
      BY <3>6, <3>7 DEF Outcome
    <3> QED BY <2>2, <3>4, <3>5, <3>8 DEF Reports
  <2> QED BY <2>1, <2>2
<1>3. StoppedInv /\ UNCHANGED vars => StoppedInv'
  BY DEF vars, StoppedInv, Imported, Reports
<1>4. TypeOK /\ LockInv /\ StoppedInv /\ [OpenNext]_vars => StoppedInv'
  BY <1>2, <1>3 DEF OpenNext
<1> QED BY <1>1, <1>4, AloneHolds, PTL DEF OpenSpec

\* The entries an attempt leaves are those of the records it imported, and
\* those of an append that failed behind one.
LEMMA WorkLeaves ==
  ASSUME TypeOK, LockInv, TailInv, AgeInv, StoppedInv, NEW c \in Clients, Working(c)
  PROVE  Imported(c) # {} <=> EntriesOfAttempt(c) # {}
<1>1. /\ Len(journal) \in Nat /\ base[c] \in Nat /\ base[c] <= Len(journal)
      /\ Positions = 1 .. Len(journal) /\ attempt[c] \in Nat /\ TailOf(c)
  BY LenProperties DEF TypeOK, LockInv, Phase, Positions, TailInv
<1>2. ASSUME NEW i \in Imported(c) PROVE EntriesOfAttempt(c) # {}
  <2>1. PICK n \in base[c] + 1 .. Len(journal) : EntryOf(c, n)
    BY <1>1 DEF TailOf, Committed
  <2>2. n \in EntriesOfAttempt(c)
    BY <1>1, <2>1 DEF EntryOf, EntriesOfAttempt
  <2> QED BY <2>2
<1>3. ASSUME NEW n \in EntriesOfAttempt(c) PROVE Imported(c) # {}
  <2>1. n \in Positions /\ journal[n].id[1] = c /\ journal[n].id[2] = attempt[c]
    BY DEF EntriesOfAttempt
  <2>2. ~(n <= base[c])
    BY <1>1, <2>1 DEF AgeInv
  <2>3. n \in base[c] + 1 .. Len(journal)
    BY <1>1, <2>1, <2>2
  <2>4. CASE pc[c] = "importing"
    BY <1>1, <2>3, <2>4 DEF TailOf
  <2>5. CASE pc[c] = "stopped"
    BY <2>5 DEF StoppedInv
  <2> QED BY <2>4, <2>5 DEF Working
<1> QED BY <1>2, <1>3

\* What was finished stays finished while others import.
LEMMA CompleteStays ==
  ASSUME TypeOK, LockInv, NEW c \in Clients, Act(c), NEW d \in Clients, NEW outs,
         Complete(d, outs), batch'[d] = batch[d], attempt'[d] = attempt[d],
         d # c \/ UNCHANGED journal
  PROVE  Complete(d, outs)'
<1>1. EntriesOfAttempt(d)' = EntriesOfAttempt(d)
  <2>1. CASE UNCHANGED journal
    BY <2>1 DEF EntriesOfAttempt, Positions
  <2>2. CASE Appends(c) /\ d # c
    <3>1. PICK k : k = Len(journal) + 1
      OBVIOUS
    <3>2. /\ Positions' = Positions \cup {k} /\ k \notin Positions
          /\ \A n \in Positions : journal'[n] = journal[n]
          /\ journal'[k] = NewEntry(c)
      BY <2>2, <3>1, AppendedPositions DEF Positions
    <3>3. journal'[k].id[1] = c
      <4>1. NewEntry(c).id = EventId(c, index[c])
        BY <2>2, NewEntryShape DEF Appends, Appendable, Fingerprinted
      <4>2. EventId(c, index[c])[1] = c
        BY DEF EventId
      <4> QED BY <3>2, <4>1, <4>2
    <3>4. ASSUME NEW n PROVE n \in EntriesOfAttempt(d)' <=> n \in EntriesOfAttempt(d)
      <4>1. CASE n = k
        BY <2>2, <3>2, <3>3, <4>1 DEF EntriesOfAttempt
      <4>2. CASE n \in Positions
        BY <3>2, <4>2 DEF EntriesOfAttempt
      <4> QED BY <3>2, <4>1, <4>2 DEF EntriesOfAttempt
    <3> QED BY <3>4
  <2> QED BY <2>1, <2>2, JournalSteps
<1>2. \A i \in 1 .. Len(outs) : Held(d, i, outs[i])'
  BY HeldStays DEF Complete
<1> QED BY <1>1, <1>2 DEF Complete, Reports

\* The steps of a client after which it has the outcomes of a finished batch.
LEMMA ResultSteps ==
  ASSUME TypeOK, NEW c \in Clients, Act(c), reply'[c].kind = "result"
  PROVE  \/ Answer(c)
         \/ /\ reply'[c] = reply[c] /\ pc[c] # "idle"
<1> USE DEF TypeOK, Goto, Raise, importerVars
<1>1. ~Submit(c) /\ ~Refuse(c) /\ ~AbortUnhashable(c) /\ ~AbortUnredactable(c) /\ ~Forget(c)
  BY DEF Submit, Refuse, AbortUnhashable, AbortUnredactable, Forget, NoReply
<1>2. CASE Acquire(c) \/ Crash(c)
  BY <1>2 DEF Acquire, Crash
<1>3. CASE SkipMatched(c) \/ FailMalformed(c) \/ AppendRecord(c) \/ FailUnpersistable(c)
  BY <1>3 DEF SkipMatched, FailMalformed, AppendRecord, FailUnpersistable, Normalize,
              Fingerprinted, Looking
<1>4. CASE RejectOutOfSequence(c) \/ FailAppend(c)
  BY <1>4 DEF RejectOutOfSequence, FailAppend, JournalErrorOut, Normalize, Fingerprinted,
              Looking
<1> QED BY <1>1, <1>2, <1>3, <1>4 DEF Act, ImportStep

\* A client that has the outcomes of its batch has all of them, and they are
\* those of the records in the journal.
LEMMA ResultInvHolds == OpenSpec => []ResultInv
<1>1. Init => ResultInv
  BY DEF Init, ResultInv, NoReply
<1>2. ASSUME TypeOK, LockInv, TailInv, AgeInv, HeldInv, StoppedInv, ResultInv,
             NEW c \in Clients, Act(c)
      PROVE  ResultInv'
  <2> SUFFICES ASSUME NEW d \in Clients, reply'[d].kind = "result",
                      NEW outs, outs = reply'[d].outcomes
               PROVE  pc'[d] = "idle" /\ Complete(d, outs)'
    BY DEF ResultInv, Complete, Reports, Held
  <2>1. CASE d # c
    <3>1. /\ reply'[d] = reply[d] /\ batch'[d] = batch[d] /\ attempt'[d] = attempt[d]
          /\ pc'[d] = pc[d]
      BY <1>2, <2>1, OthersSteps DEF OthersAlone
    <3>3. pc[d] = "idle" /\ Complete(d, outs)
      BY <3>1, <1>2 DEF ResultInv
    <3>4. Complete(d, outs)'
      BY <1>2, <2>1, <3>1, <3>3, CompleteStays
    <3> QED BY <3>1, <3>3, <3>4
  <2>2. CASE d = c
    <3>1. Answer(c)
      BY <1>2, <2>2, ResultSteps DEF ResultInv
    <3>2. outs = outcomes[c]
      BY <1>2, <2>2, <3>1 DEF Answer, TypeOK
    <3>3. /\ pc'[c] = "idle" /\ Working(c)
          /\ UNCHANGED <<journal, batch, attempt>>
      BY <1>2, <3>1 DEF Answer, Goto, TypeOK, importerVars, Working
    <3>4. Complete(c, outs)
      <4>1. Reports(outs, "imported") <=> Imported(c) # {}
        BY <3>2 DEF Reports, Imported
      <4>2. Len(outs) = Len(batch[c]) \/ Reports(outs, "failed")
        <5>1. CASE pc[c] = "stopped"
          BY <1>2, <3>2, <5>1 DEF StoppedInv
        <5>2. CASE pc[c] = "importing" /\ index[c] > Len(batch[c])
          <6>1. /\ Len(outs) = index[c] - 1 /\ index[c] <= Len(batch[c]) + 1
                /\ index[c] \in Nat /\ Len(batch[c]) \in Nat
            BY <1>2, <3>2, <5>2, LenProperties DEF LockInv, Phase, TypeOK
          <6> QED BY <5>2, <6>1
        <5> QED BY <3>1, <5>1, <5>2 DEF Answer
      <4>3. \A i \in 1 .. Len(outs) : Held(c, i, outs[i])
        BY <1>2, <3>2, <3>3 DEF HeldInv
      <4> QED BY <1>2, <3>3, <4>1, <4>2, <4>3, WorkLeaves DEF Complete
    <3>5. Complete(c, outs)'
      BY <3>3, <3>4 DEF Complete, Reports, Held, EntriesOfAttempt, Positions
    <3> QED BY <2>2, <3>3, <3>5
  <2> QED BY <2>1, <2>2
<1>3. ResultInv /\ UNCHANGED vars => ResultInv'
  BY DEF vars, ResultInv, Complete, Reports, Held, EntriesOfAttempt, Positions
<1>4. /\ TypeOK /\ LockInv /\ TailInv /\ AgeInv
      /\ HeldInv /\ StoppedInv /\ ResultInv
      /\ [OpenNext]_vars
      => ResultInv'
  BY <1>2, <1>3 DEF OpenNext
<1> QED
  BY <1>1, <1>4, AloneHolds, TailInvHolds, AgeInvHolds, HeldInvHolds, StoppedInvHolds, PTL
  DEF OpenSpec


----------------------------------------------------------------------------
(***************************************************************************)
(* The handlers.  One imports exactly while its importer is at work, and   *)
(* one that rebuilds has the outcomes of its batch.                        *)
(***************************************************************************)
Responses ==
  [status : Nat, committed : BOOLEAN, projection : {"none", "stale", "rebuilt"},
   outcomes : Seq(OutcomeRecords)]

Stages == {"idle", "import", "snapshot", "commit", "answer"}

ServiceTypeOK ==
  /\ http \in [Clients -> Stages]
  /\ snapshot \in [Clients -> Nat]
  /\ response \in [Clients -> Responses]

HttpInv == \A c \in Clients :
  /\ http[c] = "import" <=> pc[c] # "idle"
  /\ http[c] \in {"snapshot", "commit", "answer"} => reply[c].kind = "result"

(***************************************************************************)
(* A rebuild that is about to commit has indexed everything the outcomes   *)
(* report as imported or duplicate.                                        *)
(***************************************************************************)
Indexes(c, outcome) ==
  outcome.status \in {"imported", "duplicate"} =>
    \E n \in Positions : n <= snapshot[c] /\ journal[n].id = outcome.event

CoverInv == \A c \in Clients : http[c] = "commit" =>
  \A i \in 1 .. Len(reply[c].outcomes) : Indexes(c, reply[c].outcomes[i])

(***************************************************************************)
(* A response with outcomes is about the batch the client submitted last.  *)
(***************************************************************************)
AnswerInv == \A c \in Clients :
  /\ response[c].status = 0 => response[c].projection = "none"
  /\ response[c].outcomes # << >> =>
       /\ http[c] = "idle"
       /\ reply[c].kind = "result"
       /\ reply[c].outcomes = response[c].outcomes
       /\ response[c].committed = (Count(response[c].outcomes, "imported") > 0)
       /\ response[c].status \in {503, Status(response[c].outcomes)}

\* An outcome is counted when there is one.
LEMMA Counted ==
  ASSUME NEW outs \in Seq(OutcomeRecords), NEW status
  PROVE  /\ Count(outs, status) \in Nat
         /\ Count(outs, status) > 0 <=> Reports(outs, status)
<1> DEFINE S == {i \in 1 .. Len(outs) : outs[i].status = status}
<1>1. Len(outs) \in Nat
  BY LenProperties
<1>2. IsFiniteSet(1 .. Len(outs)) /\ S \subseteq 1 .. Len(outs)
  BY <1>1, FS_Interval
<1>3. IsFiniteSet(S)
  BY <1>2, FS_Subset
<1>4. Reports(outs, status) <=> S # {}
  BY DEF Reports
<1>5. Count(outs, status) = Cardinality(S)
  BY DEF Count
<1> HIDE DEF S
<1>6. Cardinality(S) \in Nat /\ (Cardinality(S) = 0 <=> S = {})
  BY <1>3, FS_CardinalityType, FS_EmptySet
<1> QED BY <1>4, <1>5, <1>6

LEMMA StatusType ==
  ASSUME NEW outs \in Seq(OutcomeRecords)
  PROVE  /\ Status(outs) \in {200, 207, 400, 409}
         /\ Status(outs) = 200 => ~Reports(outs, "conflict") /\ ~Reports(outs, "failed")
         /\ Status(outs) = 207 => Reports(outs, "imported")
         /\ Status(outs) \in {400, 409} => ~Reports(outs, "imported")
<1>1. \A status \in Statuses : /\ Count(outs, status) \in Nat
                               /\ Count(outs, status) > 0 <=> Reports(outs, status)
  BY Counted
<1>2. /\ Count(outs, "imported") \in Nat /\ Count(outs, "conflict") \in Nat
      /\ Count(outs, "failed") \in Nat
      /\ Count(outs, "imported") > 0 <=> Reports(outs, "imported")
      /\ Count(outs, "conflict") > 0 <=> Reports(outs, "conflict")
      /\ Count(outs, "failed") > 0 <=> Reports(outs, "failed")
  BY <1>1 DEF Statuses
<1> QED BY <1>2 DEF Status

Serve(c) == Request(c) \/ TurnAway(c) \/ HandlerStep(c) \/ ServiceCrash(c)

\* A step of the service is one of a client or its importer, or none of them.
LEMMA ServeActs ==
  ASSUME TypeOK, ServiceTypeOK, HttpInv, NEW c \in Clients, Serve(c)
  PROVE  Act(c) \/ UNCHANGED vars
<1>1. CASE Request(c)
  BY <1>1 DEF Request, Act
<1>2. CASE TurnAway(c)
  <2>1. pc[c] = "idle"
    BY <1>2 DEF TurnAway, HttpInv
  <2> QED BY <1>2, <2>1 DEF TurnAway, Act, Forget
<1>3. CASE Import(c)
  BY <1>3 DEF Import, Act
<1>4. CASE TakeSnapshot(c) \/ FindInvalid(c) \/ SnapshotRaises(c) \/ CommitProjection(c)
           \/ RebuildFails(c) \/ ReportRebuilt(c)
  BY <1>4 DEF TakeSnapshot, FindInvalid, SnapshotRaises, CommitProjection, RebuildFails,
              ReportRebuilt
<1>5. CASE ServiceCrash(c)
  BY <1>5 DEF ServiceCrash, Act
<1> QED BY <1>1, <1>2, <1>3, <1>4, <1>5 DEF Serve, HandlerStep

\* What a handler makes of the outcomes is a response.
LEMMA BodyType ==
  ASSUME NEW outs \in Seq(OutcomeRecords), NEW status \in Nat, NEW state \in {"stale", "rebuilt"}
  PROVE  /\ Body(status, state, outs) \in Responses
         /\ Body(status, state, outs).status = status
         /\ Body(status, state, outs).projection = state
         /\ Body(status, state, outs).outcomes = outs
         /\ Body(status, state, outs).committed = (Count(outs, "imported") > 0)
<1>1. (Count(outs, "imported") > 0) \in BOOLEAN
  OBVIOUS
<1> QED BY <1>1 DEF Body, Responses

LEMMA BareType ==
  ASSUME NEW status \in Nat
  PROVE  /\ Bare(status) \in Responses
         /\ Bare(status).status = status
         /\ Bare(status).projection = "none"
         /\ Bare(status).outcomes = << >>
         /\ NoResponse \in Responses /\ NoResponse.outcomes = << >>
         /\ NoResponse.projection = "none"
<1>1. << >> \in Seq(OutcomeRecords)
  BY EmptySeq
<1> QED BY <1>1 DEF Bare, NoResponse, Responses

(***************************************************************************)
(* How a step changes what the client of the handler hears: nothing, a     *)
(* response without a body about the batch, or one with the outcomes that  *)
(* the importer returned.                                                  *)
(***************************************************************************)
Silent(c) == UNCHANGED response

Bared(c) ==
  \E answer \in Responses :
    /\ answer.outcomes = << >> /\ answer.projection = "none"
    /\ response' = [response EXCEPT ![c] = answer]

Told(c) ==
  \E status \in Nat, state \in {"stale", "rebuilt"} :
    /\ reply'[c].kind = "result"
    /\ http'[c] = "idle"
    /\ status = 503 \/ status = Status(reply'[c].outcomes)
    /\ response' = [response EXCEPT ![c] = Body(status, state, reply'[c].outcomes)]
    /\ state = "rebuilt" => http[c] = "answer" /\ UNCHANGED vars

\* What a handler does with its importer's return.
LEMMA HandleSteps ==
  ASSUME TypeOK', ServiceTypeOK, NEW c \in Clients, Handle(c, reply'[c])
  PROVE  /\ http' \in [Clients -> Stages]
         /\ \A d \in Clients \ {c} : http'[d] = http[d]
         /\ \/ http'[c] = "snapshot" /\ reply'[c].kind = "result" /\ UNCHANGED response
            \/ /\ http'[c] = "answer" /\ reply'[c].kind = "result" /\ UNCHANGED response
               /\ ~MustRebuild(reply'[c].outcomes)
            \/ http'[c] = "idle" /\ Bared(c)
<1>0. http \in [Clients -> Stages]
  BY DEF ServiceTypeOK
<1>1. CASE reply'[c].kind = "result" /\ MustRebuild(reply'[c].outcomes)
           /\ http' = [http EXCEPT ![c] = "snapshot"] /\ UNCHANGED response
  BY <1>0, <1>1 DEF Stages
<1>2. CASE reply'[c].kind = "result" /\ ~MustRebuild(reply'[c].outcomes)
           /\ http' = [http EXCEPT ![c] = "answer"] /\ UNCHANGED response
  BY <1>0, <1>2 DEF Stages
<1>3. ASSUME NEW status \in Nat, Respond(c, Bare(status))
      PROVE  Bared(c) /\ http' = [http EXCEPT ![c] = "idle"]
  BY <1>3, BareType DEF Respond, Bared
<1> QED BY <1>0, <1>1, <1>2, <1>3 DEF Handle, Stages


\* A step of a handler keeps the handlers' types, imports while its importer is
\* at work, and says nothing, something about the request, or what was imported.
LEMMA ServeSteps ==
  ASSUME TypeOK, LockInv, TypeOK', ServiceTypeOK, HttpInv, NEW c \in Clients, Serve(c)
  PROVE  /\ http' \in [Clients -> Stages]
         /\ snapshot' \in [Clients -> Nat]
         /\ \A d \in Clients \ {c} : http'[d] = http[d] /\ snapshot'[d] = snapshot[d]
         /\ http'[c] = "import" <=> pc'[c] # "idle"
         /\ http'[c] \in {"snapshot", "commit", "answer"} => reply'[c].kind = "result"
         /\ http'[c] = "answer" =>
              \/ ~MustRebuild(reply'[c].outcomes)
              \/ http[c] = "commit" /\ UNCHANGED vars /\ projected' = snapshot[c]
         /\ http'[c] = "commit" => UNCHANGED vars /\ snapshot'[c] = Len(journal)
         /\ \/ UNCHANGED response /\ http[c] # "idle"
            \/ Bared(c)
            \/ Told(c)
<1>0. /\ http \in [Clients -> Stages]
      /\ snapshot \in [Clients -> Nat]
      /\ http[c] = "import" <=> pc[c] # "idle"
      /\ http[c] \in {"snapshot", "commit", "answer"} => reply[c].kind = "result"
  BY DEF ServiceTypeOK, HttpInv
<1> USE DEF Stages
<1>b. ASSUME NEW status \in Nat, Respond(c, Bare(status))
      PROVE  Bared(c) /\ http' = [http EXCEPT ![c] = "idle"]
  BY <1>b, BareType DEF Respond, Bared
<1>n. ASSUME Respond(c, NoResponse)
      PROVE  Bared(c) /\ http' = [http EXCEPT ![c] = "idle"]
  BY <1>n, BareType DEF Respond, Bared
<1>1. CASE Request(c)
  <2>1. /\ http' = [http EXCEPT ![c] = "import"] /\ UNCHANGED snapshot
        /\ response' = [response EXCEPT ![c] = NoResponse]
        /\ Submit(c)
    BY <1>1 DEF Request
  <2>2. pc'[c] = "waiting"
    BY <2>1 DEF Submit, Goto, TypeOK
  <2>3. Bared(c)
    BY <2>1, BareType DEF Bared
  <2> QED BY <1>0, <2>1, <2>2, <2>3
<1>2. CASE TurnAway(c)
  <2>1. \E status \in Nat : Respond(c, Bare(status))
    BY <1>2 DEF TurnAway
  <2>2. UNCHANGED <<snapshot, pc>> /\ http[c] = "idle"
    BY <1>2 DEF TurnAway
  <2>3. Bared(c) /\ http' = [http EXCEPT ![c] = "idle"]
    BY <1>b, <2>1
  <2> QED BY <1>0, <2>2, <2>3
<1>3. CASE Import(c)
  <2>1. UNCHANGED snapshot /\ http[c] = "import"
    BY <1>3 DEF Import
  <2>2. CASE pc'[c] = "idle"
    <3>1. Handle(c, reply'[c])
      BY <1>3, <2>2 DEF Import
    <3> QED BY <1>0, <2>1, <2>2, <3>1, HandleSteps
  <2>3. CASE pc'[c] # "idle"
    <3>1. UNCHANGED <<http, response>>
      BY <1>3, <2>3 DEF Import
    <3> QED BY <1>0, <2>1, <2>3, <3>1
  <2> QED BY <2>2, <2>3
<1>4. CASE TakeSnapshot(c)
  <2>1. /\ http' = [http EXCEPT ![c] = "commit"] /\ http[c] = "snapshot"
        /\ snapshot' = [snapshot EXCEPT ![c] = Len(journal)]
        /\ UNCHANGED <<vars, response>>
    BY <1>4 DEF TakeSnapshot
  <2>2. UNCHANGED <<pc, reply>>
    BY <2>1 DEF vars
  <2>3. Len(journal) \in Nat
    BY LenProperties DEF TypeOK
  <2> QED BY <1>0, <2>1, <2>2, <2>3
<1>5. CASE FindInvalid(c) \/ RebuildFails(c)
  <2>1. /\ RespondStale(c) /\ http[c] \in {"snapshot", "commit"}
        /\ UNCHANGED <<pc, reply>> /\ UNCHANGED snapshot
    BY <1>5 DEF FindInvalid, RebuildFails, vars
  <2>2. /\ http' = [http EXCEPT ![c] = "idle"]
        /\ response' = [response EXCEPT ![c] = Body(503, "stale", reply'[c].outcomes)]
    BY <2>1 DEF RespondStale, Respond
  <2>3. Told(c)
    <3>1. reply'[c].kind = "result" /\ http'[c] = "idle"
      BY <1>0, <2>1, <2>2
    <3>2. PICK status \in Nat, state \in {"stale", "rebuilt"} : status = 503 /\ state = "stale"
      OBVIOUS
    <3>3. response' = [response EXCEPT ![c] = Body(status, state, reply'[c].outcomes)]
      BY <2>2, <3>2
    <3> QED BY <3>1, <3>2, <3>3 DEF Told
  <2> QED BY <1>0, <2>1, <2>2, <2>3
<1>6. CASE SnapshotRaises(c)
  <2>1. \E status \in Nat : Respond(c, Bare(status))
    BY <1>6 DEF SnapshotRaises
  <2>2. UNCHANGED <<pc, reply>> /\ UNCHANGED snapshot /\ http[c] = "snapshot"
    BY <1>6 DEF SnapshotRaises, vars
  <2>3. Bared(c) /\ http' = [http EXCEPT ![c] = "idle"]
    BY <1>b, <2>1
  <2> QED BY <1>0, <2>2, <2>3
<1>7. CASE CommitProjection(c)
  <2>1. /\ http' = [http EXCEPT ![c] = "answer"] /\ http[c] = "commit"
        /\ UNCHANGED vars /\ UNCHANGED <<pc, reply, snapshot, response>>
        /\ projected' = snapshot[c]
    BY <1>7 DEF CommitProjection, vars
  <2> QED BY <1>0, <2>1
<1>9. CASE ReportRebuilt(c)
  <2>1. /\ RespondRebuilt(c, reply[c].outcomes) /\ http[c] = "answer"
        /\ UNCHANGED vars /\ UNCHANGED <<pc, reply, snapshot>>
    BY <1>9 DEF ReportRebuilt, vars
  <2>2. /\ http' = [http EXCEPT ![c] = "idle"]
        /\ response' = [response EXCEPT ![c] =
                          Body(Status(reply'[c].outcomes), "rebuilt", reply'[c].outcomes)]
    BY <2>1 DEF RespondRebuilt, Respond
  <2>3. Status(reply'[c].outcomes) \in Nat
    <3>1. reply'[c].outcomes \in Seq(OutcomeRecords)
      BY DEF TypeOK
    <3> QED BY <3>1, StatusType
  <2>4. Told(c)
    BY <1>0, <2>1, <2>2, <2>3 DEF Told
  <2> QED BY <1>0, <2>1, <2>2, <2>4
<1>8. CASE ServiceCrash(c)
  <2>1. /\ Respond(c, NoResponse) /\ UNCHANGED snapshot
        /\ http[c] = "import" => Crash(c)
        /\ http[c] # "import" => UNCHANGED vars
    BY <1>8 DEF ServiceCrash
  <2>2. pc'[c] = "idle"
    BY <1>0, <2>1 DEF Crash, Goto, TypeOK, vars
  <2>3. Bared(c) /\ http' = [http EXCEPT ![c] = "idle"]
    BY <1>n, <2>1
  <2> QED BY <1>0, <2>1, <2>2, <2>3
<1> QED BY <1>1, <1>2, <1>3, <1>4, <1>5, <1>6, <1>7, <1>8, <1>9 DEF Serve, HandlerStep

(***************************************************************************)
(* The handlers of all clients.                                            *)
(***************************************************************************)
ServiceInv == TypeOK /\ LockInv /\ ServiceTypeOK /\ HttpInv

LEMMA ServiceInitInv == ServiceInit => ServiceInv
<1> SUFFICES ASSUME ServiceInit PROVE ServiceInv
  OBVIOUS
<1>1. TypeOK /\ LockInv
  BY InitTypeOK, InitLockInv DEF ServiceInit
<1>2. ServiceTypeOK
  BY BareType DEF ServiceInit, ServiceTypeOK, Stages
<1>3. HttpInv
  BY DEF ServiceInit, Init, HttpInv
<1> QED BY <1>1, <1>2, <1>3 DEF ServiceInv

LEMMA ServeKeeps ==
  ASSUME ServiceInv, NEW c \in Clients, Serve(c)
  PROVE  ServiceInv' /\ (Act(c) \/ UNCHANGED vars)
<1>1. TypeOK /\ LockInv /\ ServiceTypeOK /\ HttpInv
  BY DEF ServiceInv
<1>2. Act(c) \/ UNCHANGED vars
  BY <1>1, ServeActs
<1>3. TypeOK' /\ LockInv'
  BY <1>1, <1>2, StepLockInv DEF OpenNext
<1>4. ServiceTypeOK'
  <2>1. http' \in [Clients -> Stages]
        /\ snapshot' \in [Clients -> Nat]
    BY <1>1, <1>3, ServeSteps
  <2>2. UNCHANGED response \/ Bared(c) \/ Told(c)
    BY <1>1, <1>3, ServeSteps
  <2>3. response \in [Clients -> Responses]
    BY <1>1 DEF ServiceTypeOK
  <2>4. ASSUME Told(c) PROVE response' \in [Clients -> Responses]
    <3>1. PICK status \in Nat, state \in {"stale", "rebuilt"} :
            response' = [response EXCEPT ![c] = Body(status, state, reply'[c].outcomes)]
      BY <2>4 DEF Told
    <3>2. reply'[c].outcomes \in Seq(OutcomeRecords)
      BY <1>3 DEF TypeOK
    <3>3. Body(status, state, reply'[c].outcomes) \in Responses
      BY <3>2, BodyType
    <3> QED BY <2>3, <3>1, <3>3
  <2>5. response' \in [Clients -> Responses]
    BY <2>2, <2>3, <2>4 DEF Bared
  <2> QED BY <2>1, <2>5 DEF ServiceTypeOK
<1>5. HttpInv'
  <2> SUFFICES ASSUME NEW d \in Clients
               PROVE  /\ http'[d] = "import" <=> pc'[d] # "idle"
                      /\ http'[d] \in {"snapshot", "commit", "answer"} =>
                           reply'[d].kind = "result"
    BY DEF HttpInv
  <2>1. CASE d = c
    BY <1>1, <1>3, <2>1, ServeSteps
  <2>2. CASE d # c
    <3>1. http'[d] = http[d]
      BY <1>1, <1>3, <2>2, ServeSteps
    <3>2. pc'[d] = pc[d] /\ reply'[d] = reply[d]
      BY <1>1, <1>2, <2>2, OthersSteps DEF OthersAlone, vars
    <3> QED BY <1>1, <3>1, <3>2 DEF HttpInv
  <2> QED BY <2>1, <2>2
<1> QED BY <1>2, <1>3, <1>4, <1>5 DEF ServiceInv

LEMMA StepServiceInv ==
  ASSUME ServiceInv, [ServiceNext]_<<vars, serviceVars>>
  PROVE  ServiceInv' /\ [OpenNext]_vars
<1>1. CASE UNCHANGED <<vars, serviceVars>>
  <2>1. UNCHANGED vars /\ UNCHANGED <<http, snapshot, response>>
    BY <1>1 DEF serviceVars
  <2>2. TypeOK' /\ LockInv'
    BY <2>1, StepLockInv DEF ServiceInv
  <2>3. ServiceTypeOK' /\ HttpInv'
    BY <2>1 DEF ServiceInv, ServiceTypeOK, HttpInv, vars
  <2> QED BY <2>1, <2>2, <2>3 DEF ServiceInv
<1>2. ASSUME NEW c \in Clients, Serve(c) PROVE ServiceInv' /\ [OpenNext]_vars
  BY <1>2, ServeKeeps DEF OpenNext
<1> QED BY <1>1, <1>2 DEF ServiceNext, Serve

\* Every reachable state of the service is well typed, a handler imports exactly
\* while its importer is at work, and what holds of importers and their clients
\* holds in the service.
THEOREM HandlersServeImports == ServiceSpec => []ServiceInv /\ OpenSpec
<1>1. ServiceInit => ServiceInv /\ Init
  BY ServiceInitInv DEF ServiceInit
<1>2. ServiceInv /\ [ServiceNext]_<<vars, serviceVars>> => ServiceInv' /\ [OpenNext]_vars
  BY StepServiceInv
<1> QED BY <1>1, <1>2, PTL DEF ServiceSpec, OpenSpec


----------------------------------------------------------------------------
\* A step of the service, of the handlers and of the importers behind them.
LEMMA ServiceSteps ==
  ASSUME ServiceInv, NEW c \in Clients, Serve(c)
  PROVE  /\ Act(c) \/ UNCHANGED vars
         /\ TypeOK /\ LockInv /\ TypeOK' /\ ServiceTypeOK /\ ServiceTypeOK' /\ HttpInv
         /\ \A d \in Clients \ {c} :
              /\ http'[d] = http[d] /\ snapshot'[d] = snapshot[d] /\ response'[d] = response[d]
              /\ reply'[d] = reply[d]
<1>1. /\ TypeOK /\ LockInv /\ ServiceTypeOK /\ HttpInv
      /\ TypeOK' /\ ServiceTypeOK'
      /\ Act(c) \/ UNCHANGED vars
  BY ServeKeeps DEF ServiceInv
<1>2. \A d \in Clients \ {c} : http'[d] = http[d] /\ snapshot'[d] = snapshot[d]
  BY <1>1, ServeSteps
<1>3. \A d \in Clients \ {c} : reply'[d] = reply[d]
  BY <1>1, OthersSteps DEF OthersAlone, vars
<1>4. UNCHANGED response \/ Bared(c) \/ Told(c)
  BY <1>1, ServeSteps
<1>5. \A d \in Clients \ {c} : response'[d] = response[d]
  BY <1>1, <1>4 DEF Bared, Told, ServiceTypeOK
<1> QED BY <1>1, <1>2, <1>3, <1>5

\* A rebuild that reads the journal after the batch was imported indexes it.
LEMMA CoverInvHolds == ServiceSpec => []CoverInv
<1>1. ServiceInit => CoverInv
  BY DEF ServiceInit, CoverInv
<1>2. ASSUME ServiceInv, ResultInv, CoverInv, NEW c \in Clients, Serve(c)
      PROVE  CoverInv'
  <2>0. /\ Act(c) \/ UNCHANGED vars
        /\ TypeOK /\ LockInv /\ TypeOK' /\ ServiceTypeOK /\ HttpInv
    BY <1>2, ServiceSteps
  <2> SUFFICES ASSUME NEW d \in Clients, http'[d] = "commit",
                      NEW i \in 1 .. Len(reply'[d].outcomes),
                      NEW outcome, outcome = reply'[d].outcomes[i]
               PROVE  Indexes(d, outcome)'
    BY DEF CoverInv, Indexes
  <2>1. CASE d # c
    <3>1. http[d] = "commit" /\ reply'[d] = reply[d] /\ snapshot'[d] = snapshot[d]
      BY <1>2, <2>1, ServiceSteps
    <3>2. Indexes(d, outcome)
      BY <1>2, <3>1 DEF CoverInv
    <3>3. \A n \in Positions : n \in Positions' /\ journal'[n] = journal[n]
      BY <2>0, JournalType DEF vars, Positions
    <3> QED BY <3>1, <3>2, <3>3 DEF Indexes
  <2>2. CASE d = c
    <3>1. UNCHANGED vars /\ snapshot'[c] = Len(journal) /\ reply'[c].kind = "result"
      BY <2>0, <1>2, <2>2, ServeSteps
    <3>2. UNCHANGED <<journal, reply>> /\ reply[c].kind = "result"
      BY <3>1 DEF vars
    <3>3. Held(c, i, outcome)
      BY <1>2, <2>2, <3>2 DEF ResultInv, Complete
    <3>4. Len(journal) \in Nat
      BY <2>0, LenProperties DEF TypeOK
    <3>5. outcome.status \in {"imported", "duplicate"} =>
            \E n \in Positions : n <= Len(journal) /\ journal[n].id = outcome.event
      BY <3>3, <3>4 DEF Held, Positions
    <3> QED BY <2>2, <3>1, <3>2, <3>5 DEF Indexes, Positions
  <2> QED BY <2>1, <2>2
<1>3. CoverInv /\ UNCHANGED <<vars, serviceVars>> => CoverInv'
  BY DEF vars, serviceVars, CoverInv, Indexes, Positions
<1>4. ServiceInv /\ ResultInv /\ CoverInv /\ [ServiceNext]_<<vars, serviceVars>> => CoverInv'
  BY <1>2, <1>3 DEF ServiceNext, Serve
<1> QED BY <1>1, <1>4, HandlersServeImports, ResultInvHolds, PTL DEF ServiceSpec

\* What a client hears of its batch is what its importer returned last.
LEMMA AnswerInvHolds == ServiceSpec => []AnswerInv
<1>1. ServiceInit => AnswerInv
  BY DEF ServiceInit, AnswerInv, NoResponse
<1>2. ASSUME ServiceInv, AnswerInv, NEW c \in Clients, Serve(c)
      PROVE  AnswerInv'
  <2>0. /\ TypeOK /\ LockInv /\ TypeOK' /\ ServiceTypeOK /\ HttpInv
        /\ response \in [Clients -> Responses]
    BY <1>2, ServiceSteps DEF ServiceTypeOK
  <2> SUFFICES ASSUME NEW d \in Clients, NEW answer, answer = response'[d]
               PROVE  /\ answer.status = 0 => answer.projection = "none"
                      /\ answer.outcomes # << >> =>
                           /\ http'[d] = "idle"
                           /\ reply'[d].kind = "result"
                           /\ reply'[d].outcomes = answer.outcomes
                           /\ answer.committed = (Count(answer.outcomes, "imported") > 0)
                           /\ answer.status \in {503, Status(answer.outcomes)}
    BY DEF AnswerInv
  <2>1. CASE d # c
    <3>1. http'[d] = http[d] /\ reply'[d] = reply[d] /\ response'[d] = response[d]
      BY <1>2, <2>1, ServiceSteps
    <3> QED BY <1>2, <3>1 DEF AnswerInv
  <2>2. CASE d = c /\ UNCHANGED response /\ http[c] # "idle"
    BY <1>2, <2>2 DEF AnswerInv
  <2>3. CASE d = c /\ Bared(c)
    BY <2>0, <2>3 DEF Bared
  <2>4. CASE d = c /\ Told(c)
    <3>1. PICK status \in Nat, state \in {"stale", "rebuilt"} :
            /\ reply'[c].kind = "result" /\ http'[c] = "idle"
            /\ status = 503 \/ status = Status(reply'[c].outcomes)
            /\ response' = [response EXCEPT ![c] = Body(status, state, reply'[c].outcomes)]
      BY <2>4 DEF Told
    <3>2. PICK outs \in Seq(OutcomeRecords) : outs = reply'[c].outcomes
      BY <2>0 DEF TypeOK
    <3>3. answer = Body(status, state, outs)
      BY <2>0, <2>4, <3>1, <3>2
    <3>4. /\ answer.status = status /\ answer.outcomes = outs
          /\ answer.committed = (Count(outs, "imported") > 0)
      BY <3>3, BodyType
    <3>5. status # 0
      BY <3>1, <3>2, StatusType
    <3> QED BY <2>4, <3>1, <3>2, <3>4, <3>5
  <2> QED BY <1>2, <2>0, <2>1, <2>2, <2>3, <2>4, ServeSteps
<1>3. AnswerInv /\ UNCHANGED <<vars, serviceVars>> => AnswerInv'
  BY DEF vars, serviceVars, AnswerInv
<1>4. ServiceInv /\ AnswerInv /\ [ServiceNext]_<<vars, serviceVars>> => AnswerInv'
  BY <1>2, <1>3 DEF ServiceNext, Serve
<1> QED BY <1>1, <1>4, HandlersServeImports, PTL DEF ServiceSpec

\* The status that a client is answered with is true of the journal, for any
\* batches and credentials, wherever the append, the rebuild or the service
\* failed: 200 only when every record is there, 207 only when part of the batch
\* is, 400 and 409 only when none of it is.
THEOREM StatusStaysTrue == ServiceSpec => []StatusIsTrue
<1>1. ASSUME ServiceInv, ResultInv, AnswerInv PROVE StatusIsTrue
  <2> SUFFICES ASSUME NEW c \in Clients, response[c].outcomes # << >>
               PROVE  /\ response[c].committed <=> EntriesOfAttempt(c) # {}
                      /\ response[c].status = 200 =>
                           \A i \in 1 .. Len(batch[c]) :
                             \E n \in Positions : /\ journal[n].record.key = batch[c][i].key
                                                  /\ journal[n].print \in {Null, batch[c][i]}
                      /\ response[c].status = 207 => EntriesOfAttempt(c) # {}
                      /\ response[c].status \in {400, 409} => EntriesOfAttempt(c) = {}
    BY DEF StatusIsTrue
  <2>1. PICK outs \in Seq(OutcomeRecords) : outs = reply[c].outcomes
    BY <1>1 DEF ServiceInv, TypeOK
  <2>2. /\ response[c].outcomes = outs /\ reply[c].kind = "result"
        /\ response[c].committed = (Count(outs, "imported") > 0)
        /\ response[c].status \in {503, Status(outs)}
    BY <1>1, <2>1 DEF AnswerInv
  <2>3. Complete(c, outs)
    BY <1>1, <2>1, <2>2 DEF ResultInv
  <2>4. response[c].committed <=> EntriesOfAttempt(c) # {}
    BY <2>2, <2>3, Counted DEF Complete
  <2>5. ASSUME response[c].status = 200, NEW i \in 1 .. Len(batch[c])
        PROVE  \E n \in Positions : /\ journal[n].record.key = batch[c][i].key
                                    /\ journal[n].print \in {Null, batch[c][i]}
    <3>1. ~Reports(outs, "conflict") /\ ~Reports(outs, "failed")
      BY <2>2, <2>5, StatusType
    <3>2. i \in 1 .. Len(outs)
      BY <2>3, <3>1 DEF Complete
    <3>3. outs[i].status \in {"imported", "duplicate"}
      <4>1. outs[i] \in OutcomeRecords
        BY <3>2, ElementOfSeq
      <4>2. outs[i].status \in Statuses
        BY <4>1 DEF OutcomeRecords
      <4> QED BY <3>1, <3>2, <4>2 DEF Reports, Statuses
    <3>4. Held(c, i, outs[i])
      BY <2>3, <3>2 DEF Complete
    <3> QED BY <3>3, <3>4 DEF Held
  <2>6. response[c].status = 207 => EntriesOfAttempt(c) # {}
    BY <2>2, <2>3, StatusType DEF Complete
  <2>7. response[c].status \in {400, 409} => EntriesOfAttempt(c) = {}
    BY <2>2, <2>3, StatusType DEF Complete
  <2> QED BY <2>4, <2>5, <2>6, <2>7
<1>2. ServiceInv /\ ResultInv /\ AnswerInv => StatusIsTrue
  BY <1>1
<1> QED BY <1>2, HandlersServeImports, ResultInvHolds, AnswerInvHolds, PTL

\* A handler that has nothing to rebuild has nothing to hold; one that commits
\* its rebuild commits what it indexed.
LEMMA CommitsHold ==
  ASSUME ServiceInv, CoverInv, NEW c \in Clients, Serve(c)
  PROVE  HeldWhenReached(c)
<1>0. TypeOK /\ LockInv /\ TypeOK' /\ ServiceTypeOK /\ HttpInv
  BY ServiceSteps
<1> SUFFICES ASSUME http'[c] = "answer",
                    NEW i \in 1 .. Len(reply'[c].outcomes),
                    reply'[c].outcomes[i].status \in {"imported", "duplicate"}
             PROVE  \E n \in 1 .. projected' : journal'[n].id = reply'[c].outcomes[i].event
  BY DEF HeldWhenReached, Holds
<1>1. PICK outs \in Seq(OutcomeRecords) : outs = reply'[c].outcomes
  BY <1>0 DEF TypeOK
<1>2. MustRebuild(outs)
  <2>1. Reports(outs, "imported") \/ Reports(outs, "duplicate")
    BY <1>1 DEF Reports
  <2> QED BY <2>1, Counted DEF MustRebuild
<1>3. http[c] = "commit" /\ UNCHANGED <<journal, reply>> /\ projected' = snapshot[c]
  <2>1. http[c] = "commit" /\ UNCHANGED vars /\ projected' = snapshot[c]
    BY <1>0, <1>1, <1>2, ServeSteps
  <2> QED BY <2>1 DEF vars
<1>4. Indexes(c, outs[i])
  BY <1>1, <1>3 DEF CoverInv
<1>5. PICK n \in Positions : n <= snapshot[c] /\ journal[n].id = outs[i].event
  BY <1>1, <1>4 DEF Indexes
<1>6. n \in 1 .. projected'
  BY <1>0, <1>3, <1>5 DEF Positions, ServiceTypeOK
<1> QED BY <1>1, <1>3, <1>5, <1>6

\* "rebuilt" is answered from there, with the outcomes of the importer.
LEMMA RebuiltIsAnswered ==
  ASSUME ServiceInv, AnswerInv, NEW c \in Clients, Serve(c)
  PROVE  RebuiltFromThere(c)
<1>0. /\ TypeOK /\ LockInv /\ TypeOK' /\ ServiceTypeOK /\ HttpInv
      /\ response \in [Clients -> Responses]
  BY ServiceSteps DEF ServiceTypeOK
<1>1. CASE UNCHANGED response
  BY <1>1 DEF AnswerInv, Answered, RebuiltFromThere
<1>2. CASE Bared(c)
  BY <1>0, <1>2 DEF Bared, RebuiltFromThere
<1>3. CASE Told(c)
  <2>1. PICK status \in Nat, state \in {"stale", "rebuilt"} :
          /\ response' = [response EXCEPT ![c] = Body(status, state, reply'[c].outcomes)]
          /\ state = "rebuilt" => http[c] = "answer" /\ UNCHANGED vars
    BY <1>3 DEF Told
  <2>2. PICK outs \in Seq(OutcomeRecords) : outs = reply'[c].outcomes
    BY <1>0 DEF TypeOK
  <2>3. response'[c] = Body(status, state, outs)
    BY <1>0, <2>1, <2>2
  <2>4. response'[c].outcomes = outs /\ response'[c].projection = state
    BY <2>3, BodyType
  <2> QED BY <2>1, <2>2, <2>4 DEF RebuiltFromThere, vars
<1> QED BY <1>0, <1>1, <1>2, <1>3, ServeSteps

\* A handler answers "rebuilt" only after its own rebuild committed a projection
\* that held every event the response reports as imported or duplicate, for any
\* clients and batches, and any failures, appends and rebuilds in between.
THEOREM RebuildsCoverOutcomes == ServiceSpec => RebuiltCoversOutcomes
<1>1. ASSUME ServiceInv, AnswerInv, CoverInv, NEW c \in Clients, Serve(c), NEW d \in Clients
      PROVE  HeldWhenReached(d) /\ RebuiltFromThere(d)
  <2>1. CASE d = c
    BY <1>1, <2>1, CommitsHold, RebuiltIsAnswered
  <2>2. CASE d # c
    <3>1. http'[d] = http[d] /\ response'[d] = response[d]
      BY <1>1, <2>2, ServiceSteps
    <3> QED BY <1>1, <3>1 DEF AnswerInv, Answered, HeldWhenReached, RebuiltFromThere
  <2> QED BY <2>1, <2>2
<1>2. ServiceInv /\ AnswerInv /\ CoverInv /\ [ServiceNext]_<<vars, serviceVars>>
        => [\A c \in Clients : HeldWhenReached(c) /\ RebuiltFromThere(c)]_<<vars, serviceVars>>
  BY <1>1 DEF ServiceNext, Serve
<1> QED
  BY <1>2, HandlersServeImports, AnswerInvHolds, CoverInvHolds, PTL
  DEF ServiceSpec, RebuiltCoversOutcomes

==============================================================================
