----------------------- MODULE EvidenceIngestionProofs -----------------------
(***************************************************************************)
(* Proofs about EvidenceIngestion and BatchImport, for any clients,        *)
(* batches, records and number of attempts.                                *)
(***************************************************************************)
EXTENDS BatchImport, SequenceTheorems, FiniteSetTheorems, TLAPS

----------------------------------------------------------------------------
(***************************************************************************)
(* Types.                                                                  *)
(***************************************************************************)
Ids == (Clients \cup {"legacy"}) \X Nat \X Nat

Keys == {r.key : r \in Records}

Entries ==
  [key : Keys \cup {Null}, print : Records \cup {Null}, id : Ids,
   parent : Ids \cup {Null}, record : Records]

Statuses == {"imported", "duplicate", "conflict", "failed"}

OutcomeRecords == [status : Statuses, event : Ids \cup {Null}]

Kinds == {"none", "journal_error", "value_error", "redaction_error", "result"}

Working(c) == pc[c] \in {"importing", "stopped"}

TypeOK ==
  /\ journal \in Seq(Entries)
  /\ torn \in BOOLEAN
  /\ lock \in Clients \cup {Null}
  /\ pc \in [Clients -> {"idle", "waiting", "importing", "stopped"}]
  /\ batch \in [Clients -> Seq(Records)]
  /\ attempt \in [Clients -> Nat]
  /\ index \in [Clients -> Nat \ {0}]
  /\ base \in [Clients -> Nat]
  /\ sequence \in [Clients -> Nat]
  /\ lastEvent \in [Clients -> Ids \cup {Null}]
  /\ outcomes \in [Clients -> Seq(OutcomeRecords)]
  /\ reply \in [Clients -> [kind : Kinds, outcomes : Seq(OutcomeRecords)]]


\* The records of a batch, and of the entries there at the start, are records.
LEMMA RecordShape == \A r \in Records : r.key \in Keys /\ r.key # Null
  BY RecordsAssumption DEF Keys

\* The entry an importer is about to append.
LEMMA NewEntryShape ==
  ASSUME TypeOK, NEW c \in Clients, Looking(c)
  PROVE  /\ index[c] \in 1 .. Len(batch[c])
         /\ Current(c) \in Records /\ EventId(c, index[c]) \in Ids
         /\ NewEntry(c) \in Entries
         /\ NewEntry(c).key = PersistedKey(Current(c).key)
         /\ NewEntry(c).record = Current(c) /\ NewEntry(c).print = Current(c)
         /\ NewEntry(c).id = EventId(c, index[c]) /\ NewEntry(c).parent = lastEvent[c]
<1>1. /\ batch[c] \in Seq(Records) /\ index[c] \in Nat \ {0} /\ attempt[c] \in Nat
      /\ lastEvent[c] \in Ids \cup {Null}
  BY DEF TypeOK
<1>2. Len(batch[c]) \in Nat
  BY <1>1, LenProperties
<1>3. index[c] \in 1 .. Len(batch[c])
  BY <1>1, <1>2 DEF Looking
<1>4. Current(c) \in Records
  BY <1>1, <1>3, ElementOfSeq DEF Current
<1>5. EventId(c, index[c]) \in Ids
  BY <1>1 DEF EventId, Ids
<1>6. PersistedKey(Current(c).key) \in Keys \cup {Null}
  BY <1>4, RecordShape DEF PersistedKey
<1> QED BY <1>1, <1>3, <1>4, <1>5, <1>6 DEF NewEntry, Entry, Entries

\* A set of natural numbers with a bound has a greatest element: of the sets of
\* the numbers above its elements one is least.
LEMMA Greatest ==
  ASSUME NEW N \in Nat, NEW T, T \subseteq 0 .. N, T # {}
  PROVE  \E x \in T : \A y \in T : y <= x
<1> DEFINE S == 1 .. N
           Above(t) == (t + 1) .. N
           F == {Above(t) : t \in T}
<1>1. IsWellFoundedOn(StrictSubsetOrdering(S), SUBSET S)
  <2>1. IsFiniteSet(S)
    BY FS_Interval
  <2> HIDE DEF S
  <2> QED BY <2>1, FS_StrictSubsetOrderingWellFounded, FS_FiniteSubsetsOfFinite
<1>2. F \subseteq SUBSET S /\ F # {}
  <2>1. \A t \in T : Above(t) \subseteq S
    OBVIOUS
  <2> QED BY <2>1
<1>3. PICK A \in F : \A B \in F : ~(<<B, A>> \in StrictSubsetOrdering(S))
  <2> HIDE DEF F, S
  <2> QED BY <1>1, <1>2, WFMin
<1>4. PICK x \in T : A = Above(x)
  OBVIOUS
<1>5. ASSUME NEW y \in T, y > x PROVE FALSE
  <2>1. Above(y) \subseteq Above(x) /\ y \in Above(x) /\ y \notin Above(y)
    BY <1>5
  <2>2. <<Above(y), Above(x)>> \in StrictSubsetOrdering(S)
    BY <1>2, <2>1 DEF StrictSubsetOrdering
  <2> QED BY <1>3, <1>4, <2>2
<1> QED BY <1>5

\* A record is matched with an entry of the verified snapshot that has its key,
\* or else with one that this batch imported.
LEMMA MatchShape ==
  ASSUME NEW c \in Clients, base[c] \in Nat
  PROVE  /\ \A m \in Match(c) :
              \/ \E n \in SnapshotMatches(c) :
                   m = [id |-> journal[n].id, print |-> journal[n].print]
              \/ \E i \in BatchMatches(c) :
                   m = [id |-> outcomes[c][i].event, print |-> batch[c][i]]
         /\ Match(c) = {} => SnapshotMatches(c) = {} /\ BatchMatches(c) = {}
         /\ SnapshotMatches(c) # {} =>
              \A m \in Match(c) : \E n \in SnapshotMatches(c) :
                m = [id |-> journal[n].id, print |-> journal[n].print]
<1>1. CASE SnapshotMatches(c) # {}
  <2> DEFINE latest ==
        CHOOSE m \in SnapshotMatches(c) : \A k \in SnapshotMatches(c) : k <= m
  <2>1. SnapshotMatches(c) \subseteq 0 .. base[c]
    BY DEF SnapshotMatches
  <2>2. \E m \in SnapshotMatches(c) : \A k \in SnapshotMatches(c) : k <= m
    BY <1>1, <2>1, Greatest
  <2>3. latest \in SnapshotMatches(c)
    BY <2>2
  <2>4. Match(c) = {[id |-> journal[latest].id, print |-> journal[latest].print]}
    BY <1>1 DEF Match
  <2> HIDE DEF latest
  <2> QED BY <1>1, <2>3, <2>4
<1>2. CASE SnapshotMatches(c) = {}
  <2>1. Match(c) = {[id |-> outcomes[c][i].event, print |-> batch[c][i]] : i \in BatchMatches(c)}
    BY <1>2 DEF Match
  <2> QED BY <1>2, <2>1
<1> QED BY <1>1, <1>2

\* What an importer matches a record with has the id of an event.
LEMMA MatchType ==
  ASSUME TypeOK, NEW c \in Clients, base[c] <= Len(journal), NEW m \in Match(c)
  PROVE  m.id \in Ids \cup {Null}
<1>1. /\ journal \in Seq(Entries) /\ Len(journal) \in Nat /\ base[c] \in Nat
      /\ outcomes[c] \in Seq(OutcomeRecords)
  BY LenProperties DEF TypeOK
<1>2. ASSUME NEW n \in SnapshotMatches(c) PROVE journal[n].id \in Ids
  <2>1. n \in 1 .. Len(journal)
    BY <1>1 DEF SnapshotMatches
  <2>2. journal[n] \in Entries
    BY <1>1, <2>1, ElementOfSeq
  <2> QED BY <2>2 DEF Entries
<1>3. ASSUME NEW i \in BatchMatches(c) PROVE outcomes[c][i].event \in Ids \cup {Null}
  <2>1. i \in 1 .. Len(outcomes[c])
    BY DEF BatchMatches, Imported
  <2>2. outcomes[c][i] \in OutcomeRecords
    BY <1>1, <2>1, ElementOfSeq
  <2> QED BY <2>2 DEF OutcomeRecords
<1>4. CASE \E n \in SnapshotMatches(c) :
             m = [id |-> journal[n].id, print |-> journal[n].print]
  BY <1>2, <1>4
<1>5. CASE \E i \in BatchMatches(c) :
             m = [id |-> outcomes[c][i].event, print |-> batch[c][i]]
  BY <1>3, <1>5
<1> QED BY <1>1, <1>4, <1>5, MatchShape

\* The entries there at the start.
LEMMA LegacyType == LegacyJournal \in Seq(Entries)
<1>1. Len(Legacy) \in Nat /\ \A i \in 1 .. Len(Legacy) : Legacy[i] \in Records
  BY BatchesAssumption, LenProperties, ElementOfSeq
<1>2. \A i \in 1 .. Len(Legacy) : LegacyJournal[i] \in Entries
  <2> SUFFICES ASSUME NEW i \in 1 .. Len(Legacy) PROVE LegacyJournal[i] \in Entries
    OBVIOUS
  <2>1. Legacy[i] \in Records /\ PersistedKey(Legacy[i].key) \in Keys \cup {Null}
    BY <1>1, RecordShape DEF PersistedKey
  <2>2. <<"legacy", 1, i>> \in Ids /\ <<"legacy", 1, 1>> \in Ids
    BY <1>1 DEF Ids
  <2> QED BY <2>1, <2>2 DEF LegacyJournal, Entry, Entries
<1>3. LegacyJournal = [i \in 1 .. Len(Legacy) |-> LegacyJournal[i]]
  BY DEF LegacyJournal
<1>4. LegacyJournal \in [1 .. Len(Legacy) -> Entries]
  BY <1>2, <1>3
<1> QED BY <1>1, <1>4, SeqDef

LEMMA InitTypeOK == Init => TypeOK
<1> SUFFICES ASSUME Init PROVE TypeOK
  OBVIOUS
<1>1. LegacyJournal \in Seq(Entries)
  BY LegacyType
<1>2. << >> \in Seq(Records) /\ << >> \in Seq(OutcomeRecords)
  BY EmptySeq
<1>3. NoReply \in [kind : Kinds, outcomes : Seq(OutcomeRecords)]
  BY <1>2 DEF NoReply, Kinds
<1>4. /\ batch \in [Clients -> Seq(Records)]
      /\ outcomes \in [Clients -> Seq(OutcomeRecords)]
      /\ reply \in [Clients -> [kind : Kinds, outcomes : Seq(OutcomeRecords)]]
  BY <1>2, <1>3 DEF Init
<1>5. journal \in Seq(Entries) /\ torn \in BOOLEAN /\ lock \in Clients \cup {Null}
  BY <1>1 DEF Init
<1>6. /\ pc \in [Clients -> {"idle", "waiting", "importing", "stopped"}]
      /\ attempt \in [Clients -> Nat] /\ index \in [Clients -> Nat \ {0}]
      /\ base \in [Clients -> Nat] /\ sequence \in [Clients -> Nat]
      /\ lastEvent \in [Clients -> Ids \cup {Null}]
  BY DEF Init
<1> QED BY <1>4, <1>5, <1>6 DEF TypeOK

----------------------------------------------------------------------------
(***************************************************************************)
(* The importer that holds the lock is the one that works, it has verified *)
(* a prefix of the journal, and it has one outcome for each record it has  *)
(* looked at.  A client that waits or is served has no outcomes yet.       *)
(***************************************************************************)
LockHeld == \A c \in Clients : lock = c <=> Working(c)

Phase(c) ==
  /\ base[c] <= Len(journal)
  /\ pc[c] = "importing" =>
       Len(outcomes[c]) = index[c] - 1 /\ index[c] <= Len(batch[c]) + 1
  /\ pc[c] = "stopped" =>
       Len(outcomes[c]) = index[c] /\ index[c] <= Len(batch[c])
  /\ pc[c] # "idle" => reply[c].outcomes = << >>
  /\ Len(reply[c].outcomes) <= Len(batch[c])

LockInv == LockHeld /\ \A c \in Clients : Phase(c)

----------------------------------------------------------------------------
(***************************************************************************)
(* Entries.  What lies behind the verified prefix was appended by the      *)
(* working importer in this attempt, and apart from the entry of an append *)
(* that failed it is what its outcomes say.                                *)
(***************************************************************************)
EntryOf(c, n) ==
  /\ journal[n].id[1] = c
  /\ journal[n].id[2] = attempt[c]
  /\ journal[n].id[3] \in 1 .. index[c]
  /\ journal[n].record = batch[c][journal[n].id[3]]
  /\ journal[n].print = batch[c][journal[n].id[3]]

Committed(c, i) ==
  \E n \in base[c] + 1 .. Len(journal) :
    /\ journal[n].id = EventId(c, i)
    /\ EntryOf(c, n)

TailOf(c) ==
  /\ \A n \in base[c] + 1 .. Len(journal) :
       /\ EntryOf(c, n)
       /\ pc[c] = "importing" => journal[n].id[3] \in Imported(c)
  /\ \A i \in Imported(c) :
       outcomes[c][i].event = EventId(c, i) /\ Committed(c, i)

TailInv == \A c \in Clients : Working(c) => TailOf(c)

\* No entry is of an attempt that has not begun to import.
AgeInv ==
  \A n \in Positions : \A c \in Clients :
    journal[n].id[1] = c =>
      /\ journal[n].id[2] <= attempt[c]
      /\ pc[c] = "waiting" => journal[n].id[2] < attempt[c]
      /\ Working(c) /\ n <= base[c] => journal[n].id[2] < attempt[c]

EntryInv ==
  \A n \in Positions :
    /\ journal[n].key = PersistedKey(journal[n].record.key)
    /\ journal[n].print \in {Null, journal[n].record}

(***************************************************************************)
(* The normalizer is ahead of the journal once an event it numbered was    *)
(* not appended; as long as it is not, its last event is in the journal.   *)
(***************************************************************************)
NormalizerInv ==
  \A c \in Clients : pc[c] = "importing" =>
    /\ sequence[c] >= base[c] + Cardinality(Imported(c))
    /\ InSequence(c) /\ lastEvent[c] # Null =>
         \E m \in Positions : journal[m].id = lastEvent[c]

----------------------------------------------------------------------------
(***************************************************************************)
(* What the outcomes of a batch say of the journal.                        *)
(***************************************************************************)
TrueOutcome(c, i, outcome) ==
  /\ outcome.status \in {"imported", "duplicate"} =>
       \E n \in Positions : /\ journal[n].id = outcome.event
                            /\ journal[n].record.key = batch[c][i].key
                            /\ journal[n].print \in {Null, batch[c][i]}
  /\ outcome.status = "conflict" =>
       \E n \in Positions : /\ journal[n].id = outcome.event
                            /\ journal[n].record.key = batch[c][i].key
                            /\ journal[n].record # batch[c][i]
  /\ (\E n \in 1 .. base[c] : journal[n].record = batch[c][i]) =>
       outcome.status = "duplicate"

OutcomesInv ==
  \A c \in Clients :
    /\ Working(c) =>
         \A i \in 1 .. Len(outcomes[c]) : TrueOutcome(c, i, outcomes[c][i])
    /\ \A i \in 1 .. Len(reply[c].outcomes) : TrueOutcome(c, i, reply[c].outcomes[i])

----------------------------------------------------------------------------
(***************************************************************************)
(* What a step may do.  The journal changes only by the entry an importer  *)
(* is about to append, and nobody else's variables change.                 *)
(***************************************************************************)
Appendable(c) == Fingerprinted(c) /\ Match(c) = {} /\ InSequence(c)

Appends(c) == Appendable(c) /\ journal' = Append(journal, NewEntry(c))

(***************************************************************************)
(* A client that is not served may hear something of another request, one  *)
(* that did not reach the importer: what it heard before is then forgotten.*)
(* Everything below holds with such clients as well (OpenSpec), which the  *)
(* service in front of the importers has.                                  *)
(***************************************************************************)
Forget(c) ==
  /\ pc[c] = "idle"
  /\ reply' = [reply EXCEPT ![c] = NoReply]
  /\ UNCHANGED <<journal, torn, lock, pc, importerVars, index, sequence, lastEvent, outcomes>>

Act(c) ==
  Submit(c) \/ Acquire(c) \/ Refuse(c) \/ ImportStep(c) \/ Crash(c) \/ Forget(c)

OpenNext == \E c \in Clients : Act(c)

OpenSpec == Init /\ [][OpenNext]_vars

LEMMA SpecIsOpen == Spec => OpenSpec
<1>1. [Next]_vars => [OpenNext]_vars
  BY DEF Next, OpenNext, Act
<1> QED BY <1>1, PTL DEF Spec, OpenSpec


OthersAlone(c) ==
  \A d \in Clients \ {c} :
    /\ pc'[d] = pc[d] /\ batch'[d] = batch[d] /\ attempt'[d] = attempt[d]
    /\ index'[d] = index[d] /\ base'[d] = base[d] /\ sequence'[d] = sequence[d]
    /\ lastEvent'[d] = lastEvent[d] /\ outcomes'[d] = outcomes[d]
    /\ reply'[d] = reply[d]

LEMMA JournalSteps ==
  ASSUME NEW c \in Clients, Act(c)
  PROVE  UNCHANGED journal \/ Appends(c)
<1>1. CASE Submit(c) \/ Acquire(c) \/ Refuse(c) \/ Forget(c)
  BY <1>1 DEF Submit, Acquire, Refuse, Forget
<1>2. CASE ImportStep(c)
  BY <1>2 DEF ImportStep, AbortUnhashable, SkipMatched, FailMalformed, AppendRecord,
              FailUnpersistable, AbortUnredactable, RejectOutOfSequence, FailAppend,
              Answer, Normalize, PartOfAppend, Appends, Appendable
<1>3. CASE Crash(c)
  BY <1>3 DEF Crash, PartOfAppend, Appends, Appendable
<1> QED BY <1>1, <1>2, <1>3 DEF Act

LEMMA OthersSteps ==
  ASSUME TypeOK, NEW c \in Clients, Act(c)
  PROVE  OthersAlone(c)
<1> USE DEF TypeOK, OthersAlone, Goto, Record, NextRecord, Raise, importerVars
<1>1. CASE Submit(c)
  BY <1>1 DEF Submit
<1>2. CASE Acquire(c)
  BY <1>2 DEF Acquire
<1>3. CASE Refuse(c)
  BY <1>3 DEF Refuse
<1>4. CASE Crash(c)
  BY <1>4 DEF Crash
<1>5. CASE AbortUnhashable(c)
  BY <1>5 DEF AbortUnhashable
<1>6. CASE SkipMatched(c)
  BY <1>6 DEF SkipMatched
<1>7. CASE FailMalformed(c)
  BY <1>7 DEF FailMalformed
<1>8. CASE AppendRecord(c)
  BY <1>8 DEF AppendRecord, Normalize
<1>9. CASE FailUnpersistable(c)
  BY <1>9 DEF FailUnpersistable, Normalize
<1>10. CASE AbortUnredactable(c)
  BY <1>10 DEF AbortUnredactable, Normalize
<1>11. CASE RejectOutOfSequence(c)
  BY <1>11 DEF RejectOutOfSequence, Normalize, JournalErrorOut
<1>12. CASE FailAppend(c)
  BY <1>12 DEF FailAppend, Normalize, JournalErrorOut
<1>13. CASE Answer(c) \/ Forget(c)
  BY <1>13 DEF Answer, Forget
<1> QED
  BY <1>1, <1>2, <1>3, <1>4, <1>5, <1>6, <1>7, <1>8, <1>9, <1>10, <1>11, <1>12,
     <1>13 DEF Act, ImportStep

\* The entry of a step that appends is an entry like the others.
LEMMA JournalType ==
  ASSUME TypeOK, NEW c \in Clients, Act(c)
  PROVE  /\ journal' \in Seq(Entries) /\ Len(journal') \in Nat
         /\ Len(journal) \in Nat /\ Len(journal') >= Len(journal)
         /\ \A n \in Positions : n \in Positions' /\ journal'[n] = journal[n]
<1>1. journal \in Seq(Entries) /\ Len(journal) \in Nat
  BY LenProperties DEF TypeOK
<1>2. CASE UNCHANGED journal
  BY <1>1, <1>2 DEF Positions
<1>3. CASE Appends(c)
  <2>1. NewEntry(c) \in Entries /\ journal' = Append(journal, NewEntry(c))
    BY <1>3, NewEntryShape DEF Appends, Appendable, Fingerprinted
  <2>2. /\ journal' \in Seq(Entries) /\ Len(journal') = Len(journal) + 1
        /\ \A n \in 1 .. Len(journal) : journal'[n] = journal[n]
    BY <1>1, <2>1, AppendProperties
  <2> QED BY <1>1, <2>2 DEF Positions
<1> QED BY <1>2, <1>3, JournalSteps

\* Outcomes are recorded one behind the other.
LEMMA RecordType ==
  ASSUME TypeOK, NEW c \in Clients, NEW status \in Statuses,
         NEW event \in Ids \cup {Null}, Record(c, status, event)
  PROVE  /\ outcomes' \in [Clients -> Seq(OutcomeRecords)]
         /\ Len(outcomes'[c]) = Len(outcomes[c]) + 1 /\ Len(outcomes[c]) \in Nat
         /\ \A i \in 1 .. Len(outcomes[c]) : outcomes'[c][i] = outcomes[c][i]
         /\ outcomes'[c][Len(outcomes[c]) + 1] = Outcome(status, event)
<1>1. outcomes[c] \in Seq(OutcomeRecords) /\ Outcome(status, event) \in OutcomeRecords
  BY DEF TypeOK, Outcome, OutcomeRecords
<1>2. /\ Append(outcomes[c], Outcome(status, event)) \in Seq(OutcomeRecords)
      /\ Len(Append(outcomes[c], Outcome(status, event))) = Len(outcomes[c]) + 1
      /\ Len(outcomes[c]) \in Nat
      /\ \A i \in 1 .. Len(outcomes[c]) :
           Append(outcomes[c], Outcome(status, event))[i] = outcomes[c][i]
      /\ Append(outcomes[c], Outcome(status, event))[Len(outcomes[c]) + 1]
           = Outcome(status, event)
  BY <1>1, AppendProperties, LenProperties
<1>3. outcomes' = [outcomes EXCEPT ![c] = Append(outcomes[c], Outcome(status, event))]
  BY DEF Record
<1>4. outcomes'[c] = Append(outcomes[c], Outcome(status, event))
  BY <1>3 DEF TypeOK
<1>5. outcomes' \in [Clients -> Seq(OutcomeRecords)]
  BY <1>2, <1>3 DEF TypeOK
<1> QED BY <1>2, <1>4, <1>5

LEMMA RaiseType ==
  ASSUME TypeOK, NEW c \in Clients, NEW kind \in Kinds, Raise(c, kind)
  PROVE  /\ reply' \in [Clients -> [kind : Kinds, outcomes : Seq(OutcomeRecords)]]
         /\ reply'[c].outcomes = << >>
         /\ lock' = Null /\ pc' = [pc EXCEPT ![c] = "idle"]
<1>1. << >> \in Seq(OutcomeRecords)
  BY EmptySeq
<1>2. [kind |-> kind, outcomes |-> << >>] \in [kind : Kinds, outcomes : Seq(OutcomeRecords)]
  BY <1>1
<1>3. reply' = [reply EXCEPT ![c] = [kind |-> kind, outcomes |-> << >>]]
  BY DEF Raise
<1>4. reply' \in [Clients -> [kind : Kinds, outcomes : Seq(OutcomeRecords)]]
  BY <1>2, <1>3 DEF TypeOK
<1>5. reply'[c].outcomes = << >>
  BY <1>3 DEF TypeOK
<1> QED BY <1>4, <1>5 DEF Raise, Release, Goto

\* A batch is one of those submitted, and the normalizer's numbers stay numbers.
LEMMA NormalizeType ==
  ASSUME TypeOK, NEW c \in Clients, Normalize(c)
  PROVE  sequence' \in [Clients -> Nat] /\ lastEvent' \in [Clients -> Ids \cup {Null}]
<1>1. EventId(c, index[c]) \in Ids
  BY NewEntryShape DEF Normalize, Fingerprinted
<1> QED BY <1>1 DEF Normalize, TypeOK

LEMMA NextRecordType ==
  ASSUME TypeOK, NEW c \in Clients, NextRecord(c)
  PROVE  index' \in [Clients -> Nat \ {0}] /\ index'[c] = index[c] + 1
<1>1. index \in [Clients -> Nat \ {0}] /\ index[c] + 1 \in Nat \ {0}
  BY DEF TypeOK
<1>2. index' = [index EXCEPT ![c] = index[c] + 1]
  BY DEF NextRecord
<1> QED BY <1>1, <1>2

\* No step of a client or of its importer leaves the types.
LEMMA ActTypeOK ==
  ASSUME TypeOK, LockInv, NEW c \in Clients, Act(c)
  PROVE  TypeOK'
<1>0. /\ journal' \in Seq(Entries) /\ Len(journal) \in Nat
      /\ << >> \in Seq(OutcomeRecords) /\ {"imported", "failed"} \subseteq Statuses
      /\ {"none", "journal_error", "value_error", "redaction_error", "result"} \subseteq Kinds
      /\ Null \in Ids \cup {Null}
  BY JournalType, EmptySeq, LenProperties DEF TypeOK, Statuses, Kinds
<1> USE <1>0 DEF Goto, importerVars
<1>1. CASE Submit(c)
  <2>1. PICK b \in Seq(Records) : batch' = [batch EXCEPT ![c] = b]
    BY <1>1, BatchesAssumption DEF Submit, TypeOK
  <2>2. NoReply \in [kind : Kinds, outcomes : Seq(OutcomeRecords)]
    BY DEF NoReply
  <2>3. attempt' \in [Clients -> Nat] /\ batch' \in [Clients -> Seq(Records)]
    <3>1. attempt[c] + 1 \in Nat
      BY DEF TypeOK
    <3> QED BY <1>1, <2>1, <3>1 DEF Submit, TypeOK
  <2> QED BY <1>1, <2>2, <2>3 DEF Submit, TypeOK
<1>2. CASE Acquire(c)
  BY <1>2 DEF Acquire, TypeOK
<1>3. CASE Refuse(c)
  <2>1. [kind |-> "journal_error", outcomes |-> << >>] \in [kind : Kinds, outcomes : Seq(OutcomeRecords)]
    OBVIOUS
  <2> QED BY <1>3, <2>1 DEF Refuse, TypeOK
<1>4. CASE Crash(c)
  <2>1. torn' \in BOOLEAN
    BY <1>4 DEF Crash, PartOfAppend, TypeOK
  <2> QED BY <1>4, <2>1 DEF Crash, TypeOK
<1>5. CASE AbortUnhashable(c)
  <2>1. Raise(c, "value_error") /\ UNCHANGED <<torn, batch, attempt, base, index, sequence, lastEvent, outcomes>>
    BY <1>5 DEF AbortUnhashable
  <2> QED BY <2>1, RaiseType DEF TypeOK
<1>6. CASE SkipMatched(c)
  <2>1. PICK m \in Match(c) :
          Record(c, IF m.print \in {Null, Current(c)} THEN "duplicate" ELSE "conflict", m.id)
    BY <1>6 DEF SkipMatched
  <2>2. m.id \in Ids \cup {Null}
    BY MatchType DEF LockInv, Phase
  <2>3. outcomes' \in [Clients -> Seq(OutcomeRecords)]
    <3>1. (IF m.print \in {Null, Current(c)} THEN "duplicate" ELSE "conflict") \in Statuses
      BY DEF Statuses
    <3> QED BY <2>1, <2>2, <3>1, RecordType
  <2>9. index' \in [Clients -> Nat \ {0}]
    BY <1>6, NextRecordType DEF SkipMatched
  <2> QED BY <1>6, <2>3, <2>9 DEF SkipMatched, TypeOK
<1>7. CASE FailMalformed(c)
  <2>1. outcomes' \in [Clients -> Seq(OutcomeRecords)]
    BY <1>7, RecordType DEF FailMalformed
  <2>9. index' \in [Clients -> Nat \ {0}]
    BY <1>7, NextRecordType DEF FailMalformed
  <2> QED BY <1>7, <2>1, <2>9 DEF FailMalformed, TypeOK
<1>8. CASE AppendRecord(c)
  <2>1. outcomes' \in [Clients -> Seq(OutcomeRecords)]
    BY <1>8, NewEntryShape, RecordType DEF AppendRecord, Normalize, Fingerprinted
  <2>2. sequence' \in [Clients -> Nat] /\ lastEvent' \in [Clients -> Ids \cup {Null}]
    BY <1>8, NormalizeType DEF AppendRecord
  <2>9. index' \in [Clients -> Nat \ {0}]
    BY <1>8, NextRecordType DEF AppendRecord
  <2> QED BY <1>8, <2>1, <2>2, <2>9 DEF AppendRecord, TypeOK
<1>9. CASE FailUnpersistable(c)
  <2>1. outcomes' \in [Clients -> Seq(OutcomeRecords)]
    BY <1>9, RecordType DEF FailUnpersistable
  <2>2. sequence' \in [Clients -> Nat] /\ lastEvent' \in [Clients -> Ids \cup {Null}]
    BY <1>9, NormalizeType DEF FailUnpersistable
  <2>9. index' \in [Clients -> Nat \ {0}]
    BY <1>9, NextRecordType DEF FailUnpersistable
  <2> QED BY <1>9, <2>1, <2>2, <2>9 DEF FailUnpersistable, TypeOK
<1>10. CASE AbortUnredactable(c)
  <2>1. sequence' \in [Clients -> Nat] /\ lastEvent' \in [Clients -> Ids \cup {Null}]
    BY <1>10, NormalizeType DEF AbortUnredactable
  <2>2. Raise(c, "redaction_error") /\ UNCHANGED <<torn, batch, attempt, base, index, outcomes>>
    BY <1>10 DEF AbortUnredactable
  <2> QED BY <2>1, <2>2, RaiseType DEF TypeOK
<1>11. ASSUME Normalize(c), JournalErrorOut(c), torn' \in BOOLEAN, UNCHANGED importerVars
       PROVE  TypeOK'
  <2>1. sequence' \in [Clients -> Nat] /\ lastEvent' \in [Clients -> Ids \cup {Null}]
    BY <1>11, NormalizeType
  <2>2. CASE Raise(c, "journal_error") /\ UNCHANGED <<index, outcomes>>
    BY <1>11, <2>1, <2>2, RaiseType DEF TypeOK
  <2>3. CASE Record(c, "failed", Null) /\ Goto(c, "stopped") /\ UNCHANGED <<lock, index, reply>>
    BY <1>11, <2>1, <2>3, RecordType DEF TypeOK
  <2> QED BY <1>11, <2>2, <2>3 DEF JournalErrorOut
<1>12. CASE RejectOutOfSequence(c)
  BY <1>11, <1>12 DEF RejectOutOfSequence, TypeOK
<1>13. CASE FailAppend(c)
  BY <1>11, <1>13 DEF FailAppend, PartOfAppend, TypeOK
<1>14. CASE Answer(c)
  <2>1. [kind |-> "result", outcomes |-> outcomes[c]] \in [kind : Kinds, outcomes : Seq(OutcomeRecords)]
    BY DEF TypeOK
  <2> QED BY <1>14, <2>1 DEF Answer, Release, TypeOK
<1>15. CASE Forget(c)
  <2>1. NoReply \in [kind : Kinds, outcomes : Seq(OutcomeRecords)]
    BY DEF NoReply
  <2> QED BY <1>15, <2>1 DEF Forget, TypeOK
<1> QED
  BY <1>1, <1>2, <1>3, <1>4, <1>5, <1>6, <1>7, <1>8, <1>9, <1>10, <1>12, <1>13,
     <1>14, <1>15 DEF Act, ImportStep

LEMMA InitLockInv == Init => LockInv
<1> SUFFICES ASSUME Init PROVE LockInv
  OBVIOUS
<1>1. Len(LegacyJournal) \in Nat
  BY LegacyType, LenProperties
<1>2. \A c \in Clients : Phase(c)
  BY <1>1, EmptySeq DEF Init, Phase, NoReply
<1>3. LockHeld
  BY ClientsAssumption DEF Init, LockHeld, Working
<1> QED BY <1>2, <1>3 DEF LockInv

\* The lock is taken only when it is free and given back by whoever has it.
LEMMA ActLockHeld ==
  ASSUME TypeOK, LockInv, NEW c \in Clients, Act(c)
  PROVE  LockHeld'
<1>0. /\ pc \in [Clients -> {"idle", "waiting", "importing", "stopped"}]
      /\ \A d \in Clients : lock = d <=> pc[d] \in {"importing", "stopped"}
      /\ Null \notin Clients
  BY ClientsAssumption DEF TypeOK, LockInv, LockHeld, Working
<1> USE <1>0 DEF LockHeld, Working, Goto, Raise, Release, Looking, Fingerprinted
<1>1. CASE Submit(c) \/ Refuse(c) \/ Forget(c)
  BY <1>1 DEF Submit, Refuse, Forget
<1>2. CASE Acquire(c)
  BY <1>2 DEF Acquire
<1>3. CASE Crash(c)
  BY <1>3 DEF Crash
<1>4. CASE AbortUnhashable(c) \/ AbortUnredactable(c)
  BY <1>4 DEF AbortUnhashable, AbortUnredactable, Normalize
<1>5. CASE SkipMatched(c) \/ FailMalformed(c) \/ AppendRecord(c) \/ FailUnpersistable(c)
  BY <1>5 DEF SkipMatched, FailMalformed, AppendRecord, FailUnpersistable
<1>6. CASE RejectOutOfSequence(c) \/ FailAppend(c)
  BY <1>6 DEF RejectOutOfSequence, FailAppend, JournalErrorOut, Normalize
<1>7. CASE Answer(c)
  BY <1>7 DEF Answer
<1> QED BY <1>1, <1>2, <1>3, <1>4, <1>5, <1>6, <1>7 DEF Act, ImportStep

\* An importer records an outcome for each record it looks at, and its client
\* hears of them when the work is done.
LEMMA ActPhase ==
  ASSUME TypeOK, LockInv, NEW c \in Clients, Act(c)
  PROVE  \A d \in Clients : Phase(d)'
<1>0. /\ Len(journal) \in Nat /\ Len(journal') \in Nat /\ Len(journal') >= Len(journal)
      /\ base \in [Clients -> Nat] /\ index \in [Clients -> Nat \ {0}]
      /\ pc \in [Clients -> {"idle", "waiting", "importing", "stopped"}]
      /\ base[c] <= Len(journal) /\ base[c] \in Nat /\ index[c] \in Nat
      /\ Len(batch[c]) \in Nat /\ Len(outcomes[c]) \in Nat /\ Len(reply[c].outcomes) \in Nat
      /\ Len(<< >>) = 0
  <2>1. /\ batch[c] \in Seq(Records) /\ outcomes[c] \in Seq(OutcomeRecords)
        /\ reply[c].outcomes \in Seq(OutcomeRecords)
    BY DEF TypeOK
  <2>2. Len(batch[c]) \in Nat /\ Len(outcomes[c]) \in Nat /\ Len(reply[c].outcomes) \in Nat
    BY <2>1, LenProperties
  <2>3. base[c] <= Len(journal)
    BY DEF LockInv, Phase
  <2> QED BY <2>2, <2>3, JournalType, EmptySeq DEF TypeOK
<1>1. ASSUME NEW d \in Clients \ {c} PROVE Phase(d)'
  <2>1. Phase(d) /\ base[d] \in Nat
    BY DEF LockInv, TypeOK
  <2>2. /\ pc'[d] = pc[d] /\ batch'[d] = batch[d] /\ index'[d] = index[d]
        /\ base'[d] = base[d] /\ outcomes'[d] = outcomes[d] /\ reply'[d] = reply[d]
    BY <1>1, OthersSteps DEF OthersAlone
  <2>3. base'[d] <= Len(journal')
    BY <1>0, <2>1, <2>2 DEF Phase
  <2> QED BY <2>1, <2>2, <2>3 DEF Phase
<1>2. Phase(c)
  BY DEF LockInv
<1> SUFFICES Phase(c)'
  BY <1>1
<1> USE <1>0, <1>2 DEF Phase, Goto, importerVars
<1>3. CASE Submit(c)
  <2>1. PICK b \in Seq(Records) : batch' = [batch EXCEPT ![c] = b]
    BY <1>3, BatchesAssumption DEF Submit, TypeOK
  <2>2. batch'[c] = b /\ Len(b) \in Nat
    BY <2>1, LenProperties DEF TypeOK
  <2>3. reply'[c].outcomes = << >> /\ pc'[c] = "waiting" /\ base' = base
    BY <1>3 DEF Submit, TypeOK, NoReply
  <2> QED BY <2>2, <2>3
<1>4. CASE Acquire(c)
  <2>1. /\ pc[c] = "waiting" /\ pc'[c] = "importing" /\ base'[c] = Len(journal) /\ index'[c] = 1
        /\ outcomes'[c] = << >> /\ UNCHANGED <<journal, batch, reply>>
    BY <1>4 DEF Acquire, TypeOK
  <2> QED BY <2>1
<1>5. CASE Refuse(c)
  <2>1. pc'[c] = "idle" /\ reply'[c].outcomes = << >> /\ UNCHANGED <<journal, batch, base>>
    BY <1>5 DEF Refuse, TypeOK
  <2> QED BY <2>1
<1>6. CASE Crash(c)
  <2>1. pc'[c] = "idle" /\ UNCHANGED <<batch, base, reply>>
    BY <1>6 DEF Crash
  <2> QED BY <2>1
<1>7. ASSUME NEW kind \in Kinds, Raise(c, kind), UNCHANGED <<batch, base>>
      PROVE  Phase(c)'
  <2>1. pc'[c] = "idle" /\ reply'[c].outcomes = << >>
    BY <1>7, RaiseType
  <2> QED BY <1>7, <2>1
<1>8. CASE AbortUnhashable(c) \/ AbortUnredactable(c)
  <2>1. \E kind \in Kinds : Raise(c, kind)
    BY <1>8 DEF AbortUnhashable, AbortUnredactable, Kinds
  <2> QED BY <1>7, <1>8, <2>1 DEF AbortUnhashable, AbortUnredactable
<1>9. ASSUME NEW status \in Statuses, NEW event \in Ids \cup {Null},
             Record(c, status, event), Looking(c), UNCHANGED <<batch, base, reply>>,
             \/ UNCHANGED pc /\ NextRecord(c)
             \/ pc'[c] = "stopped" /\ UNCHANGED index
      PROVE  Phase(c)'
  <2>1. Len(outcomes'[c]) = Len(outcomes[c]) + 1
    BY <1>9, RecordType
  <2>2. pc[c] = "importing" /\ index[c] <= Len(batch[c])
    BY <1>9 DEF Looking
  <2>3. CASE UNCHANGED pc /\ NextRecord(c)
    BY <1>9, <2>1, <2>2, <2>3, NextRecordType
  <2>4. CASE pc'[c] = "stopped" /\ UNCHANGED index
    BY <1>9, <2>1, <2>2, <2>4
  <2> QED BY <1>9, <2>3, <2>4
<1>10. CASE SkipMatched(c)
  <2>1. PICK m \in Match(c) :
          Record(c, IF m.print \in {Null, Current(c)} THEN "duplicate" ELSE "conflict", m.id)
    BY <1>10 DEF SkipMatched
  <2>2. m.id \in Ids \cup {Null}
    BY MatchType
  <2>3. (IF m.print \in {Null, Current(c)} THEN "duplicate" ELSE "conflict") \in Statuses
    BY DEF Statuses
  <2> QED BY <1>9, <1>10, <2>1, <2>2, <2>3 DEF SkipMatched, Fingerprinted
<1>11. CASE FailMalformed(c)
  BY <1>9, <1>11 DEF FailMalformed, Fingerprinted, Statuses
<1>12. CASE AppendRecord(c)
  <2>1. Looking(c) /\ EventId(c, index[c]) \in Ids
    BY <1>12, NewEntryShape DEF AppendRecord, Normalize, Fingerprinted
  <2> QED BY <1>9, <1>12, <2>1 DEF AppendRecord, Statuses
<1>13. CASE FailUnpersistable(c)
  BY <1>9, <1>13 DEF FailUnpersistable, Normalize, Fingerprinted, Statuses
<1>14. CASE RejectOutOfSequence(c) \/ FailAppend(c)
  <2>1. JournalErrorOut(c) /\ Looking(c) /\ UNCHANGED <<batch, base>>
    BY <1>14 DEF RejectOutOfSequence, FailAppend, Normalize, Fingerprinted
  <2>2. CASE Raise(c, "journal_error")
    BY <1>7, <2>1, <2>2 DEF Kinds
  <2>3. CASE Record(c, "failed", Null) /\ Goto(c, "stopped") /\ UNCHANGED <<lock, index, reply>>
    BY <1>9, <2>1, <2>3 DEF Statuses
  <2> QED BY <2>1, <2>2, <2>3 DEF JournalErrorOut
<1>15. CASE Answer(c)
  <2>1. /\ pc'[c] = "idle" /\ reply'[c].outcomes = outcomes[c]
        /\ UNCHANGED <<journal, batch, base>>
        /\ (pc[c] = "importing" /\ index[c] > Len(batch[c])) \/ pc[c] = "stopped"
    BY <1>15 DEF Answer, TypeOK
  <2> QED BY <2>1
<1>16. CASE Forget(c)
  <2>1. pc'[c] = "idle" /\ reply'[c].outcomes = << >> /\ UNCHANGED <<journal, batch, base>>
    BY <1>16 DEF Forget, TypeOK, NoReply
  <2> QED BY <2>1
<1> QED
  BY <1>3, <1>4, <1>5, <1>6, <1>8, <1>10, <1>11, <1>12, <1>13, <1>14, <1>15, <1>16
  DEF Act, ImportStep

\* Types, lock and phases are kept by every step.
LEMMA StepLockInv == TypeOK /\ LockInv /\ [OpenNext]_vars => TypeOK' /\ LockInv'
<1> SUFFICES ASSUME TypeOK, LockInv, [OpenNext]_vars PROVE TypeOK' /\ LockInv'
  OBVIOUS
<1>1. CASE UNCHANGED vars
  BY <1>1 DEF vars, TypeOK, LockInv, LockHeld, Working, Phase
<1>2. ASSUME NEW c \in Clients, Act(c) PROVE TypeOK' /\ LockInv'
  BY <1>2, ActTypeOK, ActLockHeld, ActPhase DEF LockInv
<1> QED BY <1>1, <1>2 DEF OpenNext, Act

\* Types, the lock and what importers have recorded.
LEMMA AloneHolds == OpenSpec => [](TypeOK /\ LockInv)
<1>1. Init => TypeOK /\ LockInv
  BY InitTypeOK, InitLockInv
<1>2. (TypeOK /\ LockInv) /\ [OpenNext]_vars => (TypeOK /\ LockInv)'
  BY StepLockInv
<1> QED BY <1>1, <1>2, PTL DEF OpenSpec

----------------------------------------------------------------------------
(***************************************************************************)
(* Steps of an importer, seen from the batch it works on.                  *)
(***************************************************************************)
\* Only submitting changes a batch or its attempt, only taking the lock the
\* length that was verified; nobody but a submitter starts to wait.
LEMMA KeepSteps ==
  ASSUME TypeOK, NEW c \in Clients, Act(c)
  PROVE  /\ Submit(c) \/ UNCHANGED <<batch, attempt>>
         /\ Acquire(c) \/ UNCHANGED base
         /\ pc'[c] = "waiting" => Submit(c)
         /\ Submit(c) => pc'[c] = "waiting"
<1> USE DEF importerVars, Goto, Raise, Looking, Fingerprinted, TypeOK
<1>1. CASE Submit(c)
  BY <1>1 DEF Submit
<1>2. CASE Acquire(c)
  BY <1>2 DEF Acquire, Submit
<1>3. CASE Refuse(c) \/ Crash(c) \/ Forget(c)
  BY <1>3 DEF Refuse, Crash, Forget, Submit
<1>4. CASE AbortUnhashable(c) \/ SkipMatched(c) \/ FailMalformed(c)
  BY <1>4 DEF AbortUnhashable, SkipMatched, FailMalformed, Submit
<1>5. CASE AppendRecord(c) \/ FailUnpersistable(c) \/ AbortUnredactable(c)
  BY <1>5 DEF AppendRecord, FailUnpersistable, AbortUnredactable, Normalize, Submit
<1>6. CASE RejectOutOfSequence(c) \/ FailAppend(c)
  BY <1>6 DEF RejectOutOfSequence, FailAppend, Normalize, JournalErrorOut, Submit
<1>7. CASE Answer(c)
  BY <1>7 DEF Answer, Submit
<1> QED BY <1>1, <1>2, <1>3, <1>4, <1>5, <1>6, <1>7 DEF Act, ImportStep

\* An outcome other than "imported": the next record is looked at, or the work
\* stops, possibly with a line that is in the journal all the same.
Passes(c, status, event) ==
  /\ Record(c, status, event)
  /\ \/ UNCHANGED <<journal, pc>> /\ NextRecord(c)
     \/ /\ pc'[c] = "stopped" /\ UNCHANGED index
        /\ UNCHANGED journal \/ Appends(c)

\* An importer that goes on working has imported the record it looked at, has
\* matched it, or has recorded that it failed.
LEMMA LookSteps ==
  ASSUME TypeOK, LockInv, NEW c \in Clients, Act(c), Working(c)', ~Acquire(c)
  PROVE  /\ Fingerprinted(c) /\ UNCHANGED <<batch, attempt, base>>
         /\ \/ AppendRecord(c)
            \/ SkipMatched(c)
            \/ Match(c) = {} /\ Passes(c, "failed", Null)
<1>0. pc \in [Clients -> {"idle", "waiting", "importing", "stopped"}]
  BY DEF TypeOK
<1>1. ~Submit(c) /\ ~Refuse(c) /\ ~Crash(c) /\ ~Answer(c) /\ ~AbortUnhashable(c)
      /\ ~AbortUnredactable(c) /\ ~Forget(c)
  BY <1>0 DEF Working, Submit, Refuse, Crash, Answer, AbortUnhashable,
              AbortUnredactable, Forget, Goto, Raise
<1>2. UNCHANGED <<batch, attempt, base>>
  BY <1>1, KeepSteps
<1>3. CASE AppendRecord(c) \/ SkipMatched(c)
  BY <1>2, <1>3 DEF AppendRecord, SkipMatched, Normalize
<1>4. CASE FailMalformed(c)
  BY <1>2, <1>4 DEF FailMalformed, Passes
<1>5. CASE FailUnpersistable(c)
  BY <1>2, <1>5 DEF FailUnpersistable, Normalize, Passes
<1>6. CASE RejectOutOfSequence(c) \/ FailAppend(c)
  <2>1. JournalErrorOut(c) /\ Fingerprinted(c) /\ Match(c) = {}
    BY <1>6 DEF RejectOutOfSequence, FailAppend, Normalize
  <2>2. ~Raise(c, "journal_error")
    BY <1>0 DEF Raise, Goto, Working
  <2>3. Record(c, "failed", Null) /\ pc'[c] = "stopped" /\ UNCHANGED index
    BY <1>0, <2>1, <2>2 DEF JournalErrorOut, Goto
  <2> QED BY <1>2, <2>1, <2>3, JournalSteps DEF Passes
<1> QED BY <1>1, <1>3, <1>4, <1>5, <1>6 DEF Act, ImportStep

\* What recording an outcome does to the records that count as imported.
LEMMA RecordImported ==
  ASSUME TypeOK, NEW c \in Clients, NEW status \in Statuses,
         NEW event \in Ids \cup {Null}, Record(c, status, event)
  PROVE  /\ Imported(c)' = Imported(c) \cup
                             (IF status = "imported" THEN {Len(outcomes[c]) + 1} ELSE {})
         /\ Len(outcomes[c]) + 1 \notin Imported(c)
         /\ \A i \in Imported(c) : outcomes'[c][i] = outcomes[c][i]
<1> DEFINE n == Len(outcomes[c])
<1>1. /\ n \in Nat /\ Len(outcomes'[c]) = n + 1
      /\ \A i \in 1 .. n : outcomes'[c][i] = outcomes[c][i]
      /\ outcomes'[c][n + 1] = Outcome(status, event)
  BY RecordType
<1>2. Outcome(status, event).status = status
  BY DEF Outcome
<1>3. Imported(c) = {i \in 1 .. n : outcomes[c][i].status = "imported"}
      /\ Imported(c)' = {i \in 1 .. n + 1 : outcomes'[c][i].status = "imported"}
  BY <1>1 DEF Imported
<1> HIDE DEF n
<1>4. ASSUME NEW i \in 1 .. n + 1
      PROVE  i \in Imported(c)' <=> (i \in Imported(c) \/ (i = n + 1 /\ status = "imported"))
  <2>1. CASE i = n + 1
    BY <1>1, <1>2, <1>3, <2>1
  <2>2. CASE i \in 1 .. n
    BY <1>1, <1>3, <2>2
  <2> QED BY <1>1, <2>1, <2>2
<1>5. Imported(c)' = Imported(c) \cup (IF status = "imported" THEN {n + 1} ELSE {})
  BY <1>1, <1>3, <1>4
<1> QED BY <1>1, <1>3, <1>5 DEF n

----------------------------------------------------------------------------
\* The positions of a journal that was appended to.
LEMMA AppendedPositions ==
  ASSUME TypeOK, NEW c \in Clients, Appends(c)
  PROVE  /\ Len(journal') = Len(journal) + 1 /\ Len(journal) \in Nat
         /\ Positions' = Positions \cup {Len(journal) + 1}
         /\ \A n \in Positions : journal'[n] = journal[n]
         /\ journal'[Len(journal) + 1] = NewEntry(c)
<1>1. journal \in Seq(Entries) /\ Len(journal) \in Nat
  BY LenProperties DEF TypeOK
<1>2. NewEntry(c) \in Entries /\ journal' = Append(journal, NewEntry(c))
  BY NewEntryShape DEF Appends, Appendable, Fingerprinted
<1>3. /\ Len(journal') = Len(journal) + 1
      /\ \A n \in 1 .. Len(journal) : journal'[n] = journal[n]
      /\ journal'[Len(journal) + 1] = NewEntry(c)
  BY <1>1, <1>2, AppendProperties
<1> QED BY <1>1, <1>3 DEF Positions

\* Only the importer at work appends, and then nobody else is at work.
LEMMA AppenderIsAlone ==
  ASSUME TypeOK, LockInv, NEW c \in Clients, Appends(c) \/ Working(c)
  PROVE  Working(c) /\ \A d \in Clients \ {c} : ~Working(d)
<1>1. Working(c)
  BY DEF Appends, Appendable, Fingerprinted, Looking, Working
<1> QED BY <1>1 DEF LockInv, LockHeld

LEMMA LegacyShape ==
  ASSUME NEW i \in 1 .. Len(LegacyJournal)
  PROVE  /\ i \in 1 .. Len(Legacy)
         /\ LegacyJournal[i].id = <<"legacy", 1, i>>
         /\ LegacyJournal[i].print = Null
         /\ LegacyJournal[i].record = Legacy[i]
         /\ LegacyJournal[i].key = PersistedKey(Legacy[i].key)
         /\ LegacyJournal[i].parent \in {Null, <<"legacy", 1, 1>>}
         /\ i = 1 => LegacyJournal[i].parent = Null
<1>1. Len(Legacy) \in Nat
  BY BatchesAssumption, LenProperties
<1>2. Len(LegacyJournal) = Len(Legacy)
  BY <1>1 DEF LegacyJournal
<1>3. LegacyJournal[i] = Entry(Legacy[i], Null, <<"legacy", 1, i>>,
                               IF i = 1 THEN Null ELSE <<"legacy", 1, 1>>)
  BY <1>2 DEF LegacyJournal
<1> QED BY <1>2, <1>3 DEF Entry

\* Every entry keeps the key of its record as it was persisted and, unless it
\* was there at the start, the record's fingerprint.
LEMMA EntryInvHolds == OpenSpec => []EntryInv
<1>1. Init => EntryInv
  BY LegacyShape DEF Init, EntryInv, Positions
<1>2. TypeOK /\ LockInv /\ EntryInv /\ [OpenNext]_vars => EntryInv'
  <2> SUFFICES ASSUME TypeOK, LockInv, EntryInv, [OpenNext]_vars PROVE EntryInv'
    OBVIOUS
  <2>1. CASE UNCHANGED journal
    BY <2>1 DEF EntryInv, Positions
  <2>2. ASSUME NEW c \in Clients, Appends(c) PROVE EntryInv'
    <3>1. Looking(c)
      BY <2>2 DEF Appends, Appendable, Fingerprinted
    <3>2. /\ NewEntry(c).key = PersistedKey(NewEntry(c).record.key)
          /\ NewEntry(c).print = NewEntry(c).record
      BY <3>1, NewEntryShape
    <3> QED BY <2>2, <3>2, AppendedPositions DEF EntryInv
  <2> QED BY <2>1, <2>2, JournalSteps DEF OpenNext, Act, vars
<1> QED BY <1>1, <1>2, AloneHolds, PTL DEF OpenSpec

\* Entries are of attempts that have begun to import, and what was verified
\* when the lock was taken is of earlier ones.
LEMMA ActAgeInv ==
  ASSUME TypeOK, LockInv, AgeInv, NEW c \in Clients, Act(c)
  PROVE  AgeInv'
<1>0. /\ Len(journal) \in Nat /\ Positions = 1 .. Len(journal)
      /\ \A d \in Clients : attempt[d] \in Nat /\ base[d] \in Nat
      /\ \A n \in Positions : journal[n].id[2] \in Nat
  <2>1. journal \in Seq(Entries)
    BY DEF TypeOK
  <2>2. \A n \in Positions : journal[n] \in Entries
    BY <2>1, ElementOfSeq DEF Positions
  <2>3. \A n \in Positions : journal[n].id[2] \in Nat
    BY <2>2 DEF Entries, Ids
  <2> QED BY <2>1, <2>3, LenProperties DEF TypeOK, Positions
<1>1. ASSUME NEW d \in Clients, NEW n \in Positions, journal[n].id[1] = d
      PROVE  /\ journal[n].id[2] <= attempt'[d]
             /\ pc'[d] = "waiting" => journal[n].id[2] < attempt'[d]
             /\ Working(d)' /\ n <= base'[d] => journal[n].id[2] < attempt'[d]
  <2>1. /\ journal[n].id[2] <= attempt[d]
        /\ pc[d] = "waiting" => journal[n].id[2] < attempt[d]
        /\ Working(d) /\ n <= base[d] => journal[n].id[2] < attempt[d]
    BY <1>1 DEF AgeInv
  <2>2. CASE d # c
    BY <2>1, <2>2, OthersSteps DEF OthersAlone, Working
  <2>3. CASE d = c /\ Submit(c)
    <3>1. attempt'[c] = attempt[c] + 1
      BY <2>3 DEF Submit, TypeOK
    <3> QED BY <1>0, <2>1, <2>3, <3>1
  <2>4. CASE d = c /\ Acquire(c)
    <3>1. pc[c] = "waiting" /\ UNCHANGED attempt /\ pc'[c] = "importing"
      BY <2>4 DEF Acquire, Goto, TypeOK
    <3> QED BY <2>1, <2>4, <3>1
  <2>5. CASE d = c /\ ~Submit(c) /\ ~Acquire(c)
    <3>1. UNCHANGED <<attempt, base>> /\ pc'[c] # "waiting"
      BY <2>5, KeepSteps
    <3>2. Working(c)' => Working(c)
      BY <2>5, LookSteps DEF Fingerprinted, Looking, Working
    <3> QED BY <2>1, <2>5, <3>1, <3>2
  <2> QED BY <2>2, <2>3, <2>4, <2>5
<1>2. CASE UNCHANGED journal
  BY <1>1, <1>2 DEF AgeInv, Positions
<1>3. CASE Appends(c)
  <2> DEFINE n == Len(journal) + 1
  <2>1. journal'[n].id = <<c, attempt[c], index[c]>> /\ Positions' = Positions \cup {n}
    BY <1>3, NewEntryShape, AppendedPositions DEF Appends, Appendable, Fingerprinted, EventId
  <2>2. ~Submit(c) /\ ~Acquire(c)
    BY <1>3 DEF Appends, Appendable, Fingerprinted, Looking, Submit, Acquire
  <2>3. UNCHANGED <<attempt, base>> /\ pc'[c] # "waiting"
    BY <2>2, KeepSteps
  <2>4. base[c] < n
    BY <1>0 DEF LockInv, Phase
  <2>5. journal'[n].id[1] = c /\ journal'[n].id[2] = attempt[c]
    BY <2>1
  <2>6. \A m \in Positions : journal'[m] = journal[m]
    BY <1>3, AppendedPositions
  <2> HIDE DEF n
  <2> SUFFICES ASSUME NEW m \in Positions', NEW d \in Clients, journal'[m].id[1] = d
               PROVE  /\ journal'[m].id[2] <= attempt'[d]
                      /\ pc'[d] = "waiting" => journal'[m].id[2] < attempt'[d]
                      /\ Working(d)' /\ m <= base'[d] => journal'[m].id[2] < attempt'[d]
    BY DEF AgeInv
  <2>7. CASE m \in Positions
    BY <1>1, <2>6, <2>7
  <2>8. CASE m = n
    <3>1. d = c /\ journal'[m].id[2] = attempt'[d]
      BY <2>3, <2>5, <2>8
    <3>2. ~(m <= base'[d])
      BY <1>0, <2>3, <2>4, <2>8, <3>1 DEF n
    <3> QED BY <1>0, <2>3, <3>1, <3>2
  <2> QED BY <2>1, <2>7, <2>8
<1> QED BY <1>2, <1>3, JournalSteps

LEMMA AgeInvHolds == OpenSpec => []AgeInv
<1>1. Init => AgeInv
  BY LegacyShape, ClientsAssumption DEF Init, AgeInv, Positions
<1>2. TypeOK /\ LockInv /\ AgeInv /\ [OpenNext]_vars => AgeInv'
  <2>1. TypeOK /\ LockInv /\ AgeInv /\ UNCHANGED vars => AgeInv'
    BY DEF vars, AgeInv, Positions, Working
  <2> QED BY <2>1, ActAgeInv DEF OpenNext, Act
<1> QED BY <1>1, <1>2, AloneHolds, PTL DEF OpenSpec

----------------------------------------------------------------------------
\* Looking at a record without importing it leaves the tail as it was.
LEMMA PassedTail ==
  ASSUME TypeOK, LockInv, NEW c \in Clients, TailOf(c), Looking(c),
         NEW status \in Statuses \ {"imported"}, NEW event \in Ids \cup {Null},
         Passes(c, status, event), UNCHANGED <<batch, attempt, base>>
  PROVE  TailOf(c)'
<1>0. /\ Len(journal) \in Nat /\ base[c] \in Nat /\ index[c] \in Nat \ {0}
      /\ pc[c] = "importing" /\ base[c] <= Len(journal)
      /\ index'[c] \in {index[c], index[c] + 1}
  <2>1. Len(journal) \in Nat
    BY LenProperties DEF TypeOK
  <2>2. index'[c] \in {index[c], index[c] + 1}
    BY NextRecordType DEF Passes
  <2> QED BY <2>1, <2>2 DEF TypeOK, LockInv, Phase, Looking
<1>1. /\ Imported(c)' = Imported(c)
      /\ \A i \in Imported(c) : outcomes'[c][i] = outcomes[c][i]
  BY RecordImported DEF Passes
<1>2. \A i : EventId(c, i)' = EventId(c, i)
  BY DEF EventId
<1>3. ASSUME NEW n \in base[c] + 1 .. Len(journal)
      PROVE  /\ EntryOf(c, n) /\ journal[n].id[3] \in Imported(c)
             /\ journal'[n] = journal[n] => EntryOf(c, n)'
  <2>1. EntryOf(c, n) /\ journal[n].id[3] \in Imported(c)
    BY <1>0 DEF TailOf
  <2> QED BY <1>0, <2>1 DEF EntryOf
<1>4. CASE UNCHANGED journal
  <2>1. \A n \in (base[c] + 1 .. Len(journal))' : EntryOf(c, n)' /\ journal'[n].id[3] \in Imported(c)'
    BY <1>1, <1>3, <1>4
  <2>2. \A i \in Imported(c)' : outcomes'[c][i].event = EventId(c, i)' /\ Committed(c, i)'
    BY <1>1, <1>2, <1>3, <1>4 DEF TailOf, Committed
  <2> QED BY <2>1, <2>2 DEF TailOf
<1>5. CASE pc'[c] = "stopped" /\ UNCHANGED index /\ Appends(c)
  <2>k. PICK k \in Nat : k = Len(journal) + 1
    BY <1>0
  <2>1. /\ Len(journal') = k /\ journal'[k] = NewEntry(c)
        /\ \A n \in 1 .. Len(journal) : journal'[n] = journal[n]
    BY <1>5, <2>k, AppendedPositions DEF Positions
  <2>2. EntryOf(c, k)'
    <3>1. /\ NewEntry(c).id = <<c, attempt[c], index[c]>>
          /\ NewEntry(c).record = batch[c][index[c]] /\ NewEntry(c).print = batch[c][index[c]]
      BY NewEntryShape DEF EventId, Current
    <3>2. /\ journal'[k].id[1] = c /\ journal'[k].id[2] = attempt[c] /\ journal'[k].id[3] = index[c]
          /\ journal'[k].record = batch[c][index[c]] /\ journal'[k].print = batch[c][index[c]]
      BY <2>1, <3>1
    <3> QED BY <1>0, <1>5, <3>2 DEF EntryOf
  <2>3. \A n \in base[c] + 1 .. Len(journal) : journal'[n] = journal[n]
    BY <1>0, <2>k, <2>1
  <2>4. \A n \in base[c] + 1 .. Len(journal') : n \in base[c] + 1 .. Len(journal) \/ n = k
    BY <1>0, <2>k, <2>1
  <2>5. \A n \in base[c] + 1 .. Len(journal) : n \in base[c] + 1 .. Len(journal')
    BY <1>0, <2>k, <2>1
  <2>6. \A n \in (base[c] + 1 .. Len(journal))' : EntryOf(c, n)'
    BY <1>3, <2>2, <2>3, <2>4
  <2>7. ASSUME NEW i \in Imported(c)'
        PROVE  outcomes'[c][i].event = EventId(c, i)' /\ Committed(c, i)'
    <3>1. i \in Imported(c) /\ outcomes'[c][i].event = EventId(c, i)
      BY <1>1, <2>7 DEF TailOf
    <3>2. PICK n \in base[c] + 1 .. Len(journal) : journal[n].id = EventId(c, i) /\ EntryOf(c, n)
      BY <3>1 DEF TailOf, Committed
    <3>3. n \in (base[c] + 1 .. Len(journal))' /\ journal'[n].id = EventId(c, i)' /\ EntryOf(c, n)'
      BY <1>2, <1>3, <2>3, <2>5, <3>2
    <3> QED BY <1>2, <3>1, <3>3 DEF Committed
  <2> QED BY <1>5, <2>6, <2>7 DEF TailOf
<1> QED BY <1>4, <1>5 DEF Passes

\* An imported record is the last entry of the tail.
LEMMA ImportedTail ==
  ASSUME TypeOK, LockInv, NEW c \in Clients, TailOf(c), AppendRecord(c)
  PROVE  TailOf(c)'
<1>i. Looking(c) /\ Appends(c) /\ Record(c, "imported", EventId(c, index[c])) /\ NextRecord(c)
      /\ UNCHANGED <<pc, batch, attempt, base>>
  BY DEF AppendRecord, Appends, Appendable, Normalize, Fingerprinted, importerVars
<1>k. PICK k \in Nat : k = Len(journal) + 1
  <2> Len(journal) \in Nat
    BY LenProperties DEF TypeOK
  <2> QED OBVIOUS
<1>0. /\ Len(journal) \in Nat /\ base[c] \in Nat /\ index[c] \in Nat \ {0}
      /\ pc[c] = "importing" /\ base[c] <= Len(journal)
      /\ index'[c] = index[c] + 1 /\ Len(outcomes[c]) = index[c] - 1
  <2>1. Len(journal) \in Nat
    BY LenProperties DEF TypeOK
  <2>2. index'[c] = index[c] + 1
    BY <1>i, NextRecordType
  <2>3. Len(outcomes[c]) = index[c] - 1
    BY <1>i DEF LockInv, Phase, Looking
  <2> QED BY <1>i, <2>1, <2>2, <2>3 DEF TypeOK, LockInv, Phase, Looking
<1>1. EventId(c, index[c]) \in Ids
  BY <1>i, NewEntryShape
<1>2. /\ Imported(c)' = Imported(c) \cup {index[c]}
      /\ \A i \in Imported(c) : outcomes'[c][i] = outcomes[c][i]
      /\ outcomes'[c][index[c]] = Outcome("imported", EventId(c, index[c]))
  <2>1. "imported" \in Statuses
    BY DEF Statuses
  <2>2. Len(outcomes[c]) + 1 = index[c]
    BY <1>0
  <2> QED BY <1>i, <1>1, <2>1, <2>2, RecordImported, RecordType
<1>3. \A i : EventId(c, i)' = EventId(c, i)
  BY <1>i DEF EventId
<1>4. /\ Len(journal') = k /\ journal'[k] = NewEntry(c)
      /\ \A n \in 1 .. Len(journal) : journal'[n] = journal[n]
  BY <1>i, <1>k, AppendedPositions DEF Positions
<1>5. /\ journal'[k].id = EventId(c, index[c]) /\ journal'[k].id[3] = index[c]
      /\ EntryOf(c, k)'
  <2>1. /\ NewEntry(c).id = EventId(c, index[c])
        /\ NewEntry(c).record = batch[c][index[c]] /\ NewEntry(c).print = batch[c][index[c]]
    BY <1>i, NewEntryShape DEF Current
  <2>2. /\ journal'[k].id[1] = c /\ journal'[k].id[2] = attempt[c] /\ journal'[k].id[3] = index[c]
        /\ journal'[k].record = batch[c][index[c]] /\ journal'[k].print = batch[c][index[c]]
    BY <1>4, <2>1 DEF EventId
  <2> QED BY <1>i, <1>0, <1>4, <2>1, <2>2 DEF EntryOf
<1>6. \A n \in base[c] + 1 .. Len(journal) : journal'[n] = journal[n]
  BY <1>0, <1>k, <1>4
<1>7. /\ \A n \in base[c] + 1 .. Len(journal') : n \in base[c] + 1 .. Len(journal) \/ n = k
      /\ \A n \in base[c] + 1 .. Len(journal) : n \in base[c] + 1 .. Len(journal')
      /\ k \in base[c] + 1 .. Len(journal')
  BY <1>0, <1>k, <1>4
<1>8. ASSUME NEW n \in base[c] + 1 .. Len(journal)
      PROVE  EntryOf(c, n)' /\ journal'[n].id[3] \in Imported(c)
  <2>1. EntryOf(c, n) /\ journal[n].id[3] \in Imported(c)
    BY <1>0 DEF TailOf
  <2> QED BY <1>i, <1>0, <1>6, <2>1 DEF EntryOf
<1>9. \A n \in (base[c] + 1 .. Len(journal))' : EntryOf(c, n)' /\ journal'[n].id[3] \in Imported(c)'
  BY <1>i, <1>2, <1>5, <1>7, <1>8
<1>10. ASSUME NEW i \in Imported(c)'
       PROVE  outcomes'[c][i].event = EventId(c, i)' /\ Committed(c, i)'
  <2>1. CASE i \in Imported(c)
    <3>1. outcomes'[c][i].event = EventId(c, i)
      BY <1>2, <2>1 DEF TailOf
    <3>2. PICK n \in base[c] + 1 .. Len(journal) : journal[n].id = EventId(c, i) /\ EntryOf(c, n)
      BY <2>1 DEF TailOf, Committed
    <3>3. n \in (base[c] + 1 .. Len(journal))' /\ journal'[n].id = EventId(c, i)' /\ EntryOf(c, n)'
      BY <1>i, <1>3, <1>6, <1>7, <1>8, <3>2
    <3> QED BY <1>3, <3>1, <3>3 DEF Committed
  <2>2. CASE i = index[c]
    <3>1. outcomes'[c][i].event = EventId(c, i)
      BY <1>2, <2>2 DEF Outcome
    <3> QED BY <1>i, <1>3, <1>5, <1>7, <2>2, <3>1 DEF Committed
  <2> QED BY <1>2, <2>1, <2>2
<1> QED BY <1>9, <1>10 DEF TailOf

\* A matched record is passed over.
LEMMA SkippedPasses ==
  ASSUME TypeOK, LockInv, NEW c \in Clients, SkipMatched(c)
  PROVE  \E m \in Match(c) : \E status \in {"duplicate", "conflict"} :
           /\ m.id \in Ids \cup {Null}
           /\ status = "duplicate" <=> m.print \in {Null, Current(c)}
           /\ Passes(c, status, m.id)
<1>1. PICK m \in Match(c) :
        Record(c, IF m.print \in {Null, Current(c)} THEN "duplicate" ELSE "conflict", m.id)
  BY DEF SkipMatched
<1>2. m.id \in Ids \cup {Null}
  BY MatchType DEF LockInv, Phase
<1>3. NextRecord(c) /\ UNCHANGED <<journal, pc>>
  BY DEF SkipMatched
<1>4. CASE m.print \in {Null, Current(c)}
  <2>1. Passes(c, "duplicate", m.id)
    BY <1>1, <1>3, <1>4 DEF Passes
  <2> QED BY <1>2, <1>4, <2>1
<1>5. CASE m.print \notin {Null, Current(c)}
  <2>1. Passes(c, "conflict", m.id)
    BY <1>1, <1>3, <1>5 DEF Passes
  <2> QED BY <1>2, <1>5, <2>1
<1> QED BY <1>4, <1>5

\* What lies behind the verified prefix is what the importer at work appended.
LEMMA TailInvHolds == OpenSpec => []TailInv
<1>1. Init => TailInv
  BY DEF Init, TailInv, Working
<1>2. ASSUME TypeOK, LockInv, TailInv, NEW c \in Clients, Act(c) PROVE TailInv'
  <2> SUFFICES ASSUME NEW d \in Clients, Working(d)' PROVE TailOf(d)'
    BY DEF TailInv
  <2>1. CASE d # c
    <3>1. Working(d) /\ OthersAlone(c)
      BY <1>2, <2>1, OthersSteps DEF OthersAlone, Working
    <3>2. UNCHANGED journal
      BY <1>2, <2>1, <3>1, JournalSteps, AppenderIsAlone
    <3>3. TailOf(d)
      BY <1>2, <3>1 DEF TailInv
    <3>4. /\ pc'[d] = pc[d] /\ batch'[d] = batch[d] /\ attempt'[d] = attempt[d]
          /\ index'[d] = index[d] /\ base'[d] = base[d] /\ outcomes'[d] = outcomes[d]
      BY <2>1, <3>1 DEF OthersAlone
    <3>5. \A n : EntryOf(d, n)' <=> EntryOf(d, n)
      BY <3>2, <3>4 DEF EntryOf
    <3>6. Imported(d)' = Imported(d) /\ \A i : EventId(d, i)' = EventId(d, i)
      BY <3>4 DEF Imported, EventId
    <3>7. \A i : Committed(d, i)' <=> Committed(d, i)
      BY <3>2, <3>4, <3>5, <3>6 DEF Committed
    <3> QED BY <3>2, <3>3, <3>4, <3>5, <3>6, <3>7 DEF TailOf
  <2>2. CASE d = c /\ Acquire(c)
    <3>1. base'[c] = Len(journal') /\ outcomes'[c] = << >> /\ Len(journal') \in Nat
      BY <1>2, <2>2, JournalType DEF Acquire, TypeOK
    <3>2. (base[c] + 1 .. Len(journal))' = {}
      BY <3>1
    <3>3. Imported(c)' = {}
      BY <3>1 DEF Imported
    <3> QED BY <2>2, <3>2, <3>3 DEF TailOf
  <2>3. CASE d = c /\ ~Acquire(c)
    <3>1. Looking(c) /\ TailOf(c) /\ UNCHANGED <<batch, attempt, base>>
      BY <1>2, <2>3, LookSteps DEF TailInv, Fingerprinted, Looking, Working
    <3>2. CASE AppendRecord(c)
      BY <1>2, <2>3, <3>1, <3>2, ImportedTail
    <3>3. CASE SkipMatched(c)
      <4>1. PICK m \in Match(c), status \in {"duplicate", "conflict"} :
              m.id \in Ids \cup {Null} /\ Passes(c, status, m.id)
        BY <1>2, <3>3, SkippedPasses
      <4>2. status \in Statuses \ {"imported"}
        BY DEF Statuses
      <4> QED BY <1>2, <2>3, <3>1, <4>1, <4>2, PassedTail
    <3>4. CASE Passes(c, "failed", Null)
      BY <1>2, <2>3, <3>1, <3>4, PassedTail DEF Statuses
    <3> QED BY <1>2, <2>3, <3>2, <3>3, <3>4, LookSteps
  <2> QED BY <2>1, <2>2, <2>3
<1>3. TailInv /\ UNCHANGED vars => TailInv'
  <2> SUFFICES ASSUME TailInv, UNCHANGED vars PROVE TailInv'
    OBVIOUS
  <2>1. \A c, n : EntryOf(c, n)' <=> EntryOf(c, n)
    BY DEF vars, EntryOf
  <2>2. \A c : Imported(c)' = Imported(c) /\ \A i : EventId(c, i)' = EventId(c, i)
    BY DEF vars, Imported, EventId
  <2>3. \A c, i : Committed(c, i)' <=> Committed(c, i)
    BY <2>1, <2>2 DEF vars, Committed
  <2> QED BY <2>1, <2>2, <2>3 DEF vars, TailInv, TailOf, Working
<1>4. TypeOK /\ LockInv /\ TailInv /\ [OpenNext]_vars => TailInv'
  BY <1>2, <1>3 DEF OpenNext, Act
<1> QED BY <1>1, <1>4, AloneHolds, PTL DEF OpenSpec

----------------------------------------------------------------------------
\* Where an importer appends: behind the verified prefix lies nothing but what
\* it appended for earlier records, and in that prefix nothing of this attempt.
LEMMA AppendedBehind ==
  ASSUME TypeOK, LockInv, TailInv, AgeInv, NEW c \in Clients, Appends(c)
  PROVE  /\ base[c] \in Nat /\ base[c] <= Len(journal) /\ index[c] \in Nat
         /\ \A n \in base[c] + 1 .. Len(journal) :
              /\ EntryOf(c, n)
              /\ journal[n].id[3] \in Imported(c)
              /\ journal[n].id[3] \in 1 .. index[c] - 1
         /\ \A n \in 1 .. base[c] : journal[n].id[1] = c => journal[n].id[2] # attempt[c]
<1>1. Looking(c) /\ pc[c] = "importing" /\ Working(c)
  BY DEF Appends, Appendable, Fingerprinted, Looking, Working
<1>2. /\ base[c] \in Nat /\ base[c] <= Len(journal) /\ index[c] \in Nat /\ attempt[c] \in Nat
      /\ Len(outcomes[c]) = index[c] - 1 /\ Len(journal) \in Nat
  BY <1>1, AppendedPositions DEF TypeOK, LockInv, Phase
<1>3. TailOf(c)
  BY <1>1 DEF TailInv
<1>4. Imported(c) \subseteq 1 .. index[c] - 1
  BY <1>2 DEF Imported
<1>5. ASSUME NEW n \in 1 .. base[c], journal[n].id[1] = c PROVE journal[n].id[2] # attempt[c]
  <2>1. n \in Positions
    BY <1>2 DEF Positions
  <2>2. journal[n].id[2] < attempt[c]
    BY <1>1, <1>2, <1>5, <2>1 DEF AgeInv
  <2>3. journal[n].id[2] \in Nat
    <3>1. journal[n] \in Entries
      BY <2>1, ElementOfSeq DEF TypeOK, Positions
    <3> QED BY <3>1 DEF Entries, Ids
  <2> QED BY <1>2, <2>2, <2>3
<1> QED BY <1>1, <1>2, <1>3, <1>4, <1>5 DEF TailOf

\* The entries of one attempt stand side by side in the journal and in the order
\* of its batch, whoever else imports and wherever importers die.
LEMMA ContiguousHolds == OpenSpec => []AttemptsAreContiguous
<1>1. Init => AttemptsAreContiguous
  <2> SUFFICES ASSUME Init PROVE AttemptsAreContiguous
    OBVIOUS
  <2>1. \A n \in Positions : journal[n].id[1] = "legacy" /\ journal[n].id[3] = n
    BY LegacyShape DEF Init, Positions
  <2>2. Len(journal) \in Nat
    BY InitTypeOK, LenProperties DEF TypeOK
  <2> QED BY <2>1, <2>2 DEF AttemptsAreContiguous, Positions
<1>2. ASSUME TypeOK, LockInv, TailInv, AgeInv, AttemptsAreContiguous,
             NEW c \in Clients, Appends(c)
      PROVE  AttemptsAreContiguous'
  <2>k. PICK k \in Nat : k = Len(journal) + 1
    BY <1>2, AppendedPositions
  <2>1. /\ Positions' = Positions \cup {k} /\ Positions = 1 .. k - 1 /\ Len(journal) = k - 1
        /\ \A n \in Positions : journal'[n] = journal[n]
        /\ journal'[k] = NewEntry(c)
    BY <1>2, <2>k, AppendedPositions DEF Positions
  <2>2. journal'[k].id[1] = c /\ journal'[k].id[2] = attempt[c] /\ journal'[k].id[3] = index[c]
    <3>1. NewEntry(c).id = <<c, attempt[c], index[c]>>
      BY <1>2, NewEntryShape DEF EventId, Appends, Appendable, Fingerprinted
    <3> QED BY <2>1, <3>1
  <2> SUFFICES ASSUME NEW m \in Positions', NEW n \in Positions', m < n,
                      journal'[m].id[1] = journal'[n].id[1],
                      journal'[m].id[2] = journal'[n].id[2]
               PROVE  /\ journal'[m].id[3] < journal'[n].id[3]
                      /\ \A p \in m .. n : journal'[p].id[1] = journal'[n].id[1]
    BY DEF AttemptsAreContiguous
  <2>3. CASE n \in Positions
    <3>1. m \in Positions /\ \A p \in m .. n : p \in Positions
      BY <2>1, <2>3
    <3> QED BY <1>2, <2>1, <2>3, <3>1 DEF AttemptsAreContiguous
  <2>4. CASE n = k
    <3>1. m \in Positions /\ journal[m].id[1] = c /\ journal[m].id[2] = attempt[c]
      BY <2>1, <2>2, <2>4
    <3>2. /\ base[c] \in Nat /\ index[c] \in Nat
          /\ \A p \in base[c] + 1 .. k - 1 :
               journal[p].id[1] = c /\ journal[p].id[3] \in 1 .. index[c] - 1
          /\ \A p \in 1 .. base[c] : journal[p].id[1] = c => journal[p].id[2] # attempt[c]
      BY <1>2, <2>1, AppendedBehind DEF EntryOf
    <3>3. m \in base[c] + 1 .. k - 1
      BY <2>1, <3>1, <3>2
    <3>4. journal[m].id[3] < index[c]
      BY <3>2, <3>3
    <3>5. ASSUME NEW p \in m .. n PROVE journal'[p].id[1] = c
      <4>1. p \in base[c] + 1 .. k - 1 \/ p = k
        BY <2>4, <3>2, <3>3
      <4>2. p \in base[c] + 1 .. k - 1 => p \in Positions
        BY <2>1, <3>2
      <4> QED BY <2>1, <2>2, <3>2, <4>1, <4>2
    <3> QED BY <2>1, <2>2, <2>4, <3>1, <3>4, <3>5
  <2> QED BY <2>1, <2>3, <2>4
<1>3. TypeOK /\ LockInv /\ TailInv /\ AgeInv /\ AttemptsAreContiguous /\ [OpenNext]_vars
        => AttemptsAreContiguous'
  <2>1. AttemptsAreContiguous /\ UNCHANGED journal => AttemptsAreContiguous'
    BY DEF AttemptsAreContiguous, Positions
  <2> QED BY <1>2, <2>1, JournalSteps DEF OpenNext, Act, vars
<1> QED BY <1>1, <1>3, AloneHolds, TailInvHolds, AgeInvHolds, PTL DEF OpenSpec

----------------------------------------------------------------------------
LEMMA ImportedIsFinite ==
  ASSUME TypeOK, NEW c \in Clients
  PROVE  IsFiniteSet(Imported(c)) /\ Cardinality(Imported(c)) \in Nat
<1>1. Len(outcomes[c]) \in Nat
  BY LenProperties DEF TypeOK
<1>2. IsFiniteSet(1 .. Len(outcomes[c])) /\ Imported(c) \subseteq 1 .. Len(outcomes[c])
  BY <1>1, FS_Interval DEF Imported
<1>3. IsFiniteSet(Imported(c))
  BY <1>2, FS_Subset
<1> QED BY <1>3, FS_CardinalityType

\* A normalizer that is still in step with the journal has its last event there.
LEMMA NormalizerInvHolds == OpenSpec => []NormalizerInv
<1>1. Init => NormalizerInv
  BY DEF Init, NormalizerInv
<1>2. ASSUME TypeOK, LockInv, NormalizerInv, NEW c \in Clients, Act(c)
      PROVE  NormalizerInv'
  <2> SUFFICES ASSUME NEW d \in Clients, pc'[d] = "importing"
               PROVE  /\ sequence'[d] >= base'[d] + Cardinality(Imported(d)')
                      /\ InSequence(d)' /\ lastEvent'[d] # Null =>
                           \E m \in Positions' : journal'[m].id = lastEvent'[d]
    BY DEF NormalizerInv
  <2>0. /\ \A n \in Positions : n \in Positions' /\ journal'[n] = journal[n]
        /\ sequence \in [Clients -> Nat] /\ base \in [Clients -> Nat]
        /\ pc \in [Clients -> {"idle", "waiting", "importing", "stopped"}]
        /\ outcomes \in [Clients -> Seq(OutcomeRecords)]
        /\ lastEvent \in [Clients -> Ids \cup {Null}]
    BY <1>2, JournalType DEF TypeOK
  <2>1. ASSUME pc[d] = "importing", sequence'[d] = sequence[d], base'[d] = base[d],
               lastEvent'[d] = lastEvent[d], Imported(d)' = Imported(d)
        PROVE  /\ sequence'[d] >= base'[d] + Cardinality(Imported(d)')
               /\ InSequence(d)' /\ lastEvent'[d] # Null =>
                    \E m \in Positions' : journal'[m].id = lastEvent'[d]
    BY <1>2, <2>0, <2>1 DEF NormalizerInv, InSequence
  <2>2. CASE d # c
    <3>1. /\ pc[d] = "importing" /\ sequence'[d] = sequence[d] /\ base'[d] = base[d]
          /\ lastEvent'[d] = lastEvent[d] /\ outcomes'[d] = outcomes[d]
      BY <1>2, <2>2, OthersSteps DEF OthersAlone
    <3> QED BY <2>1, <3>1 DEF Imported
  <2>3. CASE d = c /\ Acquire(c)
    <3>1. /\ outcomes'[c] = << >> /\ sequence'[c] = Len(journal) /\ base'[c] = Len(journal)
          /\ lastEvent'[c] = Null /\ Len(journal) \in Nat
      BY <1>2, <2>0, <2>3, JournalType DEF Acquire
    <3>2. Imported(c)' = {}
      BY <3>1 DEF Imported
    <3> QED BY <2>3, <3>1, <3>2, FS_EmptySet
  <2>4. CASE d = c /\ ~Acquire(c)
    <3>1. Working(c)' /\ Fingerprinted(c) /\ base'[c] = base[c] /\ pc[c] = "importing"
      BY <1>2, <2>4, LookSteps DEF Working, Fingerprinted, Looking
    <3>2. IsFiniteSet(Imported(c)) /\ Cardinality(Imported(c)) \in Nat
      BY <1>2, ImportedIsFinite
    <3>3. ASSUME NEW status \in Statuses \ {"imported"}, NEW event \in Ids \cup {Null},
                 Record(c, status, event)
          PROVE  Imported(c)' = Imported(c)
      BY <1>2, <3>3, RecordImported
    <3>4. CASE AppendRecord(c)
      <4>1. /\ Appends(c) /\ InSequence(c) /\ sequence'[c] = sequence[c] + 1
            /\ lastEvent'[c] = EventId(c, index[c]) /\ Record(c, "imported", EventId(c, index[c]))
        BY <2>0, <3>4 DEF AppendRecord, Normalize, Appends, Appendable
      <4>2. EventId(c, index[c]) \in Ids /\ NewEntry(c).id = EventId(c, index[c])
        BY <1>2, <3>1, NewEntryShape DEF Fingerprinted
      <4>3. PICK i : Imported(c)' = Imported(c) \cup {i} /\ i \notin Imported(c)
        BY <1>2, <4>1, <4>2, RecordImported DEF Statuses
      <4>4. Cardinality(Imported(c)') = Cardinality(Imported(c)) + 1
        BY <3>2, <4>3, FS_AddElement
      <4>5. \E m \in Positions' : journal'[m].id = lastEvent'[c]
        BY <1>2, <4>1, <4>2, AppendedPositions
      <4> QED BY <2>0, <2>4, <3>1, <3>2, <4>1, <4>4, <4>5 DEF InSequence
    <3>5. CASE SkipMatched(c)
      <4>1. PICK m \in Match(c), status \in {"duplicate", "conflict"} :
              m.id \in Ids \cup {Null} /\ Record(c, status, m.id)
        BY <1>2, <3>5, SkippedPasses DEF Passes
      <4>2. Imported(c)' = Imported(c)
        BY <3>3, <4>1 DEF Statuses
      <4> QED BY <2>1, <2>4, <3>1, <3>5, <4>2 DEF SkipMatched
    <3>6. CASE FailMalformed(c)
      <4>1. Imported(c)' = Imported(c)
        BY <3>3, <3>6 DEF FailMalformed, Statuses
      <4> QED BY <2>1, <2>4, <3>1, <3>6, <4>1 DEF FailMalformed
    <3>7. CASE FailUnpersistable(c)
      <4>1. Imported(c)' = Imported(c)
        BY <3>3, <3>7 DEF FailUnpersistable, Statuses
      <4>2. InSequence(c) /\ sequence'[c] = sequence[c] + 1
        BY <2>0, <3>7 DEF FailUnpersistable, Normalize
      <4> QED BY <2>0, <2>4, <3>1, <3>2, <4>1, <4>2 DEF InSequence
    <3>8. ~RejectOutOfSequence(c) /\ ~FailAppend(c)
      BY <2>0, <2>4 DEF RejectOutOfSequence, FailAppend, JournalErrorOut, Raise, Goto
    <3>9. ~Submit(c) /\ ~Refuse(c) /\ ~Crash(c) /\ ~Answer(c) /\ ~AbortUnhashable(c)
          /\ ~AbortUnredactable(c) /\ ~Forget(c)
      BY <2>0, <2>4 DEF Submit, Refuse, Crash, Answer, AbortUnhashable,
                        AbortUnredactable, Forget, Goto, Raise
    <3> QED BY <1>2, <2>4, <3>4, <3>5, <3>6, <3>7, <3>8, <3>9 DEF Act, ImportStep
  <2> QED BY <2>2, <2>3, <2>4
<1>3. NormalizerInv /\ UNCHANGED vars => NormalizerInv'
  BY DEF vars, NormalizerInv, InSequence, Imported, Positions
<1>4. TypeOK /\ LockInv /\ NormalizerInv /\ [OpenNext]_vars => NormalizerInv'
  BY <1>2, <1>3 DEF OpenNext, Act
<1> QED BY <1>1, <1>4, AloneHolds, PTL DEF OpenSpec

\* No committed event has a parent that was never committed, although the
\* normalizer moves on before an append and is not moved back when it fails.
LEMMA ParentsHold == OpenSpec => []ParentsAreCommitted
<1>1. Init => ParentsAreCommitted
  <2> SUFFICES ASSUME Init, NEW n \in Positions, journal[n].parent # Null
               PROVE  \E m \in 1 .. n - 1 : journal[m].id = journal[n].parent
    BY DEF ParentsAreCommitted
  <2>1. n \in 1 .. Len(LegacyJournal) /\ journal = LegacyJournal /\ Len(journal) \in Nat
    BY InitTypeOK, LenProperties DEF Init, Positions, TypeOK
  <2>2. journal[n].parent = <<"legacy", 1, 1>> /\ n # 1
    BY <2>1, LegacyShape
  <2>3. 1 \in 1 .. n - 1 /\ 1 \in 1 .. Len(LegacyJournal)
    BY <2>1, <2>2
  <2>4. journal[1].id = <<"legacy", 1, 1>>
    BY <2>1, <2>3, LegacyShape
  <2> QED BY <2>2, <2>3, <2>4
<1>2. ASSUME TypeOK, LockInv, NormalizerInv, ParentsAreCommitted, NEW c \in Clients, Appends(c)
      PROVE  ParentsAreCommitted'
  <2>k. PICK k \in Nat : k = Len(journal) + 1
    BY <1>2, AppendedPositions
  <2>1. /\ Positions' = Positions \cup {k} /\ Positions = 1 .. k - 1
        /\ \A n \in Positions : journal'[n] = journal[n]
        /\ journal'[k] = NewEntry(c)
    BY <1>2, <2>k, AppendedPositions DEF Positions
  <2>2. journal'[k].parent = lastEvent[c] /\ pc[c] = "importing" /\ InSequence(c)
    BY <1>2, <2>1, NewEntryShape DEF Appends, Appendable, Fingerprinted, Looking
  <2> SUFFICES ASSUME NEW n \in Positions', journal'[n].parent # Null
               PROVE  \E m \in 1 .. n - 1 : journal'[m].id = journal'[n].parent
    BY DEF ParentsAreCommitted
  <2>3. CASE n \in Positions
    <3>1. PICK m \in 1 .. n - 1 : journal[m].id = journal[n].parent
      BY <1>2, <2>1, <2>3 DEF ParentsAreCommitted
    <3>2. m \in Positions
      BY <2>1, <2>3
    <3> QED BY <2>1, <2>3, <3>1, <3>2
  <2>4. CASE n = k
    <3>1. PICK m \in Positions : journal[m].id = lastEvent[c]
      BY <1>2, <2>2, <2>4 DEF NormalizerInv
    <3> QED BY <2>1, <2>2, <2>4, <3>1
  <2> QED BY <2>1, <2>3, <2>4
<1>3. TypeOK /\ LockInv /\ NormalizerInv /\ ParentsAreCommitted /\ [OpenNext]_vars
        => ParentsAreCommitted'
  <2>1. ParentsAreCommitted /\ UNCHANGED journal => ParentsAreCommitted'
    BY DEF ParentsAreCommitted, Positions
  <2> QED BY <1>2, <2>1, JournalSteps DEF OpenNext, Act, vars
<1> QED BY <1>1, <1>3, AloneHolds, NormalizerInvHolds, PTL DEF OpenSpec

----------------------------------------------------------------------------
(***************************************************************************)
(* What the redaction policy and the journal at the start have to grant:   *)
(* no idempotency key is rewritten before it is persisted (else a record   *)
(* is imported again, as the run EvidenceIngestionRewrittenKey shows), and *)
(* the entries there at the start have keys of their own.                  *)
(***************************************************************************)
KeysArePersisted == \A r \in Records : r.key \notin RewrittenKeys

LegacyKeysDiffer ==
  \A i, j \in 1 .. Len(Legacy) : Legacy[i].key = Legacy[j].key => i = j

\* With keys that are not rewritten, an entry has the key of its record.
LEMMA EntryKeys ==
  ASSUME KeysArePersisted, TypeOK, EntryInv, NEW n \in Positions
  PROVE  journal[n] \in Entries /\ journal[n].key = journal[n].record.key
<1>1. journal[n] \in Entries
  BY ElementOfSeq DEF TypeOK, Positions
<1>2. journal[n].record \in Records
  BY <1>1 DEF Entries
<1> QED BY <1>1, <1>2 DEF KeysArePersisted, EntryInv, PersistedKey

\* A record that is appended has a key that no entry has.
LEMMA OnceHolds ==
  ASSUME KeysArePersisted, LegacyKeysDiffer
  PROVE  OpenSpec => []KeyImportedOnce
<1>1. Init => KeyImportedOnce
  BY LegacyShape DEF Init, KeyImportedOnce, Positions, LegacyKeysDiffer
<1>2. ASSUME TypeOK, LockInv, TailInv, AgeInv, EntryInv, KeyImportedOnce,
             NEW c \in Clients, Appends(c)
      PROVE  KeyImportedOnce'
  <2>k. PICK k \in Nat : k = Len(journal) + 1
    BY <1>2, AppendedPositions
  <2>1. /\ Positions' = Positions \cup {k} /\ Positions = 1 .. k - 1 /\ Len(journal) = k - 1
        /\ \A n \in Positions : journal'[n] = journal[n]
        /\ journal'[k] = NewEntry(c)
    BY <1>2, <2>k, AppendedPositions DEF Positions
  <2>2. journal'[k].record.key = Current(c).key
    BY <1>2, <2>1, NewEntryShape DEF Appends, Appendable, Fingerprinted
  <2>3. SnapshotMatches(c) = {} /\ BatchMatches(c) = {}
    BY <1>2, MatchShape DEF Appends, Appendable, TypeOK
  <2>4. /\ base[c] \in Nat /\ base[c] <= k - 1
        /\ \A n \in base[c] + 1 .. k - 1 : EntryOf(c, n) /\ journal[n].id[3] \in Imported(c)
    BY <1>2, <2>1, AppendedBehind
  <2>5. ASSUME NEW n \in Positions PROVE journal[n].record.key # Current(c).key
    <3>1. CASE n \in 1 .. base[c]
      BY <1>2, <2>3, <2>5, <3>1, EntryKeys DEF SnapshotMatches
    <3>2. CASE n \in base[c] + 1 .. k - 1
      BY <2>3, <2>4, <3>2 DEF BatchMatches, EntryOf
    <3> QED BY <2>1, <2>4, <3>1, <3>2
  <2> QED BY <1>2, <2>1, <2>2, <2>5 DEF KeyImportedOnce
<1>3. TypeOK /\ LockInv /\ TailInv /\ AgeInv /\ EntryInv /\ KeyImportedOnce /\ [OpenNext]_vars
        => KeyImportedOnce'
  <2>1. KeyImportedOnce /\ UNCHANGED journal => KeyImportedOnce'
    BY DEF KeyImportedOnce, Positions
  <2> QED BY <1>2, <2>1, JournalSteps DEF OpenNext, Act, vars
<1> QED
  BY <1>1, <1>3, AloneHolds, TailInvHolds, AgeInvHolds, EntryInvHolds, PTL DEF OpenSpec

\* An outcome that was true stays true while the journal grows.
LEMMA TrueOutcomesStay ==
  ASSUME TypeOK, LockInv, NEW c \in Clients, Act(c), NEW d \in Clients, NEW i, NEW outcome,
         TrueOutcome(d, i, outcome), batch'[d] = batch[d], base'[d] = base[d]
  PROVE  TrueOutcome(d, i, outcome)'
<1>1. /\ \A n \in Positions : n \in Positions' /\ journal'[n] = journal[n]
      /\ Len(journal) \in Nat /\ base[d] \in Nat /\ base[d] <= Len(journal)
  BY JournalType DEF TypeOK, LockInv, Phase
<1>2. \A n \in 1 .. base[d] : n \in Positions /\ journal'[n] = journal[n]
  BY <1>1 DEF Positions
<1> QED BY <1>1, <1>2 DEF TrueOutcome

\* A client hears outcomes only when the importer's work is done.
LEMMA ReplySteps ==
  ASSUME TypeOK, LockInv, NEW c \in Clients, Act(c), reply'[c].outcomes # << >>
  PROVE  \/ /\ Working(c) /\ reply'[c].outcomes = outcomes[c]
            /\ UNCHANGED <<journal, batch, base>>
         \/ reply'[c] = reply[c] /\ batch'[c] = batch[c] /\ base'[c] = base[c]
<1> USE DEF TypeOK, Goto, Raise, importerVars
<1>1. CASE Submit(c) \/ Refuse(c) \/ AbortUnhashable(c) \/ AbortUnredactable(c)
          \/ Forget(c)
  BY <1>1 DEF Submit, Refuse, AbortUnhashable, AbortUnredactable, Forget, NoReply
<1>2. CASE Acquire(c)
  BY <1>2 DEF Acquire, LockInv, Phase
<1>3. CASE Crash(c)
  BY <1>3 DEF Crash
<1>4. CASE SkipMatched(c) \/ FailMalformed(c) \/ AppendRecord(c) \/ FailUnpersistable(c)
  BY <1>4 DEF SkipMatched, FailMalformed, AppendRecord, FailUnpersistable
<1>5. CASE RejectOutOfSequence(c) \/ FailAppend(c)
  BY <1>5 DEF RejectOutOfSequence, FailAppend, JournalErrorOut
<1>6. CASE Answer(c)
  BY <1>6 DEF Answer, Working
<1> QED BY <1>1, <1>2, <1>3, <1>4, <1>5, <1>6 DEF Act, ImportStep

\* The outcome of a record that was not matched: it is in the journal when it
\* was imported, and it was not in the verified prefix.
LEMMA NewOutcome ==
  ASSUME KeysArePersisted, TypeOK, LockInv, EntryInv, NEW c \in Clients, Looking(c),
         Match(c) = {}, NEW i \in Nat, i = index[c], NEW outcome,
         outcome.status = "failed"
           \/ /\ outcome.status = "imported" /\ outcome.event = EventId(c, index[c])
              /\ Appends(c),
         UNCHANGED <<batch, base>>, UNCHANGED journal \/ Appends(c)
  PROVE  TrueOutcome(c, i, outcome)'
<1>1. /\ Len(journal) \in Nat /\ base[c] \in Nat /\ base[c] <= Len(journal)
      /\ SnapshotMatches(c) = {}
  BY LenProperties, MatchShape DEF TypeOK, LockInv, Phase
<1>2. ASSUME NEW n \in 1 .. base[c] PROVE journal'[n].record # batch'[c][i]
  <2>1. n \in Positions /\ journal'[n] = journal[n]
    BY <1>1, AppendedPositions DEF Positions
  <2>2. journal[n].key # Current(c).key /\ journal[n].key = journal[n].record.key
    BY <1>1, <2>1, EntryKeys DEF SnapshotMatches
  <2> QED BY <2>1, <2>2 DEF Current
<1>3. ASSUME Appends(c), outcome.event = EventId(c, index[c])
      PROVE  \E n \in Positions' : /\ journal'[n].id = outcome.event
                                   /\ journal'[n].record.key = batch'[c][i].key
                                   /\ journal'[n].print \in {Null, batch'[c][i]}
  BY <1>3, NewEntryShape, AppendedPositions DEF Current
<1> QED BY <1>2, <1>3 DEF TrueOutcome

\* The outcome of a matched record: its key is in the journal, with the same
\* record or another one, and it is a duplicate of the record if that was there.
LEMMA MatchedOutcome ==
  ASSUME KeysArePersisted, TypeOK, LockInv, TailInv, EntryInv, KeyImportedOnce,
         NEW c \in Clients, Looking(c), NEW m \in Match(c),
         NEW status \in {"duplicate", "conflict"},
         status = "duplicate" <=> m.print \in {Null, Current(c)}
  PROVE  TrueOutcome(c, index[c], Outcome(status, m.id))
<1> DEFINE outcome == Outcome(status, m.id)
<1>0. outcome.status = status /\ outcome.event = m.id
  BY DEF Outcome
<1>1. /\ Len(journal) \in Nat /\ base[c] \in Nat /\ base[c] <= Len(journal)
      /\ Positions = 1 .. Len(journal)
  BY LenProperties DEF TypeOK, LockInv, Phase, Positions
<1>2. ASSUME NEW n \in 1 .. base[c], journal[n].record = Current(c)
      PROVE  n \in SnapshotMatches(c)
  <2>1. n \in Positions
    BY <1>1
  <2> QED BY <1>2, <2>1, EntryKeys DEF SnapshotMatches
<1>3. SUFFICES ASSUME NEW n \in Positions, journal[n].id = m.id,
                      journal[n].record.key = Current(c).key, journal[n].print = m.print,
                      journal[n].print \in {Null, journal[n].record},
                      \A p \in 1 .. base[c] :
                        journal[p].record = Current(c) => journal[n].record = Current(c)
               PROVE  TrueOutcome(c, index[c], outcome)
  <2>1. CASE SnapshotMatches(c) # {}
    <3>1. PICK n \in SnapshotMatches(c) : m = [id |-> journal[n].id, print |-> journal[n].print]
      BY <1>1, <2>1, MatchShape
    <3>2. n \in Positions /\ journal[n].record.key = Current(c).key
      BY <1>1, <3>1, EntryKeys DEF SnapshotMatches
    <3>3. ASSUME NEW p \in 1 .. base[c], journal[p].record = Current(c)
          PROVE  journal[n].record = Current(c)
      <4>1. p \in Positions
        BY <1>1
      <4>2. p = n
        BY <3>2, <3>3, <4>1 DEF KeyImportedOnce
      <4> QED BY <3>3, <4>2
    <3>4. journal[n].print \in {Null, journal[n].record}
      BY <3>2 DEF EntryInv
    <3> QED BY <3>1, <3>2, <3>3, <3>4
  <2>2. CASE SnapshotMatches(c) = {}
    <3>1. PICK i \in BatchMatches(c) : m = [id |-> outcomes[c][i].event, print |-> batch[c][i]]
      BY <1>1, <2>2, MatchShape
    <3>2. TailOf(c) /\ i \in Imported(c) /\ batch[c][i].key = Current(c).key
      BY <3>1 DEF TailInv, Working, Looking, BatchMatches
    <3>3. PICK n \in base[c] + 1 .. Len(journal) :
            journal[n].id = EventId(c, i) /\ EntryOf(c, n) /\ outcomes[c][i].event = EventId(c, i)
      BY <3>2 DEF TailOf, Committed
    <3>4. n \in Positions /\ journal[n].record = batch[c][i] /\ journal[n].print = batch[c][i]
      <4>1. journal[n].id[3] = i
        BY <3>3 DEF EventId
      <4> QED BY <1>1, <3>3, <4>1 DEF EntryOf
    <3> QED BY <1>2, <2>2, <3>1, <3>2, <3>3, <3>4
  <2> QED BY <2>1, <2>2
<1>4. journal[n].record = Current(c) => status = "duplicate"
  BY <1>3
<1>5. status = "conflict" => journal[n].record # Current(c)
  BY <1>4
<1> HIDE DEF outcome
<1> QED BY <1>0, <1>3, <1>4, <1>5 DEF TrueOutcome, Current

\* What was recorded so far, and what a client heard, is true of the journal.
LEMMA OutcomesInvHolds ==
  ASSUME KeysArePersisted, LegacyKeysDiffer
  PROVE  OpenSpec => []OutcomesInv
<1>1. Init => OutcomesInv
  <2>1. Init => \A c \in Clients : ~Working(c) /\ reply[c].outcomes = << >>
    BY DEF Init, Working, NoReply
  <2> QED BY <2>1 DEF OutcomesInv
<1>2. ASSUME TypeOK, LockInv, TailInv, EntryInv, KeyImportedOnce, OutcomesInv,
             NEW c \in Clients, Act(c)
      PROVE  OutcomesInv'
  <2>1. ASSUME NEW d \in Clients, NEW i \in 1 .. Len(reply'[d].outcomes),
               NEW outcome, outcome = reply'[d].outcomes[i]
        PROVE  TrueOutcome(d, i, outcome)'
    <3>1. CASE reply'[d] = reply[d] /\ batch'[d] = batch[d] /\ base'[d] = base[d]
      <4>1. TrueOutcome(d, i, outcome)
        BY <1>2, <2>1, <3>1 DEF OutcomesInv
      <4> QED BY <1>2, <3>1, <4>1, TrueOutcomesStay
    <3>2. CASE d = c /\ Working(c) /\ reply'[c].outcomes = outcomes[c]
               /\ UNCHANGED <<journal, batch, base>>
      <4>1. TrueOutcome(d, i, outcome)
        BY <1>2, <2>1, <3>2 DEF OutcomesInv
      <4> QED BY <3>2, <4>1 DEF TrueOutcome, Positions
    <3>3. CASE d # c
      BY <1>2, <3>1, <3>3, OthersSteps DEF OthersAlone
    <3>e. reply'[d].outcomes # << >>
      BY <2>1, EmptySeq
    <3>4. CASE d = c /\ reply'[c].outcomes # << >>
      BY <1>2, <2>1, <3>1, <3>2, <3>4, ReplySteps
    <3> QED BY <3>3, <3>4, <3>e
  <2>2. ASSUME NEW d \in Clients, Working(d)', NEW i \in 1 .. Len(outcomes'[d]),
               NEW outcome, outcome = outcomes'[d][i]
        PROVE  TrueOutcome(d, i, outcome)'
    <3>1. ASSUME Working(d), i \in 1 .. Len(outcomes[d]), outcomes'[d][i] = outcomes[d][i],
                 batch'[d] = batch[d], base'[d] = base[d]
          PROVE  TrueOutcome(d, i, outcome)'
      <4>1. TrueOutcome(d, i, outcome)
        BY <1>2, <2>2, <3>1 DEF OutcomesInv
      <4> QED BY <1>2, <3>1, <4>1, TrueOutcomesStay
    <3>2. CASE d # c
      BY <1>2, <2>2, <3>1, <3>2, OthersSteps DEF OthersAlone, Working
    <3>3. CASE d = c /\ Acquire(c)
      BY <1>2, <2>2, <3>3 DEF Acquire, TypeOK
    <3>4. CASE d = c /\ ~Acquire(c)
      <4>1. /\ Fingerprinted(c) /\ Looking(c) /\ Working(c) /\ UNCHANGED <<batch, attempt, base>>
            /\ pc[c] = "importing"
        BY <1>2, <2>2, <3>4, LookSteps DEF Fingerprinted, Looking, Working
      <4>2. index[c] \in Nat \ {0} /\ Len(outcomes[c]) = index[c] - 1
        BY <1>2, <4>1 DEF TypeOK, LockInv, Phase
      <4>3. ASSUME NEW status \in Statuses, NEW event \in Ids \cup {Null},
                   Record(c, status, event),
                   \/ TrueOutcome(c, index[c], Outcome(status, event)) /\ UNCHANGED journal
                   \/ Match(c) = {} /\ status = "failed"
                   \/ /\ Match(c) = {} /\ status = "imported" /\ Appends(c)
                      /\ event = EventId(c, index[c])
            PROVE  TrueOutcome(d, i, outcome)'
        <5>1. /\ Len(outcomes'[c]) = index[c] /\ outcomes'[c][index[c]] = Outcome(status, event)
              /\ \A j \in 1 .. index[c] - 1 : outcomes'[c][j] = outcomes[c][j]
          BY <1>2, <4>2, <4>3, RecordType
        <5>2. CASE i \in 1 .. index[c] - 1
          BY <3>1, <3>4, <4>1, <4>2, <5>1, <5>2
        <5>3. CASE i = index[c]
          <6>1. i \in Nat /\ outcome = Outcome(status, event)
            BY <2>2, <3>4, <4>2, <5>1, <5>3
          <6>3. outcome.status = status /\ outcome.event = event
            BY <6>1 DEF Outcome
          <6>4. CASE TrueOutcome(c, index[c], Outcome(status, event))
            <7>1. TrueOutcome(c, i, outcome)
              BY <5>3, <6>1, <6>4
            <7> QED BY <1>2, <3>4, <4>1, <7>1, TrueOutcomesStay
          <6>5. CASE Match(c) = {} /\ status \in {"imported", "failed"}
                     /\ (status = "imported" => Appends(c) /\ event = EventId(c, index[c]))
            <7>1. UNCHANGED journal \/ Appends(c)
              BY <1>2, JournalSteps
            <7>2. TrueOutcome(c, i, outcome)'
              BY <1>2, <4>1, <5>3, <6>1, <6>3, <6>5, <7>1, NewOutcome
            <7> QED BY <3>4, <7>2
          <6> QED BY <4>3, <6>4, <6>5
        <5> QED BY <3>4, <4>2, <5>1, <5>2, <5>3
      <4>4. CASE AppendRecord(c)
        <5>1. EventId(c, index[c]) \in Ids
          BY <1>2, <4>1, NewEntryShape
        <5> QED
          BY <4>3, <4>4, <5>1
          DEF AppendRecord, Normalize, Appends, Appendable, Statuses
      <4>5. CASE SkipMatched(c)
        <5>1. PICK m \in Match(c), status \in {"duplicate", "conflict"} :
                /\ m.id \in Ids \cup {Null}
                /\ status = "duplicate" <=> m.print \in {Null, Current(c)}
                /\ Record(c, status, m.id)
          BY <1>2, <4>5, SkippedPasses DEF Passes
        <5>2. TrueOutcome(c, index[c], Outcome(status, m.id))
          BY <1>2, <4>1, <5>1, MatchedOutcome
        <5>3. UNCHANGED journal /\ status \in Statuses
          BY <4>5 DEF SkipMatched, Statuses
        <5>4. m.id \in Ids \cup {Null} /\ Record(c, status, m.id)
          BY <5>1
        <5>5. PICK event \in Ids \cup {Null} : event = m.id
          BY <5>4
        <5> QED BY <4>3, <5>2, <5>3, <5>4, <5>5
      <4>6. CASE Match(c) = {} /\ Passes(c, "failed", Null)
        BY <4>3, <4>6 DEF Passes, Statuses
      <4> QED BY <1>2, <2>2, <3>4, <4>4, <4>5, <4>6, LookSteps
    <3> QED BY <3>2, <3>3, <3>4
  <2> QED BY <2>1, <2>2 DEF OutcomesInv, TrueOutcome
<1>3. OutcomesInv /\ UNCHANGED vars => OutcomesInv'
  BY DEF vars, OutcomesInv, TrueOutcome, Working, Positions
<1>4. TypeOK /\ LockInv /\ TailInv /\ EntryInv /\ KeyImportedOnce /\ OutcomesInv /\ [OpenNext]_vars
        => OutcomesInv'
  BY <1>2, <1>3 DEF OpenNext, Act
<1> QED
  BY <1>1, <1>4, AloneHolds, TailInvHolds, EntryInvHolds, OnceHolds, PTL DEF OpenSpec

----------------------------------------------------------------------------
(***************************************************************************)
(* The results, for clients that submit batches and nothing else.          *)
(***************************************************************************)
\* Every reachable state is well typed; the lock is held by the one importer at
\* work, which has recorded one outcome for each record it has looked at.
THEOREM ImportersAreAlone == Spec => [](TypeOK /\ LockInv)
  BY SpecIsOpen, AloneHolds, PTL

\* The entries of one attempt stand side by side in the journal and in the order
\* of its batch, whoever else imports and wherever importers die.
THEOREM AttemptsStayContiguous == Spec => []AttemptsAreContiguous
  BY SpecIsOpen, ContiguousHolds, PTL

\* No committed event has a parent that was never committed, although the
\* normalizer moves on before an append and is not moved back when it fails.
THEOREM ParentsAreThere == Spec => []ParentsAreCommitted
  BY SpecIsOpen, ParentsHold, PTL

\* No idempotency key is imported twice, however often batches are submitted,
\* whichever importers race and wherever they die: a record whose key is in the
\* verified prefix or among those this batch imported is not appended, and
\* there is nothing else in the journal.
THEOREM KeysAreImportedOnce ==
  ASSUME KeysArePersisted, LegacyKeysDiffer
  PROVE  Spec => []KeyImportedOnce
  BY SpecIsOpen, OnceHolds, PTL

\* Whatever a client is told of its records is true of the journal it left.
THEOREM OutcomesStayTrue ==
  ASSUME KeysArePersisted, LegacyKeysDiffer
  PROVE  Spec => []OutcomesAreTrue
<1>1. KeyImportedOnce /\ OutcomesInv => OutcomesAreTrue
  BY DEF KeyImportedOnce, OutcomesInv, OutcomesAreTrue, TrueOutcome
<1> QED BY <1>1, SpecIsOpen, OnceHolds, OutcomesInvHolds, PTL

\* A record that the journal held when the importer took the lock is answered
\* as a duplicate, whichever attempt committed it and whatever became of that.
THEOREM RetriesResolveCommitted ==
  ASSUME KeysArePersisted, LegacyKeysDiffer
  PROVE  Spec => []RetryResolvesCommitted
<1>1. OutcomesInv => RetryResolvesCommitted
  BY DEF OutcomesInv, RetryResolvesCommitted, TrueOutcome
<1> QED BY <1>1, SpecIsOpen, OutcomesInvHolds, PTL

----------------------------------------------------------------------------
(***************************************************************************)
(* import_evidence_batch (BatchImport): although importers hold no lock    *)
(* between two records, an import that reports no failed record is as good *)
(* as atomic.  The invariant is stated of a store s, a client c and the    *)
(* client's import i, so that its lemmas are about values, not steps.      *)
(***************************************************************************)
Places == {"idle", "called", "importing"}

ImportRecords ==
  [at : Places, batch : Seq(Records), attempt : Nat, existing : BOOLEAN,
   index : Nat \ {0}, base : Nat, sequence : Nat, last : Ids \cup {Null},
   outcomes : Seq(OutcomeRecords), result : Kinds]

Stores == {s \in Seq(Entries) : \A n \in 1 .. Len(s) : s[n].key = s[n].record.key}

BatchTypeOK ==
  /\ store \in Stores
  /\ cut \in BOOLEAN
  /\ imports \in [Clients -> ImportRecords]

\* The entries in the store that the import made, and the records it says are there.
Own(s, c, i) == {n \in 1 .. Len(s) : s[n].id[1] = c /\ s[n].id[2] = i.attempt}

Done(i) == {k \in 1 .. Len(i.outcomes) : i.outcomes[k].status = "imported"}

Clean(i) == \A k \in 1 .. Len(i.outcomes) : i.outcomes[k].status # "failed"

\* What is claimed of an import that returns, and the record of each entry.
Together(s, own) ==
  /\ \A m, n \in own : \A k \in m .. n : k \in own
  /\ \A n \in own : \A m \in 1 .. n - 1 : s[m].record.key # s[n].record.key
  /\ \A n \in own : s[n].parent # Null => \E m \in 1 .. n - 1 : s[m].id = s[n].parent

Listed(s, c, i, own) ==
  /\ \A k \in Done(i) : /\ i.outcomes[k].event = <<c, i.attempt, k>>
                        /\ \E n \in own : s[n].id = i.outcomes[k].event
  /\ Cardinality(own) = Cardinality(Done(i))
  /\ \A n \in own : s[n].id[3] \in Done(i) /\ s[n].record = i.batch[s[n].id[3]]
  /\ \A k \in 1 .. Len(i.outcomes) :
       i.outcomes[k].status = "duplicate" =>
         \E m \in 1 .. Len(s) : s[m].record.key = i.batch[k].key
                                /\ s[m].id = i.outcomes[k].event

Whole(s, c, i) == Together(s, Own(s, c, i)) /\ Listed(s, c, i, Own(s, c, i))

\* The normalizer counts what was scanned and what the import made, and its last
\* event is the last entry the import made.
Ready(s, i, own) ==
  /\ \A m \in 1 .. i.sequence : m <= i.base \/ m \in own
  /\ own # {} => i.sequence \in own /\ \A n \in own : n <= i.sequence
  /\ i.last # Null => i.sequence \in own /\ s[i.sequence].id = i.last

\* A call that has not read the journal yet has made nothing.
Fresh(s, c, i) ==
  /\ i.outcomes = << >> /\ i.last = Null /\ i.index = 1
  /\ i.sequence <= IF i.existing THEN Len(s) ELSE 0
  /\ \A n \in 1 .. Len(s) : s[n].id[1] = c => s[n].id[2] < i.attempt

ImportInv(s, c, i) ==
  /\ i.at # "idle" => i.result = "none"
  /\ i.at = "called" => Fresh(s, c, i)
  /\ \A n \in 1 .. Len(s) : s[n].id[1] = c => s[n].id[2] <= i.attempt
  /\ i.at = "importing" => Len(i.outcomes) = i.index - 1 /\ i.base <= Len(s)
  /\ i.at = "importing" /\ Clean(i) => Whole(s, c, i) /\ Ready(s, i, Own(s, c, i))
  /\ i.result = "result" /\ Clean(i) => Whole(s, c, i)

ImportsInv == \A c \in Clients : ImportInv(store, c, imports[c])

----------------------------------------------------------------------------
(***************************************************************************)
(* The store grows.                                                        *)
(***************************************************************************)
\* The store t is s with the entry e behind it.
Extended(s, e, t) ==
  /\ s \in Stores /\ t \in Stores /\ e \in Entries
  /\ Len(s) \in Nat /\ Len(t) = Len(s) + 1
  /\ \A n \in 1 .. Len(s) : t[n] = s[n]
  /\ t[Len(s) + 1] = e

LEMMA AppendExtends ==
  ASSUME NEW s \in Stores, NEW e \in Entries, e.key = e.record.key
  PROVE  Extended(s, e, Append(s, e))
<1>1. PICK t : t = Append(s, e)
  OBVIOUS
<1>2. s \in Seq(Entries) /\ Len(s) \in Nat /\ \A n \in 1 .. Len(s) : s[n].key = s[n].record.key
  BY LenProperties DEF Stores
<1>3. /\ t \in Seq(Entries) /\ Len(t) = Len(s) + 1
      /\ \A n \in 1 .. Len(s) : t[n] = s[n]
      /\ t[Len(s) + 1] = e
  BY <1>1, <1>2, AppendProperties
<1>4. \A n \in 1 .. Len(t) : n \in 1 .. Len(s) \/ n = Len(s) + 1
  BY <1>2, <1>3
<1>5. t \in Stores
  BY <1>2, <1>3, <1>4 DEF Stores
<1> QED BY <1>1, <1>2, <1>3, <1>5 DEF Extended

\* The entries an import made, in a store that another client appended to.
LEMMA OwnAmongOthers ==
  ASSUME NEW s, NEW e, NEW t, Extended(s, e, t), NEW c, NEW i, e.id[1] # c
  PROVE  Own(t, c, i) = Own(s, c, i)
<1>1. \A n : n \in Own(t, c, i) <=> n \in Own(s, c, i)
  BY DEF Own, Extended
<1> QED BY <1>1

LEMMA OthersKeepWhole ==
  ASSUME NEW s, NEW e, NEW t, Extended(s, e, t), NEW c, NEW i \in ImportRecords,
         e.id[1] # c, Whole(s, c, i)
  PROVE  Whole(t, c, i)
<1>1. PICK own : own = Own(s, c, i)
  OBVIOUS
<1>2. Own(t, c, i) = own /\ own \subseteq 1 .. Len(s)
  <2>1. Own(t, c, i) = Own(s, c, i)
    BY OwnAmongOthers
  <2>2. Own(s, c, i) \subseteq 1 .. Len(s)
    BY DEF Own
  <2> QED BY <1>1, <2>1, <2>2
<1>3. Together(s, own) /\ Listed(s, c, i, own)
  BY <1>1 DEF Whole
<1>4. \A n \in own : \A m \in 1 .. n - 1 : m \in 1 .. Len(s)
  BY <1>2 DEF Extended
<1>5. Together(t, own)
  <2>1. \A n \in own : t[n] = s[n] /\ \A m \in 1 .. n - 1 : t[m] = s[m]
    BY <1>2, <1>4 DEF Extended
  <2>2. \A n \in own : \A m \in 1 .. n - 1 : t[m].record.key # t[n].record.key
    BY <1>3, <2>1 DEF Together
  <2>3. \A n \in own : t[n].parent # Null => \E m \in 1 .. n - 1 : t[m].id = t[n].parent
    BY <1>3, <2>1 DEF Together
  <2> QED BY <1>3, <2>2, <2>3 DEF Together
<1>6. Listed(t, c, i, own)
  <2>1. \A k \in 1 .. Len(i.outcomes) :
          i.outcomes[k].status = "duplicate" =>
            \E m \in 1 .. Len(t) : t[m].record.key = i.batch[k].key
                                   /\ t[m].id = i.outcomes[k].event
    BY <1>3 DEF Listed, Extended
  <2> QED BY <1>2, <1>3, <2>1 DEF Listed, Extended
<1> QED BY <1>2, <1>5, <1>6 DEF Whole

\* What other clients append disturbs no import.
LEMMA OthersKeep ==
  ASSUME NEW s, NEW e, NEW t, Extended(s, e, t), NEW c, NEW i \in ImportRecords,
         e.id[1] # c, ImportInv(s, c, i)
  PROVE  ImportInv(t, c, i)
<1>1. \A n \in 1 .. Len(t) : t[n].id[1] = c => n \in 1 .. Len(s) /\ t[n] = s[n]
  BY DEF Extended
<1>2. i.at = "called" => Fresh(t, c, i)
  <2>1. i.sequence \in Nat /\ i.existing \in BOOLEAN
    BY DEF ImportRecords
  <2> QED BY <1>1, <2>1 DEF ImportInv, Fresh, Extended
<1>3. \A n \in 1 .. Len(t) : t[n].id[1] = c => t[n].id[2] <= i.attempt
  BY <1>1 DEF ImportInv
<1>4. Whole(s, c, i) => Whole(t, c, i)
  BY OthersKeepWhole
<1>5. Ready(s, i, Own(s, c, i)) => Ready(t, i, Own(t, c, i))
  <2>1. PICK own : own = Own(s, c, i)
    OBVIOUS
  <2>2. Own(t, c, i) = own /\ own \subseteq 1 .. Len(s)
    <3>1. Own(t, c, i) = Own(s, c, i)
      BY OwnAmongOthers
    <3>2. Own(s, c, i) \subseteq 1 .. Len(s)
      BY DEF Own
    <3> QED BY <2>1, <3>1, <3>2
  <2>3. i.base \in Nat /\ i.sequence \in Nat
    BY DEF ImportRecords
  <2>4. Ready(s, i, own) => Ready(t, i, own)
    BY <2>2, <2>3 DEF Ready, Extended
  <2> QED BY <2>1, <2>2, <2>4
<1>6. i.base <= Len(s) => i.base <= Len(t)
  BY DEF ImportRecords, Extended
<1> QED BY <1>2, <1>3, <1>4, <1>5, <1>6 DEF ImportInv

----------------------------------------------------------------------------
(***************************************************************************)
(* The import goes on.                                                     *)
(***************************************************************************)
\* The import j is i with the outcome o for the record it was at.
GoesOn(i, o, j) ==
  /\ i \in ImportRecords /\ j \in ImportRecords
  /\ i.at = "importing" /\ j.at = "importing"
  /\ j.batch = i.batch /\ j.attempt = i.attempt /\ j.base = i.base /\ j.result = i.result
  /\ j.index = i.index + 1
  /\ j.outcomes = Append(i.outcomes, o)

LEMMA OneOutcomeMore ==
  ASSUME NEW i, NEW o, NEW j, GoesOn(i, o, j), Len(i.outcomes) = i.index - 1
  PROVE  /\ Len(j.outcomes) = i.index /\ i.index \in Nat \ {0}
         /\ \A k \in 1 .. Len(j.outcomes) : k \in 1 .. Len(i.outcomes) \/ k = i.index
         /\ \A k \in 1 .. Len(i.outcomes) : j.outcomes[k] = i.outcomes[k] /\ k # i.index
         /\ j.outcomes[i.index] = o
         /\ Clean(j) => Clean(i) /\ o.status # "failed"
         /\ o.status = "imported" => Done(j) = Done(i) \cup {i.index}
         /\ o.status # "imported" => Done(j) = Done(i)
<1>1. PICK old, new : old = i.outcomes /\ new = j.outcomes
  OBVIOUS
<1>2. PICK l \in Nat : l = Len(old)
  BY <1>1, LenProperties DEF GoesOn, ImportRecords
<1>3. i.index = l + 1
  BY <1>1, <1>2 DEF GoesOn, ImportRecords
<1>4. new = Append(old, o)
  BY <1>1 DEF GoesOn
<1>5. old \in Seq(OutcomeRecords \cup {o})
  BY <1>1 DEF GoesOn, ImportRecords
<1>6. Len(new) = l + 1 /\ (\A k \in 1 .. l : new[k] = old[k]) /\ new[l + 1] = o
  BY <1>2, <1>4, <1>5, AppendProperties
<1>7. \A k : k \in Done(j) <=> k \in 1 .. l + 1 /\ new[k].status = "imported"
  BY <1>1, <1>6 DEF Done
<1>8. \A k : k \in Done(i) <=> k \in 1 .. l /\ old[k].status = "imported"
  BY <1>1, <1>2 DEF Done
<1>9. o.status = "imported" => Done(j) = Done(i) \cup {l + 1}
  BY <1>6, <1>7, <1>8
<1>10. o.status # "imported" => Done(j) = Done(i)
  <2>1. o.status # "imported" => \A k : k \in Done(j) <=> k \in Done(i)
    BY <1>6, <1>7, <1>8
  <2> QED BY <2>1
<1>11. Clean(j) => Clean(i) /\ o.status # "failed"
  <2> SUFFICES ASSUME Clean(j) PROVE Clean(i) /\ o.status # "failed"
    OBVIOUS
  <2>1. \A k \in 1 .. l + 1 : new[k].status # "failed"
    BY <1>1, <1>6 DEF Clean
  <2>2. \A k \in 1 .. l : old[k].status # "failed"
    BY <1>6, <2>1
  <2>3. Clean(i)
    BY <1>1, <1>2, <2>2 DEF Clean
  <2> QED BY <1>6, <2>1, <2>3
<1>12. Len(i.outcomes) = l /\ j.outcomes = new /\ i.outcomes = old
  BY <1>1, <1>2
<1>13. /\ Len(j.outcomes) = i.index /\ i.index \in Nat \ {0} /\ j.outcomes[i.index] = o
       /\ \A k \in 1 .. Len(j.outcomes) : k \in 1 .. Len(i.outcomes) \/ k = i.index
       /\ \A k \in 1 .. Len(i.outcomes) : j.outcomes[k] = i.outcomes[k] /\ k # i.index
  BY <1>3, <1>6, <1>12
<1> QED BY <1>3, <1>9, <1>10, <1>11, <1>13

\* An outcome that neither reports nor hides an entry leaves the rest as it is.
LEMMA PassedRecord ==
  ASSUME NEW s \in Stores, NEW c, NEW i, NEW o, NEW j, GoesOn(i, o, j),
         ImportInv(s, c, i), o.status # "imported",
         j.sequence = i.sequence, j.last = i.last,
         Clean(i) /\ o.status = "duplicate" =>
           \E m \in 1 .. Len(s) : s[m].record.key = i.batch[i.index].key /\ s[m].id = o.event
  PROVE  ImportInv(s, c, j)
<1>1. Len(i.outcomes) = i.index - 1
  BY DEF ImportInv, GoesOn
<1>2. PICK own : own = Own(s, c, i)
  OBVIOUS
<1>3. Own(s, c, j) = own
  BY <1>2 DEF Own, GoesOn
<1>4. Len(j.outcomes) = j.index - 1 /\ Done(j) = Done(i)
  <2>1. Len(j.outcomes) = i.index /\ i.index \in Nat
    BY <1>1, OneOutcomeMore
  <2>2. Done(j) = Done(i)
    BY <1>1, OneOutcomeMore
  <2> QED BY <2>1, <2>2 DEF GoesOn
<1>5. ASSUME Clean(j) PROVE Whole(s, c, j) /\ Ready(s, j, own)
  <2>1. Clean(i) /\ Whole(s, c, i) /\ Ready(s, i, own)
    <3>1. Clean(i)
      BY <1>1, <1>5, OneOutcomeMore
    <3> QED BY <1>2, <3>1 DEF ImportInv, GoesOn
  <2>2. Together(s, own) /\ Listed(s, c, i, own)
    BY <1>2, <2>1 DEF Whole
  <2>3. \A k \in Done(j) : k \in 1 .. Len(i.outcomes) /\ j.outcomes[k] = i.outcomes[k]
    BY <1>1, <1>4, OneOutcomeMore DEF Done
  <2>4. ASSUME NEW k \in 1 .. Len(j.outcomes), j.outcomes[k].status = "duplicate"
        PROVE  \E m \in 1 .. Len(s) : s[m].record.key = j.batch[k].key
                                      /\ s[m].id = j.outcomes[k].event
    <3>1. CASE k = i.index
      BY <1>1, <2>1, <2>4, <3>1, OneOutcomeMore DEF GoesOn
    <3>2. CASE k \in 1 .. Len(i.outcomes)
      BY <1>1, <2>2, <2>4, <3>2, OneOutcomeMore DEF GoesOn, Listed
    <3> QED BY <1>1, <3>1, <3>2, OneOutcomeMore
  <2>5. Listed(s, c, j, own)
    <3>1. j.attempt = i.attempt /\ j.batch = i.batch
      BY DEF GoesOn
    <3>2. \A k \in Done(j) : /\ j.outcomes[k].event = <<c, j.attempt, k>>
                              /\ \E n \in own : s[n].id = j.outcomes[k].event
      BY <1>4, <2>2, <2>3, <3>1 DEF Listed
    <3>3. Cardinality(own) = Cardinality(Done(j))
      BY <1>4, <2>2 DEF Listed
    <3>4. \A n \in own : s[n].id[3] \in Done(j) /\ s[n].record = j.batch[s[n].id[3]]
      BY <1>4, <2>2, <3>1 DEF Listed
    <3> QED BY <2>4, <3>2, <3>3, <3>4 DEF Listed
  <2>6. Ready(s, j, own)
    BY <2>1 DEF Ready, GoesOn
  <2> QED BY <1>3, <2>2, <2>5, <2>6 DEF Whole
<1>6. j.at = "importing" /\ j.result # "result" /\ j.attempt = i.attempt /\ j.result = "none"
  BY DEF ImportInv, GoesOn
<1>7. j.base <= Len(s)
  BY DEF ImportInv, GoesOn
<1> QED BY <1>3, <1>4, <1>5, <1>6, <1>7 DEF ImportInv

\* After an append that failed nothing is claimed any more.
LEMMA FailedRecord ==
  ASSUME NEW s \in Stores, NEW t \in Stores, NEW c, NEW i, NEW o, NEW j, GoesOn(i, o, j),
         ImportInv(s, c, i), o.status = "failed",
         \/ t = s
         \/ \E e : Extended(s, e, t) /\ e.id[1] = c /\ e.id[2] = i.attempt
  PROVE  ImportInv(t, c, j)
<1>1. Len(i.outcomes) = i.index - 1
  BY DEF ImportInv, GoesOn
<1>2. Len(j.outcomes) = j.index - 1 /\ ~Clean(j)
  <2>1. Len(j.outcomes) = i.index /\ i.index \in Nat
    BY <1>1, OneOutcomeMore
  <2>2. ~Clean(j)
    BY <1>1, OneOutcomeMore
  <2> QED BY <2>1, <2>2 DEF GoesOn
<1>3. \A n \in 1 .. Len(t) : t[n].id[1] = c => t[n].id[2] <= i.attempt
  <2>1. CASE t = s
    BY <2>1 DEF ImportInv
  <2>2. CASE \E e : Extended(s, e, t) /\ e.id[1] = c /\ e.id[2] = i.attempt
    <3>1. PICK e : Extended(s, e, t) /\ e.id[1] = c /\ e.id[2] = i.attempt
      BY <2>2
    <3>2. i.attempt \in Nat
      BY DEF GoesOn, ImportRecords
    <3> QED BY <3>1, <3>2 DEF Extended, ImportInv
  <2> QED BY <2>1, <2>2
<1>4. j.at = "importing" /\ j.attempt = i.attempt /\ j.result = "none"
  BY DEF ImportInv, GoesOn
<1>5. j.base <= Len(t)
  <2>1. i.base <= Len(s) /\ j.base = i.base /\ i.base \in Nat
    BY DEF ImportInv, GoesOn, ImportRecords
  <2> QED BY <2>1 DEF Extended
<1> QED BY <1>2, <1>3, <1>4, <1>5 DEF ImportInv

----------------------------------------------------------------------------
(***************************************************************************)
(* A record is appended.  The journal accepted the event, so the store is  *)
(* as long as the normalizer has counted: nobody appended behind what was  *)
(* scanned and what the import made.                                       *)
(***************************************************************************)
Appended(s, e, t, c, i, o, j) ==
  /\ Extended(s, e, t)
  /\ GoesOn(i, o, j)
  /\ o.status = "imported" /\ o.event = e.id
  /\ e.id = <<c, i.attempt, i.index>>
  /\ e.record = i.batch[i.index] /\ e.parent = i.last
  /\ i.sequence = Len(s) /\ j.sequence = i.sequence + 1 /\ j.last = e.id
  /\ \A n \in 1 .. i.base : s[n].key # e.record.key
  /\ \A k \in Done(i) : i.batch[k].key # e.record.key

LEMMA OwnWithAppended ==
  ASSUME NEW s, NEW e, NEW t, NEW c, NEW i, NEW o, NEW j, Appended(s, e, t, c, i, o, j)
  PROVE  /\ Own(t, c, j) = Own(s, c, i) \cup {Len(s) + 1}
         /\ Own(s, c, i) \subseteq 1 .. Len(s) /\ Len(s) \in Nat
         /\ \A n \in Own(s, c, i) : t[n] = s[n]
         /\ t[Len(s) + 1] = e /\ Len(s) + 1 \notin Own(s, c, i)
<1>1. Len(s) \in Nat /\ Len(t) = Len(s) + 1 /\ t[Len(s) + 1] = e
  BY DEF Appended, Extended
<1>2. \A n \in 1 .. Len(s) : t[n] = s[n]
  BY DEF Appended, Extended
<1>3. e.id[1] = c /\ e.id[2] = i.attempt /\ j.attempt = i.attempt
  BY DEF Appended, GoesOn
<1>4. \A n : n \in Own(t, c, j) <=> n \in Own(s, c, i) \cup {Len(s) + 1}
  BY <1>1, <1>2, <1>3 DEF Own
<1>5. Own(t, c, j) = Own(s, c, i) \cup {Len(s) + 1}
  BY <1>4
<1> QED BY <1>1, <1>2, <1>5 DEF Own

LEMMA AppendedIsTogether ==
  ASSUME NEW s \in Stores, NEW e, NEW t, NEW c, NEW i, NEW o, NEW j,
         Appended(s, e, t, c, i, o, j),
         Whole(s, c, i), Ready(s, i, Own(s, c, i))
  PROVE  Together(t, Own(t, c, j))
<1>1. PICK own, N : own = Own(s, c, i) /\ N = Len(s)
  OBVIOUS
<1>2. /\ Own(t, c, j) = own \cup {N + 1} /\ own \subseteq 1 .. N /\ N \in Nat
      /\ \A n \in own : t[n] = s[n]
      /\ t[N + 1] = e
  BY <1>1, OwnWithAppended
<1>3. Together(s, own) /\ Listed(s, c, i, own) /\ Ready(s, i, own)
  BY <1>1 DEF Whole
<1>4. i.sequence = N /\ (\A n \in 1 .. N : t[n] = s[n]) /\ i.base \in Nat
  BY <1>1 DEF Appended, Extended, GoesOn, ImportRecords
<1>5. ASSUME NEW m \in own \cup {N + 1}, NEW n \in own \cup {N + 1}, NEW k \in m .. n
      PROVE  k \in own \cup {N + 1}
  <2>1. CASE n \in own
    <3>1. m \in own
      BY <1>2, <2>1, m <= k, k <= n
    <3> QED BY <1>3, <2>1, <3>1 DEF Together
  <2>2. CASE n = N + 1 /\ k # N + 1
    <3>1. m \in own /\ k \in m .. N
      BY <1>2, <2>2
    <3>2. N \in own
      BY <1>3, <1>4, <3>1 DEF Ready
    <3> QED BY <1>3, <3>1, <3>2 DEF Together
  <2> QED BY <2>1, <2>2
<1>6. ASSUME NEW n \in own \cup {N + 1}, NEW m \in 1 .. n - 1
      PROVE  t[m].record.key # t[n].record.key
  <2>1. CASE n \in own
    <3>1. m \in 1 .. N
      BY <1>2, <2>1
    <3> QED BY <1>2, <1>3, <1>4, <2>1, <3>1 DEF Together
  <2>2. CASE n = N + 1
    <3>1. m \in 1 .. N /\ m \in 1 .. i.sequence
      BY <1>2, <1>4, <2>2
    <3>2. t[m] = s[m] /\ t[n] = e
      BY <1>2, <1>4, <2>2, <3>1
    <3>3. CASE m <= i.base
      <4>1. m \in 1 .. i.base
        BY <1>4, <3>1, <3>3
      <4>2. s[m].key # e.record.key
        BY <4>1 DEF Appended
      <4>3. s[m].key = s[m].record.key
        BY <1>1, <3>1 DEF Stores
      <4> QED BY <3>2, <4>2, <4>3
    <3>4. CASE m \in own
      <4>1. s[m].id[3] \in Done(i) /\ s[m].record = i.batch[s[m].id[3]]
        BY <1>3, <3>4 DEF Listed
      <4>2. s[m].record.key # e.record.key
        BY <4>1 DEF Appended
      <4> QED BY <3>2, <4>2
    <3> QED BY <1>3, <3>1, <3>3, <3>4 DEF Ready
  <2> QED BY <2>1, <2>2
<1>7. ASSUME NEW n \in own \cup {N + 1}, t[n].parent # Null
      PROVE  \E m \in 1 .. n - 1 : t[m].id = t[n].parent
  <2>1. CASE n \in own
    <3>1. PICK m \in 1 .. n - 1 : s[m].id = s[n].parent
      BY <1>2, <1>3, <1>7, <2>1 DEF Together
    <3>2. m \in 1 .. N
      BY <1>2, <2>1
    <3> QED BY <1>2, <1>4, <2>1, <3>1, <3>2
  <2>2. CASE n = N + 1
    <3>1. t[n].parent = i.last
      BY <1>2, <2>2 DEF Appended
    <3>2. N \in own /\ s[N].id = i.last
      BY <1>3, <1>4, <1>7, <3>1 DEF Ready
    <3>3. N \in 1 .. n - 1 /\ t[N] = s[N]
      BY <1>2, <2>2, <3>2
    <3> QED BY <3>1, <3>2, <3>3
  <2> QED BY <2>1, <2>2
<1> QED BY <1>2, <1>5, <1>6, <1>7 DEF Together

LEMMA AppendedIsListed ==
  ASSUME NEW s \in Stores, NEW e, NEW t, NEW c, NEW i, NEW o, NEW j,
         Appended(s, e, t, c, i, o, j), Len(i.outcomes) = i.index - 1,
         Listed(s, c, i, Own(s, c, i))
  PROVE  Listed(t, c, j, Own(t, c, j))
<1>1. PICK own, new, N : own = Own(s, c, i) /\ N = Len(s) /\ new = Own(t, c, j)
  OBVIOUS
<1>2. /\ new = own \cup {N + 1} /\ own \subseteq 1 .. N /\ N \in Nat
      /\ \A n \in own : t[n] = s[n]
      /\ t[N + 1] = e /\ N + 1 \notin own
  BY <1>1, OwnWithAppended
<1>3. Listed(s, c, i, own)
  BY <1>1
<1>4. GoesOn(i, o, j) /\ o.status = "imported"
  BY DEF Appended
<1>5. Done(j) = Done(i) \cup {i.index} /\ i.index \notin Done(i)
  BY <1>4, OneOutcomeMore DEF Done
<1>6. ASSUME NEW k \in Done(j)
      PROVE  /\ j.outcomes[k].event = <<c, j.attempt, k>>
             /\ \E n \in new : t[n].id = j.outcomes[k].event
  <2>1. CASE k = i.index
    <3>1. j.outcomes[k] = o
      BY <1>4, <2>1, OneOutcomeMore
    <3>2. o.event = e.id /\ e.id = <<c, j.attempt, k>>
      BY <2>1 DEF Appended, GoesOn
    <3> QED BY <1>2, <3>1, <3>2
  <2>2. CASE k \in Done(i)
    <3>1. j.outcomes[k] = i.outcomes[k] /\ j.attempt = i.attempt
      BY <1>4, <2>2, OneOutcomeMore DEF Done, GoesOn
    <3> QED BY <1>2, <1>3, <2>2, <3>1 DEF Listed
  <2> QED BY <1>5, <2>1, <2>2
<1>7. Cardinality(new) = Cardinality(Done(j))
  <2>1. IsFiniteSet(own) /\ IsFiniteSet(Done(i))
    <3>1. i.outcomes \in Seq(OutcomeRecords)
      BY <1>4 DEF GoesOn, ImportRecords
    <3>2. Len(i.outcomes) \in Nat
      BY <3>1, LenProperties
    <3>3. IsFiniteSet(1 .. N)
      BY <1>2, FS_Interval
    <3>4. IsFiniteSet(1 .. Len(i.outcomes))
      BY <3>2, FS_Interval
    <3> QED BY <1>2, <3>3, <3>4, FS_Subset DEF Done
  <2>2. Cardinality(new) = Cardinality(own) + 1
    BY <1>2, <2>1, FS_AddElement
  <2>3. Cardinality(Done(j)) = Cardinality(Done(i)) + 1
    BY <1>5, <2>1, FS_AddElement
  <2> QED BY <1>3, <2>2, <2>3 DEF Listed
<1>8. ASSUME NEW n \in new
      PROVE  t[n].id[3] \in Done(j) /\ t[n].record = j.batch[t[n].id[3]]
  <2>1. CASE n \in own
    BY <1>2, <1>3, <1>4, <1>5, <2>1 DEF Listed, GoesOn
  <2>2. CASE n = N + 1
    <3>1. e.id[3] = i.index
      BY DEF Appended
    <3>2. e.record = j.batch[i.index]
      BY DEF Appended, GoesOn
    <3> QED BY <1>2, <1>5, <2>2, <3>1, <3>2
  <2> QED BY <1>2, <2>1, <2>2
<1>9. ASSUME NEW k \in 1 .. Len(j.outcomes), j.outcomes[k].status = "duplicate"
      PROVE  \E m \in 1 .. Len(t) : t[m].record.key = j.batch[k].key
                                    /\ t[m].id = j.outcomes[k].event
  <2>1. k # i.index
    BY <1>4, <1>9, OneOutcomeMore
  <2>2. k \in 1 .. Len(i.outcomes) /\ j.outcomes[k] = i.outcomes[k]
    BY <1>4, <2>1, OneOutcomeMore
  <2>3. PICK m \in 1 .. Len(s) : s[m].record.key = i.batch[k].key
                                 /\ s[m].id = i.outcomes[k].event
    BY <1>3, <1>9, <2>2 DEF Listed
  <2>4. m \in 1 .. Len(t) /\ t[m] = s[m]
    BY DEF Appended, Extended
  <2> QED BY <1>4, <2>2, <2>3, <2>4 DEF GoesOn
<1>10. Listed(t, c, j, new)
  BY <1>6, <1>7, <1>8, <1>9 DEF Listed
<1> QED BY <1>1, <1>10

LEMMA ImportedRecord ==
  ASSUME NEW s \in Stores, NEW e, NEW t, NEW c, NEW i, NEW o, NEW j,
         Appended(s, e, t, c, i, o, j), ImportInv(s, c, i)
  PROVE  ImportInv(t, c, j)
<1>1. Len(i.outcomes) = i.index - 1 /\ GoesOn(i, o, j)
  BY DEF ImportInv, Appended, GoesOn
<1>2. Len(j.outcomes) = j.index - 1
  <2>1. Len(j.outcomes) = i.index /\ i.index \in Nat
    BY <1>1, OneOutcomeMore
  <2> QED BY <1>1, <2>1 DEF GoesOn
<1>3. \A n \in 1 .. Len(t) : t[n].id[1] = c => t[n].id[2] <= j.attempt
  <2>1. e.id[2] = i.attempt /\ j.attempt = i.attempt /\ i.attempt \in Nat
    BY <1>1 DEF Appended, GoesOn, ImportRecords
  <2>2. /\ \A n \in 1 .. Len(t) : n \in 1 .. Len(s) \/ n = Len(s) + 1
        /\ \A n \in 1 .. Len(s) : t[n] = s[n]
        /\ t[Len(s) + 1] = e
    BY DEF Appended, Extended
  <2>3. \A n \in 1 .. Len(s) : s[n].id[1] = c => s[n].id[2] <= i.attempt
    BY DEF ImportInv
  <2> QED BY <2>1, <2>2, <2>3
<1>4. ASSUME Clean(j) PROVE Whole(t, c, j) /\ Ready(t, j, Own(t, c, j))
  <2>1. Whole(s, c, i) /\ Ready(s, i, Own(s, c, i))
    BY <1>1, <1>4, OneOutcomeMore DEF ImportInv, GoesOn
  <2>2. Whole(t, c, j)
    BY <1>1, <2>1, AppendedIsTogether, AppendedIsListed DEF Whole
  <2>3. PICK own, new, N : own = Own(s, c, i) /\ N = Len(s) /\ new = Own(t, c, j)
    OBVIOUS
  <2>4. new = own \cup {N + 1} /\ own \subseteq 1 .. N /\ N \in Nat /\ t[N + 1] = e
    BY <2>3, OwnWithAppended
  <2>5. /\ i.sequence = N /\ j.sequence = N + 1 /\ j.base = i.base /\ j.last = e.id
        /\ Len(t) = N + 1 /\ i.base \in Nat
    BY <2>3 DEF Appended, Extended, GoesOn, ImportRecords
  <2>6. Ready(t, j, new)
    BY <2>1, <2>3, <2>4, <2>5 DEF Ready
  <2> QED BY <2>2, <2>3, <2>6
<1>5. j.at = "importing" /\ j.result = "none"
  BY <1>1 DEF ImportInv, GoesOn
<1>6. j.base <= Len(t)
  <2>1. i.base <= Len(s) /\ j.base = i.base /\ i.base \in Nat
    BY <1>1 DEF ImportInv, GoesOn, ImportRecords
  <2> QED BY <2>1 DEF Appended, Extended
<1> QED BY <1>2, <1>3, <1>4, <1>5, <1>6 DEF ImportInv

----------------------------------------------------------------------------
(***************************************************************************)
(* The steps of a client.                                                  *)
(***************************************************************************)
BatchAct(c) ==
  \/ CallImport(c) \/ ScanKeys(c) \/ StopUnhashable(c) \/ AnswerKnown(c)
  \/ RejectMalformed(c) \/ AppendNext(c) \/ AppendFails(c) \/ StopUnredactable(c)
  \/ ReturnOutcomes(c) \/ Dies(c)

\* What is proved of each: only the client's own entry may come behind the store,
\* and the client's import keeps its invariant.
Kept(c) ==
  /\ store' \in Stores
  /\ store' = store \/ \E e : Extended(store, e, store') /\ e.id[1] = c
  /\ imports' \in [Clients -> ImportRecords]
  /\ \A d \in Clients \ {c} : imports'[d] = imports[d]
  /\ ImportInv(store', c, imports'[c])

LEMMA BecomesKept ==
  ASSUME BatchTypeOK, NEW c \in Clients, NEW j \in ImportRecords, Becomes(c, j),
         store' \in Stores,
         store' = store \/ \E e : Extended(store, e, store') /\ e.id[1] = c,
         ImportInv(store', c, j)
  PROVE  Kept(c)
<1>1. /\ imports' \in [Clients -> ImportRecords]
      /\ imports'[c] = j /\ \A d \in Clients \ {c} : imports'[d] = imports[d]
  BY DEF BatchTypeOK, Becomes
<1>2. ImportInv(store', c, imports'[c])
  BY <1>1
<1> QED BY <1>1, <1>2 DEF Kept

LEMMA ItsEntryShape ==
  ASSUME KeysArePersisted, BatchTypeOK, NEW c \in Clients, AtRecord(c)
  PROVE  /\ imports[c] \in ImportRecords /\ imports[c].at = "importing"
         /\ ItsRecord(c) \in Records /\ ItsRecord(c) = imports[c].batch[imports[c].index]
         /\ ItsEventId(c) \in Ids
         /\ ItsEventId(c) = <<c, imports[c].attempt, imports[c].index>>
         /\ ItsEntry(c) \in Entries /\ ItsEntry(c).key = ItsEntry(c).record.key
         /\ ItsEntry(c).id = ItsEventId(c) /\ ItsEntry(c).record = ItsRecord(c)
         /\ ItsEntry(c).parent = imports[c].last
<1>1. PICK i \in ImportRecords : i = imports[c]
  BY DEF BatchTypeOK
<1>2. i.at = "importing" /\ i.index <= Len(i.batch)
  BY <1>1 DEF AtRecord, Imp
<1>3. i.batch \in Seq(Records) /\ i.index \in Nat \ {0} /\ i.attempt \in Nat
      /\ i.last \in Ids \cup {Null}
  BY DEF ImportRecords
<1>4. i.index \in 1 .. Len(i.batch)
  BY <1>2, <1>3, LenProperties
<1>5. ItsRecord(c) \in Records /\ ItsRecord(c) = i.batch[i.index]
  BY <1>1, <1>3, <1>4, ElementOfSeq DEF ItsRecord, Imp
<1>6. ItsEventId(c) = <<c, i.attempt, i.index>> /\ ItsEventId(c) \in Ids
  BY <1>1, <1>3 DEF ItsEventId, Imp, Ids
<1>7. PersistedKey(ItsRecord(c).key) = ItsRecord(c).key /\ ItsRecord(c).key \in Keys
  BY <1>5, RecordShape DEF PersistedKey, KeysArePersisted
<1>8. PICK e : e = ItsEntry(c)
  OBVIOUS
<1>9. e = [key |-> ItsRecord(c).key, print |-> ItsRecord(c), id |-> ItsEventId(c),
           parent |-> i.last, record |-> ItsRecord(c)]
  BY <1>1, <1>7, <1>8 DEF ItsEntry, Entry, Imp
<1>10. e \in Entries
  BY <1>3, <1>5, <1>6, <1>7, <1>9 DEF Entries
<1> QED BY <1>1, <1>2, <1>5, <1>6, <1>8, <1>9, <1>10

LEMMA StoreIds ==
  ASSUME BatchTypeOK, NEW n \in 1 .. Len(store)
  PROVE  store[n] \in Entries /\ store[n].id \in Ids /\ store[n].id[2] \in Nat
<1>1. store[n] \in Entries
  BY ElementOfSeq DEF BatchTypeOK, Stores
<1> QED BY <1>1 DEF Entries, Ids

LEMMA CallKeeps ==
  ASSUME BatchTypeOK, ImportsInv, NEW c \in Clients, CallImport(c)
  PROVE  Kept(c)
<1>1. PICK i \in ImportRecords : i = imports[c] /\ ImportInv(store, c, i)
  BY DEF BatchTypeOK, ImportsInv
<1>2. PICK b \in IF i.attempt = 0 THEN Batches ELSE {i.batch},
           start \in {[existing |-> FALSE, at |-> 0], [existing |-> TRUE, at |-> 0],
                      [existing |-> TRUE, at |-> Len(store)]} :
        Becomes(c, [Idle EXCEPT !.at = "called", !.batch = b, !.attempt = i.attempt + 1,
                                !.existing = start.existing, !.sequence = start.at])
  BY <1>1 DEF CallImport, Imp
<1>3. PICK x, at : x = start.existing /\ at = start.at
  OBVIOUS
<1>4. PICK j : j = [Idle EXCEPT !.at = "called", !.batch = b, !.attempt = i.attempt + 1,
                                !.existing = x, !.sequence = at]
  OBVIOUS
<1>5. b \in Seq(Records) /\ i.attempt \in Nat
  BY BatchesAssumption DEF ImportRecords
<1>6. Len(store) \in Nat
  BY LenProperties DEF BatchTypeOK, Stores
<1>7. x \in BOOLEAN /\ at \in Nat /\ at <= IF x THEN Len(store) ELSE 0
  <2>1. CASE start = [existing |-> FALSE, at |-> 0]
    <3>1. x = FALSE /\ at = 0
      BY <1>3, <2>1
    <3>2. at <= IF x THEN Len(store) ELSE 0
      BY <1>6, <3>1
    <3> QED BY <3>1, <3>2
  <2>2. CASE start = [existing |-> TRUE, at |-> 0]
    <3>1. x = TRUE /\ at = 0
      BY <1>3, <2>2
    <3>2. 0 <= Len(store)
      BY <1>6
    <3> QED BY <3>1, <3>2
  <2>3. CASE start = [existing |-> TRUE, at |-> Len(store)]
    <3>1. PICK l \in Nat : l = Len(store)
      BY <1>6
    <3>2. x = TRUE /\ at = l /\ l <= l
      BY <1>3, <2>3, <3>1
    <3> QED BY <3>1, <3>2
  <2> QED BY <2>1, <2>2, <2>3
<1>8. Becomes(c, j)
  BY <1>2, <1>3, <1>4
<1>9. /\ j \in ImportRecords
      /\ j.at = "called" /\ j.attempt = i.attempt + 1 /\ j.existing = x /\ j.sequence = at
      /\ j.index = 1 /\ j.last = Null /\ j.outcomes = << >> /\ j.result = "none"
  <2>1. Idle \in ImportRecords
    <3>1. << >> \in Seq(Records) /\ << >> \in Seq(OutcomeRecords)
      BY EmptySeq
    <3> QED BY <3>1 DEF Idle, ImportRecords, Places, Kinds
  <2>2. PICK k \in ImportRecords : k = Idle
    BY <2>1
  <2>3. k.index = 1 /\ k.last = Null /\ k.outcomes = << >> /\ k.result = "none"
    BY <2>2 DEF Idle
  <2>4. PICK n \in Nat : n = i.attempt + 1
    BY <1>5
  <2>5. j = [k EXCEPT !.at = "called", !.batch = b, !.attempt = n, !.existing = x, !.sequence = at]
    BY <1>4, <2>2, <2>4
  <2>6. j \in ImportRecords
    BY <1>5, <1>7, <2>5 DEF ImportRecords, Places
  <2>7. /\ j.at = "called" /\ j.attempt = n /\ j.existing = x /\ j.sequence = at
        /\ j.index = k.index /\ j.last = k.last /\ j.outcomes = k.outcomes
        /\ j.result = k.result
    BY <2>5 DEF ImportRecords
  <2> QED BY <2>3, <2>4, <2>6, <2>7
<1>10. Fresh(store, c, j)
  <2>1. \A n \in 1 .. Len(store) : store[n].id[1] = c =>
          store[n].id[2] <= i.attempt /\ store[n].id[2] \in Nat
    BY <1>1, StoreIds DEF ImportInv
  <2>2. \A n \in 1 .. Len(store) : store[n].id[1] = c => store[n].id[2] < j.attempt
    BY <1>5, <1>9, <2>1
  <2> QED BY <1>7, <1>9, <2>2 DEF Fresh
<1>11. \A n \in 1 .. Len(store) : store[n].id[1] = c => store[n].id[2] <= j.attempt
  BY <1>5, <1>9, <1>10, StoreIds DEF Fresh
<1>12. ImportInv(store, c, j)
  BY <1>9, <1>10, <1>11 DEF ImportInv
<1>13. UNCHANGED store /\ store' \in Stores
  BY DEF CallImport, BatchTypeOK
<1>14. ImportInv(store', c, j)
  BY <1>12, <1>13
<1> QED BY <1>8, <1>9, <1>13, <1>14, BecomesKept

LEMMA ScanKeeps ==
  ASSUME BatchTypeOK, ImportsInv, NEW c \in Clients, ScanKeys(c)
  PROVE  Kept(c)
<1>1. PICK i \in ImportRecords : i = imports[c] /\ ImportInv(store, c, i)
  BY DEF BatchTypeOK, ImportsInv
<1>2. Fresh(store, c, i) /\ i.at = "called" /\ i.result = "none"
  BY <1>1 DEF ImportInv, ScanKeys, Imp
<1>3. PICK s \in Stores : s = store /\ Len(s) \in Nat
  BY LenProperties DEF BatchTypeOK, Stores
<1>4. UNCHANGED store /\ store' \in Stores
  BY DEF ScanKeys, BatchTypeOK
<1>5. CASE i.existing /\ cut
  <2>1. PICK j : j = [i EXCEPT !.at = "idle", !.result = "journal_error"]
    OBVIOUS
  <2>2. Becomes(c, j)
    BY <1>1, <1>5, <2>1 DEF ScanKeys, Imp
  <2>3. j \in ImportRecords
    BY <2>1 DEF ImportRecords, Places, Kinds
  <2>4. j.at = "idle" /\ j.result = "journal_error" /\ j.attempt = i.attempt
    BY <2>1 DEF ImportRecords
  <2>5. ImportInv(store, c, j)
    BY <1>1, <2>4 DEF ImportInv
  <2>6. ImportInv(store', c, j)
    BY <1>4, <2>5
  <2> QED BY <1>4, <2>2, <2>3, <2>6, BecomesKept
<1>6. CASE ~(i.existing /\ cut)
  <2>1. PICK j : j = [i EXCEPT !.at = "importing", !.base = IF i.existing THEN Len(s) ELSE 0]
    OBVIOUS
  <2>2. Becomes(c, j)
    BY <1>1, <1>3, <1>6, <2>1 DEF ScanKeys, Imp
  <2>3. j \in ImportRecords
    BY <1>3, <2>1 DEF ImportRecords, Places
  <2>4. /\ j.at = "importing" /\ j.base = IF i.existing THEN Len(s) ELSE 0
        /\ j.result = "none" /\ j.attempt = i.attempt /\ j.index = 1 /\ j.outcomes = << >>
        /\ j.last = Null /\ j.sequence = i.sequence
    BY <1>2, <2>1 DEF ImportRecords, Fresh
  <2>5. i.sequence \in Nat /\ i.attempt \in Nat /\ i.existing \in BOOLEAN
    BY DEF ImportRecords
  <2>6. Len(j.outcomes) = 0 /\ Done(j) = {}
    BY <2>4 DEF Done
  <2>7. Own(s, c, j) = {}
    BY <1>2, <1>3, <2>4, <2>5 DEF Own, Fresh
  <2>8. Whole(s, c, j)
    <3>1. Cardinality(Own(s, c, j)) = Cardinality(Done(j))
      BY <2>6, <2>7
    <3> QED BY <2>6, <2>7, <3>1 DEF Whole, Together, Listed
  <2>9. Ready(s, j, Own(s, c, j))
    BY <1>2, <1>3, <2>4, <2>5, <2>7 DEF Ready, Fresh
  <2>10. ImportInv(s, c, j)
    BY <1>1, <1>3, <2>4, <2>6, <2>8, <2>9 DEF ImportInv
  <2>11. ImportInv(store', c, j)
    BY <1>3, <1>4, <2>10
  <2> QED BY <1>4, <2>2, <2>3, <2>11, BecomesKept
<1> QED BY <1>5, <1>6

\* The import returns its outcomes, raises or dies, and the store is left alone.
LEMMA EndKeeps ==
  ASSUME BatchTypeOK, ImportsInv, NEW c \in Clients, NEW j \in ImportRecords,
         Becomes(c, j), UNCHANGED store, j.at = "idle", j.attempt = imports[c].attempt,
         j.result = "result" =>
           /\ j.batch = imports[c].batch /\ j.outcomes = imports[c].outcomes
           /\ imports[c].at = "importing"
  PROVE  Kept(c)
<1>1. PICK i \in ImportRecords : i = imports[c] /\ ImportInv(store, c, i)
  BY DEF BatchTypeOK, ImportsInv
<1>2. PICK s \in Stores : s = store
  BY DEF BatchTypeOK
<1>3. ASSUME j.result = "result", Clean(j) PROVE Whole(s, c, j)
  <2>1. j.batch = i.batch /\ j.outcomes = i.outcomes /\ i.at = "importing"
        /\ j.attempt = i.attempt
    BY <1>1, <1>3
  <2>2. Whole(s, c, i)
    <3>1. Clean(i)
      BY <1>3, <2>1 DEF Clean
    <3> QED BY <1>1, <1>2, <2>1, <3>1 DEF ImportInv
  <2>3. Own(s, c, j) = Own(s, c, i) /\ Done(j) = Done(i)
    BY <2>1 DEF Own, Done
  <2> QED BY <2>1, <2>2, <2>3 DEF Whole, Listed
<1>4. ImportInv(s, c, j)
  BY <1>1, <1>2, <1>3 DEF ImportInv
<1>5. ImportInv(store', c, j) /\ store' \in Stores
  BY <1>2, <1>4
<1> QED BY <1>5, BecomesKept

LEMMA EndingsKeep ==
  ASSUME BatchTypeOK, ImportsInv, NEW c \in Clients,
         \/ StopUnhashable(c) \/ StopUnredactable(c) \/ ReturnOutcomes(c) \/ Dies(c)
  PROVE  Kept(c)
<1>1. PICK i \in ImportRecords : i = imports[c] /\ ImportInv(store, c, i)
  BY DEF BatchTypeOK, ImportsInv
<1>2. CASE StopUnhashable(c)
  <2>1. PICK j : j = [i EXCEPT !.at = "idle", !.result = "value_error"]
    OBVIOUS
  <2>2. Becomes(c, j) /\ UNCHANGED store
    BY <1>1, <1>2, <2>1 DEF StopUnhashable, Imp
  <2>3. /\ j \in ImportRecords /\ j.at = "idle" /\ j.attempt = i.attempt
        /\ j.result = "value_error"
    BY <2>1 DEF ImportRecords, Places, Kinds
  <2> QED BY <1>1, <2>2, <2>3, EndKeeps
<1>3. CASE StopUnredactable(c)
  <2>1. AtRecord(c)
    BY <1>3 DEF StopUnredactable, NewRecord
  <2>2. PICK e : e = ItsEventId(c)
    OBVIOUS
  <2>3. e \in Ids
    <3>1. i.attempt \in Nat /\ i.index \in Nat
      BY DEF ImportRecords
    <3> QED BY <1>1, <2>2, <3>1 DEF ItsEventId, Imp, Ids
  <2>4. PICK k : k = [i EXCEPT !.sequence = i.sequence + 1, !.last = e]
    OBVIOUS
  <2>5. PICK j : j = [k EXCEPT !.at = "idle", !.result = "redaction_error"]
    OBVIOUS
  <2>6. k = Normalized(c)
    BY <1>1, <2>2, <2>4 DEF Normalized, Imp
  <2>7. Becomes(c, j) /\ UNCHANGED store
    BY <1>3, <2>5, <2>6 DEF StopUnredactable
  <2>8. k \in ImportRecords /\ k.attempt = i.attempt
    <3>1. PICK n \in Nat : n = i.sequence + 1
      BY DEF ImportRecords
    <3>2. k = [i EXCEPT !.sequence = n, !.last = e]
      BY <2>4, <3>1
    <3> QED BY <2>3, <3>2 DEF ImportRecords
  <2>9. /\ j \in ImportRecords /\ j.at = "idle" /\ j.attempt = i.attempt
        /\ j.result = "redaction_error"
    BY <2>5, <2>8 DEF ImportRecords, Places, Kinds
  <2> QED BY <1>1, <2>7, <2>9, EndKeeps
<1>4. CASE ReturnOutcomes(c)
  <2>1. PICK j : j = [i EXCEPT !.at = "idle", !.result = "result"]
    OBVIOUS
  <2>2. Becomes(c, j) /\ UNCHANGED store /\ i.at = "importing"
    BY <1>1, <1>4, <2>1 DEF ReturnOutcomes, Imp
  <2>3. /\ j \in ImportRecords /\ j.at = "idle" /\ j.attempt = i.attempt
        /\ j.batch = i.batch /\ j.outcomes = i.outcomes
    BY <2>1 DEF ImportRecords, Places, Kinds
  <2> QED BY <1>1, <2>2, <2>3, EndKeeps
<1>5. CASE Dies(c)
  <2>1. PICK j : j = [i EXCEPT !.at = "idle"]
    OBVIOUS
  <2>2. Becomes(c, j) /\ UNCHANGED store /\ i.at # "idle"
    BY <1>1, <1>5, <2>1 DEF Dies, Imp
  <2>3. j \in ImportRecords /\ j.at = "idle" /\ j.attempt = i.attempt /\ j.result = i.result
    BY <2>1 DEF ImportRecords, Places
  <2>4. j.result = "none"
    BY <1>1, <2>2, <2>3 DEF ImportInv
  <2> QED BY <1>1, <2>2, <2>3, <2>4, EndKeeps
<1> QED BY <1>2, <1>3, <1>4, <1>5

\* The import with its normalizer moved, which nothing else of it shows.
LEMMA NormalizedShape ==
  ASSUME NEW c \in Clients, NEW i \in ImportRecords, i = imports[c], ItsEventId(c) \in Ids
  PROVE  /\ Normalized(c) \in ImportRecords
         /\ Normalized(c).sequence = i.sequence + 1 /\ Normalized(c).last = ItsEventId(c)
         /\ Normalized(c).at = i.at /\ Normalized(c).batch = i.batch
         /\ Normalized(c).attempt = i.attempt /\ Normalized(c).base = i.base
         /\ Normalized(c).result = i.result /\ Normalized(c).index = i.index
         /\ Normalized(c).outcomes = i.outcomes
<1>1. PICK n \in Nat : n = i.sequence + 1
  BY DEF ImportRecords
<1>2. PICK k, e : k = Normalized(c) /\ e = ItsEventId(c)
  OBVIOUS
<1>3. k = [i EXCEPT !.sequence = n, !.last = e]
  BY <1>1, <1>2 DEF Normalized, Imp
<1>4. /\ k \in ImportRecords /\ k.sequence = n /\ k.last = e
      /\ k.at = i.at /\ k.batch = i.batch /\ k.attempt = i.attempt /\ k.base = i.base
      /\ k.result = i.result /\ k.index = i.index /\ k.outcomes = i.outcomes
  BY <1>2, <1>3 DEF ImportRecords
<1> QED BY <1>1, <1>2, <1>4

LEMMA GoOnGoesOn ==
  ASSUME NEW c \in Clients, NEW i \in ImportRecords, NEW k \in ImportRecords,
         NEW status \in Statuses, NEW event \in Ids \cup {Null},
         GoOn(c, k, status, event), i.at = "importing",
         k.at = i.at, k.batch = i.batch, k.attempt = i.attempt, k.base = i.base,
         k.result = i.result, k.index = i.index, k.outcomes = i.outcomes
  PROVE  \E j \in ImportRecords :
            /\ GoesOn(i, Outcome(status, event), j) /\ Becomes(c, j)
            /\ j.sequence = k.sequence /\ j.last = k.last
<1>1. PICK o : o = Outcome(status, event)
  OBVIOUS
<1>2. o \in OutcomeRecords
  BY <1>1 DEF Outcome, OutcomeRecords
<1>3. PICK n \in Nat \ {0} : n = k.index + 1
  BY DEF ImportRecords
<1>4. PICK new \in Seq(OutcomeRecords) : new = Append(k.outcomes, o)
  BY <1>2, AppendProperties DEF ImportRecords
<1>5. PICK j : j = [k EXCEPT !.index = n, !.outcomes = new]
  OBVIOUS
<1>6. Becomes(c, j)
  BY <1>1, <1>3, <1>4, <1>5 DEF GoOn
<1>7. /\ j \in ImportRecords /\ j.index = n /\ j.outcomes = new
      /\ j.at = k.at /\ j.batch = k.batch /\ j.attempt = k.attempt /\ j.base = k.base
      /\ j.result = k.result /\ j.sequence = k.sequence /\ j.last = k.last
  BY <1>5 DEF ImportRecords
<1>8. GoesOn(i, o, j)
  BY <1>3, <1>4, <1>7 DEF GoesOn
<1> QED BY <1>1, <1>6, <1>7, <1>8

\* A known entry is in the store under the key of the record, and has its id there.
LEMMA KnownIsHeld ==
  ASSUME BatchTypeOK, NEW c \in Clients, AtRecord(c), NEW known \in KnownEntry(c),
         NEW i \in ImportRecords, i = imports[c], ImportInv(store, c, i), Clean(i)
  PROVE  \E m \in 1 .. Len(store) :
            store[m].record.key = i.batch[i.index].key /\ store[m].id = known.id
<1>1. PICK s \in Stores : s = store
  BY DEF BatchTypeOK
<1>2. i.at = "importing" /\ ItsRecord(c) = i.batch[i.index]
  BY DEF AtRecord, ItsRecord, Imp
<1>3. Whole(s, c, i) /\ Ready(s, i, Own(s, c, i))
  BY <1>1, <1>2 DEF ImportInv
<1>4. PICK scanned, earlier :
        /\ scanned = {n \in 1 .. i.base : s[n].key = i.batch[i.index].key}
        /\ earlier = {k \in Done(i) : i.batch[k].key = i.batch[i.index].key}
  OBVIOUS
<1>5. Done(i) = ImportedBy(c)
  BY DEF Done, ImportedBy, Imp
<1>6. KnownEntry(c) =
        IF scanned # {}
        THEN {[id |-> s[n].id, print |-> s[n].print] :
                n \in {m \in scanned : \A k \in scanned : k <= m}}
        ELSE {[id |-> i.outcomes[k].event, print |-> i.batch[k]] : k \in earlier}
  BY <1>1, <1>2, <1>4, <1>5 DEF KnownEntry, Imp
<1>7. CASE scanned # {}
  <2>1. PICK n \in scanned : known = [id |-> s[n].id, print |-> s[n].print]
    BY <1>6, <1>7
  <2>2. known.id = s[n].id
    BY <2>1
  <2>3. i.base \in Nat /\ i.base <= Len(s) /\ Len(s) \in Nat
    BY <1>1, <1>2, LenProperties DEF ImportInv, ImportRecords, Stores
  <2>4. n \in 1 .. Len(s) /\ s[n].key = i.batch[i.index].key
    BY <1>4, <2>1, <2>3
  <2>5. s[n].record.key = s[n].key
    BY <2>4 DEF Stores
  <2> QED BY <1>1, <2>2, <2>4, <2>5
<1>8. CASE scanned = {}
  <2>1. PICK k \in earlier : known = [id |-> i.outcomes[k].event, print |-> i.batch[k]]
    BY <1>6, <1>8
  <2>2. known.id = i.outcomes[k].event
    BY <2>1
  <2>3. k \in Done(i) /\ i.batch[k].key = i.batch[i.index].key
    BY <1>4, <2>1
  <2>4. PICK n \in Own(s, c, i) : s[n].id = i.outcomes[k].event
    BY <1>3, <2>3 DEF Whole, Listed
  <2>5. s[n].id[3] = k
    BY <1>3, <2>3, <2>4 DEF Whole, Listed
  <2>6. s[n].record = i.batch[k]
    BY <1>3, <2>4, <2>5 DEF Whole, Listed
  <2>7. n \in 1 .. Len(s)
    BY <2>4 DEF Own
  <2> QED BY <1>1, <2>2, <2>3, <2>4, <2>6, <2>7
<1> QED BY <1>7, <1>8

\* A record without a known entry has a key that neither the scan nor the import knows.
LEMMA NewKey ==
  ASSUME NEW c \in Clients, KnownEntry(c) = {}, NEW i \in ImportRecords, i = imports[c]
  PROVE  /\ \A n \in 1 .. i.base : store[n].key # ItsRecord(c).key
         /\ \A k \in Done(i) : i.batch[k].key # ItsRecord(c).key
<1>1. PICK scanned, earlier :
        /\ scanned = {n \in 1 .. i.base : store[n].key = ItsRecord(c).key}
        /\ earlier = {k \in Done(i) : i.batch[k].key = ItsRecord(c).key}
  OBVIOUS
<1>2. Done(i) = ImportedBy(c)
  BY DEF Done, ImportedBy, Imp
<1>3. {} = IF scanned # {}
           THEN {[id |-> store[n].id, print |-> store[n].print] :
                   n \in {m \in scanned : \A k \in scanned : k <= m}}
           ELSE {[id |-> i.outcomes[k].event, print |-> i.batch[k]] : k \in earlier}
  BY <1>1, <1>2 DEF KnownEntry, Imp
<1>4. scanned = {}
  <2>1. SUFFICES ASSUME scanned # {} PROVE FALSE
    OBVIOUS
  <2>2. i.base \in Nat /\ scanned \subseteq 0 .. i.base
    BY <1>1 DEF ImportRecords
  <2>3. \E x \in scanned : \A y \in scanned : y <= x
    BY <2>1, <2>2, Greatest
  <2> QED BY <1>3, <2>1, <2>3
<1>5. earlier = {}
  BY <1>3, <1>4
<1> QED BY <1>1, <1>4, <1>5

LEMMA KnownIds ==
  ASSUME BatchTypeOK, NEW c \in Clients, AtRecord(c), NEW known \in KnownEntry(c),
         NEW i \in ImportRecords, i = imports[c], ImportInv(store, c, i)
  PROVE  known.id \in Ids \cup {Null}
<1>1. PICK s \in Stores : s = store
  BY DEF BatchTypeOK
<1>2. i.at = "importing"
  BY DEF AtRecord, Imp
<1>3. PICK key, scanned, earlier :
        /\ scanned = {n \in 1 .. i.base : s[n].key = key}
        /\ earlier = {k \in Done(i) : i.batch[k].key = key}
        /\ key = ItsRecord(c).key
  OBVIOUS
<1>4. Done(i) = ImportedBy(c)
  BY DEF Done, ImportedBy, Imp
<1>5. KnownEntry(c) =
        IF scanned # {}
        THEN {[id |-> s[n].id, print |-> s[n].print] :
                n \in {m \in scanned : \A k \in scanned : k <= m}}
        ELSE {[id |-> i.outcomes[k].event, print |-> i.batch[k]] : k \in earlier}
  BY <1>1, <1>3, <1>4 DEF KnownEntry, Imp
<1>6. CASE scanned # {}
  <2>1. PICK n \in scanned : known = [id |-> s[n].id, print |-> s[n].print]
    BY <1>5, <1>6
  <2>2. i.base \in Nat /\ i.base <= Len(s) /\ Len(s) \in Nat
    BY <1>1, <1>2, LenProperties DEF ImportInv, ImportRecords, Stores
  <2>3. n \in 1 .. Len(store)
    BY <1>1, <1>3, <2>1, <2>2
  <2> QED BY <1>1, <2>1, <2>3, StoreIds
<1>7. CASE scanned = {}
  <2>1. PICK k \in earlier : known = [id |-> i.outcomes[k].event, print |-> i.batch[k]]
    BY <1>5, <1>7
  <2>2. i.outcomes[k] \in OutcomeRecords
    BY <1>3, <2>1, ElementOfSeq DEF Done, ImportRecords
  <2> QED BY <2>1, <2>2 DEF OutcomeRecords
<1> QED BY <1>6, <1>7

LEMMA AnswerKeeps ==
  ASSUME KeysArePersisted, BatchTypeOK, ImportsInv, NEW c \in Clients, AnswerKnown(c)
  PROVE  Kept(c)
<1>1. PICK i \in ImportRecords : i = imports[c] /\ ImportInv(store, c, i)
  BY DEF BatchTypeOK, ImportsInv
<1>2. PICK s \in Stores : s = store
  BY DEF BatchTypeOK
<1>3. AtRecord(c) /\ UNCHANGED store
  BY DEF AnswerKnown
<1>4. PICK known \in KnownEntry(c) :
        GoOn(c, i, IF known.print \in {Null, ItsRecord(c)} THEN "duplicate" ELSE "conflict",
             known.id)
  BY <1>1 DEF AnswerKnown, Imp
<1>5. PICK status \in {"duplicate", "conflict"} : GoOn(c, i, status, known.id)
  BY <1>4
<1>6. i.at = "importing"
  BY <1>1, <1>3 DEF AtRecord, Imp
<1>7. PICK event \in Ids \cup {Null} : event = known.id
  BY <1>1, <1>3, KnownIds
<1>8. PICK j \in ImportRecords :
        /\ GoesOn(i, Outcome(status, event), j) /\ Becomes(c, j)
        /\ j.sequence = i.sequence /\ j.last = i.last
  BY <1>5, <1>6, <1>7, GoOnGoesOn DEF Statuses
<1>9. PICK o : o = Outcome(status, event)
  OBVIOUS
<1>10. o.status = status /\ o.event = event
  BY <1>9 DEF Outcome
<1>11. ASSUME Clean(i)
       PROVE  \E m \in 1 .. Len(s) : s[m].record.key = i.batch[i.index].key /\ s[m].id = o.event
  BY <1>1, <1>2, <1>3, <1>7, <1>10, <1>11, KnownIsHeld
<1>12. ImportInv(s, c, j)
  BY <1>1, <1>2, <1>8, <1>9, <1>10, <1>11, PassedRecord
<1>13. ImportInv(store', c, j) /\ store' \in Stores
  BY <1>2, <1>3, <1>12
<1> QED BY <1>3, <1>8, <1>13, BecomesKept

LEMMA MalformedKeeps ==
  ASSUME KeysArePersisted, BatchTypeOK, ImportsInv, NEW c \in Clients, RejectMalformed(c)
  PROVE  Kept(c)
<1>1. PICK i \in ImportRecords : i = imports[c] /\ ImportInv(store, c, i)
  BY DEF BatchTypeOK, ImportsInv
<1>2. PICK s \in Stores : s = store
  BY DEF BatchTypeOK
<1>3. AtRecord(c) /\ UNCHANGED store /\ GoOn(c, i, "failed", Null)
  BY <1>1 DEF RejectMalformed, NewRecord, Imp
<1>4. i.at = "importing"
  BY <1>1, <1>3 DEF AtRecord, Imp
<1>5. PICK o : o = Outcome("failed", Null)
  OBVIOUS
<1>6. o.status = "failed"
  BY <1>5 DEF Outcome
<1>7. PICK j \in ImportRecords : GoesOn(i, o, j) /\ Becomes(c, j)
  BY <1>3, <1>4, <1>5, GoOnGoesOn DEF Statuses
<1>8. ImportInv(s, c, j)
  BY <1>1, <1>2, <1>6, <1>7, FailedRecord
<1>9. ImportInv(store', c, j) /\ store' \in Stores
  BY <1>2, <1>3, <1>8
<1> QED BY <1>3, <1>7, <1>9, BecomesKept

LEMMA AppendKeeps ==
  ASSUME KeysArePersisted, BatchTypeOK, ImportsInv, NEW c \in Clients, AppendNext(c)
  PROVE  Kept(c)
<1>1. PICK i \in ImportRecords : i = imports[c] /\ ImportInv(store, c, i)
  BY DEF BatchTypeOK, ImportsInv
<1>2. PICK s \in Stores : s = store
  BY DEF BatchTypeOK
<1>3. /\ AtRecord(c) /\ KnownEntry(c) = {}
      /\ store' = Append(store, ItsEntry(c))
      /\ GoOn(c, Normalized(c), "imported", ItsEventId(c))
      /\ i.sequence = Len(s)
  BY <1>1, <1>2 DEF AppendNext, NewRecord, Accepts, Imp
<1>4. i.at = "importing"
  BY <1>1, <1>3 DEF AtRecord, Imp
<1>5. PICK e, t : e = ItsEntry(c) /\ t = store'
  OBVIOUS
<1>6. /\ e \in Entries /\ e.key = e.record.key /\ e.id = ItsEventId(c)
      /\ e.id = <<c, i.attempt, i.index>> /\ ItsEventId(c) \in Ids
      /\ e.record = i.batch[i.index] /\ e.parent = i.last
      /\ ItsRecord(c) = e.record
  BY <1>1, <1>3, <1>5, ItsEntryShape
<1>7. Extended(s, e, t)
  BY <1>2, <1>3, <1>5, <1>6, AppendExtends
<1>8. PICK k \in ImportRecords : k = Normalized(c)
  BY <1>1, <1>6, NormalizedShape
<1>9. /\ k.sequence = i.sequence + 1 /\ k.last = e.id
      /\ k.at = i.at /\ k.batch = i.batch /\ k.attempt = i.attempt /\ k.base = i.base
      /\ k.result = i.result /\ k.index = i.index /\ k.outcomes = i.outcomes
  BY <1>1, <1>6, <1>8, NormalizedShape
<1>10. PICK o : o = Outcome("imported", e.id)
  OBVIOUS
<1>11. o.status = "imported" /\ o.event = e.id
  BY <1>10 DEF Outcome
<1>12. PICK j \in ImportRecords :
         /\ GoesOn(i, o, j) /\ Becomes(c, j)
         /\ j.sequence = k.sequence /\ j.last = k.last
  <2>1. GoOn(c, k, "imported", e.id) /\ e.id \in Ids \cup {Null} /\ "imported" \in Statuses
    BY <1>3, <1>6, <1>8 DEF Statuses
  <2> QED BY <1>4, <1>9, <1>10, <2>1, GoOnGoesOn
<1>13. /\ \A n \in 1 .. i.base : s[n].key # e.record.key
       /\ \A m \in Done(i) : i.batch[m].key # e.record.key
  BY <1>1, <1>2, <1>3, <1>6, NewKey
<1>14. Appended(s, e, t, c, i, o, j)
  BY <1>3, <1>6, <1>7, <1>9, <1>11, <1>12, <1>13 DEF Appended
<1>15. ImportInv(t, c, j)
  BY <1>1, <1>2, <1>14, ImportedRecord
<1>16. /\ ImportInv(store', c, j) /\ store' \in Stores
       /\ Extended(store, e, store') /\ e.id[1] = c
  BY <1>2, <1>5, <1>6, <1>7, <1>15 DEF Extended
<1> QED BY <1>12, <1>16, BecomesKept

LEMMA FailureKeeps ==
  ASSUME KeysArePersisted, BatchTypeOK, ImportsInv, NEW c \in Clients, AppendFails(c)
  PROVE  Kept(c)
<1>1. PICK i \in ImportRecords : i = imports[c] /\ ImportInv(store, c, i)
  BY DEF BatchTypeOK, ImportsInv
<1>2. PICK s \in Stores : s = store
  BY DEF BatchTypeOK
<1>3. AtRecord(c) /\ GoOn(c, Normalized(c), "failed", Null)
  BY DEF AppendFails, NewRecord
<1>4. i.at = "importing"
  BY <1>1, <1>3 DEF AtRecord, Imp
<1>5. PICK e, t : e = ItsEntry(c) /\ t = store'
  OBVIOUS
<1>6. /\ e \in Entries /\ e.key = e.record.key /\ e.id = <<c, i.attempt, i.index>>
      /\ ItsEventId(c) \in Ids
  BY <1>1, <1>3, <1>5, ItsEntryShape
<1>7. t = s \/ Extended(s, e, t)
  <2>1. store' = store \/ store' = Append(store, ItsEntry(c))
    BY DEF AppendFails
  <2> QED BY <1>2, <1>5, <1>6, <2>1, AppendExtends
<1>8. t \in Stores
  BY <1>2, <1>7 DEF Extended
<1>9. PICK k \in ImportRecords : k = Normalized(c)
  BY <1>1, <1>6, NormalizedShape
<1>10. /\ k.at = i.at /\ k.batch = i.batch /\ k.attempt = i.attempt /\ k.base = i.base
       /\ k.result = i.result /\ k.index = i.index /\ k.outcomes = i.outcomes
  BY <1>1, <1>6, <1>9, NormalizedShape
<1>11. PICK o : o = Outcome("failed", Null)
  OBVIOUS
<1>12. o.status = "failed"
  BY <1>11 DEF Outcome
<1>13. PICK j \in ImportRecords : GoesOn(i, o, j) /\ Becomes(c, j)
  <2>1. GoOn(c, k, "failed", Null) /\ "failed" \in Statuses
    BY <1>3, <1>9 DEF Statuses
  <2> QED BY <1>4, <1>10, <1>11, <2>1, GoOnGoesOn
<1>14. e.id[1] = c /\ e.id[2] = i.attempt
  BY <1>6
<1>15. ImportInv(t, c, j)
  BY <1>1, <1>2, <1>7, <1>8, <1>12, <1>13, <1>14, FailedRecord
<1>16. /\ ImportInv(store', c, j) /\ store' \in Stores
       /\ store' = store \/ (Extended(store, e, store') /\ e.id[1] = c)
  BY <1>2, <1>5, <1>7, <1>8, <1>14, <1>15
<1> QED BY <1>13, <1>16, BecomesKept

----------------------------------------------------------------------------
LEMMA ActKeeps ==
  ASSUME KeysArePersisted, BatchTypeOK, ImportsInv, NEW c \in Clients, BatchAct(c)
  PROVE  Kept(c)
  BY CallKeeps, ScanKeeps, EndingsKeep, AnswerKeeps, MalformedKeeps, AppendKeeps, FailureKeeps
     DEF BatchAct

LEMMA CutType == BatchTypeOK /\ [BatchNext]_batchVars => cut' \in BOOLEAN
  BY DEF BatchTypeOK, BatchNext, batchVars, CallImport, ScanKeys, StopUnhashable, AnswerKnown,
         RejectMalformed, AppendNext, AppendFails, StopUnredactable, ReturnOutcomes, Dies

LEMMA BatchInitHolds ==
  ASSUME KeysArePersisted, BatchInit
  PROVE  BatchTypeOK /\ ImportsInv
<1>1. Idle \in ImportRecords
  <2>1. << >> \in Seq(Records) /\ << >> \in Seq(OutcomeRecords)
    BY EmptySeq
  <2> QED BY <2>1 DEF Idle, ImportRecords, Places, Kinds
<1>2. store \in Stores
  <2>1. LegacyJournal \in Seq(Entries)
    BY LegacyType
  <2>2. ASSUME NEW n \in 1 .. Len(LegacyJournal)
        PROVE  LegacyJournal[n].key = LegacyJournal[n].record.key
    <3>1. Legacy[n] \in Records
      BY LegacyShape, BatchesAssumption, ElementOfSeq
    <3> QED BY <3>1, LegacyShape DEF KeysArePersisted, PersistedKey
  <2> QED BY <2>1, <2>2 DEF BatchInit, Stores
<1>3. BatchTypeOK
  BY <1>1, <1>2 DEF BatchInit, BatchTypeOK
<1>4. ASSUME NEW c \in Clients PROVE ImportInv(store, c, imports[c])
  <2>1. imports[c] = Idle
    BY DEF BatchInit
  <2>2. Idle.at = "idle" /\ Idle.result = "none" /\ Idle.attempt = 0
    BY DEF Idle
  <2>3. \A n \in 1 .. Len(store) : store[n].id[1] # c
    BY LegacyShape, ClientsAssumption DEF BatchInit
  <2> QED BY <2>1, <2>2, <2>3 DEF ImportInv
<1> QED BY <1>3, <1>4 DEF ImportsInv

\* The inductive invariant: after a step of one client its own import keeps its
\* invariant, and those of the others are not touched by what it appended.
LEMMA ImportsInvHolds ==
  ASSUME KeysArePersisted
  PROVE  BatchSpec => [](BatchTypeOK /\ ImportsInv)
<1>1. BatchInit => BatchTypeOK /\ ImportsInv
  BY BatchInitHolds
<1>2. ASSUME BatchTypeOK, ImportsInv, [BatchNext]_batchVars PROVE BatchTypeOK' /\ ImportsInv'
  <2>1. CASE UNCHANGED batchVars
    BY <1>2, <2>1 DEF batchVars, BatchTypeOK, ImportsInv
  <2>2. CASE \E c \in Clients : BatchAct(c)
    <3>1. PICK c \in Clients : BatchAct(c)
      BY <2>2
    <3>2. Kept(c)
      BY <1>2, <3>1, ActKeeps
    <3>3. ASSUME NEW d \in Clients PROVE ImportInv(store', d, imports'[d])
      <4>1. CASE d = c
        BY <3>2, <4>1 DEF Kept
      <4>2. CASE d # c
        <5>1. imports'[d] = imports[d] /\ imports[d] \in ImportRecords
              /\ ImportInv(store, d, imports[d])
          BY <1>2, <3>2, <4>2 DEF Kept, BatchTypeOK, ImportsInv
        <5>2. CASE store' = store
          BY <5>1, <5>2
        <5>3. CASE \E e : Extended(store, e, store') /\ e.id[1] = c
          BY <4>2, <5>1, <5>3, OthersKeep
        <5> QED BY <3>2, <5>2, <5>3 DEF Kept
      <4> QED BY <4>1, <4>2
    <3>4. cut' \in BOOLEAN
      BY <1>2, CutType
    <3> QED BY <3>2, <3>3, <3>4 DEF Kept, BatchTypeOK, ImportsInv
  <2> QED BY <1>2, <2>1, <2>2 DEF BatchNext, BatchAct
<1> QED BY <1>1, <1>2, PTL DEF BatchSpec

\* An import that reports no failed record was as good as atomic, although others
\* import between its records: the journal refuses an event whose number is not
\* the journal's length, so as long as nothing failed nobody can have come in
\* between.  An append that failed moves the number on, and nothing is claimed.
THEOREM UnfailedImportsAreAtomic ==
  ASSUME KeysArePersisted
  PROVE  BatchSpec => []CleanImportsAreAtomic
<1> DEFINE I(c)    == imports[c]
           own(c)  == Own(store, c, I(c))
           Atomic(c) ==
             /\ \A k \in Done(I(c)) : \E n \in own(c) : store[n].id = I(c).outcomes[k].event
             /\ Cardinality(own(c)) = Cardinality(Done(I(c)))
             /\ \A m, n \in own(c) : \A k \in m .. n : k \in own(c)
             /\ \A n \in own(c) : \A m \in 1 .. n - 1 :
                  store[m].record.key # store[n].record.key
             /\ \A n \in own(c) : store[n].parent # Null =>
                  \E m \in 1 .. n - 1 : store[m].id = store[n].parent
             /\ \A k \in 1 .. Len(I(c).outcomes) :
                  I(c).outcomes[k].status = "duplicate" =>
                    \E m \in 1 .. Len(store) : store[m].record.key = I(c).batch[k].key
                                               /\ store[m].id = I(c).outcomes[k].event
<1>1. ASSUME ImportsInv, NEW c \in Clients, I(c).result = "result", Clean(I(c))
      PROVE  Atomic(c)
  <2>1. Together(store, own(c)) /\ Listed(store, c, I(c), own(c))
    BY <1>1 DEF ImportsInv, ImportInv, Whole
  <2> QED BY <2>1 DEF Together, Listed
<1>2. (\A c \in Clients : I(c).result = "result" /\ Clean(I(c)) => Atomic(c))
      => CleanImportsAreAtomic
  BY Zenon DEF CleanImportsAreAtomic, Imp, ImportedBy, Own, Done, Clean
<1>3. BatchTypeOK /\ ImportsInv => CleanImportsAreAtomic
  BY <1>1, <1>2
<1> QED BY <1>3, ImportsInvHolds, PTL

=============================================================================
