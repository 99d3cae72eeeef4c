------------------------- MODULE JournalVerification -------------------------
(***************************************************************************)
(* The scan of verified_journal_snapshot as a function of a journal file's *)
(* lines, and what it can and cannot tell of a file whose lines were       *)
(* changed in storage after they were written.                             *)
(*                                                                         *)
(* The journal starts as append_event wrote it.  Steps then change the     *)
(* stored lines, at most MaxEdits times: tails are cut, lines are lost,    *)
(* repeated or swapped, contents are edited in place, and a rewriting tool *)
(* may recompute integrity fields.  A digest is collision-free: it is      *)
(* modelled as the history of sequence numbers and bodies it commits to,   *)
(* and the empty history stands for a field that is null.                  *)
(***************************************************************************)
EXTENDS Naturals, Sequences, FiniteSetsExt, SequencesExt

CONSTANTS
  Bodies,      \* contents of events, apart from their integrity fields
  MaxRecords,  \* records in the journal as it was written
  MaxEdits     \* number of changes made to the stored lines

ASSUME BodiesAssumption == Bodies # {}
ASSUME BoundsAssumption == MaxRecords \in Nat /\ MaxEdits \in Nat

VARIABLES
  written,   \* the journal as append_event left it
  lines,     \* the lines stored now
  edits,     \* changes made so far
  resealed   \* history: whether integrity fields were ever recomputed

vars == <<written, lines, edits, resealed>>

Null == << >>

\* Mutant: the hash does not cover the content of the event.
DigestOfPosition(line) == Append(line.prev, <<line.sequence>>)

Digest(line) == Append(line.prev, <<line.sequence, line.body>>)

Forms == {"canonical", "unterminated", "empty", "unparsable", "noncanonical"}

(***************************************************************************)
(* prepare_event_for_append: the integrity fields of the line that follows *)
(* the given ones.                                                         *)
(***************************************************************************)
TerminalHash(before) == IF before = << >> THEN Null ELSE Last(before).hash

Prepared(before, body) ==
  LET line == [form |-> "canonical", supported |-> TRUE, body |-> body,
               sequence |-> Len(before), prev |-> TerminalHash(before),
               hash |-> Null]
  IN  [line EXCEPT !.hash = Digest(line)]

\* append_event, once for each body: what it makes of a file.
SealedAfter(before, bodies) ==
  LET file[n \in 0 .. Len(bodies)] ==
        IF n = 0 THEN before ELSE Append(file[n - 1], Prepared(file[n - 1], bodies[n]))
  IN  file[Len(bodies)]

Sealed(bodies) == SealedAfter(<< >>, bodies)

----------------------------------------------------------------------------
\* Mutant: the event hash is not recomputed.
FaultWithoutRehash(file, i) ==
  LET line == file[i] IN
  IF line.form # "canonical" THEN "parse_error"
  ELSE IF line.sequence # i - 1 THEN "sequence_mismatch"
  ELSE IF line.prev # TerminalHash(SubSeq(file, 1, i - 1)) THEN "previous_hash_mismatch"
  ELSE IF line.hash = Null THEN "event_hash_missing"
  ELSE IF ~line.supported THEN "unsupported_canonicalization"
  ELSE "none"

(***************************************************************************)
(* verified_journal_snapshot, one line: the checks in the order the scan   *)
(* makes them.  Lines before it were accepted, so the hash of the previous *)
(* line is the expected_previous_hash.                                     *)
(***************************************************************************)
FormFault(line) ==
  CASE line.form = "unterminated" -> "truncated_record"
    [] line.form = "empty"        -> "empty_record"
    [] line.form = "unparsable"   -> "parse_error"
    [] line.form = "noncanonical" -> "noncanonical_record"

Fault(file, i) ==
  LET line == file[i] IN
  IF line.form # "canonical" THEN FormFault(line)
  ELSE IF line.sequence # i - 1 THEN "sequence_mismatch"
  ELSE IF line.prev # TerminalHash(SubSeq(file, 1, i - 1)) THEN "previous_hash_mismatch"
  ELSE IF line.hash = Null THEN "event_hash_missing"
  ELSE IF ~line.supported THEN "unsupported_canonicalization"
  ELSE IF line.hash # Digest(line) THEN "event_hash_mismatch"
  ELSE "none"

(***************************************************************************)
(* The whole scan stops at the first fault.  What it verified is then      *)
(* compared with a trusted record count and terminal hash, when the caller *)
(* has them: Unknown count and Null hash mean that it does not.            *)
(***************************************************************************)
Unknown == MaxRecords + MaxEdits + 1

\* Mutants: the faulty line is counted as verified; the expected terminal hash
\* is not compared.
ScanCountingTheFault(file, expectedCount, expectedHash) ==
  LET faults   == [i \in 1 .. Len(file) |-> Fault(file, i)]
      firstBad == SelectInSeq(faults, LAMBDA code : code # "none")
      records  == IF firstBad = 0 THEN Len(file) ELSE firstBad
      issues   == {faults[i] : i \in {firstBad} \ {0}}
                    \cup {"expected_record_count_mismatch" :
                            c \in {expectedCount} \ {Unknown, records}}
  IN  [ok |-> issues = {}, records |-> records,
       lastHash |-> TerminalHash(SubSeq(file, 1, records)), issues |-> issues]

ScanWithoutExpectedHash(file, expectedCount, expectedHash) ==
  LET firstBad == SelectInSeq([i \in 1 .. Len(file) |-> Fault(file, i)],
                              LAMBDA code : code # "none")
      records  == IF firstBad = 0 THEN Len(file) ELSE firstBad - 1
      issues   == {Fault(file, i) : i \in {firstBad} \ {0}}
                    \cup {"expected_record_count_mismatch" :
                            c \in {expectedCount} \ {Unknown, records}}
  IN  [ok |-> issues = {}, records |-> records,
       lastHash |-> TerminalHash(SubSeq(file, 1, records)), issues |-> issues]

Scan(file, expectedCount, expectedHash) ==
  LET faults   == [i \in 1 .. Len(file) |-> Fault(file, i)]
      firstBad == SelectInSeq(faults, LAMBDA code : code # "none")
      records  == IF firstBad = 0 THEN Len(file) ELSE firstBad - 1
      lastHash == TerminalHash(SubSeq(file, 1, records))
      issues   == {faults[i] : i \in {firstBad} \ {0}}
                    \cup {"expected_record_count_mismatch" :
                            c \in {expectedCount} \ {Unknown, records}}
                    \cup {"expected_last_hash_mismatch" :
                            h \in {expectedHash} \ {Null, lastHash}}
  IN  [ok |-> issues = {}, records |-> records, lastHash |-> lastHash,
       issues |-> issues]

LocalScan(file) == Scan(file, Unknown, Null)

----------------------------------------------------------------------------
(***************************************************************************)
(* What may happen to the stored lines.                                    *)
(***************************************************************************)
Change(newLines) ==
  /\ edits < MaxEdits
  /\ edits' = edits + 1
  /\ lines' = newLines
  /\ UNCHANGED written

LoseTail ==
  \E n \in 0 .. Len(lines) - 1 :
    Change(SubSeq(lines, 1, n)) /\ UNCHANGED resealed

LoseLine ==
  \E i \in 1 .. Len(lines) : Change(RemoveAt(lines, i)) /\ UNCHANGED resealed

RepeatLine ==
  \E i \in 1 .. Len(lines) :
    Change(InsertAt(lines, i, lines[i])) /\ UNCHANGED resealed

SwapLines ==
  \E i \in 1 .. Len(lines) - 1 :
    /\ Change([lines EXCEPT ![i] = lines[i + 1], ![i + 1] = lines[i]])
    /\ UNCHANGED resealed

EditLine ==
  \E i \in 1 .. Len(lines) :
    /\ \/ \E body \in Bodies : Change([lines EXCEPT ![i].body = body])
       \/ \E form \in Forms : Change([lines EXCEPT ![i].form = form])
       \/ Change([lines EXCEPT ![i].supported = FALSE])
       \/ Change([lines EXCEPT ![i].hash = Null])
    /\ UNCHANGED resealed

Reseal ==
  \E i \in 1 .. Len(lines) :
    /\ Change(SealedAfter(SubSeq(lines, 1, i - 1),
                          [k \in 1 .. Len(lines) + 1 - i |-> lines[i + k - 1].body]))
    /\ resealed' = TRUE

Init ==
  /\ \E n \in 0 .. MaxRecords : \E bodies \in [1 .. n -> Bodies] :
       written = Sealed(bodies)
  /\ lines = written
  /\ edits = 0
  /\ resealed = FALSE

Next ==
  LoseTail \/ LoseLine \/ RepeatLine \/ SwapLines \/ EditLine \/ Reseal

Spec == Init /\ [][Next]_vars

----------------------------------------------------------------------------
\* The journals that verify are exactly those the append path could have
\* written: the scan accepts nothing else and rejects none of them.
VerifiesWhatAppendWrites ==
  LocalScan(lines).ok <=> lines = Sealed([i \in 1 .. Len(lines) |-> lines[i].body])

\* The records that a scan reports as verified are the longest prefix of the
\* file that the append path could have written, and it reports one fault.
VerifiedPrefixIsLongest ==
  LET scan == LocalScan(lines)
      writable == {n \in 0 .. Len(lines) :
                     SubSeq(lines, 1, n) = Sealed([i \in 1 .. n |-> lines[i].body])}
  IN  scan.records = Max(writable) /\ Cardinality(scan.issues) <= 1

\* Unless integrity fields were recomputed, the only change that a scan with no
\* trusted anchor lets pass is the loss of whole records at the end.
OnlyTailLossPasses ==
  LocalScan(lines).ok /\ ~resealed => IsPrefix(lines, written)

\* With the record count and terminal hash of the journal as it was written,
\* no change passes, recomputed integrity fields or not.
AnchoredScanDetectsEverything ==
  Scan(lines, Len(written), TerminalHash(written)).ok <=> lines = written

=============================================================================
