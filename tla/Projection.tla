----------------------------- MODULE Projection -----------------------------
(***************************************************************************)
(* The SQLite projection of a journal: rebuilders (rebuild_projection)     *)
(* replace its content by a verified snapshot of the journal, readers      *)
(* (_verified_projection_reader) answer queries from it after checking it  *)
(* against the journal, while the journal keeps growing.                   *)
(*                                                                         *)
(* The journal is that of module DurableLog: the sequence of its verified  *)
(* events, and whether a torn line follows.  Digests and identities in the *)
(* projection's metadata commit to a whole journal, so the metadata is     *)
(* modelled as the journal that it was written for.  SQLite is the         *)
(* rollback-journal mode the code leaves it in: one writer at a time, a    *)
(* commit needs every reading transaction to be over, and statements run   *)
(* by executescript commit one by one.                                     *)
(***************************************************************************)
EXTENDS Naturals, Sequences, FiniteSets, SequencesExt

CONSTANTS
  Rebuilders,    \* threads or processes in rebuild_projection
  Readers,       \* threads or processes in a verified read
  Events,        \* events that may be appended to the journal
  MaxRebuilds,   \* bound on the number of rebuilds each rebuilder starts
  InitialSchema, \* user_version of the database file at the start
  Disturbances,  \* bound on changes from outside: of the database, host crashes
  Null           \* absent metadata, no writer

ASSUME RebuildsAssumption == MaxRebuilds \in Nat /\ Disturbances \in Nat
ASSUME SchemaAssumption == InitialSchema \in {0, 1, 2}
ASSUME RolesAssumption ==
  Rebuilders \cap Readers = {} /\ Null \notin Rebuilders /\ Null \notin Seq(Events)

VARIABLES
  journal,   \* events of the verified journal
  torn,      \* whether the journal file ends in a torn line
  schema,    \* user_version of the database
  columns,   \* columns that the migration from version 1 has added
  rows,      \* committed rows: the events they were made from
  meta,      \* the journal that the committed metadata describes, or Null
  writer,    \* rebuilder inside a write transaction, or Null
  at,        \* where each rebuilder and reader is
  target,    \* the journal snapshot a rebuilder is indexing
  column,    \* columns added so far by a rebuilder's migration
  rebuilds,  \* rebuilds started so far, by rebuilder
  alone,     \* history: rebuilders whose last rebuild overlapped no other one
  view,      \* database snapshot of a reader's transaction
  verified,  \* journal snapshot a reader checked that view against
  answer,    \* what each call returned, or is about to
  disturbed  \* changes made from outside so far

dbVars == <<schema, columns, rows, meta, writer>>
journalVars == <<journal, torn>>
rebuildVars == <<target, column, rebuilds, alone>>
readVars == <<view, verified>>
vars == <<journalVars, dbVars, at, rebuildVars, readVars, answer, disturbed>>

CurrentSchema == 2
MigrationColumns == 1 .. 3

Goto(p, label) == at' = [at EXCEPT ![p] = label]

Return(p, code) ==
  /\ answer' = [answer EXCEPT ![p] = code]
  /\ Goto(p, "idle")

\* A reading transaction holds SQLite's SHARED lock from its first statement on.
Reading(q) == at[q] \in {"check", "query"}

Exclusive(r) == writer \in {Null, r} /\ \A q \in Readers : ~Reading(q)

----------------------------------------------------------------------------
(***************************************************************************)
(* The journal, as its other users change it: it grows, and an append may  *)
(* tear its tail.                                                          *)
(***************************************************************************)
Grow ==
  /\ ~torn
  /\ \E e \in Events :
       /\ e \notin ToSet(journal)
       /\ journal' = Append(journal, e)
  /\ UNCHANGED <<torn, dbVars, at, rebuildVars, readVars, answer, disturbed>>

Tear ==
  /\ ~torn
  /\ torn' = TRUE
  /\ UNCHANGED <<journal, dbVars, at, rebuildVars, readVars, answer, disturbed>>

(***************************************************************************)
(* The host goes down: every process is gone, SQLite rolls back an open    *)
(* transaction, and a last record that was never fsynced may be lost,      *)
(* although it was read while its writer was dead and the host up.         *)
(***************************************************************************)
HostCrash ==
  /\ disturbed < Disturbances
  /\ journal # << >>
  /\ disturbed' = disturbed + 1
  /\ journal' = Front(journal)
  /\ writer' = Null
  /\ at' = [p \in Rebuilders \cup Readers |-> "idle"]
  /\ answer' = [p \in Rebuilders \cup Readers |-> "crashed"]
  /\ UNCHANGED <<torn, schema, columns, rows, meta, rebuildVars, readVars>>

(***************************************************************************)
(* The database file is changed from outside: rows go missing or come out  *)
(* of order, or the file is deleted, as operators may do.                  *)
(***************************************************************************)
Disturb ==
  /\ disturbed < Disturbances
  /\ writer = Null /\ \A q \in Readers : ~Reading(q)
  /\ disturbed' = disturbed + 1
  /\ \/ /\ rows # << >>
        /\ rows' \in {Front(rows), Reverse(rows), Append(rows, rows[1])}
        /\ UNCHANGED <<schema, columns, meta>>
     \/ rows' = << >> /\ meta' = Null /\ schema' = 0 /\ columns' = {}
  /\ UNCHANGED <<journalVars, writer, at, rebuildVars, readVars, answer>>

----------------------------------------------------------------------------
(***************************************************************************)
(* rebuild_projection: the journal is verified first, under a lock that is *)
(* released before the database is touched.                                *)
(***************************************************************************)
BeginRebuild(r) ==
  /\ at[r] = "idle"
  /\ rebuilds[r] < MaxRebuilds
  /\ rebuilds' = [rebuilds EXCEPT ![r] = @ + 1]
  /\ LET others == {o \in Rebuilders : at[o] # "idle"} IN
       alone' = IF others = {} THEN alone \cup {r} ELSE alone \ (others \cup {r})
  /\ IF torn
     THEN Return(r, "journal_invalid") /\ UNCHANGED <<target, column>>
     ELSE /\ target' = [target EXCEPT ![r] = journal]
          /\ column' = [column EXCEPT ![r] = 1]
          /\ answer' = [answer EXCEPT ![r] = "none"]
          /\ Goto(r, "schema")
  /\ UNCHANGED <<journalVars, dbVars, readVars, disturbed>>

(***************************************************************************)
(* ensure_schema, outside any transaction.  A new file gets its tables; a  *)
(* version 1 file gets its new columns, one statement and one commit each, *)
(* and its version last.  Adding a column that exists is an error.         *)
(***************************************************************************)
EnsureSchema(r) ==
  /\ at[r] = "schema"
  /\ Goto(r, IF schema = 1 THEN "migrate" ELSE "write")
  /\ IF schema = 0
     THEN Exclusive(r) /\ schema' = CurrentSchema /\ columns' = MigrationColumns
     ELSE UNCHANGED <<schema, columns>>
  /\ UNCHANGED <<journalVars, rows, meta, writer, rebuildVars, readVars, answer,
                 disturbed>>

AddColumn(r) ==
  /\ at[r] = "migrate"
  /\ column[r] \in MigrationColumns \ columns
  /\ Exclusive(r)
  /\ columns' = columns \cup {column[r]}
  /\ column' = [column EXCEPT ![r] = @ + 1]
  /\ UNCHANGED <<journalVars, schema, rows, meta, writer, at, target, rebuilds,
                 alone, readVars, answer, disturbed>>

AddColumnFails(r) ==
  /\ at[r] = "migrate"
  /\ column[r] \in columns
  /\ Return(r, "rebuild_error")
  /\ UNCHANGED <<journalVars, dbVars, rebuildVars, readVars, disturbed>>

\* Mutant: the migration leaves user_version as it was.
SetVersionOmitted(r) ==
  /\ at[r] = "migrate"
  /\ column[r] \notin MigrationColumns
  /\ Goto(r, "write")
  /\ UNCHANGED <<journalVars, dbVars, rebuildVars, readVars, answer, disturbed>>

SetVersion(r) ==
  /\ at[r] = "migrate"
  /\ column[r] \notin MigrationColumns
  /\ Exclusive(r)
  /\ schema' = CurrentSchema
  /\ Goto(r, "write")
  /\ UNCHANGED <<journalVars, columns, rows, meta, writer, rebuildVars, readVars,
                 answer, disturbed>>

\* The first DELETE or INSERT opens the write transaction.
BeginWrite(r) ==
  /\ at[r] = "write"
  /\ writer = Null
  /\ writer' = r
  /\ Goto(r, "commit")
  /\ UNCHANGED <<journalVars, schema, columns, rows, meta, rebuildVars, readVars,
                 answer, disturbed>>

\* The events table is emptied, every event of the snapshot is indexed, the
\* metadata is written, and all of it commits at once.
Commit(r) ==
  /\ at[r] = "commit"
  /\ Exclusive(r)
  /\ rows' = target[r]
  /\ meta' = target[r]
  /\ writer' = Null
  /\ Return(r, "rebuilt")
  /\ UNCHANGED <<journalVars, schema, columns, rebuildVars, readVars, disturbed>>

\* SQLite's busy timeout, or any other SQLite error: rolled back and reported.
RebuildFails(r) ==
  /\ at[r] \in {"schema", "migrate", "write", "commit"}
  /\ writer' = IF writer = r THEN Null ELSE writer
  /\ Return(r, "rebuild_error")
  /\ UNCHANGED <<journalVars, schema, columns, rows, meta, rebuildVars, readVars,
                 disturbed>>

RebuilderCrashes(r) ==
  /\ at[r] # "idle"
  /\ writer' = IF writer = r THEN Null ELSE writer
  /\ Return(r, "crashed")
  /\ UNCHANGED <<journalVars, schema, columns, rows, meta, rebuildVars, readVars,
                 disturbed>>

----------------------------------------------------------------------------
(***************************************************************************)
(* A verified read.  Its transaction sees the database as of its first     *)
(* statement; then the journal is verified and compared with that view.    *)
(***************************************************************************)
BeginRead(q) ==
  /\ at[q] = "idle"
  /\ view' = [view EXCEPT ![q] = [schema |-> schema, rows |-> rows, meta |-> meta]]
  /\ answer' = [answer EXCEPT ![q] = "none"]
  /\ Goto(q, "check")
  /\ UNCHANGED <<journalVars, dbVars, rebuildVars, verified, disturbed>>

\* _verify_projected_row_values: as many rows as records, each with its event.
RowsCode(rowsSeen, events) ==
  IF Len(rowsSeen) < Len(events) THEN "stale"
  ELSE IF rowsSeen # events THEN "mismatch" ELSE "ok"

\* Mutant: any other journal counts as a later one.
StateCodeByIdentity(v) ==
  IF v.schema # CurrentSchema \/ v.meta = Null THEN "rebuild_required"
  ELSE IF torn THEN "journal_invalid"
  ELSE IF v.meta # journal THEN "stale"
  ELSE RowsCode(v.rows, journal)

\* _verify_projection_state_on_connection, in the order of its checks.
StateCode(v) ==
  IF v.schema # CurrentSchema \/ v.meta = Null THEN "rebuild_required"
  ELSE IF torn THEN "journal_invalid"
  ELSE IF v.meta = journal THEN RowsCode(v.rows, journal)
  ELSE IF IsPrefix(v.meta, journal) /\ RowsCode(v.rows, v.meta) = "ok" THEN "stale"
  ELSE "mismatch"

CheckPasses(q) ==
  /\ at[q] = "check"
  /\ StateCode(view[q]) = "ok"
  /\ verified' = [verified EXCEPT ![q] = journal]
  /\ Goto(q, "query")
  /\ UNCHANGED <<journalVars, dbVars, rebuildVars, view, answer, disturbed>>

CheckFails(q) ==
  /\ at[q] = "check"
  /\ StateCode(view[q]) # "ok"
  /\ Return(q, StateCode(view[q]))
  /\ UNCHANGED <<journalVars, dbVars, rebuildVars, readVars, disturbed>>

\* The query runs on the view; then the transaction is rolled back.
EndQuery(q) ==
  /\ at[q] = "query"
  /\ Goto(q, "recheck")
  /\ UNCHANGED <<journalVars, dbVars, rebuildVars, readVars, answer, disturbed>>

\* Mutant: the journal is not looked at again.
RecheckOmitted(q) ==
  /\ at[q] = "recheck"
  /\ Return(q, "read")
  /\ UNCHANGED <<journalVars, dbVars, rebuildVars, readVars, disturbed>>

\* _recheck_terminal_journal_state: record count and terminal hash again.
Recheck(q) ==
  /\ at[q] = "recheck"
  /\ Return(q, IF torn THEN "journal_invalid"
               ELSE IF verified[q] # journal THEN "stale" ELSE "read")
  /\ UNCHANGED <<journalVars, dbVars, rebuildVars, readVars, disturbed>>

----------------------------------------------------------------------------
Init ==
  /\ journal = << >>
  /\ torn = FALSE
  /\ schema = InitialSchema
  /\ columns = IF InitialSchema = CurrentSchema THEN MigrationColumns ELSE {}
  /\ rows = << >>
  /\ meta = Null
  /\ writer = Null
  /\ at = [p \in Rebuilders \cup Readers |-> "idle"]
  /\ target = [r \in Rebuilders |-> << >>]
  /\ column = [r \in Rebuilders |-> 1]
  /\ rebuilds = [r \in Rebuilders |-> 0]
  /\ alone = {}
  /\ view = [q \in Readers |-> [schema |-> InitialSchema, rows |-> << >>, meta |-> Null]]
  /\ verified = [q \in Readers |-> << >>]
  /\ answer = [p \in Rebuilders \cup Readers |-> "none"]
  /\ disturbed = 0

RebuildStep(r) ==
  \/ EnsureSchema(r) \/ AddColumn(r) \/ AddColumnFails(r) \/ SetVersion(r)
  \/ BeginWrite(r) \/ Commit(r) \/ RebuildFails(r)

ReadStep(q) == CheckPasses(q) \/ CheckFails(q) \/ EndQuery(q) \/ Recheck(q)

Next ==
  \/ Grow \/ Tear \/ HostCrash \/ Disturb
  \/ \E r \in Rebuilders : BeginRebuild(r) \/ RebuildStep(r) \/ RebuilderCrashes(r)
  \/ \E q \in Readers : BeginRead(q) \/ ReadStep(q)

Spec == Init /\ [][Next]_vars

----------------------------------------------------------------------------
\* A read that succeeds returns exactly the whole verified journal as it is at
\* its terminal recheck: nothing stale, nothing the journal does not hold,
\* whatever was appended, rebuilt or disturbed meanwhile.
ReadsAreCurrent ==
  [][ \A q \in Readers :
        answer[q] = "none" /\ answer'[q] = "read" =>
          ~torn /\ view[q].rows = journal /\ view[q].meta = journal ]_vars

\* What a projection read refuses as stale is behind the journal, or the journal
\* moved during the read: a rebuild is what it takes, and no evidence of the
\* projection has disappeared from the journal.
StaleMeansBehind ==
  [][ \A q \in Readers :
        at[q] = "check" /\ answer'[q] = "stale" => IsPrefix(view[q].meta, journal) ]_vars

Settled == (\A r \in Rebuilders : at[r] = "idle") /\ disturbed = 0 /\ ~torn

Readable == StateCode([schema |-> schema, rows |-> rows, meta |-> meta]) = "ok"

\* Once a rebuild of the journal as it is has been answered, and no rebuild is
\* under way, the database as it stands can be read: its schema, its metadata
\* and its rows, whatever was committed before or meanwhile.
RebuiltIsCurrent ==
  Settled =>
    \A r \in Rebuilders : answer[r] = "rebuilt" /\ target[r] = journal => Readable

\* The same of a rebuild that overlapped no other one: neither the rebuilds
\* before it, which may have failed or died anywhere in migration or indexing,
\* nor those after it leave a database that cannot be read.
RebuiltAloneIsCurrent ==
  Settled =>
    \A r \in alone : answer[r] = "rebuilt" /\ target[r] = journal => Readable

\* A version 1 database that nobody is migrating can still be migrated.
MigrationIsRestartable ==
  schema = 1 /\ (\A r \in Rebuilders : at[r] = "idle") => columns = {}

=============================================================================
