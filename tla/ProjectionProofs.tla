--------------------------- MODULE ProjectionProofs ---------------------------
(***************************************************************************)
(* Proofs about Projection, for any rebuilders, readers and events, any    *)
(* schema at the start and any number of disturbances.                     *)
(***************************************************************************)
EXTENDS Projection, SequenceTheorems, TLAPS

----------------------------------------------------------------------------
(***************************************************************************)
(* Types.                                                                  *)
(***************************************************************************)
Journals == Seq(Events)

Views == [schema : {0, 1, 2}, rows : Journals, meta : Journals \cup {Null}]

Codes == {"none", "read", "rebuilt", "rebuild_error", "crashed", "journal_invalid",
          "rebuild_required", "stale", "mismatch"}

RebuildPlaces == {"idle", "schema", "migrate", "write", "commit"}
ReadPlaces == {"idle", "check", "query", "recheck"}

PlacesOK ==
  /\ at \in [Rebuilders \cup Readers -> RebuildPlaces \cup ReadPlaces]
  /\ \A r \in Rebuilders : at[r] \in RebuildPlaces
  /\ \A q \in Readers : at[q] \in ReadPlaces
  /\ answer \in [Rebuilders \cup Readers -> Codes]

DatabaseOK ==
  /\ schema \in {0, 1, 2}
  /\ columns \subseteq MigrationColumns
  /\ rows \in Journals
  /\ meta \in Journals \cup {Null}
  /\ writer \in Rebuilders \cup {Null}

CallsOK ==
  /\ target \in [Rebuilders -> Journals]
  /\ column \in [Rebuilders -> Nat]
  /\ rebuilds \in [Rebuilders -> Nat]
  /\ alone \subseteq Rebuilders
  /\ view \in [Readers -> Views]
  /\ verified \in [Readers -> Journals]

TypeOK ==
  /\ journal \in Journals /\ torn \in BOOLEAN /\ disturbed \in Nat
  /\ PlacesOK
  /\ DatabaseOK
  /\ CallsOK

(***************************************************************************)
(* Reads.  A call under way has no answer, and what passed the check is    *)
(* the journal it was compared with.                                       *)
(***************************************************************************)
ReadInv ==
  \A q \in Readers :
    /\ at[q] # "idle" => answer[q] = "none"
    /\ at[q] \in {"query", "recheck"} => view[q].rows = verified[q] /\ view[q].meta = verified[q]

(***************************************************************************)
(* Rebuilds, while nothing is disturbed.  The journal only grows, so what  *)
(* was rebuilt from it stays its beginning.  A rebuild that was alone is   *)
(* the only one, or over; once it is over every rebuild under way began    *)
(* after it, and what they commit extends what it committed.               *)
(***************************************************************************)
Kept(r) ==
  /\ schema = CurrentSchema
  /\ meta # Null /\ IsPrefix(target[r], meta)
  /\ \A o \in Rebuilders : at[o] # "idle" => IsPrefix(target[r], target[o])

AloneInv ==
  \A r \in alone :
    /\ at[r] # "idle" => \A o \in Rebuilders \ {r} : at[o] = "idle"
    /\ at[r] = "idle" /\ answer[r] = "rebuilt" => Kept(r)

SchemaInv == \A r \in Rebuilders : at[r] \in {"write", "commit"} => schema = CurrentSchema

TargetInv == \A r \in Rebuilders : IsPrefix(target[r], journal)

MetaInv == meta # Null => rows = meta /\ IsPrefix(meta, journal)

RebuildInv == disturbed = 0 => SchemaInv /\ TargetInv /\ MetaInv /\ AloneInv

----------------------------------------------------------------------------
(***************************************************************************)
(* Beginnings of journals.                                                 *)
(***************************************************************************)
LEMMA PrefixShape ==
  ASSUME NEW s \in Journals, NEW t \in Journals
  PROVE  IsPrefix(s, t) <=> Len(s) <= Len(t) /\ \A i \in 1 .. Len(s) : s[i] = t[i]
<1> USE DEF Journals
<1>0. PICK m \in Nat, n \in Nat : m = Len(s) /\ n = Len(t)
  BY LenProperties
<1>1. SubSeq(s, 1, m) = s
  BY <1>0, SubSeqFull
<1>2. ASSUME m <= n
      PROVE  SubSeq(t, 1, m) = s <=> \A i \in 1 .. m : s[i] = t[i]
  <2>1. PICK front : front = SubSeq(t, 1, m)
    OBVIOUS
  <2>2. /\ front \in Seq(Events)
        /\ Len(front) = IF 1 <= m THEN m - 1 + 1 ELSE 0
        /\ \A i \in 1 .. m - 1 + 1 : front[i] = t[1 + i - 1]
    <3>1. 1 \in 1 .. Len(t) + 1 /\ m \in 0 .. Len(t)
      BY <1>0, <1>2
    <3> QED BY <2>1, <3>1, SubSeqProperties
  <2>3. Len(front) = m /\ \A i \in 1 .. m : front[i] = t[i]
    BY <2>2
  <2>4. front = s <=> \A i \in 1 .. m : front[i] = s[i]
    BY <1>0, <2>2, <2>3, SeqEqual
  <2> QED BY <2>1, <2>3, <2>4
<1> QED BY <1>0, <1>1, <1>2 DEF IsPrefix

LEMMA PrefixReflexive ==
  ASSUME NEW s \in Journals
  PROVE  IsPrefix(s, s)
<1>1. PICK m \in Nat : m = Len(s)
  BY LenProperties DEF Journals
<1> QED BY <1>1, PrefixShape

LEMMA PrefixTransitive ==
  ASSUME NEW s \in Journals, NEW t \in Journals, NEW u \in Journals,
         IsPrefix(s, t), IsPrefix(t, u)
  PROVE  IsPrefix(s, u)
<1>1. PICK l \in Nat, m \in Nat, n \in Nat : l = Len(s) /\ m = Len(t) /\ n = Len(u)
  BY LenProperties DEF Journals
<1>2. l <= m /\ \A i \in 1 .. l : s[i] = t[i]
  BY <1>1, PrefixShape
<1>3. m <= n /\ \A i \in 1 .. m : t[i] = u[i]
  BY <1>1, PrefixShape
<1>4. l <= n /\ \A i \in 1 .. l : s[i] = u[i]
  BY <1>2, <1>3
<1> QED BY <1>1, <1>4, PrefixShape

LEMMA PrefixAntisymmetric ==
  ASSUME NEW s \in Journals, NEW t \in Journals, IsPrefix(s, t), IsPrefix(t, s)
  PROVE  s = t
<1>1. PICK l \in Nat, m \in Nat : l = Len(s) /\ m = Len(t)
  BY LenProperties DEF Journals
<1>2. l <= m /\ m <= l /\ \A i \in 1 .. l : s[i] = t[i]
  BY <1>1, PrefixShape
<1>3. l = m
  BY <1>2
<1> QED BY <1>1, <1>2, <1>3, SeqEqual DEF Journals

LEMMA PrefixOfAppend ==
  ASSUME NEW s \in Journals, NEW t \in Journals, NEW e \in Events, IsPrefix(s, t)
  PROVE  IsPrefix(s, Append(t, e))
<1>1. PICK l \in Nat, m \in Nat : l = Len(s) /\ m = Len(t)
  BY LenProperties DEF Journals
<1>2. l <= m /\ \A i \in 1 .. l : s[i] = t[i]
  BY <1>1, PrefixShape
<1>3. PICK u \in Journals : u = Append(t, e)
  BY AppendProperties DEF Journals
<1>4. Len(u) = m + 1 /\ \A i \in 1 .. m : u[i] = t[i]
  BY <1>1, <1>3, AppendProperties DEF Journals
<1>5. l <= m + 1 /\ \A i \in 1 .. l : s[i] = u[i]
  BY <1>2, <1>4
<1> QED BY <1>1, <1>3, <1>4, <1>5, PrefixShape

\* What a host crash and a disturbance leave are journals.
LEMMA FrontType ==
  ASSUME NEW s \in Journals, s # << >>
  PROVE  Front(s) \in Journals
<1>1. PICK m \in Nat : m = Len(s) /\ m # 0
  BY LenProperties, EmptySeq DEF Journals
<1>2. 1 \in 1 .. Len(s) + 1 /\ m - 1 \in 0 .. Len(s)
  BY <1>1
<1>3. SubSeq(s, 1, m - 1) \in Journals
  BY <1>2, SubSeqProperties DEF Journals
<1> QED BY <1>1, <1>3 DEF Front

LEMMA DisturbedType ==
  ASSUME NEW s \in Journals, s # << >>,
         NEW r \in {Front(s), Reverse(s), Append(s, s[1])}
  PROVE  r \in Journals
<1>1. PICK m \in Nat : m = Len(s) /\ m # 0 /\ \A i \in 1 .. m : s[i] \in Events
  BY LenProperties, EmptySeq, ElementOfSeq DEF Journals
<1>2. Append(s, s[1]) \in Journals
  <2>1. s[1] \in Events
    BY <1>1
  <2> QED BY <2>1, AppendProperties DEF Journals
<1>3. Reverse(s) \in Journals
  <2>1. Reverse(s) = [i \in 1 .. m |-> s[(m - i) + 1]]
    BY <1>1 DEF Reverse
  <2>2. \A i \in 1 .. m : s[(m - i) + 1] \in Events
    BY <1>1
  <2> QED BY <2>1, <2>2 DEF Journals
<1> QED BY <1>2, <1>3, FrontType

----------------------------------------------------------------------------
(***************************************************************************)
(* Types and reads.                                                        *)
(***************************************************************************)
LEMMA StateCodeType ==
  ASSUME TypeOK, NEW v \in Views
  PROVE  /\ StateCode(v) \in Codes \cup {"ok"}
         /\ StateCode(v) = "ok" => ~torn /\ v.meta = journal /\ v.rows = journal
         /\ StateCode(v) = "stale" => v.meta \in Journals /\ IsPrefix(v.meta, journal)
<1>1. ASSUME NEW s \in Journals, NEW t \in Journals
      PROVE  /\ RowsCode(s, t) \in {"stale", "mismatch", "ok"}
             /\ RowsCode(s, t) = "ok" => s = t
  BY DEF RowsCode
<1>2. v.rows \in Journals /\ v.meta \in Journals \cup {Null} /\ journal \in Journals
  BY DEF Views, TypeOK, DatabaseOK
<1>3. IsPrefix(journal, journal)
  BY <1>2, PrefixReflexive
<1>4. StateCode(v) \in Codes \cup {"ok"}
  BY <1>1, <1>2 DEF StateCode, Codes
<1>5. StateCode(v) = "ok" => ~torn /\ v.meta = journal /\ v.rows = journal
  BY <1>1, <1>2 DEF StateCode
<1>6. StateCode(v) = "stale" => v.meta \in Journals /\ IsPrefix(v.meta, journal)
  BY <1>1, <1>2, <1>3 DEF StateCode
<1> QED BY <1>4, <1>5, <1>6

LEMMA RebuilderGoes ==
  ASSUME PlacesOK, NEW r \in Rebuilders, NEW label \in RebuildPlaces, Goto(r, label),
         answer' \in [Rebuilders \cup Readers -> Codes]
  PROVE  PlacesOK'
BY RolesAssumption DEF PlacesOK, Goto

LEMMA ReaderGoes ==
  ASSUME PlacesOK, NEW q \in Readers, NEW label \in ReadPlaces, Goto(q, label),
         answer' \in [Rebuilders \cup Readers -> Codes]
  PROVE  PlacesOK'
BY RolesAssumption DEF PlacesOK, Goto

LEMMA CallReturns ==
  ASSUME PlacesOK, NEW p \in Rebuilders \cup Readers, NEW code \in Codes, Return(p, code)
  PROVE  PlacesOK'
<1>1. answer' \in [Rebuilders \cup Readers -> Codes] /\ Goto(p, "idle")
  BY DEF PlacesOK, Return
<1>2. "idle" \in RebuildPlaces /\ "idle" \in ReadPlaces
  BY DEF RebuildPlaces, ReadPlaces
<1>3. CASE p \in Rebuilders
  BY <1>1, <1>2, <1>3, RebuilderGoes
<1>4. CASE p \in Readers
  BY <1>1, <1>2, <1>4, ReaderGoes
<1> QED BY <1>3, <1>4

LEMMA NextPlacesOK ==
  ASSUME TypeOK, [Next]_vars
  PROVE  PlacesOK'
<1>0. /\ PlacesOK
      /\ {"none", "read", "rebuilt", "rebuild_error", "crashed", "journal_invalid", "stale"}
           \subseteq Codes
      /\ {"schema", "migrate", "write", "commit"} \subseteq RebuildPlaces
      /\ {"check", "query", "recheck"} \subseteq ReadPlaces
  BY DEF TypeOK, Codes, RebuildPlaces, ReadPlaces
<1>1. CASE UNCHANGED <<at, answer>>
  BY <1>0, <1>1 DEF PlacesOK
<1>2. CASE UNCHANGED vars \/ Grow \/ Tear \/ Disturb
  BY <1>1, <1>2 DEF vars, Grow, Tear, Disturb
<1>3. CASE HostCrash
  <2>1. "idle" \in RebuildPlaces /\ "idle" \in ReadPlaces
    BY DEF RebuildPlaces, ReadPlaces
  <2> QED BY <1>0, <1>3, <2>1 DEF HostCrash, PlacesOK
<1>4. ASSUME NEW r \in Rebuilders, BeginRebuild(r) PROVE PlacesOK'
  <2>1. CASE torn
    BY <1>0, <1>4, <2>1, CallReturns DEF BeginRebuild
  <2>2. CASE ~torn
    <3>1. answer' \in [Rebuilders \cup Readers -> Codes] /\ Goto(r, "schema")
      BY <1>0, <1>4, <2>2 DEF BeginRebuild, PlacesOK
    <3> QED BY <1>0, <3>1, RebuilderGoes
  <2> QED BY <2>1, <2>2
<1>5. ASSUME NEW r \in Rebuilders, EnsureSchema(r) \/ SetVersion(r) \/ BeginWrite(r)
      PROVE  PlacesOK'
  <2>1. UNCHANGED answer /\ \E label \in RebuildPlaces : Goto(r, label)
    BY <1>0, <1>5 DEF EnsureSchema, SetVersion, BeginWrite
  <2>2. PICK label \in RebuildPlaces : Goto(r, label)
    BY <2>1
  <2> QED BY <1>0, <2>1, <2>2, RebuilderGoes DEF PlacesOK
<1>6. ASSUME NEW r \in Rebuilders, AddColumn(r) PROVE PlacesOK'
  BY <1>1, <1>6 DEF AddColumn
<1>7. ASSUME NEW r \in Rebuilders,
             AddColumnFails(r) \/ Commit(r) \/ RebuildFails(r) \/ RebuilderCrashes(r)
      PROVE  PlacesOK'
  <2>1. PICK code \in Codes : Return(r, code)
    BY <1>0, <1>7 DEF AddColumnFails, Commit, RebuildFails, RebuilderCrashes
  <2> QED BY <1>0, <2>1, CallReturns
<1>8. ASSUME NEW q \in Readers, BeginRead(q) \/ CheckPasses(q) \/ EndQuery(q) PROVE PlacesOK'
  <2>1. answer' \in [Rebuilders \cup Readers -> Codes]
    BY <1>0, <1>8 DEF BeginRead, CheckPasses, EndQuery, PlacesOK
  <2>2. PICK label \in ReadPlaces : Goto(q, label)
    BY <1>0, <1>8 DEF BeginRead, CheckPasses, EndQuery
  <2> QED BY <1>0, <2>1, <2>2, ReaderGoes
<1>9. ASSUME NEW q \in Readers, CheckFails(q) \/ Recheck(q) PROVE PlacesOK'
  <2>1. view[q] \in Views
    BY DEF TypeOK, CallsOK
  <2>2. PICK code \in Codes : Return(q, code)
    <3>1. CASE CheckFails(q)
      BY <2>1, <3>1, StateCodeType DEF CheckFails
    <3>2. CASE Recheck(q)
      BY <1>0, <3>2 DEF Recheck
    <3> QED BY <1>9, <3>1, <3>2
  <2> QED BY <1>0, <2>2, CallReturns
<1> QED BY <1>2, <1>3, <1>4, <1>5, <1>6, <1>7, <1>8, <1>9 DEF Next, RebuildStep, ReadStep

LEMMA NextDatabaseOK ==
  ASSUME TypeOK, [Next]_vars
  PROVE  DatabaseOK'
<1> USE DEF DatabaseOK, dbVars, MigrationColumns, CurrentSchema
<1>0. DatabaseOK /\ target \in [Rebuilders -> Journals]
  BY DEF TypeOK, CallsOK
<1>1. CASE UNCHANGED dbVars
  BY <1>0, <1>1
<1>2. CASE UNCHANGED vars \/ Grow \/ Tear
  BY <1>1, <1>2 DEF vars, Grow, Tear
<1>3. CASE HostCrash
  BY <1>0, <1>3 DEF HostCrash
<1>4. CASE Disturb
  <2>1. << >> \in Journals
    BY EmptySeq DEF Journals
  <2>2. rows' \in Journals
    BY <1>0, <1>4, <2>1, DisturbedType DEF Disturb
  <2> QED BY <1>0, <1>4, <2>2 DEF Disturb
<1>5. ASSUME NEW r \in Rebuilders, BeginRebuild(r) \/ AddColumnFails(r) PROVE DatabaseOK'
  BY <1>1, <1>5 DEF BeginRebuild, AddColumnFails
<1>6. ASSUME NEW r \in Rebuilders, EnsureSchema(r) \/ AddColumn(r) \/ SetVersion(r)
      PROVE  DatabaseOK'
  BY <1>0, <1>6 DEF EnsureSchema, AddColumn, SetVersion
<1>7. ASSUME NEW r \in Rebuilders,
             BeginWrite(r) \/ Commit(r) \/ RebuildFails(r) \/ RebuilderCrashes(r)
      PROVE  DatabaseOK'
  BY <1>0, <1>7 DEF BeginWrite, Commit, RebuildFails, RebuilderCrashes
<1>8. ASSUME NEW q \in Readers, BeginRead(q) \/ ReadStep(q) PROVE DatabaseOK'
  BY <1>1, <1>8 DEF BeginRead, ReadStep, CheckPasses, CheckFails, EndQuery, Recheck
<1> QED BY <1>2, <1>3, <1>4, <1>5, <1>6, <1>7, <1>8 DEF Next, RebuildStep

LEMMA NextCallsOK ==
  ASSUME TypeOK, [Next]_vars
  PROVE  CallsOK'
<1> USE DEF CallsOK, rebuildVars, readVars
<1>0. CallsOK /\ journal \in Journals
  BY DEF TypeOK
<1>1. CASE UNCHANGED <<rebuildVars, readVars>>
  BY <1>0, <1>1
<1>2. CASE UNCHANGED vars \/ Grow \/ Tear \/ HostCrash \/ Disturb
  BY <1>1, <1>2 DEF vars, Grow, Tear, HostCrash, Disturb
<1>3. ASSUME NEW r \in Rebuilders, BeginRebuild(r) PROVE CallsOK'
  <2>1. alone' \subseteq Rebuilders /\ rebuilds' \in [Rebuilders -> Nat] /\ UNCHANGED readVars
    BY <1>0, <1>3 DEF BeginRebuild
  <2>2. target' \in [Rebuilders -> Journals] /\ column' \in [Rebuilders -> Nat]
    BY <1>0, <1>3 DEF BeginRebuild
  <2> QED BY <1>0, <2>1, <2>2
<1>4. ASSUME NEW r \in Rebuilders, AddColumn(r) PROVE CallsOK'
  BY <1>0, <1>4 DEF AddColumn
<1>5. ASSUME NEW r \in Rebuilders,
             EnsureSchema(r) \/ AddColumnFails(r) \/ SetVersion(r) \/ BeginWrite(r) \/ Commit(r)
             \/ RebuildFails(r) \/ RebuilderCrashes(r)
      PROVE  CallsOK'
  BY <1>1, <1>5 DEF EnsureSchema, AddColumnFails, SetVersion, BeginWrite, Commit, RebuildFails,
                    RebuilderCrashes
<1>6. ASSUME NEW q \in Readers, BeginRead(q) PROVE CallsOK'
  <2>1. [schema |-> schema, rows |-> rows, meta |-> meta] \in Views
    BY DEF Views, TypeOK, DatabaseOK
  <2> QED BY <1>0, <1>6, <2>1 DEF BeginRead
<1>7. ASSUME NEW q \in Readers, ReadStep(q) PROVE CallsOK'
  BY <1>0, <1>7 DEF ReadStep, CheckPasses, CheckFails, EndQuery, Recheck
<1> QED BY <1>2, <1>3, <1>4, <1>5, <1>6, <1>7 DEF Next, RebuildStep

\* While nothing disturbs it, the journal stays or gains one event.
LEMMA JournalStep ==
  ASSUME TypeOK, [Next]_vars
  PROVE  /\ journal' \in Journals /\ torn' \in BOOLEAN /\ disturbed' \in Nat
         /\ disturbed' = 0 =>
              /\ disturbed = 0
              /\ journal' = journal \/ \E e \in Events : journal' = Append(journal, e)
<1> USE DEF TypeOK, journalVars
<1>1. CASE UNCHANGED <<journalVars, disturbed>>
  BY <1>1
<1>2. CASE UNCHANGED vars \/ Tear
  BY <1>2 DEF vars, Tear
<1>3. CASE Grow
  <2>1. PICK e \in Events : journal' = Append(journal, e)
    BY <1>3 DEF Grow
  <2>2. journal' \in Journals
    BY <2>1, AppendProperties DEF Journals
  <2> QED BY <1>3, <2>1, <2>2 DEF Grow
<1>4. CASE HostCrash
  BY <1>4, FrontType DEF HostCrash
<1>5. CASE Disturb
  BY <1>5 DEF Disturb
<1>6. ASSUME NEW r \in Rebuilders, BeginRebuild(r) \/ RebuildStep(r) \/ RebuilderCrashes(r)
      PROVE  UNCHANGED <<journalVars, disturbed>>
  BY <1>6 DEF BeginRebuild, RebuildStep, EnsureSchema, AddColumn, AddColumnFails, SetVersion,
              BeginWrite, Commit, RebuildFails, RebuilderCrashes
<1>7. ASSUME NEW q \in Readers, BeginRead(q) \/ ReadStep(q)
      PROVE  UNCHANGED <<journalVars, disturbed>>
  BY <1>7 DEF BeginRead, ReadStep, CheckPasses, CheckFails, EndQuery, Recheck
<1> QED BY <1>1, <1>2, <1>3, <1>4, <1>5, <1>6, <1>7 DEF Next

LEMMA NextTypeOK ==
  ASSUME TypeOK, [Next]_vars
  PROVE  TypeOK'
BY JournalStep, NextPlacesOK, NextDatabaseOK, NextCallsOK DEF TypeOK

LEMMA NextReadInv ==
  ASSUME TypeOK, ReadInv, [Next]_vars
  PROVE  ReadInv'
<1> USE DEF TypeOK, PlacesOK, CallsOK, Goto, Return, journalVars, dbVars, rebuildVars, readVars
<1>1. ASSUME UNCHANGED readVars, \A q \in Readers : at'[q] = at[q] /\ answer'[q] = answer[q]
      PROVE  ReadInv'
  BY <1>1 DEF ReadInv
<1>2. CASE UNCHANGED vars \/ Grow \/ Tear \/ Disturb
  BY <1>1, <1>2 DEF vars, Grow, Tear, Disturb
<1>3. CASE HostCrash
  BY <1>3 DEF HostCrash, ReadInv
<1>4. ASSUME NEW r \in Rebuilders, BeginRebuild(r) PROVE ReadInv'
  BY <1>1, <1>4, RolesAssumption DEF BeginRebuild
<1>5. ASSUME NEW r \in Rebuilders, RebuildStep(r) \/ RebuilderCrashes(r) PROVE ReadInv'
  <2>1. UNCHANGED readVars
    BY <1>5 DEF RebuildStep, EnsureSchema, AddColumn, AddColumnFails, SetVersion, BeginWrite, Commit,
                RebuildFails, RebuilderCrashes
  <2>2. \A q \in Readers : at'[q] = at[q] /\ answer'[q] = answer[q]
    BY <1>5, RolesAssumption
       DEF RebuildStep, EnsureSchema, AddColumn, AddColumnFails, SetVersion, BeginWrite, Commit,
           RebuildFails, RebuilderCrashes
  <2> QED BY <1>1, <2>1, <2>2
<1>6. ASSUME NEW q \in Readers, BeginRead(q) PROVE ReadInv'
  BY <1>6 DEF BeginRead, ReadInv
<1>7. ASSUME NEW q \in Readers, CheckPasses(q) PROVE ReadInv'
  <2>1. view[q].meta = journal /\ view[q].rows = journal
    BY <1>7, StateCodeType DEF CheckPasses
  <2> QED BY <1>7, <2>1 DEF CheckPasses, ReadInv
<1>8. ASSUME NEW q \in Readers, CheckFails(q) \/ EndQuery(q) \/ Recheck(q) PROVE ReadInv'
  BY <1>8 DEF CheckFails, EndQuery, Recheck, ReadInv
<1> QED BY <1>2, <1>3, <1>4, <1>5, <1>6, <1>7, <1>8 DEF Next, ReadStep


----------------------------------------------------------------------------
(***************************************************************************)
(* Rebuilds.                                                               *)
(***************************************************************************)
\* What begins the journal still begins it after an undisturbed step.
LEMMA BeginningsStay ==
  ASSUME TypeOK, [Next]_vars, disturbed' = 0, NEW s \in Journals, IsPrefix(s, journal)
  PROVE  IsPrefix(s, journal')
<1>1. PICK j \in Journals, k \in Journals : j = journal /\ k = journal'
  BY JournalStep DEF TypeOK
<1>2. k = j \/ \E e \in Events : k = Append(j, e)
  BY <1>1, JournalStep
<1>3. IsPrefix(s, j)
  BY <1>1
<1>4. IsPrefix(s, k)
  BY <1>2, <1>3, PrefixOfAppend
<1> QED BY <1>1, <1>4

LEMMA NextSchemaInv ==
  ASSUME TypeOK, SchemaInv, [Next]_vars, disturbed' = 0
  PROVE  SchemaInv'
<1> USE DEF SchemaInv, dbVars, CurrentSchema
<1>0. at \in [Rebuilders \cup Readers -> RebuildPlaces \cup ReadPlaces] /\ schema \in {0, 1, 2}
      /\ disturbed \in Nat
  BY DEF TypeOK, PlacesOK, DatabaseOK
<1>1. ASSUME \A r \in Rebuilders : at'[r] \in {"write", "commit"} => at[r] \in {"write", "commit"},
             schema' = schema \/ schema' = CurrentSchema
      PROVE  SchemaInv'
  BY <1>1
<1>2. CASE UNCHANGED vars \/ Grow \/ Tear
  BY <1>1, <1>2 DEF vars, Grow, Tear
<1>3. CASE HostCrash \/ Disturb
  BY <1>0, <1>3 DEF HostCrash, Disturb
<1>4. ASSUME NEW r \in Rebuilders, EnsureSchema(r) \/ SetVersion(r) PROVE SchemaInv'
  BY <1>0, <1>4 DEF EnsureSchema, SetVersion, Goto
<1>5. ASSUME NEW r \in Rebuilders,
             BeginRebuild(r) \/ AddColumn(r) \/ AddColumnFails(r) \/ BeginWrite(r) \/ Commit(r)
             \/ RebuildFails(r) \/ RebuilderCrashes(r)
      PROVE  SchemaInv'
  BY <1>0, <1>1, <1>5 DEF BeginRebuild, AddColumn, AddColumnFails, BeginWrite, Commit,
       RebuildFails, RebuilderCrashes, Goto, Return
<1>6. ASSUME NEW q \in Readers, BeginRead(q) \/ ReadStep(q) PROVE SchemaInv'
  BY <1>0, <1>1, <1>6 DEF BeginRead, ReadStep, CheckPasses, CheckFails, EndQuery, Recheck, Goto,
       Return
<1> QED BY <1>2, <1>3, <1>4, <1>5, <1>6 DEF Next, RebuildStep

LEMMA NextTargetInv ==
  ASSUME TypeOK, TargetInv, [Next]_vars, disturbed' = 0
  PROVE  TargetInv'
<1>0. target \in [Rebuilders -> Journals] /\ journal \in Journals
  BY DEF TypeOK, CallsOK
<1>1. CASE UNCHANGED target
  <2>1. SUFFICES ASSUME NEW r \in Rebuilders
                 PROVE  IsPrefix(target[r], journal')
    BY <1>1 DEF TargetInv
  <2> QED BY <1>0, BeginningsStay DEF TargetInv
<1>2. ASSUME NEW r \in Rebuilders, BeginRebuild(r) PROVE TargetInv'
  <2>1. UNCHANGED journal /\ \A o \in Rebuilders : target'[o] = target[o] \/ target'[o] = journal
    BY <1>0, <1>2 DEF BeginRebuild, journalVars
  <2>2. IsPrefix(journal, journal)
    BY <1>0, PrefixReflexive
  <2>3. SUFFICES ASSUME NEW o \in Rebuilders
                 PROVE  IsPrefix(target'[o], journal)
    BY <2>1 DEF TargetInv
  <2>4. CASE target'[o] = target[o]
    BY <2>4 DEF TargetInv
  <2>5. CASE target'[o] = journal
    BY <2>2, <2>5
  <2> QED BY <2>1, <2>4, <2>5
<1>3. CASE UNCHANGED vars \/ Grow \/ Tear \/ HostCrash \/ Disturb
  BY <1>1, <1>3 DEF vars, rebuildVars, Grow, Tear, HostCrash, Disturb
<1>4. ASSUME NEW r \in Rebuilders, RebuildStep(r) \/ RebuilderCrashes(r) PROVE TargetInv'
  BY <1>1, <1>4 DEF RebuildStep, EnsureSchema, AddColumn, AddColumnFails, SetVersion, BeginWrite,
       Commit, RebuildFails, RebuilderCrashes, rebuildVars
<1>5. ASSUME NEW q \in Readers, BeginRead(q) \/ ReadStep(q) PROVE TargetInv'
  BY <1>1, <1>5 DEF BeginRead, ReadStep, CheckPasses, CheckFails, EndQuery, Recheck, rebuildVars
<1> QED BY <1>2, <1>3, <1>4, <1>5 DEF Next

LEMMA NextMetaInv ==
  ASSUME TypeOK, TargetInv, MetaInv, [Next]_vars, disturbed' = 0
  PROVE  MetaInv'
<1>0. target \in [Rebuilders -> Journals] /\ meta \in Journals \cup {Null} /\ disturbed \in Nat
  BY DEF TypeOK, DatabaseOK, CallsOK
<1>1. CASE UNCHANGED <<rows, meta>>
  <2>1. meta # Null => IsPrefix(meta, journal')
    BY <1>0, BeginningsStay DEF MetaInv
  <2> QED BY <1>1, <2>1 DEF MetaInv
<1>2. ASSUME NEW r \in Rebuilders, Commit(r) PROVE MetaInv'
  <2>1. rows' = target[r] /\ meta' = target[r] /\ journal' = journal
    BY <1>2 DEF Commit, journalVars
  <2> QED BY <2>1 DEF MetaInv, TargetInv
<1>3. CASE UNCHANGED vars \/ Grow \/ Tear
  BY <1>1, <1>3 DEF vars, dbVars, Grow, Tear
<1>4. CASE HostCrash \/ Disturb
  BY <1>0, <1>4 DEF HostCrash, Disturb
<1>5. ASSUME NEW r \in Rebuilders,
             BeginRebuild(r) \/ EnsureSchema(r) \/ AddColumn(r) \/ AddColumnFails(r)
             \/ SetVersion(r) \/ BeginWrite(r) \/ RebuildFails(r) \/ RebuilderCrashes(r)
      PROVE  MetaInv'
  BY <1>1, <1>5 DEF BeginRebuild, EnsureSchema, AddColumn, AddColumnFails, SetVersion, BeginWrite,
       RebuildFails, RebuilderCrashes, dbVars
<1>6. ASSUME NEW q \in Readers, BeginRead(q) \/ ReadStep(q) PROVE MetaInv'
  BY <1>1, <1>6 DEF BeginRead, ReadStep, CheckPasses, CheckFails, EndQuery, Recheck, dbVars
<1> QED BY <1>2, <1>3, <1>4, <1>5, <1>6 DEF Next, RebuildStep

\* What holds of a rebuild that was alone is lost neither by a later rebuild,
\* which indexes what the journal has become, nor by the end of another one.
LEMMA NextAloneInv ==
  ASSUME TypeOK, SchemaInv, TargetInv, AloneInv, [Next]_vars, disturbed' = 0
  PROVE  AloneInv'
<1>0. /\ at \in [Rebuilders \cup Readers -> RebuildPlaces \cup ReadPlaces]
      /\ answer \in [Rebuilders \cup Readers -> Codes]
      /\ target \in [Rebuilders -> Journals] /\ alone \subseteq Rebuilders
      /\ Null \notin Journals /\ disturbed \in Nat /\ Rebuilders \cap Readers = {}
      /\ schema \in {0, 1, 2}
  BY RolesAssumption DEF TypeOK, PlacesOK, CallsOK, DatabaseOK, Journals
<1>1. ASSUME UNCHANGED <<target, alone, meta>>,
             schema = CurrentSchema => schema' = CurrentSchema,
             \A r \in Rebuilders : /\ at'[r] # "idle" => at[r] # "idle"
                                   /\ at'[r] = "idle" /\ answer'[r] = "rebuilt" =>
                                        at[r] = "idle" /\ answer[r] = "rebuilt"
      PROVE  AloneInv'
  <2>1. ASSUME NEW r \in Rebuilders, Kept(r) PROVE Kept(r)'
    BY <1>1, <2>1 DEF Kept
  <2> QED BY <1>0, <1>1, <2>1 DEF AloneInv
<1>2. CASE UNCHANGED vars \/ Grow \/ Tear
  BY <1>1, <1>2 DEF vars, rebuildVars, dbVars, Grow, Tear
<1>3. CASE HostCrash \/ Disturb
  BY <1>0, <1>3 DEF HostCrash, Disturb
<1>4. ASSUME NEW o \in Rebuilders, BeginRebuild(o) PROVE AloneInv'
  <2>0. SUFFICES ASSUME NEW r \in alone'
                 PROVE  /\ at'[r] # "idle" => \A p \in Rebuilders \ {r} : at'[p] = "idle"
                        /\ at'[r] = "idle" /\ answer'[r] = "rebuilt" => Kept(r)'
    BY DEF AloneInv
  <2>1. /\ at[o] = "idle" /\ answer'[o] # "rebuilt"
        /\ \A p \in Rebuilders \ {o} : /\ at'[p] = at[p]
                                       /\ answer'[p] = answer[p]
                                       /\ target'[p] = target[p]
        /\ at'[o] # "idle" => target'[o] = journal
        /\ UNCHANGED <<schema, meta>>
    BY <1>0, <1>4 DEF BeginRebuild, Goto, Return, dbVars
  <2>2. /\ alone' \subseteq Rebuilders
        /\ (\A p \in Rebuilders : at[p] = "idle") \/ (r # o /\ at[r] = "idle" /\ r \in alone)
        /\ r # o => r \in alone
    BY <1>0, <1>4 DEF BeginRebuild
  <2>3. at'[r] # "idle" => \A p \in Rebuilders \ {r} : at'[p] = "idle"
    BY <2>1, <2>2
  <2>4. ASSUME at'[r] = "idle", answer'[r] = "rebuilt" PROVE Kept(r)'
    <3>1. r \in Rebuilders /\ r # o /\ Kept(r) /\ target'[r] = target[r]
      BY <2>1, <2>2, <2>4 DEF AloneInv
    <3>2. \A p \in Rebuilders : at'[p] # "idle" => IsPrefix(target[r], target'[p])
      <4>1. IsPrefix(target[r], journal)
        BY <3>1 DEF TargetInv
      <4>2. \A p \in Rebuilders \ {o} : at'[p] # "idle" => IsPrefix(target[r], target'[p])
        BY <2>1, <3>1 DEF Kept
      <4> QED BY <2>1, <4>1, <4>2
    <3> QED BY <2>1, <3>1, <3>2 DEF Kept
  <2> QED BY <2>3, <2>4
<1>5. ASSUME NEW o \in Rebuilders, Commit(o) PROVE AloneInv'
  <2>1. /\ at[o] = "commit" /\ at'[o] = "idle"
        /\ \A p \in Rebuilders \ {o} : at'[p] = at[p] /\ answer'[p] = answer[p]
        /\ meta' = target[o] /\ UNCHANGED <<target, alone, schema>>
    BY <1>0, <1>5 DEF Commit, Return, Goto, rebuildVars
  <2>2. schema = CurrentSchema /\ target[o] # Null
    BY <1>0, <2>1 DEF SchemaInv
  <2>3. SUFFICES ASSUME NEW r \in alone
                 PROVE  /\ at'[r] # "idle" => \A p \in Rebuilders \ {r} : at'[p] = "idle"
                        /\ at'[r] = "idle" /\ answer'[r] = "rebuilt" => Kept(r)'
    BY <2>1 DEF AloneInv
  <2>4. CASE r = o
    <3>1. \A p \in Rebuilders : at'[p] = "idle"
      BY <2>1, <2>4 DEF AloneInv
    <3>2. IsPrefix(target[o], target[o])
      BY <1>0, PrefixReflexive
    <3> QED BY <2>1, <2>2, <2>4, <3>1, <3>2 DEF Kept
  <2>5. CASE r # o
    <3>1. r \in Rebuilders /\ at[r] = "idle" /\ at'[r] = "idle"
      BY <1>0, <2>1, <2>5 DEF AloneInv
    <3>2. ASSUME answer'[r] = "rebuilt" PROVE Kept(r)'
      <4>1. Kept(r)
        BY <2>1, <2>5, <3>1, <3>2 DEF AloneInv
      <4>2. IsPrefix(target[r], target[o])
        BY <2>1, <4>1 DEF Kept
      <4>3. \A p \in Rebuilders : at'[p] # "idle" => at[p] # "idle"
        BY <2>1
      <4> QED BY <2>1, <2>2, <4>1, <4>2, <4>3 DEF Kept
    <3> QED BY <3>1, <3>2
  <2> QED BY <2>4, <2>5
<1>6. ASSUME NEW r \in Rebuilders, EnsureSchema(r) \/ SetVersion(r) PROVE AloneInv'
  BY <1>0, <1>1, <1>6 DEF EnsureSchema, SetVersion, Goto, rebuildVars, CurrentSchema
<1>7. ASSUME NEW r \in Rebuilders,
             AddColumn(r) \/ AddColumnFails(r) \/ BeginWrite(r) \/ RebuildFails(r)
             \/ RebuilderCrashes(r)
      PROVE  AloneInv'
  BY <1>0, <1>1, <1>7 DEF AddColumn, AddColumnFails, BeginWrite, RebuildFails, RebuilderCrashes,
       Goto, Return, rebuildVars, dbVars
<1>8. ASSUME NEW q \in Readers, BeginRead(q) \/ ReadStep(q) PROVE AloneInv'
  BY <1>0, <1>1, <1>8 DEF BeginRead, ReadStep, CheckPasses, CheckFails, EndQuery, Recheck, Goto,
       Return, rebuildVars, dbVars
<1> QED BY <1>2, <1>3, <1>4, <1>5, <1>6, <1>7, <1>8 DEF Next, RebuildStep


----------------------------------------------------------------------------
(***************************************************************************)
(* The theorems.                                                           *)
(***************************************************************************)
MainInv == TypeOK /\ ReadInv /\ RebuildInv

LEMMA InitMainInv == Init => MainInv
<1>1. << >> \in Journals /\ IsPrefix(<< >>, << >>)
  BY EmptySeq, PrefixReflexive DEF Journals
<1>2. [schema |-> InitialSchema, rows |-> << >>, meta |-> Null] \in Views
  BY <1>1, SchemaAssumption DEF Views
<1>3. Init => TypeOK
  <2>1. Init => PlacesOK
    BY DEF Init, PlacesOK, RebuildPlaces, ReadPlaces, Codes
  <2>2. Init => DatabaseOK
    BY <1>1, SchemaAssumption DEF Init, DatabaseOK
  <2>3. Init => CallsOK
    BY <1>1, <1>2 DEF Init, CallsOK
  <2>4. Init => journal \in Journals /\ disturbed \in Nat
    BY <1>1 DEF Init
  <2>5. Init => torn \in BOOLEAN
    BY DEF Init
  <2> QED BY <2>1, <2>2, <2>3, <2>4, <2>5 DEF TypeOK
<1>4. Init => ReadInv
  BY DEF Init, ReadInv
<1>5. Init => RebuildInv
  BY <1>1 DEF Init, RebuildInv, SchemaInv, TargetInv, MetaInv, AloneInv
<1> QED BY <1>3, <1>4, <1>5 DEF MainInv

LEMMA NextMainInv == MainInv /\ [Next]_vars => MainInv'
<1>1. ASSUME TypeOK, RebuildInv, [Next]_vars PROVE RebuildInv'
  <2>1. SUFFICES ASSUME disturbed' = 0 PROVE (SchemaInv /\ TargetInv /\ MetaInv /\ AloneInv)'
    BY DEF RebuildInv
  <2>2. SchemaInv /\ TargetInv /\ MetaInv /\ AloneInv
    BY <1>1, <2>1, JournalStep DEF RebuildInv
  <2> QED BY <1>1, <2>1, <2>2, NextSchemaInv, NextTargetInv, NextMetaInv, NextAloneInv
<1> QED BY <1>1, NextTypeOK, NextReadInv DEF MainInv

\* The variables have their types, a read's view is what it was checked against,
\* and, while nothing disturbs database and journal, everything rebuilt from the
\* journal is a beginning of it that later rebuilds extend.
THEOREM DatabasesFollowTheJournal == Spec => []MainInv
<1> QED BY InitMainInv, NextMainInv, PTL DEF Spec

\* A read succeeds only with the whole verified journal as it is at its terminal
\* recheck (_verified_projection_reader), whatever was appended, torn, rebuilt,
\* migrated, crashed or disturbed during it.
THEOREM ReadsReturnTheJournal == Spec => ReadsAreCurrent
<1>1. MainInv /\ [Next]_vars =>
        [\A q \in Readers : answer[q] = "none" /\ answer'[q] = "read" =>
           ~torn /\ view[q].rows = journal /\ view[q].meta = journal]_vars
  <2> SUFFICES ASSUME MainInv, [Next]_vars, ~UNCHANGED vars,
                      NEW q \in Readers, answer[q] = "none", answer'[q] = "read"
               PROVE  ~torn /\ view[q].rows = journal /\ view[q].meta = journal
    OBVIOUS
  <2>0. /\ answer \in [Rebuilders \cup Readers -> Codes] /\ Rebuilders \cap Readers = {}
        /\ view \in [Readers -> Views]
    BY RolesAssumption DEF MainInv, TypeOK, PlacesOK, CallsOK
  <2>1. CASE Grow \/ Tear \/ HostCrash \/ Disturb
    BY <2>0, <2>1 DEF Grow, Tear, HostCrash, Disturb
  <2>2. ASSUME NEW r \in Rebuilders, BeginRebuild(r) \/ RebuildStep(r) \/ RebuilderCrashes(r)
        PROVE  FALSE
    BY <2>0, <2>2 DEF BeginRebuild, RebuildStep, EnsureSchema, AddColumn, AddColumnFails,
         SetVersion, BeginWrite, Commit, RebuildFails, RebuilderCrashes, Return
  <2>3. ASSUME NEW p \in Readers, BeginRead(p) \/ CheckPasses(p) \/ EndQuery(p) PROVE FALSE
    BY <2>0, <2>3 DEF BeginRead, CheckPasses, EndQuery
  <2>4. ASSUME NEW p \in Readers, CheckFails(p) PROVE FALSE
    <3>1. StateCode(view[p]) # "read"
      BY <2>0, <2>4, StateCodeType DEF MainInv, CheckFails, Codes, StateCode, RowsCode
    <3> QED BY <2>0, <2>4, <3>1 DEF CheckFails, Return
  <2>5. ASSUME NEW p \in Readers, Recheck(p)
        PROVE  ~torn /\ view[q].rows = journal /\ view[q].meta = journal
    <3>1. p = q /\ at[q] = "recheck" /\ ~torn /\ verified[q] = journal
      BY <2>0, <2>5 DEF Recheck, Return
    <3> QED BY <3>1 DEF MainInv, ReadInv
  <2> QED BY <2>1, <2>2, <2>3, <2>4, <2>5 DEF Next, ReadStep
<1> QED BY <1>1, DatabasesFollowTheJournal, PTL DEF Spec, ReadsAreCurrent

\* A view refused as stale when it is checked describes a beginning of the journal
\* (_verify_projection_state_on_connection): a rebuild brings it up to date and no
\* projected event has left the journal.
THEOREM StaleViewsAreBehind == Spec => StaleMeansBehind
<1>1. MainInv /\ [Next]_vars =>
        [\A q \in Readers :
           at[q] = "check" /\ answer'[q] = "stale" => IsPrefix(view[q].meta, journal)]_vars
  <2> SUFFICES ASSUME MainInv, [Next]_vars, ~UNCHANGED vars,
                      NEW q \in Readers, at[q] = "check", answer'[q] = "stale"
               PROVE  IsPrefix(view[q].meta, journal)
    OBVIOUS
  <2>0. /\ answer \in [Rebuilders \cup Readers -> Codes] /\ Rebuilders \cap Readers = {}
        /\ view \in [Readers -> Views] /\ answer[q] = "none"
    BY RolesAssumption DEF MainInv, TypeOK, PlacesOK, CallsOK, ReadInv
  <2>1. CASE Grow \/ Tear \/ HostCrash \/ Disturb
    BY <2>0, <2>1 DEF Grow, Tear, HostCrash, Disturb
  <2>2. ASSUME NEW r \in Rebuilders, BeginRebuild(r) \/ RebuildStep(r) \/ RebuilderCrashes(r)
        PROVE  FALSE
    BY <2>0, <2>2 DEF BeginRebuild, RebuildStep, EnsureSchema, AddColumn, AddColumnFails,
         SetVersion, BeginWrite, Commit, RebuildFails, RebuilderCrashes, Return
  <2>3. ASSUME NEW p \in Readers, BeginRead(p) \/ CheckPasses(p) \/ EndQuery(p) \/ Recheck(p)
        PROVE  FALSE
    BY <2>0, <2>3 DEF BeginRead, CheckPasses, EndQuery, Recheck, Return
  <2>4. ASSUME NEW p \in Readers, CheckFails(p) PROVE IsPrefix(view[q].meta, journal)
    <3>1. p = q /\ StateCode(view[q]) = "stale"
      BY <2>0, <2>4 DEF CheckFails, Return
    <3> QED BY <2>0, <3>1, StateCodeType DEF MainInv
  <2> QED BY <2>1, <2>2, <2>3, <2>4 DEF Next, ReadStep
<1> QED BY <1>1, DatabasesFollowTheJournal, PTL DEF Spec, StaleMeansBehind

\* After a rebuild (rebuild_projection) that overlapped no other, of the journal
\* as it still is, the database can be read, whatever rebuilds failed or died
\* before it and whatever was rebuilt since.
THEOREM AloneRebuildsAreCurrent == Spec => []RebuiltAloneIsCurrent
<1>1. MainInv => RebuiltAloneIsCurrent
  <2> SUFFICES ASSUME MainInv, Settled, NEW r \in alone, answer[r] = "rebuilt",
                      target[r] = journal
               PROVE  Readable
    BY DEF RebuiltAloneIsCurrent
  <2>0. /\ r \in Rebuilders /\ journal \in Journals /\ meta \in Journals \cup {Null}
        /\ rows \in Journals
    BY DEF MainInv, TypeOK, DatabaseOK, CallsOK
  <2>1. at[r] = "idle" /\ ~torn /\ disturbed = 0
    BY <2>0 DEF Settled
  <2>2. schema = CurrentSchema /\ meta # Null /\ IsPrefix(journal, meta)
    BY <2>1 DEF MainInv, RebuildInv, AloneInv, Kept
  <2>3. rows = meta /\ IsPrefix(meta, journal)
    BY <2>1, <2>2 DEF MainInv, RebuildInv, MetaInv
  <2>4. meta = journal
    BY <2>0, <2>2, <2>3, PrefixAntisymmetric
  <2>5. RowsCode(rows, journal) = "ok"
    <3>1. PICK n \in Nat : n = Len(journal)
      BY <2>0, LenProperties DEF Journals
    <3> QED BY <2>3, <2>4, <3>1 DEF RowsCode
  <2> QED BY <2>1, <2>2, <2>4, <2>5 DEF Readable, StateCode
<1> QED BY <1>1, DatabasesFollowTheJournal, PTL

=============================================================================
