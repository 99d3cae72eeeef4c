------------------------ MODULE DerivedArtifactsProofs ------------------------
(***************************************************************************)
(* Proofs about DerivedArtifacts, for any processes, files and number of   *)
(* operations, about TrustedRoots, for any events, keys, artifacts and     *)
(* number of changes, and about EvalRun, for any scenarios, answers of the *)
(* model and number of runs.                                               *)
(***************************************************************************)
EXTENDS DerivedArtifacts, TrustedRoots, EvalRun, SequenceTheorems, FiniteSetTheorems, TLAPS

----------------------------------------------------------------------------
(***************************************************************************)
(* Types.                                                                  *)
(***************************************************************************)
Entries == [sequence : Nat, previous : Nat \cup {Null}, op : Nat, whole : BOOLEAN]

Lines == [entries : Seq(Entries), newline : BOOLEAN]

Stagings == [written : SUBSET Files, durable : SUBSET Files]

Bundles == [by : Nat, written : SUBSET Files, durable : SUBSET Files]

Counts == [count : Nat, last : Nat \cup {Null}]

TypeOK ==
  /\ log \in Seq(Lines)
  /\ logged \subseteq Nat
  /\ verified \in [Processes -> Counts \cup {Null}]
  /\ staging \in [Processes -> Stagings \cup {Null}]
  /\ final \in Bundles \cup {Null}
  /\ synced \in BOOLEAN
  /\ exported \subseteq Nat
  /\ pc \in [Processes -> {"idle", "append", "write", "publish", "sync"}]
  /\ op \in [Processes -> Nat]
  /\ ops \in Nat

(***************************************************************************)
(* The log.  Bytes of an acknowledged entry stay in the file, in whatever  *)
(* line they are, while the host is up.                                    *)
(***************************************************************************)
Holds(lines, o) ==
  \E n \in 1 .. Len(lines) : \E i \in 1 .. Len(lines[n].entries) : lines[n].entries[i].op = o

LogInv ==
  /\ \A p \in Processes : pc[p] = "append" => verified[p] \in Counts
  /\ \A o \in logged : Holds(log, o)

(***************************************************************************)
(* The bundle.  What is about to be published is durable, what is at the   *)
(* output path is durable, and an export that was acknowledged is the one  *)
(* there and durable in its directory.                                     *)
(***************************************************************************)
BundleInv ==
  /\ \A p \in Processes :
       /\ pc[p] = "write" => staging[p] \in Stagings
       /\ pc[p] = "publish" => staging[p] = [written |-> Files, durable |-> Files]
       /\ pc[p] = "sync" => final # Null /\ final.by = op[p]
  /\ final # Null => final.written = Files /\ final.durable = Files
  /\ \A n \in exported : final # Null /\ final.by = n
  /\ ~synced => exported = {}

----------------------------------------------------------------------------
\* A log that verifies has one whole entry on every line.
LEMMA VerifiedLines ==
  ASSUME TypeOK, LogVerifies, NEW n \in 1 .. Len(log)
  PROVE  LineVerifies(n)
<1> DEFINE good == {m \in 1 .. Len(log) : \A k \in 1 .. m : LineVerifies(k)}
<1>1. PICK l \in Nat : l = Len(log)
  BY LenProperties DEF TypeOK
<1>2. IsFiniteSet(1 .. l) /\ Cardinality(1 .. l) = l
  BY FS_Interval
<1>3. Cardinality(good) = Len(log)
  BY DEF LogVerifies, Verified
<1>4. good \in SUBSET (1 .. l)
  BY <1>1
<1> HIDE DEF good
<1>5. good = 1 .. l
  BY <1>1, <1>2, <1>3, <1>4, FS_Subset
<1> QED BY <1>1, <1>5 DEF good

\* What is written goes behind everything that is there.
LEMMA WrittenHolds ==
  ASSUME TypeOK, NEW entry \in Entries, NEW newline \in BOOLEAN
  PROVE  /\ Written(entry, newline) \in Seq(Lines)
         /\ \A o : Holds(log, o) => Holds(Written(entry, newline), o)
         /\ Holds(Written(entry, newline), entry.op)
<1>0. PICK k \in Nat : k = Len(log)
  BY LenProperties DEF TypeOK
<1>1. log \in Seq(Lines) /\ \A n \in 1 .. k : log[n] \in Lines
  BY <1>0, ElementOfSeq DEF TypeOK
<1>2. CASE log # << >> /\ ~Last(log).newline
  <2>1. k # 0 /\ k \in 1 .. k /\ Last(log) = log[k]
    BY <1>0, <1>1, <1>2, EmptySeq DEF Last
  <2>2. log[k].entries \in Seq(Entries)
    BY <1>1, <2>1 DEF Lines
  <2>3. PICK j \in Nat : j = Len(log[k].entries)
    BY <2>2, LenProperties
  <2>4. PICK longer : longer = Append(log[k].entries, entry)
    OBVIOUS
  <2>5. /\ longer \in Seq(Entries) /\ Len(longer) = j + 1
        /\ \A i \in 1 .. j : longer[i] = log[k].entries[i]
        /\ longer[j + 1] = entry
    BY <2>2, <2>3, <2>4, AppendProperties
  <2>6. PICK line : line = [entries |-> longer, newline |-> newline]
    OBVIOUS
  <2>7. line \in Lines /\ line.entries = longer
    BY <2>5, <2>6 DEF Lines
  <2>8. PICK front : front = SubSeq(log, 1, k - 1)
    OBVIOUS
  <2>9. /\ front \in Seq(Lines) /\ Len(front) = k - 1
        /\ \A n \in 1 .. k - 1 : front[n] = log[n]
    <3>1. \A m \in 1 .. Len(log) + 1, n \in 0 .. Len(log) :
            /\ SubSeq(log, m, n) \in Seq(Lines)
            /\ Len(SubSeq(log, m, n)) = IF m <= n THEN n - m + 1 ELSE 0
            /\ \A i \in 1 .. n - m + 1 : SubSeq(log, m, n)[i] = log[m + i - 1]
      BY <1>1, SubSeqProperties
    <3>2. 1 \in 1 .. Len(log) + 1 /\ k - 1 \in 0 .. Len(log)
      BY <1>0, <2>1
    <3>3. /\ front \in Seq(Lines)
          /\ Len(front) = IF 1 <= k - 1 THEN (k - 1) - 1 + 1 ELSE 0
          /\ \A i \in 1 .. (k - 1) - 1 + 1 : front[i] = log[1 + i - 1]
      BY <2>8, <3>1, <3>2
    <3> QED BY <2>1, <3>3
  <2>10. Written(entry, newline) = Append(front, line)
    BY <1>0, <1>2, <2>1, <2>4, <2>6, <2>8 DEF Written, Front
  <2>11. /\ Append(front, line) \in Seq(Lines) /\ Len(Append(front, line)) = k
         /\ \A n \in 1 .. k - 1 : Append(front, line)[n] = log[n]
         /\ Append(front, line)[k] = line
    <3>1. /\ Append(front, line) \in Seq(Lines) /\ Len(Append(front, line)) = Len(front) + 1
          /\ \A n \in 1 .. Len(front) : Append(front, line)[n] = front[n]
          /\ Append(front, line)[Len(front) + 1] = line
      BY <2>7, <2>9, AppendProperties
    <3>2. (k - 1) + 1 = k
      BY <1>0
    <3> QED BY <2>9, <3>1, <3>2
  <2>12. ASSUME NEW o, Holds(log, o)
         PROVE  Holds(Append(front, line), o)
    <3>1. PICK n \in 1 .. k : \E i \in 1 .. Len(log[n].entries) : log[n].entries[i].op = o
      BY <1>0, <2>12 DEF Holds
    <3>2. CASE n = k
      <4>1. \E i \in 1 .. Len(longer) : longer[i].op = o
        BY <2>3, <2>5, <3>1, <3>2
      <4> QED BY <2>1, <2>7, <2>11, <4>1 DEF Holds
    <3>3. CASE n # k
      <4>1. n \in 1 .. k - 1
        BY <1>0, <3>3
      <4> QED BY <2>11, <3>1, <4>1 DEF Holds
    <3> QED BY <3>2, <3>3
  <2>13. Holds(Append(front, line), entry.op)
    <3>1. j + 1 \in 1 .. Len(longer)
      BY <2>5
    <3> QED BY <2>1, <2>5, <2>7, <2>11, <3>1 DEF Holds
  <2> QED BY <2>10, <2>11, <2>12, <2>13
<1>3. CASE ~(log # << >> /\ ~Last(log).newline)
  <2>1. PICK line : line = [entries |-> <<entry>>, newline |-> newline]
    OBVIOUS
  <2>2. line \in Lines /\ Len(line.entries) = 1 /\ line.entries[1] = entry
    BY <2>1 DEF Lines
  <2>3. Written(entry, newline) = Append(log, line)
    BY <1>3, <2>1 DEF Written
  <2>4. /\ Append(log, line) \in Seq(Lines) /\ Len(Append(log, line)) = k + 1
        /\ \A n \in 1 .. k : Append(log, line)[n] = log[n]
        /\ Append(log, line)[k + 1] = line
    BY <1>0, <1>1, <2>2, AppendProperties
  <2>5. ASSUME NEW o, Holds(log, o)
        PROVE  Holds(Append(log, line), o)
    <3>1. PICK n \in 1 .. k : \E i \in 1 .. Len(log[n].entries) : log[n].entries[i].op = o
      BY <1>0, <2>5 DEF Holds
    <3>2. n \in 1 .. k + 1
      OBVIOUS
    <3> QED BY <2>4, <3>1, <3>2 DEF Holds
  <2>6. Holds(Append(log, line), entry.op)
    <3>1. k + 1 \in 1 .. k + 1 /\ 1 \in 1 .. 1
      OBVIOUS
    <3> QED BY <2>2, <2>4, <3>1 DEF Holds
  <2> QED BY <2>3, <2>4, <2>5, <2>6
<1> QED BY <1>2, <1>3

\* What a host crash leaves is a log.
LEMMA SurvivingShape ==
  ASSUME TypeOK, NEW lines \in SurvivingLogs
  PROVE  lines \in Seq(Lines)
<1>0. PICK k \in Nat : k = Len(log)
  BY LenProperties DEF TypeOK
<1>1. ASSUME NEW n \in 0 .. k
      PROVE  SubSeq(log, 1, n) \in Seq(Lines)
  <2>1. log \in Seq(Lines) /\ 1 \in 1 .. Len(log) + 1 /\ n \in 0 .. Len(log)
    BY <1>0 DEF TypeOK
  <2> QED BY <2>1, SubSeqProperties
<1>2. ASSUME NEW n \in 1 .. k, NEW left \in Beginnings(log[n].entries)
      PROVE  SubSeq(log, 1, n - 1) \o <<[entries |-> left, newline |-> FALSE]>> \in Seq(Lines)
  <2>1. log[n].entries \in Seq(Entries)
    <3>1. log[n] \in Lines
      BY <1>0, ElementOfSeq DEF TypeOK
    <3> QED BY <3>1 DEF Lines
  <2>2. PICK m \in 1 .. Len(log[n].entries), whole \in BOOLEAN :
          left = [SubSeq(log[n].entries, 1, m) EXCEPT ![m].whole = @ /\ whole]
    BY DEF Beginnings
  <2>3. PICK part : part = SubSeq(log[n].entries, 1, m)
    OBVIOUS
  <2>4. part \in Seq(Entries) /\ m \in 1 .. Len(part)
    <3>1. Len(log[n].entries) \in Nat
      BY <2>1, LenProperties
    <3>2. 1 \in 1 .. Len(log[n].entries) + 1 /\ m \in 0 .. Len(log[n].entries) /\ 1 <= m
      BY <3>1
    <3>3. part \in Seq(Entries) /\ Len(part) = m - 1 + 1
      BY <2>1, <2>3, <3>2, SubSeqProperties
    <3> QED BY <3>2, <3>3
  <2>5. left = [part EXCEPT ![m] = [part[m] EXCEPT !.whole = @ /\ whole]]
    BY <2>2, <2>3
  <2>6. part[m] \in Entries
    BY <2>4, ElementOfSeq
  <2>7. [part[m] EXCEPT !.whole = @ /\ whole] \in Entries
    BY <2>6 DEF Entries
  <2>8. left \in Seq(Entries)
    BY <2>4, <2>5, <2>7, ExceptSeq
  <2>9. [entries |-> left, newline |-> FALSE] \in Lines
    BY <2>8 DEF Lines
  <2>10. PICK line \in Lines : line = [entries |-> left, newline |-> FALSE]
    BY <2>9
  <2>11. <<line>> \in Seq(Lines)
    OBVIOUS
  <2>12. SubSeq(log, 1, n - 1) \in Seq(Lines)
    <3>1. n - 1 \in 0 .. k
      OBVIOUS
    <3> QED BY <1>1, <3>1
  <2>13. SubSeq(log, 1, n - 1) \o <<line>> \in Seq(Lines)
    BY <2>11, <2>12, ConcatProperties
  <2> QED BY <2>10, <2>13
<1>3. \/ \E n \in 0 .. Len(log) : lines = SubSeq(log, 1, n)
      \/ \E n \in 1 .. Len(log) : \E left \in Beginnings(log[n].entries) :
           lines = SubSeq(log, 1, n - 1) \o <<[entries |-> left, newline |-> FALSE]>>
  BY DEF SurvivingLogs
<1> QED BY <1>0, <1>1, <1>2, <1>3

----------------------------------------------------------------------------
\* What a process that is about to append has verified is well typed.
LEMMA LastEntryType ==
  ASSUME TypeOK, LogVerifies
  PROVE  [count |-> Verified, last |-> LastEntry] \in Counts
<1>1. PICK k \in Nat : k = Len(log) /\ Verified = k
  BY LenProperties DEF TypeOK, LogVerifies
<1>2. LastEntry \in Nat \cup {Null}
  <2>1. CASE k = 0
    BY <1>1, <2>1 DEF LastEntry
  <2>2. CASE k # 0
    <3>1. k \in 1 .. Len(log)
      BY <1>1, <2>2
    <3>2. log[k] \in Lines /\ Parses(log[k])
      BY <3>1, VerifiedLines, ElementOfSeq DEF TypeOK, LineVerifies
    <3>3. log[k].entries \in Seq(Entries) /\ Len(log[k].entries) = 1
      BY <3>2 DEF Lines, Parses
    <3>4. log[k].entries[1] \in Entries
      BY <3>3, ElementOfSeq
    <3> QED BY <1>1, <2>2, <3>4 DEF LastEntry, EntryAt, Entries
  <2> QED BY <2>1, <2>2
<1> QED BY <1>1, <1>2 DEF Counts

LEMMA EntryType ==
  ASSUME TypeOK, LogInv, NEW p \in Processes, pc[p] = "append"
  PROVE  Entry(p) \in Entries /\ Entry(p).op = op[p]
<1>1. verified[p] \in Counts
  BY DEF LogInv
<1> QED BY <1>1 DEF Entry, Entries, Counts, TypeOK

\* A staging directory gets another file.
LEMMA WriteFileShape ==
  ASSUME TypeOK, BundleInv, NEW p \in Processes, WriteFile(p)
  PROVE  /\ pc[p] = "write" /\ staging'[p] \in Stagings
         /\ staging' \in [Processes -> Stagings \cup {Null}]
         /\ \A q \in Processes \ {p} : staging'[q] = staging[q]
<1>1. PICK file \in Files \ staging[p].written :
        staging' = [staging EXCEPT ![p].written = @ \cup {file}]
  BY DEF WriteFile
<1>2. staging[p] \in Stagings /\ pc[p] = "write"
  BY DEF WriteFile, BundleInv
<1>3. PICK more : more = [staging[p] EXCEPT !.written = @ \cup {file}]
  OBVIOUS
<1>4. more \in Stagings
  BY <1>2, <1>3 DEF Stagings
<1>5. staging' = [staging EXCEPT ![p] = more]
  BY <1>1, <1>3
<1> QED BY <1>2, <1>4, <1>5 DEF TypeOK

MainInv == TypeOK /\ LogInv /\ BundleInv

LEMMA InitMainInv == Init => MainInv
<1> SUFFICES ASSUME Init PROVE MainInv
  OBVIOUS
<1>1. << >> \in Seq(Lines)
  BY EmptySeq
<1> QED BY <1>1 DEF Init, MainInv, TypeOK, LogInv, BundleInv

LEMMA NextTypeOK ==
  ASSUME TypeOK, LogInv, BundleInv, [Next]_vars
  PROVE  TypeOK'
<1> USE DEF TypeOK, Goto, Begin, logVars, bundleVars
<1>1. CASE UNCHANGED vars
  BY <1>1 DEF vars
<1>2. ASSUME NEW p \in Processes, VerifyLog(p) PROVE TypeOK'
  BY <1>2, LastEntryType DEF VerifyLog
<1>3. ASSUME NEW p \in Processes, AppendEntry(p) PROVE TypeOK'
  <2>1. log' \in Seq(Lines)
    BY <1>3, EntryType, WrittenHolds DEF AppendEntry
  <2> QED BY <1>3, <2>1 DEF AppendEntry
<1>4. ASSUME NEW p \in Processes, AppendFails(p) PROVE TypeOK'
  <2>1. ASSUME NEW whole \in BOOLEAN PROVE [Entry(p) EXCEPT !.whole = whole] \in Entries
    BY <1>4, EntryType DEF AppendFails, Entries
  <2>2. log' \in Seq(Lines)
    BY <1>4, <2>1, WrittenHolds DEF AppendFails
  <2> QED BY <1>4, <2>2 DEF AppendFails
<1>5. ASSUME NEW p \in Processes, BeginExport(p) PROVE TypeOK'
  BY <1>5 DEF BeginExport, Stagings
<1>6. ASSUME NEW p \in Processes, WriteFile(p) PROVE TypeOK'
  BY <1>6, WriteFileShape DEF WriteFile
<1>7. ASSUME NEW p \in Processes, SyncStaging(p) PROVE TypeOK'
  BY <1>7 DEF SyncStaging, Stagings, BundleInv
<1>8. ASSUME NEW p \in Processes, Publish(p) PROVE TypeOK'
  <2>1. Bundle(p) \in Bundles
    BY <1>8 DEF Publish, Bundle, Bundles, BundleInv
  <2> QED BY <1>8, <2>1 DEF Publish
<1>9. ASSUME NEW p \in Processes, SyncParent(p) PROVE TypeOK'
  BY <1>9 DEF SyncParent
<1>10. ASSUME NEW p \in Processes, ExportFails(p) \/ ProcessCrash(p) PROVE TypeOK'
  BY <1>10 DEF ExportFails, ProcessCrash
<1>11. CASE HostCrash
  <2>1. log' \in Seq(Lines)
    BY <1>11, SurvivingShape DEF HostCrash
  <2>2. final' \in Bundles \cup {Null}
    BY <1>11 DEF HostCrash, Bundles
  <2> QED BY <1>11, <2>1, <2>2 DEF HostCrash
<1> QED BY <1>1, <1>2, <1>3, <1>4, <1>5, <1>6, <1>7, <1>8, <1>9, <1>10, <1>11 DEF Next

LEMMA NextLogInv ==
  ASSUME TypeOK, LogInv, [Next]_vars
  PROVE  LogInv'
<1> USE DEF TypeOK, Goto, Begin, logVars, bundleVars
<1>1. CASE UNCHANGED vars
  <2>1. UNCHANGED <<log, logged, verified, pc>>
    BY <1>1 DEF vars
  <2> QED BY <2>1 DEF LogInv, Holds
<1>2. ASSUME NEW p \in Processes, VerifyLog(p) PROVE LogInv'
  BY <1>2, LastEntryType DEF VerifyLog, LogInv, Holds
<1>3. ASSUME NEW p \in Processes, AppendEntry(p) PROVE LogInv'
  <2>1. /\ \A o : Holds(log, o) => Holds(log', o)
        /\ Holds(log', op[p])
    BY <1>3, EntryType, WrittenHolds DEF AppendEntry
  <2>2. \A o \in logged' : Holds(log', o)
    BY <1>3, <2>1 DEF AppendEntry, LogInv
  <2>3. \A q \in Processes : pc'[q] = "append" => verified'[q] \in Counts
    BY <1>3 DEF AppendEntry, LogInv
  <2> QED BY <2>2, <2>3 DEF LogInv, Holds
<1>4. ASSUME NEW p \in Processes, AppendFails(p) PROVE LogInv'
  <2>1. ASSUME NEW whole \in BOOLEAN PROVE [Entry(p) EXCEPT !.whole = whole] \in Entries
    BY <1>4, EntryType DEF AppendFails, Entries
  <2>2. \A o : Holds(log, o) => Holds(log', o)
    BY <1>4, <2>1, WrittenHolds DEF AppendFails
  <2>3. \A o \in logged' : Holds(log', o)
    BY <1>4, <2>2 DEF AppendFails, LogInv
  <2>4. \A q \in Processes : pc'[q] = "append" => verified'[q] \in Counts
    BY <1>4 DEF AppendFails, LogInv
  <2> QED BY <2>3, <2>4 DEF LogInv, Holds
<1>5. ASSUME UNCHANGED <<log, logged, verified>>,
             \A p \in Processes : pc'[p] = "append" => pc[p] = "append"
      PROVE  LogInv'
  BY <1>5 DEF LogInv, Holds
<1>6. ASSUME NEW p \in Processes,
             \/ BeginExport(p) \/ WriteFile(p) \/ SyncStaging(p) \/ Publish(p)
             \/ SyncParent(p) \/ ExportFails(p) \/ ProcessCrash(p)
      PROVE  LogInv'
  BY <1>5, <1>6 DEF BeginExport, WriteFile, SyncStaging, Publish, SyncParent, ExportFails,
                    ProcessCrash
<1>8. CASE HostCrash
  BY <1>8 DEF HostCrash, LogInv
<1> HIDE DEF TypeOK, Goto, Begin, logVars, bundleVars
<1> QED BY <1>1, <1>2, <1>3, <1>4, <1>6, <1>8 DEF Next

LEMMA NextBundleInv ==
  ASSUME TypeOK, BundleInv, [Next]_vars
  PROVE  BundleInv'
<1> USE DEF TypeOK, Goto, Begin, logVars, bundleVars
<1>1. CASE UNCHANGED vars
  BY <1>1 DEF vars, BundleInv
<1>2. ASSUME NEW p \in Processes, VerifyLog(p) \/ AppendEntry(p) \/ AppendFails(p)
      PROVE  BundleInv'
  <2>1. UNCHANGED <<final, staging, exported, synced>>
    BY <1>2 DEF VerifyLog, AppendEntry, AppendFails
  <2>2. ASSUME NEW q \in Processes, pc'[q] \in {"write", "publish", "sync"}
        PROVE  pc[q] = pc'[q] /\ op'[q] = op[q]
    BY <1>2, <2>2 DEF VerifyLog, AppendEntry, AppendFails
  <2> QED BY <2>1, <2>2 DEF BundleInv
<1>3. ASSUME NEW p \in Processes, BeginExport(p) PROVE BundleInv'
  BY <1>3 DEF BeginExport, BundleInv, Stagings
<1>4. ASSUME NEW p \in Processes, WriteFile(p) PROVE BundleInv'
  BY <1>4, WriteFileShape DEF WriteFile, BundleInv
<1>5. ASSUME NEW p \in Processes, SyncStaging(p) PROVE BundleInv'
  <2>1. staging'[p] = [written |-> Files, durable |-> Files]
    BY <1>5 DEF SyncStaging, BundleInv, Stagings
  <2> QED BY <1>5, <2>1 DEF SyncStaging, BundleInv
<1>6. ASSUME NEW p \in Processes, Publish(p) PROVE BundleInv'
  <2>1. Bundle(p) = [by |-> op[p], written |-> Files, durable |-> Files]
    BY <1>6 DEF Publish, Bundle, BundleInv
  <2>2. Bundle(p) # Null
    BY <2>1, NullAssumption
  <2>3. \A q \in Processes : pc[q] # "sync"
    BY <1>6 DEF Publish, BundleInv
  <2>4. exported = {}
    BY <1>6 DEF Publish, BundleInv
  <2> QED BY <1>6, <2>1, <2>2, <2>3, <2>4 DEF Publish, BundleInv
<1>7. ASSUME NEW p \in Processes, SyncParent(p) PROVE BundleInv'
  BY <1>7 DEF SyncParent, BundleInv
<1>8. ASSUME NEW p \in Processes, ExportFails(p) \/ ProcessCrash(p) PROVE BundleInv'
  BY <1>8 DEF ExportFails, ProcessCrash, BundleInv
<1>9. CASE HostCrash
  <2>1. /\ pc' = [p \in Processes |-> "idle"] /\ synced' = TRUE /\ exported' = exported
    BY <1>9 DEF HostCrash
  <2>2. CASE final' = Null
    <3>1. exported = {}
      BY <1>9, <2>2, NullAssumption DEF HostCrash, BundleInv, Bundles
    <3> QED BY <2>1, <2>2, <3>1 DEF BundleInv
  <2>3. CASE final # Null /\ final' = [final EXCEPT !.written = final.durable]
    <3>1. /\ final' \in Bundles /\ final'.by = final.by
          /\ final'.written = Files /\ final'.durable = Files
      BY <2>3 DEF BundleInv, Bundles
    <3>2. final' # Null
      BY <3>1, NullAssumption DEF Bundles
    <3> QED BY <2>1, <2>3, <3>1, <3>2 DEF BundleInv
  <2> QED BY <1>9, <2>2, <2>3 DEF HostCrash
<1> QED BY <1>1, <1>2, <1>3, <1>4, <1>5, <1>6, <1>7, <1>8, <1>9 DEF Next

\* Every reachable state is well typed, acknowledged entries are in the file,
\* and what was published is durable.
THEOREM ArtifactsAreKept == Spec => []MainInv
<1>1. MainInv /\ [Next]_vars => MainInv'
  BY NextTypeOK, NextLogInv, NextBundleInv DEF MainInv
<1> QED BY <1>1, InitMainInv, PTL DEF Spec

----------------------------------------------------------------------------
\* An anchor log that verifies holds every entry that was acknowledged since
\* the host came up, however appends raced or continued an open line.
THEOREM VerificationMissesNothing == Spec => []VerifiedLogHoldsAcknowledged
<1>1. MainInv => VerifiedLogHoldsAcknowledged
  <2> SUFFICES ASSUME MainInv, LogVerifies, NEW o \in logged
               PROVE  \E n \in 1 .. Len(log) : o = EntryAt(n).op
    BY DEF VerifiedLogHoldsAcknowledged
  <2>1. PICK n \in 1 .. Len(log) : \E i \in 1 .. Len(log[n].entries) : log[n].entries[i].op = o
    BY DEF MainInv, LogInv, Holds
  <2>2. Len(log[n].entries) = 1
    BY VerifiedLines DEF MainInv, LineVerifies, Parses
  <2>3. log[n].entries[1].op = o
    BY <2>1, <2>2
  <2> QED BY <2>3 DEF EntryAt
<1> QED BY <1>1, ArtifactsAreKept, PTL

\* A bundle at the output path is complete, after a crash of the host too.
THEOREM BundlesAreComplete == Spec => []PublishedIsComplete
<1>1. MainInv => PublishedIsComplete
  BY DEF MainInv, BundleInv, PublishedIsComplete
<1> QED BY <1>1, ArtifactsAreKept, PTL

\* An export that was acknowledged is at the output path for good.
THEOREM ExportsAreDurable == Spec => []AcknowledgedExportStays
<1>1. MainInv => AcknowledgedExportStays
  BY DEF MainInv, BundleInv, AcknowledgedExportStays
<1> QED BY <1>1, ArtifactsAreKept, PTL

\* No step puts one bundle in the place of another.
THEOREM BundlesAreNotReplaced == Spec => PublishedStays
<1>1. ASSUME MainInv, [Next]_vars
      PROVE  final # Null /\ final' # Null => final'.by = final.by
  <2> SUFFICES ASSUME final # Null, final' # Null PROVE final'.by = final.by
    OBVIOUS
  <2>1. CASE HostCrash
    <3>1. final' = [final EXCEPT !.written = final.durable] /\ final \in Bundles
      BY <1>1, <2>1 DEF HostCrash, MainInv, TypeOK
    <3> QED BY <3>1 DEF Bundles
  <2>2. CASE UNCHANGED final
    BY <2>2
  <2>3. \A p \in Processes : ~Publish(p)
    BY DEF Publish
  <2> QED BY <1>1, <2>1, <2>2, <2>3
          DEF Next, vars, bundleVars, VerifyLog, AppendEntry, AppendFails, BeginExport, WriteFile,
              SyncStaging, SyncParent, ExportFails, ProcessCrash
<1>2. MainInv /\ [Next]_vars => [final # Null /\ final' # Null => final'.by = final.by]_vars
  BY <1>1
<1> QED BY <1>2, ArtifactsAreKept, PTL DEF Spec, PublishedStays

----------------------------------------------------------------------------
(***************************************************************************)
(* Artifacts that pin a journal down.  What a file holds, unless it is     *)
(* missing or torn, is what its command computed from an undamaged         *)
(* journal; the command under way has read such a file.                    *)
(***************************************************************************)
SourceJournals ==
  [present : BOOLEAN, trail : Seq(EventIds), damaged : BOOLEAN, form : {0, 1}]

\* The count and the last hash of an anchor or a manifest belong together.
Pins(root, trail) == trail \in Seq(EventIds) /\ root.count = Len(trail) /\ root.last = trail

Content(file, content) ==
  content \notin {Missing, Torn} =>
    /\ file \in {"anchor", "segment"} => Pins(content, content.last)
    /\ file = "archive" => /\ content.digest.damaged = FALSE
                           /\ Pins(content, content.digest.trail)
    /\ file = "statement" => content.anchor = content.commit.anchor

TaskHolds(command) ==
  /\ command.name = "write" => Content(command.file, command.content)
  /\ command.name = "verify_anchor" => Pins(command.root, command.root.last)
  /\ command.name = "verify_archive" =>
       /\ command.root.digest.damaged = FALSE
       /\ Pins(command.root, command.root.digest.trail)
       /\ command.hashed.present
       /\ command.issues = {} <=> command.hashed = command.root.digest
  /\ command.name = "verify_statement" =>
       /\ command.root.anchor = command.root.commit.anchor
       /\ command.issues = {} => command.read = command.root.anchor
       /\ command = [name |-> command.name, root |-> command.root, read |-> command.read,
                     repos |-> command.repos, issues |-> command.issues]

SourceInv == source \in SourceJournals

FilesInv ==
  /\ files = [file \in DOMAIN files |-> files[file]]
  /\ \A file \in DOMAIN files : Content(file, files[file])

RepoInv ==
  /\ repo = [head |-> repo.head, objects |-> repo.objects]
  /\ repo.objects = {} \/ repo.head \in repo.objects
  /\ "anchor" \in DOMAIN files => \A commit \in repo.objects : Content("anchor", commit.anchor)

TaskInv == task # Missing => TaskHolds(task)

RootsInv == SourceInv /\ FilesInv /\ RepoInv /\ TaskInv /\ TrustedRootsHold

\* A verifier finds no issue in the tail exactly when the journal is the pinned one.
LEMMA TailIssuesMean ==
  ASSUME NEW journal \in SourceJournals, NEW root, NEW trail, Pins(root, trail)
  PROVE  TailIssues(journal, root.count, root.last) = {}
           <=> ~journal.damaged /\ journal.trail = trail
<1> DEFINE issues == TailIssues(journal, root.count, root.last)
<1>1. journal.trail \in Seq(EventIds) /\ trail \in Seq(EventIds)
  BY DEF SourceJournals, Pins
<1>2. "record" \in issues <=> journal.damaged
  BY DEF TailIssues
<1>3. "count" \in issues <=> root.count # Len(Reached(journal))
  BY DEF TailIssues
<1>4. "last" \in issues <=> (root.last # << >> /\ root.last # Reached(journal))
  BY DEF TailIssues
<1>5. issues \subseteq {"record", "count", "last"}
  BY DEF TailIssues
<1>6. issues = {} <=> ("record" \notin issues /\ "count" \notin issues /\ "last" \notin issues)
  BY <1>5
<1>7. CASE journal.damaged
  BY <1>2, <1>7
<1>8. CASE ~journal.damaged
  <2>1. Reached(journal) = journal.trail
    BY <1>8 DEF Reached
  <2>2. CASE trail = << >>
    <3>1. Len(trail) = 0 /\ (Len(journal.trail) = 0 <=> journal.trail = << >>)
      BY <1>1, <2>2, EmptySeq
    <3> QED BY <1>2, <1>3, <1>4, <1>6, <1>8, <2>1, <2>2, <3>1 DEF Pins
  <2>3. CASE trail # << >>
    BY <1>2, <1>3, <1>4, <1>6, <1>8, <2>1, <2>3 DEF Pins
  <2> QED BY <2>2, <2>3
<1> QED BY <1>7, <1>8

LEMMA RootsInitially == TrustedRootsInit => RootsInv
<1> SUFFICES ASSUME TrustedRootsInit PROVE RootsInv
  OBVIOUS
<1>1. SourceInv
  BY EmptySeq DEF TrustedRootsInit, SourceInv, SourceJournals
<1>2. FilesInv
  BY DEF TrustedRootsInit, FilesInv, Content
<1>3. RepoInv /\ TaskInv
  BY DEF TrustedRootsInit, RepoInv, TaskInv
<1>4. TrustedRootsHold
  BY DEF TrustedRootsInit, TrustedRootsHold
<1> QED BY <1>1, <1>2, <1>3, <1>4 DEF RootsInv

\* What others do to the journal leaves a journal.
LEMMA NextSource == RootsInv /\ [TrustedRootsNext]_rootVars => SourceInv'
<1> SUFFICES ASSUME RootsInv, [TrustedRootsNext]_rootVars PROVE SourceInv'
  OBVIOUS
<1> USE DEF RootsInv, SourceInv
<1>1. CASE UNCHANGED source
  BY <1>1
<1>2. CASE AppendEvent
  <2>1. PICK id \in EventIds :
          source' = [source EXCEPT !.present = TRUE, !.trail = Append(@, id)]
    BY <1>2 DEF AppendEvent, Changed
  <2>2. Append(source.trail, id) \in Seq(EventIds)
    BY AppendProperties DEF SourceJournals
  <2> QED BY <2>1, <2>2 DEF SourceJournals
<1>3. CASE AlterJournal
  <2>1. source.trail # << >> => Front(source.trail) \in Seq(EventIds)
    <3>1. source.trail \in Seq(EventIds)
      BY DEF SourceJournals
    <3> QED BY <3>1 DEF Front
  <2>2. 1 - source.form \in {0, 1}
    BY DEF SourceJournals
  <2>3. << >> \in Seq(EventIds)
    BY EmptySeq
  <2>4. CASE source.trail # << >> /\ source' = [source EXCEPT !.trail = Front(@), !.damaged = FALSE]
    BY <2>1, <2>4 DEF SourceJournals
  <2>5. CASE source' = [source EXCEPT !.damaged = TRUE]
    BY <2>5 DEF SourceJournals
  <2>6. CASE source' = [source EXCEPT !.form = 1 - @]
    BY <2>2, <2>6 DEF SourceJournals
  <2>7. CASE source' = [present |-> FALSE, trail |-> << >>, damaged |-> FALSE, form |-> 0]
    BY <2>3, <2>7 DEF SourceJournals
  <2> QED BY <1>3, <2>4, <2>5, <2>6, <2>7 DEF AlterJournal, Changed
<1> QED
  BY <1>1, <1>2, <1>3
     DEF TrustedRootsNext, rootVars, Write, Answer, CreateAnchor, WriteArtifact, VerifyAnchor,
         AnswerAnchor, CreateArchiveManifest, HashArchivedJournal, AnswerArchive, ResolveRef,
         CreateStatement, ReadAnchorFile, ReadRepository, AnswerStatement, CreateAttestation,
         VerifyAttestation, StartExport, ExportEvent, AcknowledgeExport, ProcessDies, CommitAnchor, MoveRef,
         RestoreAnchor

\* A file that is written anew holds what its command computed.
LEMMA WrittenFiles ==
  ASSUME FilesInv, NEW file, NEW content, Content(file, content),
         files' = [files EXCEPT ![file] = content]
  PROVE  FilesInv' /\ DOMAIN files' = DOMAIN files
<1>1. files' = [f \in DOMAIN files |-> IF f = file THEN content ELSE files[f]]
  BY DEF FilesInv
<1>2. DOMAIN files' = DOMAIN files
  BY <1>1
<1>3. \A f \in DOMAIN files : files'[f] = IF f = file THEN content ELSE files[f]
  BY <1>1
<1>4. \A f \in DOMAIN files' : Content(f, files'[f])
  BY <1>2, <1>3 DEF FilesInv
<1>5. files' = [f \in DOMAIN files' |-> files'[f]]
  BY <1>1, <1>2, <1>3
<1> QED BY <1>2, <1>4, <1>5 DEF FilesInv

LEMMA NextFiles == RootsInv /\ [TrustedRootsNext]_rootVars => FilesInv' /\ DOMAIN files' = DOMAIN files
<1> SUFFICES ASSUME RootsInv, [TrustedRootsNext]_rootVars
             PROVE  FilesInv' /\ DOMAIN files' = DOMAIN files
  OBVIOUS
<1>0. FilesInv /\ TaskInv /\ RepoInv
  BY DEF RootsInv
<1>1. CASE UNCHANGED files
  BY <1>0, <1>1 DEF FilesInv
<1>2. CASE WriteArtifact
  <2>1. Content(task.file, task.content)
    BY <1>0, <1>2 DEF WriteArtifact, TaskInv, TaskHolds
  <2>2. Content(task.file, Torn)
    BY DEF Content
  <2>3. PICK content \in {task.content, Torn} : files' = [files EXCEPT ![task.file] = content]
    BY <1>2 DEF WriteArtifact, Write
  <2> QED BY <1>0, <2>1, <2>2, <2>3, WrittenFiles
<1>3. CASE CreateStatement
  <2> DEFINE statement == [commit |-> task.commit, anchor |-> files["anchor"]]
  <2>1. CASE UNCHANGED files
    BY <1>1, <2>1
  <2>2. CASE /\ files' = [files EXCEPT !["statement"] = statement]
             /\ task.commit.anchor = files["anchor"]
    <3>1. Content("statement", statement)
      BY <2>2 DEF Content
    <3> QED BY <1>0, <2>2, <3>1, WrittenFiles
  <2> QED BY <1>3, <2>1, <2>2 DEF CreateStatement, Write
<1>4. CASE StartExport \/ ExportEvent
  <2>1. \A content : Content("export", content)
    BY DEF Content
  <2>2. PICK content : files' = [files EXCEPT !["export"] = content]
    BY <1>4 DEF StartExport, ExportEvent
  <2> QED BY <1>0, <2>1, <2>2, WrittenFiles
<1>5. CASE RestoreAnchor
  <2>1. PICK commit \in repo.objects : files' = [files EXCEPT !["anchor"] = commit.anchor]
    BY <1>5 DEF RestoreAnchor
  <2>2. CASE "anchor" \in DOMAIN files
    <3>1. Content("anchor", commit.anchor)
      BY <1>0, <2>1, <2>2 DEF RepoInv
    <3> QED BY <1>0, <2>1, <3>1, WrittenFiles
  <2>3. CASE "anchor" \notin DOMAIN files
    <3>1. files' = files
      BY <1>0, <2>1, <2>3 DEF FilesInv
    <3> QED BY <1>1, <3>1
  <2> QED BY <2>2, <2>3
<1> QED
  BY <1>1, <1>2, <1>3, <1>4, <1>5
     DEF TrustedRootsNext, rootVars, Answer, CreateAnchor, VerifyAnchor, AnswerAnchor,
         CreateArchiveManifest, HashArchivedJournal, AnswerArchive, ResolveRef, ReadAnchorFile,
         ReadRepository, AnswerStatement, CreateAttestation, VerifyAttestation, AcknowledgeExport, ProcessDies,
         AppendEvent, AlterJournal, Changed, CommitAnchor, MoveRef

LEMMA NextRepo == RootsInv /\ [TrustedRootsNext]_rootVars => RepoInv'
<1> SUFFICES ASSUME RootsInv, [TrustedRootsNext]_rootVars PROVE RepoInv'
  OBVIOUS
<1>0. RepoInv /\ FilesInv /\ DOMAIN files' = DOMAIN files
  BY NextFiles DEF RootsInv
<1>1. CASE UNCHANGED repo
  BY <1>0, <1>1 DEF RepoInv
<1>2. CASE CommitAnchor
  <2> DEFINE commit == [at |-> changes, anchor |-> files["anchor"]]
  <2>1. repo' = [head |-> commit, objects |-> repo.objects \cup {commit}]
    BY <1>2 DEF CommitAnchor
  <2>2. "anchor" \in DOMAIN files => Content("anchor", commit.anchor)
    BY <1>0 DEF FilesInv
  <2> HIDE DEF commit
  <2> QED BY <1>0, <2>1, <2>2 DEF RepoInv
<1>3. CASE MoveRef
  <2>1. CASE \E commit \in repo.objects \ {repo.head} : repo' = [repo EXCEPT !.head = commit]
    <3>1. PICK commit \in repo.objects : repo' = [repo EXCEPT !.head = commit]
      BY <2>1
    <3>2. repo' = [head |-> commit, objects |-> repo.objects]
      BY <1>0, <3>1 DEF RepoInv
    <3> QED BY <1>0, <3>1, <3>2 DEF RepoInv
  <2>2. CASE Cardinality(repo.objects) > 1 /\ repo' = [repo EXCEPT !.objects = {repo.head}]
    <3>1. repo' = [head |-> repo.head, objects |-> {repo.head}]
      BY <1>0, <2>2 DEF RepoInv
    <3>2. repo.objects # {}
      BY <2>2, FS_EmptySet
    <3> QED BY <1>0, <3>1, <3>2 DEF RepoInv
  <2> QED BY <1>3, <2>1, <2>2 DEF MoveRef
<1> QED
  BY <1>1, <1>2, <1>3
     DEF TrustedRootsNext, rootVars, Write, Answer, CreateAnchor, WriteArtifact, VerifyAnchor,
         AnswerAnchor, CreateArchiveManifest, HashArchivedJournal, AnswerArchive, ResolveRef,
         CreateStatement, ReadAnchorFile, ReadRepository, AnswerStatement, CreateAttestation,
         VerifyAttestation, StartExport, ExportEvent, AcknowledgeExport, ProcessDies, AppendEvent, AlterJournal,
         Changed, RestoreAnchor

\* The command under way has read what its files held.
LEMMA NextTask == RootsInv /\ [TrustedRootsNext]_rootVars => TaskInv'
<1> SUFFICES ASSUME RootsInv, [TrustedRootsNext]_rootVars, task' # Missing PROVE TaskHolds(task')
  BY DEF TaskInv
<1>0. SourceInv /\ FilesInv /\ TaskInv
  BY DEF RootsInv
<1>1. CASE task' = task
  BY <1>0, <1>1 DEF TaskInv
<1>2. CASE CreateAnchor
  <2>1. PICK file \in {"anchor", "segment"}, key \in SigningKeys \cup {Missing} :
          task' = [name |-> "write", file |-> file, content |-> JournalAnchor(source, key)]
    BY <1>2 DEF CreateAnchor, Start
  <2>2. Reached(source) = source.trail /\ source.trail \in Seq(EventIds)
    BY <1>0, <1>2 DEF CreateAnchor, Verifies, Reached, SourceInv, SourceJournals
  <2>3. Content(file, JournalAnchor(source, key))
    BY <2>1, <2>2 DEF Content, JournalAnchor, Pins
  <2> QED BY <2>1, <2>3 DEF TaskHolds
<1>3. CASE VerifyAnchor
  <2>1. PICK file \in {"anchor", "segment"}, key \in SigningKeys \cup {Missing} :
          /\ Loaded(file)
          /\ task' = [name |-> "verify_anchor", root |-> files[file],
                      issues |-> SignatureIssues(files[file], key)]
    BY <1>3 DEF VerifyAnchor, Start
  <2>2. Pins(files[file], files[file].last)
    BY <1>0, <2>1 DEF Loaded, FilesInv, Content
  <2> QED BY <2>1, <2>2 DEF TaskHolds
<1>4. CASE CreateArchiveManifest
  <2>1. task' = [name |-> "write", file |-> "archive", content |-> ArchiveManifest(source)]
    BY <1>4 DEF CreateArchiveManifest, Start
  <2>2. source.damaged = FALSE /\ source.trail \in Seq(EventIds)
    BY <1>0, <1>4 DEF CreateArchiveManifest, Verifies, SourceInv, SourceJournals
  <2>3. Content("archive", ArchiveManifest(source))
    BY <2>2 DEF Content, ArchiveManifest, Pins
  <2> QED BY <2>1, <2>3 DEF TaskHolds
<1>5. CASE HashArchivedJournal
  <2> DEFINE root == files["archive"]
             issues == IF source # root.digest THEN {"hash"} ELSE {}
  <2>1. /\ source.present
        /\ task' = [name |-> "verify_archive", root |-> root, hashed |-> source, issues |-> issues]
    BY <1>5 DEF HashArchivedJournal, Start, Answer
  <2>2. root.digest.damaged = FALSE /\ Pins(root, root.digest.trail)
    BY <1>0, <1>5 DEF HashArchivedJournal, Loaded, FilesInv, Content
  <2>3. issues = {} <=> source = root.digest
    OBVIOUS
  <2> HIDE DEF root, issues
  <2> QED BY <2>1, <2>2, <2>3 DEF TaskHolds
<1>6. CASE ResolveRef \/ StartExport
  <2>1. PICK command : task' = command /\ command.name \in {"state", "export"}
    BY <1>6 DEF ResolveRef, StartExport, Start
  <2> QED BY <2>1 DEF TaskHolds
<1>7. CASE ReadAnchorFile
  <2> DEFINE root == files["statement"]
             issues == IF files["anchor"] # root.anchor THEN {"anchor"} ELSE {}
  <2>1. task' = [name |-> "verify_statement", root |-> root, read |-> files["anchor"],
                 repos |-> << >>, issues |-> issues]
    BY <1>7 DEF ReadAnchorFile, Start
  <2>2. root.anchor = root.commit.anchor
    BY <1>0, <1>7 DEF ReadAnchorFile, Loaded, FilesInv, Content
  <2>3. issues = {} => files["anchor"] = root.anchor
    OBVIOUS
  <2> HIDE DEF root, issues
  <2> QED BY <2>1, <2>2, <2>3 DEF TaskHolds
<1>8. CASE CreateAttestation
  <2>1. PICK content :
          task' = [name |-> "write", file |-> "attestation", content |-> content]
    BY <1>8 DEF CreateAttestation, Start
  <2>2. Content("attestation", content)
    BY DEF Content
  <2> QED BY <2>1, <2>2 DEF TaskHolds
<1>9. CASE ReadRepository
  <2> DEFINE repos == Append(task.repos, repo)
  <2>1. task # Missing /\ task.name = "verify_statement" /\ task' = [task EXCEPT !.repos = repos]
    BY <1>9 DEF ReadRepository
  <2>2. TaskHolds(task)
    BY <1>0, <2>1 DEF TaskInv
  <2> HIDE DEF repos
  <2>3. task' = [name |-> "verify_statement", root |-> task.root, read |-> task.read,
                 repos |-> repos, issues |-> task.issues]
    BY <2>1, <2>2 DEF TaskHolds
  <2> QED BY <2>1, <2>2, <2>3 DEF TaskHolds
<1> QED
  BY <1>1, <1>2, <1>3, <1>4, <1>5, <1>6, <1>7, <1>8, <1>9
     DEF TrustedRootsNext, rootVars, Write, Answer, WriteArtifact, AnswerAnchor, AnswerArchive,
         CreateStatement, AnswerStatement, VerifyAttestation, ExportEvent, AcknowledgeExport,
         ProcessDies, AppendEvent, AlterJournal, Changed, CommitAnchor, MoveRef, RestoreAnchor

\* An answer is about the root that was read and the journals and files seen.
LEMMA NextVerdict == RootsInv /\ [TrustedRootsNext]_rootVars => TrustedRootsHold'
<1> SUFFICES ASSUME RootsInv, [TrustedRootsNext]_rootVars PROVE TrustedRootsHold'
  OBVIOUS
<1> DEFINE Same(journal, trail) == ~journal.damaged /\ journal.trail = trail
<1>0. SourceInv /\ FilesInv /\ TaskInv
  BY DEF RootsInv
<1>1. CASE verdict' = verdict
  BY <1>1 DEF RootsInv, TrustedRootsHold
<1>2. CASE verdict' = Missing
  BY <1>2 DEF TrustedRootsHold
<1>3. CASE AnswerAnchor
  <2> DEFINE tail == TailIssues(source, task.root.count, task.root.last)
             signed == task.issues = {}
             seen == [journals |-> <<source>>, signed |-> signed]
             ok == task.issues \cup tail = {}
  <2>1. verdict' = [about |-> "anchor", root |-> task.root, seen |-> seen, ok |-> ok]
    BY <1>3 DEF AnswerAnchor, Answer
  <2>2. Pins(task.root, task.root.last)
    BY <1>0, <1>3 DEF AnswerAnchor, TaskInv, TaskHolds
  <2>3. tail = {} <=> Same(source, task.root.last)
    BY <1>0, <2>2, TailIssuesMean DEF SourceInv
  <2>4. seen.signed = signed /\ seen.journals[1] = source
    OBVIOUS
  <2>5. ok <=> signed /\ tail = {}
    OBVIOUS
  <2>6. ok <=> seen.signed /\ Same(seen.journals[1], task.root.last)
    BY <2>3, <2>4, <2>5
  <2> HIDE DEF seen, ok
  <2>7. /\ verdict'.about = "anchor"
        /\ verdict'.root = task.root
        /\ verdict'.seen = seen
        /\ verdict'.ok = ok
    BY <2>1
  <2> QED BY <2>6, <2>7 DEF TrustedRootsHold
<1>4. CASE HashArchivedJournal
  <2> DEFINE seen == [journals |-> <<source>>]
             root == files["archive"]
  <2>1. CASE source.present
    BY <1>2, <1>4, <2>1 DEF HashArchivedJournal, Start
  <2>2. CASE ~source.present
    <3>1. verdict' = [about |-> "archive", root |-> root, seen |-> seen, ok |-> FALSE]
      BY <1>4, <2>2 DEF HashArchivedJournal, Answer
    <3>2. 1 \in 1 .. Len(seen.journals) /\ ~seen.journals[1].present
      BY <2>2
    <3> HIDE DEF seen, root
    <3>3. /\ verdict'.about = "archive"
          /\ verdict'.seen = seen
          /\ verdict'.ok = FALSE
      BY <3>1
    <3> QED BY <3>2, <3>3 DEF TrustedRootsHold
  <2> QED BY <2>1, <2>2
<1>5. CASE AnswerArchive
  <2> DEFINE tail == TailIssues(source, task.root.count, task.root.last)
             seen == [journals |-> <<task.hashed, source>>]
             ok == task.issues \cup tail = {}
             digest == task.root.digest
  <2>1. verdict' = [about |-> "archive", root |-> task.root, seen |-> seen, ok |-> ok]
    BY <1>5 DEF AnswerArchive, Answer
  <2>2. /\ digest.damaged = FALSE
        /\ Pins(task.root, digest.trail)
        /\ task.hashed.present
        /\ task.issues = {} <=> task.hashed = digest
    BY <1>0, <1>5 DEF AnswerArchive, TaskInv, TaskHolds
  <2>3. tail = {} <=> Same(source, digest.trail)
    BY <1>0, <2>2, TailIssuesMean DEF SourceInv
  <2>4. ok <=> task.issues = {} /\ tail = {}
    OBVIOUS
  <2>5. /\ \A i : i \in 1 .. Len(seen.journals) <=> i = 1 \/ i = 2
        /\ seen.journals[1] = task.hashed
        /\ seen.journals[2] = source
    OBVIOUS
  <2>6. ok <=> \A i \in 1 .. Len(seen.journals) :
                 /\ seen.journals[i].present \/ i = 2
                 /\ Same(seen.journals[i], digest.trail)
                 /\ i = 1 => seen.journals[i] = digest
    <3> HIDE DEF seen, ok, tail, digest
    <3>1. CASE task.hashed = digest /\ Same(source, digest.trail)
      BY <2>2, <2>3, <2>4, <2>5, <3>1
    <3>2. CASE task.hashed # digest
      BY <2>2, <2>4, <2>5, <3>2
    <3>3. CASE ~Same(source, digest.trail)
      BY <2>3, <2>4, <2>5, <3>3
    <3> QED BY <3>1, <3>2, <3>3
  <2> HIDE DEF seen, ok
  <2>7. /\ verdict'.about = "archive"
        /\ verdict'.root = task.root
        /\ verdict'.seen = seen
        /\ verdict'.ok = ok
    BY <2>1
  <2> QED BY <2>6, <2>7 DEF TrustedRootsHold
<1>6. CASE AnswerStatement
  <2> DEFINE repos == Append(task.repos, repo)
  <2>1. PICK ref \in BOOLEAN :
          Answer("statement", task.root, [anchor |-> task.read, ref |-> ref, repos |-> repos],
                 task.issues \cup RepositoryIssues(task.root, ref, repos))
    BY <1>6 DEF AnswerStatement
  <2> HIDE DEF repos
  <2> DEFINE commit == task.root.commit
             issues == RepositoryIssues(task.root, ref, repos)
             seen == [anchor |-> task.read, ref |-> ref, repos |-> repos]
             ok == task.issues \cup issues = {}
  <2>2. verdict' = [about |-> "statement", root |-> task.root, seen |-> seen, ok |-> ok]
    BY <2>1 DEF Answer
  <2>3. /\ task.root.anchor = commit.anchor
        /\ task.issues = {} => task.read = task.root.anchor
    BY <1>0, <1>6 DEF AnswerStatement, TaskInv, TaskHolds
  <2>4. issues = {} => /\ \A i \in {1, 2} : commit \in repos[i].objects
                       /\ ref => repos[3].head = commit
    <3>1. "commit" \in issues <=> commit \notin repos[1].objects
      BY DEF RepositoryIssues
    <3>2. "blob" \in issues <=> /\ commit \in repos[1].objects
                               /\ \/ commit \notin repos[2].objects
                                  \/ commit.anchor # task.root.anchor
      BY DEF RepositoryIssues
    <3>3. "ref" \in issues <=> (ref /\ repos[3].head # commit)
      BY DEF RepositoryIssues
    <3> QED BY <3>1, <3>2, <3>3
  <2>5. ok => task.issues = {} /\ issues = {}
    OBVIOUS
  <2>6. seen.anchor = task.read /\ seen.ref = ref /\ seen.repos = repos
    OBVIOUS
  <2>7. ok => /\ seen.anchor = commit.anchor
              /\ \A i \in {1, 2} : commit \in seen.repos[i].objects
              /\ seen.ref => seen.repos[3].head = commit
    BY <2>3, <2>4, <2>5, <2>6
  <2> HIDE DEF seen, ok
  <2>8. /\ verdict'.about = "statement"
        /\ verdict'.root = task.root
        /\ verdict'.seen = seen
        /\ verdict'.ok = ok
    BY <2>2
  <2> QED BY <2>7, <2>8 DEF TrustedRootsHold
<1>7. CASE VerifyAttestation
  <2>1. PICK statement \in {Missing, "statement", "other"} :
          Answer("attestation", files["attestation"],
                 [anchor |-> files["anchor"], statement |-> statement],
                 {issue \in {"anchor", "statement"} :
                    \/ issue = "anchor" /\ files["attestation"].anchor # files["anchor"]
                    \/ issue = "statement" /\ statement = "other"})
    BY <1>7 DEF VerifyAttestation
  <2> DEFINE issues == {issue \in {"anchor", "statement"} :
                          \/ issue = "anchor" /\ files["attestation"].anchor # files["anchor"]
                          \/ issue = "statement" /\ statement = "other"}
             seen == [anchor |-> files["anchor"], statement |-> statement]
             root == files["attestation"]
  <2>2. verdict' = [about |-> "attestation", root |-> root, seen |-> seen, ok |-> issues = {}]
    BY <2>1 DEF Answer
  <2>3. issues = {} => root.anchor = files["anchor"]
    <3>1. root.anchor # files["anchor"] => "anchor" \in issues
      OBVIOUS
    <3> QED BY <3>1
  <2>4. seen.anchor = files["anchor"]
    OBVIOUS
  <2> HIDE DEF seen, issues, root
  <2>5. /\ verdict'.about = "attestation"
        /\ verdict'.root = root
        /\ verdict'.seen = seen
        /\ verdict'.ok = (issues = {})
    BY <2>2
  <2> QED BY <2>3, <2>4, <2>5 DEF TrustedRootsHold
<1>8. CASE AcknowledgeExport
  <2>1. /\ verdict'.about = "export"
        /\ verdict'.root = task.prefix
        /\ verdict'.seen = [export |-> files["export"]]
        /\ files["export"] = task.prefix
    BY <1>8 DEF AcknowledgeExport, Answer
  <2>2. verdict'.seen.export = verdict'.root
    BY <2>1
  <2> QED BY <2>1, <2>2 DEF TrustedRootsHold
<1> QED
  BY <1>1, <1>2, <1>3, <1>4, <1>5, <1>6, <1>7, <1>8
     DEF TrustedRootsNext, rootVars, Start, Write, CreateAnchor, WriteArtifact, VerifyAnchor,
         CreateArchiveManifest, ResolveRef, CreateStatement, ReadAnchorFile, ReadRepository,
         CreateAttestation, StartExport, ExportEvent, ProcessDies, AppendEvent, AlterJournal, Changed, CommitAnchor,
         MoveRef, RestoreAnchor

\* The inductive invariant of the commands: what a file or a command under way holds was
\* computed from an undamaged journal, and every answer is true of what it saw.
THEOREM RootsStayPinned == TrustedRootsSpec => []RootsInv
<1>1. TrustedRootsInit => RootsInv
  BY RootsInitially
<1>2. RootsInv /\ [TrustedRootsNext]_rootVars => RootsInv'
  BY NextSource, NextFiles, NextRepo, NextTask, NextVerdict DEF RootsInv
<1> QED BY <1>1, <1>2, PTL DEF TrustedRootsSpec

\* A verification of an anchor, archive, statement, attestation or export that succeeds says
\* what its root says, whatever changed while it ran.
THEOREM VerifiedRootsHold == TrustedRootsSpec => []TrustedRootsHold
<1>1. RootsInv => TrustedRootsHold
  BY DEF RootsInv
<1> QED BY <1>1, RootsStayPinned, PTL

----------------------------------------------------------------------------
(***************************************************************************)
(* EvalRun.  A directory, a run and the corpus have their fields, and the  *)
(* scores of a run are a sequence.                                         *)
(***************************************************************************)
Dirs == {"live", "replay"}

DirShape(dir) ==
  dir = [journal |-> dir.journal, onDisk |-> dir.onDisk, transcript |-> dir.transcript,
         stateful |-> dir.stateful, minimized |-> dir.minimized, card |-> dir.card,
         bundle |-> dir.bundle, commit |-> dir.commit]

RunShape(run) ==
  run = [dir |-> run.dir, adapter |-> run.adapter, docker |-> run.docker, source |-> run.source,
         phase |-> run.phase, turns |-> run.turns, done |-> run.done, errors |-> run.errors,
         scores |-> run.scores]

IsSequence(scores) == \E S : scores \in Seq(S)

ErrorKinds == {"budget", "provider", "agent", "harness"}

(***************************************************************************)
(* The first score of a run that was scored is the one of its lifecycle,   *)
(* which holds the types of the journal.  A card without other scores      *)
(* than the one of the comparison says nothing of a journal.               *)
(***************************************************************************)
Tells(scores, journal) ==
  scores # << >> /\ scores[1].name = "lifecycle" => scores[1].seen = TypesSeen(journal)

\* The card of a bundle is about the journal that its manifest was written for.
BundleTells(bundle) ==
  bundle # Absent /\ bundle.card # Absent => Tells(bundle.card.scores, bundle.hashed[2])

Reproduces(bundle, card, journal) ==
  card.passed /\ card.class = Absent /\ Intact(bundle) =>
    bundle.card.passed /\ TypesSeen(journal) = TypesSeen(bundle.journal)

DirsInv ==
  /\ evalDirs = [dir \in Dirs |-> evalDirs[dir]]
  /\ \A dir \in Dirs : DirShape(evalDirs[dir]) /\ BundleTells(evalDirs[dir].bundle)

CorpusInv ==
  /\ corpus = [candidates |-> corpus.candidates, regressions |-> corpus.regressions]
  /\ \A bundle \in corpus.candidates : BundleTells(bundle)
  /\ \A entry \in corpus.regressions :
       BundleTells(entry.bundle) /\ entry.bundle # Absent /\ entry.bundle.card # Absent

RunInv ==
  evalRun # Absent =>
    /\ RunShape(evalRun)
    /\ evalRun.dir \in Dirs
    /\ evalRun.errors \subseteq ErrorKinds
    /\ IsSequence(evalRun.scores)
    /\ evalRun.source # Absent =>
         /\ evalRun.dir = "replay"
         /\ BundleTells(evalRun.source) /\ evalRun.source.card # Absent
    /\ evalRun.phase = "stop" =>
         /\ evalRun.errors = {} => evalRun.scores # << >>
         /\ evalRun.scores # << >> =>
              evalRun.scores[1].name = "lifecycle" /\ Tells(evalRun.scores, Here.journal)
    /\ evalRun.phase = "report" =>
         /\ Tells(Here.card.scores, Here.journal)
         /\ evalRun.source # Absent => Reproduces(evalRun.source, Here.card, Here.journal)
    /\ returned = Absent

ReplayInv ==
  /\ scenario \in EvalScenarios
  /\ DirsInv
  /\ CorpusInv
  /\ RunInv
  /\ PassedReplaysReproduce

----------------------------------------------------------------------------
(***************************************************************************)
(* Scores and cards.                                                       *)
(***************************************************************************)
LEMMA FirstOfConcat ==
  ASSUME NEW S, NEW s \in Seq(S), NEW t \in Seq(S), Len(s) >= 1
  PROVE  s \o t \in Seq(S) /\ Len(s \o t) >= Len(s) /\ (s \o t)[1] = s[1]
<1>1. Len(s) \in Nat /\ Len(t) \in Nat
  OBVIOUS
<1>2. 1 \in 1 .. Len(s) + Len(t)
  BY <1>1
<1> QED BY <1>1, <1>2, ConcatProperties

\* The first score of a run is the one of its lifecycle.
LEMMA LifecycleFirst ==
  ASSUME NEW file, NEW journal, NEW leaks, NEW onDisk, NEW report, NEW fails
  PROVE  /\ IsSequence(ScoreRun(file, journal, leaks, onDisk, report, fails))
         /\ ScoreRun(file, journal, leaks, onDisk, report, fails) # << >>
         /\ ScoreRun(file, journal, leaks, onDisk, report, fails)[1]
              = ScoreLifecycle(file, journal)
<1> DEFINE a == ScoreLifecycle(file, journal)
           b == ScoreProjection(fails)
           c == ScoreContracts(file, journal)
           d == ScoreDetections(file, journal)
           e == ScoreRedaction(leaks)
           f == ScoreCapabilityCoverage(file)
           g == ScoreRunIsolation(journal)
           h == ScoreStateful(report)
           i == ScoreReplayability(onDisk)
           S == {a, ScoreIntegrity, b, c, d, e, f, g, h, i}
           first == <<a, ScoreIntegrity, b, c, d, e, f>>
           second == IF file.id \in {"AVL-012", "AVL-013"} THEN <<g>> ELSE << >>
           third == IF file.id = "AVL-014" THEN <<h>> ELSE << >>
<1>1. ScoreRun(file, journal, leaks, onDisk, report, fails) = first \o second \o third \o <<i>>
  BY DEF ScoreRun
<1> DEFINE z == ScoreIntegrity
<1> HIDE DEF a, b, c, d, e, f, g, h, i, z
<1>2. first \in Seq(S) /\ Len(first) = 7 /\ first[1] = a
  <2>1. first = <<a, z, b, c, d, e, f>> /\ S = {a, z, b, c, d, e, f, g, h, i}
    BY DEF z
  <2>2. <<a, z, b, c, d, e, f>> \in Seq({a, z, b, c, d, e, f, g, h, i})
    OBVIOUS
  <2> QED BY <2>1, <2>2
<1>3. second \in Seq(S) /\ third \in Seq(S) /\ <<i>> \in Seq(S)
  <2>1. g \in S /\ h \in S /\ i \in S
    OBVIOUS
  <2> HIDE DEF S
  <2>2. << >> \in Seq(S) /\ <<g>> \in Seq(S) /\ <<h>> \in Seq(S) /\ <<i>> \in Seq(S)
    BY <2>1
  <2> QED BY <2>2
<1> HIDE DEF S, first, second, third
<1>4. first \o second \in Seq(S) /\ Len(first \o second) >= 7 /\ (first \o second)[1] = a
  <2>1. first \in Seq(S) /\ second \in Seq(S) /\ Len(first) >= 1
    BY <1>2, <1>3
  <2>2. /\ first \o second \in Seq(S) /\ Len(first \o second) >= Len(first)
        /\ (first \o second)[1] = first[1]
    BY <2>1, FirstOfConcat
  <2> QED BY <1>2, <2>2
<1>5. /\ first \o second \o third \in Seq(S) /\ Len(first \o second \o third) >= 7
      /\ (first \o second \o third)[1] = a
  <2> DEFINE s == first \o second
  <2>1. s \in Seq(S) /\ Len(s) >= 7 /\ s[1] = a
    BY <1>4
  <2> HIDE DEF s
  <2>2. s \o third \in Seq(S) /\ Len(s \o third) >= Len(s) /\ (s \o third)[1] = s[1]
    BY <1>3, <2>1, FirstOfConcat
  <2>3. Len(s \o third) \in Nat /\ Len(s) \in Nat
    BY <2>1, <2>2
  <2> QED BY <2>1, <2>2, <2>3 DEF s
<1>6. /\ first \o second \o third \o <<i>> \in Seq(S)
      /\ Len(first \o second \o third \o <<i>>) >= 7
      /\ (first \o second \o third \o <<i>>)[1] = a
  <2> DEFINE s == first \o second \o third
  <2>1. s \in Seq(S) /\ Len(s) >= 7 /\ s[1] = a
    BY <1>5
  <2> HIDE DEF s
  <2>2. s \o <<i>> \in Seq(S) /\ Len(s \o <<i>>) >= Len(s) /\ (s \o <<i>>)[1] = s[1]
    BY <1>3, <2>1, FirstOfConcat
  <2>3. Len(s \o <<i>>) \in Nat /\ Len(s) \in Nat
    BY <2>1, <2>2
  <2> QED BY <2>1, <2>2, <2>3 DEF s
<1>7. first \o second \o third \o <<i>> # << >>
  BY <1>6
<1> QED BY <1>1, <1>6, <1>7 DEF IsSequence, a

\* What is said of a journal by the first score that a card holds stays, whatever is appended.
LEMMA AppendKeepsFirst ==
  ASSUME NEW scores, IsSequence(scores), NEW score
  PROVE  /\ IsSequence(Append(scores, score))
         /\ Len(scores) \in Nat /\ Len(Append(scores, score)) = Len(scores) + 1
         /\ \A n \in 1 .. Len(scores) : Append(scores, score)[n] = scores[n]
         /\ Append(scores, score)[Len(scores) + 1] = score
         /\ scores # << >> => Len(scores) >= 1
         /\ scores = << >> => Len(scores) = 0
         /\ DOMAIN scores = 1 .. Len(scores)
         /\ DOMAIN Append(scores, score) = 1 .. Len(scores) + 1
<1>1. PICK S : scores \in Seq(S)
  BY DEF IsSequence
<1> DEFINE T == S \cup {score}
<1>2. scores \in Seq(T) /\ score \in T
  BY <1>1
<1> HIDE DEF T
<1>3. Append(scores, score) \in Seq(T)
  BY <1>2
<1> QED BY <1>2, <1>3 DEF IsSequence

\* A run without errors whose scores are all right is of no failure class and passes.
LEMMA AllRightPasses ==
  ASSUME NEW file, NEW scores, IsSequence(scores), scores # << >>,
         \A n \in DOMAIN scores : scores[n].ok
  PROVE  /\ Scorecard(file, scores, {}).class = Absent
         /\ Scorecard(file, scores, {}).passed
<1>1. PICK S : scores \in Seq(S)
  BY DEF IsSequence
<1>2. {n \in 1 .. Len(scores) : ~scores[n].ok} = {}
  BY <1>1
<1>3. SelectInSeq(scores, LAMBDA s : ~s.ok) = 0
  BY <1>2 DEF SelectInSeq
<1>4. ClassifyFailure(scores, {}) = Absent
  BY <1>3 DEF ClassifyFailure
<1>5. Passes(file, scores, Absent)
  BY DEF Passes
<1>6. Scorecard(file, scores, {})
        = [id |-> file.id, class |-> ClassifyFailure(scores, {}), scores |-> scores,
           passed |-> Passes(file, scores, ClassifyFailure(scores, {}))]
  BY DEF Scorecard
<1> QED BY <1>4, <1>5, <1>6

\* A class of errors is never the absence of a class.
LEMMA NoClassNoErrors ==
  ASSUME NEW scores, NEW errors, errors \subseteq ErrorKinds,
         ClassifyFailure(scores, errors) = Absent
  PROVE  errors = {}
<1>1. Absent \notin {"budget", "provider", "agent", "harness"}
  BY ScenarioFiles DEF FailureClasses
<1>2. CASE "budget" \in errors
  BY <1>1, <1>2 DEF ClassifyFailure
<1>3. CASE "provider" \in errors /\ "budget" \notin errors
  <2>1. ~(errors = {"harness"}) /\ errors # {} /\ errors \cap {"budget", "provider"} # {}
    BY <1>3
  <2> QED BY <1>1, <1>3, <2>1 DEF ClassifyFailure
<1>4. CASE "agent" \in errors /\ errors \cap {"budget", "provider"} = {}
  <2>1. ~(errors = {"harness"}) /\ errors # {} /\ "provider" \notin errors /\ "budget" \notin errors
    BY <1>4
  <2> QED BY <1>1, <1>4, <2>1 DEF ClassifyFailure
<1>5. CASE errors = {"harness"}
  <2>1. errors # {} /\ "provider" \notin errors /\ "budget" \notin errors /\ "agent" \notin errors
    BY <1>5
  <2> QED BY <1>1, <1>5, <2>1 DEF ClassifyFailure
<1> QED BY <1>2, <1>3, <1>4, <1>5 DEF ErrorKinds

(***************************************************************************)
(* A replay that compares equal to the run of its bundle.                  *)
(***************************************************************************)
\* The card at the end of a run that says what its first score said.
CardOf(card, file, scores, errors, bundle) ==
  \/ card = Scorecard(file, scores, errors)
  \/ card = Scorecard(file,
              Append(scores, ScoreReplayEquivalence(bundle, Scorecard(file, scores, errors))),
              errors)

LEMMA FinalTells ==
  ASSUME NEW scores, IsSequence(scores), NEW errors, NEW bundle, NEW journal, NEW card, NEW file,
         scores # << >> => Tells(scores, journal), CardOf(card, file, scores, errors, bundle)
  PROVE  Tells(card.scores, journal)
<1>1. CASE card = Scorecard(file, scores, errors)
  <2>1. card.scores = scores
    BY <1>1 DEF Scorecard
  <2> QED BY <2>1 DEF Tells
<1>2. CASE card = Scorecard(file,
                    Append(scores, ScoreReplayEquivalence(bundle, Scorecard(file, scores, errors))),
                    errors)
  <2> DEFINE score == ScoreReplayEquivalence(bundle, Scorecard(file, scores, errors))
  <2>1. card.scores = Append(scores, score)
    BY <1>2 DEF Scorecard
  <2>2. score.name = "replay_equivalence"
    BY DEF ScoreReplayEquivalence, Score
  <2> HIDE DEF score
  <2>3. CASE scores = << >>
    <3>1. Append(scores, score)[1] = score
      BY <2>3, AppendKeepsFirst
    <3> QED BY <2>1, <2>2, <3>1 DEF Tells
  <2>4. CASE scores # << >>
    <3>1. Append(scores, score)[1] = scores[1]
      BY <2>4, AppendKeepsFirst
    <3> QED BY <2>1, <2>4, <3>1 DEF Tells
  <2> QED BY <2>3, <2>4
<1> QED BY <1>1, <1>2 DEF CardOf

\* What a comparison that finds no difference compared.
LEMMA EquivalentCards ==
  ASSUME NEW expected, NEW actual, ScoreReplayEquivalence(expected, actual).ok
  PROVE  /\ expected.passed = actual.passed
         /\ DOMAIN expected.scores = DOMAIN actual.scores
         /\ \A n \in DOMAIN actual.scores :
              /\ expected.scores[n].name = actual.scores[n].name
              /\ expected.scores[n].seen = actual.scores[n].seen
<1> DEFINE E == [n \in DOMAIN expected.scores |-> ScoreFingerprint(expected.scores[n])]
           A == [n \in DOMAIN actual.scores |-> ScoreFingerprint(actual.scores[n])]
           M == IF ScorecardFingerprint(expected) = ScorecardFingerprint(actual)
                THEN {} ELSE {"scorecard"}
<1>1. ScoreReplayEquivalence(expected, actual).ok = (M = {})
  BY DEF ScoreReplayEquivalence, Score
<1>2. ScorecardFingerprint(expected) = ScorecardFingerprint(actual)
  BY <1>1
<1>3. <<expected.class, expected.passed, expected.id, E>>
        = <<actual.class, actual.passed, actual.id, A>>
  BY <1>2 DEF ScorecardFingerprint
<1>4. expected.passed = actual.passed /\ E = A
  BY <1>3
<1>5. DOMAIN expected.scores = DOMAIN actual.scores
  BY <1>4
<1>6. ASSUME NEW n \in DOMAIN actual.scores
      PROVE  /\ expected.scores[n].name = actual.scores[n].name
             /\ expected.scores[n].seen = actual.scores[n].seen
  <2> DEFINE e == expected.scores[n]
             a == actual.scores[n]
  <2>1. E[n] = ScoreFingerprint(e) /\ A[n] = ScoreFingerprint(a)
    BY <1>5
  <2>2. ScoreFingerprint(e) = ScoreFingerprint(a)
    BY <1>4, <2>1
  <2>3. <<e.name, e.ok, e.class, e.missing, e.seen>> = <<a.name, a.ok, a.class, a.missing, a.seen>>
    BY <2>2 DEF ScoreFingerprint
  <2> QED BY <2>3
<1> QED BY <1>4, <1>5, <1>6

\* A replay that passes without a failure class found its card equal to the one of its bundle.
LEMMA PassedReplayIsEquivalent ==
  ASSUME NEW file, file.class \in FailureClasses,
         NEW scores, IsSequence(scores), NEW errors, errors \subseteq ErrorKinds, NEW expected,
         NEW card, card = Scorecard(file,
           Append(scores, ScoreReplayEquivalence(expected, Scorecard(file, scores, errors))), errors),
         card.passed, card.class = Absent
  PROVE  /\ errors = {}
         /\ \A n \in DOMAIN scores : scores[n].ok
         /\ ScoreReplayEquivalence(expected, Scorecard(file, scores, errors)).ok
<1> DEFINE score == ScoreReplayEquivalence(expected, Scorecard(file, scores, errors))
           all == Append(scores, score)
<1>1. card = [id |-> file.id, class |-> ClassifyFailure(all, errors), scores |-> all,
              passed |-> Passes(file, all, ClassifyFailure(all, errors))]
  BY DEF Scorecard
<1> HIDE DEF score
<1>2. ClassifyFailure(all, errors) = Absent /\ Passes(file, all, Absent)
  BY <1>1
<1>3. errors = {}
  BY <1>2, NoClassNoErrors
<1>4. Absent # file.class
  BY ScenarioFiles
<1>5. \A n \in DOMAIN all : all[n].ok
  BY <1>2, <1>4 DEF Passes
<1>6. /\ DOMAIN scores = 1 .. Len(scores) /\ DOMAIN all = 1 .. Len(scores) + 1 /\ Len(scores) \in Nat
      /\ \A n \in 1 .. Len(scores) : all[n] = scores[n]
      /\ all[Len(scores) + 1] = score
  BY AppendKeepsFirst
<1> HIDE DEF all
<1>7. score.ok
  BY <1>5, <1>6
<1>8. \A n \in DOMAIN scores : scores[n].ok
  BY <1>5, <1>6
<1> QED BY <1>3, <1>7, <1>8 DEF score

\* A replay that passes without a failure class reproduced the run of its bundle.
LEMMA PassedReplayReproduces ==
  ASSUME NEW file, file.class \in FailureClasses,
         NEW scores, IsSequence(scores), NEW errors, errors \subseteq ErrorKinds, NEW journal,
         errors = {} => scores # << >>,
         scores # << >> => scores[1].name = "lifecycle" /\ Tells(scores, journal),
         NEW bundle, bundle # Absent, bundle.card # Absent, BundleTells(bundle),
         NEW card, card = Scorecard(file,
           Append(scores, ScoreReplayEquivalence(bundle.card, Scorecard(file, scores, errors))), errors)
  PROVE  Reproduces(bundle, card, journal)
<1> SUFFICES ASSUME card.passed, card.class = Absent, Intact(bundle)
             PROVE  bundle.card.passed /\ TypesSeen(journal) = TypesSeen(bundle.journal)
  BY DEF Reproduces
<1> DEFINE run == Scorecard(file, scores, errors)
<1>1. /\ errors = {}
      /\ \A n \in DOMAIN scores : scores[n].ok
      /\ ScoreReplayEquivalence(bundle.card, run).ok
  BY PassedReplayIsEquivalent
<1>2. scores # << >> /\ run.passed
  BY <1>1, AllRightPasses
<1>3. run.scores = scores
  BY DEF Scorecard
<1>4. 1 \in DOMAIN scores
  <2>1. DOMAIN scores = 1 .. Len(scores) /\ Len(scores) \in Nat /\ Len(scores) >= 1
    BY <1>2, AppendKeepsFirst
  <2> QED BY <2>1
<1> HIDE DEF run
<1>5. /\ bundle.card.passed = run.passed
      /\ DOMAIN bundle.card.scores = DOMAIN scores
      /\ bundle.card.scores[1].name = scores[1].name
      /\ bundle.card.scores[1].seen = scores[1].seen
  BY <1>1, <1>3, <1>4, EquivalentCards
<1>6. scores[1].name = "lifecycle" /\ scores[1].seen = TypesSeen(journal)
  BY <1>2 DEF Tells
<1>7. bundle.card.scores # << >>
  BY <1>4, <1>5
<1>8. bundle.card.scores[1].seen = TypesSeen(bundle.hashed[2])
  BY <1>5, <1>6, <1>7 DEF BundleTells, Tells
<1>9. bundle.hashed[2] = bundle.journal
  BY DEF Intact
<1> QED BY <1>2, <1>5, <1>6, <1>8, <1>9

(***************************************************************************)
(* Steps of a run before it is scored write the directory of the run and   *)
(* leave its bundle alone.                                                 *)
(***************************************************************************)
DirsKept ==
  /\ evalDirs' = [dir \in Dirs |-> evalDirs'[dir]]
  /\ \A dir \in Dirs : DirShape(evalDirs'[dir]) /\ evalDirs'[dir].bundle = evalDirs[dir].bundle

RunKept ==
  /\ RunShape(evalRun')
  /\ evalRun'.dir = evalRun.dir /\ evalRun'.source = evalRun.source
  /\ evalRun'.errors \subseteq ErrorKinds
  /\ IsSequence(evalRun'.scores)

EarlyStep ==
  /\ evalRun # Absent
  /\ scenario' = scenario /\ corpus' = corpus /\ returned' = returned
  /\ DirsKept
  /\ RunKept
  /\ evalRun'.phase # "report"
  /\ evalRun'.phase = "stop" => evalRun'.errors # {} /\ evalRun'.scores = << >>

LEMMA EvalInitially == EvalRunInit => ReplayInv
<1> SUFFICES ASSUME EvalRunInit PROVE ReplayInv
  OBVIOUS
<1> USE DEF EvalRunInit
<1>1. DirsInv
  <2>1. \A dir \in Dirs : evalDirs[dir] = EmptyDir
    BY DEF Dirs
  <2>2. DirShape(EmptyDir)
    BY DEF DirShape, EmptyDir
  <2>3. EmptyDir.bundle = Absent
    BY DEF EmptyDir
  <2>4. evalDirs = [dir \in Dirs |-> evalDirs[dir]]
    BY DEF Dirs
  <2> QED BY <2>1, <2>2, <2>3, <2>4 DEF DirsInv, BundleTells
<1>2. CorpusInv
  BY DEF CorpusInv
<1>3. RunInv
  BY DEF RunInv
<1>4. PassedReplaysReproduce
  BY DEF PassedReplaysReproduce
<1> QED BY <1>1, <1>2, <1>3, <1>4 DEF ReplayInv

LEMMA DirWritten ==
  ASSUME DirsInv, NEW d \in Dirs, NEW written, DirShape(written),
         evalDirs' = [evalDirs EXCEPT ![d] = written]
  PROVE  /\ evalDirs' = [dir \in Dirs |-> evalDirs'[dir]]
         /\ evalDirs'[d] = written
         /\ \A dir \in Dirs : dir # d => evalDirs'[dir] = evalDirs[dir]
         /\ \A dir \in Dirs : DirShape(evalDirs'[dir])
<1>1. DOMAIN evalDirs = Dirs /\ evalDirs = [dir \in Dirs |-> evalDirs[dir]]
  BY DEF DirsInv
<1>2. evalDirs' = [dir \in Dirs |-> IF dir = d THEN written ELSE evalDirs[dir]]
  BY <1>1
<1>3. \A dir \in Dirs : DirShape(evalDirs[dir])
  BY DEF DirsInv
<1> QED BY <1>2, <1>3

LEMMA JournalWritten ==
  ASSUME DirsInv, evalRun.dir \in Dirs, NEW journal, Journals(journal)
  PROVE  /\ DirsKept
         /\ evalDirs'[evalRun.dir] = [Here EXCEPT !.journal = journal]
         /\ \A dir \in Dirs : dir # evalRun.dir => evalDirs'[dir] = evalDirs[dir]
<1>1. PICK written : written = [Here EXCEPT !.journal = journal]
  OBVIOUS
<1>2. DirShape(Here)
  BY DEF DirsInv, Here
<1>3. DirShape(written) /\ written.bundle = Here.bundle
  BY <1>1, <1>2 DEF DirShape
<1>4. evalDirs' = [evalDirs EXCEPT ![evalRun.dir] = written]
  BY <1>1 DEF Journals, Here
<1>5. /\ evalDirs' = [dir \in Dirs |-> evalDirs'[dir]]
      /\ evalDirs'[evalRun.dir] = written
      /\ \A dir \in Dirs : dir # evalRun.dir => evalDirs'[dir] = evalDirs[dir]
      /\ \A dir \in Dirs : DirShape(evalDirs'[dir])
  BY <1>3, <1>4, DirWritten
<1>6. ASSUME NEW dir \in Dirs PROVE evalDirs'[dir].bundle = evalDirs[dir].bundle
  <2>1. CASE dir = evalRun.dir
    BY <2>1, <1>3, <1>5 DEF Here
  <2>2. CASE dir # evalRun.dir
    BY <2>2, <1>5
  <2> QED BY <2>1, <2>2
<1> QED BY <1>1, <1>5, <1>6 DEF DirsKept

LEMMA DirsUnchanged ==
  ASSUME DirsInv, evalDirs' = evalDirs
  PROVE  DirsKept
BY DEF DirsInv, DirsKept

LEMMA RunGoes ==
  ASSUME RunInv, evalRun # Absent, NEW phase, Goes(phase)
  PROVE  RunKept /\ evalRun'.phase = phase /\ evalRun'.errors = evalRun.errors
         /\ evalRun'.scores = evalRun.scores
<1>1. PICK run : run = [evalRun EXCEPT !.phase = phase]
  OBVIOUS
<1>2. RunShape(evalRun) /\ evalRun.errors \subseteq ErrorKinds /\ IsSequence(evalRun.scores)
  BY DEF RunInv
<1>3. /\ RunShape(run) /\ run.phase = phase /\ run.errors = evalRun.errors
      /\ run.scores = evalRun.scores /\ run.dir = evalRun.dir /\ run.source = evalRun.source
  BY <1>1, <1>2 DEF RunShape
<1>4. evalRun' = run
  BY <1>1 DEF Goes
<1> QED BY <1>2, <1>3, <1>4 DEF RunKept

LEMMA EmptyIsSequence == IsSequence(<< >>)
<1>1. << >> \in Seq({})
  OBVIOUS
<1> QED BY <1>1 DEF IsSequence

LEMMA RunRaises ==
  ASSUME RunInv, evalRun # Absent, evalRun' = Raised(evalRun)
  PROVE  RunKept /\ evalRun'.phase = "stop" /\ evalRun'.errors # {} /\ evalRun'.scores = << >>
<1>1. PICK run : run = Raised(evalRun)
  OBVIOUS
<1>2. RunShape(evalRun) /\ evalRun.errors \subseteq ErrorKinds
  BY DEF RunInv
<1>3. /\ RunShape(run) /\ run.phase = "stop" /\ run.errors = evalRun.errors \cup {"harness"}
      /\ run.scores = << >> /\ run.dir = evalRun.dir /\ run.source = evalRun.source
  BY <1>1, <1>2 DEF RunShape, Raised
<1>4. run.errors # {} /\ run.errors \subseteq ErrorKinds
  BY <1>2, <1>3 DEF ErrorKinds
<1> QED BY <1>1, <1>3, <1>4, EmptyIsSequence DEF RunKept

LEMMA BundlesKept == DirsInv /\ DirsKept => DirsInv'
<1> SUFFICES ASSUME DirsInv, DirsKept PROVE DirsInv'
  OBVIOUS
<1>1. \A dir \in Dirs : BundleTells(evalDirs'[dir].bundle)
  BY DEF DirsInv, DirsKept
<1> QED BY <1>1 DEF DirsInv, DirsKept, DirShape, BundleTells, Tells, TypesSeen

LEMMA CorpusKept == CorpusInv /\ corpus' = corpus => CorpusInv'
BY DEF CorpusInv, BundleTells, Tells, TypesSeen

LEMMA EarlyStepKeeps == ReplayInv /\ EarlyStep => ReplayInv'
<1> SUFFICES ASSUME ReplayInv, EarlyStep PROVE ReplayInv'
  OBVIOUS
<1> USE DEF ReplayInv, EarlyStep
<1>1. DirsInv' /\ CorpusInv'
  BY BundlesKept, CorpusKept
<1>2. returned' = Absent
  BY DEF RunInv
<1>3. PassedReplaysReproduce'
  BY <1>2 DEF PassedReplaysReproduce
<1>4. RunInv'
  <2>1. /\ evalRun'.dir \in Dirs
        /\ evalRun'.source # Absent =>
             /\ evalRun'.dir = "replay"
             /\ BundleTells(evalRun'.source) /\ evalRun'.source.card # Absent
    BY DEF RunInv, RunKept
  <2>2. /\ evalRun'.phase = "stop" =>
             /\ evalRun'.errors = {} => evalRun'.scores # << >>
             /\ evalRun'.scores = << >>
    OBVIOUS
  <2>3. evalRun'.phase # "report"
    OBVIOUS
  <2> QED BY <1>2, <2>1, <2>2, <2>3
        DEF RunInv, RunKept, RunShape, IsSequence, BundleTells, Tells, TypesSeen
<1> QED BY <1>1, <1>3, <1>4

LEMMA AgentErrorKinds ==
  ASSUME scenario \in EvalScenarios, NEW turns
  PROVE  AgentErrors(turns) \subseteq ErrorKinds
<1> USE DEF ErrorKinds
<1>1. scenario.maxRequests \in Int
  BY ScenarioFiles
<1>2. CASE scenario.maxRequests < 1
  <2>1. AgentErrors(turns) = {"budget", "agent"}
    BY <1>1, <1>2 DEF AgentErrors
  <2> QED BY <2>1
<1>3. CASE scenario.maxRequests >= 1 /\ turns = << >>
  <2>1. AgentErrors(turns) = {"provider"}
    BY <1>1, <1>3 DEF AgentErrors
  <2> QED BY <2>1
<1>4. CASE scenario.maxRequests >= 1 /\ turns # << >>
  <2>1. AgentErrors(turns)
          = IF ~CallsAreValid(turns[1], scenario.tools) THEN {"agent"}
            ELSE IF Len(turns[1]) > scenario.maxCalls THEN {"budget", "agent"}
            ELSE IF scenario.id = "AVL-009" THEN {"harness"} ELSE {}
    BY <1>1, <1>4 DEF AgentErrors
  <2> QED BY <2>1
<1> QED BY <1>1, <1>2, <1>3, <1>4

\* Every step of a run before it is scored, and a failure of the scoring.
LEMMA EarlyActions ==
  ASSUME ReplayInv,
         \/ EnvironmentStarts \/ EnvironmentFails \/ RecorderStarts
         \/ AgentRuns \/ PlanCalls \/ ExecuteCall \/ CallFails \/ FinishPlan
         \/ WriteArtifacts \/ WriteFails \/ ScoringFails
  PROVE  EarlyStep
<1> USE DEF ReplayInv
<1>0. evalRun # Absent => evalRun.dir \in Dirs /\ RunShape(evalRun)
                          /\ IsSequence(evalRun.scores) /\ evalRun.errors \subseteq ErrorKinds
  BY DEF RunInv
<1>1. CASE EnvironmentStarts
  BY <1>1, RunGoes, DirsUnchanged DEF EnvironmentStarts, Running, KeepResults, EarlyStep
<1>2. CASE EnvironmentFails
  BY <1>2, RunRaises, DirsUnchanged DEF EnvironmentFails, Running, KeepResults, EarlyStep
<1>3. CASE RecorderStarts
  <2>1. evalRun # Absent
    BY <1>3 DEF RecorderStarts, Running
  <2>2. DirsKept
    BY <1>0, <1>3, <2>1, JournalWritten DEF RecorderStarts
  <2> QED BY <1>3, <2>1, <2>2, RunGoes DEF RecorderStarts, KeepResults, EarlyStep
<1>4. CASE AgentRuns
  <2>1. PICK turns : evalRun' = [evalRun EXCEPT
                         !.phase = IF AgentErrors(turns) = {} THEN "plan" ELSE "write",
                         !.errors = AgentErrors(turns),
                         !.turns = IF "budget" \in AgentErrors(turns) THEN << >> ELSE turns]
    BY <1>4 DEF AgentRuns
  <2>2. evalRun # Absent /\ DirsKept
    BY <1>4, DirsUnchanged DEF AgentRuns, Running
  <2>3. PICK phase, errors, made :
          /\ phase \in {"plan", "write"} /\ errors = AgentErrors(turns)
          /\ evalRun' = [evalRun EXCEPT !.phase = phase, !.errors = errors, !.turns = made]
    BY <2>1
  <2>4. errors \subseteq ErrorKinds
    BY <2>3, AgentErrorKinds
  <2>5. /\ RunShape(evalRun') /\ evalRun'.phase = phase /\ evalRun'.errors = errors
        /\ evalRun'.scores = evalRun.scores /\ evalRun'.dir = evalRun.dir
        /\ evalRun'.source = evalRun.source
    BY <1>0, <2>2, <2>3 DEF RunShape
  <2>6. RunKept
    BY <1>0, <2>2, <2>4, <2>5 DEF RunKept
  <2> QED BY <1>4, <2>2, <2>3, <2>5, <2>6 DEF AgentRuns, KeepResults, EarlyStep
<1>5. CASE PlanCalls
  <2>1. evalRun # Absent
    BY <1>5 DEF PlanCalls, Running
  <2>2. CASE evalRun' = [evalRun EXCEPT !.phase = "write", !.errors = {"agent"}] /\ evalDirs' = evalDirs
    <3>1. /\ RunShape(evalRun') /\ evalRun'.phase = "write" /\ evalRun'.errors = {"agent"}
          /\ evalRun'.scores = evalRun.scores /\ evalRun'.dir = evalRun.dir
          /\ evalRun'.source = evalRun.source
      BY <1>0, <2>1, <2>2 DEF RunShape
    <3>2. RunKept
      BY <1>0, <2>1, <3>1 DEF RunKept, ErrorKinds
    <3> QED BY <1>5, <2>1, <2>2, <3>1, <3>2, DirsUnchanged DEF PlanCalls, KeepResults, EarlyStep
  <2>3. CASE Goes("calls") /\ \E journal : Journals(journal)
    <3>1. DirsKept
      BY <1>0, <2>1, <2>3, JournalWritten
    <3> QED BY <1>5, <2>1, <2>3, <3>1, RunGoes DEF PlanCalls, KeepResults, EarlyStep
  <2> QED BY <1>5, <2>2, <2>3 DEF PlanCalls
<1>6. CASE ExecuteCall
  <2>1. evalRun # Absent /\ \E journal : Journals(journal)
    BY <1>6 DEF ExecuteCall, Running
  <2>2. DirsKept
    BY <1>0, <2>1, JournalWritten
  <2>3. CASE evalRun' = Raised(evalRun)
    BY <1>6, <2>1, <2>2, <2>3, RunRaises DEF ExecuteCall, KeepResults, EarlyStep
  <2>4. CASE evalRun' = [evalRun EXCEPT !.done = @ + 1]
    <3>1. PICK done : evalRun' = [evalRun EXCEPT !.done = done]
      BY <2>4
    <3>2. /\ RunShape(evalRun') /\ evalRun'.phase = evalRun.phase /\ evalRun'.errors = evalRun.errors
          /\ evalRun'.scores = evalRun.scores /\ evalRun'.dir = evalRun.dir
          /\ evalRun'.source = evalRun.source
      BY <1>0, <2>1, <3>1 DEF RunShape
    <3>3. RunKept /\ evalRun.phase = "calls"
      BY <1>0, <1>6, <2>1, <3>2 DEF RunKept, ExecuteCall, Running
    <3> QED BY <1>6, <2>1, <2>2, <3>2, <3>3 DEF ExecuteCall, KeepResults, EarlyStep
  <2> QED BY <1>6, <2>3, <2>4 DEF ExecuteCall
<1>7. CASE CallFails
  <2>1. evalRun # Absent /\ \E journal : Journals(journal)
    BY <1>7 DEF CallFails, Running
  <2>2. DirsKept
    BY <1>0, <2>1, JournalWritten
  <2> QED BY <1>7, <2>1, <2>2, RunRaises DEF CallFails, KeepResults, EarlyStep
<1>8. CASE FinishPlan
  <2>1. evalRun # Absent
    BY <1>8 DEF FinishPlan, Running
  <2>2. CASE evalRun' = [evalRun EXCEPT !.phase = "write", !.errors = {"agent"}] /\ evalDirs' = evalDirs
    <3>1. /\ RunShape(evalRun') /\ evalRun'.phase = "write" /\ evalRun'.errors = {"agent"}
          /\ evalRun'.scores = evalRun.scores /\ evalRun'.dir = evalRun.dir
          /\ evalRun'.source = evalRun.source
      BY <1>0, <2>1, <2>2 DEF RunShape
    <3>2. RunKept
      BY <1>0, <2>1, <3>1 DEF RunKept, ErrorKinds
    <3> QED BY <1>8, <2>1, <2>2, <3>1, <3>2, DirsUnchanged DEF FinishPlan, KeepResults, EarlyStep
  <2>3. CASE Goes("write") /\ \E journal : Journals(journal)
    <3>1. DirsKept
      BY <1>0, <2>1, <2>3, JournalWritten
    <3> QED BY <1>8, <2>1, <2>3, <3>1, RunGoes DEF FinishPlan, KeepResults, EarlyStep
  <2>4. CASE /\ Goes("write")
             /\ \E journal, stateful :
                  evalDirs' = [evalDirs EXCEPT ![evalRun.dir].journal = journal,
                                               ![evalRun.dir].stateful = stateful]
    <3>1. PICK journal, stateful :
            evalDirs' = [evalDirs EXCEPT ![evalRun.dir].journal = journal,
                                         ![evalRun.dir].stateful = stateful]
      BY <2>4
    <3>2. PICK d : d = evalRun.dir
      OBVIOUS
    <3>3. PICK written : written = [evalDirs[d] EXCEPT !.journal = journal, !.stateful = stateful]
      OBVIOUS
    <3>4. d \in Dirs /\ DirShape(evalDirs[d]) /\ DOMAIN evalDirs = Dirs
      BY <1>0, <2>1, <3>2 DEF DirsInv
    <3>5. evalDirs' = [evalDirs EXCEPT ![d] = written]
      BY <3>1, <3>2, <3>3, <3>4
    <3>6. DirShape(written) /\ written.bundle = evalDirs[d].bundle
      BY <3>3, <3>4 DEF DirShape
    <3>7. DirsKept
      BY <3>4, <3>5, <3>6, DirWritten DEF DirsKept
    <3> QED BY <1>8, <2>1, <2>4, <3>7, RunGoes DEF FinishPlan, KeepResults, EarlyStep
  <2> QED BY <1>8, <2>2, <2>3, <2>4 DEF FinishPlan
<1>9. ASSUME evalRun # Absent, NEW n, WritesUpTo(n) PROVE DirsKept
  <2>1. PICK onDisk, transcript, commit :
          evalDirs' = [evalDirs EXCEPT ![evalRun.dir].onDisk = onDisk,
                                       ![evalRun.dir].transcript = transcript,
                                       ![evalRun.dir].commit = commit]
    BY <1>9 DEF WritesUpTo
  <2>2. PICK d : d = evalRun.dir
    OBVIOUS
  <2>3. PICK written : written = [evalDirs[d] EXCEPT !.onDisk = onDisk, !.transcript = transcript,
                                                     !.commit = commit]
    OBVIOUS
  <2>4. d \in Dirs /\ DirShape(evalDirs[d]) /\ DOMAIN evalDirs = Dirs
    BY <1>0, <1>9, <2>2 DEF DirsInv
  <2>5. evalDirs' = [evalDirs EXCEPT ![d] = written]
    BY <2>1, <2>2, <2>3, <2>4
  <2>6. DirShape(written) /\ written.bundle = evalDirs[d].bundle
    BY <2>3, <2>4 DEF DirShape
  <2> QED BY <2>4, <2>5, <2>6, DirWritten DEF DirsKept
<1>10. CASE WriteArtifacts
  <2>1. evalRun # Absent
    BY <1>10 DEF WriteArtifacts, Running
  <2>2. DirsKept
    BY <1>9, <1>10, <2>1 DEF WriteArtifacts
  <2> QED BY <1>10, <2>1, <2>2, RunGoes DEF WriteArtifacts, KeepResults, EarlyStep
<1>11. CASE WriteFails
  <2>1. evalRun # Absent
    BY <1>11 DEF WriteFails, Running
  <2>2. DirsKept
    BY <1>9, <1>11, <2>1 DEF WriteFails
  <2> QED BY <1>11, <2>1, <2>2, RunRaises DEF WriteFails, KeepResults, EarlyStep
<1>12. CASE ScoringFails
  BY <1>12, RunRaises, DirsUnchanged DEF ScoringFails, Running, KeepResults, EarlyStep
<1> QED
  BY <1>1, <1>2, <1>3, <1>4, <1>5, <1>6, <1>7, <1>8, <1>10, <1>11, <1>12

(***************************************************************************)
(* The end of a run.                                                       *)
(***************************************************************************)
LEMMA EmptyTells == \A journal : Tells(<< >>, journal)
BY DEF Tells

LEMMA NextStart ==
  ASSUME ReplayInv, StartLive \/ StartReplay \/ StartRegression
  PROVE  ReplayInv'
<1> USE DEF ReplayInv
<1>1. PICK dir, adapter, docker, bundle :
        /\ dir \in Dirs
        /\ StartRun(dir, adapter, docker, bundle)
        /\ bundle # Absent => dir = "replay" /\ BundleTells(bundle) /\ bundle.card # Absent
  <2>1. CASE StartLive
    <3>1. PICK adapter, docker : StartRun("live", adapter, docker, Absent)
      BY <2>1 DEF StartLive
    <3> QED BY <3>1 DEF Dirs
  <2>2. CASE StartReplay
    <3> DEFINE bundle == evalDirs["live"].bundle
    <3>1. StartRun("replay", "replay", FALSE, bundle) /\ bundle.card # Absent
      BY <2>2 DEF StartReplay
    <3>2. BundleTells(bundle)
      BY DEF DirsInv, Dirs
    <3>3. "replay" \in Dirs
      BY DEF Dirs
    <3> HIDE DEF bundle
    <3> QED BY <3>1, <3>2, <3>3, Zenon
  <2>3. CASE StartRegression
    <3>1. PICK entry \in corpus.regressions : StartRun("replay", "replay", FALSE, entry.bundle)
      BY <2>3 DEF StartRegression
    <3>2. BundleTells(entry.bundle) /\ entry.bundle.card # Absent
      BY <3>1 DEF CorpusInv
    <3>3. "replay" \in Dirs
      BY DEF Dirs
    <3> QED BY <3>1, <3>2, <3>3, Zenon
  <2> QED BY <2>1, <2>2, <2>3
<1>2. /\ evalRun' = [dir |-> dir, adapter |-> adapter, docker |-> docker, source |-> bundle,
                     phase |-> "environment", turns |-> << >>, done |-> 0, errors |-> {},
                     scores |-> << >>]
      /\ returned' = Absent /\ scenario' = scenario /\ evalDirs' = evalDirs /\ corpus' = corpus
  BY <1>1 DEF StartRun
<1>3. DirsInv' /\ CorpusInv'
  BY <1>2, DirsUnchanged, BundlesKept, CorpusKept
<1>4. /\ RunShape(evalRun') /\ evalRun'.dir = dir /\ evalRun'.source = bundle /\ evalRun'.errors = {}
      /\ evalRun'.scores = << >> /\ evalRun'.phase = "environment"
  BY <1>2 DEF RunShape
<1>5. RunInv'
  <2>1. /\ IsSequence(evalRun'.scores) /\ evalRun'.dir \in Dirs
        /\ evalRun'.errors \subseteq ErrorKinds
    BY <1>1, <1>4, EmptyIsSequence
  <2>2. /\ evalRun'.source # Absent =>
             /\ evalRun'.dir = "replay"
             /\ BundleTells(evalRun'.source) /\ evalRun'.source.card # Absent
    BY <1>1, <1>4
  <2>3. evalRun'.phase # "stop" /\ evalRun'.phase # "report"
    BY <1>4
  <2> QED BY <1>2, <1>4, <2>1, <2>2, <2>3
        DEF RunInv, RunShape, IsSequence, BundleTells, Tells, TypesSeen
<1>6. PassedReplaysReproduce'
  BY <1>2 DEF PassedReplaysReproduce
<1> QED BY <1>2, <1>3, <1>5, <1>6

LEMMA NextScore ==
  ASSUME ReplayInv, RunIsScored
  PROVE  ReplayInv'
<1> USE DEF ReplayInv
<1>1. evalRun # Absent /\ Running("score")
  BY DEF RunIsScored, Running
<1>2. PICK journal : journal = Append(Here.journal, Ended)
  OBVIOUS
<1>3. Journals(journal)
  BY <1>2 DEF RunIsScored
<1>4. PICK scores :
        /\ \E leaks, onDisk, report, fails :
             scores = ScoreRun(scenario, journal, leaks, onDisk, report, fails)
        /\ evalRun' = [evalRun EXCEPT !.phase = "stop", !.scores = scores]
  BY <1>2 DEF RunIsScored
<1>5. IsSequence(scores) /\ scores # << >> /\ scores[1] = ScoreLifecycle(scenario, journal)
  BY <1>4, LifecycleFirst
<1>6. scores[1].name = "lifecycle" /\ scores[1].seen = TypesSeen(journal)
  BY <1>5 DEF ScoreLifecycle, Score
<1>7. Tells(scores, journal)
  BY <1>6 DEF Tells
<1>8. evalRun.dir \in Dirs /\ RunShape(evalRun) /\ evalRun.errors \subseteq ErrorKinds
  BY <1>1 DEF RunInv
<1>9. /\ RunShape(evalRun') /\ evalRun'.phase = "stop" /\ evalRun'.scores = scores
      /\ evalRun'.dir = evalRun.dir /\ evalRun'.source = evalRun.source
      /\ evalRun'.errors = evalRun.errors
  BY <1>4, <1>8 DEF RunShape
<1>10. DirsKept /\ evalDirs'[evalRun.dir] = [Here EXCEPT !.journal = journal]
  BY <1>3, <1>8, JournalWritten
<1>11. Here'.journal = journal
  <2>1. DirShape(Here)
    BY <1>8 DEF DirsInv, Here
  <2>2. Here' = [Here EXCEPT !.journal = journal]
    BY <1>9, <1>10 DEF Here
  <2> QED BY <2>1, <2>2 DEF DirShape
<1>12. scenario' = scenario /\ corpus' = corpus /\ returned' = returned /\ returned = Absent
  BY <1>1 DEF RunIsScored, KeepResults, RunInv
<1>13. DirsInv' /\ CorpusInv' /\ PassedReplaysReproduce'
  BY <1>10, <1>12, BundlesKept, CorpusKept DEF PassedReplaysReproduce
<1>14. /\ evalRun.source # Absent =>
             /\ evalRun.dir = "replay"
             /\ BundleTells(evalRun.source) /\ evalRun.source.card # Absent
  BY <1>1 DEF RunInv
<1>15. RunInv'
  BY <1>5, <1>6, <1>7, <1>8, <1>9, <1>11, <1>12, <1>14
     DEF RunInv, RunShape, IsSequence, BundleTells, Tells, TypesSeen
<1> QED BY <1>12, <1>13, <1>15

LEMMA NextScorecard ==
  ASSUME ReplayInv, WriteScorecard
  PROVE  ReplayInv'
<1> USE DEF ReplayInv
<1>1. evalRun # Absent /\ evalRun.phase = "stop" /\ Goes("report")
  BY DEF WriteScorecard, Running
<1>2. PICK d : d = evalRun.dir
  OBVIOUS
<1>3. PICK journal, card, minimized, written :
        /\ journal = evalDirs[d].journal /\ card = FinalCard
        /\ written = [evalDirs[d] EXCEPT !.card = card, !.minimized = minimized]
        /\ evalDirs' = [evalDirs EXCEPT ![evalRun.dir].card = card,
                                        ![evalRun.dir].minimized = minimized]
  BY DEF WriteScorecard
<1>4. /\ d \in Dirs /\ RunShape(evalRun) /\ evalRun.errors \subseteq ErrorKinds
      /\ IsSequence(evalRun.scores) /\ DirShape(evalDirs[d]) /\ DOMAIN evalDirs = Dirs
      /\ returned = Absent
  BY <1>1, <1>2 DEF RunInv, DirsInv
<1>5. evalDirs' = [evalDirs EXCEPT ![d] = written]
  BY <1>2, <1>3, <1>4
<1>6. /\ DirShape(written) /\ written.bundle = evalDirs[d].bundle
      /\ written.journal = journal /\ written.card = card
  BY <1>3, <1>4 DEF DirShape
<1>7. DirsKept /\ evalDirs'[d] = written
  BY <1>4, <1>5, <1>6, DirWritten DEF DirsKept
<1>8. /\ RunKept /\ evalRun'.phase = "report" /\ evalRun'.errors = evalRun.errors
      /\ evalRun'.scores = evalRun.scores
  BY <1>1, RunGoes
<1>9. Here'.journal = journal /\ Here'.card = card
  BY <1>2, <1>6, <1>7, <1>8 DEF Here, RunKept
<1>10. scenario' = scenario /\ corpus' = corpus /\ returned' = Absent
  BY <1>4 DEF WriteScorecard, KeepResults
<1>11. DirsInv' /\ CorpusInv' /\ PassedReplaysReproduce'
  BY <1>7, <1>10, BundlesKept, CorpusKept DEF PassedReplaysReproduce
<1>12. PICK scores, errors : scores = evalRun.scores /\ errors = evalRun.errors
  OBVIOUS
<1>13. /\ errors = {} => scores # << >>
       /\ scores # << >> => scores[1].name = "lifecycle" /\ Tells(scores, journal)
       /\ IsSequence(scores) /\ errors \subseteq ErrorKinds
  BY <1>1, <1>2, <1>3, <1>4, <1>12 DEF RunInv, Here
<1>14. PICK bundle : bundle = evalRun.source
  OBVIOUS
<1>15. bundle # Absent => d = "replay" /\ BundleTells(bundle) /\ bundle.card # Absent
  BY <1>1, <1>2, <1>14 DEF RunInv
<1>16. card = IF bundle = Absent THEN Scorecard(scenario, scores, errors)
              ELSE Scorecard(scenario,
                     Append(scores, ScoreReplayEquivalence(bundle.card,
                                      Scorecard(scenario, scores, errors))), errors)
  <2>1. Scorecard(scenario, scores, errors).scores = scores
    BY DEF Scorecard
  <2> QED BY <1>3, <1>12, <1>14, <2>1 DEF FinalCard
<1>17. Tells(card.scores, journal)
  <2>1. CardOf(card, scenario, scores, errors, bundle.card)
    BY <1>16 DEF CardOf
  <2> QED BY <1>13, <2>1, FinalTells
<1>18. bundle # Absent => Reproduces(bundle, card, journal)
  <2> SUFFICES ASSUME bundle # Absent PROVE Reproduces(bundle, card, journal)
    OBVIOUS
  <2>1. scenario.class \in FailureClasses
    BY ScenarioFiles
  <2>2. BundleTells(bundle) /\ bundle.card # Absent
    BY <1>15
  <2>3. card = Scorecard(scenario,
                 Append(scores, ScoreReplayEquivalence(bundle.card,
                                  Scorecard(scenario, scores, errors))), errors)
    BY <1>16
  <2> QED BY <1>13, <2>1, <2>2, <2>3, PassedReplayReproduces
<1>19. RunInv'
  <2>1. /\ RunShape(evalRun') /\ evalRun'.dir \in Dirs /\ evalRun'.errors \subseteq ErrorKinds
        /\ IsSequence(evalRun'.scores)
    BY <1>2, <1>4, <1>8 DEF RunKept
  <2>2. /\ evalRun'.source = bundle
        /\ bundle # Absent => evalRun'.dir = "replay" /\ BundleTells(bundle) /\ bundle.card # Absent
    BY <1>2, <1>8, <1>14, <1>15 DEF RunKept
  <2>3. /\ Tells(Here'.card.scores, Here'.journal)
        /\ bundle # Absent => Reproduces(bundle, Here'.card, Here'.journal)
    BY <1>9, <1>17, <1>18
  <2> QED BY <1>8, <1>10, <2>1, <2>2, <2>3
        DEF RunInv, RunShape, IsSequence, BundleTells, Tells, TypesSeen, Reproduces, Intact
<1> QED BY <1>10, <1>11, <1>19

(***************************************************************************)
(* Bundles.                                                                *)
(***************************************************************************)
\* What a run leaves as its bundle, however far it got, has the card of its journal.
LEMMA WrittenBundlesTell ==
  ASSUME DirsInv, evalRun # Absent, evalRun.dir \in Dirs,
         evalRun.phase = "report" => Tells(Here.card.scores, Here.journal),
         NEW bundle,
         \/ bundle = Here.bundle
         \/ evalRun.phase = "report" /\ (bundle = NewBundle \/ bundle \in TornBundles)
  PROVE  BundleTells(bundle)
<1>1. BundleTells(Here.bundle)
  BY DEF DirsInv, Here
<1> SUFFICES ASSUME evalRun.phase = "report", bundle = NewBundle \/ bundle \in TornBundles
             PROVE  BundleTells(bundle)
  BY <1>1
<1>2. Tells(Here.card.scores, Here.journal)
  OBVIOUS
<1>3. PICK card, journal, transcript, minimized, providers :
        /\ card = Here.card /\ journal = Here.journal /\ transcript = Here.transcript
        /\ NewBundle = [transcript |-> transcript, journal |-> journal, minimized |-> minimized,
                        card |-> card, providers |-> providers, hashed |-> <<transcript, journal>>]
  BY DEF NewBundle
<1>4. CASE bundle = NewBundle
  <2>1. bundle.card = card /\ bundle.hashed[2] = journal
    BY <1>3, <1>4
  <2> QED BY <1>2, <1>3, <2>1 DEF BundleTells
<1>5. CASE bundle \in TornBundles /\ Here.bundle = Absent
  <2>1. bundle.card = Absent
    BY <1>3, <1>5 DEF TornBundles
  <2> QED BY <2>1 DEF BundleTells
<1>6. CASE bundle \in TornBundles /\ Here.bundle # Absent
  <2>1. bundle.card = Here.bundle.card /\ bundle.hashed = Here.bundle.hashed
    BY <1>3, <1>6 DEF TornBundles
  <2> QED BY <1>1, <1>6, <2>1 DEF BundleTells
<1> QED BY <1>4, <1>5, <1>6

\* A step that writes a bundle of the run and nothing else below its directory.
LEMMA BundleWritten ==
  ASSUME DirsInv, evalRun.dir \in Dirs, NEW bundle, BundleTells(bundle),
         evalDirs' = [evalDirs EXCEPT ![evalRun.dir].bundle = bundle]
  PROVE  /\ DirsInv'
         /\ \A dir \in Dirs : evalDirs'[dir].journal = evalDirs[dir].journal
<1>1. PICK d : d = evalRun.dir
  OBVIOUS
<1>2. PICK written : written = [evalDirs[d] EXCEPT !.bundle = bundle]
  OBVIOUS
<1>3. d \in Dirs /\ DirShape(evalDirs[d]) /\ DOMAIN evalDirs = Dirs
  BY <1>1 DEF DirsInv
<1>4. /\ DirShape(written) /\ written.bundle = bundle
      /\ written.journal = evalDirs[d].journal
  BY <1>2, <1>3 DEF DirShape
<1>5. evalDirs' = [evalDirs EXCEPT ![d] = written]
  BY <1>1, <1>2, <1>3
<1>6. /\ evalDirs' = [dir \in Dirs |-> evalDirs'[dir]]
      /\ evalDirs'[d] = written
      /\ \A dir \in Dirs : dir # d => evalDirs'[dir] = evalDirs[dir]
      /\ \A dir \in Dirs : DirShape(evalDirs'[dir])
  BY <1>3, <1>4, <1>5, DirWritten
<1>7. \A dir \in Dirs : BundleTells(evalDirs'[dir].bundle)
  <2> TAKE dir \in Dirs
  <2>1. CASE dir = d
    BY <1>4, <1>6, <2>1
  <2>2. CASE dir # d
    BY <1>6, <2>2 DEF DirsInv
  <2> QED BY <2>1, <2>2
<1>8. \A dir \in Dirs : evalDirs'[dir].journal = evalDirs[dir].journal
  <2> TAKE dir \in Dirs
  <2>1. CASE dir = d
    BY <1>4, <1>6, <2>1
  <2>2. CASE dir # d
    BY <1>6, <2>2
  <2> QED BY <2>1, <2>2
<1> QED BY <1>6, <1>7, <1>8 DEF DirsInv, DirShape, BundleTells, Tells, TypesSeen

LEMMA NextReturn ==
  ASSUME ReplayInv, ReturnRun
  PROVE  ReplayInv'
<1> USE DEF ReplayInv
<1>1. evalRun # Absent /\ evalRun.phase = "report"
  BY DEF ReturnRun, Running
<1>2. /\ evalRun.dir \in Dirs /\ Tells(Here.card.scores, Here.journal)
      /\ evalRun.source # Absent =>
           evalRun.dir = "replay" /\ Reproduces(evalRun.source, Here.card, Here.journal)
  BY <1>1 DEF RunInv
<1>3. BundleTells(BundleNow)
  BY <1>1, <1>2, WrittenBundlesTell DEF BundleNow
<1>4. PICK bundle : bundle = BundleNow
  OBVIOUS
<1>5. evalDirs' = [evalDirs EXCEPT ![evalRun.dir].bundle = bundle] /\ BundleTells(bundle)
  BY <1>3, <1>4 DEF ReturnRun
<1>6. DirsInv' /\ \A dir \in Dirs : evalDirs'[dir].journal = evalDirs[dir].journal
  BY <1>2, <1>5, BundleWritten
<1>7. CorpusInv'
  <2>1. \/ corpus' = corpus
        \/ corpus' = [corpus EXCEPT !.candidates = @ \cup {bundle}]
    BY <1>4 DEF ReturnRun
  <2>2. CASE corpus' = corpus
    BY <2>2, CorpusKept
  <2>3. CASE corpus' = [corpus EXCEPT !.candidates = @ \cup {bundle}]
    <3>1. PICK candidates : candidates = corpus.candidates \cup {bundle}
      OBVIOUS
    <3>2. /\ corpus' = [candidates |-> corpus'.candidates, regressions |-> corpus'.regressions]
          /\ corpus'.candidates = candidates /\ corpus'.regressions = corpus.regressions
      BY <2>3, <3>1 DEF CorpusInv
    <3>3. \A b \in corpus'.candidates : BundleTells(b)
      BY <1>5, <3>1, <3>2 DEF CorpusInv
    <3>4. \A entry \in corpus'.regressions :
            BundleTells(entry.bundle) /\ entry.bundle # Absent /\ entry.bundle.card # Absent
      BY <3>2 DEF CorpusInv
    <3> QED BY <3>2, <3>3, <3>4 DEF CorpusInv, BundleTells, Tells, TypesSeen
  <2> QED BY <2>1, <2>2, <2>3
<1>8. evalRun' = Absent /\ scenario' = scenario
  BY DEF ReturnRun
<1>9. RunInv'
  BY <1>8 DEF RunInv
<1>10. PassedReplaysReproduce'
  <2>1. /\ returned'.passed = Here.card.passed /\ returned'.class = Here.card.class
        /\ returned'.source = evalRun.source
    BY DEF ReturnRun
  <2>2. SUFFICES ASSUME returned'.source # Absent, returned'.passed, returned'.class = Absent,
                        Intact(returned'.source)
                 PROVE  /\ returned'.source.card.passed
                        /\ TypesSeen(evalDirs'["replay"].journal)
                             = TypesSeen(returned'.source.journal)
    BY DEF PassedReplaysReproduce, Intact, TypesSeen
  <2>3. /\ evalRun.dir = "replay" /\ evalRun.source.card.passed
        /\ TypesSeen(Here.journal) = TypesSeen(evalRun.source.journal)
    BY <1>2, <2>1, <2>2 DEF Reproduces
  <2>4. evalDirs'["replay"].journal = Here.journal
    BY <1>2, <1>6, <2>3 DEF Here
  <2> QED BY <2>1, <2>3, <2>4
<1> QED BY <1>6, <1>7, <1>8, <1>9, <1>10

LEMMA NextDeath ==
  ASSUME ReplayInv, RunDies \/ StopFails
  PROVE  ReplayInv'
<1> USE DEF ReplayInv
<1>1. /\ evalRun # Absent /\ evalRun' = Absent /\ scenario' = scenario /\ corpus' = corpus
      /\ returned' = returned
  BY DEF RunDies, StopFails, Running
<1>2. /\ evalRun.dir \in Dirs /\ returned = Absent
      /\ evalRun.phase = "report" => Tells(Here.card.scores, Here.journal)
  BY <1>1 DEF RunInv
<1>3. DirsInv'
  <2>1. CASE StopFails
    BY <2>1, DirsUnchanged, BundlesKept DEF StopFails
  <2>2. CASE RunDies
    <3>1. PICK bundle : /\ bundle = Here.bundle \/ (evalRun.phase = "report" /\ bundle \in TornBundles)
                        /\ evalDirs' = [evalDirs EXCEPT ![evalRun.dir].bundle = bundle]
      BY <2>2 DEF RunDies
    <3>2. BundleTells(bundle)
      BY <1>1, <1>2, <3>1, WrittenBundlesTell
    <3> QED BY <1>2, <3>1, <3>2, BundleWritten
  <2> QED BY <2>1, <2>2
<1>4. CorpusInv' /\ RunInv' /\ PassedReplaysReproduce'
  BY <1>1, <1>2, CorpusKept DEF RunInv, PassedReplaysReproduce
<1> QED BY <1>1, <1>3, <1>4

\* Steps between runs leave the directories and what was returned alone.
LEMMA NextBetweenRuns ==
  ASSUME ReplayInv,
         \/ PromoteReviewed \/ CommitBaseline \/ CheckBaseline \/ ChangeRepository
         \/ UNCHANGED evalVars
  PROVE  ReplayInv'
<1> USE DEF ReplayInv
<1>1. /\ evalRun' = evalRun /\ evalDirs' = evalDirs /\ scenario' = scenario /\ returned' = returned
      /\ corpus' = corpus \/ PromoteReviewed
  BY DEF PromoteReviewed, CommitBaseline, CheckBaseline, ChangeRepository, evalVars
<1>2. DirsInv' /\ PassedReplaysReproduce' /\ RunInv'
  <2>1. RunInv'
    BY <1>1 DEF RunInv, RunShape, Here, IsSequence, BundleTells, Tells, TypesSeen, Reproduces, Intact
  <2>2. PassedReplaysReproduce'
    BY <1>1 DEF PassedReplaysReproduce, Intact, TypesSeen
  <2> QED BY <1>1, <2>1, <2>2, DirsUnchanged, BundlesKept
<1>3. CorpusInv'
  <2>1. CASE corpus' = corpus
    BY <2>1, CorpusKept
  <2>2. CASE PromoteReviewed
    <3>1. PICK bundle, marked :
            /\ bundle \in ({evalDirs["live"].bundle} \cup corpus.candidates) \ {Absent}
            /\ Reviewable(bundle)
            /\ corpus' = [corpus EXCEPT !.regressions =
                 {e \in @ : e.bundle # bundle} \cup {[bundle |-> bundle, reviewed |-> marked]}]
      BY <2>2 DEF PromoteReviewed
    <3>2. BundleTells(bundle) /\ bundle # Absent /\ bundle.card # Absent
      BY <3>1 DEF DirsInv, Dirs, CorpusInv, Reviewable
    <3>3. PICK regressions, entry :
            /\ entry = [bundle |-> bundle, reviewed |-> marked]
            /\ regressions = {e \in corpus.regressions : e.bundle # bundle} \cup {entry}
      OBVIOUS
    <3>4. /\ corpus' = [candidates |-> corpus'.candidates, regressions |-> corpus'.regressions]
          /\ corpus'.candidates = corpus.candidates /\ corpus'.regressions = regressions
      BY <3>1, <3>3 DEF CorpusInv
    <3>5. \A b \in corpus'.candidates : BundleTells(b)
      BY <3>4 DEF CorpusInv
    <3>6. \A e \in corpus'.regressions :
            BundleTells(e.bundle) /\ e.bundle # Absent /\ e.bundle.card # Absent
      <4>1. entry.bundle = bundle
        BY <3>3
      <4>2. \A e \in regressions : e \in corpus.regressions \/ e = entry
        BY <3>3
      <4> QED BY <3>2, <3>4, <4>1, <4>2 DEF CorpusInv
    <3> QED BY <3>4, <3>5, <3>6 DEF CorpusInv, BundleTells, Tells, TypesSeen
  <2> QED BY <1>1, <2>1, <2>2
<1> QED BY <1>1, <1>2, <1>3

\* The inductive invariant of the runs of a scenario: a card, in a directory, a bundle or the
\* corpus, tells of the journal that its manifest was written for, and so does a run under way.
THEOREM CardsTellOfTheirJournals == EvalRunSpec => []ReplayInv
<1>1. ReplayInv /\ [EvalRunNext]_evalVars => ReplayInv'
  <2> SUFFICES ASSUME ReplayInv, [EvalRunNext]_evalVars PROVE ReplayInv'
    OBVIOUS
  <2>1. CASE \/ EnvironmentStarts \/ EnvironmentFails \/ RecorderStarts
             \/ AgentRuns \/ PlanCalls \/ ExecuteCall \/ CallFails \/ FinishPlan
             \/ WriteArtifacts \/ WriteFails \/ ScoringFails
    BY <2>1, EarlyActions, EarlyStepKeeps
  <2>2. CASE StartLive \/ StartReplay \/ StartRegression
    BY <2>2, NextStart
  <2>3. CASE RunIsScored
    BY <2>3, NextScore
  <2>4. CASE WriteScorecard
    BY <2>4, NextScorecard
  <2>5. CASE ReturnRun
    BY <2>5, NextReturn
  <2>6. CASE RunDies \/ StopFails
    BY <2>6, NextDeath
  <2>7. CASE \/ PromoteReviewed \/ CommitBaseline \/ CheckBaseline \/ ChangeRepository
             \/ UNCHANGED evalVars
    BY <2>7, NextBetweenRuns
  <2> QED BY <2>1, <2>2, <2>3, <2>4, <2>5, <2>6, <2>7 DEF EvalRunNext
<1> QED BY <1>1, EvalInitially, PTL DEF EvalRunSpec

\* A replay that passes without a failure class reproduced the run of its bundle, whatever
\* scenario, answers of the model, earlier runs, crashes and promotions came before it.
THEOREM ReplaysReproduce == EvalRunSpec => []PassedReplaysReproduce
<1>1. ReplayInv => PassedReplaysReproduce
  BY DEF ReplayInv
<1> QED BY <1>1, CardsTellOfTheirJournals, PTL
=============================================================================
