--------------------------- MODULE DerivedArtifacts ---------------------------
(***************************************************************************)
(* Files that processes derive from the journal and keep beside it: the    *)
(* anchor log, appended to without lock or fsync, and a case bundle,       *)
(* staged, synced and published by a rename.  Processes race, fail and     *)
(* die, and the host crashes.                                              *)
(*                                                                         *)
(* An entry of the anchor log is identified by the append that wrote it,   *)
(* and its hash, which is collision-free, by the entry.  The file is a     *)
(* sequence of lines; an append that did not finish leaves a cut entry, or *)
(* a whole one without its newline, and what is written next continues     *)
(* that line.                                                              *)
(***************************************************************************)
EXTENDS Naturals, Sequences, FiniteSets, SequencesExt

CONSTANTS
  Processes,
  Files,   \* names of the files of a bundle
  MaxOps,  \* operations begun by all processes together
  Null     \* the value of an absent field

ASSUME OpsAssumption == MaxOps \in Nat
ASSUME NullAssumption == Null \notin [by : Nat, written : SUBSET Files, durable : SUBSET Files]

VARIABLES
  log,      \* lines of the anchor log: [entries, newline]
  logged,   \* history: entries acknowledged since the host last came up
  verified, \* what each process's verification of the log found
  staging,  \* each process's staging directory, [written, durable], or Null
  final,    \* the bundle at the output path, [by, written, durable], or Null
  synced,   \* whether the parent directory was synced since the rename
  exported, \* history: exports that were acknowledged
  pc,       \* where each process is
  op,       \* the operation each process is at, or was last
  ops       \* operations begun so far

logVars == <<log, logged, verified>>
bundleVars == <<staging, final, synced, exported>>
vars == <<logVars, bundleVars, pc, op, ops>>

Goto(p, label) == pc' = [pc EXCEPT ![p] = label]

Begin(p, label) ==
  /\ pc[p] = "idle"
  /\ ops < MaxOps
  /\ ops' = ops + 1
  /\ op' = [op EXCEPT ![p] = ops + 1]
  /\ Goto(p, label)

----------------------------------------------------------------------------
(***************************************************************************)
(* The anchor log.  A line without newline at the end of the file counts   *)
(* when it parses, and a line that holds two entries does not.             *)
(***************************************************************************)
Parses(line) == Len(line.entries) = 1 /\ line.entries[1].whole

EntryAt(n) == log[n].entries[1]

Extends(entry, n) ==
  /\ entry.sequence = n
  /\ entry.previous = IF n = 1 THEN Null ELSE EntryAt(n - 1).op

LineVerifies(n) == Parses(log[n]) /\ Extends(EntryAt(n), n)

\* verify_journal_anchor_log counts the lines before the first issue.
Verified == Cardinality({n \in 1 .. Len(log) : \A k \in 1 .. n : LineVerifies(k)})

\* Mutant: the first bad line ends the verification without an issue.
LogVerifiesToTheFirstIssue == TRUE

LogVerifies == Verified = Len(log)

LastEntry == IF Verified = 0 THEN Null ELSE EntryAt(Verified).op

\* append_journal_anchor_log, up to the write: a log that does not verify is
\* an error.
VerifyLog(p) ==
  /\ Begin(p, "append")
  /\ LogVerifies
  /\ verified' = [verified EXCEPT ![p] = [count |-> Verified, last |-> LastEntry]]
  /\ UNCHANGED <<log, logged, bundleVars>>

Entry(p) ==
  [sequence |-> verified[p].count + 1, previous |-> verified[p].last, op |-> op[p],
   whole |-> TRUE]

\* Bytes written at the end of the file, where the last line may be open.
Written(entry, newline) ==
  IF log # << >> /\ ~Last(log).newline
  THEN Append(Front(log), [entries |-> Append(Last(log).entries, entry), newline |-> newline])
  ELSE Append(log, [entries |-> <<entry>>, newline |-> newline])

AppendEntry(p) ==
  /\ pc[p] = "append"
  /\ log' = Written(Entry(p), TRUE)
  /\ logged' = logged \cup {op[p]}
  /\ Goto(p, "idle")
  /\ UNCHANGED <<verified, bundleVars, op, ops>>

\* The write fails, or the process dies before it answers: nothing, a part of the
\* entry, or all of it, with or without its newline, is in the file.
AppendFails(p) ==
  /\ pc[p] = "append"
  /\ \/ UNCHANGED log
     \/ \E whole, newline \in BOOLEAN :
          /\ newline => whole
          /\ log' = Written([Entry(p) EXCEPT !.whole = whole], newline)
  /\ Goto(p, "idle")
  /\ UNCHANGED <<logged, verified, bundleVars, op, ops>>

----------------------------------------------------------------------------
(***************************************************************************)
(* The case bundle: all exports in question have the same output path.     *)
(***************************************************************************)
\* _create_case_bundle_staging_dir: an output that exists is an error.
BeginExport(p) ==
  /\ Begin(p, "write")
  /\ final = Null
  /\ staging' = [staging EXCEPT ![p] = [written |-> {}, durable |-> {}]]
  /\ UNCHANGED <<logVars, final, synced, exported>>

\* A file is written and synced; its name is durable with the directory.
WriteFile(p) ==
  /\ pc[p] = "write"
  /\ \E file \in Files \ staging[p].written :
       staging' = [staging EXCEPT ![p].written = @ \cup {file}]
  /\ UNCHANGED <<logVars, final, synced, exported, pc, op, ops>>

\* Mutant: the staging directory is not synced.
SyncStagingOmitted(p) ==
  /\ pc[p] = "write"
  /\ staging[p].written = Files
  /\ Goto(p, "publish")
  /\ UNCHANGED <<logVars, bundleVars, op, ops>>

SyncStaging(p) ==
  /\ pc[p] = "write"
  /\ staging[p].written = Files
  /\ staging' = [staging EXCEPT ![p].durable = staging[p].written]
  /\ Goto(p, "publish")
  /\ UNCHANGED <<logVars, final, synced, exported, op, ops>>

Bundle(p) == [by |-> op[p], written |-> staging[p].written, durable |-> staging[p].durable]

\* Mutants: the output is replaced; the export is acknowledged before the
\* parent directory is synced.
PublishReplacing(p) ==
  /\ pc[p] = "publish"
  /\ final' = Bundle(p)
  /\ staging' = [staging EXCEPT ![p] = Null]
  /\ synced' = FALSE
  /\ Goto(p, "sync")
  /\ UNCHANGED <<logVars, exported, op, ops>>

PublishAcknowledging(p) ==
  /\ pc[p] = "publish"
  /\ final = Null
  /\ final' = Bundle(p)
  /\ staging' = [staging EXCEPT ![p] = Null]
  /\ synced' = FALSE
  /\ exported' = exported \cup {op[p]}
  /\ Goto(p, "idle")
  /\ UNCHANGED <<logVars, op, ops>>

\* _publish_case_bundle_directory: a rename onto a directory that is not empty
\* fails, whatever the check in front of it saw.
Publish(p) ==
  /\ pc[p] = "publish"
  /\ final = Null
  /\ final' = Bundle(p)
  /\ staging' = [staging EXCEPT ![p] = Null]
  /\ synced' = FALSE
  /\ Goto(p, "sync")
  /\ UNCHANGED <<logVars, exported, op, ops>>

SyncParent(p) ==
  /\ pc[p] = "sync"
  /\ synced' = TRUE
  /\ exported' = exported \cup {op[p]}
  /\ Goto(p, "idle")
  /\ UNCHANGED <<logVars, staging, final, op, ops>>

\* A write, a sync or the rename fails: the staging directory is removed, of
\* which nothing is left once it has become the output.
ExportFails(p) ==
  /\ pc[p] \in {"write", "publish", "sync"}
  /\ staging' = [staging EXCEPT ![p] = Null]
  /\ Goto(p, "idle")
  /\ UNCHANGED <<logVars, final, synced, exported, op, ops>>

----------------------------------------------------------------------------
\* A process that dies leaves its staging directory behind.
ProcessCrash(p) ==
  /\ pc[p] \in {"write", "publish", "sync"}
  /\ Goto(p, "idle")
  /\ UNCHANGED <<logVars, bundleVars, op, ops>>

Beginnings(entries) ==
  {[SubSeq(entries, 1, n) EXCEPT ![n].whole = @ /\ whole] :
     n \in 1 .. Len(entries), whole \in BOOLEAN}

\* What is left of the log, of which nothing was ever synced.
SurvivingLogs ==
  {SubSeq(log, 1, n) : n \in 0 .. Len(log)}
  \cup UNION {{SubSeq(log, 1, n - 1) \o <<[entries |-> left, newline |-> FALSE]>> :
                left \in Beginnings(log[n].entries)} : n \in 1 .. Len(log)}

\* A rename may be lost until the parent directory is synced, and of the files
\* those are left that were durable.
HostCrash ==
  /\ log' \in SurvivingLogs
  /\ logged' = {}
  /\ \/ final' = IF final = Null THEN Null ELSE [final EXCEPT !.written = final.durable]
     \/ ~synced /\ final' = Null
  /\ synced' = TRUE
  /\ pc' = [p \in Processes |-> "idle"]
  /\ staging' = [p \in Processes |-> Null]
  /\ UNCHANGED <<verified, exported, op, ops>>

Init ==
  /\ log = << >>
  /\ logged = {}
  /\ verified = [p \in Processes |-> Null]
  /\ staging = [p \in Processes |-> Null]
  /\ final = Null
  /\ synced = TRUE
  /\ exported = {}
  /\ pc = [p \in Processes |-> "idle"]
  /\ op = [p \in Processes |-> 0]
  /\ ops = 0

Next ==
  \/ \E p \in Processes :
       \/ VerifyLog(p) \/ AppendEntry(p) \/ AppendFails(p)
       \/ BeginExport(p) \/ WriteFile(p) \/ SyncStaging(p) \/ Publish(p)
       \/ SyncParent(p) \/ ExportFails(p) \/ ProcessCrash(p)
  \/ HostCrash

Spec == Init /\ [][Next]_vars

----------------------------------------------------------------------------
\* An anchor log that verifies holds every entry whose append was acknowledged
\* since the host came up: appends that raced, or continued an open line, are
\* not lost behind a verification that succeeds.
VerifiedLogHoldsAcknowledged ==
  LogVerifies => logged \subseteq {EntryAt(n).op : n \in 1 .. Len(log)}

\* A bundle at the output path is complete and the work of one export.
PublishedIsComplete == final # Null => final.written = Files

\* A published bundle is never replaced by another one, except when it was lost
\* in a host crash.
PublishedStays == [][final # Null /\ final' # Null => final'.by = final.by]_vars

\* An export that was acknowledged is there, whatever happened since.
AcknowledgedExportStays ==
  \A n \in exported : final # Null /\ final.by = n
==============================================================================
