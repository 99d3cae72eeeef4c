---------------------------- MODULE LocalJournal ----------------------------
(***************************************************************************)
(* The local journal: an append-only file of hash-chained records, shared  *)
(* by processes that append to it (append_event) and processes that read   *)
(* it (verified_journal_snapshot), coordinated by one advisory lock file.  *)
(*                                                                         *)
(* A line of the file keeps what verification looks at: the sequence       *)
(* number, the previous_event_hash, the event and whether the newline      *)
(* terminator was written.  The SHA-256 of a record covers the event and   *)
(* the hash before it, so a collision-free hash is modelled as the history *)
(* it commits to: the sequence of the events hashed so far.                *)
(*                                                                         *)
(* Each append attempt carries an event of its own (event ids are fresh);  *)
(* fate[e] is the history of what became of it.  A process may die at any  *)
(* step (the operating system then drops its lock) and the host may go     *)
(* down, which loses any suffix of the file that was not fsynced.          *)
(***************************************************************************)
EXTENDS Naturals, Sequences, FiniteSets

CONSTANTS
  Procs,        \* processes using the journal
  Events,       \* events that callers may try to append, one attempt each
  NoEvent,      \* placeholder of a process that is not appending
  MaxSequence,  \* bound on the sequence number a caller asks for
  HostCrashes   \* BOOLEAN: whether the host may lose unsynced bytes

ASSUME MaxSequenceAssumption == MaxSequence \in Nat
ASSUME HostCrashesAssumption == HostCrashes \in BOOLEAN
ASSUME NoEventAssumption == NoEvent \notin Events

VARIABLES
  file,      \* the journal file: a sequence of lines
  synced,    \* number of leading lines known to be on stable storage
  pc,        \* where each process is inside append_event or a snapshot
  holds,     \* the flock mode each process holds
  request,   \* the event and sequence number a process wants to append
  outcome,   \* result of a process's current or last call
  before,    \* size of the file when a snapshot's scan opened it
  seen,      \* lines a snapshot's scan has accepted so far
  floor,     \* history: events acknowledged before a snapshot call began
  returned,  \* history: events of the last snapshot returned as verified
  fate       \* history: what became of each event's append

vars == <<file, synced, pc, holds, request, outcome, before, seen, floor,
          returned, fate>>

scanVars == <<before, seen, floor, returned>>
fileVars == <<file, synced>>

Sequences == 0 .. MaxSequence

NoRequest == [event |-> NoEvent, sequence |-> 0]

Requests == [event : Events, sequence : Sequences]

Lines == [sequence : Nat, prev : Seq(Events), event : Events, whole : BOOLEAN]

Hash(line) == Append(line.prev, line.event)

NoHash == << >>

TerminalHash(lines) ==
  IF lines = << >> THEN NoHash ELSE Hash(lines[Len(lines)])

\* Mutant: the newline terminator is not looked at.
LineVerifiesUnterminated(line, accepted) ==
  line.sequence = Len(accepted) /\ line.prev = TerminalHash(accepted)

(***************************************************************************)
(* What the scan checks of one line, given the lines accepted before it:   *)
(* its terminator, its sequence number and its previous_event_hash.        *)
(***************************************************************************)
LineVerifies(line, accepted) ==
  /\ line.whole
  /\ line.sequence = Len(accepted)
  /\ line.prev = TerminalHash(accepted)

Verifies(lines) ==
  \A i \in 1 .. Len(lines) : LineVerifies(lines[i], SubSeq(lines, 1, i - 1))

EventsOf(lines) == [i \in 1 .. Len(lines) |-> lines[i].event]

Holders(mode) == {q \in Procs : holds[q] = mode}

----------------------------------------------------------------------------
Goto(p, label) == pc' = [pc EXCEPT ![p] = label]

Finish(p, result) ==
  /\ outcome' = [outcome EXCEPT ![p] = result]
  /\ Goto(p, "unlock")

(***************************************************************************)
(* append_event: a caller arrives with an event whose sequence number it   *)
(* chose earlier, from any knowledge of the journal it may have had.       *)
(***************************************************************************)
BeginAppend(p) ==
  /\ pc[p] = "idle"
  /\ \E e \in Events, s \in Sequences :
       /\ fate[e] = "new"
       /\ fate' = [fate EXCEPT ![e] = "pending"]
       /\ request' = [request EXCEPT ![p] = [event |-> e, sequence |-> s]]
  /\ outcome' = [outcome EXCEPT ![p] = "none"]
  /\ Goto(p, "lock_exclusive")
  /\ UNCHANGED <<fileVars, holds, scanVars>>

\* Mutant: an appender does not wait for other appenders.
LockExclusiveBesideWriters(p) ==
  /\ pc[p] = "lock_exclusive"
  /\ Holders("shared") = {}
  /\ holds' = [holds EXCEPT ![p] = "exclusive"]
  /\ Goto(p, "preflight")
  /\ UNCHANGED <<fileVars, request, outcome, scanVars, fate>>

LockExclusive(p) ==
  /\ pc[p] = "lock_exclusive"
  /\ Holders("exclusive") = {} /\ Holders("shared") = {}
  /\ holds' = [holds EXCEPT ![p] = "exclusive"]
  /\ Goto(p, "preflight")
  /\ UNCHANGED <<fileVars, request, outcome, scanVars, fate>>

(***************************************************************************)
(* Under the lock the whole existing journal is verified and the requested *)
(* sequence number must be the next one; otherwise nothing is written.  An *)
(* unreadable file, or an event that cannot be redacted or hashed, refuses *)
(* the append in the same way.                                             *)
(***************************************************************************)
PreflightAccepts(p) ==
  /\ pc[p] = "preflight"
  /\ Verifies(file)
  /\ request[p].sequence = Len(file)
  /\ Goto(p, "write")
  /\ UNCHANGED <<fileVars, holds, request, outcome, scanVars, fate>>

PreflightRefuses(p) ==
  /\ pc[p] = "preflight"
  /\ Finish(p, "refused")
  /\ UNCHANGED <<fileVars, holds, request, scanVars, fate>>

NewLine(p, isWhole) ==
  [sequence |-> request[p].sequence, prev |-> TerminalHash(file),
   event |-> request[p].event, whole |-> isWhole]

\* Mutant: the append is reported once the line is written, fsync or not.
WriteLineAcknowledged(p) ==
  /\ pc[p] = "write"
  /\ file' = Append(file, NewLine(p, TRUE))
  /\ Finish(p, "appended")
  /\ UNCHANGED <<synced, holds, request, scanVars, fate>>

(***************************************************************************)
(* _append_line: O_APPEND write of the record and its newline, flush, then *)
(* fsync.  The write may fail before any byte, after some of them, or the  *)
(* fsync may fail with the whole line in the file: every one of these is   *)
(* the same JournalAppendError to the caller.                              *)
(***************************************************************************)
WriteLine(p) ==
  /\ pc[p] = "write"
  /\ file' = Append(file, NewLine(p, TRUE))
  /\ Goto(p, "fsync")
  /\ UNCHANGED <<synced, holds, request, outcome, scanVars, fate>>

WriteFails(p) ==
  /\ pc[p] = "write"
  /\ file' \in {file, Append(file, NewLine(p, FALSE))}
  /\ Finish(p, "append_error")
  /\ UNCHANGED <<synced, holds, request, scanVars, fate>>

\* Mutant: the buffer is flushed to the kernel and not to the disk.
FsyncOmitted(p) ==
  /\ pc[p] = "fsync"
  /\ Finish(p, "appended")
  /\ UNCHANGED <<fileVars, holds, request, scanVars, fate>>

Fsync(p) ==
  /\ pc[p] = "fsync"
  /\ synced' = Len(file)
  /\ Finish(p, "appended")
  /\ UNCHANGED <<file, holds, request, scanVars, fate>>

\* Mutant: a failed fsync is reported like a rejected event.
FsyncFailsAsRefused(p) ==
  /\ pc[p] = "fsync"
  /\ Finish(p, "refused")
  /\ UNCHANGED <<fileVars, holds, request, scanVars, fate>>

FsyncFails(p) ==
  /\ pc[p] = "fsync"
  /\ Finish(p, "append_error")
  /\ UNCHANGED <<fileVars, holds, request, scanVars, fate>>

(***************************************************************************)
(* verified_journal_snapshot with its shared lock: the scan reads the file *)
(* one line at a time, stops at the first line that does not verify, and   *)
(* compares the file's metadata before and after.                          *)
(***************************************************************************)
BeginSnapshot(p) ==
  /\ pc[p] = "idle"
  /\ floor' = [floor EXCEPT ![p] = {e \in Events : fate[e] = "appended"}]
  /\ seen' = [seen EXCEPT ![p] = << >>]
  /\ returned' = [returned EXCEPT ![p] = << >>]
  /\ outcome' = [outcome EXCEPT ![p] = "none"]
  /\ Goto(p, "lock_shared")
  /\ UNCHANGED <<fileVars, holds, request, before, fate>>

\* Mutant: a reader does not wait for an appender.
LockSharedBesideWriters(p) ==
  /\ pc[p] = "lock_shared"
  /\ holds' = [holds EXCEPT ![p] = "shared"]
  /\ Goto(p, "open")
  /\ UNCHANGED <<fileVars, request, outcome, scanVars, fate>>

LockShared(p) ==
  /\ pc[p] = "lock_shared"
  /\ Holders("exclusive") = {}
  /\ holds' = [holds EXCEPT ![p] = "shared"]
  /\ Goto(p, "open")
  /\ UNCHANGED <<fileVars, request, outcome, scanVars, fate>>

OpenForScan(p) ==
  /\ pc[p] = "open"
  /\ before' = [before EXCEPT ![p] = Len(file)]
  /\ Goto(p, "scan")
  /\ UNCHANGED <<fileVars, holds, request, outcome, seen, floor, returned, fate>>

AtEnd(p) == Len(seen[p]) >= Len(file)

NextLine(p) == file[Len(seen[p]) + 1]

ScanLine(p) ==
  /\ pc[p] = "scan"
  /\ ~AtEnd(p)
  /\ LineVerifies(NextLine(p), seen[p])
  /\ seen' = [seen EXCEPT ![p] = Append(@, NextLine(p))]
  /\ UNCHANGED <<fileVars, pc, holds, request, outcome, before, floor,
                 returned, fate>>

ScanStops(p) ==
  /\ pc[p] = "scan"
  /\ \/ ~AtEnd(p) /\ ~LineVerifies(NextLine(p), seen[p])
     \/ AtEnd(p) /\ Len(file) # before[p]
  /\ Finish(p, "unverified")
  /\ UNCHANGED <<fileVars, holds, request, scanVars, fate>>

ScanEnds(p) ==
  /\ pc[p] = "scan"
  /\ AtEnd(p)
  /\ Len(file) = before[p]
  /\ returned' = [returned EXCEPT ![p] = EventsOf(seen[p])]
  /\ Finish(p, "verified")
  /\ UNCHANGED <<fileVars, holds, request, before, seen, floor, fate>>

\* The file cannot be opened or read: the OSError leaves the snapshot.
ReadFails(p) ==
  /\ pc[p] \in {"open", "scan"}
  /\ Finish(p, "read_error")
  /\ UNCHANGED <<fileVars, holds, request, scanVars, fate>>

----------------------------------------------------------------------------
\* Mutant: results are passed on as they are, JournalAppendError included.
FateOfAnyResult(result) == result

(***************************************************************************)
(* A process in the middle of an append leaves its event's fate behind     *)
(* when it returns, fails or dies.                                         *)
(***************************************************************************)
FateOf(result) ==
  IF result \in {"appended", "refused"} THEN result ELSE "unknown"

Settle(p, result) ==
  fate' = [e \in Events |->
             IF fate[e] = "pending" /\ request[p].event = e
             THEN FateOf(result) ELSE fate[e]]

Appending(p) ==
  \/ pc[p] \in {"lock_exclusive", "preflight", "write", "fsync"}
  \/ pc[p] = "unlock" /\ holds[p] = "exclusive"

GiveUp(p) ==
  /\ outcome' = [outcome EXCEPT ![p] = "lock_error"]
  /\ Goto(p, "idle")
  /\ IF Appending(p) THEN Settle(p, "refused") ELSE UNCHANGED fate
  /\ request' = [request EXCEPT ![p] = NoRequest]
  /\ UNCHANGED <<fileVars, holds, scanVars>>

\* Mutant: an appender waits for readers without a deadline.
LockTimeoutOnWriters(p) ==
  /\ pc[p] \in {"lock_exclusive", "lock_shared"}
  /\ Holders("exclusive") # {}
  /\ GiveUp(p)

(***************************************************************************)
(* _journal_lock polls: an attempt that would block after the deadline     *)
(* raises JournalLockError.                                                *)
(***************************************************************************)
LockTimeout(p) ==
  /\ \/ pc[p] = "lock_exclusive" /\ Holders("shared") # {}
     \/ pc[p] \in {"lock_exclusive", "lock_shared"} /\ Holders("exclusive") # {}
  /\ GiveUp(p)

\* The directory is not private, or the lock file cannot be opened or written.
LockFileFails(p) ==
  /\ pc[p] \in {"lock_exclusive", "lock_shared"}
  /\ GiveUp(p)

Unlock(p) ==
  /\ pc[p] = "unlock"
  /\ holds' = [holds EXCEPT ![p] = "none"]
  /\ Goto(p, "idle")
  /\ IF Appending(p) THEN Settle(p, outcome[p]) ELSE UNCHANGED fate
  /\ request' = [request EXCEPT ![p] = NoRequest]
  /\ UNCHANGED <<fileVars, outcome, scanVars>>

(***************************************************************************)
(* A process dies between two steps: flock is released with its descriptor *)
(* and nobody learns the result.  (Dying inside a write leaves what        *)
(* WriteFails followed by this action leaves.)                             *)
(***************************************************************************)
ProcessCrash(p) ==
  /\ pc[p] # "idle"
  /\ holds' = [holds EXCEPT ![p] = "none"]
  /\ outcome' = [outcome EXCEPT ![p] = "crashed"]
  /\ Goto(p, "idle")
  /\ IF Appending(p) THEN Settle(p, "crashed") ELSE UNCHANGED fate
  /\ request' = [request EXCEPT ![p] = NoRequest]
  /\ UNCHANGED <<fileVars, scanVars>>

(***************************************************************************)
(* The host goes down: every process is gone and the file keeps at least   *)
(* what was fsynced; of the first lost line some bytes may survive.        *)
(***************************************************************************)
Surviving(n) ==
  {SubSeq(file, 1, n)} \cup
  {Append(SubSeq(file, 1, n), [file[m] EXCEPT !.whole = FALSE]) :
     m \in {n + 1} \cap (1 .. Len(file))}

HostCrash ==
  /\ HostCrashes
  /\ \E n \in synced .. Len(file) : file' \in Surviving(n)
  /\ pc' = [p \in Procs |-> "idle"]
  /\ holds' = [p \in Procs |-> "none"]
  /\ outcome' = [p \in Procs |-> "crashed"]
  /\ fate' = [e \in Events |-> IF fate[e] = "pending" THEN "unknown" ELSE fate[e]]
  /\ synced' = Len(file')
  /\ request' = [p \in Procs |-> NoRequest]
  /\ UNCHANGED scanVars

----------------------------------------------------------------------------
Init ==
  /\ file = << >>
  /\ synced = 0
  /\ pc = [p \in Procs |-> "idle"]
  /\ holds = [p \in Procs |-> "none"]
  /\ request = [p \in Procs |-> NoRequest]
  /\ outcome = [p \in Procs |-> "none"]
  /\ before = [p \in Procs |-> 0]
  /\ seen = [p \in Procs |-> << >>]
  /\ floor = [p \in Procs |-> {}]
  /\ returned = [p \in Procs |-> << >>]
  /\ fate = [e \in Events |-> "new"]

Step(p) ==
  \/ LockExclusive(p) \/ PreflightAccepts(p) \/ PreflightRefuses(p)
  \/ WriteLine(p) \/ WriteFails(p) \/ Fsync(p) \/ FsyncFails(p)
  \/ LockShared(p) \/ OpenForScan(p)
  \/ ScanLine(p) \/ ScanStops(p) \/ ScanEnds(p)
  \/ LockTimeout(p) \/ Unlock(p)

Next ==
  \/ \E p \in Procs : \/ BeginAppend(p) \/ BeginSnapshot(p) \/ Step(p)
                       \/ LockFileFails(p) \/ ReadFails(p) \/ ProcessCrash(p)
  \/ HostCrash

Spec == Init /\ [][Next]_vars

(***************************************************************************)
(* A live process keeps executing its call: every step of the code is      *)
(* either runnable or, while the lock is taken, the deadline of the poll   *)
(* loop.  Nothing obliges a caller to start a call, a process to die or an *)
(* I/O operation to fail.                                                  *)
(***************************************************************************)
FairSpec == Spec /\ \A p \in Procs : WF_vars(Step(p))

----------------------------------------------------------------------------
Labels == {"idle", "lock_exclusive", "preflight", "write", "fsync",
           "lock_shared", "open", "scan", "unlock"}

Outcomes == {"none", "refused", "append_error", "appended", "unverified",
             "verified", "read_error", "lock_error", "crashed"}

Fates == {"new", "pending", "appended", "refused", "unknown"}

\* Every variable keeps to its type, and no more lines are synced than exist.
TypeOK ==
  /\ file \in Seq(Lines)
  /\ synced \in 0 .. Len(file)
  /\ pc \in [Procs -> Labels]
  /\ holds \in [Procs -> {"none", "shared", "exclusive"}]
  /\ request \in [Procs -> Requests \cup {NoRequest}]
  /\ outcome \in [Procs -> Outcomes]
  /\ before \in [Procs -> Nat]
  /\ seen \in [Procs -> Seq(Lines)]
  /\ floor \in [Procs -> SUBSET Events]
  /\ returned \in [Procs -> Seq(Events)]
  /\ fate \in [Events -> Fates]

WholeLines == {i \in 1 .. Len(file) : file[i].whole}

EventsIn(indices) == {file[i].event : i \in indices}

Logged == EventsIn(WholeLines)

\* Whatever writers, failed writes and crashes did, the file is one hash chain
\* with consecutive sequence numbers, of which only the last line may be torn.
ChainIntact ==
  \A i \in 1 .. Len(file) :
    /\ file[i].sequence = i - 1
    /\ file[i].prev = TerminalHash(SubSeq(file, 1, i - 1))
    /\ file[i].whole \/ i = Len(file)

\* An append that was acknowledged to its caller is on stable storage and in
\* the verified part of the file, whatever crashes afterwards.
AcknowledgedIsDurable ==
  \A e \in Events :
    fate[e] = "appended" => \E i \in 1 .. synced : file[i].whole /\ file[i].event = e

\* An append rejected by the lock, by verification or by its sequence number
\* left no line behind: only JournalAppendError from the write is ambiguous.
RefusedIsAbsent ==
  \A e \in Events :
    fate[e] = "refused" => \A i \in 1 .. Len(file) : file[i].event # e

\* A verified snapshot holds every append acknowledged before the call began
\* and nothing that a live writer has not finished (no dirty read).
SnapshotIsCommitted ==
  \A p \in Procs :
    pc[p] = "unlock" /\ outcome[p] = "verified" =>
      LET events == {returned[p][i] : i \in 1 .. Len(returned[p])} IN
        /\ floor[p] \subseteq events
        /\ \A e \in events : fate[e] # "pending"

\* Nothing is ever appended behind a torn line: the append path verifies the
\* file first and never repairs it.
TornTailBlocksAppends ==
  [][ (\E i \in 1 .. Len(file) : ~file[i].whole) => Len(file') <= Len(file) ]_vars

\* Every call returns: a caller of append_event or of a snapshot is not left
\* waiting for a lock, whoever holds it and whoever dies.
CallsReturn ==
  \A p \in Procs : pc[p] # "idle" ~> pc[p] = "idle"

----------------------------------------------------------------------------
(***************************************************************************)
(* What the journal promises: see DurableLog.                              *)
(***************************************************************************)
WholeUpTo(lines, n) == IF n > 0 /\ ~lines[n].whole THEN n - 1 ELSE n

\* A torn line is the last one, so the whole lines among the first n are a prefix.
WholePrefix(lines, n) == SubSeq(lines, 1, WholeUpTo(lines, n))

Log == INSTANCE DurableLog WITH
         log     <- EventsOf(WholePrefix(file, Len(file))),
         durable <- Len(WholePrefix(file, synced)),
         acked   <- {e \in Events : fate[e] = "appended"},
         view    <- returned

Implements == Log!Spec

=============================================================================
