------------------------- MODULE LocalJournalProofs -------------------------
(***************************************************************************)
(* Proofs about LocalJournal, for any processes, events and bounds.        *)
(* Its file and lock, what appends and readers are told of it, and that it *)
(* implements DurableLog.                                                  *)
(***************************************************************************)
EXTENDS LocalJournal, SequenceTheorems, TLAPS

----------------------------------------------------------------------------
(***************************************************************************)
(* Types.  A process in the middle of an append has a request to append.   *)
(***************************************************************************)
AppendLabels == {"lock_exclusive", "preflight", "write", "fsync"}

TypeInv ==
  /\ TypeOK
  /\ \A p \in Procs : pc[p] \in AppendLabels => request[p] \in Requests

\* The hash of a line, and of the last line of a journal, is a history of events.
LEMMA HashType ==
  ASSUME NEW lines \in Seq(Lines)
  PROVE  TerminalHash(lines) \in Seq(Events)
<1>1. CASE lines = << >>
  BY <1>1 DEF TerminalHash, NoHash
<1>2. CASE lines # << >>
  <2>1. lines[Len(lines)] \in Lines
    BY <1>2
  <2>2. Hash(lines[Len(lines)]) \in Seq(Events)
    BY <2>1 DEF Hash, Lines
  <2> QED BY <1>2, <2>2 DEF TerminalHash
<1> QED BY <1>1, <1>2

\* The line a writer is about to write is a line.
LEMMA NewLineType ==
  ASSUME TypeInv, NEW p \in Procs, pc[p] = "write", NEW w \in BOOLEAN
  PROVE  NewLine(p, w) \in Lines
<1>1. request[p] \in Requests
  BY DEF TypeInv, AppendLabels
<1>2. request[p].sequence \in Nat /\ request[p].event \in Events
  BY <1>1, MaxSequenceAssumption DEF Requests, Sequences
<1>3. TerminalHash(file) \in Seq(Events)
  BY HashType DEF TypeInv, TypeOK
<1> QED BY <1>2, <1>3 DEF NewLine, Lines

\* What may survive a crash of the host is a journal no longer than the file.
LEMMA SurvivingType ==
  ASSUME file \in Seq(Lines), NEW n \in 0 .. Len(file), NEW f \in Surviving(n)
  PROVE  f \in Seq(Lines)
<1>1. SubSeq(file, 1, n) \in Seq(Lines)
  OBVIOUS
<1>2. CASE f = SubSeq(file, 1, n)
  BY <1>1, <1>2
<1>3. ASSUME NEW m \in {n + 1} \cap (1 .. Len(file)),
             f = Append(SubSeq(file, 1, n), [file[m] EXCEPT !.whole = FALSE])
      PROVE  f \in Seq(Lines)
  <2>1. file[m] \in Lines
    BY <1>3
  <2>2. [file[m] EXCEPT !.whole = FALSE] \in Lines
    BY <2>1 DEF Lines
  <2> QED BY <1>1, <1>3, <2>2
<1> QED BY <1>2, <1>3 DEF Surviving

\* Appending a line makes a journal one line longer.
LEMMA AppendType ==
  ASSUME NEW lines \in Seq(Lines), NEW line \in Lines
  PROVE  /\ Append(lines, line) \in Seq(Lines)
         /\ Len(Append(lines, line)) = Len(lines) + 1
         /\ Len(lines) \in Nat
  BY AppendProperties, LenProperties

\* The events of a journal are a sequence of events.
LEMMA EventsOfType ==
  ASSUME NEW lines \in Seq(Lines)
  PROVE  EventsOf(lines) \in Seq(Events)
<1>1. Len(lines) \in Nat
  BY LenProperties
<1>2. \A i \in 1 .. Len(lines) : lines[i].event \in Events
  <2>1. \A i \in 1 .. Len(lines) : lines[i] \in Lines
    BY ElementOfSeq
  <2> QED BY <2>1 DEF Lines
<1>3. EventsOf(lines) \in [1 .. Len(lines) -> Events]
  BY <1>2 DEF EventsOf
<1> QED BY <1>1, <1>3, SeqDef

LEMMA InitTypeInv == Init => TypeInv
<1> SUFFICES ASSUME Init PROVE TypeInv
  OBVIOUS
<1>1. file \in Seq(Lines) /\ synced \in 0 .. Len(file)
  BY DEF Init
<1>2. TypeOK
  BY <1>1 DEF Init, TypeOK, Labels, Outcomes, Fates, NoRequest
<1> QED BY <1>2 DEF Init, TypeInv, AppendLabels

\* No step of an append, of a snapshot or of a crash leaves the types.
LEMMA StepTypeInv == TypeInv /\ [Next]_vars => TypeInv'
<1> SUFFICES ASSUME TypeInv, [Next]_vars PROVE TypeInv'
  OBVIOUS
<1> USE DEF TypeInv, TypeOK, AppendLabels, Labels, Outcomes, Fates, Goto,
            Finish, scanVars, fileVars
<1>1. ASSUME NEW p \in Procs, BeginAppend(p) PROVE TypeInv'
  BY <1>1 DEF BeginAppend, Requests
<1>2. ASSUME NEW p \in Procs, LockExclusive(p) PROVE TypeInv'
  BY <1>2 DEF LockExclusive
<1>3. ASSUME NEW p \in Procs, PreflightAccepts(p) \/ PreflightRefuses(p) PROVE TypeInv'
  BY <1>3 DEF PreflightAccepts, PreflightRefuses
<1>4. ASSUME NEW p \in Procs, WriteLine(p) PROVE TypeInv'
  <2>1. NewLine(p, TRUE) \in Lines
    BY <1>4, NewLineType DEF WriteLine
  <2>2. file' = Append(file, NewLine(p, TRUE))
    BY <1>4 DEF WriteLine
  <2>3. file' \in Seq(Lines) /\ Len(file') = Len(file) + 1 /\ Len(file) \in Nat
    <3> HIDE DEF TypeInv, TypeOK
    <3>1. file \in Seq(Lines)
      BY DEF TypeInv, TypeOK
    <3> QED BY <2>1, <2>2, <3>1, AppendType
  <2>4. /\ pc[p] = "write" /\ pc' = [pc EXCEPT ![p] = "fsync"]
        /\ UNCHANGED <<synced, holds, request, outcome, scanVars, fate>>
    BY <1>4 DEF WriteLine
  <2> QED BY <2>3, <2>4
<1>5. ASSUME NEW p \in Procs, WriteFails(p) PROVE TypeInv'
  <2>1. NewLine(p, FALSE) \in Lines
    BY <1>5, NewLineType DEF WriteFails
  <2>2. file' = file \/ file' = Append(file, NewLine(p, FALSE))
    BY <1>5 DEF WriteFails
  <2>3. file' \in Seq(Lines) /\ Len(file') >= Len(file) /\ Len(file) \in Nat
    <3> HIDE DEF TypeInv, TypeOK
    <3>1. file \in Seq(Lines)
      BY DEF TypeInv, TypeOK
    <3>2. Len(file) \in Nat
      BY <3>1, LenProperties
    <3>3. CASE file' = file
      BY <3>1, <3>2, <3>3
    <3>4. CASE file' = Append(file, NewLine(p, FALSE))
      <4>1. file' \in Seq(Lines) /\ Len(file') = Len(file) + 1
        BY <2>1, <3>1, <3>4, AppendType
      <4> QED BY <3>2, <4>1
    <3> QED BY <2>2, <3>3, <3>4
  <2>4. /\ pc[p] = "write" /\ Finish(p, "append_error")
        /\ UNCHANGED <<synced, holds, request, scanVars, fate>>
    BY <1>5 DEF WriteFails
  <2> QED BY <2>3, <2>4
<1>6. ASSUME NEW p \in Procs, Fsync(p) \/ FsyncFails(p) PROVE TypeInv'
  <2>1. Len(file) \in 0 .. Len(file)
    BY LenProperties
  <2> QED BY <1>6, <2>1 DEF Fsync, FsyncFails
<1>7. ASSUME NEW p \in Procs, BeginSnapshot(p) PROVE TypeInv'
  BY <1>7 DEF BeginSnapshot
<1>8. ASSUME NEW p \in Procs, LockShared(p) \/ OpenForScan(p) PROVE TypeInv'
  <2>1. CASE LockShared(p)
    BY <2>1 DEF LockShared
  <2>2. CASE OpenForScan(p)
    <3>1. Len(file) \in Nat
      OBVIOUS
    <3> QED BY <2>2, <3>1 DEF OpenForScan
  <2> QED BY <1>8, <2>1, <2>2
<1>9. ASSUME NEW p \in Procs, ScanLine(p) PROVE TypeInv'
  <2>1. NextLine(p) \in Lines
    BY <1>9 DEF ScanLine, AtEnd, NextLine
  <2> QED BY <1>9, <2>1 DEF ScanLine
<1>10. ASSUME NEW p \in Procs, ScanStops(p) \/ ReadFails(p) PROVE TypeInv'
  BY <1>10 DEF ScanStops, ReadFails
<1>11. ASSUME NEW p \in Procs, ScanEnds(p) PROVE TypeInv'
  <2>1. EventsOf(seen[p]) \in Seq(Events)
    BY EventsOfType
  <2> QED BY <1>11, <2>1 DEF ScanEnds
<1>12. ASSUME NEW p \in Procs, LockTimeout(p) \/ LockFileFails(p) PROVE TypeInv'
  <2>1. GiveUp(p)
    BY <1>12 DEF LockTimeout, LockFileFails
  <2>2. fate' \in [Events -> Fates]
    BY <2>1 DEF GiveUp, Settle, FateOf
  <2> QED BY <2>1, <2>2 DEF GiveUp
<1>13. ASSUME NEW p \in Procs, Unlock(p) PROVE TypeInv'
  <2>1. fate' \in [Events -> Fates]
    BY <1>13 DEF Unlock, Settle, FateOf
  <2>2. /\ pc' \in [Procs -> Labels] /\ holds' \in [Procs -> {"none", "shared", "exclusive"}]
        /\ request' \in [Procs -> Requests \cup {NoRequest}]
    BY <1>13 DEF Unlock
  <2>3. UNCHANGED <<file, synced, outcome, before, seen, floor, returned>>
    BY <1>13 DEF Unlock
  <2>4. \A q \in Procs : pc'[q] \in AppendLabels => request'[q] \in Requests
    BY <1>13 DEF Unlock
  <2> QED BY <2>1, <2>2, <2>3, <2>4
<1>14. ASSUME NEW p \in Procs, ProcessCrash(p) PROVE TypeInv'
  BY <1>14 DEF ProcessCrash, Settle, FateOf
<1>15. ASSUME HostCrash PROVE TypeInv'
  <2>1. file' \in Seq(Lines)
    BY <1>15, SurvivingType DEF HostCrash
  <2> QED BY <1>15, <2>1 DEF HostCrash
<1>16. ASSUME UNCHANGED vars PROVE TypeInv'
  BY <1>16 DEF vars
<1> QED
  BY <1>1, <1>2, <1>3, <1>4, <1>5, <1>6, <1>7, <1>8, <1>9, <1>10, <1>11, <1>12,
     <1>13, <1>14, <1>15, <1>16 DEF Next, Step

\* Every reachable state is well typed, and a process that is appending has a
\* request with one of the events callers may append.
THEOREM TypesHold == Spec => []TypeInv
<1>1. Init => TypeInv
  BY InitTypeInv
<1>2. TypeInv /\ [Next]_vars => TypeInv'
  BY StepTypeInv
<1> QED BY <1>1, <1>2, PTL DEF Spec

\* Every variable of every reachable state has its type.
THEOREM TypeCorrect == Spec => []TypeOK
<1>1. TypeInv => TypeOK
  BY DEF TypeInv
<1> QED BY <1>1, TypesHold, PTL

----------------------------------------------------------------------------
(***************************************************************************)
(* The lock.  The labels at which a process holds it, and in which mode;   *)
(* an exclusive holder is the only holder.                                 *)
(***************************************************************************)
ModeAt(p) ==
  /\ pc[p] \in {"idle", "lock_exclusive", "lock_shared"} => holds[p] = "none"
  /\ pc[p] \in {"preflight", "write", "fsync"} => holds[p] = "exclusive"
  /\ pc[p] \in {"open", "scan"} => holds[p] = "shared"

ExclusiveIsAlone ==
  \A p, q \in Procs : p # q /\ holds[p] = "exclusive" => holds[q] = "none"

LockInv == ExclusiveIsAlone /\ \A p \in Procs : ModeAt(p)

LEMMA InitLockInv == Init => LockInv
  BY DEF Init, LockInv, ModeAt, ExclusiveIsAlone

\* flock admits an exclusive holder only when there is no other, and every way
\* out of a call, a crash included, gives the lock back.
LEMMA StepLockInv == TypeInv /\ LockInv /\ [Next]_vars => LockInv'
<1> SUFFICES ASSUME TypeInv, LockInv, [Next]_vars PROVE LockInv'
  OBVIOUS
<1>0. pc \in [Procs -> Labels] /\ holds \in [Procs -> {"none", "shared", "exclusive"}]
  BY DEF TypeInv, TypeOK
<1> USE <1>0 DEF LockInv, ModeAt, ExclusiveIsAlone, Goto, Finish
<1>1. ASSUME NEW p \in Procs, LockExclusive(p) PROVE LockInv'
  <2>1. \A q \in Procs : holds[q] = "none"
    BY <1>1 DEF LockExclusive, Holders
  <2> QED BY <1>1, <2>1 DEF LockExclusive
<1>2. ASSUME NEW p \in Procs, LockShared(p) PROVE LockInv'
  <2>1. \A q \in Procs : holds[q] # "exclusive"
    BY <1>2 DEF LockShared, Holders
  <2> QED BY <1>2, <2>1 DEF LockShared
<1>3. ASSUME NEW p \in Procs, BeginAppend(p) \/ BeginSnapshot(p) PROVE LockInv'
  BY <1>3 DEF BeginAppend, BeginSnapshot
<1>4. ASSUME NEW p \in Procs, PreflightAccepts(p) \/ PreflightRefuses(p) PROVE LockInv'
  BY <1>4 DEF PreflightAccepts, PreflightRefuses
<1>5. ASSUME NEW p \in Procs, WriteLine(p) \/ WriteFails(p) PROVE LockInv'
  BY <1>5 DEF WriteLine, WriteFails
<1>6. ASSUME NEW p \in Procs, Fsync(p) \/ FsyncFails(p) PROVE LockInv'
  BY <1>6 DEF Fsync, FsyncFails, fileVars
<1>7. ASSUME NEW p \in Procs, OpenForScan(p) \/ ScanLine(p) PROVE LockInv'
  BY <1>7 DEF OpenForScan, ScanLine
<1>8. ASSUME NEW p \in Procs, ScanStops(p) \/ ScanEnds(p) \/ ReadFails(p) PROVE LockInv'
  BY <1>8 DEF ScanStops, ScanEnds, ReadFails
<1>9. ASSUME NEW p \in Procs, LockTimeout(p) \/ LockFileFails(p) PROVE LockInv'
  BY <1>9 DEF LockTimeout, LockFileFails, GiveUp
<1>10. ASSUME NEW p \in Procs, Unlock(p) PROVE LockInv'
  BY <1>10 DEF Unlock
<1>11. ASSUME NEW p \in Procs, ProcessCrash(p) PROVE LockInv'
  BY <1>11 DEF ProcessCrash
<1>12. ASSUME HostCrash PROVE LockInv'
  BY <1>12 DEF HostCrash
<1>13. ASSUME UNCHANGED vars PROVE LockInv'
  BY <1>13 DEF vars
<1> QED
  BY <1>1, <1>2, <1>3, <1>4, <1>5, <1>6, <1>7, <1>8, <1>9, <1>10, <1>11, <1>12,
     <1>13 DEF Next, Step

\* At most one process is ever between its lock and its unlock as a writer, and
\* then nobody is reading.
THEOREM WritersAreAlone == Spec => []LockInv
<1>1. Init => LockInv
  BY InitLockInv
<1>2. TypeInv /\ LockInv /\ [Next]_vars => LockInv'
  BY StepLockInv
<1> QED BY <1>1, <1>2, TypesHold, PTL DEF Spec

----------------------------------------------------------------------------
(***************************************************************************)
(* The chain.  Chained(lines) says of any journal what ChainIntact says of *)
(* the file, line by line: Linked relates a line to the one before it.     *)
(***************************************************************************)
HashBefore(lines, i) == IF i = 1 THEN NoHash ELSE Hash(lines[i - 1])

Linked(lines, i) ==
  /\ lines[i].sequence = i - 1
  /\ lines[i].prev = HashBefore(lines, i)
  /\ lines[i].whole \/ i = Len(lines)

Chained(lines) == \A i \in 1 .. Len(lines) : Linked(lines, i)

AllWhole(lines) == \A i \in 1 .. Len(lines) : lines[i].whole

\* The terminal hash of what precedes a line is the hash of the line before it.
LEMMA TerminalHashBefore ==
  ASSUME NEW lines \in Seq(Lines), NEW i \in 1 .. Len(lines)
  PROVE  TerminalHash(SubSeq(lines, 1, i - 1)) = HashBefore(lines, i)
<1>1. Len(lines) \in Nat /\ i \in Nat
  BY LenProperties
<1>2. CASE i = 1
  <2>1. SubSeq(lines, 1, i - 1) = << >>
    BY <1>2, SubSeqEmpty
  <2> QED BY <1>2, <2>1 DEF TerminalHash, HashBefore
<1>3. CASE i # 1
  <2> DEFINE init == SubSeq(lines, 1, i - 1)
  <2>1. \A k \in 1 .. i - 1 : lines[k] \in Lines
    BY <1>1, ElementOfSeq
  <2>2. Len(init) = i - 1 /\ init[i - 1] = lines[i - 1]
    BY <1>1, <1>3, <2>1, SubSeqProperties
  <2>3. init # << >>
    BY <1>1, <1>3, <2>2, EmptySeq
  <2> QED BY <1>3, <2>2, <2>3 DEF TerminalHash, HashBefore
<1> QED BY <1>2, <1>3

LEMMA ChainIntactIsChained ==
  ASSUME file \in Seq(Lines)
  PROVE  ChainIntact <=> Chained(file)
  BY TerminalHashBefore DEF ChainIntact, Chained, Linked

\* A line made under the lock continues a chain of whole lines, torn or not.
LEMMA AppendChained ==
  ASSUME NEW lines \in Seq(Lines), NEW line \in Lines,
         Chained(lines), AllWhole(lines),
         line.sequence = Len(lines), line.prev = TerminalHash(lines)
  PROVE  Chained(Append(lines, line))
<1> DEFINE longer == Append(lines, line)
<1>1. Len(lines) \in Nat /\ Len(longer) = Len(lines) + 1
  BY AppendType
<1>2. \A i \in 1 .. Len(lines) : longer[i] = lines[i]
  BY <1>1, AppendProperties
<1>3. longer[Len(lines) + 1] = line
  BY <1>1, AppendProperties
<1>4. ASSUME NEW i \in 1 .. Len(lines) PROVE Linked(longer, i)
  <2>1. Linked(lines, i) /\ lines[i].whole
    BY DEF Chained, AllWhole
  <2>2. HashBefore(longer, i) = HashBefore(lines, i)
    BY <1>1, <1>2 DEF HashBefore
  <2> QED BY <1>2, <2>1, <2>2 DEF Linked
<1>5. Linked(longer, Len(lines) + 1)
  <2>1. HashBefore(longer, Len(lines) + 1) = TerminalHash(lines)
    <3>1. CASE lines = << >>
      BY <3>1 DEF HashBefore, TerminalHash
    <3>2. CASE lines # << >>
      <4>1. Len(lines) \in 1 .. Len(lines)
        BY <3>2, <1>1, EmptySeq
      <4> QED BY <1>1, <1>2, <3>2, <4>1 DEF HashBefore, TerminalHash
    <3> QED BY <3>1, <3>2
  <2> QED BY <1>1, <1>3, <2>1 DEF Linked
<1> QED BY <1>1, <1>4, <1>5 DEF Chained

\* The beginning of a chain is a chain, and the first line cut off may be left
\* torn at its end.
LEMMA SurvivorChained ==
  ASSUME file \in Seq(Lines), Chained(file), NEW n \in 0 .. Len(file),
         NEW f \in Surviving(n)
  PROVE  Chained(f)
<1>1. Len(file) \in Nat /\ n \in Nat
  BY LenProperties
<1> DEFINE init == SubSeq(file, 1, n)
<1>2. /\ init \in Seq(Lines) /\ Len(init) = n
      /\ \A i \in 1 .. n : init[i] = file[i]
  <2>1. \A i \in 1 .. n : file[i] \in Lines
    BY <1>1, ElementOfSeq
  <2> QED BY <1>1, <2>1, SubSeqProperties
<1>3. Chained(init)
  <2> SUFFICES ASSUME NEW i \in 1 .. n PROVE Linked(init, i)
    BY <1>2 DEF Chained
  <2>1. Linked(file, i) /\ (i = n \/ file[i].whole)
    BY <1>1 DEF Chained, Linked
  <2>2. HashBefore(init, i) = HashBefore(file, i)
    BY <1>1, <1>2 DEF HashBefore
  <2> QED BY <1>2, <2>1, <2>2 DEF Linked
<1>4. ASSUME n + 1 \in 1 .. Len(file),
             f = Append(init, [file[n + 1] EXCEPT !.whole = FALSE])
      PROVE  Chained(f)
  <2> DEFINE line == [file[n + 1] EXCEPT !.whole = FALSE]
  <2>1. file[n + 1] \in Lines
    BY <1>4, ElementOfSeq
  <2>2. line \in Lines /\ line.sequence = file[n + 1].sequence /\ line.prev = file[n + 1].prev
    BY <2>1 DEF Lines
  <2>3. AllWhole(init)
    BY <1>1, <1>2, <1>4 DEF AllWhole, Chained, Linked
  <2>4. line.sequence = Len(init)
    BY <1>1, <1>2, <1>4, <2>2 DEF Chained, Linked
  <2>5. line.prev = TerminalHash(init)
    <3>1. file[n + 1].prev = HashBefore(file, n + 1)
      BY <1>4 DEF Chained, Linked
    <3>2. TerminalHash(SubSeq(file, 1, (n + 1) - 1)) = HashBefore(file, n + 1)
      BY <1>4, TerminalHashBefore
    <3>3. (n + 1) - 1 = n
      BY <1>1
    <3> QED BY <2>2, <3>1, <3>2, <3>3
  <2> HIDE DEF line, init
  <2> QED BY <1>2, <1>3, <1>4, <2>2, <2>3, <2>4, <2>5, AppendChained DEF line
<1> QED BY <1>3, <1>4 DEF Surviving

(***************************************************************************)
(* The chain survives because a writer that passed its preflight is alone  *)
(* with a file of whole lines, of which its own will be the next.          *)
(***************************************************************************)
WriterIsNext ==
  \A p \in Procs :
    pc[p] = "write" => AllWhole(file) /\ request[p].sequence = Len(file)

ChainInv == Chained(file) /\ WriterIsNext

LEMMA InitChainInv == Init => ChainInv
<1> SUFFICES ASSUME Init PROVE ChainInv
  OBVIOUS
<1>1. Len(file) = 0
  BY EmptySeq DEF Init
<1> QED BY <1>1 DEF Init, ChainInv, Chained, WriterIsNext

LEMMA StepChainInv == TypeInv /\ LockInv /\ ChainInv /\ [Next]_vars => ChainInv'
<1> SUFFICES ASSUME TypeInv, LockInv, ChainInv, [Next]_vars PROVE ChainInv'
  OBVIOUS
<1>0. /\ file \in Seq(Lines) /\ Len(file) \in Nat
      /\ pc \in [Procs -> Labels] /\ request \in [Procs -> Requests \cup {NoRequest}]
  BY LenProperties DEF TypeInv, TypeOK
<1>1. ASSUME NEW p \in Procs, pc[p] = "write", NEW w \in BOOLEAN
      PROVE  Chained(Append(file, NewLine(p, w)))
  <2> DEFINE line == NewLine(p, w)
  <2>1. line \in Lines /\ line.sequence = request[p].sequence
        /\ line.prev = TerminalHash(file)
    BY <1>1, NewLineType DEF NewLine
  <2>2. AllWhole(file) /\ line.sequence = Len(file)
    BY <1>1, <2>1 DEF ChainInv, WriterIsNext
  <2> HIDE DEF line
  <2>3. Chained(file)
    BY DEF ChainInv
  <2> QED BY <1>0, <2>1, <2>2, <2>3, AppendChained DEF line
<1>2. ASSUME NEW p \in Procs, WriteLine(p) PROVE ChainInv'
  <2>1. Chained(file')
    BY <1>1, <1>2 DEF WriteLine
  <2>2. \A q \in Procs : pc'[q] # "write"
    BY <1>0, <1>2 DEF WriteLine, Goto, LockInv, ModeAt, ExclusiveIsAlone
  <2> QED BY <2>1, <2>2 DEF ChainInv, WriterIsNext
<1>3. ASSUME NEW p \in Procs, WriteFails(p) PROVE ChainInv'
  <2>1. Chained(file')
    BY <1>1, <1>3 DEF WriteFails, ChainInv
  <2>2. \A q \in Procs : pc'[q] # "write"
    BY <1>0, <1>3 DEF WriteFails, Finish, Goto, LockInv, ModeAt, ExclusiveIsAlone
  <2> QED BY <2>1, <2>2 DEF ChainInv, WriterIsNext
<1>4. ASSUME HostCrash PROVE ChainInv'
  <2>1. PICK n \in synced .. Len(file) : file' \in Surviving(n)
    BY <1>4 DEF HostCrash
  <2>2. n \in 0 .. Len(file)
    BY <1>0 DEF TypeInv, TypeOK
  <2>3. Chained(file')
    BY <1>0, <2>1, <2>2, SurvivorChained DEF ChainInv
  <2>4. \A q \in Procs : pc'[q] # "write"
    BY <1>4 DEF HostCrash
  <2> QED BY <2>3, <2>4 DEF ChainInv, WriterIsNext
<1>5. ASSUME NEW p \in Procs, PreflightAccepts(p) PROVE ChainInv'
  <2>1. AllWhole(file) /\ request[p].sequence = Len(file)
    BY <1>5 DEF PreflightAccepts, Verifies, LineVerifies, AllWhole
  <2>2. UNCHANGED <<file, request>> /\ pc' = [pc EXCEPT ![p] = "write"]
    BY <1>5 DEF PreflightAccepts, Goto, fileVars
  <2> QED BY <1>0, <2>1, <2>2 DEF ChainInv, WriterIsNext
<1>6. ASSUME UNCHANGED file,
             \A q \in Procs : pc'[q] = "write" => pc[q] = "write" /\ request'[q] = request[q]
      PROVE  ChainInv'
  BY <1>6 DEF ChainInv, WriterIsNext
<1> USE DEF Goto, Finish, fileVars
<1>7. ASSUME NEW p \in Procs, BeginAppend(p) \/ BeginSnapshot(p) PROVE ChainInv'
  BY <1>0, <1>6, <1>7 DEF BeginAppend, BeginSnapshot
<1>8. ASSUME NEW p \in Procs, LockExclusive(p) \/ PreflightRefuses(p) PROVE ChainInv'
  BY <1>0, <1>6, <1>8 DEF LockExclusive, PreflightRefuses
<1>9. ASSUME NEW p \in Procs, Fsync(p) \/ FsyncFails(p) PROVE ChainInv'
  BY <1>0, <1>6, <1>9 DEF Fsync, FsyncFails
<1>10. ASSUME NEW p \in Procs, LockShared(p) \/ OpenForScan(p) PROVE ChainInv'
  BY <1>0, <1>6, <1>10 DEF LockShared, OpenForScan
<1>11. ASSUME NEW p \in Procs, ScanLine(p) \/ ScanStops(p) \/ ScanEnds(p) \/ ReadFails(p)
       PROVE  ChainInv'
  BY <1>0, <1>6, <1>11 DEF ScanLine, ScanStops, ScanEnds, ReadFails
<1>12. ASSUME NEW p \in Procs,
              LockTimeout(p) \/ LockFileFails(p) \/ Unlock(p) \/ ProcessCrash(p)
       PROVE  ChainInv'
  BY <1>0, <1>6, <1>12 DEF LockTimeout, LockFileFails, GiveUp, Unlock, ProcessCrash
<1>13. ASSUME UNCHANGED vars PROVE ChainInv'
  BY <1>6, <1>13 DEF vars
<1> QED
  BY <1>2, <1>3, <1>4, <1>5, <1>7, <1>8, <1>9, <1>10, <1>11, <1>12, <1>13
  DEF Next, Step

LEMMA ChainInvHolds == Spec => []ChainInv
<1>1. Init => ChainInv
  BY InitChainInv
<1>2. TypeInv /\ LockInv /\ ChainInv /\ [Next]_vars => ChainInv'
  BY StepChainInv
<1> QED BY <1>1, <1>2, TypesHold, WritersAreAlone, PTL DEF Spec

\* Whatever writers, failed writes and crashes of processes or of the host do,
\* the journal file is one hash chain, torn at most in its last line.
THEOREM ChainHolds == Spec => []ChainIntact
<1>1. TypeInv /\ ChainInv => ChainIntact
  BY ChainIntactIsChained DEF TypeInv, TypeOK, ChainInv
<1> QED BY <1>1, TypesHold, ChainInvHolds, PTL

\* Nothing is ever appended behind a torn line.
THEOREM TornTailBlocks == Spec => TornTailBlocksAppends
<1> DEFINE Blocked == (\E i \in 1 .. Len(file) : ~file[i].whole) => Len(file') <= Len(file)
<1>1. TypeInv /\ ChainInv /\ [Next]_vars => [Blocked]_vars
  <2> SUFFICES ASSUME TypeInv, ChainInv, [Next]_vars,
                      NEW i \in 1 .. Len(file), ~file[i].whole
               PROVE  Len(file') <= Len(file)
    OBVIOUS
  <2>0. file \in Seq(Lines) /\ Len(file) \in Nat
    BY LenProperties DEF TypeInv, TypeOK
  <2>1. \A p \in Procs : pc[p] # "write"
    BY DEF ChainInv, WriterIsNext, AllWhole
  <2>2. CASE UNCHANGED file
    BY <2>0, <2>2
  <2>3. CASE HostCrash
    <3>1. PICK n \in synced .. Len(file) : file' \in Surviving(n)
      BY <2>3 DEF HostCrash
    <3>2. n \in 0 .. Len(file)
      BY <2>0 DEF TypeInv, TypeOK
    <3>3. Len(SubSeq(file, 1, n)) = n /\ SubSeq(file, 1, n) \in Seq(Lines)
      <4>1. \A k \in 1 .. n : file[k] \in Lines
        BY <2>0, <3>2, ElementOfSeq
      <4> QED BY <3>2, <4>1, SubSeqProperties
    <3>4. CASE file' = SubSeq(file, 1, n)
      BY <2>0, <3>2, <3>3, <3>4
    <3>5. CASE /\ n + 1 \in 1 .. Len(file)
               /\ file' = Append(SubSeq(file, 1, n), [file[n + 1] EXCEPT !.whole = FALSE])
      <4> DEFINE line == [file[n + 1] EXCEPT !.whole = FALSE]
      <4>1. file[n + 1] \in Lines
        BY <2>0, <3>5, ElementOfSeq
      <4>2. line \in Lines
        BY <4>1 DEF Lines
      <4> HIDE DEF line
      <4>3. Len(Append(SubSeq(file, 1, n), line)) = n + 1
        BY <3>3, <4>2, AppendType
      <4> QED BY <2>0, <3>2, <3>5, <4>3 DEF line
    <3> QED BY <3>1, <3>4, <3>5 DEF Surviving
  <2>4. CASE \E p \in Procs : WriteLine(p) \/ WriteFails(p)
    BY <2>1, <2>4 DEF WriteLine, WriteFails
  <2> QED
    BY <2>2, <2>3, <2>4
    DEF Next, Step, vars, fileVars, BeginAppend, BeginSnapshot, LockExclusive,
        PreflightAccepts, PreflightRefuses, Fsync, FsyncFails, LockShared,
        OpenForScan, ScanLine, ScanStops, ScanEnds, ReadFails, LockTimeout,
        LockFileFails, GiveUp, Unlock, ProcessCrash
<1> QED BY <1>1, TypesHold, ChainInvHolds, PTL DEF Spec, TornTailBlocksAppends

----------------------------------------------------------------------------
(***************************************************************************)
(* What became of an event.  Each process in the middle of an append has a *)
(* pending event of its own; an event is in the file only once its writer  *)
(* wrote it, and on stable storage before its writer reports it appended.  *)
(***************************************************************************)
InFile(e) == \E i \in 1 .. Len(file) : file[i].event = e

OnDisk(e) == \E i \in 1 .. synced : file[i].whole /\ file[i].event = e

RequestsOwned ==
  \A p \in Procs : Appending(p) =>
    /\ request[p].event \in Events
    /\ fate[request[p].event] = "pending"
    /\ \A q \in Procs : q # p /\ Appending(q) => request[q].event # request[p].event

Unwritten(p) ==
  \/ pc[p] \in {"lock_exclusive", "preflight", "write"}
  \/ pc[p] = "unlock" /\ holds[p] = "exclusive" /\ outcome[p] = "refused"

Written(p) ==
  /\ Len(file) \in 1 .. Len(file)
  /\ file[Len(file)].whole
  /\ file[Len(file)].event = request[p].event

Reporting(p) ==
  pc[p] = "unlock" /\ holds[p] = "exclusive" /\ outcome[p] = "appended"

WritersInv ==
  \A p \in Procs :
    /\ Unwritten(p) => ~InFile(request[p].event)
    /\ pc[p] = "fsync" => Written(p)
    /\ Reporting(p) => OnDisk(request[p].event)

EventsInv ==
  \A e \in Events :
    /\ fate[e] \in {"new", "refused"} => ~InFile(e)
    /\ fate[e] = "appended" => OnDisk(e)

FateInv == RequestsOwned /\ WritersInv /\ EventsInv

\* Whoever has yet to write, or has yet to report, is in the middle of an append.
LEMMA OwnersAppend ==
  ASSUME NEW p \in Procs, Unwritten(p) \/ Reporting(p) \/ pc[p] = "fsync"
  PROVE  Appending(p)
  BY DEF Unwritten, Reporting, Appending

LEMMA InitFateInv == Init => FateInv
<1> SUFFICES ASSUME Init PROVE FateInv
  OBVIOUS
<1>1. Len(file) = 0
  BY EmptySeq DEF Init
<1> QED
  BY <1>1 DEF Init, FateInv, RequestsOwned, WritersInv, EventsInv, Appending,
              Unwritten, Reporting, InFile

\* What an append of a line does to the events of the file.
LEMMA AppendedEvents ==
  ASSUME TypeInv, NEW line \in Lines, file' = Append(file, line), synced' = synced
  PROVE  /\ \A e \in Events : InFile(e)' <=> InFile(e) \/ e = line.event
         /\ \A e \in Events : OnDisk(e)' <=> OnDisk(e)
         /\ Len(file') \in 1 .. Len(file') /\ file'[Len(file')] = line
<1>0. file \in Seq(Lines) /\ Len(file) \in Nat /\ synced \in 0 .. Len(file)
  BY LenProperties DEF TypeInv, TypeOK
<1>1. Len(file') = Len(file) + 1
  BY <1>0, AppendType
<1>2. \A i \in 1 .. Len(file) : file'[i] = file[i]
  BY <1>0, AppendProperties
<1>3. file'[Len(file) + 1] = line
  BY <1>0, AppendProperties
<1>4. \A e \in Events : InFile(e)' <=> InFile(e) \/ e = line.event
  BY <1>0, <1>1, <1>2, <1>3 DEF InFile
<1>5. \A i \in 1 .. synced : file'[i] = file[i]
  BY <1>0, <1>2
<1>6. \A e \in Events : OnDisk(e)' <=> OnDisk(e)
  BY <1>5 DEF OnDisk
<1> QED BY <1>0, <1>1, <1>3, <1>4, <1>6

\* What a crash of the host does to the events of the file.
LEMMA SurvivingEvents ==
  ASSUME TypeInv, HostCrash
  PROVE  \A e \in Events : (InFile(e)' => InFile(e)) /\ (OnDisk(e) => OnDisk(e)')
<1>0. file \in Seq(Lines) /\ Len(file) \in Nat /\ synced \in 0 .. Len(file)
  BY LenProperties DEF TypeInv, TypeOK
<1>1. PICK n \in synced .. Len(file) : file' \in Surviving(n)
  BY DEF HostCrash
<1> DEFINE init == SubSeq(file, 1, n)
<1>2. n \in 0 .. Len(file) /\ n \in Nat /\ synced <= n
  BY <1>0
<1>3. /\ init \in Seq(Lines) /\ Len(init) = n
      /\ \A i \in 1 .. n : init[i] = file[i]
  <2>1. \A i \in 1 .. n : file[i] \in Lines
    BY <1>0, <1>2, ElementOfSeq
  <2> QED BY <1>2, <2>1, SubSeqProperties
<1>4. /\ n <= Len(file') /\ Len(file') <= Len(file) /\ Len(file') \in Nat
      /\ \A i \in 1 .. n : file'[i] = file[i]
      /\ \A i \in 1 .. Len(file') : file'[i].event = file[i].event
  <2>1. CASE file' = init
    BY <1>0, <1>2, <1>3, <2>1
  <2>2. CASE /\ n + 1 \in 1 .. Len(file)
             /\ file' = Append(init, [file[n + 1] EXCEPT !.whole = FALSE])
    <3> DEFINE line == [file[n + 1] EXCEPT !.whole = FALSE]
    <3>1. file[n + 1] \in Lines
      BY <1>0, <2>2, ElementOfSeq
    <3>2. line \in Lines /\ line.event = file[n + 1].event
      BY <3>1 DEF Lines
    <3>3. file' = Append(init, line)
      BY <2>2
    <3> HIDE DEF line, init
    <3>4. Len(file') = n + 1
      BY <1>3, <3>2, <3>3, AppendType
    <3>5. \A i \in 1 .. n : file'[i] = file[i]
      BY <1>2, <1>3, <3>2, <3>3, AppendProperties
    <3>6. file'[n + 1] = line
      BY <1>2, <1>3, <3>2, <3>3, AppendProperties
    <3>7. \A i \in 1 .. n + 1 : file'[i].event = file[i].event
      <4> SUFFICES ASSUME NEW i \in 1 .. n + 1 PROVE file'[i].event = file[i].event
        OBVIOUS
      <4>1. CASE i = n + 1
        BY <3>2, <3>6, <4>1
      <4>2. CASE i \in 1 .. n
        BY <3>5, <4>2
      <4> QED BY <1>2, <4>1, <4>2
    <3> QED BY <1>0, <1>2, <2>2, <3>4, <3>5, <3>7
  <2> QED BY <1>1, <2>1, <2>2 DEF Surviving
<1>5. synced' = Len(file')
  BY DEF HostCrash
<1>6. \A i \in 1 .. synced : i \in 1 .. n /\ i \in 1 .. synced'
  BY <1>0, <1>2, <1>4, <1>5
<1>7. \A i \in 1 .. Len(file') : i \in 1 .. Len(file)
  BY <1>0, <1>4
<1>8. ASSUME NEW e \in Events, InFile(e)' PROVE InFile(e)
  BY <1>4, <1>7, <1>8 DEF InFile
<1>9. ASSUME NEW e \in Events, OnDisk(e) PROVE OnDisk(e)'
  BY <1>4, <1>6, <1>9 DEF OnDisk
<1> QED BY <1>8, <1>9

\* Steps that change neither file nor fates, and take no writer to a state it
\* has to answer for.
LEMMA QuietStep ==
  ASSUME FateInv, UNCHANGED <<file, synced, fate, request>>,
         \A p \in Procs : /\ Appending(p)' => Appending(p)
                          /\ Unwritten(p)' => Unwritten(p)
                          /\ pc'[p] = "fsync" => pc[p] = "fsync"
                          /\ Reporting(p)' => Reporting(p)
  PROVE  FateInv'
<1>1. RequestsOwned'
  BY DEF FateInv, RequestsOwned
<1>2. WritersInv'
  BY DEF FateInv, WritersInv, InFile, OnDisk, Written
<1>3. EventsInv'
  BY DEF FateInv, EventsInv, InFile, OnDisk
<1> QED BY <1>1, <1>2, <1>3 DEF FateInv

LEMMA QuietSteps ==
  ASSUME TypeInv, LockInv, FateInv, NEW p \in Procs,
         \/ LockExclusive(p) \/ PreflightAccepts(p) \/ PreflightRefuses(p)
         \/ FsyncFails(p) \/ BeginSnapshot(p) \/ LockShared(p) \/ OpenForScan(p)
         \/ ScanLine(p) \/ ScanStops(p) \/ ScanEnds(p) \/ ReadFails(p)
  PROVE  FateInv'
<1>0. /\ pc \in [Procs -> Labels] /\ outcome \in [Procs -> Outcomes]
      /\ holds \in [Procs -> {"none", "shared", "exclusive"}]
  BY DEF TypeInv, TypeOK
<1> USE <1>0, QuietStep DEF fileVars, Goto, Finish, Appending, Unwritten, Reporting
<1>1. CASE LockExclusive(p)
  BY <1>1 DEF LockExclusive
<1>2. CASE PreflightAccepts(p)
  BY <1>2 DEF PreflightAccepts
<1>3. CASE PreflightRefuses(p)
  BY <1>3 DEF PreflightRefuses
<1>4. CASE FsyncFails(p)
  BY <1>4 DEF FsyncFails
<1>5. CASE BeginSnapshot(p)
  BY <1>5 DEF BeginSnapshot
<1>6. CASE LockShared(p)
  BY <1>6 DEF LockShared
<1>7. CASE OpenForScan(p)
  BY <1>7 DEF OpenForScan
<1>8. CASE ScanLine(p)
  BY <1>8 DEF ScanLine
<1>9. CASE ScanStops(p) \/ ScanEnds(p) \/ ReadFails(p)
  <2>1. holds[p] = "shared"
    BY <1>9 DEF ScanStops, ScanEnds, ReadFails, LockInv, ModeAt
  <2> QED BY <1>9, <2>1 DEF ScanStops, ScanEnds, ReadFails
<1> QED BY <1>1, <1>2, <1>3, <1>4, <1>5, <1>6, <1>7, <1>8, <1>9

\* A caller arrives with an event that nobody has used.
LEMMA BeginAppendFates ==
  ASSUME TypeInv, LockInv, FateInv, NEW p \in Procs, BeginAppend(p)
  PROVE  FateInv'
<1>0. /\ pc \in [Procs -> Labels] /\ request \in [Procs -> Requests \cup {NoRequest}]
      /\ fate \in [Events -> Fates] /\ outcome \in [Procs -> Outcomes]
  BY DEF TypeInv, TypeOK
<1>1. PICK e \in Events, s \in Sequences :
        /\ fate[e] = "new"
        /\ fate' = [fate EXCEPT ![e] = "pending"]
        /\ request' = [request EXCEPT ![p] = [event |-> e, sequence |-> s]]
  BY DEF BeginAppend
<1>2. /\ pc[p] = "idle" /\ pc' = [pc EXCEPT ![p] = "lock_exclusive"]
      /\ outcome' = [outcome EXCEPT ![p] = "none"]
      /\ UNCHANGED <<file, synced, holds>>
  BY DEF BeginAppend, Goto, fileVars
<1>3. request'[p].event = e /\ \A q \in Procs \ {p} : request'[q] = request[q]
  BY <1>0, <1>1
<1>4. \A q \in Procs \ {p} :
        /\ Appending(q)' <=> Appending(q)
        /\ Unwritten(q)' <=> Unwritten(q)
        /\ Reporting(q)' <=> Reporting(q)
        /\ pc'[q] = pc[q]
  BY <1>0, <1>2 DEF Appending, Unwritten, Reporting
<1>5. \A q \in Procs : Appending(q) => request[q].event # e
  BY <1>1 DEF FateInv, RequestsOwned
<1>6. ~InFile(e)
  BY <1>1 DEF FateInv, EventsInv
<1>7. RequestsOwned'
  BY <1>0, <1>1, <1>3, <1>4, <1>5 DEF FateInv, RequestsOwned
<1>8. WritersInv'
  <2> SUFFICES ASSUME NEW q \in Procs
               PROVE  /\ Unwritten(q)' => ~InFile(request[q].event)'
                      /\ pc'[q] = "fsync" => Written(q)'
                      /\ Reporting(q)' => OnDisk(request[q].event)'
    BY DEF WritersInv
  <2>1. CASE q = p
    BY <1>0, <1>2, <1>3, <1>6, <2>1 DEF Reporting, InFile
  <2>2. CASE q # p
    BY <1>2, <1>3, <1>4, <2>2 DEF FateInv, WritersInv, InFile, OnDisk, Written
  <2> QED BY <2>1, <2>2
<1>9. EventsInv'
  BY <1>0, <1>1, <1>2, <1>6 DEF FateInv, EventsInv, InFile, OnDisk
<1> QED BY <1>7, <1>8, <1>9 DEF FateInv

\* A writer writes a line, whole or torn: its own event is pending and belongs
\* to nobody else.
LEMMA WriteFates ==
  ASSUME TypeInv, LockInv, FateInv, NEW p \in Procs, WriteLine(p) \/ WriteFails(p)
  PROVE  FateInv'
<1>0. /\ pc \in [Procs -> Labels] /\ outcome \in [Procs -> Outcomes]
      /\ holds[p] = "exclusive" /\ pc[p] = "write"
  BY DEF TypeInv, TypeOK, WriteLine, WriteFails, LockInv, ModeAt
<1>1. /\ UNCHANGED <<synced, holds, request, fate>>
      /\ \E label \in {"fsync", "unlock"} : pc' = [pc EXCEPT ![p] = label]
      /\ \A q \in Procs \ {p} : pc'[q] = pc[q] /\ outcome'[q] = outcome[q]
  BY <1>0 DEF WriteLine, WriteFails, Finish, Goto
<1>2. /\ request[p].event \in Events /\ fate[request[p].event] = "pending"
      /\ \A q \in Procs \ {p} : Appending(q) => request[q].event # request[p].event
  BY <1>0 DEF FateInv, RequestsOwned, Appending
<1>3. NewLine(p, TRUE) \in Lines /\ NewLine(p, FALSE) \in Lines
  BY <1>0, NewLineType
<1>4. \A w \in BOOLEAN : NewLine(p, w).event = request[p].event /\ NewLine(p, w).whole = w
  BY DEF NewLine
<1>5. \A e \in Events : /\ InFile(e)' => InFile(e) \/ e = request[p].event
                        /\ OnDisk(e) => OnDisk(e)'
  <2>1. CASE UNCHANGED file
    BY <1>1, <2>1 DEF InFile, OnDisk
  <2>2. CASE file' = Append(file, NewLine(p, TRUE))
    BY <1>1, <1>3, <1>4, <2>2, AppendedEvents
  <2>3. CASE file' = Append(file, NewLine(p, FALSE))
    BY <1>1, <1>3, <1>4, <2>3, AppendedEvents
  <2> QED BY <2>1, <2>2, <2>3 DEF WriteLine, WriteFails
<1>6. \A q \in Procs : /\ Appending(q)' => Appending(q)
                       /\ Unwritten(q)' => Unwritten(q) /\ q # p
                       /\ Reporting(q)' => Reporting(q) /\ q # p
                       /\ pc'[q] = "fsync" => q = p
  <2>1. \A q \in Procs \ {p} : pc[q] # "fsync"
    BY <1>0 DEF LockInv, ModeAt, ExclusiveIsAlone
  <2>2. pc'[p] = "fsync" \/ (pc'[p] = "unlock" /\ outcome'[p] = "append_error")
    BY <1>0 DEF WriteLine, WriteFails, Finish, Goto, TypeInv, TypeOK
  <2> QED BY <1>0, <1>1, <2>1, <2>2 DEF Appending, Unwritten, Reporting
<1>7. pc'[p] = "fsync" => Written(p)'
  <2> SUFFICES ASSUME pc'[p] = "fsync" PROVE Written(p)'
    OBVIOUS
  <2>1. WriteLine(p)
    BY <1>0 DEF WriteFails, Finish, Goto
  <2> QED BY <1>1, <1>3, <1>4, <2>1, AppendedEvents DEF WriteLine, Written
<1>8. RequestsOwned'
  <2>1. UNCHANGED <<request, fate>>
    BY <1>1
  <2>2. \A q \in Procs : Appending(q)' => Appending(q)
    BY <1>6
  <2> QED BY <2>1, <2>2 DEF FateInv, RequestsOwned
<1>9. WritersInv'
  <2> SUFFICES ASSUME NEW q \in Procs
               PROVE  /\ Unwritten(q)' => ~InFile(request[q].event)'
                      /\ pc'[q] = "fsync" => Written(q)'
                      /\ Reporting(q)' => OnDisk(request[q].event)'
    BY DEF WritersInv
  <2>1. request'[q] = request[q]
    BY <1>1
  <2>2. ASSUME Unwritten(q) \/ Reporting(q) PROVE request[q].event \in Events
    BY <2>2, OwnersAppend DEF FateInv, RequestsOwned
  <2>3. ASSUME Unwritten(q)' PROVE ~InFile(request[q].event)'
    <3>1. Unwritten(q) /\ q # p
      BY <1>6, <2>3
    <3>2. ~InFile(request[q].event) /\ request[q].event # request[p].event
      BY <1>2, <3>1, OwnersAppend DEF FateInv, WritersInv
    <3>3. \A e \in Events : ~InFile(e) /\ e # request[p].event => ~InFile(e)'
      BY <1>5
    <3>4. request[q].event \in Events
      BY <2>2, <3>1
    <3> QED BY <2>1, <3>2, <3>3, <3>4 DEF InFile
  <2>4. ASSUME Reporting(q)' PROVE OnDisk(request[q].event)'
    <3>1. Reporting(q)
      BY <1>6, <2>4
    <3>2. OnDisk(request[q].event) /\ request[q].event \in Events
      BY <2>2, <3>1 DEF FateInv, WritersInv
    <3> QED BY <1>5, <2>1, <3>2 DEF OnDisk
  <2> QED BY <1>6, <1>7, <2>3, <2>4
<1>10. EventsInv'
  <2>1. UNCHANGED fate
    BY <1>1
  <2>2. \A e \in Events : fate[e] \in {"new", "refused"} => e # request[p].event
    BY <1>2
  <2> QED BY <1>5, <2>1, <2>2 DEF FateInv, EventsInv
<1> QED BY <1>8, <1>9, <1>10 DEF FateInv

\* fsync makes the line the writer just wrote durable.
LEMMA FsyncFates ==
  ASSUME TypeInv, LockInv, FateInv, NEW p \in Procs, Fsync(p)
  PROVE  FateInv'
<1>0. /\ pc \in [Procs -> Labels] /\ outcome \in [Procs -> Outcomes]
      /\ Len(file) \in Nat /\ synced \in 0 .. Len(file)
  BY LenProperties DEF TypeInv, TypeOK
<1>1. /\ pc[p] = "fsync" /\ synced' = Len(file)
      /\ pc' = [pc EXCEPT ![p] = "unlock"]
      /\ outcome' = [outcome EXCEPT ![p] = "appended"]
      /\ UNCHANGED <<file, holds, request, fate>>
  BY DEF Fsync, Finish, Goto
<1>2. Written(p)
  BY <1>1 DEF FateInv, WritersInv
<1>3. OnDisk(request[p].event)'
  BY <1>1, <1>2 DEF Written, OnDisk
<1>4. \A e \in Events : (InFile(e)' <=> InFile(e)) /\ (OnDisk(e) => OnDisk(e)')
  <2>1. \A i \in 1 .. synced : i \in 1 .. synced'
    BY <1>0, <1>1
  <2> QED BY <1>1, <2>1 DEF InFile, OnDisk
<1>5. RequestsOwned'
  BY <1>0, <1>1 DEF FateInv, RequestsOwned, Appending
<1>6. WritersInv'
  <2> SUFFICES ASSUME NEW q \in Procs
               PROVE  /\ Unwritten(q)' => ~InFile(request[q].event)'
                      /\ pc'[q] = "fsync" => Written(q)'
                      /\ Reporting(q)' => OnDisk(request[q].event)'
    BY DEF WritersInv
  <2>1. CASE q = p
    BY <1>0, <1>1, <1>3, <2>1 DEF Unwritten
  <2>2. CASE q # p
    <3>1. (Unwritten(q)' <=> Unwritten(q)) /\ (Reporting(q)' <=> Reporting(q)) /\ pc'[q] = pc[q]
      BY <1>0, <1>1, <2>2 DEF Unwritten, Reporting
    <3>2. Reporting(q) => request[q].event \in Events
      BY DEF Reporting, Appending, FateInv, RequestsOwned
    <3> QED BY <1>1, <1>4, <3>1, <3>2 DEF FateInv, WritersInv, InFile, OnDisk, Written
  <2> QED BY <2>1, <2>2
<1>7. EventsInv'
  BY <1>1, <1>4 DEF FateInv, EventsInv
<1> QED BY <1>5, <1>6, <1>7 DEF FateInv

\* A call ends: it times out, unlocks or dies.  Its event's fate is settled by
\* what its writer knows.
LEMMA SettleFates ==
  ASSUME TypeInv, LockInv, FateInv, NEW p \in Procs,
         LockTimeout(p) \/ LockFileFails(p) \/ Unlock(p) \/ ProcessCrash(p)
  PROVE  FateInv'
<1>0. /\ pc \in [Procs -> Labels] /\ outcome \in [Procs -> Outcomes]
      /\ holds \in [Procs -> {"none", "shared", "exclusive"}]
      /\ request \in [Procs -> Requests \cup {NoRequest}]
      /\ fate \in [Events -> Fates]
  BY DEF TypeInv, TypeOK
<1>1. /\ pc' = [pc EXCEPT ![p] = "idle"]
      /\ request' = [request EXCEPT ![p] = NoRequest]
      /\ UNCHANGED <<file, synced>>
      /\ \A q \in Procs \ {p} : holds'[q] = holds[q] /\ outcome'[q] = outcome[q]
  BY <1>0 DEF LockTimeout, LockFileFails, GiveUp, Unlock, ProcessCrash, Goto, fileVars
<1>2. \A q \in Procs \ {p} :
        /\ Appending(q)' <=> Appending(q)
        /\ Unwritten(q)' <=> Unwritten(q)
        /\ Reporting(q)' <=> Reporting(q)
        /\ pc'[q] = pc[q] /\ request'[q] = request[q]
  BY <1>0, <1>1 DEF Appending, Unwritten, Reporting
<1>3. ~Appending(p)' /\ ~Unwritten(p)' /\ ~Reporting(p)' /\ pc'[p] # "fsync"
  BY <1>0, <1>1 DEF Appending, Unwritten, Reporting
<1>4. \A e \in Events :
        \/ fate'[e] = fate[e]
        \/ /\ Appending(p) /\ e = request[p].event
           /\ \/ fate'[e] = "refused" /\ Unwritten(p)
              \/ fate'[e] = "appended" /\ Reporting(p)
              \/ fate'[e] = "unknown"
  <2>1. CASE ~Appending(p)
    BY <2>1 DEF LockTimeout, LockFileFails, GiveUp, Unlock, ProcessCrash
  <2>2. CASE Appending(p) /\ (LockTimeout(p) \/ LockFileFails(p))
    <3>1. Unwritten(p) /\ GiveUp(p)
      BY <2>2 DEF Appending, LockTimeout, LockFileFails, Unwritten
    <3> QED BY <2>2, <3>1 DEF GiveUp, Settle, FateOf
  <2>3. CASE Appending(p) /\ Unlock(p)
    <3>1. pc[p] = "unlock" /\ holds[p] = "exclusive"
      BY <2>3 DEF Appending, Unlock
    <3> QED BY <2>3, <3>1 DEF Unlock, Settle, FateOf, Unwritten, Reporting
  <2>4. CASE Appending(p) /\ ProcessCrash(p)
    BY <2>4 DEF ProcessCrash, Settle, FateOf
  <2> QED BY <2>1, <2>2, <2>3, <2>4
<1>5. RequestsOwned'
  <2> SUFFICES ASSUME NEW q \in Procs, Appending(q)'
               PROVE  /\ request'[q].event \in Events
                      /\ fate'[request'[q].event] = "pending"
                      /\ \A r \in Procs : r # q /\ Appending(r)' => request'[r].event # request'[q].event
    BY DEF RequestsOwned
  <2>1. q # p /\ Appending(q) /\ request'[q] = request[q]
    BY <1>2, <1>3
  <2>2. request[q].event \in Events /\ fate[request[q].event] = "pending"
    BY <2>1 DEF FateInv, RequestsOwned
  <2>3. Appending(p) => request[q].event # request[p].event
    BY <2>1 DEF FateInv, RequestsOwned
  <2>4. fate'[request[q].event] = "pending"
    BY <1>4, <2>2, <2>3
  <2>5. ASSUME NEW r \in Procs, r # q, Appending(r)' PROVE request'[r].event # request'[q].event
    <3>1. r # p /\ Appending(r) /\ request'[r] = request[r]
      BY <1>2, <1>3, <2>5
    <3> QED BY <2>1, <2>5, <3>1 DEF FateInv, RequestsOwned
  <2> QED BY <2>1, <2>2, <2>4, <2>5
<1>6. WritersInv'
  <2> SUFFICES ASSUME NEW q \in Procs
               PROVE  /\ Unwritten(q)' => ~InFile(request[q].event)'
                      /\ pc'[q] = "fsync" => Written(q)'
                      /\ Reporting(q)' => OnDisk(request[q].event)'
    BY DEF WritersInv
  <2>1. CASE q = p
    BY <1>3, <2>1
  <2>2. CASE q # p
    BY <1>1, <1>2, <2>2 DEF FateInv, WritersInv, InFile, OnDisk, Written
  <2> QED BY <2>1, <2>2
<1>7. EventsInv'
  <2>1. Unwritten(p) => ~InFile(request[p].event)
    BY DEF FateInv, WritersInv
  <2>2. Reporting(p) => OnDisk(request[p].event)
    BY DEF FateInv, WritersInv
  <2> SUFFICES ASSUME NEW e \in Events
               PROVE  /\ fate'[e] \in {"new", "refused"} => ~InFile(e)
                      /\ fate'[e] = "appended" => OnDisk(e)
    BY <1>1 DEF EventsInv, InFile, OnDisk
  <2>3. CASE fate'[e] = fate[e]
    BY <2>3 DEF FateInv, EventsInv
  <2>4. CASE fate'[e] # fate[e]
    BY <1>4, <2>1, <2>2, <2>4
  <2> QED BY <2>3, <2>4
<1> QED BY <1>5, <1>6, <1>7 DEF FateInv

\* The host goes down: nobody is appending any more, and what was durable is.
LEMMA HostCrashFates ==
  ASSUME TypeInv, FateInv, HostCrash
  PROVE  FateInv'
<1>1. /\ pc' = [p \in Procs |-> "idle"]
      /\ fate' = [e \in Events |-> IF fate[e] = "pending" THEN "unknown" ELSE fate[e]]
  BY DEF HostCrash
<1>2. RequestsOwned' /\ WritersInv'
  BY <1>1 DEF RequestsOwned, WritersInv, Appending, Unwritten, Reporting
<1>3. EventsInv'
  <2> SUFFICES ASSUME NEW e \in Events
               PROVE  /\ fate'[e] \in {"new", "refused"} => ~InFile(e)'
                      /\ fate'[e] = "appended" => OnDisk(e)'
    BY DEF EventsInv
  <2>1. (InFile(e)' => InFile(e)) /\ (OnDisk(e) => OnDisk(e)')
    BY SurvivingEvents
  <2> QED BY <1>1, <2>1 DEF FateInv, EventsInv
<1> QED BY <1>2, <1>3 DEF FateInv

LEMMA StepFateInv == TypeInv /\ LockInv /\ FateInv /\ [Next]_vars => FateInv'
<1> SUFFICES ASSUME TypeInv, LockInv, FateInv, [Next]_vars PROVE FateInv'
  OBVIOUS
<1>1. CASE UNCHANGED vars
  <2>1. RequestsOwned'
    BY <1>1 DEF vars, FateInv, RequestsOwned, Appending
  <2>2. WritersInv'
    BY <1>1 DEF vars, FateInv, WritersInv, Unwritten, Reporting, InFile, OnDisk, Written
  <2>3. EventsInv'
    BY <1>1 DEF vars, FateInv, EventsInv, InFile, OnDisk
  <2> QED BY <2>1, <2>2, <2>3 DEF FateInv
<1>2. CASE HostCrash
  BY <1>2, HostCrashFates
<1>3. ASSUME NEW p \in Procs, BeginAppend(p) \/ BeginSnapshot(p) \/ Step(p)
                              \/ LockFileFails(p) \/ ReadFails(p) \/ ProcessCrash(p)
      PROVE  FateInv'
  BY <1>3, QuietSteps, BeginAppendFates, WriteFates, FsyncFates, SettleFates DEF Step
<1> QED BY <1>1, <1>2, <1>3 DEF Next

LEMMA FateInvHolds == Spec => []FateInv
<1>1. Init => FateInv
  BY InitFateInv
<1>2. TypeInv /\ LockInv /\ FateInv /\ [Next]_vars => FateInv'
  BY StepFateInv
<1> QED BY <1>1, <1>2, TypesHold, WritersAreAlone, PTL DEF Spec

\* An append that was acknowledged stays in the durable part of the file.
THEOREM AcknowledgedStaysDurable == Spec => []AcknowledgedIsDurable
<1>1. FateInv => AcknowledgedIsDurable
  BY DEF FateInv, EventsInv, OnDisk, AcknowledgedIsDurable
<1> QED BY <1>1, FateInvHolds, PTL

\* An append that was refused has left no line in the file.
THEOREM RefusedLeavesNothing == Spec => []RefusedIsAbsent
<1>1. FateInv => RefusedIsAbsent
  BY DEF FateInv, EventsInv, InFile, RefusedIsAbsent
<1> QED BY <1>1, FateInvHolds, PTL


----------------------------------------------------------------------------
(***************************************************************************)
(* Pending events have an owner, and an acknowledgement is never revoked.  *)
(***************************************************************************)
PendingOwned ==
  \A e \in Events :
    fate[e] = "pending" => \E p \in Procs : Appending(p) /\ request[p].event = e

FloorsAcknowledged ==
  \A p \in Procs : \A e \in floor[p] : fate[e] = "appended"

OwnerInv == PendingOwned /\ FloorsAcknowledged

(***************************************************************************)
(* A scan has accepted a prefix of the file, line by line; nobody writes   *)
(* while its shared lock is held, so at its end that is the whole file.    *)
(***************************************************************************)
SeenIsPrefix(p) ==
  /\ Len(seen[p]) <= Len(file)
  /\ \A i \in 1 .. Len(seen[p]) : seen[p][i] = file[i] /\ file[i].whole

SnapshotInv ==
  \A p \in Procs :
    /\ pc[p] \in {"lock_shared", "open"} => seen[p] = << >>
    /\ pc[p] = "scan" => SeenIsPrefix(p)
    /\ pc[p] = "unlock" /\ outcome[p] = "verified" =>
         holds[p] = "shared" /\ returned[p] = EventsOf(file)

LEMMA InitOwnerInv == Init => OwnerInv /\ SnapshotInv
  BY DEF Init, OwnerInv, PendingOwned, FloorsAcknowledged, SnapshotInv

\* An acknowledged event stays acknowledged.
LEMMA AcknowledgedStays ==
  ASSUME TypeInv, [Next]_vars, NEW e \in Events, fate[e] = "appended"
  PROVE  fate'[e] = "appended"
<1>0. fate \in [Events -> Fates]
  BY DEF TypeInv, TypeOK
<1>1. CASE UNCHANGED fate
  BY <1>1
<1>2. CASE \E p \in Procs : BeginAppend(p)
  BY <1>0, <1>2 DEF BeginAppend
<1>3. CASE \E p \in Procs : LockTimeout(p) \/ LockFileFails(p) \/ Unlock(p) \/ ProcessCrash(p)
  BY <1>3 DEF LockTimeout, LockFileFails, GiveUp, Unlock, ProcessCrash, Settle
<1>4. CASE HostCrash
  BY <1>4 DEF HostCrash
<1> QED
  BY <1>1, <1>2, <1>3, <1>4
  DEF Next, Step, vars, LockExclusive, PreflightAccepts, PreflightRefuses,
      WriteLine, WriteFails, Fsync, FsyncFails, BeginSnapshot, LockShared,
      OpenForScan, ScanLine, ScanStops, ScanEnds, ReadFails

\* Within an append every step but the last keeps the process appending.
LEMMA KeepsAppending ==
  ASSUME TypeInv, LockInv, NEW p \in Procs,
         \/ LockExclusive(p) \/ PreflightAccepts(p) \/ PreflightRefuses(p)
         \/ WriteLine(p) \/ WriteFails(p) \/ Fsync(p) \/ FsyncFails(p)
  PROVE  /\ Appending(p)'
         /\ UNCHANGED <<fate, request, floor>>
         /\ \A q \in Procs \ {p} : Appending(q) => Appending(q)'
<1>0. /\ pc \in [Procs -> Labels] /\ holds \in [Procs -> {"none", "shared", "exclusive"}]
  BY DEF TypeInv, TypeOK
<1> USE <1>0 DEF Goto, Finish, scanVars, Appending, LockInv, ModeAt
<1>1. CASE LockExclusive(p)
  BY <1>1 DEF LockExclusive
<1>2. CASE PreflightAccepts(p) \/ PreflightRefuses(p)
  BY <1>2 DEF PreflightAccepts, PreflightRefuses
<1>3. CASE WriteLine(p) \/ WriteFails(p)
  BY <1>3 DEF WriteLine, WriteFails
<1>4. CASE Fsync(p) \/ FsyncFails(p)
  BY <1>4 DEF Fsync, FsyncFails
<1> QED BY <1>1, <1>2, <1>3, <1>4

LEMMA StepOwnerInv == TypeInv /\ LockInv /\ OwnerInv /\ [Next]_vars => OwnerInv'
<1> SUFFICES ASSUME TypeInv, LockInv, OwnerInv, [Next]_vars PROVE OwnerInv'
  OBVIOUS
<1>0. /\ pc \in [Procs -> Labels] /\ holds \in [Procs -> {"none", "shared", "exclusive"}]
      /\ fate \in [Events -> Fates] /\ floor \in [Procs -> SUBSET Events]
      /\ request \in [Procs -> Requests \cup {NoRequest}]
  BY DEF TypeInv, TypeOK
<1>1. FloorsAcknowledged'
  <2>1. CASE UNCHANGED floor
    BY <1>0, <2>1, AcknowledgedStays DEF OwnerInv, FloorsAcknowledged
  <2>2. ASSUME NEW p \in Procs, BeginSnapshot(p) PROVE FloorsAcknowledged'
    BY <1>0, <2>2 DEF BeginSnapshot, OwnerInv, FloorsAcknowledged
  <2> QED
    BY <2>1, <2>2
    DEF Next, Step, vars, scanVars, BeginAppend, LockExclusive, PreflightAccepts,
        PreflightRefuses, WriteLine, WriteFails, Fsync, FsyncFails, LockShared,
        OpenForScan, ScanLine, ScanStops, ScanEnds, ReadFails, LockTimeout,
        LockFileFails, GiveUp, Unlock, ProcessCrash, HostCrash
<1>2. PendingOwned'
  <2> USE DEF OwnerInv, PendingOwned
  <2>1. ASSUME NEW p \in Procs, BeginAppend(p) PROVE PendingOwned'
    <3>1. PICK e \in Events, s \in Sequences :
            /\ fate[e] = "new"
            /\ fate' = [fate EXCEPT ![e] = "pending"]
            /\ request' = [request EXCEPT ![p] = [event |-> e, sequence |-> s]]
      BY <2>1 DEF BeginAppend
    <3>2. /\ pc[p] = "idle" /\ pc' = [pc EXCEPT ![p] = "lock_exclusive"]
          /\ UNCHANGED holds
      BY <2>1 DEF BeginAppend, Goto
    <3>3. Appending(p)' /\ request'[p].event = e
      BY <1>0, <3>1, <3>2 DEF Appending
    <3>4. ~Appending(p)
      BY <3>2 DEF Appending
    <3>5. \A q \in Procs \ {p} : (Appending(q) => Appending(q)') /\ request'[q] = request[q]
      BY <1>0, <3>1, <3>2 DEF Appending
    <3> QED BY <1>0, <3>1, <3>3, <3>4, <3>5
  <2>2. ASSUME NEW p \in Procs,
               \/ LockExclusive(p) \/ PreflightAccepts(p) \/ PreflightRefuses(p)
               \/ WriteLine(p) \/ WriteFails(p) \/ Fsync(p) \/ FsyncFails(p)
        PROVE  PendingOwned'
    BY <2>2, KeepsAppending
  <2>3. ASSUME NEW p \in Procs,
               \/ BeginSnapshot(p) \/ LockShared(p) \/ OpenForScan(p) \/ ScanLine(p)
               \/ ScanStops(p) \/ ScanEnds(p) \/ ReadFails(p)
        PROVE  PendingOwned'
    <3>1. UNCHANGED <<fate, request>>
      BY <2>3 DEF BeginSnapshot, LockShared, OpenForScan, ScanLine, ScanStops,
                  ScanEnds, ReadFails
    <3>2. ~Appending(p)
      BY <2>3 DEF BeginSnapshot, LockShared, OpenForScan, ScanLine, ScanStops,
                  ScanEnds, ReadFails, Appending
    <3>3. \A q \in Procs \ {p} : pc'[q] = pc[q] /\ holds'[q] = holds[q]
      BY <1>0, <2>3 DEF BeginSnapshot, LockShared, OpenForScan, ScanLine, ScanStops,
                  ScanEnds, ReadFails, Goto, Finish
    <3> QED BY <3>1, <3>2, <3>3 DEF Appending
  <2>4. ASSUME NEW p \in Procs,
               LockTimeout(p) \/ LockFileFails(p) \/ Unlock(p) \/ ProcessCrash(p)
        PROVE  PendingOwned'
    <3>1. \A q \in Procs \ {p} : (Appending(q) => Appending(q)') /\ request'[q] = request[q]
      BY <1>0, <2>4 DEF LockTimeout, LockFileFails, GiveUp, Unlock, ProcessCrash,
                        Goto, Appending
    <3>2. \A e \in Events :
            fate'[e] = "pending" =>
              fate[e] = "pending" /\ ~(Appending(p) /\ request[p].event = e)
      BY <2>4 DEF LockTimeout, LockFileFails, GiveUp, Unlock, ProcessCrash,
                  Settle, FateOf
    <3> QED BY <3>1, <3>2
  <2>5. CASE HostCrash
    BY <2>5 DEF HostCrash
  <2>6. CASE UNCHANGED vars
    BY <2>6 DEF vars, Appending
  <2> QED BY <2>1, <2>2, <2>3, <2>4, <2>5, <2>6 DEF Next, Step
<1> QED BY <1>1, <1>2 DEF OwnerInv

LEMMA OwnerInvHolds == Spec => []OwnerInv
<1>1. Init => OwnerInv
  BY InitOwnerInv
<1>2. TypeInv /\ LockInv /\ OwnerInv /\ [Next]_vars => OwnerInv'
  BY StepOwnerInv
<1> QED BY <1>1, <1>2, TypesHold, WritersAreAlone, PTL DEF Spec

----------------------------------------------------------------------------
\* A step that leaves the file alone leaves a process that does not scan as it is.
LEMMA SnapshotElsewhere ==
  ASSUME SnapshotInv, UNCHANGED file, NEW p \in Procs,
         \A q \in Procs \ {p} : /\ pc'[q] = pc[q] /\ outcome'[q] = outcome[q]
                                /\ holds'[q] = holds[q] /\ seen'[q] = seen[q]
                                /\ returned'[q] = returned[q],
         /\ pc'[p] \in {"lock_shared", "open"} => seen'[p] = << >>
         /\ pc'[p] = "scan" => SeenIsPrefix(p)'
         /\ pc'[p] = "unlock" /\ outcome'[p] = "verified" =>
              holds'[p] = "shared" /\ returned'[p] = EventsOf(file)
  PROVE  SnapshotInv'
  BY DEF SnapshotInv, SeenIsPrefix

LEMMA StepSnapshotInv ==
  TypeInv /\ LockInv /\ SnapshotInv /\ [Next]_vars => SnapshotInv'
<1> SUFFICES ASSUME TypeInv, LockInv, SnapshotInv, [Next]_vars PROVE SnapshotInv'
  OBVIOUS
<1>0. /\ pc \in [Procs -> Labels] /\ holds \in [Procs -> {"none", "shared", "exclusive"}]
      /\ outcome \in [Procs -> Outcomes] /\ seen \in [Procs -> Seq(Lines)]
      /\ returned \in [Procs -> Seq(Events)]
      /\ file \in Seq(Lines) /\ Len(file) \in Nat
      /\ \A p \in Procs : Len(seen[p]) \in Nat
  BY LenProperties DEF TypeInv, TypeOK
<1> USE DEF Goto, Finish, fileVars, scanVars
<1>1. ASSUME NEW p \in Procs,
             \/ BeginAppend(p) \/ LockExclusive(p) \/ PreflightAccepts(p)
             \/ PreflightRefuses(p) \/ Fsync(p) \/ FsyncFails(p)
      PROVE  SnapshotInv'
  <2>1. pc'[p] \in {"lock_exclusive", "preflight", "write", "unlock"}
        /\ (pc'[p] = "unlock" => outcome'[p] # "verified")
        /\ UNCHANGED <<file, seen, returned>>
        /\ \A q \in Procs \ {p} : /\ pc'[q] = pc[q] /\ outcome'[q] = outcome[q]
                                  /\ holds'[q] = holds[q]
    BY <1>0, <1>1 DEF BeginAppend, LockExclusive, PreflightAccepts, PreflightRefuses,
                      Fsync, FsyncFails
  <2> QED BY <2>1, SnapshotElsewhere
<1>2. ASSUME NEW p \in Procs, BeginSnapshot(p) \/ LockShared(p) PROVE SnapshotInv'
  <2>1. pc'[p] \in {"lock_shared", "open"} /\ seen'[p] = << >> /\ UNCHANGED file
        /\ \A q \in Procs \ {p} : /\ pc'[q] = pc[q] /\ outcome'[q] = outcome[q]
                                  /\ holds'[q] = holds[q] /\ seen'[q] = seen[q]
                                  /\ returned'[q] = returned[q]
    BY <1>0, <1>2 DEF BeginSnapshot, LockShared, SnapshotInv
  <2> QED BY <2>1, SnapshotElsewhere
<1>3. ASSUME NEW p \in Procs, OpenForScan(p) PROVE SnapshotInv'
  <2>1. pc'[p] = "scan" /\ seen'[p] = << >> /\ UNCHANGED <<file, seen, holds, outcome, returned>>
        /\ \A q \in Procs \ {p} : pc'[q] = pc[q]
    BY <1>0, <1>3 DEF OpenForScan, SnapshotInv
  <2>2. SeenIsPrefix(p)'
    BY <1>0, <2>1, EmptySeq DEF SeenIsPrefix
  <2> QED BY <2>1, <2>2, SnapshotElsewhere
<1>4. ASSUME NEW p \in Procs, ScanLine(p) PROVE SnapshotInv'
  <2>1. /\ pc[p] = "scan" /\ ~AtEnd(p) /\ NextLine(p).whole
        /\ seen'[p] = Append(seen[p], NextLine(p))
        /\ UNCHANGED <<file, pc, holds, outcome, returned>>
        /\ \A q \in Procs \ {p} : seen'[q] = seen[q]
    BY <1>0, <1>4 DEF ScanLine, LineVerifies
  <2>2. Len(seen[p]) + 1 \in 1 .. Len(file) /\ SeenIsPrefix(p)
    BY <1>0, <2>1 DEF AtEnd, SnapshotInv
  <2>3. NextLine(p) \in Lines
    BY <1>0, <2>2, ElementOfSeq DEF NextLine
  <2>4. /\ Len(seen'[p]) = Len(seen[p]) + 1
        /\ \A i \in 1 .. Len(seen[p]) : seen'[p][i] = seen[p][i]
        /\ seen'[p][Len(seen[p]) + 1] = NextLine(p)
    BY <1>0, <2>1, <2>3, AppendProperties
  <2>5. SeenIsPrefix(p)'
    BY <1>0, <2>1, <2>2, <2>4 DEF SeenIsPrefix, NextLine
  <2> QED BY <2>1, <2>5, SnapshotElsewhere
<1>5. ASSUME NEW p \in Procs, ScanStops(p) \/ ReadFails(p) PROVE SnapshotInv'
  <2>1. pc'[p] = "unlock" /\ outcome'[p] # "verified" /\ UNCHANGED <<file, seen, holds, returned>>
        /\ \A q \in Procs \ {p} : pc'[q] = pc[q] /\ outcome'[q] = outcome[q]
    BY <1>0, <1>5 DEF ScanStops, ReadFails
  <2> QED BY <2>1, SnapshotElsewhere
<1>6. ASSUME NEW p \in Procs, ScanEnds(p) PROVE SnapshotInv'
  <2>1. pc[p] = "scan" /\ pc'[p] = "unlock" /\ AtEnd(p) /\ returned'[p] = EventsOf(seen[p])
        /\ UNCHANGED <<file, seen, holds>>
        /\ \A q \in Procs \ {p} : /\ pc'[q] = pc[q] /\ outcome'[q] = outcome[q]
                                  /\ returned'[q] = returned[q]
    BY <1>0, <1>6 DEF ScanEnds
  <2>2. Len(seen[p]) = Len(file) /\ \A i \in 1 .. Len(file) : seen[p][i] = file[i]
    BY <1>0, <2>1 DEF AtEnd, SnapshotInv, SeenIsPrefix
  <2>3. EventsOf(seen[p]) = EventsOf(file)
    BY <2>2 DEF EventsOf
  <2>4. holds[p] = "shared"
    BY <2>1 DEF LockInv, ModeAt
  <2> QED BY <2>1, <2>3, <2>4, SnapshotElsewhere
<1>7. ASSUME NEW p \in Procs,
             LockTimeout(p) \/ LockFileFails(p) \/ Unlock(p) \/ ProcessCrash(p)
      PROVE  SnapshotInv'
  <2>1. pc'[p] = "idle" /\ UNCHANGED <<file, seen, returned>>
        /\ \A q \in Procs \ {p} : /\ pc'[q] = pc[q] /\ outcome'[q] = outcome[q]
                                  /\ holds'[q] = holds[q]
    BY <1>0, <1>7 DEF LockTimeout, LockFileFails, GiveUp, Unlock, ProcessCrash
  <2> QED BY <2>1, SnapshotElsewhere
<1>8. ASSUME NEW p \in Procs, WriteLine(p) \/ WriteFails(p) PROVE SnapshotInv'
  <2>1. holds[p] = "exclusive" /\ pc[p] = "write"
    BY <1>8 DEF WriteLine, WriteFails, LockInv, ModeAt
  <2>2. /\ pc'[p] \in {"fsync", "unlock"} /\ (pc'[p] = "unlock" => outcome'[p] # "verified")
        /\ UNCHANGED <<holds, seen, returned>>
        /\ \A q \in Procs \ {p} : pc'[q] = pc[q] /\ outcome'[q] = outcome[q]
    BY <1>0, <1>8 DEF WriteLine, WriteFails
  <2>3. \A q \in Procs \ {p} : holds[q] = "none"
    BY <2>1 DEF LockInv, ExclusiveIsAlone
  <2>4. \A q \in Procs \ {p} : pc[q] # "scan" /\ ~(pc[q] = "unlock" /\ outcome[q] = "verified")
    BY <2>3 DEF LockInv, ModeAt, SnapshotInv
  <2> QED BY <2>2, <2>4 DEF SnapshotInv
<1>9. CASE HostCrash
  BY <1>9 DEF HostCrash, SnapshotInv
<1>10. CASE UNCHANGED vars
  BY <1>10 DEF vars, SnapshotInv, SeenIsPrefix
<1> QED
  BY <1>1, <1>2, <1>3, <1>4, <1>5, <1>6, <1>7, <1>8, <1>9, <1>10 DEF Next, Step

LEMMA SnapshotInvHolds == Spec => []SnapshotInv
<1>1. Init => SnapshotInv
  BY InitOwnerInv
<1>2. TypeInv /\ LockInv /\ SnapshotInv /\ [Next]_vars => SnapshotInv'
  BY StepSnapshotInv
<1> QED BY <1>1, <1>2, TypesHold, WritersAreAlone, PTL DEF Spec

\* A snapshot returned as verified holds every append acknowledged before its
\* call began and no event of an append still under way.
THEOREM SnapshotsAreCommitted == Spec => []SnapshotIsCommitted
<1>1. TypeInv /\ LockInv /\ FateInv /\ OwnerInv /\ SnapshotInv => SnapshotIsCommitted
  <2> SUFFICES ASSUME TypeInv, LockInv, FateInv, OwnerInv, SnapshotInv,
                      NEW p \in Procs, pc[p] = "unlock", outcome[p] = "verified"
               PROVE  LET events == {returned[p][i] : i \in 1 .. Len(returned[p])} IN
                        /\ floor[p] \subseteq events
                        /\ \A e \in events : fate[e] # "pending"
    BY DEF SnapshotIsCommitted
  <2> DEFINE events == {returned[p][i] : i \in 1 .. Len(returned[p])}
  <2>0. /\ file \in Seq(Lines) /\ Len(file) \in Nat /\ synced \in 0 .. Len(file)
        /\ floor[p] \subseteq Events
        /\ \A i \in 1 .. Len(file) : file[i].event \in Events
    <3>1. /\ file \in Seq(Lines) /\ synced \in 0 .. Len(file)
          /\ floor[p] \subseteq Events
      BY DEF TypeInv, TypeOK
    <3>2. \A i \in 1 .. Len(file) : file[i] \in Lines
      BY <3>1, ElementOfSeq
    <3>3. \A i \in 1 .. Len(file) : file[i].event \in Events
      BY <3>2 DEF Lines
    <3> QED BY <3>1, <3>3, LenProperties
  <2>1. holds[p] = "shared" /\ returned[p] = EventsOf(file)
    BY DEF SnapshotInv
  <2>2. Len(returned[p]) = Len(file) /\ \A i \in 1 .. Len(file) : returned[p][i] = file[i].event
    BY <2>0, <2>1 DEF EventsOf
  <2>3. ASSUME NEW e \in floor[p] PROVE e \in events
    <3>1. OnDisk(e)
      BY <2>0, <2>3 DEF OwnerInv, FloorsAcknowledged, FateInv, EventsInv
    <3>2. PICK i \in 1 .. synced : file[i].event = e
      BY <3>1 DEF OnDisk
    <3>3. i \in 1 .. Len(file)
      BY <2>0
    <3> QED BY <2>2, <3>2, <3>3
  <2>4. ASSUME NEW e \in events, fate[e] = "pending" PROVE FALSE
    <3>1. e \in Events /\ InFile(e)
      BY <2>0, <2>2 DEF InFile
    <3>2. PICK q \in Procs : Appending(q) /\ request[q].event = e
      BY <2>4, <3>1 DEF OwnerInv, PendingOwned
    <3>3. holds[q] # "exclusive"
      BY <2>1 DEF LockInv, ExclusiveIsAlone
    <3>4. pc[q] = "lock_exclusive"
      BY <3>2, <3>3 DEF Appending, LockInv, ModeAt
    <3> QED BY <3>1, <3>2, <3>4 DEF FateInv, WritersInv, Unwritten
  <2> QED BY <2>3, <2>4
<1> QED
  BY <1>1, TypesHold, WritersAreAlone, FateInvHolds, OwnerInvHolds,
     SnapshotInvHolds, PTL

----------------------------------------------------------------------------
(***************************************************************************)
(* The refinement mapping, read off the file: the log holds the events of  *)
(* its whole lines, and is durable as far as the file is synced.           *)
(***************************************************************************)
LogOf(lines) == EventsOf(WholePrefix(lines, Len(lines)))

DurableOf(lines, n) == Len(WholePrefix(lines, n))

\* A prefix of a sequence.
LEMMA PrefixProperties ==
  ASSUME NEW S, NEW s, NEW k \in Nat, \A i \in 1 .. k : s[i] \in S
  PROVE  /\ SubSeq(s, 1, k) \in Seq(S)
         /\ Len(SubSeq(s, 1, k)) = k
         /\ \A i \in 1 .. k : SubSeq(s, 1, k)[i] = s[i]
<1>1. /\ SubSeq(s, 1, k) \in Seq(S)
      /\ Len(SubSeq(s, 1, k)) = IF 1 <= k THEN k - 1 + 1 ELSE 0
      /\ \A i \in 1 .. k - 1 + 1 : SubSeq(s, 1, k)[i] = s[1 + i - 1]
  BY SubSeqProperties
<1>2. k - 1 + 1 = k /\ \A i \in 1 .. k : 1 + i - 1 = i
  OBVIOUS
<1>3. \A i \in 1 .. k : SubSeq(s, 1, k)[i] = s[i]
  BY <1>1, <1>2
<1> QED BY <1>1, <1>3

\* The whole lines among the first n are a prefix of the file.
LEMMA PrefixShape ==
  ASSUME NEW lines \in Seq(Lines), NEW n \in 0 .. Len(lines)
  PROVE  /\ WholeUpTo(lines, n) \in 0 .. n
         /\ WholePrefix(lines, n) \in Seq(Lines)
         /\ Len(WholePrefix(lines, n)) = WholeUpTo(lines, n)
         /\ \A i \in 1 .. WholeUpTo(lines, n) : WholePrefix(lines, n)[i] = lines[i]
<1>1. Len(lines) \in Nat
  BY LenProperties
<1>2. WholeUpTo(lines, n) \in 0 .. n /\ WholeUpTo(lines, n) <= Len(lines)
  BY <1>1 DEF WholeUpTo
<1>3. \A i \in 1 .. WholeUpTo(lines, n) : lines[i] \in Lines
  BY <1>1, <1>2, ElementOfSeq
<1> QED BY <1>1, <1>2, <1>3, SubSeqProperties DEF WholePrefix

\* The log and its durable length, event by event.
LEMMA LogShape ==
  ASSUME NEW lines \in Seq(Lines), NEW n \in 0 .. Len(lines)
  PROVE  /\ DurableOf(lines, n) = WholeUpTo(lines, n)
         /\ LogOf(lines) = [i \in 1 .. WholeUpTo(lines, Len(lines)) |-> lines[i].event]
         /\ LogOf(lines) \in Seq(Events)
         /\ Len(LogOf(lines)) = WholeUpTo(lines, Len(lines))
<1>1. Len(lines) \in 0 .. Len(lines) /\ Len(lines) \in Nat
  BY LenProperties
<1>2. DurableOf(lines, n) = WholeUpTo(lines, n)
  BY PrefixShape DEF DurableOf
<1> DEFINE whole == WholePrefix(lines, Len(lines))
<1>3. /\ whole \in Seq(Lines)
      /\ Len(whole) = WholeUpTo(lines, Len(lines))
      /\ \A i \in 1 .. WholeUpTo(lines, Len(lines)) : whole[i] = lines[i]
  BY <1>1, PrefixShape
<1>4. LogOf(lines) = [i \in 1 .. WholeUpTo(lines, Len(lines)) |-> lines[i].event]
  BY <1>3 DEF LogOf, EventsOf
<1>5. LogOf(lines) \in Seq(Events)
  BY <1>3, EventsOfType DEF LogOf
<1>6. WholeUpTo(lines, Len(lines)) \in Nat
  BY <1>1, PrefixShape
<1>7. Len(LogOf(lines)) = WholeUpTo(lines, Len(lines))
  BY <1>4, <1>5, <1>6, LenProperties
<1> QED BY <1>2, <1>4, <1>5, <1>7

\* The log of a journal on its own.
LEMMA LogEvents ==
  ASSUME NEW lines \in Seq(Lines)
  PROVE  /\ Len(LogOf(lines)) = WholeUpTo(lines, Len(lines))
         /\ WholeUpTo(lines, Len(lines)) \in 0 .. Len(lines)
         /\ \A i \in 1 .. WholeUpTo(lines, Len(lines)) : LogOf(lines)[i] = lines[i].event
<1>1. Len(lines) \in 0 .. Len(lines)
  BY LenProperties
<1>2. /\ LogOf(lines) = [i \in 1 .. WholeUpTo(lines, Len(lines)) |-> lines[i].event]
      /\ Len(LogOf(lines)) = WholeUpTo(lines, Len(lines))
  BY <1>1, LogShape
<1>3. WholeUpTo(lines, Len(lines)) \in 0 .. Len(lines)
  BY <1>1, PrefixShape
<1> QED BY <1>2, <1>3

\* What was durable of a journal stays so when a line is appended to it.
LEMMA AppendKeepsDurable ==
  ASSUME NEW lines \in Seq(Lines), NEW line \in Lines, NEW n \in 0 .. Len(lines)
  PROVE  DurableOf(Append(lines, line), n) = DurableOf(lines, n)
<1> DEFINE longer == Append(lines, line)
<1>1. /\ longer \in Seq(Lines) /\ Len(longer) = Len(lines) + 1 /\ Len(lines) \in Nat
      /\ \A i \in 1 .. Len(lines) : longer[i] = lines[i]
  <2>1. longer \in Seq(Lines) /\ Len(longer) = Len(lines) + 1 /\ Len(lines) \in Nat
    BY AppendType
  <2> QED BY <2>1, AppendProperties
<1> HIDE DEF longer
<1>2. n \in 0 .. Len(longer) /\ n \in Nat
  BY <1>1
<1>3. n > 0 => longer[n] = lines[n]
  BY <1>1, <1>2
<1>4. WholeUpTo(longer, n) = WholeUpTo(lines, n)
  BY <1>3 DEF WholeUpTo
<1>5. DurableOf(longer, n) = WholeUpTo(longer, n)
  BY <1>1, <1>2, LogShape
<1>6. DurableOf(lines, n) = WholeUpTo(lines, n)
  BY LogShape
<1> QED BY <1>4, <1>5, <1>6 DEF longer

\* A whole line extends the log; a torn one does not show in it.
LEMMA AppendExtendsLog ==
  ASSUME NEW lines \in Seq(Lines), NEW line \in Lines, AllWhole(lines)
  PROVE  LogOf(Append(lines, line)) =
           IF line.whole THEN Append(LogOf(lines), line.event) ELSE LogOf(lines)
<1> DEFINE longer == Append(lines, line)
           n == Len(lines)
<1>1. /\ n \in Nat /\ longer \in Seq(Lines) /\ Len(longer) = n + 1
      /\ longer[n + 1] = line /\ \A i \in 1 .. n : longer[i] = lines[i]
  BY AppendType, AppendProperties
<1>2. WholeUpTo(lines, n) = n
  BY <1>1 DEF WholeUpTo, AllWhole
<1>3. LogOf(lines) = [i \in 1 .. n |-> lines[i].event] /\ LogOf(lines) \in Seq(Events)
      /\ Len(LogOf(lines)) = n
  BY <1>1, <1>2, LogShape
<1>4. LogOf(longer) = [i \in 1 .. WholeUpTo(longer, n + 1) |-> longer[i].event]
  <2> HIDE DEF longer
  <2> QED BY <1>1, LogShape
<1>5. CASE line.whole
  <2>1. WholeUpTo(longer, n + 1) = n + 1
    BY <1>1, <1>5 DEF WholeUpTo
  <2>2. line.event \in Events
    BY DEF Lines
  <2> DEFINE extended == Append(LogOf(lines), line.event)
  <2>3. /\ extended \in Seq(Events) /\ Len(extended) = n + 1
        /\ \A i \in 1 .. n : extended[i] = LogOf(lines)[i]
        /\ extended[n + 1] = line.event
    BY <1>1, <1>3, <2>2, AppendProperties
  <2>4. LogOf(longer) \in Seq(Events) /\ Len(LogOf(longer)) = n + 1
    <3> HIDE DEF longer
    <3> QED BY <1>1, <2>1, LogShape
  <2>5. \A i \in 1 .. n + 1 : LogOf(longer)[i] = extended[i]
    <3> HIDE DEF longer, extended
    <3> SUFFICES ASSUME NEW i \in 1 .. n + 1 PROVE LogOf(longer)[i] = extended[i]
      OBVIOUS
    <3>1. LogOf(longer)[i] = longer[i].event
      BY <1>4, <2>1
    <3>2. CASE i = n + 1
      BY <1>1, <2>3, <3>1, <3>2
    <3>3. CASE i \in 1 .. n
      BY <1>1, <1>3, <2>3, <3>1, <3>3
    <3> QED BY <1>1, <3>2, <3>3
  <2>6. LogOf(longer) = extended
    <3> HIDE DEF extended, longer
    <3> QED BY <2>3, <2>4, <2>5, SeqEqual
  <2> QED BY <1>5, <2>6
<1>6. CASE ~line.whole
  <2>1. WholeUpTo(longer, n + 1) = n
    BY <1>1, <1>6 DEF WholeUpTo
  <2> QED BY <1>1, <1>3, <1>4, <1>6, <2>1
<1> QED BY <1>5, <1>6

\* A synced part of the file is no longer, in whole lines, than the file.
LEMMA DurableWithin ==
  ASSUME NEW lines \in Seq(Lines), NEW n \in 0 .. Len(lines)
  PROVE  WholeUpTo(lines, n) <= WholeUpTo(lines, Len(lines))
<1>1. Len(lines) \in Nat /\ n \in Nat /\ n <= Len(lines)
  BY LenProperties
<1>2. CASE n = Len(lines)
  BY <1>1, <1>2 DEF WholeUpTo
<1>3. CASE n < Len(lines)
  BY <1>1, <1>3 DEF WholeUpTo
<1> QED BY <1>1, <1>2, <1>3

\* What a crash of the host leaves of the log is a prefix, as long as the
\* durable part at least, and all of it is durable.
LEMMA SurvivorLog ==
  ASSUME file \in Seq(Lines), Chained(file), synced \in 0 .. Len(file),
         NEW n \in synced .. Len(file), NEW f \in Surviving(n)
  PROVE  \E k \in DurableOf(file, synced) .. Len(LogOf(file)) :
           LogOf(f) = SubSeq(LogOf(file), 1, k) /\ DurableOf(f, Len(f)) = k
<1> DEFINE k == WholeUpTo(f, Len(f))
           w == WholeUpTo(file, Len(file))
           init == SubSeq(file, 1, n)
<1>1. /\ Len(file) \in Nat /\ n \in Nat /\ synced \in Nat
      /\ synced <= n /\ n <= Len(file)
  BY LenProperties
<1>2. f \in Seq(Lines)
  BY <1>1, SurvivingType
<1>3. init \in Seq(Lines) /\ Len(init) = n /\ \A i \in 1 .. n : init[i] = file[i]
  <2>1. \A i \in 1 .. n : file[i] \in Lines
    BY <1>1, ElementOfSeq
  <2> QED BY <1>1, <2>1, SubSeqProperties
<1>4. n < Len(file) => \A i \in 1 .. n : file[i].whole
  BY <1>1 DEF Chained, Linked
<1>5. WholeUpTo(file, synced) \in 0 .. synced /\ WholeUpTo(file, synced) <= w
      /\ w \in Nat /\ (n < Len(file) => n <= w)
  <2>1. WholeUpTo(file, synced) \in 0 .. synced /\ w \in 0 .. Len(file)
    BY <1>1, PrefixShape
  <2>2. n < Len(file) => n <= w
    BY <1>1 DEF WholeUpTo
  <2> QED BY <1>1, <2>1, <2>2, DurableWithin
<1>6. /\ k \in WholeUpTo(file, synced) .. w
      /\ \A i \in 1 .. k : f[i].event = file[i].event
  <2>1. CASE f = init /\ n < Len(file)
    <3>1. k = n
      BY <1>1, <1>3, <1>4, <2>1 DEF WholeUpTo
    <3>2. \A i \in 1 .. n : f[i].event = file[i].event
      BY <1>3, <2>1
    <3> HIDE DEF k, w, init
    <3> QED BY <1>1, <1>5, <2>1, <3>1, <3>2
  <2>2. CASE f = init /\ n = Len(file)
    <3>1. f = file
      BY <1>1, <1>2, <1>3, <2>2, SeqEqual
    <3> QED BY <1>1, <1>5, <3>1
  <2>3. CASE /\ n + 1 \in 1 .. Len(file)
             /\ f = Append(init, [file[n + 1] EXCEPT !.whole = FALSE])
    <3> DEFINE line == [file[n + 1] EXCEPT !.whole = FALSE]
    <3>1. file[n + 1] \in Lines
      BY <2>3, ElementOfSeq
    <3>2. line \in Lines /\ ~line.whole
      BY <3>1 DEF Lines
    <3>3. f = Append(init, line)
      BY <2>3
    <3> HIDE DEF line, init
    <3>4. Len(f) = n + 1 /\ f[n + 1] = line /\ \A i \in 1 .. n : f[i] = init[i]
      BY <1>1, <1>3, <3>2, <3>3, AppendType, AppendProperties
    <3>5. k = n
      BY <1>1, <3>2, <3>4 DEF WholeUpTo
    <3>6. \A i \in 1 .. n : f[i].event = file[i].event
      BY <1>3, <3>4
    <3>7. n < Len(file)
      BY <1>1, <2>3
    <3> HIDE DEF k, w
    <3> QED BY <1>1, <1>5, <3>5, <3>6, <3>7
  <2>4. \/ f = init
        \/ /\ n + 1 \in 1 .. Len(file)
           /\ f = Append(init, [file[n + 1] EXCEPT !.whole = FALSE])
    BY DEF Surviving
  <2> HIDE DEF k, w, init
  <2>5. n < Len(file) \/ n = Len(file)
    BY <1>1
  <2> QED BY <2>1, <2>2, <2>3, <2>4, <2>5
<1>7. DurableOf(f, Len(f)) = k /\ DurableOf(file, synced) = WholeUpTo(file, synced)
      /\ Len(LogOf(file)) = w /\ LogOf(file) \in Seq(Events)
      /\ LogOf(file) = [i \in 1 .. w |-> file[i].event]
      /\ LogOf(f) \in Seq(Events) /\ Len(LogOf(f)) = k
      /\ LogOf(f) = [i \in 1 .. k |-> f[i].event]
  <2>1. Len(f) \in 0 .. Len(f)
    BY <1>2, LenProperties
  <2> QED BY <1>2, <2>1, LogShape
<1> HIDE DEF k, w
<1>8. LogOf(f) = SubSeq(LogOf(file), 1, k)
  <2> DEFINE cut == SubSeq(LogOf(file), 1, k)
  <2>1. k \in Nat /\ k <= w
    BY <1>5, <1>6
  <2>2. \A i \in 1 .. k : LogOf(file)[i] \in Events
    BY <1>5, <1>7, <2>1, ElementOfSeq
  <2>3. cut \in Seq(Events) /\ Len(cut) = k /\ \A i \in 1 .. k : cut[i] = LogOf(file)[i]
    BY <2>1, <2>2, PrefixProperties
  <2> HIDE DEF cut
  <2>4. ASSUME NEW i \in 1 .. k PROVE LogOf(f)[i] = cut[i]
    <3>1. i \in 1 .. w
      BY <1>5, <2>1
    <3>2. LogOf(f)[i] = f[i].event
      BY <1>7
    <3>3. LogOf(file)[i] = file[i].event
      BY <1>7, <3>1
    <3>4. cut[i] = LogOf(file)[i]
      BY <2>3
    <3> QED BY <1>6, <3>2, <3>3, <3>4
  <2> QED BY <1>7, <2>3, <2>4, SeqEqual DEF cut
<1> QED BY <1>6, <1>7, <1>8

----------------------------------------------------------------------------
Acked == {e \in Events : fate[e] = "appended"}

AllInv == TypeInv /\ LockInv /\ ChainInv /\ FateInv /\ SnapshotInv

\* The variables of the log, as functions of the journal's.
LEMMA LogVars ==
  ASSUME UNCHANGED <<file, synced, returned, Acked>>
  PROVE  UNCHANGED Log!logVars
  BY DEF Log!logVars, Acked

\* The event of a call that ends well is acknowledged; every other end of a
\* call leaves the acknowledged events as they were.
LEMMA AckedSteps ==
  ASSUME TypeInv, LockInv, FateInv, NEW p \in Procs,
         LockTimeout(p) \/ LockFileFails(p) \/ Unlock(p) \/ ProcessCrash(p)
  PROVE  IF Unlock(p) /\ Reporting(p) /\ Appending(p)
         THEN Acked' = Acked \cup {request[p].event} ELSE Acked' = Acked
<1>0. fate \in [Events -> Fates]
  BY DEF TypeInv, TypeOK
<1>1. CASE ~Appending(p)
  BY <1>1 DEF LockTimeout, LockFileFails, GiveUp, Unlock, ProcessCrash, Acked
<1>2. CASE Appending(p) /\ Unlock(p)
  <2>1. Settle(p, outcome[p]) /\ pc[p] = "unlock" /\ holds[p] = "exclusive"
    BY <1>2 DEF Unlock, Appending
  <2>2. request[p].event \in Events /\ fate[request[p].event] = "pending"
    BY <1>2 DEF FateInv, RequestsOwned
  <2>3. CASE outcome[p] = "appended"
    BY <1>2, <2>1, <2>2, <2>3 DEF Settle, FateOf, Acked, Reporting
  <2>4. CASE outcome[p] # "appended"
    BY <1>2, <2>1, <2>2, <2>4 DEF Settle, FateOf, Acked, Reporting
  <2> QED BY <2>3, <2>4
<1>3. CASE Appending(p) /\ (LockTimeout(p) \/ LockFileFails(p))
  <2>1. Settle(p, "refused") /\ ~Unlock(p)
    BY <1>3 DEF LockTimeout, LockFileFails, GiveUp, Unlock
  <2> QED BY <2>1 DEF Settle, FateOf, Acked
<1>4. CASE Appending(p) /\ ProcessCrash(p) /\ ~Unlock(p)
  BY <1>4 DEF ProcessCrash, Settle, FateOf, Acked
<1> QED BY <1>1, <1>2, <1>3, <1>4

LEMMA StepImplements == AllInv /\ [Next]_vars => [Log!LogNext]_Log!logVars
<1> SUFFICES ASSUME AllInv, [Next]_vars PROVE [Log!LogNext]_Log!logVars
  OBVIOUS
<1>0. /\ file \in Seq(Lines) /\ Len(file) \in Nat /\ synced \in 0 .. Len(file)
      /\ synced \in Nat
      /\ fate \in [Events -> Fates]
  BY LenProperties DEF AllInv, TypeInv, TypeOK
<1>i. TypeInv /\ LockInv /\ ChainInv /\ FateInv /\ SnapshotInv
  BY DEF AllInv
<1>1. ASSUME NEW p \in Procs,
             \/ LockExclusive(p) \/ PreflightAccepts(p) \/ PreflightRefuses(p)
             \/ FsyncFails(p) \/ LockShared(p) \/ OpenForScan(p) \/ ScanLine(p)
             \/ ScanStops(p) \/ ReadFails(p)
      PROVE  UNCHANGED Log!logVars
  <2>1. UNCHANGED <<file, synced, returned, fate>>
    BY <1>1 DEF LockExclusive, PreflightAccepts, PreflightRefuses, FsyncFails,
                LockShared, OpenForScan, ScanLine, ScanStops, ReadFails, fileVars, scanVars
  <2> QED BY <2>1, LogVars DEF Acked
<1>2. ASSUME NEW p \in Procs, BeginAppend(p) PROVE UNCHANGED Log!logVars
  <2>1. UNCHANGED <<file, synced, returned>>
    BY <1>2 DEF BeginAppend, fileVars, scanVars
  <2>2. Acked' = Acked
    BY <1>0, <1>2 DEF BeginAppend, Acked
  <2> QED BY <2>1, <2>2, LogVars
<1>3. ASSUME NEW p \in Procs, BeginSnapshot(p) PROVE Log!Forget(p)
  BY <1>3 DEF BeginSnapshot, fileVars, Log!Forget
<1>4. ASSUME NEW p \in Procs, WriteLine(p)
      PROVE  \E e \in Events : Log!Extend(e)
  <2> DEFINE e == request[p].event
  <2>1. /\ pc[p] = "write" /\ file' = Append(file, NewLine(p, TRUE))
        /\ UNCHANGED <<synced, returned, fate>>
    BY <1>4 DEF WriteLine, scanVars
  <2>2. NewLine(p, TRUE) \in Lines /\ NewLine(p, TRUE).whole /\ NewLine(p, TRUE).event = e
    BY <1>i, <2>1, NewLineType DEF NewLine
  <2>3. e \in Events /\ ~InFile(e)
    BY <1>i, <2>1, <2>2 DEF FateInv, RequestsOwned, WritersInv, Appending, Unwritten
  <2>4. AllWhole(file)
    BY <1>i, <2>1 DEF ChainInv, WriterIsNext
  <2>5. LogOf(file') = Append(LogOf(file), e)
    BY <1>0, <2>1, <2>2, <2>4, AppendExtendsLog
  <2>6. DurableOf(file', synced') = DurableOf(file, synced)
    BY <1>0, <2>1, <2>2, AppendKeepsDurable
  <2>7. \A i \in 1 .. Len(LogOf(file)) : LogOf(file)[i] # e
    <3> SUFFICES ASSUME NEW i \in 1 .. Len(LogOf(file)) PROVE LogOf(file)[i] # e
      OBVIOUS
    <3>1. /\ Len(LogOf(file)) = WholeUpTo(file, Len(file))
          /\ WholeUpTo(file, Len(file)) \in 0 .. Len(file)
          /\ \A j \in 1 .. WholeUpTo(file, Len(file)) : LogOf(file)[j] = file[j].event
      BY <1>0, LogEvents
    <3>2. LogOf(file)[i] = file[i].event /\ i \in 1 .. Len(file)
      BY <1>0, <3>1
    <3> QED BY <2>3, <3>2 DEF InFile
  <2> HIDE DEF e
  <2>8. Log!Extend(e)
    BY <2>1, <2>5, <2>6, <2>7 DEF Log!Extend, LogOf, DurableOf
  <2> QED BY <2>3, <2>8
<1>5. ASSUME NEW p \in Procs, WriteFails(p) PROVE UNCHANGED Log!logVars
  <2>1. /\ pc[p] = "write" /\ UNCHANGED <<synced, returned, fate>>
        /\ file' = file \/ file' = Append(file, NewLine(p, FALSE))
    BY <1>5 DEF WriteFails, scanVars
  <2>2. CASE file' = file
    BY <2>1, <2>2, LogVars DEF Acked
  <2>3. CASE file' = Append(file, NewLine(p, FALSE))
    <3>1. NewLine(p, FALSE) \in Lines /\ ~NewLine(p, FALSE).whole
      BY <1>i, <2>1, NewLineType DEF NewLine
    <3>2. LogOf(file') = LogOf(file)
      BY <1>0, <1>i, <2>1, <2>3, <3>1, AppendExtendsLog DEF ChainInv, WriterIsNext
    <3>5. DurableOf(file', synced') = DurableOf(file, synced)
      BY <1>0, <2>1, <2>3, <3>1, AppendKeepsDurable
    <3> QED BY <2>1, <3>2, <3>5 DEF Log!logVars, LogOf, DurableOf
  <2> QED BY <2>1, <2>2, <2>3
<1>6. ASSUME NEW p \in Procs, Fsync(p) PROVE Log!Persist
  <2>1. pc[p] = "fsync" /\ synced' = Len(file) /\ UNCHANGED <<file, returned, fate>>
    BY <1>6 DEF Fsync, scanVars
  <2>2. WholeUpTo(file, synced) <= WholeUpTo(file, Len(file))
        /\ WholeUpTo(file, Len(file)) \in 0 .. Len(file)
        /\ WholeUpTo(file, synced) \in 0 .. synced
    BY <1>0, DurableWithin, PrefixShape
  <2>3. /\ DurableOf(file, synced) = WholeUpTo(file, synced)
        /\ DurableOf(file', synced') = WholeUpTo(file, Len(file))
        /\ Len(LogOf(file)) = WholeUpTo(file, Len(file))
    BY <1>0, <2>1, LogShape
  <2>4. DurableOf(file', synced') \in DurableOf(file, synced) .. Len(LogOf(file))
    BY <1>0, <2>2, <2>3
  <2> QED BY <2>1, <2>4 DEF Log!Persist, LogOf, DurableOf
<1>7. ASSUME NEW p \in Procs, ScanEnds(p) PROVE Log!Read(p)
  <2>1. /\ pc[p] = "scan" /\ AtEnd(p)
        /\ returned' = [returned EXCEPT ![p] = EventsOf(seen[p])]
        /\ UNCHANGED <<file, synced, fate>>
    BY <1>7 DEF ScanEnds, fileVars
  <2>2. Len(seen[p]) \in Nat
    BY <1>i, LenProperties DEF TypeInv, TypeOK
  <2>3. /\ Len(seen[p]) = Len(file)
        /\ \A i \in 1 .. Len(file) : seen[p][i] = file[i] /\ file[i].whole
    BY <1>0, <1>i, <2>1, <2>2 DEF AtEnd, SnapshotInv, SeenIsPrefix
  <2>4. WholeUpTo(file, Len(file)) = Len(file)
    BY <1>0, <2>3 DEF WholeUpTo
  <2>5. LogOf(file) = EventsOf(seen[p])
    BY <1>0, <2>3, <2>4, LogShape DEF EventsOf
  <2> QED BY <2>1, <2>5 DEF Log!Read, LogOf
<1>8. ASSUME NEW p \in Procs,
             LockTimeout(p) \/ LockFileFails(p) \/ Unlock(p) \/ ProcessCrash(p)
      PROVE  UNCHANGED Log!logVars \/ \E e \in Events : Log!Acknowledge(e)
  <2>1. UNCHANGED <<file, synced, returned>>
    BY <1>8 DEF LockTimeout, LockFileFails, GiveUp, Unlock, ProcessCrash, fileVars, scanVars
  <2>2. CASE Acked' = Acked
    BY <2>1, <2>2, LogVars
  <2>3. CASE Reporting(p) /\ Appending(p) /\ Acked' = Acked \cup {request[p].event}
    <3>1. PICK e \in Events : e = request[p].event /\ OnDisk(e)
      BY <1>i, <2>3 DEF FateInv, RequestsOwned, WritersInv
    <3>2. PICK i \in 1 .. synced : file[i].whole /\ file[i].event = e
      BY <3>1 DEF OnDisk
    <3>3. i \in 1 .. WholeUpTo(file, synced)
      BY <1>0, <3>2 DEF WholeUpTo
    <3>4. DurableOf(file, synced) = WholeUpTo(file, synced)
      BY <1>0, LogShape
    <3>5. /\ WholeUpTo(file, synced) <= WholeUpTo(file, Len(file))
          /\ WholeUpTo(file, synced) \in 0 .. synced
      BY <1>0, DurableWithin, PrefixShape
    <3>6. i \in 1 .. WholeUpTo(file, Len(file)) /\ i \in 1 .. DurableOf(file, synced)
      <4>1. WholeUpTo(file, Len(file)) \in 0 .. Len(file)
        BY <1>0, LogEvents
      <4> QED BY <1>0, <3>3, <3>4, <3>5, <4>1
    <3>7. LogOf(file)[i] = e
      BY <1>0, <3>2, <3>6, LogEvents
    <3>8. \E j \in 1 .. DurableOf(file, synced) : LogOf(file)[j] = e
      BY <3>6, <3>7
    <3>9. Acked' = Acked \cup {e}
      BY <2>3, <3>1
    <3>10. Log!Acknowledge(e)
      BY <2>1, <3>8, <3>9 DEF Log!Acknowledge, LogOf, DurableOf, Acked
    <3> QED BY <3>10
  <2> QED BY <1>8, <1>i, <2>2, <2>3, AckedSteps
<1>9. CASE HostCrash
  <2>1. /\ HostCrashes /\ synced' = Len(file') /\ UNCHANGED returned
        /\ fate' = [e \in Events |-> IF fate[e] = "pending" THEN "unknown" ELSE fate[e]]
    BY <1>9 DEF HostCrash, scanVars
  <2>2. PICK n \in synced .. Len(file) : file' \in Surviving(n)
    BY <1>9 DEF HostCrash
  <2>3. \E k \in DurableOf(file, synced) .. Len(LogOf(file)) :
          LogOf(file') = SubSeq(LogOf(file), 1, k) /\ DurableOf(file', Len(file')) = k
    BY <1>0, <1>i, <2>2, SurvivorLog DEF ChainInv
  <2>4. Acked' = Acked
    BY <2>1 DEF Acked
  <2>5. Log!Lose
    BY <2>1, <2>3, <2>4 DEF Log!Lose, LogOf, DurableOf, Acked
  <2> QED BY <2>5 DEF Log!LogNext
<1>10. CASE UNCHANGED vars
  BY <1>10, LogVars DEF vars, Acked
<1> QED
  BY <1>1, <1>2, <1>3, <1>4, <1>5, <1>6, <1>7, <1>8, <1>9, <1>10
  DEF Next, Step, Log!LogNext

LEMMA InitImplements == Init => Log!LogInit
<1> SUFFICES ASSUME Init PROVE Log!LogInit
  OBVIOUS
<1>1. file = << >> /\ synced = 0 /\ returned = [p \in Procs |-> << >>]
      /\ Acked = {}
  BY DEF Init, Acked
<1>2. file \in Seq(Lines) /\ Len(file) = 0 /\ synced \in 0 .. Len(file)
  BY <1>1, EmptySeq
<1>3. WholeUpTo(file, Len(file)) = 0 /\ WholeUpTo(file, synced) = 0
  BY <1>1, <1>2 DEF WholeUpTo
<1>4. DurableOf(file, synced) = 0 /\ LogOf(file) \in Seq(Events) /\ Len(LogOf(file)) = 0
  BY <1>2, <1>3, LogShape
<1>5. LogOf(file) = << >>
  BY <1>4, EmptySeq
<1> QED BY <1>1, <1>4, <1>5 DEF Log!LogInit, LogOf, DurableOf, Acked

\* The journal is an implementation of the durable log: every step of every
\* process, and every crash, is a step of the log or is invisible in it.
THEOREM JournalImplementsLog == Spec => Implements
<1>1. Init => Log!LogInit
  BY InitImplements
<1>2. AllInv /\ [Next]_vars => [Log!LogNext]_Log!logVars
  BY StepImplements
<1>3. Spec => []AllInv
  BY TypesHold, WritersAreAlone, ChainInvHolds, FateInvHolds, SnapshotInvHolds, PTL
  DEF AllInv
<1> QED BY <1>1, <1>2, <1>3, PTL DEF Spec, Implements, Log!Spec

=============================================================================
