----------------------- MODULE JournalVerificationProofs -----------------------
(***************************************************************************)
(* Proofs about JournalVerification: what the scan of a journal file makes *)
(* certain, for any bodies, any length of the journal and any number of    *)
(* changes to the stored lines.                                            *)
(***************************************************************************)
EXTENDS ContractValidation, SequenceDetectionProofs

----------------------------------------------------------------------------
(***************************************************************************)
(* Files, and the lines that follow from the line before them: append_event *)
(* writes nothing else, and a scan accepts nothing else.                   *)
(***************************************************************************)
\* What a line may contain: a body, or an event of a journal under a contract.
Contents == Bodies \cup Recordable

Histories == Seq(Nat \X Contents)

Line == [form : Forms, supported : BOOLEAN, body : Contents, sequence : Nat,
         prev : Histories, hash : Histories]

Files == Seq(Line)

PrevHash(file, i) == IF i = 1 THEN Null ELSE file[i - 1].hash

Follows(file, i) ==
  /\ file[i].form = "canonical"
  /\ file[i].supported
  /\ file[i].sequence = i - 1
  /\ file[i].prev = PrevHash(file, i)
  /\ file[i].hash = Append(PrevHash(file, i), <<i - 1, file[i].body>>)

Chained(file) == \A i \in 1 .. Len(file) : Follows(file, i)

LEMMA FileShape ==
  ASSUME NEW file \in Files
  PROVE  Len(file) \in Nat /\ \A i \in 1 .. Len(file) : file[i] \in Line
BY LenProperties, ElementOfSeq DEF Files

LEMMA LineFields ==
  ASSUME NEW line \in Line
  PROVE  /\ line.form \in Forms /\ line.supported \in BOOLEAN /\ line.body \in Contents
         /\ line.sequence \in Nat /\ line.prev \in Histories /\ line.hash \in Histories
BY DEF Line

LEMMA LineEqual ==
  ASSUME NEW x \in Line, NEW y \in Line,
         x.form = y.form, x.supported = y.supported, x.body = y.body,
         x.sequence = y.sequence, x.prev = y.prev, x.hash = y.hash
  PROVE  x = y
BY DEF Line

LEMMA NoHistory == Null \in Histories
BY EmptySeq DEF Histories, Null

\* A history says what it was made from.
LEMMA HistoryGrows ==
  ASSUME NEW p \in Histories, NEW n \in Nat, NEW body \in Contents,
         NEW h, h = Append(p, <<n, body>>)
  PROVE  /\ h \in Histories /\ h # Null
         /\ Len(h) = Len(p) + 1
         /\ h[Len(p) + 1] = <<n, body>>
         /\ \A i \in 1 .. Len(p) : h[i] = p[i]
<1>1. PICK pair \in Nat \X Contents : pair = <<n, body>>
  OBVIOUS
<1>2. h = Append(p, pair)
  BY <1>1
<1>3. PICK k \in Nat : k = Len(p)
  BY LenProperties DEF Histories
<1>4. h \in Histories /\ h # Null /\ Len(h) = k + 1
  BY <1>2, <1>3, AppendProperties DEF Histories, Null
<1>5. h[k + 1] = pair /\ \A i \in 1 .. k : h[i] = p[i]
  BY <1>2, <1>3, AppendProperties DEF Histories
<1> QED BY <1>1, <1>2, <1>3, <1>4, <1>5

LEMMA HistoryTells ==
  ASSUME NEW p \in Histories, NEW q \in Histories, NEW m \in Nat, NEW n \in Nat,
         NEW b \in Contents, NEW c \in Contents, Append(p, <<m, b>>) = Append(q, <<n, c>>)
  PROVE  p = q /\ m = n /\ b = c
<1>1. PICK k \in Nat, l \in Nat : k = Len(p) /\ l = Len(q)
  BY LenProperties DEF Histories
<1>2. PICK h : h = Append(p, <<m, b>>) /\ h = Append(q, <<n, c>>)
  OBVIOUS
<1>3. Len(h) = k + 1 /\ h[k + 1] = <<m, b>> /\ \A i \in 1 .. k : h[i] = p[i]
  <2>1. /\ Len(h) = Len(p) + 1 /\ h[Len(p) + 1] = <<m, b>>
        /\ \A i \in 1 .. Len(p) : h[i] = p[i]
    BY <1>2, HistoryGrows
  <2> QED BY <1>1, <2>1
<1>4. Len(h) = l + 1 /\ h[l + 1] = <<n, c>> /\ \A i \in 1 .. l : h[i] = q[i]
  <2>1. /\ Len(h) = Len(q) + 1 /\ h[Len(q) + 1] = <<n, c>>
        /\ \A i \in 1 .. Len(q) : h[i] = q[i]
    BY <1>2, HistoryGrows
  <2> QED BY <1>1, <2>1
<1>5. k = l
  BY <1>3, <1>4, SMT
<1>6. p = q
  BY <1>1, <1>3, <1>4, <1>5, SeqEqual DEF Histories
<1> QED BY <1>3, <1>4, <1>5, <1>6

LEMMA TerminalOfPrefix ==
  ASSUME NEW file \in Files, NEW n \in 0 .. Len(file)
  PROVE  /\ SubSeq(file, 1, n) \in Files
         /\ Len(SubSeq(file, 1, n)) = n
         /\ \A i \in 1 .. n : SubSeq(file, 1, n)[i] = file[i]
         /\ TerminalHash(SubSeq(file, 1, n)) = PrevHash(file, n + 1)
         /\ PrevHash(file, n + 1) \in Histories
<1>1. n \in Nat /\ \A i \in 1 .. n : file[i] \in Line
  BY FileShape
<1>2. PICK front : front = SubSeq(file, 1, n)
  OBVIOUS
<1>3. front \in Files /\ Len(front) = n /\ \A i \in 1 .. n : front[i] = file[i]
  BY <1>1, <1>2, SubSeqProperties DEF Files
<1>4. TerminalHash(front) = PrevHash(file, n + 1)
  <2>1. CASE n = 0
    BY <1>3, <2>1, EmptySeq DEF Files, TerminalHash, PrevHash
  <2>2. CASE n # 0
    <3>1. front # << >> /\ Last(front) = file[n]
      BY <1>1, <1>3, <2>2, EmptySeq DEF Files, Last
    <3> QED BY <1>1, <2>2, <3>1 DEF TerminalHash, PrevHash
  <2> QED BY <2>1, <2>2
<1>5. PrevHash(file, n + 1) \in Histories
  BY <1>1, NoHistory, LineFields DEF PrevHash
<1> QED BY <1>2, <1>3, <1>4, <1>5

\* What append_event writes behind a file, as one fact.
PreparedFields(line, file, body) ==
  /\ line.form = "canonical" /\ line.supported = TRUE /\ line.body = body
  /\ line.sequence = Len(file) /\ line.prev = TerminalHash(file)
  /\ line.hash = Append(TerminalHash(file), <<Len(file), body>>)

LEMMA PreparedShape ==
  ASSUME NEW file \in Files, NEW body \in Contents, NEW line, line = Prepared(file, body)
  PROVE  line \in Line /\ PreparedFields(line, file, body)
<1>1. PICK n \in Nat : n = Len(file)
  BY FileShape
<1>2. SubSeq(file, 1, n) = file
  BY <1>1, SubSeqFull DEF Files
<1>3. PICK p \in Histories : p = TerminalHash(file)
  <2>1. n \in 0 .. Len(file)
    BY <1>1
  <2> QED BY <1>2, <2>1, TerminalOfPrefix
<1>4. PICK h \in Histories : h = Append(p, <<n, body>>)
  BY HistoryGrows
<1>5. line = [form |-> "canonical", supported |-> TRUE, body |-> body, sequence |-> n,
              prev |-> p, hash |-> h]
  <2>1. PICK blank : blank = [form |-> "canonical", supported |-> TRUE, body |-> body,
                              sequence |-> n, prev |-> p, hash |-> Null]
    OBVIOUS
  <2>2. Digest(blank) = h
    BY <1>4, <2>1 DEF Digest
  <2>3. Prepared(file, body) = [blank EXCEPT !.hash = h]
    BY <1>1, <1>3, <2>1, <2>2 DEF Prepared
  <2> QED BY <2>1, <2>3
<1>7. line \in Line
  BY <1>5 DEF Line, Forms
<1> QED BY <1>1, <1>3, <1>4, <1>5, <1>7 DEF PreparedFields

\* The line that append_event would have written there, the line that the scan
\* finds no fault in, and the line that follows from the one before: the same.
LEMMA FollowsIsPrepared ==
  ASSUME NEW file \in Files, NEW i \in 1 .. Len(file)
  PROVE  /\ Fault(file, i) = "none" <=> Follows(file, i)
         /\ file[i] = Prepared(SubSeq(file, 1, i - 1), file[i].body) <=> Follows(file, i)
<1>0. i \in Nat /\ i - 1 \in 0 .. Len(file) /\ (i - 1) + 1 = i /\ i - 1 \in Nat
  BY FileShape
<1>1. PICK x \in Line : x = file[i]
  BY FileShape
<1>2. PICK front \in Files : front = SubSeq(file, 1, i - 1) /\ Len(front) = i - 1
  BY <1>0, TerminalOfPrefix
<1>3. PICK p \in Histories : p = TerminalHash(front) /\ p = PrevHash(file, i)
  BY <1>0, <1>2, TerminalOfPrefix
<1>4. PICK h \in Histories : h = Append(p, <<i - 1, x.body>>) /\ h # Null
  <2>1. PICK n \in Nat, body \in Contents : n = i - 1 /\ body = x.body
    BY <1>0, LineFields
  <2>2. PICK h : h = Append(p, <<n, body>>)
    OBVIOUS
  <2>3. h \in Histories /\ h # Null
    BY <2>2, HistoryGrows
  <2> QED BY <2>1, <2>2, <2>3
<1>5. Follows(file, i) <=> /\ x.form = "canonical" /\ x.supported
                           /\ x.sequence = i - 1 /\ x.prev = p /\ x.hash = h
  BY <1>1, <1>3, <1>4 DEF Follows
<1>6. Fault(file, i) = "none" <=> /\ x.form = "canonical" /\ x.sequence = i - 1 /\ x.prev = p
                                  /\ x.hash # Null /\ x.supported /\ x.hash = Digest(x)
  <2>1. x.form # "canonical" => FormFault(x) # "none"
    BY LineFields DEF FormFault, Forms
  <2> QED BY <1>1, <1>2, <1>3, <2>1 DEF Fault
<1>7. x.sequence = i - 1 /\ x.prev = p => Digest(x) = h
  BY <1>4 DEF Digest
<1>8. PICK y \in Line : y = Prepared(front, x.body)
  BY <1>2, LineFields, PreparedShape
<1>9. /\ y.form = "canonical" /\ y.supported = TRUE /\ y.body = x.body
      /\ y.sequence = i - 1 /\ y.prev = p /\ y.hash = h
  <2>1. PICK body \in Contents : body = x.body
    BY LineFields
  <2>2. y = Prepared(front, body)
    BY <1>8, <2>1
  <2>3. /\ y.form = "canonical" /\ y.supported = TRUE /\ y.body = body
        /\ y.sequence = Len(front) /\ y.prev = TerminalHash(front)
        /\ y.hash = Append(TerminalHash(front), <<Len(front), body>>)
    <3>1. PreparedFields(y, front, body)
      BY <2>2, PreparedShape
    <3> QED BY <3>1 DEF PreparedFields
  <2>4. Len(front) = i - 1 /\ TerminalHash(front) = p
    BY <1>2, <1>3
  <2>5. y.hash = Append(p, <<i - 1, x.body>>)
    BY <2>1, <2>3, <2>4
  <2> QED BY <1>4, <2>1, <2>3, <2>4, <2>5
<1>10. Follows(file, i) => x = y
  <2>1. x.supported => x.supported = TRUE
    BY LineFields
  <2> QED BY <1>5, <1>9, <2>1, LineEqual
<1>11. x = y => Follows(file, i)
  BY <1>5, <1>9
<1> QED BY <1>1, <1>2, <1>4, <1>5, <1>6, <1>7, <1>8, <1>10, <1>11


----------------------------------------------------------------------------
(***************************************************************************)
(* What append_event makes of a file, body after body.                     *)
(***************************************************************************)
Grown(file, body) == Append(file, Prepared(file, body))

LEMMA GrownShape ==
  ASSUME NEW file \in Files, NEW body \in Contents, NEW grown, grown = Grown(file, body)
  PROVE  /\ grown \in Files /\ Len(grown) = Len(file) + 1
         /\ \A i \in 1 .. Len(file) : grown[i] = file[i]
         /\ grown[Len(file) + 1].body = body
         /\ Follows(grown, Len(file) + 1)
         /\ \A i \in 1 .. Len(file) : Follows(file, i) => Follows(grown, i)
<1>1. PICK n \in Nat : n = Len(file)
  BY FileShape
<1>2. PICK line \in Line : line = Prepared(file, body)
  BY PreparedShape
<1>3. /\ line.form = "canonical" /\ line.supported = TRUE /\ line.body = body
      /\ line.sequence = n /\ line.prev = TerminalHash(file)
      /\ line.hash = Append(TerminalHash(file), <<n, body>>)
  <2>1. /\ line.form = "canonical" /\ line.supported = TRUE /\ line.body = body
        /\ line.sequence = Len(file) /\ line.prev = TerminalHash(file)
        /\ line.hash = Append(TerminalHash(file), <<Len(file), body>>)
    <3>1. PreparedFields(line, file, body)
      BY <1>2, PreparedShape
    <3> QED BY <3>1 DEF PreparedFields
  <2> QED BY <1>1, <2>1
<1>4. grown = Append(file, line)
  BY <1>2 DEF Grown
<1>5. grown \in Files /\ Len(grown) = n + 1 /\ grown[n + 1] = line
      /\ \A i \in 1 .. n : grown[i] = file[i]
  BY <1>1, <1>4, AppendProperties DEF Files
<1>6. TerminalHash(file) = PrevHash(file, n + 1)
  <2>1. n \in 0 .. Len(file) /\ SubSeq(file, 1, n) = file
    BY <1>1, SubSeqFull DEF Files
  <2> QED BY <2>1, TerminalOfPrefix
<1>7. \A i \in 1 .. n + 1 : PrevHash(grown, i) = PrevHash(file, i)
  BY <1>5 DEF PrevHash
<1>8. Follows(grown, n + 1)
  BY <1>3, <1>5, <1>6, <1>7 DEF Follows
<1>9. \A i \in 1 .. n : Follows(file, i) => Follows(grown, i)
  BY <1>5, <1>7 DEF Follows
<1> QED BY <1>1, <1>3, <1>5, <1>8, <1>9

\* The files that append_event makes of the given one, one for each number of
\* bodies appended: the recursion has a solution, and it consists of files.
Stages(before, bodies, stage) ==
  /\ stage[0] = before
  /\ \A n \in 1 .. Len(bodies) : stage[n] = Grown(stage[n - 1], bodies[n])

LEMMA SealingStages ==
  ASSUME NEW before \in Files, NEW bodies \in Seq(Contents)
  PROVE  \E stage \in [0 .. Len(bodies) -> Files] :
           Stages(before, bodies, stage) /\ SealedAfter(before, bodies) = stage[Len(bodies)]
<1>1. PICK m \in Nat : m = Len(bodies) /\ \A n \in 1 .. m : bodies[n] \in Contents
  BY LenProperties, ElementOfSeq
<1> DEFINE Next_(f, n) == IF n = 0 THEN before ELSE Append(f[n - 1], Prepared(f[n - 1], bodies[n]))
           Reached == {n \in Nat : n <= m => \E f \in [0 .. n -> Files] :
                                      \A k \in 0 .. n : f[k] = Next_(f, k)}
           file == CHOOSE f : f = [n \in 0 .. Len(bodies) |-> Next_(f, n)]
<1>2. 0 \in Reached
  <2>1. PICK f \in [0 .. 0 -> Files] : f = [k \in 0 .. 0 |-> before]
    OBVIOUS
  <2>2. \A k \in 0 .. 0 : f[k] = Next_(f, k)
    BY <2>1
  <2> QED BY <2>2
<1>3. \A n \in Nat : n \in Reached => n + 1 \in Reached
  <2>1. SUFFICES ASSUME NEW n \in Nat, n \in Reached, n + 1 <= m
                 PROVE  \E g \in [0 .. n + 1 -> Files] : \A k \in 0 .. n + 1 : g[k] = Next_(g, k)
    OBVIOUS
  <2>2. PICK f \in [0 .. n -> Files] : \A k \in 0 .. n : f[k] = Next_(f, k)
    BY <2>1
  <2>3. f[n] \in Files /\ bodies[n + 1] \in Contents
    BY <1>1, <2>1
  <2>4. PICK last \in Files : last = Append(f[n], Prepared(f[n], bodies[n + 1]))
    <3>1. PICK old \in Files, body \in Contents : old = f[n] /\ body = bodies[n + 1]
      BY <2>3
    <3>2. PICK last : last = Grown(old, body)
      OBVIOUS
    <3>3. last \in Files
      BY <3>2, GrownShape
    <3> QED BY <3>1, <3>2, <3>3 DEF Grown
  <2>5. PICK g \in [0 .. n + 1 -> Files] : g = [k \in 0 .. n + 1 |-> IF k <= n THEN f[k] ELSE last]
    OBVIOUS
  <2>6. \A k \in 0 .. n + 1 : g[k] = Next_(g, k)
    <3>1. SUFFICES ASSUME NEW k \in 0 .. n + 1 PROVE g[k] = Next_(g, k)
      OBVIOUS
    <3>2. CASE k = n + 1
      BY <2>1, <2>4, <2>5, <3>2
    <3>3. CASE k <= n
      <4>1. g[k] = Next_(f, k)
        BY <2>2, <2>5, <3>3
      <4>2. k # 0 => g[k - 1] = f[k - 1]
        BY <2>5, <3>3
      <4> QED BY <4>1, <4>2
    <3> QED BY <3>2, <3>3
  <2> QED BY <2>6
<1>4. m \in Reached
  <2> HIDE DEF Reached
  <2> QED BY <1>2, <1>3, Induction
<1>5. PICK f \in [0 .. m -> Files] : \A k \in 0 .. m : f[k] = Next_(f, k)
  BY <1>4
<1>6. f = [n \in 0 .. Len(bodies) |-> Next_(f, n)]
  BY <1>1, <1>5
<1>7. file = [n \in 0 .. Len(bodies) |-> Next_(file, n)]
  BY <1>6
<1>8. SealedAfter(before, bodies) = file[Len(bodies)]
  BY DEF SealedAfter
<1>9. \A k \in 0 .. m : file[k] = Next_(file, k)
  <2> HIDE DEF Next_
  <2>1. PICK g : g = file
    OBVIOUS
  <2>2. g = [n \in 0 .. m |-> Next_(g, n)]
    BY <1>1, <1>7, <2>1
  <2>3. \A k \in 0 .. m : g[k] = Next_(g, k)
    BY <2>2
  <2> QED BY <2>1, <2>3
<1> HIDE DEF file
<1> DEFINE Built == {n \in Nat : n <= m => file[n] \in Files}
<1>10. m \in Nat /\ \A n \in 0 .. m : n \in Built
  <2>1. 0 \in Built
    BY <1>9
  <2>2. \A n \in Nat : n \in Built => n + 1 \in Built
    <3>1. SUFFICES ASSUME NEW n \in Nat, n + 1 <= m, file[n] \in Files
                   PROVE  file[n + 1] \in Files
      OBVIOUS
    <3>2. PICK k \in 1 .. m : k = n + 1 /\ k - 1 = n
      BY <1>1, <3>1
    <3>3. PICK old \in Files, body \in Contents : old = file[k - 1] /\ body = bodies[k]
      BY <1>1, <3>1, <3>2
    <3>4. k \in 0 .. m /\ k # 0
      BY <3>2
    <3>5. file[k] = Append(file[k - 1], Prepared(file[k - 1], bodies[k]))
      BY <1>9, <3>4
    <3>6. file[k] = Grown(old, body)
      BY <3>3, <3>5 DEF Grown
    <3> QED BY <3>2, <3>6, GrownShape
  <2> HIDE DEF Built
  <2> QED BY <2>1, <2>2, Induction
<1>11. PICK stage \in [0 .. m -> Files] : \A k \in 0 .. m : stage[k] = file[k]
  <2>1. [k \in 0 .. m |-> file[k]] \in [0 .. m -> Files]
    BY <1>10
  <2> QED BY <2>1
<1>12. Stages(before, bodies, stage)
  BY <1>1, <1>9, <1>11 DEF Stages, Grown
<1> QED BY <1>1, <1>8, <1>11, <1>12

\* Every file that append_event made is chained, and has the bodies it was given.
LEMMA SealedShape ==
  ASSUME NEW bodies \in Seq(Contents), NEW file, file = Sealed(bodies)
  PROVE  /\ file \in Files /\ Len(file) = Len(bodies) /\ Chained(file)
         /\ \A i \in 1 .. Len(bodies) : file[i].body = bodies[i]
<1>1. PICK m \in Nat : m = Len(bodies) /\ \A n \in 1 .. m : bodies[n] \in Contents
  BY LenProperties, ElementOfSeq
<1>2. << >> \in Files /\ Len(<< >>) = 0
  BY EmptySeq DEF Files
<1>3. PICK stage \in [0 .. m -> Files] : Stages(<< >>, bodies, stage) /\ file = stage[m]
  BY <1>1, <1>2, SealingStages DEF Sealed
<1> DEFINE Good(n) == /\ Len(stage[n]) = n
                      /\ \A i \in 1 .. n : Follows(stage[n], i) /\ stage[n][i].body = bodies[i]
           Reached == {n \in Nat : n <= m => Good(n)}
<1>4. 0 \in Reached
  BY <1>2, <1>3 DEF Stages
<1>5. \A n \in Nat : n \in Reached => n + 1 \in Reached
  <2>1. SUFFICES ASSUME NEW n \in Nat, Good(n), n + 1 <= m
                 PROVE  Good(n + 1)
    OBVIOUS
  <2>2. PICK old \in Files, body \in Contents, next \in Files :
               old = stage[n] /\ body = bodies[n + 1] /\ next = stage[n + 1]
    BY <1>1, <2>1
  <2>3. next = Grown(old, body)
    <3>1. PICK k \in 1 .. m : k = n + 1 /\ k - 1 = n
      BY <1>1, <2>1
    <3> QED BY <1>1, <1>3, <2>2, <3>1 DEF Stages
  <2>4. Len(old) = n /\ \A i \in 1 .. n : Follows(old, i) /\ old[i].body = bodies[i]
    BY <2>1, <2>2
  <2>5. Len(next) = n + 1 /\ next[n + 1].body = body /\ Follows(next, n + 1)
    BY <2>3, <2>4, GrownShape
  <2>6. \A i \in 1 .. n : next[i] = old[i] /\ Follows(next, i)
    BY <2>3, <2>4, GrownShape
  <2>7. \A i \in 1 .. n + 1 : Follows(next, i) /\ next[i].body = bodies[i]
    <3>1. SUFFICES ASSUME NEW i \in 1 .. n + 1 PROVE Follows(next, i) /\ next[i].body = bodies[i]
      OBVIOUS
    <3>2. i = n + 1 \/ i \in 1 .. n
      OBVIOUS
    <3>3. CASE i = n + 1
      BY <2>2, <2>5, <3>3
    <3>4. CASE i \in 1 .. n
      BY <2>4, <2>6, <3>4
    <3> QED BY <3>2, <3>3, <3>4
  <2> QED BY <2>2, <2>5, <2>7
<1>6. m \in Reached
  <2> HIDE DEF Reached
  <2> QED BY <1>4, <1>5, Induction
<1> QED BY <1>1, <1>3, <1>6 DEF Chained

\* Two chained files with the same bodies are the same file, so a chained file
\* is the one append_event makes of its bodies.
LEMMA ChainedFilesEqual ==
  ASSUME NEW a \in Files, NEW b \in Files, Chained(a), Chained(b), Len(a) = Len(b),
         \A i \in 1 .. Len(a) : a[i].body = b[i].body
  PROVE  a = b
<1>1. PICK m \in Nat : m = Len(a) /\ m = Len(b)
  BY FileShape
<1> DEFINE Agree(n) == n <= m => \A i \in 1 .. n : a[i] = b[i]
           Same == {n \in Nat : Agree(n)}
<1>2. 0 \in Same
  OBVIOUS
<1>3. \A n \in Nat : n \in Same => n + 1 \in Same
  <2>0. SUFFICES ASSUME NEW n \in Nat, Agree(n), n + 1 <= m
                 PROVE  \A i \in 1 .. n + 1 : a[i] = b[i]
    <3>1. SUFFICES ASSUME NEW n \in Nat, Agree(n) PROVE Agree(n + 1)
      <4> HIDE DEF Agree
      <4> QED OBVIOUS
    <3> QED BY <2>0, <3>1
  <2>1. n + 1 <= m /\ \A i \in 1 .. n : a[i] = b[i]
    BY <2>0
  <2>2. PrevHash(a, n + 1) = PrevHash(b, n + 1)
    BY <2>1 DEF PrevHash
  <2>3. Follows(a, n + 1) /\ Follows(b, n + 1) /\ a[n + 1].body = b[n + 1].body
    BY <1>1, <2>1 DEF Chained
  <2>4. PICK x \in Line, y \in Line : x = a[n + 1] /\ y = b[n + 1]
    BY <1>1, <2>1, FileShape
  <2>5. x.supported = y.supported
    <3>1. x.supported /\ y.supported
      BY <2>3, <2>4 DEF Follows
    <3>2. x.supported \in BOOLEAN /\ y.supported \in BOOLEAN
      BY LineFields
    <3> QED BY <3>1, <3>2
  <2>6. x = y
    <3>1. /\ x.form = y.form /\ x.body = y.body /\ x.sequence = y.sequence
          /\ x.prev = y.prev /\ x.hash = y.hash
      BY <2>2, <2>3, <2>4 DEF Follows
    <3> QED BY <2>5, <3>1, LineEqual
  <2>7. \A i \in 1 .. n + 1 : i = n + 1 \/ i \in 1 .. n
    OBVIOUS
  <2> QED BY <2>1, <2>4, <2>6, <2>7
<1>4. m \in Same
  <2> HIDE DEF Same
  <2> QED BY <1>2, <1>3, Induction
<1> QED BY <1>1, <1>4, SeqEqual DEF Files

LEMMA ChainedIsSealed ==
  ASSUME NEW file \in Files
  PROVE  Chained(file) <=> file = Sealed([i \in 1 .. Len(file) |-> file[i].body])
<1>1. PICK m \in Nat : m = Len(file) /\ \A i \in 1 .. m : file[i].body \in Contents
  BY FileShape, LineFields
<1>2. PICK bodies \in Seq(Contents) : bodies = [i \in 1 .. m |-> file[i].body]
  <2>1. PICK bodies \in [1 .. m -> Contents] : bodies = [i \in 1 .. m |-> file[i].body]
    BY <1>1
  <2> QED BY <2>1
<1>3. Len(bodies) = m /\ \A i \in 1 .. m : bodies[i] = file[i].body
  BY <1>2, LenProperties
<1>4. PICK sealed : sealed = Sealed(bodies)
  OBVIOUS
<1>5. sealed \in Files /\ Len(sealed) = m /\ Chained(sealed)
      /\ \A i \in 1 .. m : sealed[i].body = file[i].body
  BY <1>3, <1>4, SealedShape
<1>6. Chained(file) => file = sealed
  BY <1>1, <1>5, ChainedFilesEqual
<1> QED BY <1>1, <1>2, <1>4, <1>5, <1>6


----------------------------------------------------------------------------
(***************************************************************************)
(* The scan.  It stops at the first line that does not follow from the one *)
(* before it, verifies the lines before that one, and is content when      *)
(* there is none and what was expected is what was found.                  *)
(***************************************************************************)
Verified(file, r) ==
  /\ r \in 0 .. Len(file)
  /\ \A i \in 1 .. r : Follows(file, i)
  /\ r = Len(file) \/ ~Follows(file, r + 1)

LEMMA VerifiedIsUnique ==
  ASSUME NEW file \in Files, NEW r, NEW s, Verified(file, r), Verified(file, s)
  PROVE  r = s
<1>1. Len(file) \in Nat
  BY FileShape
<1>2. r \in Nat /\ s \in Nat /\ r <= Len(file) /\ s <= Len(file)
  BY <1>1 DEF Verified
<1>3. ~(r < s) /\ ~(s < r)
  BY <1>1, <1>2 DEF Verified
<1> QED BY <1>2, <1>3

LEMMA ScanShape ==
  ASSUME NEW file \in Files, NEW count, NEW hash, NEW scan, scan = Scan(file, count, hash)
  PROVE  /\ Verified(file, scan.records)
         /\ scan.lastHash = PrevHash(file, scan.records + 1)
         /\ scan.ok <=> /\ scan.records = Len(file)
                        /\ count \in {Unknown, scan.records}
                        /\ hash \in {Null, scan.lastHash}
         /\ count = Unknown /\ hash = Null =>
              scan.issues = {} \/ \E code : scan.issues = {code}
<1>1. PICK n \in Nat : n = Len(file)
  BY FileShape
<1> DEFINE faults   == [i \in 1 .. Len(file) |-> Fault(file, i)]
           firstBad == SelectInSeq(faults, LAMBDA code : code # "none")
           records  == IF firstBad = 0 THEN Len(file) ELSE firstBad - 1
           lastHash == TerminalHash(SubSeq(file, 1, records))
           atFault  == {faults[i] : i \in {firstBad} \ {0}}
           ofCount  == {"expected_record_count_mismatch" : c \in {count} \ {Unknown, records}}
           ofHash   == {"expected_last_hash_mismatch" : h \in {hash} \ {Null, lastHash}}
           issues   == atFault \cup ofCount \cup ofHash
           Faulty   == {i \in 1 .. n : Fault(file, i) # "none"}
<1>2. /\ scan.records = records /\ scan.lastHash = lastHash /\ scan.issues = issues
      /\ scan.ok <=> issues = {}
  BY DEF Scan
<1>3. firstBad = IF Faulty # {} THEN Min(Faulty) ELSE 0
  <2>1. Len(faults) = n
    BY <1>1
  <2>2. {i \in 1 .. Len(faults) : faults[i] # "none"} = Faulty
    BY <1>1, <2>1
  <2> QED BY <2>2 DEF SelectInSeq
<1>4. \A i \in 1 .. n : i \in Faulty <=> ~Follows(file, i)
  BY <1>1, FollowsIsPrepared
<1>5. Faulty # {} => Min(Faulty) \in Faulty /\ \A k \in Faulty : Min(Faulty) <= k
  <2>1. SUFFICES ASSUME NEW b \in Faulty PROVE Min(Faulty) \in Faulty /\ \A k \in Faulty : Min(Faulty) <= k
    OBVIOUS
  <2>2. Faulty \in SUBSET Nat
    OBVIOUS
  <2> HIDE DEF Faulty
  <2>3. \E m \in Faulty : \A k \in Faulty : m <= k
    BY <2>1, <2>2, LeastNumber
  <2> QED BY <2>3 DEF Min
<1>6. /\ firstBad = 0 => \A i \in 1 .. n : Follows(file, i)
      /\ firstBad # 0 => /\ firstBad \in 1 .. n /\ ~Follows(file, firstBad)
                         /\ \A i \in 1 .. firstBad - 1 : Follows(file, i)
  <2>1. CASE Faulty = {}
    BY <1>3, <1>4, <2>1
  <2>2. CASE Faulty # {}
    <3>1. PICK m \in Faulty : m = firstBad /\ \A k \in Faulty : m <= k
      BY <1>3, <1>5, <2>2
    <3>2. m \in 1 .. n
      OBVIOUS
    <3> HIDE DEF Faulty, firstBad
    <3>3. \A i \in 1 .. m - 1 : i \in 1 .. n /\ i \notin Faulty
      BY <1>1, <3>1, <3>2
    <3> QED BY <1>1, <1>4, <3>1, <3>2, <3>3
  <2> QED BY <2>1, <2>2
<1> HIDE DEF firstBad
<1>7. Verified(file, records)
  BY <1>1, <1>6 DEF Verified
<1>8. lastHash = PrevHash(file, records + 1)
  <2>1. records \in 0 .. Len(file)
    BY <1>7 DEF Verified
  <2> HIDE DEF records
  <2> QED BY <2>1, TerminalOfPrefix
<1>9. firstBad = 0 <=> records = Len(file)
  BY <1>1, <1>6
<1>10. issues = {} <=> /\ firstBad = 0
                       /\ count \in {Unknown, records}
                       /\ hash \in {Null, lastHash}
  <2> HIDE DEF records, lastHash, faults
  <2>1. atFault = {} <=> firstBad = 0
    OBVIOUS
  <2>2. ofCount = {} <=> count \in {Unknown, records}
    OBVIOUS
  <2>3. ofHash = {} <=> hash \in {Null, lastHash}
    OBVIOUS
  <2> HIDE DEF atFault, ofCount, ofHash
  <2> QED BY <2>1, <2>2, <2>3
<1>11. count = Unknown /\ hash = Null => issues = {} \/ \E code : issues = {code}
  <2> HIDE DEF records, lastHash, faults
  <2>1. SUFFICES ASSUME count = Unknown, hash = Null
                 PROVE  issues = {} \/ \E code : issues = {code}
    OBVIOUS
  <2>2. ofCount = {} /\ ofHash = {}
    BY <2>1
  <2>3. atFault = {} \/ atFault = {faults[firstBad]}
    OBVIOUS
  <2> HIDE DEF atFault, ofCount, ofHash
  <2> QED BY <2>2, <2>3
<1> HIDE DEF records, lastHash, issues
<1> QED BY <1>2, <1>7, <1>8, <1>9, <1>10, <1>11


----------------------------------------------------------------------------
(***************************************************************************)
(* The invariant: what was written is chained, and, as long as no integrity *)
(* field was recomputed, every stored line still has the position and the  *)
(* integrity fields of a written one, or has lost its hash.                *)
(***************************************************************************)
TypeOK ==
  /\ written \in Files
  /\ lines \in Files
  /\ edits \in Nat
  /\ resealed \in BOOLEAN

WrittenInv == Chained(written) /\ Len(written) <= MaxRecords

SealOf(line, original) ==
  /\ line.sequence = original.sequence
  /\ line.prev = original.prev
  /\ line.hash \in {Null, original.hash}

SealInv ==
  ~resealed =>
    \A i \in 1 .. Len(lines) : \E k \in 1 .. Len(written) : SealOf(lines[i], written[k])

MainInv == TypeOK /\ WrittenInv /\ SealInv

\* Losing, repeating and reordering lines makes none that was not there.
Selected(new, old) ==
  /\ new \in Files
  /\ \A i \in 1 .. Len(new) : \E k \in 1 .. Len(old) : new[i] = old[k]

LEMMA Pieces ==
  ASSUME NEW old \in Files, NEW m \in 1 .. Len(old) + 1, NEW n \in 0 .. Len(old)
  PROVE  Selected(SubSeq(old, m, n), old)
<1>1. PICK l \in Nat : l = Len(old) /\ \A i \in 1 .. l : old[i] \in Line
  BY FileShape
<1>2. \A i \in m .. n : old[i] \in Line
  BY <1>1
<1>3. PICK new : new = SubSeq(old, m, n)
  OBVIOUS
<1>4. /\ new \in Files /\ Len(new) = IF m <= n THEN (n - m) + 1 ELSE 0
      /\ \A i \in 1 .. (n - m) + 1 : new[i] = old[(m + i) - 1]
  BY <1>1, <1>2, <1>3, SubSeqProperties DEF Files
<1>5. \A i \in 1 .. Len(new) : (m + i) - 1 \in 1 .. l /\ new[i] = old[(m + i) - 1]
  BY <1>1, <1>4
<1> QED BY <1>1, <1>3, <1>4, <1>5 DEF Selected

LEMMA Joined ==
  ASSUME NEW old \in Files, NEW a, NEW b, Selected(a, old), Selected(b, old)
  PROVE  Selected(a \o b, old)
<1>1. PICK new : new = a \o b
  OBVIOUS
<1>2. PICK m \in Nat, n \in Nat : m = Len(a) /\ n = Len(b)
  BY FileShape DEF Selected
<1>3. /\ new \in Files /\ Len(new) = m + n
      /\ \A i \in 1 .. m + n : new[i] = IF i <= m THEN a[i] ELSE b[i - m]
  BY <1>1, <1>2, ConcatProperties DEF Selected, Files
<1>4. SUFFICES ASSUME NEW i \in 1 .. m + n PROVE \E k \in 1 .. Len(old) : new[i] = old[k]
  BY <1>1, <1>3 DEF Selected
<1>5. CASE i <= m
  BY <1>2, <1>3, <1>5 DEF Selected
<1>6. CASE i > m
  <2>1. i - m \in 1 .. n
    BY <1>6
  <2>2. new[i] = b[i - m]
    BY <1>2, <1>3, <1>6
  <2> QED BY <1>2, <2>1, <2>2 DEF Selected
<1> QED BY <1>2, <1>5, <1>6

LEMMA OneLine ==
  ASSUME NEW old \in Files, NEW i \in 1 .. Len(old)
  PROVE  Selected(<<old[i]>>, old)
<1>1. PICK line \in Line : line = old[i]
  BY FileShape
<1>2. <<line>> \in Files /\ Len(<<line>>) = 1 /\ <<line>>[1] = line
  BY DEF Files
<1> QED BY <1>1, <1>2 DEF Selected

LEMMA SelectedKeepsSeals ==
  ASSUME MainInv, NEW new, Selected(new, lines)
  PROVE  /\ new \in Files
         /\ ~resealed => \A i \in 1 .. Len(new) :
                           \E k \in 1 .. Len(written) : SealOf(new[i], written[k])
BY DEF Selected, MainInv, SealInv

LEMMA SelectionStep ==
  ASSUME MainInv, NEW new, Selected(new, lines), Change(new), UNCHANGED resealed
  PROVE  MainInv'
<1>1. new \in Files /\ lines' = new /\ written' = written /\ edits' \in Nat /\ resealed' = resealed
  BY DEF Change, Selected, MainInv, TypeOK
<1>2. SealInv'
  BY <1>1, SelectedKeepsSeals DEF SealInv
<1> QED BY <1>1, <1>2 DEF MainInv, TypeOK, WrittenInv

LEMMA EditStep ==
  ASSUME MainInv, NEW i \in 1 .. Len(lines), NEW line \in Line,
         line.sequence = lines[i].sequence, line.prev = lines[i].prev,
         line.hash \in {Null, lines[i].hash},
         Change([lines EXCEPT ![i] = line]), UNCHANGED resealed
  PROVE  MainInv'
<1>1. lines \in Files
  BY DEF MainInv, TypeOK
<1>2. PICK new : new = [lines EXCEPT ![i] = line]
  OBVIOUS
<1>3. new \in Files /\ Len(new) = Len(lines)
      /\ \A j \in 1 .. Len(lines) : new[j] = IF j = i THEN line ELSE lines[j]
  BY <1>1, <1>2, ExceptSeq DEF Files
<1>4. lines' = new /\ written' = written /\ edits' \in Nat /\ resealed' = resealed
  BY <1>2 DEF Change, MainInv, TypeOK
<1>5. ~resealed => \A j \in 1 .. Len(new) : \E k \in 1 .. Len(written) : SealOf(new[j], written[k])
  <2>1. SUFFICES ASSUME ~resealed, NEW j \in 1 .. Len(lines)
                 PROVE  \E k \in 1 .. Len(written) : SealOf(new[j], written[k])
    BY <1>3
  <2>2. PICK k \in 1 .. Len(written) : SealOf(lines[j], written[k])
    BY <2>1 DEF MainInv, SealInv
  <2>3. CASE j = i
    BY <1>3, <2>2, <2>3 DEF SealOf
  <2>4. CASE j # i
    BY <1>3, <2>2, <2>4
  <2> QED BY <2>3, <2>4
<1> QED BY <1>3, <1>4, <1>5 DEF MainInv, TypeOK, WrittenInv, SealInv

LEMMA InitMainInv == Init => MainInv
<1>1. SUFFICES ASSUME Init PROVE MainInv
  OBVIOUS
<1>2. PICK n \in 0 .. MaxRecords : \E bodies \in [1 .. n -> Bodies] : written = Sealed(bodies)
  BY <1>1 DEF Init
<1>3. PICK bodies \in [1 .. n -> Bodies] : written = Sealed(bodies)
  BY <1>2
<1>4. n \in Nat /\ n <= MaxRecords
  BY BoundsAssumption
<1>5. bodies \in Seq(Contents) /\ Len(bodies) = n
  <2>1. bodies \in [1 .. n -> Contents]
    BY DEF Contents
  <2> QED BY <1>4, <2>1
<1>6. written \in Files /\ Len(written) = n /\ Chained(written)
  BY <1>3, <1>5, SealedShape
<1>7. lines = written /\ edits = 0 /\ resealed = FALSE
  BY <1>1 DEF Init
<1>8. \A i \in 1 .. Len(lines) : SealOf(lines[i], written[i])
  BY <1>7 DEF SealOf
<1>9. resealed \in BOOLEAN
  BY <1>7
<1>10. TypeOK
  <2>1. lines \in Files /\ edits \in Nat
    BY <1>6, <1>7
  <2> QED BY <1>6, <1>9, <2>1 DEF TypeOK
<1> QED BY <1>4, <1>6, <1>7, <1>8, <1>10 DEF MainInv, WrittenInv, SealInv

LEMMA NextMainInv == MainInv /\ [Next]_vars => MainInv'
<1>1. SUFFICES ASSUME MainInv, [Next]_vars PROVE MainInv'
  OBVIOUS
<1>2. lines \in Files /\ Len(lines) \in Nat /\ \A i \in 1 .. Len(lines) : lines[i] \in Line
  BY <1>1, FileShape DEF MainInv, TypeOK
<1>3. CASE UNCHANGED vars
  BY <1>1, <1>3 DEF vars, MainInv, TypeOK, WrittenInv, SealInv
<1>4. CASE LoseTail
  <2>1. PICK n \in 0 .. Len(lines) - 1 : Change(SubSeq(lines, 1, n)) /\ UNCHANGED resealed
    BY <1>4 DEF LoseTail
  <2>2. 1 \in 1 .. Len(lines) + 1 /\ n \in 0 .. Len(lines)
    BY <1>2
  <2> QED BY <1>1, <1>2, <2>1, <2>2, Pieces, SelectionStep
<1>5. CASE LoseLine
  <2>1. PICK i \in 1 .. Len(lines) : Change(RemoveAt(lines, i)) /\ UNCHANGED resealed
    BY <1>5 DEF LoseLine
  <2>2. 1 \in 1 .. Len(lines) + 1 /\ i - 1 \in 0 .. Len(lines) /\ i + 1 \in 1 .. Len(lines) + 1
        /\ Len(lines) \in 0 .. Len(lines)
    BY <1>2
  <2>3. Selected(RemoveAt(lines, i), lines)
    BY <1>2, <2>2, Pieces, Joined DEF RemoveAt
  <2> QED BY <1>1, <2>1, <2>3, SelectionStep
<1>6. CASE RepeatLine
  <2>1. PICK i \in 1 .. Len(lines) : Change(InsertAt(lines, i, lines[i])) /\ UNCHANGED resealed
    BY <1>6 DEF RepeatLine
  <2>2. 1 \in 1 .. Len(lines) + 1 /\ i - 1 \in 0 .. Len(lines) /\ i \in 1 .. Len(lines) + 1
        /\ Len(lines) \in 0 .. Len(lines)
    BY <1>2
  <2>3. Selected(InsertAt(lines, i, lines[i]), lines)
    BY <1>2, <2>2, Pieces, Joined, OneLine DEF InsertAt
  <2> QED BY <1>1, <2>1, <2>3, SelectionStep
<1>7. CASE SwapLines
  <2>1. PICK i \in 1 .. Len(lines) - 1 :
          /\ Change([lines EXCEPT ![i] = lines[i + 1], ![i + 1] = lines[i]])
          /\ UNCHANGED resealed
    BY <1>7 DEF SwapLines
  <2>2. i \in 1 .. Len(lines) /\ i + 1 \in 1 .. Len(lines)
    BY <1>2
  <2>3. PICK mid : mid = [lines EXCEPT ![i] = lines[i + 1]]
    OBVIOUS
  <2>4. mid \in Files /\ Len(mid) = Len(lines)
        /\ \A j \in 1 .. Len(lines) : mid[j] = IF j = i THEN lines[i + 1] ELSE lines[j]
    BY <1>2, <2>2, <2>3, ExceptSeq DEF Files
  <2>5. PICK new : new = [mid EXCEPT ![i + 1] = lines[i]]
    OBVIOUS
  <2>6. new \in Files /\ Len(new) = Len(lines)
        /\ \A j \in 1 .. Len(lines) : new[j] = IF j = i + 1 THEN lines[i] ELSE mid[j]
    BY <1>2, <2>2, <2>4, <2>5, ExceptSeq DEF Files
  <2>7. new = [lines EXCEPT ![i] = lines[i + 1], ![i + 1] = lines[i]]
    BY <2>3, <2>5
  <2>8. Selected(new, lines)
    BY <2>2, <2>4, <2>6 DEF Selected
  <2> QED BY <1>1, <2>1, <2>7, <2>8, SelectionStep
<1>8. CASE EditLine
  <2>1. PICK i \in 1 .. Len(lines) :
          /\ \/ \E body \in Bodies : Change([lines EXCEPT ![i].body = body])
             \/ \E form \in Forms : Change([lines EXCEPT ![i].form = form])
             \/ Change([lines EXCEPT ![i].supported = FALSE])
             \/ Change([lines EXCEPT ![i].hash = Null])
          /\ UNCHANGED resealed
    BY <1>8 DEF EditLine
  <2>2. PICK old \in Line : old = lines[i]
    BY <1>2
  <2>3. ASSUME NEW body \in Bodies, Change([lines EXCEPT ![i].body = body]) PROVE MainInv'
    <3>1. PICK line : line = [old EXCEPT !.body = body]
      OBVIOUS
    <3>2. line \in Line /\ line.sequence = old.sequence /\ line.prev = old.prev
          /\ line.hash = old.hash
      BY <3>1 DEF Line, Contents
    <3>3. [lines EXCEPT ![i].body = body] = [lines EXCEPT ![i] = line]
      BY <2>2, <3>1
    <3> QED BY <1>1, <2>1, <2>2, <2>3, <3>2, <3>3, EditStep
  <2>4. ASSUME NEW form \in Forms, Change([lines EXCEPT ![i].form = form]) PROVE MainInv'
    <3>1. PICK line : line = [old EXCEPT !.form = form]
      OBVIOUS
    <3>2. line \in Line /\ line.sequence = old.sequence /\ line.prev = old.prev
          /\ line.hash = old.hash
      BY <3>1 DEF Line
    <3>3. [lines EXCEPT ![i].form = form] = [lines EXCEPT ![i] = line]
      BY <2>2, <3>1
    <3> QED BY <1>1, <2>1, <2>2, <2>4, <3>2, <3>3, EditStep
  <2>5. ASSUME Change([lines EXCEPT ![i].supported = FALSE]) PROVE MainInv'
    <3>1. PICK line : line = [old EXCEPT !.supported = FALSE]
      OBVIOUS
    <3>2. line \in Line /\ line.sequence = old.sequence /\ line.prev = old.prev
          /\ line.hash = old.hash
      BY <3>1 DEF Line
    <3>3. [lines EXCEPT ![i].supported = FALSE] = [lines EXCEPT ![i] = line]
      BY <2>2, <3>1
    <3> QED BY <1>1, <2>1, <2>2, <2>5, <3>2, <3>3, EditStep
  <2>6. ASSUME Change([lines EXCEPT ![i].hash = Null]) PROVE MainInv'
    <3>1. PICK line : line = [old EXCEPT !.hash = Null]
      OBVIOUS
    <3>2. line \in Line /\ line.sequence = old.sequence /\ line.prev = old.prev
          /\ line.hash = Null
      BY <3>1, NoHistory DEF Line
    <3>3. [lines EXCEPT ![i].hash = Null] = [lines EXCEPT ![i] = line]
      BY <2>2, <3>1
    <3> QED BY <1>1, <2>1, <2>2, <2>6, <3>2, <3>3, EditStep
  <2> QED BY <2>1, <2>3, <2>4, <2>5, <2>6
<1>9. CASE Reseal
  <2>1. PICK i \in 1 .. Len(lines) :
          /\ Change(SealedAfter(SubSeq(lines, 1, i - 1),
                                [k \in 1 .. Len(lines) + 1 - i |-> lines[i + k - 1].body]))
          /\ resealed' = TRUE
    BY <1>9 DEF Reseal
  <2>2. PICK before \in Files : before = SubSeq(lines, 1, i - 1)
    <3>1. i - 1 \in 0 .. Len(lines)
      BY <1>2
    <3> QED BY <1>2, <3>1, TerminalOfPrefix
  <2>3. PICK n \in Nat : n = Len(lines) + 1 - i
    BY <1>2
  <2>4. \A k \in 1 .. n : lines[i + k - 1].body \in Contents
    BY <1>2, <2>3, LineFields
  <2>5. PICK bodies \in [1 .. n -> Contents] : bodies = [k \in 1 .. n |-> lines[i + k - 1].body]
    BY <2>4
  <2>6. bodies \in Seq(Contents) /\ Len(bodies) = n
    OBVIOUS
  <2>7. SealedAfter(before, bodies) \in Files
    BY <2>6, SealingStages
  <2>8. lines' \in Files /\ written' = written /\ edits' \in Nat
    BY <1>1, <2>1, <2>2, <2>3, <2>5, <2>7 DEF Change, MainInv, TypeOK
  <2>9. resealed' \in BOOLEAN
    BY <2>1
  <2>10. TypeOK'
    <3>1. written' \in Files
      BY <1>1, <2>8 DEF MainInv, TypeOK
    <3> QED BY <2>8, <2>9, <3>1 DEF TypeOK
  <2> QED BY <1>1, <2>1, <2>8, <2>10 DEF MainInv, WrittenInv, SealInv
<1> QED BY <1>1, <1>3, <1>4, <1>5, <1>6, <1>7, <1>8, <1>9 DEF Next


----------------------------------------------------------------------------
(***************************************************************************)
(* The theorems.                                                           *)
(***************************************************************************)
LEMMA OkIsChained ==
  ASSUME NEW file \in Files, NEW scan, scan = LocalScan(file)
  PROVE  scan.ok <=> Chained(file)
<1>1. PICK n \in Nat : n = Len(file)
  BY FileShape
<1>2. Verified(file, scan.records) /\ (scan.ok <=> scan.records = n)
  BY <1>1, ScanShape DEF LocalScan
<1>3. Chained(file) => Verified(file, n)
  BY <1>1 DEF Chained, Verified
<1>4. scan.records = n => Chained(file)
  BY <1>1, <1>2 DEF Chained, Verified
<1>5. Chained(file) => scan.records = n
  BY <1>2, <1>3, VerifiedIsUnique
<1> QED BY <1>2, <1>4, <1>5

\* What a chained file ends in tells everything before it: the hash of a line
\* commits to its body and to the hash of the line before.
LEMMA EndsTellTheRest ==
  ASSUME NEW a \in Files, NEW b \in Files, Chained(a), Chained(b), Len(a) = Len(b),
         Len(a) # 0 => a[Len(a)].hash = b[Len(a)].hash
  PROVE  a = b
<1>1. PICK m \in Nat : m = Len(a) /\ m = Len(b)
  BY FileShape
<1>2. ASSUME NEW i \in 1 .. m, a[i].hash = b[i].hash
      PROVE  a[i].body = b[i].body /\ (i # 1 => a[i - 1].hash = b[i - 1].hash)
  <2>1. PICK x \in Line, y \in Line : x = a[i] /\ y = b[i]
    BY <1>1, FileShape
  <2>2. PICK p \in Histories, q \in Histories : p = PrevHash(a, i) /\ q = PrevHash(b, i)
    <3>1. i - 1 \in 0 .. Len(a) /\ i - 1 \in 0 .. Len(b) /\ (i - 1) + 1 = i
      BY <1>1
    <3> QED BY <3>1, TerminalOfPrefix
  <2>3. Append(p, <<i - 1, x.body>>) = Append(q, <<i - 1, y.body>>)
    BY <1>1, <1>2, <2>1, <2>2 DEF Chained, Follows
  <2>4. PICK n \in Nat, c \in Contents, d \in Contents : n = i - 1 /\ c = x.body /\ d = y.body
    BY LineFields
  <2>5. p = q /\ c = d
    BY <2>3, <2>4, HistoryTells
  <2> QED BY <2>1, <2>2, <2>4, <2>5 DEF PrevHash
<1> DEFINE Same == {n \in Nat : n < m => a[m - n].hash = b[m - n].hash}
<1>3. 0 \in Same
  BY <1>1
<1>4. \A n \in Nat : n \in Same => n + 1 \in Same
  <2>1. SUFFICES ASSUME NEW n \in Nat, n + 1 < m, a[m - n].hash = b[m - n].hash
                 PROVE  a[m - (n + 1)].hash = b[m - (n + 1)].hash
    OBVIOUS
  <2>2. PICK i \in 1 .. m : i = m - n /\ i # 1 /\ i - 1 = m - (n + 1)
    BY <2>1
  <2> QED BY <1>2, <2>1, <2>2
<1>5. \A n \in Nat : n \in Same
  <2> HIDE DEF Same
  <2> QED BY <1>3, <1>4, Induction
<1>6. \A i \in 1 .. m : a[i].body = b[i].body
  <2>1. SUFFICES ASSUME NEW i \in 1 .. m PROVE a[i].body = b[i].body
    OBVIOUS
  <2>2. PICK n \in Nat : n = m - i /\ n < m /\ m - n = i
    OBVIOUS
  <2>3. n \in Same
    BY <1>5
  <2>4. a[i].hash = b[i].hash
    BY <2>2, <2>3
  <2> QED BY <1>2, <2>4
<1> QED BY <1>1, <1>6, ChainedFilesEqual

\* The stored lines are those of a file; what was written is the work of
\* append_event; and, as long as no integrity field is recomputed, a stored line
\* has the position and hashes of a written one or no hash.
THEOREM StoredLinesAreKnown == Spec => []MainInv
<1> QED BY InitMainInv, NextMainInv, PTL DEF Spec

\* The files that verified_journal_snapshot accepts are exactly those that
\* append_event could have written, whatever was done to the stored lines.
THEOREM ScansAcceptWhatAppendWrites == Spec => []VerifiesWhatAppendWrites
<1>1. MainInv => VerifiesWhatAppendWrites
  BY OkIsChained, ChainedIsSealed DEF MainInv, TypeOK, VerifiesWhatAppendWrites
<1> QED BY <1>1, StoredLinesAreKnown, PTL

\* The records that verified_journal_snapshot counts as verified are the longest
\* beginning of the file that append_event could have written, and at most one
\* issue is reported, at the line after it.
THEOREM ScansVerifyTheLongestPrefix == Spec => []VerifiedPrefixIsLongest
<1>1. MainInv => VerifiedPrefixIsLongest
  <2>1. SUFFICES ASSUME MainInv PROVE VerifiedPrefixIsLongest
    OBVIOUS
  <2>2. PICK file \in Files, l \in Nat : file = lines /\ l = Len(file)
    BY <2>1, FileShape DEF MainInv, TypeOK
  <2>3. PICK scan : scan = LocalScan(file)
    OBVIOUS
  <2>4. Verified(file, scan.records)
        /\ (scan.issues = {} \/ \E code : scan.issues = {code})
    BY <2>3, ScanShape DEF LocalScan
  <2>5. PICK r \in 0 .. l : r = scan.records
    BY <2>2, <2>4 DEF Verified
  <2> DEFINE writable == {n \in 0 .. l : SubSeq(file, 1, n) = Sealed([i \in 1 .. n |-> file[i].body])}
  <2>6. \A n \in 0 .. l : n \in writable <=> n <= r
    <3>1. SUFFICES ASSUME NEW n \in 0 .. l PROVE n \in writable <=> n <= r
      OBVIOUS
    <3>2. PICK front \in Files : /\ front = SubSeq(file, 1, n) /\ Len(front) = n
                                 /\ \A i \in 1 .. n : front[i] = file[i]
      BY <2>2, TerminalOfPrefix
    <3>3. [i \in 1 .. Len(front) |-> front[i].body] = [i \in 1 .. n |-> file[i].body]
      BY <3>2
    <3>4. n \in writable <=> Chained(front)
      <4>1. Chained(front) <=> front = Sealed([i \in 1 .. Len(front) |-> front[i].body])
        BY ChainedIsSealed
      <4> QED BY <3>2, <3>3, <4>1
    <3>5. \A i \in 1 .. n : Follows(front, i) <=> Follows(file, i)
      <4>1. SUFFICES ASSUME NEW i \in 1 .. n PROVE Follows(front, i) <=> Follows(file, i)
        OBVIOUS
      <4>2. i # 1 => i - 1 \in 1 .. n
        OBVIOUS
      <4>3. front[i] = file[i] /\ PrevHash(front, i) = PrevHash(file, i)
        BY <3>2, <4>2 DEF PrevHash
      <4> QED BY <4>3 DEF Follows
    <3>6. Chained(front) <=> \A i \in 1 .. n : Follows(file, i)
      BY <3>2, <3>5 DEF Chained
    <3>7. (\A i \in 1 .. n : Follows(file, i)) <=> n <= r
      BY <2>2, <2>4, <2>5 DEF Verified
    <3> QED BY <3>4, <3>6, <3>7
  <2>7. r \in writable /\ \A n \in writable : n \in 0 .. l /\ n <= r
    <3>1. writable \subseteq 0 .. l
      OBVIOUS
    <3> HIDE DEF writable
    <3> QED BY <2>5, <2>6, <3>1
  <2>8. Max(writable) = r
    <3> HIDE DEF writable
    <3>1. PICK c : c = Max(writable)
      OBVIOUS
    <3>2. c \in writable /\ \A y \in writable : c >= y
      BY <2>2, <2>5, <2>7, <3>1 DEF Max
    <3> QED BY <2>2, <2>5, <2>7, <3>1, <3>2
  <2>9. Cardinality(scan.issues) <= 1
    <3>1. Cardinality(scan.issues) \in {0, 1}
      BY <2>4, FS_EmptySet, FS_Singleton
    <3> QED BY <3>1
  <2> QED BY <2>2, <2>3, <2>5, <2>8, <2>9 DEF VerifiedPrefixIsLongest
<1> QED BY <1>1, StoredLinesAreKnown, PTL

\* Without a trusted count and hash, verified_journal_snapshot accepts stored
\* lines only if they begin what was written, unless integrity fields were
\* recomputed: edits, losses, repetitions and reorderings show, a missing tail
\* does not.
THEOREM OnlyTailLossGoesUnseen == Spec => []OnlyTailLossPasses
<1>1. MainInv => OnlyTailLossPasses
  <2>1. SUFFICES ASSUME MainInv, LocalScan(lines).ok, ~resealed PROVE IsPrefix(lines, written)
    BY DEF OnlyTailLossPasses
  <2>2. PICK l \in Nat, n \in Nat : l = Len(lines) /\ n = Len(written)
    BY <2>1, FileShape DEF MainInv, TypeOK
  <2>3. lines \in Files /\ written \in Files /\ Chained(lines) /\ Chained(written)
    BY <2>1, OkIsChained DEF MainInv, TypeOK, WrittenInv
  <2>4. \A i \in 1 .. l : i \in 1 .. n /\ lines[i] = written[i]
    <3>1. SUFFICES ASSUME NEW i \in 1 .. l PROVE i \in 1 .. n /\ lines[i] = written[i]
      OBVIOUS
    <3>2. PICK k \in 1 .. n : SealOf(lines[i], written[k])
      BY <2>1, <2>2 DEF MainInv, SealInv
    <3>3. PICK x \in Line, y \in Line : x = lines[i] /\ y = written[k]
      BY <2>2, <2>3, FileShape
    <3>4. /\ x.form = "canonical" /\ x.supported /\ x.sequence = i - 1
          /\ x.prev = PrevHash(lines, i) /\ x.hash = Append(x.prev, <<i - 1, x.body>>)
      BY <2>2, <2>3, <3>3 DEF Chained, Follows
    <3>5. /\ y.form = "canonical" /\ y.supported /\ y.sequence = k - 1
          /\ y.prev = PrevHash(written, k) /\ y.hash = Append(y.prev, <<k - 1, y.body>>)
      BY <2>2, <2>3, <3>3 DEF Chained, Follows
    <3>6. i = k /\ x.prev = y.prev
      <4>1. i - 1 = k - 1 /\ x.prev = y.prev
        BY <3>2, <3>3, <3>4, <3>5 DEF SealOf
      <4> QED BY <2>2, <4>1
    <3>7. x.hash = y.hash /\ x.body = y.body
      <4>1. PICK p \in Histories, m \in Nat, c \in Contents, d \in Contents :
              p = x.prev /\ m = i - 1 /\ c = x.body /\ d = y.body
        BY LineFields
      <4>2. PICK h : h = Append(p, <<m, c>>)
        OBVIOUS
      <4>3. x.hash = h /\ h # Null
        BY <3>4, <4>1, <4>2, HistoryGrows
      <4>4. x.hash = y.hash
        BY <3>2, <3>3, <4>3 DEF SealOf
      <4>5. Append(p, <<m, c>>) = Append(p, <<m, d>>)
        BY <3>4, <3>5, <3>6, <4>1, <4>4
      <4>6. c = d
        BY <4>1, <4>5, HistoryTells
      <4> QED BY <4>1, <4>4, <4>6
    <3>8. x.supported = y.supported
      <4>1. x.supported \in BOOLEAN /\ y.supported \in BOOLEAN
        BY LineFields
      <4> QED BY <3>4, <3>5, <4>1
    <3>9. x = y
      BY <3>4, <3>5, <3>6, <3>7, <3>8, LineEqual
    <3> QED BY <3>3, <3>6, <3>9
  <2>5. l <= n
    BY <2>4
  <2>6. SubSeq(written, 1, l) = lines
    <3>1. l \in 0 .. Len(written)
      BY <2>2, <2>5
    <3>2. PICK front \in Files : /\ front = SubSeq(written, 1, l) /\ Len(front) = l
                                 /\ \A i \in 1 .. l : front[i] = written[i]
      BY <2>3, <3>1, TerminalOfPrefix
    <3> QED BY <2>2, <2>3, <2>4, <3>2, SeqEqual DEF Files
  <2>7. SubSeq(lines, 1, l) = lines
    BY <2>2, <2>3, SubSeqFull DEF Files
  <2> QED BY <2>2, <2>5, <2>6, <2>7 DEF IsPrefix
<1> QED BY <1>1, StoredLinesAreKnown, PTL

\* With the record count and the terminal hash of the journal as it was written,
\* verified_journal_snapshot accepts that journal and nothing else, recomputed
\* integrity fields included.
THEOREM AnchorsDetectEverything == Spec => []AnchoredScanDetectsEverything
<1>1. MainInv => AnchoredScanDetectsEverything
  <2>1. SUFFICES ASSUME MainInv
                 PROVE  Scan(lines, Len(written), TerminalHash(written)).ok <=> lines = written
    BY DEF AnchoredScanDetectsEverything
  <2>2. PICK l \in Nat, n \in Nat : l = Len(lines) /\ n = Len(written)
    BY <2>1, FileShape DEF MainInv, TypeOK
  <2>3. lines \in Files /\ written \in Files /\ Chained(written) /\ n <= MaxRecords
    BY <2>1, <2>2 DEF MainInv, TypeOK, WrittenInv
  <2>4. n # Unknown
    BY <2>2, <2>3, BoundsAssumption DEF Unknown
  <2>5. PICK last : last = TerminalHash(written)
    OBVIOUS
  <2>6. last = PrevHash(written, n + 1)
    <3>1. n \in 0 .. Len(written) /\ SubSeq(written, 1, n) = written
      BY <2>2, <2>3, SubSeqFull DEF Files
    <3> QED BY <2>3, <2>5, <3>1, TerminalOfPrefix
  <2>7. PICK scan : scan = Scan(lines, n, last)
    OBVIOUS
  <2>8. /\ Verified(lines, scan.records) /\ scan.lastHash = PrevHash(lines, scan.records + 1)
        /\ scan.ok <=> /\ scan.records = l
                       /\ n \in {Unknown, scan.records}
                       /\ last \in {Null, scan.lastHash}
    BY <2>2, <2>3, <2>7, ScanShape
  <2>9. ASSUME scan.ok PROVE lines = written
    <3>1. l = n /\ Chained(lines)
      BY <2>2, <2>4, <2>8, <2>9 DEF Chained, Verified
    <3>2. n # 0 => lines[n].hash = written[n].hash
      <4>1. SUFFICES ASSUME n # 0 PROVE lines[n].hash = written[n].hash
        OBVIOUS
      <4>2. last = written[n].hash /\ PrevHash(lines, n + 1) = lines[n].hash
        BY <2>6, <4>1 DEF PrevHash
      <4>3. last # Null
        <5>1. PICK y \in Line : y = written[n]
          BY <2>2, <2>3, <4>1, FileShape
        <5>2. PICK p \in Histories, m \in Nat, d \in Contents :
                p = PrevHash(written, n) /\ m = n - 1 /\ d = y.body
          <6>1. n - 1 \in 0 .. Len(written) /\ (n - 1) + 1 = n /\ n - 1 \in Nat
            BY <2>2, <4>1
          <6> QED BY <2>3, <6>1, LineFields, TerminalOfPrefix
        <5>3. y.hash = Append(p, <<m, d>>)
          BY <2>2, <2>3, <4>1, <5>1, <5>2 DEF Chained, Follows
        <5> QED BY <4>2, <5>1, <5>3, HistoryGrows
      <4> QED BY <2>8, <2>9, <3>1, <4>2, <4>3
    <3> QED BY <2>2, <2>3, <3>1, <3>2, EndsTellTheRest
  <2>10. ASSUME lines = written PROVE scan.ok
    <3>1. Verified(lines, n)
      BY <2>2, <2>3, <2>10 DEF Chained, Verified
    <3>2. scan.records = n
      BY <2>3, <2>8, <3>1, VerifiedIsUnique
    <3> QED BY <2>2, <2>6, <2>8, <2>10, <3>2
  <2> QED BY <2>2, <2>5, <2>7, <2>9, <2>10
<1> QED BY <1>1, StoredLinesAreKnown, PTL



----------------------------------------------------------------------------
(***************************************************************************)
(* Contracts.  What the judged lines say is a statement about a sequence   *)
(* of events, of which no two are the same.                                *)
(***************************************************************************)
Sound(file) == file \in Files /\ Distinct(Bodied(file))

LEMMA BodiedShape ==
  ASSUME NEW file \in Files
  PROVE  /\ Bodied(file) \in Seq(Contents)
         /\ DOMAIN file = 1 .. Len(file)
         /\ DOMAIN Bodied(file) = 1 .. Len(file) /\ Len(Bodied(file)) = Len(file)
         /\ Bodied(file) = [i \in 1 .. Len(file) |-> file[i].body]
         /\ \A i \in 1 .. Len(file) : Bodied(file)[i] = file[i].body
<1>1. PICK m \in Nat : m = Len(file) /\ \A i \in 1 .. m : file[i].body \in Contents
  BY FileShape, LineFields
<1>2. DOMAIN file = 1 .. m
  BY <1>1, SequenceShape DEF Files
<1>3. PICK bodies : bodies = [i \in 1 .. m |-> file[i].body] /\ bodies = Bodied(file)
  BY <1>2 DEF Bodied
<1>4. bodies \in Seq(Contents) /\ Len(bodies) = m
  BY <1>1, <1>3
<1> QED BY <1>1, <1>2, <1>3, <1>4

LEMMA SoundLines ==
  ASSUME NEW file \in Files
  PROVE  Sound(file) <=> \A i, j \in 1 .. Len(file) : file[i].body = file[j].body => i = j
BY BodiedShape DEF Sound, Distinct

LEMMA BuiltInStaged ==
  ASSUME NEW i \in DOMAIN BuiltInSequenceRules
  PROVE  \E n : Staged(BuiltInSequenceRules[i], n)
<1>1. i \in 1 .. 5 /\ DOMAIN BuiltInDocuments = 1 .. 5
  BY DEF BuiltInSequenceRules, BuiltInDocuments
<1>2. PICK document : document = BuiltInDocuments[i]
  OBVIOUS
<1>3. PICK n \in Nat : n >= 1 /\ DOMAIN document.stages = 1 .. n
  <2>1. \/ \E a, b : document.stages = <<a, b>>
        \/ \E a : document.stages = <<a>>
    BY <1>1, <1>2 DEF BuiltInDocuments, RuleOf
  <2>2. ASSUME NEW a, NEW b, document.stages = <<a, b>>
        PROVE  DOMAIN document.stages = 1 .. 2
    BY <2>2
  <2>3. ASSUME NEW a, document.stages = <<a>>
        PROVE  DOMAIN document.stages = 1 .. 1
    BY <2>3
  <2>4. PICK n \in 1 .. 2 : DOMAIN document.stages = 1 .. n
    BY <2>1, <2>2, <2>3
  <2>5. n \in Nat /\ n >= 1
    OBVIOUS
  <2> QED BY <2>4, <2>5
<1>4. PICK rule : rule = BuiltInSequenceRules[i] /\ rule = SequenceRuleFromDict(document)
  BY <1>1, <1>2 DEF BuiltInSequenceRules
<1>5. rule.stages = [k \in 1 .. n |->
                       [event_type |-> document.stages[k].event_type,
                        where |-> Default(document.stages[k].where, << >>)]]
  BY <1>3, <1>4 DEF SequenceRuleFromDict
<1>6. DOMAIN rule.stages = 1 .. n /\ Len(rule.stages) = n
  BY <1>5
<1> QED BY <1>3, <1>4, <1>6 DEF Staged

\* The stages of a rule occurred in one of its groups.
Happened(events, id) ==
  \E rule \in Range(BuiltInSequenceRules) :
    /\ rule.rule_id = id
    /\ \E key \in Range(GroupKeys(events, rule.group_by)) :
         Occurrences(OrderedGroup(events, rule.group_by, key), rule) # {}

LEMMA DetectedHappened ==
  ASSUME NEW E, NEW events \in Seq(E), Distinct(events), NEW id \in DetectedRules(events)
  PROVE  Happened(events, id)
<1>1. PICK i \in DOMAIN BuiltInSequenceRules :
             /\ id = BuiltInSequenceRules[i].rule_id
             /\ Matches(events, BuiltInSequenceRules[i])
  BY DEF DetectedRules
<1>2. PICK rule, n : rule = BuiltInSequenceRules[i] /\ Staged(rule, n)
  BY BuiltInStaged
<1>3. PICK all : all = EvaluateSequenceRule(events, rule)
  OBVIOUS
<1>4. all # << >>
  BY <1>1, <1>2, <1>3 DEF Matches
<1>5. PICK q : q \in Range(all)
  BY <1>2, <1>3, <1>4, EvaluateShape
<1>6. ReportsOf(all, events, rule)
  BY <1>2, <1>3, RuleReports
<1>7. PICK e \in Range(events) : q.key = GroupKey(e, rule.group_by)
  BY <1>5, <1>6 DEF ReportsOf
<1>8. Occurs(InGroup(events, rule, q.key), rule, q.events)
  BY <1>5, <1>6 DEF ReportsOf
<1>9. Occurrences(OrderedGroup(events, rule.group_by, q.key), rule) # {}
  BY <1>8 DEF Occurs, InGroup
<1>10. q.key \in Range(GroupKeys(events, rule.group_by))
  <2>1. PICK keys : keys = GroupKeys(events, rule.group_by)
    OBVIOUS
  <2>2. KeysOf(keys, events, rule.group_by)
    BY <2>1, KeysShape
  <2> QED BY <1>7, <2>1, <2>2 DEF KeysOf
<1>11. rule \in Range(BuiltInSequenceRules) /\ rule.rule_id = id
  BY <1>1, <1>2 DEF Range
<1> QED BY <1>9, <1>10, <1>11 DEF Happened

LEMMA LinksAreRecorded ==
  ASSUME NEW events, NEW requirement, LinkViolations(events, requirement) = {}
  PROVE  /\ OfType(events, requirement.event_type) # {}
         /\ \A event \in OfType(events, requirement.event_type) :
              {event.payload["evidence_link.subject_event_id"],
               event.payload["evidence_link.evidence_event_id"]}
                \subseteq {e.id : e \in Range(events)}
<1>1. ASSUME NEW event, NEW field, LinkField(event, field) # Absent
      PROVE  LinkField(event, field) = event.payload[field]
  BY <1>1 DEF LinkField, GetPath
<1>2. ASSUME NEW id, EventById(events, id) # Absent
      PROVE  id \in {e.id : e \in Range(events)}
  BY <1>2 DEF EventById, Range
<1> DEFINE matches == OfType(events, requirement.event_type)
           subject(event) == LinkField(event, "evidence_link.subject_event_id")
           evidence(event) == LinkField(event, "evidence_link.evidence_event_id")
           Of(event) ==
             IF ~HasLink(event) THEN {InEvent("evidence_link_missing", event)}
             ELSE IF Absent \in {subject(event), evidence(event)}
             THEN {InEvent("evidence_link_field_missing", event)}
             ELSE IF Absent \in {EventById(events, subject(event)), EventById(events, evidence(event))}
             THEN {InEvent("evidence_link_reference_missing", event)}
             ELSE LinkTypeViolations(event, requirement, EventById(events, subject(event)),
                                     EventById(events, evidence(event)))
<1>3. LinkViolations(events, requirement) =
        IF matches = {} THEN {InType("evidence_link_event_missing", requirement.event_type)}
        ELSE UNION {Of(event) : event \in matches}
  BY DEF LinkViolations
<1>4. matches # {}
  BY <1>3
<1>5. \A event \in matches : Of(event) = {}
  <2> HIDE DEF Of, matches
  <2> QED BY <1>3, <1>4
<1>6. ASSUME NEW event \in matches
      PROVE  /\ subject(event) # Absent /\ evidence(event) # Absent
             /\ EventById(events, subject(event)) # Absent
             /\ EventById(events, evidence(event)) # Absent
  <2>1. Of(event) = {}
    BY <1>5
  <2> QED BY <2>1
<1> QED BY <1>1, <1>2, <1>4, <1>6


(***************************************************************************)
(* What a contract that passes says of the lines it was judged on, and of  *)
(* the lines of the file at that time.                                     *)
(***************************************************************************)
LinksRecorded(contract, events) ==
  \A i \in DOMAIN contract.evidence_links :
    /\ OfType(events, contract.evidence_links[i].event_type) # {}
    /\ \A event \in OfType(events, contract.evidence_links[i].event_type) :
         {event.payload["evidence_link.subject_event_id"],
          event.payload["evidence_link.evidence_event_id"]}
           \subseteq {e.id : e \in Range(events)}

DetectionsHappened(contract, events) ==
  \A i \in DOMAIN contract.detections :
    contract.detections[i].required => Happened(events, contract.detections[i].rule_id)

ChainHolds(contract, judged, file) ==
  contract.hash_chain => judged = file /\ file = Sealed(Bodied(judged))

LEMMA NothingViolated ==
  ASSUME NEW supplied, NEW contract, NEW detected, NEW verification,
         ValidateContract(supplied, contract, detected, verification) = {}
  PROVE  /\ contract.hash_chain => IntegrityViolations(supplied, verification) = {}
         /\ \A i \in DOMAIN contract.evidence_links :
              LinkViolations(Bodied(supplied), contract.evidence_links[i]) = {}
         /\ \A i \in DOMAIN contract.detections :
              DetectionViolations(Bodied(supplied), detected, contract.detections[i]) = {}
<1> DEFINE events == Bodied(supplied)
           Chain == IF contract.hash_chain THEN IntegrityViolations(supplied, verification) ELSE {}
           Links(i) == LinkViolations(events, contract.evidence_links[i])
           Detections(i) == DetectionViolations(events, detected, contract.detections[i])
           All == UNION {Links(i) : i \in DOMAIN contract.evidence_links}
           AllDetections == UNION {Detections(i) : i \in DOMAIN contract.detections}
<1>1. Chain = {} /\ All = {} /\ AllDetections = {}
  BY DEF ValidateContract
<1>2. \A i \in DOMAIN contract.evidence_links : Links(i) = {}
  <2> HIDE DEF Links, Chain, AllDetections
  <2> QED BY <1>1
<1>3. \A i \in DOMAIN contract.detections : Detections(i) = {}
  <2> HIDE DEF Detections, Chain, All
  <2> QED BY <1>1
<1>4. contract.hash_chain => IntegrityViolations(supplied, verification) = {}
  <2> HIDE DEF All, AllDetections
  <2> QED BY <1>1
<1> QED BY <1>2, <1>3, <1>4

LEMMA PassingSays ==
  ASSUME NEW judged, Sound(judged), NEW contract, NEW detected,
         detected = {} \/ detected = DetectedRules(Bodied(judged)), NEW verification,
         ValidateContract(judged, contract, detected, verification) = {}
  PROVE  /\ contract.hash_chain => IntegrityViolations(judged, verification) = {}
         /\ LinksRecorded(contract, Bodied(judged))
         /\ DetectionsHappened(contract, Bodied(judged))
<1>1. PICK events : events = Bodied(judged) /\ events \in Seq(Contents) /\ Distinct(events)
  BY BodiedShape DEF Sound
<1>2. /\ contract.hash_chain => IntegrityViolations(judged, verification) = {}
      /\ \A i \in DOMAIN contract.evidence_links :
           LinkViolations(events, contract.evidence_links[i]) = {}
      /\ \A i \in DOMAIN contract.detections :
           DetectionViolations(events, detected, contract.detections[i]) = {}
  BY <1>1, NothingViolated
<1>3. LinksRecorded(contract, events)
  BY <1>2, LinksAreRecorded DEF LinksRecorded
<1>4. ASSUME NEW i \in DOMAIN contract.detections, contract.detections[i].required
      PROVE  Happened(events, contract.detections[i].rule_id)
  <2>1. contract.detections[i].rule_id \in detected
    <3>1. PICK requirement : requirement = contract.detections[i]
      OBVIOUS
    <3>2. DetectionViolations(events, detected, requirement) = {} /\ requirement.required
      BY <1>2, <1>4, <3>1
    <3>3. requirement.rule_id \in detected
      BY <3>2 DEF DetectionViolations
    <3> QED BY <3>1, <3>3
  <2>2. contract.detections[i].rule_id \in DetectedRules(events)
    BY <1>1, <2>1
  <2> QED BY <1>1, <2>2, DetectedHappened
<1> QED BY <1>1, <1>2, <1>3, <1>4 DEF DetectionsHappened

LEMMA SealedAsJudged ==
  ASSUME NEW file \in Files, Chained(file)
  PROVE  file = Sealed(Bodied(file))
BY ChainedIsSealed, BodiedShape

\* What was verified is what was supplied, when the counts and the terminal
\* hashes of the two agree.
LEMMA SnapshotIsFile ==
  ASSUME NEW supplied \in Files, Chained(supplied), NEW file \in Files,
         NEW verification \in {Nil, LocalScan(file)},
         IntegrityViolations(supplied, verification) = {}
  PROVE  supplied = file /\ Chained(file)
<1>1. verification # Nil /\ verification.ok
      /\ verification.records = Len(supplied) /\ verification.lastHash = TerminalHash(supplied)
  BY DEF IntegrityViolations
<1>2. verification = LocalScan(file)
  BY <1>1
<1>3. Chained(file)
  BY <1>1, <1>2, OkIsChained
<1>4. PICK n \in Nat, m \in Nat : n = Len(supplied) /\ m = Len(file)
  BY FileShape
<1>5. verification.records = m /\ verification.lastHash = PrevHash(file, m + 1)
  BY <1>1, <1>2, <1>4, ScanShape DEF LocalScan
<1>6. TerminalHash(supplied) = PrevHash(supplied, n + 1)
  <2>1. n \in 0 .. Len(supplied) /\ SubSeq(supplied, 1, n) = supplied
    BY <1>4, SubSeqFull DEF Files
  <2> QED BY <2>1, TerminalOfPrefix
<1>7. n = m /\ PrevHash(supplied, n + 1) = PrevHash(file, n + 1)
  BY <1>1, <1>4, <1>5, <1>6
<1>8. n # 0 => supplied[n].hash = file[n].hash
  BY <1>7 DEF PrevHash
<1> QED BY <1>3, <1>4, <1>7, <1>8, EndsTellTheRest


(***************************************************************************)
(* The invariant: no two lines of the file hold the same event, what a     *)
(* caller holds was verified when it was taken, and a result says what it  *)
(* should.                                                                 *)
(***************************************************************************)
Stands(result) ==
  result \notin {Nil, Bad} /\ result.ok =>
    /\ ChainHolds(result.contract, result.judged, result.file)
    /\ LinksRecorded(result.contract, Bodied(result.judged))
    /\ DetectionsHappened(result.contract, Bodied(result.judged))

ContractInv ==
  /\ Sound(lines)
  /\ held # Nil => Sound(held) /\ Chained(held)
  /\ Stands(verdict)

\* Sealing computes integrity fields and changes no body.
LEMMA SealedIsSound ==
  ASSUME NEW file, Sound(file)
  PROVE  Sound(Sealed(Bodied(file)))
<1>1. PICK bodies : bodies = Bodied(file) /\ bodies \in Seq(Contents) /\ Len(bodies) = Len(file)
                    /\ \A i \in 1 .. Len(file) : bodies[i] = file[i].body
  BY BodiedShape DEF Sound
<1>2. PICK sealed : sealed = Sealed(bodies)
  OBVIOUS
<1>3. sealed \in Files /\ Len(sealed) = Len(file)
      /\ \A i \in 1 .. Len(file) : sealed[i].body = file[i].body
  BY <1>1, <1>2, SealedShape
<1>4. \A i, j \in 1 .. Len(file) : file[i].body = file[j].body => i = j
  BY SoundLines DEF Sound
<1> QED BY <1>1, <1>2, <1>3, <1>4, SoundLines

LEMMA PrefixIsSound ==
  ASSUME NEW file, Sound(file), NEW n \in 0 .. Len(file)
  PROVE  Sound(SubSeq(file, 1, n))
<1>1. file \in Files
  BY DEF Sound
<1>2. PICK front : front = SubSeq(file, 1, n) /\ front \in Files /\ Len(front) = n
                   /\ \A i \in 1 .. n : front[i] = file[i]
  BY <1>1, TerminalOfPrefix
<1>3. \A i \in 1 .. n : i \in 1 .. Len(file)
  BY <1>1, FileShape
<1>4. \A i, j \in 1 .. Len(file) : file[i].body = file[j].body => i = j
  BY <1>1, SoundLines
<1>5. \A i, j \in 1 .. n : front[i].body = front[j].body => i = j
  BY <1>2, <1>3, <1>4
<1> QED BY <1>2, <1>5, SoundLines

LEMMA RecordIsSound ==
  ASSUME NEW file, Sound(file), NEW event \in Recordable \ Range(Bodied(file)),
         NEW new, new = Append(file, Prepared(file, event))
  PROVE  Sound(new)
<1>1. file \in Files /\ event \in Contents
  BY DEF Sound, Contents
<1>2. PICK m \in Nat : m = Len(file)
  BY <1>1, FileShape
<1>3. /\ new \in Files /\ Len(new) = m + 1 /\ new[m + 1].body = event
      /\ \A i \in 1 .. m : new[i] = file[i]
  <2>1. new = Grown(file, event)
    BY DEF Grown
  <2> QED BY <1>1, <1>2, <2>1, GrownShape
<1>4. \A i \in 1 .. m : file[i].body # event
  BY <1>1, <1>2, BodiedShape DEF Range
<1>5. \A i, j \in 1 .. m : file[i].body = file[j].body => i = j
  BY <1>1, <1>2, SoundLines
<1>6. \A i \in 1 .. m + 1 : i = m + 1 \/ i \in 1 .. m
  OBVIOUS
<1>7. \A i, j \in 1 .. m + 1 : new[i].body = new[j].body => i = j
  BY <1>3, <1>4, <1>5, <1>6
<1> QED BY <1>3, <1>7, SoundLines

LEMMA EditIsSound ==
  ASSUME NEW file, Sound(file), NEW i \in DOMAIN file, NEW event \in Recordable \ Range(Bodied(file)),
         NEW new, new = [file EXCEPT ![i].body = event]
  PROVE  Sound(new)
<1>1. file \in Files /\ event \in Contents
  BY DEF Sound, Contents
<1>2. PICK m \in Nat : m = Len(file) /\ i \in 1 .. m
  BY <1>1, FileShape, BodiedShape
<1>3. PICK old \in Line : old = file[i]
  BY <1>1, <1>2, FileShape
<1>4. PICK line \in Line : line = [old EXCEPT !.body = event] /\ line.body = event
  BY <1>1, <1>3 DEF Line
<1>5. new = [file EXCEPT ![i] = line]
  BY <1>3, <1>4
<1>6. /\ new \in Files /\ Len(new) = m
      /\ \A j \in 1 .. m : new[j] = IF j = i THEN line ELSE file[j]
  BY <1>1, <1>2, <1>5, ExceptSeq DEF Files
<1>7. \A j \in 1 .. m : file[j].body # event
  BY <1>1, <1>2, BodiedShape DEF Range
<1>8. \A j, k \in 1 .. m : file[j].body = file[k].body => j = k
  BY <1>1, <1>2, SoundLines
<1>9. \A j, k \in 1 .. m : new[j].body = new[k].body => j = k
  BY <1>4, <1>6, <1>7, <1>8
<1> QED BY <1>6, <1>9, SoundLines

\* The lines that a caller takes are those that the scan verified.
LEMMA TakenIsSound ==
  ASSUME NEW file, Sound(file), NEW taken, taken = SubSeq(file, 1, LocalScan(file).records)
  PROVE  Sound(taken) /\ Chained(taken)
<1>1. file \in Files
  BY DEF Sound
<1>2. PICK n : n = LocalScan(file).records /\ Verified(file, n)
  BY <1>1, ScanShape DEF LocalScan
<1>3. n \in 0 .. Len(file) /\ Len(file) \in Nat
  BY <1>1, <1>2, FileShape DEF Verified
<1>4. /\ taken \in Files /\ Len(taken) = n
      /\ \A i \in 1 .. n : taken[i] = file[i]
  BY <1>1, <1>2, <1>3, TerminalOfPrefix
<1>5. \A i \in 1 .. n : PrevHash(taken, i) = PrevHash(file, i)
  <2>1. \A i \in 1 .. n : i # 1 => i - 1 \in 1 .. n
    BY <1>3
  <2> QED BY <1>4, <2>1 DEF PrevHash
<1>6. \A i \in 1 .. n : Follows(taken, i)
  BY <1>2, <1>4, <1>5 DEF Verified, Follows
<1> QED BY <1>2, <1>3, <1>4, <1>6, PrefixIsSound DEF Chained


LEMMA ContractInvInit == ContractInit => ContractInv
<1>1. SUFFICES ASSUME ContractInit PROVE ContractInv
  OBVIOUS
<1>2. lines = << >> /\ held = Nil /\ verdict = Nil
  BY <1>1 DEF ContractInit, ContractIdle
<1>3. lines \in Files /\ Len(lines) = 0
  BY <1>2, EmptyRange DEF Files
<1> QED BY <1>2, <1>3, SoundLines DEF ContractInv, Stands

LEMMA JudgedStands ==
  ASSUME NEW document, NEW judged, NEW violations, Judge(document, judged, violations),
         violations = {} => /\ ChainHolds(ContractFromDict(document), judged, lines)
                            /\ LinksRecorded(ContractFromDict(document), Bodied(judged))
                            /\ DetectionsHappened(ContractFromDict(document), Bodied(judged))
  PROVE  Stands(verdict')
<1>1. PICK contract : contract = ContractFromDict(document)
  OBVIOUS
<1>2. CASE verdict' = Bad
  BY <1>2 DEF Stands
<1>3. CASE verdict' # Bad
  <2>1. verdict' = [contract |-> contract, judged |-> judged, file |-> lines,
                    ok |-> violations = {}, violations |-> violations]
    BY <1>1, <1>3 DEF Judge
  <2>2. /\ verdict'.contract = contract /\ verdict'.judged = judged /\ verdict'.file = lines
        /\ verdict'.ok = (violations = {})
    BY <2>1
  <2>3. verdict'.ok => violations = {}
    BY <2>2
  <2> QED BY <1>1, <2>2, <2>3 DEF Stands
<1> QED BY <1>2, <1>3

\* The files are read and judged at once: one snapshot.
LEMMA FilesJudged ==
  ASSUME Sound(lines), NEW contract, NEW builtIn,
         ValidateFromFiles(lines, contract, builtIn) = {}
  PROVE  /\ ChainHolds(contract, lines, lines)
         /\ LinksRecorded(contract, Bodied(lines))
         /\ DetectionsHappened(contract, Bodied(lines))
<1>1. LocalScan(lines).ok
  BY DEF ValidateFromFiles
<1>2. PICK detected : /\ detected = {} \/ detected = DetectedRules(Bodied(lines))
                      /\ ValidateContract(lines, contract, detected, LocalScan(lines)) = {}
  BY <1>1 DEF ValidateFromFiles
<1>3. lines = Sealed(Bodied(lines))
  BY <1>1, OkIsChained, SealedAsJudged DEF Sound
<1> QED BY <1>2, <1>3, PassingSays DEF ChainHolds

\* A snapshot that was taken before is judged against a verification made now.
LEMMA HeldJudged ==
  ASSUME Sound(lines), Sound(held), Chained(held), NEW contract,
         NEW verification \in {Nil, LocalScan(lines)},
         ValidateContract(held, contract, DetectedRules(Bodied(held)), verification) = {}
  PROVE  /\ ChainHolds(contract, held, lines)
         /\ LinksRecorded(contract, Bodied(held))
         /\ DetectionsHappened(contract, Bodied(held))
<1>1. PICK detected : detected = DetectedRules(Bodied(held))
  OBVIOUS
<1>2. /\ contract.hash_chain => IntegrityViolations(held, verification) = {}
      /\ LinksRecorded(contract, Bodied(held))
      /\ DetectionsHappened(contract, Bodied(held))
  BY <1>1, PassingSays
<1>3. IntegrityViolations(held, verification) = {} => held = lines /\ Chained(lines)
  BY SnapshotIsFile DEF Sound
<1>4. held = Sealed(Bodied(held))
  BY SealedAsJudged DEF Sound
<1> QED BY <1>2, <1>3, <1>4 DEF ChainHolds

LEMMA ContractInvNext == ContractInv /\ [ContractNext]_<<vars, contractVars>> => ContractInv'
<1>1. SUFFICES ASSUME ContractInv, [ContractNext]_<<vars, contractVars>> PROVE ContractInv'
  OBVIOUS
<1>2. Sound(lines) /\ (held # Nil => Sound(held) /\ Chained(held)) /\ Stands(verdict)
  BY <1>1 DEF ContractInv
<1>3. CASE Record
  <2>1. PICK event \in Recordable \ Range(Bodied(lines)) :
               lines' = Append(lines, Prepared(lines, event))
    BY <1>3 DEF Record
  <2>2. Sound(lines')
    BY <1>2, <2>1, RecordIsSound
  <2>3. held' = held /\ verdict' = verdict
    BY <1>3 DEF Record
  <2> QED BY <1>2, <2>2, <2>3 DEF ContractInv
<1>4. CASE Exchange
  <2>1. held' = held /\ verdict' = verdict
    BY <1>4 DEF Exchange
  <2>2. CASE lines' = Front(lines)
    <3>1. Len(lines) - 1 \in 0 .. Len(lines)
      <4>1. lines \in Files /\ lines # << >>
        BY <1>2, <1>4 DEF Exchange, Sound
      <4>2. Len(lines) \in Nat /\ Len(lines) # 0
        BY <4>1, FileShape, EmptySeq DEF Files
      <4> QED BY <4>2
    <3>2. Sound(lines')
      BY <1>2, <2>2, <3>1, PrefixIsSound DEF Front
    <3> QED BY <1>2, <2>1, <3>2 DEF ContractInv
  <2>3. ASSUME NEW i \in DOMAIN lines, NEW event \in Recordable \ Range(Bodied(lines)),
               NEW edited, edited = [lines EXCEPT ![i].body = event],
               lines' = edited \/ lines' = Sealed(Bodied(edited))
        PROVE  ContractInv'
    <3>1. Sound(edited)
      BY <1>2, <2>3, EditIsSound
    <3>2. Sound(lines')
      BY <2>3, <3>1, SealedIsSound
    <3> QED BY <1>2, <2>1, <3>2 DEF ContractInv
  <2>4. \/ lines' = Front(lines)
        \/ \E i \in DOMAIN lines, event \in Recordable \ Range(Bodied(lines)) :
             \/ lines' = [lines EXCEPT ![i].body = event]
             \/ lines' = Sealed(Bodied([lines EXCEPT ![i].body = event]))
    BY <1>4 DEF Exchange, Change
  <2> QED BY <2>2, <2>3, <2>4
<1>5. CASE TakeSnapshot
  <2>1. /\ held' = SubSeq(lines, 1, LocalScan(lines).records)
        /\ lines' = lines /\ verdict' = verdict
    BY <1>5 DEF TakeSnapshot
  <2>2. Sound(held') /\ Chained(held')
    BY <1>2, <2>1, TakenIsSound
  <2> QED BY <1>2, <2>1, <2>2 DEF ContractInv
<1>6. CASE ValidateFiles
  <2>1. PICK document \in Contracts, builtIn \in BOOLEAN :
          Judge(document, lines, ValidateFromFiles(lines, ContractFromDict(document), builtIn))
    BY <1>6 DEF ValidateFiles
  <2>2. lines' = lines /\ held' = held
    BY <2>1 DEF Judge
  <2>3. PICK contract, violations :
          /\ contract = ContractFromDict(document)
          /\ violations = ValidateFromFiles(lines, contract, builtIn)
    OBVIOUS
  <2>4. violations = {} => /\ ChainHolds(contract, lines, lines)
                           /\ LinksRecorded(contract, Bodied(lines))
                           /\ DetectionsHappened(contract, Bodied(lines))
    BY <1>2, <2>3, FilesJudged
  <2>5. Stands(verdict')
    BY <2>1, <2>3, <2>4, JudgedStands
  <2> QED BY <1>2, <2>2, <2>5 DEF ContractInv
<1>7. CASE ValidateHeld
  <2>1. PICK document \in Contracts, verification \in {Nil, LocalScan(lines)} :
          Judge(document, held,
                ValidateContract(held, ContractFromDict(document),
                                 DetectedRules(Bodied(held)), verification))
    BY <1>7 DEF ValidateHeld
  <2>2. held # Nil
    BY <1>7 DEF ValidateHeld
  <2>3. lines' = lines /\ held' = held
    BY <2>1 DEF Judge
  <2>4. PICK contract, violations :
          /\ contract = ContractFromDict(document)
          /\ violations = ValidateContract(held, contract, DetectedRules(Bodied(held)), verification)
    OBVIOUS
  <2>5. violations = {} => /\ ChainHolds(contract, held, lines)
                           /\ LinksRecorded(contract, Bodied(held))
                           /\ DetectionsHappened(contract, Bodied(held))
    BY <1>2, <2>2, <2>4, HeldJudged
  <2>6. Stands(verdict')
    BY <2>1, <2>4, <2>5, JudgedStands
  <2> QED BY <1>2, <2>3, <2>6 DEF ContractInv
<1>8. CASE UNCHANGED <<vars, contractVars>>
  <2>1. lines' = lines /\ held' = held /\ verdict' = verdict
    BY <1>8 DEF vars, contractVars
  <2> QED BY <1>2, <2>1 DEF ContractInv
<1> QED BY <1>1, <1>3, <1>4, <1>5, <1>6, <1>7, <1>8 DEF ContractNext

\* A contract that validate_contract passes, over files or over a snapshot taken
\* before, is what PassedContractsHold says: the hash chain it asks for is the
\* whole file's, its links lead to recorded events, its detections happened.
THEOREM PassedContractsAreTrue == ContractSpec => []PassedContractsHold
<1>1. ContractInv => PassedContractsHold
  <2>1. SUFFICES ASSUME Stands(verdict) PROVE PassedContractsHold
    BY DEF ContractInv
  <2> QED BY <2>1 DEF Stands, ChainHolds, LinksRecorded, DetectionsHappened, Happened,
                      PassedContractsHold
<1> QED BY <1>1, ContractInvInit, ContractInvNext, PTL DEF ContractSpec
================================================================================
