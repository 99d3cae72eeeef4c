--------------------------- MODULE McpRuntimeProofs ---------------------------
(***************************************************************************)
(* Proofs about McpRuntime, for any sessions, decisions, requests and      *)
(* approvals and any number of calls and processes, and about Observation, *)
(* for any calls, expectations, declarations and sensors.                  *)
(***************************************************************************)
EXTENDS McpRuntime, Observation, SequenceTheorems, FiniteSetTheorems, TLAPS

----------------------------------------------------------------------------
(***************************************************************************)
(* Types.                                                                  *)
(***************************************************************************)
Ids == Sessions \X Nat \X Nat

EventTypes == {"requested", "decision", "authorized", "dispatched", "not_dispatched",
               "degraded", "acknowledged"}

Events == [type : EventTypes, call : Nat, id : Ids, parent : Ids \cup {Null}]

Answers == [kind : {"none", "result", "error"}, ack : Ids \cup {Null}]

CallRecords ==
  [session : Sessions, life : Nat, decision : Decisions, request : Requests,
   approval : Artifacts \cup {Null}, accepted : BOOLEAN, ran : BOOLEAN, told : Answers]

Nonces == {a.nonce : a \in Artifacts}

TypeOK ==
  /\ journal \in Seq(Events)
  /\ torn \in BOOLEAN
  /\ now \in Nat
  /\ pc \in [Sessions -> {"closed", "ready", "record", "call", "acknowledge"}]
  /\ life \in [Sessions -> Nat]
  /\ sequence \in [Sessions -> Nat]
  /\ lastEvent \in [Sessions -> Ids \cup {Null}]
  /\ used \in [Sessions -> SUBSET Nonces]
  /\ current \in [Sessions -> Nat]
  /\ todo \in [Sessions -> Seq(EventTypes)]
  /\ calls \in Seq(CallRecords)

----------------------------------------------------------------------------
(***************************************************************************)
(* Approvals.  A nonce that let a call of a living process through is in   *)
(* the process's replay cache.                                             *)
(***************************************************************************)
SpentInv ==
  \A c \in 1 .. Len(calls) :
    /\ calls[c].accepted => calls[c].approval \in Artifacts
    /\ calls[c].life <= life[calls[c].session]
    /\ /\ calls[c].accepted
       /\ calls[c].life = life[calls[c].session]
       /\ pc[calls[c].session] # "closed"
       => calls[c].approval.nonce \in used[calls[c].session]

(***************************************************************************)
(* Numbering.  An event's number is its place in the journal, and a        *)
(* session's last event has the number before its next one.  The events of *)
(* a session from that number on are of the process that runs it.          *)
(***************************************************************************)
OldLength(s) == IF lastEvent[s] = Null THEN sequence[s] ELSE sequence[s] - 1

NumberInv ==
  /\ \A n \in Positions :
       /\ journal[n].id[3] = n - 1
       /\ \A s \in Sessions :
            journal[n].id[1] = s /\ pc[s] # "closed" /\ n > OldLength(s)
              => journal[n].id[2] = life[s]
  /\ \A s \in Sessions :
       pc[s] # "closed" /\ lastEvent[s] # Null
         => sequence[s] >= 1 /\ lastEvent[s] = <<s, life[s], sequence[s] - 1>>

(***************************************************************************)
(* Calls.  A session executes one call, whose plan is recorded up to what  *)
(* is still to do; a call whose tool ran, or whose caller was told a       *)
(* result, is recorded as far as that needs.                               *)
(***************************************************************************)
Executing(s) == pc[s] \in {"record", "call", "acknowledge"}

ExecutingInv ==
  \A s \in Sessions : Executing(s) =>
    /\ current[s] \in 1 .. Len(calls)
    /\ calls[current[s]].session = s
    /\ calls[current[s]].life = life[s]
    /\ calls[current[s]].told = Pending
    /\ calls[current[s]].ran <=> pc[s] = "acknowledge"
    /\ pc[s] # "record" => Dispatches(calls[current[s]])

Missing(s) == Len(PlanOf(calls[current[s]])) - Len(todo[s])

ProgressInv ==
  \A s \in Sessions : Executing(s) =>
    /\ Len(todo[s]) <= Len(PlanOf(calls[current[s]]))
    /\ Cardinality(Recorded(current[s])) = Missing(s)
    /\ \A i \in 1 .. Len(todo[s]) :
         todo[s][i] = PlanOf(calls[current[s]])[Missing(s) + i]

PlacesInv ==
  /\ \A n \in Positions : journal[n].call \in 1 .. Len(calls)
  /\ \A c \in 1 .. Len(calls) : \A i \in 1 .. Cardinality(Recorded(c)) :
       \E n \in Recorded(c) : Place(n) = i

RanIsRecorded(c) ==
  calls[c].ran => /\ Dispatches(calls[c])
                  /\ Cardinality(Recorded(c)) >= Len(PlanOf(calls[c]))

UntoldIsExecuting(c) ==
  /\ calls[c].told.kind = "none"
  /\ calls[c].life = life[calls[c].session]
  /\ pc[calls[c].session] # "closed"
  => Executing(calls[c].session) /\ current[calls[c].session] = c

ToldIsRecorded(c) ==
  calls[c].told.kind = "result" =>
    /\ Cardinality(Recorded(c)) = Len(Lifecycle(calls[c]))
    /\ calls[c].ran <=> Dispatches(calls[c])
    /\ IF calls[c].ran THEN \E n \in Positions : journal[n].id = calls[c].told.ack
                       ELSE calls[c].told.ack = Null

HistoryInv ==
  \A c \in 1 .. Len(calls) : RanIsRecorded(c) /\ UntoldIsExecuting(c) /\ ToldIsRecorded(c)

----------------------------------------------------------------------------
\* What a plan holds: it says whether the call was dispatched, and it does not
\* acknowledge anything.
LEMMA PlanShape ==
  ASSUME NEW call \in CallRecords
  PROVE  /\ PlanOf(call) \in Seq(EventTypes)
         /\ Len(PlanOf(call)) \in {3, 4, 5}
         /\ \A i \in 1 .. Len(PlanOf(call)) : PlanOf(call)[i] # "acknowledged"
         /\ Dispatches(call) => /\ Len(PlanOf(call)) >= 4 /\ PlanOf(call)[3] = "authorized"
                                /\ \A i \in 1 .. Len(PlanOf(call)) :
                                     PlanOf(call)[i] # "not_dispatched"
         /\ ~Dispatches(call) => PlanOf(call)[3] = "not_dispatched"
<1> DEFINE first  == <<"requested", "decision">>
           middle == IF Dispatches(call) THEN <<"authorized", "dispatched">>
                                         ELSE <<"not_dispatched">>
           last   == IF call.decision.outcome = "error" THEN <<"degraded">> ELSE << >>
<1>1. PlanOf(call) = first \o middle \o last
  BY DEF PlanOf, Plan, Dispatches
<1>0. {"requested", "decision", "authorized", "dispatched", "not_dispatched", "degraded"}
        \subseteq EventTypes
  BY DEF EventTypes
<1>2. /\ first \in Seq(EventTypes) /\ Len(first) = 2
      /\ first[1] = "requested" /\ first[2] = "decision"
  BY <1>0
<1>3. /\ middle \in Seq(EventTypes)
      /\ Dispatches(call) =>
           Len(middle) = 2 /\ middle[1] = "authorized" /\ middle[2] = "dispatched"
      /\ ~Dispatches(call) => Len(middle) = 1 /\ middle[1] = "not_dispatched"
  <2>1. CASE Dispatches(call)
    <3>1. middle = <<"authorized", "dispatched">>
      BY <2>1
    <3> HIDE DEF middle
    <3> QED BY <1>0, <2>1, <3>1
  <2>2. CASE ~Dispatches(call)
    <3>1. middle = <<"not_dispatched">>
      BY <2>2
    <3> HIDE DEF middle
    <3> QED BY <1>0, <2>2, <3>1
  <2> QED BY <2>1, <2>2
<1>4. /\ last \in Seq(EventTypes) /\ Len(last) \in {0, 1}
      /\ Len(last) = 1 => last[1] = "degraded"
  <2>1. CASE call.decision.outcome = "error"
    <3>1. last = <<"degraded">>
      BY <2>1
    <3> HIDE DEF last
    <3> QED BY <1>0, <3>1
  <2>2. CASE call.decision.outcome # "error"
    <3>1. last = << >>
      BY <2>2
    <3> HIDE DEF last
    <3> QED BY <3>1, EmptySeq
  <2> QED BY <2>1, <2>2
<1> HIDE DEF first, middle, last
<1>5. /\ first \o middle \in Seq(EventTypes) /\ Len(first \o middle) = 2 + Len(middle)
      /\ \A i \in 1 .. 2 + Len(middle) :
           (first \o middle)[i] = IF i <= 2 THEN first[i] ELSE middle[i - 2]
  <2>1. /\ first \o middle \in Seq(EventTypes)
        /\ Len(first \o middle) = Len(first) + Len(middle)
        /\ \A i \in 1 .. Len(first) + Len(middle) :
             (first \o middle)[i] = IF i <= Len(first) THEN first[i] ELSE middle[i - Len(first)]
    BY <1>2, <1>3, ConcatProperties
  <2> QED BY <1>2, <2>1
<1>6. /\ PlanOf(call) \in Seq(EventTypes)
      /\ Len(PlanOf(call)) = 2 + Len(middle) + Len(last)
      /\ \A i \in 1 .. Len(PlanOf(call)) :
           PlanOf(call)[i] = IF i <= 2 THEN first[i]
                             ELSE IF i <= 2 + Len(middle) THEN middle[i - 2]
                             ELSE last[i - 2 - Len(middle)]
  <2>1. /\ (first \o middle) \o last \in Seq(EventTypes)
        /\ Len((first \o middle) \o last) = 2 + Len(middle) + Len(last)
        /\ \A i \in 1 .. 2 + Len(middle) + Len(last) :
             ((first \o middle) \o last)[i] =
               IF i <= 2 + Len(middle) THEN (first \o middle)[i]
                                       ELSE last[i - (2 + Len(middle))]
    BY <1>4, <1>5, ConcatProperties
  <2> QED BY <1>1, <1>3, <1>4, <1>5, <2>1
<1>a. PICK a \in {1, 2} : a = Len(middle)
  BY <1>3
<1>b. PICK b \in {0, 1} : b = Len(last)
  BY <1>4
<1>c. Len(PlanOf(call)) = 2 + a + b
  BY <1>6, <1>a, <1>b
<1>d. PlanOf(call)[3] = middle[1]
  BY <1>6, <1>a, <1>c
<1>7. ASSUME NEW i \in 1 .. Len(PlanOf(call))
      PROVE  PlanOf(call)[i] \in {"requested", "decision", "degraded"} \cup
               (IF Dispatches(call) THEN {"authorized", "dispatched"} ELSE {"not_dispatched"})
  <2>0. i \in 1 .. 2 + a + b
    BY <1>c
  <2>1. CASE i \in {1, 2}
    BY <1>2, <1>6, <2>1
  <2>2. CASE i = 3
    BY <1>3, <1>d, <2>2
  <2>4. CASE i = 4 /\ a = 2
    <3>1. PlanOf(call)[4] = middle[2]
      BY <1>6, <1>a, <1>c, <2>4
    <3> QED BY <1>3, <1>a, <2>4, <3>1
  <2>3. CASE i = 3 + a /\ b = 1
    <3>1. ~(i <= 2) /\ ~(i <= 2 + a) /\ i - 2 - a = 1
      BY <2>0, <2>3
    <3>2. PlanOf(call)[i] = last[i - 2 - a]
      BY <1>6, <1>a, <3>1
    <3> QED BY <1>4, <1>b, <2>3, <3>1, <3>2
  <2> QED BY <2>0, <2>1, <2>2, <2>3, <2>4
<1>8. Len(PlanOf(call)) \in {3, 4, 5} /\ (Dispatches(call) => Len(PlanOf(call)) >= 4)
  <2>1. Dispatches(call) => a = 2
    BY <1>3, <1>a
  <2> QED BY <1>c, <2>1
<1> QED BY <1>3, <1>6, <1>7, <1>8, <1>d

----------------------------------------------------------------------------
(***************************************************************************)
(* Steps of one session.                                                   *)
(***************************************************************************)
Act(s) ==
  \/ Open(s) \/ BeginCall(s) \/ Record(s) \/ RecordFails(s) \/ CallDownstream(s)
  \/ Acknowledge(s) \/ AcknowledgeFails(s) \/ Crash(s)

\* The event a session is about to append.
Due(s) == IF pc[s] = "record" THEN Head(todo[s]) ELSE "acknowledged"

Appends(s) ==
  /\ pc[s] \in {"record", "acknowledge"}
  /\ InSequence(s)
  /\ journal' = Append(journal, Event(s, Due(s)))

TodoInv == \A s \in Sessions : todo[s] # << >> <=> pc[s] = "record"

OthersAlone(s) ==
  \A d \in Sessions \ {s} :
    /\ pc'[d] = pc[d] /\ life'[d] = life[d] /\ sequence'[d] = sequence[d]
    /\ lastEvent'[d] = lastEvent[d] /\ used'[d] = used[d]
    /\ current'[d] = current[d] /\ todo'[d] = todo[d]

\* Of a call nothing changes but that its tool ran and what its caller was told.
SameCall(a, b) ==
  /\ a.session = b.session /\ a.life = b.life /\ a.decision = b.decision
  /\ a.approval = b.approval /\ a.accepted = b.accepted

LEMMA JournalSteps ==
  ASSUME NEW s \in Sessions, Act(s)
  PROVE  UNCHANGED journal \/ Appends(s)
<1>1. CASE Open(s) \/ BeginCall(s) \/ CallDownstream(s)
  BY <1>1 DEF Open, BeginCall, CallDownstream
<1>2. CASE Record(s) \/ Acknowledge(s)
  BY <1>2 DEF Record, Acknowledge, Commit, Appends, Due
<1>3. CASE RecordFails(s) \/ AcknowledgeFails(s)
  BY <1>3 DEF RecordFails, AcknowledgeFails, Fail, Appends, Due
<1>4. CASE Crash(s)
  BY <1>4 DEF Crash, Appends, Due
<1> QED BY <1>1, <1>2, <1>3, <1>4 DEF Act

LEMMA OthersSteps ==
  ASSUME TypeOK, NEW s \in Sessions, Act(s)
  PROVE  OthersAlone(s)
<1> USE DEF TypeOK, OthersAlone, Goto, Normalize
<1>1. CASE Open(s)
  BY <1>1 DEF Open
<1>2. CASE BeginCall(s)
  BY <1>2 DEF BeginCall, Claim
<1>3. CASE Record(s)
  <2>1. \A d \in Sessions \ {s} : pc'[d] = pc[d] /\ todo'[d] = todo[d]
    BY <1>3 DEF Record, Proceed, Tell
  <2> QED BY <1>3, <2>1 DEF Record, Commit
<1>4. CASE RecordFails(s)
  BY <1>4 DEF RecordFails, Fail, Tell
<1>5. CASE CallDownstream(s)
  BY <1>5 DEF CallDownstream
<1>6. CASE Acknowledge(s)
  BY <1>6 DEF Acknowledge, Commit, Tell
<1>7. CASE AcknowledgeFails(s)
  BY <1>7 DEF AcknowledgeFails, Fail, Tell
<1>8. CASE Crash(s)
  BY <1>8 DEF Crash
<1> QED BY <1>1, <1>2, <1>3, <1>4, <1>5, <1>6, <1>7, <1>8 DEF Act

\* The event a session appends.
LEMMA EventShape ==
  ASSUME TypeOK, TodoInv, NEW s \in Sessions, pc[s] \in {"record", "acknowledge"}
  PROVE  /\ Due(s) \in EventTypes /\ EventId(s) \in Ids /\ Event(s, Due(s)) \in Events
         /\ EventId(s) = <<s, life[s], sequence[s]>>
         /\ Event(s, Due(s)).type = Due(s) /\ Event(s, Due(s)).call = current[s]
         /\ Event(s, Due(s)).id = EventId(s) /\ Event(s, Due(s)).parent = lastEvent[s]
<1>1. Due(s) \in EventTypes
  <2>1. CASE pc[s] = "record"
    <3>1. todo[s] \in Seq(EventTypes) /\ todo[s] # << >>
      BY <2>1 DEF TypeOK, TodoInv
    <3> QED BY <2>1, <3>1, HeadTailProperties DEF Due
  <2>2. CASE pc[s] # "record"
    BY <2>2 DEF Due, EventTypes
  <2> QED BY <2>1, <2>2
<1>2. EventId(s) \in Ids
  BY DEF EventId, Ids, TypeOK
<1> QED BY <1>1, <1>2 DEF Event, Events, EventId, TypeOK

\* The journal after an append.
LEMMA AppendedPositions ==
  ASSUME TypeOK, TodoInv, NEW s \in Sessions, Appends(s)
  PROVE  /\ Len(journal) \in Nat /\ Len(journal') = Len(journal) + 1
         /\ journal' \in Seq(Events)
         /\ Positions' = Positions \cup {Len(journal) + 1}
         /\ \A n \in Positions : journal'[n] = journal[n]
         /\ journal'[Len(journal) + 1] = Event(s, Due(s))
         /\ sequence[s] = Len(journal)
<1>1. journal \in Seq(Events) /\ Len(journal) \in Nat
  BY LenProperties DEF TypeOK
<1>2. Event(s, Due(s)) \in Events /\ journal' = Append(journal, Event(s, Due(s)))
  BY EventShape DEF Appends
<1>3. /\ journal' \in Seq(Events) /\ Len(journal') = Len(journal) + 1
      /\ \A n \in 1 .. Len(journal) : journal'[n] = journal[n]
      /\ journal'[Len(journal) + 1] = Event(s, Due(s))
  BY <1>1, <1>2, AppendProperties
<1> QED BY <1>1, <1>3 DEF Positions, Appends, InSequence

----------------------------------------------------------------------------
(***************************************************************************)
(* What the steps do to the calls.                                         *)
(***************************************************************************)
Answer(kind, ack) == [kind |-> kind, ack |-> ack]

LEMMA TellShape ==
  ASSUME TypeOK, NEW s \in Sessions, current[s] \in 1 .. Len(calls),
         NEW kind \in {"result", "error"}, NEW ack \in Ids \cup {Null}, Tell(s, kind, ack)
  PROVE  /\ calls' \in Seq(CallRecords) /\ Len(calls') = Len(calls)
         /\ \A c \in 1 .. Len(calls) \ {current[s]} : calls'[c] = calls[c]
         /\ calls'[current[s]] = [calls[current[s]] EXCEPT !.told = Answer(kind, ack)]
         /\ pc'[s] = "ready"
<1> DEFINE call == [calls[current[s]] EXCEPT !.told = Answer(kind, ack)]
<1>1. calls \in Seq(CallRecords) /\ calls[current[s]] \in CallRecords
  BY ElementOfSeq DEF TypeOK
<1>2. call \in CallRecords
  BY <1>1 DEF CallRecords, Answers, Answer
<1>3. calls' = [calls EXCEPT ![current[s]] = call] /\ pc'[s] = "ready"
  BY DEF Tell, Answer, Goto, TypeOK
<1> HIDE DEF call
<1>4. /\ calls' \in Seq(CallRecords) /\ Len(calls') = Len(calls)
      /\ \A c \in 1 .. Len(calls) : calls'[c] = IF c = current[s] THEN call ELSE calls[c]
  BY <1>1, <1>2, <1>3, ExceptSeq
<1> QED BY <1>3, <1>4 DEF call

LEMMA RanShape ==
  ASSUME TypeOK, NEW s \in Sessions, current[s] \in 1 .. Len(calls), CallDownstream(s)
  PROVE  /\ calls' \in Seq(CallRecords) /\ Len(calls') = Len(calls)
         /\ \A c \in 1 .. Len(calls) \ {current[s]} : calls'[c] = calls[c]
         /\ calls'[current[s]] = [calls[current[s]] EXCEPT !.ran = TRUE]
         /\ pc'[s] = "acknowledge"
<1> DEFINE call == [calls[current[s]] EXCEPT !.ran = TRUE]
<1>1. calls \in Seq(CallRecords) /\ calls[current[s]] \in CallRecords
  BY ElementOfSeq DEF TypeOK
<1>2. call \in CallRecords
  BY <1>1 DEF CallRecords
<1>3. calls' = [calls EXCEPT ![current[s]] = call] /\ pc'[s] = "acknowledge"
  BY DEF CallDownstream, Goto, TypeOK
<1> HIDE DEF call
<1>4. /\ calls' \in Seq(CallRecords) /\ Len(calls') = Len(calls)
      /\ \A c \in 1 .. Len(calls) : calls'[c] = IF c = current[s] THEN call ELSE calls[c]
  BY <1>1, <1>2, <1>3, ExceptSeq
<1> QED BY <1>3, <1>4 DEF call

\* A call begins with its whole plan to do, nothing recorded and nothing told.
LEMMA BeginShape ==
  ASSUME TypeOK, NEW s \in Sessions, BeginCall(s)
  PROVE  \E policy \in Decisions, request \in Requests, approval \in Artifacts \cup {Null} :
           LET accepted == approval # Null /\ Accepts(s, approval, request)
               call     == NewCall(s, policy, request, approval, accepted)
           IN  /\ IF approval = Null THEN UNCHANGED used ELSE Claim(s, approval, request)
               /\ call \in CallRecords /\ accepted \in BOOLEAN
               /\ calls' \in Seq(CallRecords) /\ Len(calls) \in Nat
               /\ Len(calls') = Len(calls) + 1 /\ calls'[Len(calls) + 1] = call
               /\ \A c \in 1 .. Len(calls) : calls'[c] = calls[c]
               /\ todo'[s] = PlanOf(call) /\ current'[s] = Len(calls) + 1
               /\ pc[s] = "ready" /\ pc'[s] = "record"
<1>1. PICK policy \in Decisions, request \in Requests, approval \in Artifacts \cup {Null} :
        LET accepted == approval # Null /\ Accepts(s, approval, request)
        IN  /\ IF approval = Null THEN UNCHANGED used ELSE Claim(s, approval, request)
            /\ calls' = Append(calls, NewCall(s, policy, request, approval, accepted))
            /\ todo' = [todo EXCEPT ![s] = Plan(policy, accepted)]
  BY DEF BeginCall
<1> DEFINE accepted == approval # Null /\ Accepts(s, approval, request)
           call     == NewCall(s, policy, request, approval, accepted)
<1>2. /\ calls' = Append(calls, call) /\ todo' = [todo EXCEPT ![s] = Plan(policy, accepted)]
      /\ IF approval = Null THEN UNCHANGED used ELSE Claim(s, approval, request)
  BY <1>1
<1>3. accepted \in BOOLEAN
  BY DEF Accepts
<1> HIDE DEF accepted
<1>4. call \in CallRecords /\ PlanOf(call) = Plan(policy, accepted)
  <2>1. Pending \in Answers
    BY DEF Pending, Answers
  <2> QED BY <1>3, <2>1 DEF NewCall, CallRecords, PlanOf, TypeOK
<1> HIDE DEF call
<1>5. /\ calls' \in Seq(CallRecords) /\ Len(calls) \in Nat
      /\ Len(calls') = Len(calls) + 1 /\ calls'[Len(calls) + 1] = call
      /\ \A c \in 1 .. Len(calls) : calls'[c] = calls[c]
  BY <1>2, <1>4, AppendProperties, LenProperties DEF TypeOK
<1>6. /\ todo'[s] = PlanOf(call) /\ current'[s] = Len(calls) + 1
      /\ pc[s] = "ready" /\ pc'[s] = "record"
  BY <1>2, <1>4 DEF BeginCall, Goto, TypeOK
<1> QED BY <1>2, <1>3, <1>4, <1>5, <1>6 DEF accepted, call

\* A recorded event is the head of what is to do: the rest is to do next, or
\* the tool is called, or the caller hears that it was not dispatched.
LEMMA RecordShape ==
  ASSUME TypeOK, TodoInv, NEW s \in Sessions, Record(s)
  PROVE  /\ pc[s] = "record" /\ Appends(s) /\ Normalize(s) /\ UNCHANGED <<life, used, current>>
         /\ todo[s] \in Seq(EventTypes) /\ todo[s] # << >> /\ todo'[s] = Tail(todo[s])
         /\ \/ Len(todo[s]) # 1 /\ UNCHANGED <<pc, calls>>
            \/ /\ Len(todo[s]) = 1 /\ Dispatches(calls[current[s]])
               /\ pc'[s] = "call" /\ UNCHANGED calls
            \/ /\ Len(todo[s]) = 1 /\ ~Dispatches(calls[current[s]])
               /\ Tell(s, "result", Null)
<1>1. pc[s] = "record" /\ Commit(s, Head(todo[s])) /\ Proceed(s) /\ UNCHANGED <<life, used, current>>
  BY DEF Record
<1>2. todo[s] \in Seq(EventTypes) /\ todo[s] # << >>
  BY <1>1 DEF TypeOK, TodoInv
<1>4. Appends(s) /\ Normalize(s)
  BY <1>1 DEF Commit, Appends, Due
<1>5. todo'[s] = Tail(todo[s])
  BY <1>1 DEF Proceed, TypeOK
<1>6. Len(todo[s]) > 1 => Len(todo[s]) # 1
  <2>1. PICK length \in Nat : length = Len(todo[s])
    BY <1>2, LenProperties
  <2>2. length > 1 => length # 1
    OBVIOUS
  <2> QED BY <2>1, <2>2
<1> QED BY <1>1, <1>2, <1>4, <1>5, <1>6 DEF Proceed, Goto, TypeOK

LEMMA ActTypeOK ==
  ASSUME TypeOK, TodoInv, ExecutingInv, NEW s \in Sessions, Act(s)
  PROVE  TypeOK'
<1>1. journal' \in Seq(Events)
  BY JournalSteps, AppendedPositions DEF TypeOK
<1>2. EventId(s) \in Ids /\ sequence[s] + 1 \in Nat /\ life[s] + 1 \in Nat /\ Len(journal) \in Nat
  BY LenProperties DEF TypeOK, EventId, Ids
<1>3. Normalize(s) => sequence' \in [Sessions -> Nat] /\ lastEvent' \in [Sessions -> Ids \cup {Null}]
  BY <1>2 DEF Normalize, TypeOK
<1>4. Executing(s) => current[s] \in 1 .. Len(calls)
  BY DEF ExecutingInv
<1>5. << >> \in Seq(EventTypes)
  BY EmptySeq
<1> USE <1>1
<1>6. CASE Open(s)
  BY <1>2, <1>6 DEF Open, TypeOK, Goto
<1>7. CASE BeginCall(s)
  <2>1. PICK policy \in Decisions, request \in Requests, approval \in Artifacts \cup {Null} :
          /\ IF approval = Null THEN UNCHANGED used ELSE Claim(s, approval, request)
          /\ \E a \in BOOLEAN : todo' = [todo EXCEPT ![s] = Plan(policy, a)]
    BY <1>7 DEF BeginCall, Accepts
  <2>2. used' \in [Sessions -> SUBSET Nonces]
    <3>1. CASE approval = Null
      BY <2>1, <3>1 DEF TypeOK
    <3>2. CASE approval \in Artifacts /\ Claim(s, approval, request)
      <4>1. approval.nonce \in Nonces /\ used[s] \subseteq Nonces
        BY <3>2 DEF Nonces, TypeOK
      <4> QED BY <3>2, <4>1 DEF Claim, TypeOK
    <3> QED BY <2>1, <3>1, <3>2
  <2>3. calls' \in Seq(CallRecords) /\ todo'[s] \in Seq(EventTypes) /\ current'[s] \in Nat
    <3>1. calls' \in Seq(CallRecords) /\ current'[s] \in Nat
      BY <1>7, BeginShape
    <3>2. \E call \in CallRecords : todo'[s] = PlanOf(call)
      BY <1>7, BeginShape
    <3> QED BY <3>1, <3>2, PlanShape
  <2>4. todo' \in [Sessions -> Seq(EventTypes)]
    BY <2>1, <2>3 DEF TypeOK
  <2>5. current' \in [Sessions -> Nat]
    BY <1>7, <2>3 DEF BeginCall, TypeOK
  <2> QED BY <1>7, <2>2, <2>3, <2>4, <2>5 DEF BeginCall, TypeOK, Goto
<1>8. CASE Record(s)
  <2>1. Tail(todo[s]) \in Seq(EventTypes)
    BY <1>8, RecordShape, HeadTailProperties
  <2>2. todo' \in [Sessions -> Seq(EventTypes)]
    BY <1>8, <2>1 DEF Record, Proceed, TypeOK
  <2>3. calls' \in Seq(CallRecords)
    BY <1>4, <1>8, RecordShape, TellShape DEF TypeOK, Executing
  <2>4. pc' \in [Sessions -> {"closed", "ready", "record", "call", "acknowledge"}]
    BY <1>8 DEF Record, Proceed, Tell, Goto, TypeOK
  <2> QED BY <1>3, <1>8, <2>2, <2>3, <2>4 DEF Record, Commit, TypeOK
<1>9. CASE RecordFails(s)
  <2>1. calls' \in Seq(CallRecords)
    BY <1>4, <1>9, TellShape DEF RecordFails, Executing
  <2>2. torn' \in BOOLEAN
    BY <1>9 DEF RecordFails, Fail, TypeOK
  <2> QED BY <1>3, <1>5, <1>9, <2>1, <2>2 DEF RecordFails, Fail, Tell, Goto, TypeOK
<1>10. CASE CallDownstream(s)
  <2>1. calls' \in Seq(CallRecords)
    BY <1>4, <1>10, RanShape DEF CallDownstream, Executing
  <2> QED BY <1>10, <2>1 DEF CallDownstream, Goto, TypeOK
<1>11. CASE Acknowledge(s)
  <2>1. calls' \in Seq(CallRecords)
    BY <1>2, <1>4, <1>11, TellShape DEF Acknowledge, Executing
  <2> QED BY <1>3, <1>11, <2>1 DEF Acknowledge, Commit, Tell, Goto, TypeOK
<1>12. CASE AcknowledgeFails(s)
  <2>1. calls' \in Seq(CallRecords)
    BY <1>4, <1>12, TellShape DEF AcknowledgeFails, Executing
  <2>2. torn' \in BOOLEAN
    BY <1>12 DEF AcknowledgeFails, Fail, TypeOK
  <2> QED BY <1>3, <1>12, <2>1, <2>2 DEF AcknowledgeFails, Fail, Tell, Goto, TypeOK
<1>13. CASE Crash(s)
  <2>1. torn' \in BOOLEAN
    BY <1>13 DEF Crash, TypeOK
  <2> QED BY <1>5, <1>13, <2>1 DEF Crash, Goto, TypeOK
<1> QED
  BY <1>6, <1>7, <1>8, <1>9, <1>10, <1>11, <1>12, <1>13 DEF Act

LEMMA ActTodoInv ==
  ASSUME TypeOK, TodoInv, ExecutingInv, NEW s \in Sessions, Act(s)
  PROVE  TodoInv'
<1> SUFFICES todo'[s] # << >> <=> pc'[s] = "record"
  BY OthersSteps DEF TodoInv, OthersAlone
<1>0. (todo[s] # << >> <=> pc[s] = "record") /\ todo[s] \in Seq(EventTypes)
  BY DEF TodoInv, TypeOK
<1>1. CASE Open(s) \/ CallDownstream(s)
  BY <1>0, <1>1 DEF Open, CallDownstream, Goto, TypeOK
<1>2. CASE BeginCall(s)
  <2>1. PICK call \in CallRecords : todo'[s] = PlanOf(call) /\ pc'[s] = "record"
    BY <1>2, BeginShape
  <2> QED BY <2>1, PlanShape, EmptySeq
<1>3. CASE Record(s)
  <2>1. Tail(todo[s]) \in Seq(EventTypes) /\ Len(Tail(todo[s])) = Len(todo[s]) - 1
        /\ Len(todo[s]) \in Nat /\ todo'[s] = Tail(todo[s])
    BY <1>3, RecordShape, HeadTailProperties, LenProperties
  <2>2. Tail(todo[s]) = << >> <=> Len(todo[s]) = 1
    <3>1. Len(Tail(todo[s])) = 0 <=> Tail(todo[s]) = << >>
      BY <2>1, EmptySeq
    <3> QED BY <2>1, <3>1
  <2>3. Tell(s, "result", Null) => pc'[s] = "ready"
    BY DEF Tell, Goto, TypeOK
  <2>4. \/ Len(todo[s]) # 1 /\ pc'[s] = "record"
        \/ Len(todo[s]) = 1 /\ pc'[s] \in {"call", "ready"}
    BY <1>3, <2>3, RecordShape
  <2> QED BY <2>1, <2>2, <2>4
<1>4. CASE RecordFails(s) \/ Crash(s)
  BY <1>4 DEF RecordFails, Crash, Tell, Goto, TypeOK
<1>5. CASE Acknowledge(s) \/ AcknowledgeFails(s)
  BY <1>0, <1>5 DEF Acknowledge, AcknowledgeFails, Tell, Goto, TypeOK
<1> QED BY <1>1, <1>2, <1>3, <1>4, <1>5 DEF Act

\* A step leaves the calls as they were, but for the one its session executes.
LEMMA CallSteps ==
  ASSUME TypeOK, TodoInv, ExecutingInv, NEW s \in Sessions, Act(s)
  PROVE  /\ calls' \in Seq(CallRecords) /\ Len(calls) \in Nat /\ Len(calls') \in Nat
         /\ \A c \in 1 .. Len(calls) :
              /\ c \in 1 .. Len(calls') /\ SameCall(calls'[c], calls[c])
              /\ calls[c] \in CallRecords /\ calls'[c] \in CallRecords
              /\ calls'[c] = calls[c] \/ (Executing(s) /\ c = current[s])
         /\ BeginCall(s) \/ Len(calls') = Len(calls)
<1>0. /\ calls \in Seq(CallRecords) /\ Len(calls) \in Nat
      /\ \A c \in 1 .. Len(calls) : calls[c] \in CallRecords
  BY LenProperties, ElementOfSeq DEF TypeOK
<1>1. ASSUME calls' \in Seq(CallRecords), Len(calls') \in {Len(calls), Len(calls) + 1},
             \A c \in 1 .. Len(calls) :
               /\ SameCall(calls'[c], calls[c])
               /\ calls'[c] = calls[c] \/ (Executing(s) /\ c = current[s]),
             BeginCall(s) \/ Len(calls') = Len(calls)
      PROVE  /\ calls' \in Seq(CallRecords) /\ Len(calls) \in Nat /\ Len(calls') \in Nat
             /\ \A c \in 1 .. Len(calls) :
                  /\ c \in 1 .. Len(calls') /\ SameCall(calls'[c], calls[c])
                  /\ calls[c] \in CallRecords /\ calls'[c] \in CallRecords
                  /\ calls'[c] = calls[c] \/ (Executing(s) /\ c = current[s])
             /\ BeginCall(s) \/ Len(calls') = Len(calls)
  <2>1. \A c \in 1 .. Len(calls') : calls'[c] \in CallRecords
    BY <1>1, ElementOfSeq
  <2>2. \A c \in 1 .. Len(calls) : c \in 1 .. Len(calls')
    BY <1>0, <1>1
  <2> QED BY <1>0, <1>1, <2>1, <2>2
<1>2. CASE UNCHANGED calls
  BY <1>0, <1>1, <1>2 DEF SameCall
<1>3. ASSUME Executing(s), calls' \in Seq(CallRecords), Len(calls') = Len(calls),
             \A c \in 1 .. Len(calls) \ {current[s]} : calls'[c] = calls[c],
             \/ \E told : calls'[current[s]] = [calls[current[s]] EXCEPT !.told = told]
             \/ calls'[current[s]] = [calls[current[s]] EXCEPT !.ran = TRUE]
      PROVE  /\ calls' \in Seq(CallRecords) /\ Len(calls') = Len(calls)
             /\ \A c \in 1 .. Len(calls) :
                  /\ SameCall(calls'[c], calls[c])
                  /\ calls'[c] = calls[c] \/ (Executing(s) /\ c = current[s])
  <2>1. current[s] \in 1 .. Len(calls)
    BY <1>3 DEF ExecutingInv
  <2>2. calls[current[s]] \in CallRecords
    BY <1>0, <2>1
  <2>3. SameCall(calls'[current[s]], calls[current[s]])
    BY <1>3, <2>2 DEF SameCall, CallRecords
  <2> QED BY <1>0, <1>3, <2>3 DEF SameCall
<1>4. ASSUME NEW kind \in {"result", "error"}, NEW ack \in Ids \cup {Null},
             Tell(s, kind, ack), Executing(s)
      PROVE  /\ calls' \in Seq(CallRecords) /\ Len(calls') = Len(calls)
             /\ \A c \in 1 .. Len(calls) \ {current[s]} : calls'[c] = calls[c]
             /\ \E told : calls'[current[s]] = [calls[current[s]] EXCEPT !.told = told]
  <2>1. current[s] \in 1 .. Len(calls)
    BY <1>4 DEF ExecutingInv
  <2>2. calls'[current[s]] = [calls[current[s]] EXCEPT !.told = Answer(kind, ack)]
    BY <1>4, <2>1, TellShape
  <2> QED BY <1>4, <2>1, <2>2, TellShape
<1>5. CASE BeginCall(s)
  <2>1. /\ calls' \in Seq(CallRecords) /\ Len(calls') = Len(calls) + 1
        /\ \A c \in 1 .. Len(calls) : calls'[c] = calls[c]
    BY <1>5, BeginShape
  <2> QED BY <1>1, <1>5, <2>1 DEF SameCall
<1>6. CASE CallDownstream(s)
  <2>1. Executing(s)
    BY <1>6 DEF CallDownstream, Executing
  <2>2. /\ calls' \in Seq(CallRecords) /\ Len(calls') = Len(calls)
        /\ \A c \in 1 .. Len(calls) \ {current[s]} : calls'[c] = calls[c]
        /\ calls'[current[s]] = [calls[current[s]] EXCEPT !.ran = TRUE]
    BY <1>6, <2>1, RanShape DEF ExecutingInv
  <2> QED BY <1>1, <1>3, <2>1, <2>2
<1>7. CASE \E kind \in {"result", "error"}, ack \in Ids \cup {Null} :
             Tell(s, kind, ack) /\ Executing(s)
  BY <1>1, <1>3, <1>4, <1>7
<1>8. EventId(s) \in Ids
  BY DEF EventId, Ids, TypeOK
<1>9. CASE Record(s)
  BY <1>2, <1>7, <1>9, RecordShape DEF Executing
<1>10. CASE RecordFails(s) \/ Acknowledge(s) \/ AcknowledgeFails(s)
  BY <1>7, <1>8, <1>10 DEF RecordFails, Acknowledge, AcknowledgeFails, Executing
<1>11. CASE Open(s) \/ Crash(s)
  BY <1>2, <1>11 DEF Open, Crash
<1> QED BY <1>5, <1>6, <1>9, <1>10, <1>11 DEF Act

LEMMA SamePlan ==
  ASSUME NEW a, NEW b, SameCall(a, b)
  PROVE  PlanOf(a) = PlanOf(b) /\ Dispatches(a) = Dispatches(b)
BY DEF SameCall, PlanOf, Dispatches, Plan

\* A session executes a call of its own, of this life, that is not answered.
LEMMA ActExecutingInv ==
  ASSUME TypeOK, TodoInv, ExecutingInv, NEW s \in Sessions, Act(s)
  PROVE  ExecutingInv'
<1> SUFFICES ASSUME NEW d \in Sessions, Executing(d)'
             PROVE  /\ current'[d] \in 1 .. Len(calls')
                    /\ calls'[current'[d]].session = d
                    /\ calls'[current'[d]].life = life'[d]
                    /\ calls'[current'[d]].told = Pending
                    /\ calls'[current'[d]].ran <=> pc'[d] = "acknowledge"
                    /\ pc'[d] # "record" => Dispatches(calls'[current'[d]])
  BY DEF ExecutingInv, Dispatches
<1>1. CASE d # s
  <2>1. /\ pc'[d] = pc[d] /\ current'[d] = current[d] /\ life'[d] = life[d] /\ Executing(d)
    BY <1>1, OthersSteps DEF OthersAlone, Executing
  <2>2. current[d] \in 1 .. Len(calls) /\ calls[current[d]].session = d
    BY <2>1 DEF ExecutingInv
  <2>3. ~(Executing(s) /\ current[d] = current[s])
    BY <1>1, <2>2 DEF ExecutingInv
  <2>4. calls'[current[d]] = calls[current[d]] /\ current[d] \in 1 .. Len(calls')
    BY <2>2, <2>3, CallSteps
  <2>5. /\ calls[current[d]].session = d /\ calls[current[d]].life = life[d]
        /\ calls[current[d]].told = Pending
        /\ calls[current[d]].ran <=> pc[d] = "acknowledge"
        /\ pc[d] # "record" => Dispatches(calls[current[d]])
    BY <2>1 DEF ExecutingInv
  <2> QED BY <2>1, <2>4, <2>5
<1>2. CASE d = s /\ BeginCall(s)
  <2>1. PICK policy \in Decisions, request \in Requests, approval \in Artifacts \cup {Null},
             accepted \in BOOLEAN :
          /\ Len(calls) \in Nat /\ Len(calls') = Len(calls) + 1
          /\ calls'[Len(calls) + 1] = NewCall(s, policy, request, approval, accepted)
          /\ current'[s] = Len(calls) + 1 /\ pc'[s] = "record"
    <3> DEFINE Begun(policy, request, approval, accepted) ==
                 /\ Len(calls) \in Nat /\ Len(calls') = Len(calls) + 1
                 /\ calls'[Len(calls) + 1] = NewCall(s, policy, request, approval, accepted)
                 /\ current'[s] = Len(calls) + 1 /\ pc'[s] = "record"
    <3>1. PICK policy \in Decisions, request \in Requests, approval \in Artifacts \cup {Null} :
            /\ (approval # Null /\ Accepts(s, approval, request)) \in BOOLEAN
            /\ Begun(policy, request, approval, approval # Null /\ Accepts(s, approval, request))
      BY <1>2, BeginShape
    <3>2. PICK accepted \in BOOLEAN : accepted = (approval # Null /\ Accepts(s, approval, request))
      OBVIOUS
    <3>3. Begun(policy, request, approval, accepted)
      <4> HIDE DEF Begun
      <4> QED BY <3>1, <3>2
    <3> QED BY <3>3
  <2>2. life'[s] = life[s]
    BY <1>2 DEF BeginCall
  <2>3. Len(calls) + 1 \in 1 .. Len(calls')
    BY <2>1
  <2> QED BY <1>2, <2>1, <2>2, <2>3 DEF NewCall
<1>3. CASE d = s /\ Record(s)
  <2>1. current'[s] = current[s] /\ life'[s] = life[s] /\ pc[s] = "record" /\ Executing(s)
    BY <1>3, RecordShape DEF Executing
  <2>2. ~Tell(s, "result", Null)
    BY <1>3 DEF Tell, Goto, Executing, TypeOK
  <2>3. /\ UNCHANGED calls
        /\ pc'[s] = "record" \/ (pc'[s] = "call" /\ Dispatches(calls[current[s]]))
    BY <1>3, <2>1, <2>2, RecordShape
  <2> QED BY <1>3, <2>1, <2>3 DEF ExecutingInv
<1>4. CASE d = s /\ CallDownstream(s)
  <2>1. current'[s] = current[s] /\ life'[s] = life[s] /\ pc[s] = "call" /\ Executing(s)
    BY <1>4 DEF CallDownstream, Executing
  <2>2. current[s] \in 1 .. Len(calls)
    BY <2>1 DEF ExecutingInv
  <2>3. /\ calls'[current[s]] = [calls[current[s]] EXCEPT !.ran = TRUE] /\ pc'[s] = "acknowledge"
        /\ Len(calls') = Len(calls) /\ calls[current[s]] \in CallRecords
        /\ Dispatches(calls'[current[s]]) = Dispatches(calls[current[s]])
    BY <1>4, <2>2, RanShape, CallSteps, SamePlan
  <2> QED BY <1>4, <2>1, <2>2, <2>3 DEF ExecutingInv, CallRecords
<1>5. d = s => /\ ~Open(s) /\ ~RecordFails(s) /\ ~Acknowledge(s)
               /\ ~AcknowledgeFails(s) /\ ~Crash(s)
  BY DEF Open, RecordFails, Acknowledge, AcknowledgeFails, Crash, Tell, Goto, Executing, TypeOK
<1> QED BY <1>1, <1>2, <1>3, <1>4, <1>5 DEF Act

\* Every reachable state is well typed, and an executing session executes a
\* call of its own and of the process that runs it.
MainInv == TypeOK /\ TodoInv /\ ExecutingInv

THEOREM SessionsExecuteTheirCalls == Spec => []MainInv
<1>1. Init => MainInv
  <2> SUFFICES ASSUME Init PROVE MainInv
    OBVIOUS
  <2>1. << >> \in Seq(Events) /\ << >> \in Seq(CallRecords) /\ << >> \in Seq(EventTypes)
    BY EmptySeq
  <2>2. TypeOK
    BY <2>1 DEF Init, TypeOK
  <2> QED BY <2>2 DEF Init, MainInv, TodoInv, ExecutingInv, Executing
<1>2. MainInv /\ [Next]_vars => MainInv'
  <2> SUFFICES ASSUME MainInv, [Next]_vars PROVE MainInv'
    OBVIOUS
  <2>1. CASE UNCHANGED vars
    BY <2>1 DEF vars, MainInv, TypeOK, TodoInv, ExecutingInv, Executing
  <2>2. CASE Pass
    BY <2>2 DEF Pass, MainInv, TypeOK, TodoInv, ExecutingInv, Executing
  <2>3. ASSUME NEW s \in Sessions, Act(s) PROVE MainInv'
    BY <2>3, ActTypeOK, ActTodoInv, ActExecutingInv DEF MainInv
  <2> QED BY <2>1, <2>2, <2>3 DEF Next, Act
<1> QED BY <1>1, <1>2, PTL DEF Spec

----------------------------------------------------------------------------
(***************************************************************************)
(* Approvals.                                                              *)
(***************************************************************************)
\* While a process lives its replay cache only grows.
LEMMA UsedSteps ==
  ASSUME TypeOK, NEW s \in Sessions, Act(s)
  PROVE  \/ Open(s) /\ life'[s] = life[s] + 1 /\ life[s] \in Nat
         \/ life'[s] = life[s] /\ used[s] \subseteq used'[s] /\ pc[s] # "closed"
<1>1. CASE Open(s)
  BY <1>1 DEF Open, TypeOK
<1>2. CASE BeginCall(s)
  BY <1>2 DEF BeginCall, Claim, TypeOK
<1>3. CASE Record(s) \/ RecordFails(s) \/ CallDownstream(s)
  BY <1>3 DEF Record, RecordFails, CallDownstream
<1>4. CASE Acknowledge(s) \/ AcknowledgeFails(s) \/ Crash(s)
  BY <1>4 DEF Acknowledge, AcknowledgeFails, Crash
<1> QED BY <1>1, <1>2, <1>3, <1>4 DEF Act

\* A call that begins with an accepted approval spends a nonce that was not in
\* the replay cache.
LEMMA BeginSpends ==
  ASSUME TypeOK, NEW s \in Sessions, BeginCall(s), NEW n, n = Len(calls) + 1
  PROVE  /\ calls'[n].session = s /\ calls'[n].life = life[s] /\ pc[s] = "ready"
         /\ calls'[n].accepted => /\ calls'[n].approval \in Artifacts
                                  /\ calls'[n].approval.nonce \notin used[s]
                                  /\ calls'[n].approval.nonce \in used'[s]
<1>1. PICK policy \in Decisions, request \in Requests, approval \in Artifacts \cup {Null} :
        LET accepted == approval # Null /\ Accepts(s, approval, request)
            call     == NewCall(s, policy, request, approval, accepted)
        IN  /\ IF approval = Null THEN UNCHANGED used ELSE Claim(s, approval, request)
            /\ calls'[Len(calls) + 1] = call /\ pc[s] = "ready"
  BY BeginShape
<1> DEFINE accepted == approval # Null /\ Accepts(s, approval, request)
           call     == NewCall(s, policy, request, approval, accepted)
<1>2. /\ calls'[n].session = s /\ calls'[n].life = life[s] /\ pc[s] = "ready"
      /\ calls'[n].approval = approval
      /\ calls'[n].accepted => approval # Null /\ Accepts(s, approval, request)
  <2>1. calls'[n] = call /\ pc[s] = "ready"
    BY <1>1
  <2>2. call.session = s /\ call.life = life[s] /\ call.approval = approval
        /\ call.accepted = accepted
    BY DEF NewCall
  <2> HIDE DEF call
  <2>3. calls'[n].accepted = accepted
    BY <2>1, <2>2
  <2>4. accepted => approval # Null /\ Accepts(s, approval, request)
    OBVIOUS
  <2> HIDE DEF accepted
  <2> QED BY <2>1, <2>2, <2>3, <2>4
<1>3. ASSUME approval # Null, Accepts(s, approval, request)
      PROVE  approval.nonce \notin used[s] /\ approval.nonce \in used'[s]
  BY <1>1, <1>3 DEF Claim, Accepts, TypeOK
<1> QED BY <1>2, <1>3

\* The indexes of the calls after a step.
LEMMA CallIndexes ==
  ASSUME MainInv, NEW s \in Sessions, Act(s), NEW c \in 1 .. Len(calls')
  PROVE  c \in 1 .. Len(calls) \/ (c = Len(calls) + 1 /\ BeginCall(s))
<1>1. PICK k \in Nat : k = Len(calls)
  BY CallSteps DEF MainInv
<1>2. CASE BeginCall(s)
  <2>1. Len(calls') = k + 1
    BY <1>1, <1>2, BeginShape DEF MainInv
  <2>2. c \in 1 .. k + 1
    BY <2>1
  <2>3. c \in 1 .. k \/ c = k + 1
    BY <1>1, <2>2
  <2> QED BY <1>1, <1>2, <2>3
<1>3. CASE Len(calls') = Len(calls)
  BY <1>3
<1> QED BY <1>2, <1>3, CallSteps DEF MainInv

LEMMA ActSpentInv ==
  ASSUME MainInv, SpentInv, NEW s \in Sessions, Act(s)
  PROVE  SpentInv'
<1> SUFFICES ASSUME NEW c \in 1 .. Len(calls')
             PROVE  /\ calls'[c].accepted => calls'[c].approval \in Artifacts
                    /\ calls'[c].life <= life'[calls'[c].session]
                    /\ /\ calls'[c].accepted
                       /\ calls'[c].life = life'[calls'[c].session]
                       /\ pc'[calls'[c].session] # "closed"
                       => calls'[c].approval.nonce \in used'[calls'[c].session]
  BY DEF SpentInv
<1> USE DEF MainInv
<1>1. CASE c \in 1 .. Len(calls)
  <2>1. SameCall(calls'[c], calls[c]) /\ calls[c] \in CallRecords
    BY <1>1, CallSteps
  <2>2. calls[c].session \in Sessions /\ calls[c].life \in Nat /\ life[s] \in Nat
    BY <2>1 DEF CallRecords, TypeOK
  <2>3. CASE calls[c].session # s
    BY <1>1, <2>1, <2>2, <2>3, OthersSteps DEF SpentInv, SameCall, OthersAlone
  <2>4. CASE calls[c].session = s /\ life'[s] = life[s] + 1
    BY <1>1, <2>1, <2>2, <2>4 DEF SpentInv, SameCall
  <2>5. CASE calls[c].session = s /\ life'[s] = life[s] /\ used[s] \subseteq used'[s]
             /\ pc[s] # "closed"
    BY <1>1, <2>1, <2>2, <2>5 DEF SpentInv, SameCall
  <2> QED BY <2>3, <2>4, <2>5, UsedSteps
<1>2. CASE c = Len(calls) + 1 /\ BeginCall(s)
  <2>1. life'[s] = life[s] /\ life[s] \in Nat
    BY <1>2 DEF BeginCall, TypeOK
  <2> QED BY <1>2, <2>1, BeginSpends
<1>3. c \in 1 .. Len(calls) \/ (c = Len(calls) + 1 /\ BeginCall(s))
  BY CallIndexes
<1> QED BY <1>1, <1>2, <1>3

\* While a session's process lives an approval lets one call through, however
\* many calls carry it and whatever becomes of the call that spent it.
THEOREM ApprovalsStaySpent == Spec => []ApprovalsAreSpentOnce
<1>1. Init => SpentInv /\ ApprovalsAreSpentOnce
  BY DEF Init, SpentInv, ApprovalsAreSpentOnce
<1>2. ASSUME MainInv, SpentInv, ApprovalsAreSpentOnce, NEW s \in Sessions, Act(s)
      PROVE  ApprovalsAreSpentOnce'
  <2> SUFFICES ASSUME NEW c \in 1 .. Len(calls'), NEW d \in 1 .. Len(calls'), c # d,
                      calls'[c].session = calls'[d].session, calls'[c].life = calls'[d].life,
                      calls'[c].accepted, calls'[d].accepted
               PROVE  calls'[c].approval.nonce # calls'[d].approval.nonce
    BY DEF ApprovalsAreSpentOnce
  <2>1. \A e \in 1 .. Len(calls) : SameCall(calls'[e], calls[e])
    BY <1>2, CallSteps DEF MainInv
  <2>2. \A e \in 1 .. Len(calls') : e \in 1 .. Len(calls) \/ (e = Len(calls) + 1 /\ BeginCall(s))
    BY <1>2, CallIndexes
  <2>3. CASE c \in 1 .. Len(calls) /\ d \in 1 .. Len(calls)
    BY <1>2, <2>1, <2>3 DEF ApprovalsAreSpentOnce, SameCall
  <2>4. ASSUME NEW e \in 1 .. Len(calls), NEW n, n = Len(calls) + 1, BeginCall(s),
               calls'[e].session = calls'[n].session, calls'[e].life = calls'[n].life,
               calls'[e].accepted, calls'[n].accepted
        PROVE  calls'[e].approval.nonce # calls'[n].approval.nonce
    <3>1. /\ calls'[n].session = s /\ calls'[n].life = life[s] /\ pc[s] = "ready"
          /\ calls'[n].approval.nonce \notin used[s]
      BY <1>2, <2>4, BeginSpends DEF MainInv
    <3>2. calls[e].session = s /\ calls[e].life = life[s] /\ calls[e].accepted
          /\ calls[e].approval = calls'[e].approval
      BY <2>1, <2>4, <3>1 DEF SameCall
    <3>3. calls[e].approval.nonce \in used[s]
      BY <1>2, <3>1, <3>2 DEF SpentInv
    <3> QED BY <3>1, <3>2, <3>3
  <2>5. CASE c = Len(calls) + 1 /\ d \in 1 .. Len(calls) /\ BeginCall(s)
    BY <2>4, <2>5
  <2>6. CASE d = Len(calls) + 1 /\ c \in 1 .. Len(calls) /\ BeginCall(s)
    BY <2>4, <2>6
  <2> QED BY <2>2, <2>3, <2>5, <2>6
<1>3. MainInv /\ SpentInv /\ ApprovalsAreSpentOnce /\ [Next]_vars
        => (SpentInv /\ ApprovalsAreSpentOnce)'
  <2>1. SpentInv /\ ApprovalsAreSpentOnce /\ (UNCHANGED vars \/ Pass)
          => (SpentInv /\ ApprovalsAreSpentOnce)'
    BY DEF vars, Pass, SpentInv, ApprovalsAreSpentOnce
  <2> QED BY <1>2, <2>1, ActSpentInv DEF Next, Act
<1> QED BY <1>1, <1>3, SessionsExecuteTheirCalls, PTL DEF Spec

----------------------------------------------------------------------------
(***************************************************************************)
(* Numbers and parents.                                                    *)
(***************************************************************************)
\* What a step does to its session's normalizer.
LEMMA NormalizerSteps ==
  ASSUME TypeOK, NEW s \in Sessions, Act(s)
  PROVE  \/ /\ UNCHANGED journal /\ sequence'[s] = Len(journal) /\ lastEvent'[s] = Null
         \/ /\ pc[s] # "closed" /\ life'[s] = life[s]
            /\ \/ pc'[s] = "closed"
               \/ sequence'[s] = sequence[s] /\ lastEvent'[s] = lastEvent[s] /\ UNCHANGED journal
               \/ sequence'[s] = sequence[s] + 1 /\ lastEvent'[s] = EventId(s)
<1> USE DEF TypeOK, Goto
<1>1. CASE Open(s)
  BY <1>1 DEF Open
<1>2. CASE BeginCall(s) \/ CallDownstream(s)
  BY <1>2 DEF BeginCall, CallDownstream
<1>3. CASE Record(s) \/ RecordFails(s)
  BY <1>3 DEF Record, RecordFails, Commit, Fail, Normalize
<1>4. CASE Acknowledge(s) \/ AcknowledgeFails(s)
  BY <1>4 DEF Acknowledge, AcknowledgeFails, Commit, Fail, Normalize
<1>5. CASE Crash(s)
  BY <1>5 DEF Crash
<1> QED BY <1>1, <1>2, <1>3, <1>4, <1>5 DEF Act

LEMMA ActNumberInv ==
  ASSUME MainInv, NumberInv, NEW s \in Sessions, Act(s)
  PROVE  NumberInv'
<1> USE DEF MainInv
<1>0. PICK k \in Nat : k = Len(journal)
  BY LenProperties DEF TypeOK
<1>1. /\ sequence[s] \in Nat /\ life[s] \in Nat
      /\ EventId(s) = <<s, life[s], sequence[s]>> /\ EventId(s) # Null
  BY NullAssumption DEF TypeOK, EventId
<1>2. OldLength(s) \in Int /\ OldLength(s) <= sequence[s]
  BY <1>1 DEF OldLength
<1>3. ASSUME NEW n \in 1 .. k
      PROVE  journal'[n] = journal[n] /\ n \in Positions /\ journal[n].id[3] = n - 1
  <2>1. n \in Positions
    BY <1>0 DEF Positions
  <2> QED BY <2>1, JournalSteps, AppendedPositions DEF NumberInv
<1>4. ASSUME NEW n \in 1 .. k, journal[n].id[1] = s, pc'[s] # "closed", n > OldLength(s)'
      PROVE  journal[n].id[2] = life'[s]
  <2>1. CASE lastEvent'[s] = Null /\ sequence'[s] = Len(journal)
    BY <1>0, <1>4, <2>1 DEF OldLength
  <2>2. CASE /\ pc[s] # "closed" /\ life'[s] = life[s]
             /\ sequence'[s] = sequence[s] /\ lastEvent'[s] = lastEvent[s]
    <3>1. n > OldLength(s)
      BY <1>4, <2>2 DEF OldLength
    <3> QED BY <1>3, <1>4, <2>2, <3>1 DEF NumberInv
  <2>3. CASE /\ pc[s] # "closed" /\ life'[s] = life[s]
             /\ sequence'[s] = sequence[s] + 1 /\ lastEvent'[s] = EventId(s)
    <3>1. OldLength(s)' = sequence[s]
      BY <1>1, <2>3 DEF OldLength
    <3>2. n > OldLength(s)
      BY <1>1, <1>2, <1>4, <3>1
    <3> QED BY <1>3, <1>4, <2>3, <3>2 DEF NumberInv
  <2> QED BY <1>4, <2>1, <2>2, <2>3, NormalizerSteps
<1>5. ASSUME NEW n \in 1 .. k, NEW d \in Sessions, journal[n].id[1] = d, pc'[d] # "closed",
             n > OldLength(d)'
      PROVE  journal[n].id[2] = life'[d]
  <2>1. CASE d = s
    BY <1>4, <1>5, <2>1
  <2>2. CASE d # s
    <3>1. pc'[d] = pc[d] /\ life'[d] = life[d] /\ OldLength(d)' = OldLength(d)
      BY <2>2, OthersSteps DEF OthersAlone, OldLength
    <3> QED BY <1>3, <1>5, <3>1 DEF NumberInv
  <2> QED BY <2>1, <2>2
<1>6. \A d \in Sessions :
        pc'[d] # "closed" /\ lastEvent'[d] # Null
          => sequence'[d] >= 1 /\ lastEvent'[d] = <<d, life'[d], sequence'[d] - 1>>
  <2> SUFFICES ASSUME NEW d \in Sessions, pc'[d] # "closed", lastEvent'[d] # Null
               PROVE  sequence'[d] >= 1 /\ lastEvent'[d] = <<d, life'[d], sequence'[d] - 1>>
    OBVIOUS
  <2>1. CASE d = s
    <3>1. CASE sequence'[s] = sequence[s] + 1 /\ lastEvent'[s] = EventId(s) /\ life'[s] = life[s]
      BY <1>1, <2>1, <3>1
    <3>2. CASE /\ pc[s] # "closed" /\ sequence'[s] = sequence[s] /\ lastEvent'[s] = lastEvent[s]
               /\ life'[s] = life[s]
      BY <2>1, <3>2 DEF NumberInv
    <3> QED BY <2>1, <3>1, <3>2, NormalizerSteps
  <2>2. CASE d # s
    BY <2>2, OthersSteps DEF OthersAlone, NumberInv
  <2> QED BY <2>1, <2>2
<1>7. CASE UNCHANGED journal
  <2>1. \A n \in 1 .. k : /\ journal'[n].id[3] = n - 1
                          /\ \A d \in Sessions :
                               journal'[n].id[1] = d /\ pc'[d] # "closed" /\ n > OldLength(d)'
                                 => journal'[n].id[2] = life'[d]
    BY <1>3, <1>5, <1>7
  <2>2. Positions' = 1 .. k
    BY <1>0, <1>7 DEF Positions
  <2> QED BY <1>6, <2>1, <2>2 DEF NumberInv
<1>8. CASE Appends(s)
  <2>1. /\ Positions' = 1 .. k \cup {k + 1} /\ journal'[k + 1].id = <<s, life[s], sequence[s]>>
        /\ sequence[s] = k
    BY <1>0, <1>8, AppendedPositions, EventShape DEF Positions, Appends
  <2>2. life'[s] = life[s] \/ pc'[s] = "closed"
    BY <1>8, NormalizerSteps, AppendedPositions, <1>0
  <2>3. /\ journal'[k + 1].id[3] = (k + 1) - 1
        /\ \A d \in Sessions : journal'[k + 1].id[1] = d /\ pc'[d] # "closed"
                                 => journal'[k + 1].id[2] = life'[d]
    BY <2>1, <2>2
  <2>4. \A n \in 1 .. k : /\ journal'[n].id[3] = n - 1
                          /\ \A d \in Sessions :
                               journal'[n].id[1] = d /\ pc'[d] # "closed" /\ n > OldLength(d)'
                                 => journal'[n].id[2] = life'[d]
    BY <1>3, <1>5
  <2> QED BY <1>6, <2>1, <2>3, <2>4 DEF NumberInv
<1> QED BY <1>7, <1>8, JournalSteps

\* A parent is Null, in the journal, or its event follows one of another
\* session: a normalizer whose append failed names an event that is not there,
\* and only another session's event can take the number that it skipped.
THEOREM ParentsDangleBehindOthers == Spec => []DanglingParentsAreForeign
<1>1. Init => NumberInv /\ DanglingParentsAreForeign
  BY DEF Init, NumberInv, DanglingParentsAreForeign, Positions
<1>2. ASSUME MainInv, NumberInv, DanglingParentsAreForeign, NEW s \in Sessions, Act(s)
      PROVE  DanglingParentsAreForeign'
  <2> USE <1>2 DEF MainInv
  <2>0. PICK k \in Nat : k = Len(journal)
    BY LenProperties DEF TypeOK
  <2>1. CASE UNCHANGED journal
    BY <2>1 DEF DanglingParentsAreForeign, Positions
  <2>2. CASE Appends(s)
    <3>1. /\ Positions' = 1 .. k \cup {k + 1}
          /\ \A n \in 1 .. k : journal'[n] = journal[n]
          /\ journal'[k + 1].id = <<s, life[s], k>> /\ journal'[k + 1].parent = lastEvent[s]
          /\ sequence[s] = k
      BY <2>0, <2>2, AppendedPositions, EventShape DEF Positions, Appends
    <3>2. \A n \in 1 .. k :
            \/ journal'[n].parent = Null
            \/ \E m \in 1 .. n - 1 : journal'[m].id = journal'[n].parent
            \/ n > 1 /\ journal'[n - 1].id[1] # journal'[n].id[1]
      <4> SUFFICES ASSUME NEW n \in 1 .. k
                   PROVE  \/ journal'[n].parent = Null
                          \/ \E m \in 1 .. n - 1 : journal'[m].id = journal'[n].parent
                          \/ n > 1 /\ journal'[n - 1].id[1] # journal'[n].id[1]
        OBVIOUS
      <4>1. \/ journal[n].parent = Null
            \/ \E m \in 1 .. n - 1 : journal[m].id = journal[n].parent
            \/ n > 1 /\ journal[n - 1].id[1] # journal[n].id[1]
        BY <2>0 DEF DanglingParentsAreForeign, Positions
      <4> QED BY <3>1, <4>1
    <3>3. CASE lastEvent[s] = Null
      BY <3>1, <3>2, <3>3 DEF DanglingParentsAreForeign
    <3>4. CASE lastEvent[s] # Null
      <4>1. pc[s] # "closed"
        BY <2>2 DEF Appends
      <4>2. k >= 1 /\ lastEvent[s] = <<s, life[s], k - 1>> /\ OldLength(s) = k - 1
        BY <3>1, <3>4, <4>1 DEF NumberInv, OldLength
      <4>3. k \in Positions /\ journal[k] \in Events
        BY <2>0, <4>2, ElementOfSeq DEF Positions, TypeOK
      <4>4. journal[k].id \in Ids /\ journal[k].id[3] = k - 1
        BY <4>3 DEF Events, NumberInv
      <4>5. CASE journal[k].id[1] = s
        <5>1. journal[k].id[2] = life[s]
          BY <4>1, <4>2, <4>3, <4>5 DEF NumberInv
        <5>2. journal[k].id = <<s, life[s], k - 1>>
          BY <4>4, <4>5, <5>1 DEF Ids
        <5>3. k \in 1 .. (k + 1) - 1 /\ journal'[k].id = journal'[k + 1].parent
          BY <3>1, <4>2, <5>2
        <5> QED BY <3>1, <3>2, <5>3 DEF DanglingParentsAreForeign
      <4>6. CASE journal[k].id[1] # s
        <5>1. k + 1 > 1 /\ journal'[(k + 1) - 1].id[1] # journal'[k + 1].id[1]
          BY <3>1, <4>2, <4>6
        <5> QED BY <3>1, <3>2, <5>1 DEF DanglingParentsAreForeign
      <4> QED BY <4>5, <4>6
    <3> QED BY <3>3, <3>4
  <2> QED BY <2>1, <2>2, JournalSteps
<1>3. MainInv /\ NumberInv /\ DanglingParentsAreForeign /\ [Next]_vars
        => (NumberInv /\ DanglingParentsAreForeign)'
  <2>1. ASSUME NumberInv, DanglingParentsAreForeign, UNCHANGED vars \/ Pass
        PROVE  (NumberInv /\ DanglingParentsAreForeign)'
    <3>1. journal' = journal /\ pc' = pc /\ life' = life /\ sequence' = sequence
          /\ lastEvent' = lastEvent
      BY <2>1 DEF vars, Pass
    <3>2. NumberInv'
      BY <2>1, <3>1 DEF NumberInv, OldLength, Positions
    <3>3. DanglingParentsAreForeign'
      BY <2>1, <3>1 DEF DanglingParentsAreForeign, Positions
    <3> QED BY <3>2, <3>3
  <2> QED BY <1>2, <2>1, ActNumberInv DEF Next, Act
<1> QED BY <1>1, <1>3, SessionsExecuteTheirCalls, PTL DEF Spec

----------------------------------------------------------------------------
(***************************************************************************)
(* What the journal holds of a call.                                       *)
(***************************************************************************)
LEMMA RecordedIsFinite ==
  ASSUME TypeOK, NEW c
  PROVE  IsFiniteSet(Recorded(c)) /\ Cardinality(Recorded(c)) \in Nat
<1>1. Len(journal) \in Nat
  BY LenProperties DEF TypeOK
<1>2. IsFiniteSet(1 .. Len(journal)) /\ Recorded(c) \subseteq 1 .. Len(journal)
  BY <1>1, FS_Interval DEF Recorded, Positions
<1> QED BY <1>2, FS_Subset, FS_CardinalityType

\* An append adds one event to the call of its session, in the next place.
LEMMA RecordedAppended ==
  ASSUME TypeOK, TodoInv, NEW s \in Sessions, Appends(s),
         NEW c, c = current[s], NEW k, k = Len(journal)
  PROVE  /\ k \in Nat /\ Positions' = 1 .. (k + 1) /\ Positions = 1 .. k
         /\ Recorded(c)' = Recorded(c) \cup {k + 1}
         /\ Cardinality(Recorded(c))' = Cardinality(Recorded(c)) + 1
         /\ \A d : d # c => Recorded(d)' = Recorded(d)
         /\ \A n \in 1 .. k : journal'[n] = journal[n] /\ Place(n)' = Place(n)
         /\ Place(k + 1)' = Cardinality(Recorded(c)) + 1
<1>1. /\ k \in Nat /\ Positions' = 1 .. k \cup {k + 1} /\ Positions = 1 .. k
      /\ \A n \in 1 .. k : journal'[n] = journal[n]
      /\ journal'[k + 1] = Event(s, Due(s))
  BY AppendedPositions DEF Positions
<1>2. journal'[k + 1].call = c
  BY <1>1, EventShape DEF Appends
<1>3. 1 .. k \cup {k + 1} = 1 .. (k + 1)
  BY <1>1
<1>4. Recorded(c)' = Recorded(c) \cup {k + 1}
  BY <1>1, <1>2 DEF Recorded
<1>5. k + 1 \notin Recorded(c)
  BY <1>1 DEF Recorded
<1>6. Cardinality(Recorded(c) \cup {k + 1}) = Cardinality(Recorded(c)) + 1
  BY <1>5, RecordedIsFinite, FS_AddElement
<1>7. \A d : d # c => Recorded(d)' = Recorded(d)
  BY <1>1, <1>2 DEF Recorded
<1>8. ASSUME NEW n \in 1 .. k
      PROVE  Place(n)' = Place(n)
  <2>1. \A m \in 1 .. n : m \in 1 .. k
    BY <1>1
  <2>2. {m \in 1 .. n : journal'[m].call = journal'[n].call} =
        {m \in 1 .. n : journal[m].call = journal[n].call}
    BY <1>1, <2>1
  <2> QED BY <2>2 DEF Place
<1>9. Place(k + 1)' = Cardinality(Recorded(c)) + 1
  <2>1. {m \in 1 .. (k + 1) : journal'[m].call = journal'[k + 1].call} = Recorded(c)'
    BY <1>1, <1>2, <1>3 DEF Recorded
  <2> QED BY <1>4, <1>6, <2>1 DEF Place
<1> QED BY <1>1, <1>3, <1>4, <1>6, <1>7, <1>8, <1>9

\* Nothing is recorded and no place moves while the journal stays.
LEMMA RecordedKept ==
  ASSUME UNCHANGED journal, NEW c
  PROVE  /\ Positions' = Positions /\ Recorded(c)' = Recorded(c)
         /\ \A n : Place(n)' = Place(n)
BY DEF Recorded, Positions, Place

\* The plan comes first in a lifecycle, whatever follows.
LEMMA LifecycleShape ==
  ASSUME NEW call \in CallRecords
  PROVE  /\ Len(PlanOf(call)) \in Nat
         /\ Len(Lifecycle(call)) = IF call.ran THEN Len(PlanOf(call)) + 1 ELSE Len(PlanOf(call))
         /\ \A i \in 1 .. Len(PlanOf(call)) : Lifecycle(call)[i] = PlanOf(call)[i]
         /\ call.ran => Lifecycle(call)[Len(PlanOf(call)) + 1] = "acknowledged"
<1>1. PlanOf(call) \in Seq(EventTypes) /\ Len(PlanOf(call)) \in Nat
  BY PlanShape
<1>2. CASE call.ran
  <2>1. Lifecycle(call) = Append(PlanOf(call), "acknowledged")
    BY <1>1, <1>2, AppendIsConcat DEF Lifecycle, EventTypes
  <2>2. "acknowledged" \in EventTypes
    BY DEF EventTypes
  <2> QED BY <1>1, <1>2, <2>1, <2>2, AppendProperties
<1>3. CASE ~call.ran
  BY <1>1, <1>3 DEF Lifecycle
<1> QED BY <1>2, <1>3

\* A session's call is recorded up to what is still to do of its plan.
LEMMA ActProgressInv ==
  ASSUME MainInv, PlacesInv, ProgressInv, NEW s \in Sessions, Act(s)
  PROVE  ProgressInv'
<1> USE DEF MainInv
<1> SUFFICES ASSUME NEW d \in Sessions, Executing(d)'
             PROVE  /\ (Len(todo[d]) <= Len(PlanOf(calls[current[d]])))'
                    /\ (Cardinality(Recorded(current[d])) = Missing(d))'
                    /\ (\A i \in 1 .. Len(todo[d]) :
                          todo[d][i] = PlanOf(calls[current[d]])[Missing(d) + i])'
  BY DEF ProgressInv
<1> SUFFICES ASSUME NEW c, c = current'[d], NEW plan, plan = PlanOf(calls'[c])
             PROVE  /\ Len(todo'[d]) <= Len(plan)
                    /\ Cardinality(Recorded(c))' = Len(plan) - Len(todo'[d])
                    /\ \A i \in 1 .. Len(todo'[d]) :
                         todo'[d][i] = plan[Len(plan) - Len(todo'[d]) + i]
  BY DEF Missing, PlanOf, Recorded
<1>0. PICK k \in Nat : k = Len(journal)
  BY LenProperties DEF TypeOK
<1>1. ASSUME Executing(d), current'[d] = current[d]
      PROVE  /\ c \in 1 .. Len(calls) /\ plan = PlanOf(calls[c]) /\ calls[c].session = d
             /\ Cardinality(Recorded(c)) = Len(plan) - Len(todo[d])
             /\ Len(todo[d]) <= Len(plan)
             /\ \A i \in 1 .. Len(todo[d]) : todo[d][i] = plan[Len(plan) - Len(todo[d]) + i]
  <2>1. c \in 1 .. Len(calls) /\ calls[c].session = d
    BY <1>1 DEF ExecutingInv
  <2>2. SameCall(calls'[c], calls[c])
    BY <2>1, CallSteps
  <2>3. plan = PlanOf(calls[c])
    BY <2>2, SamePlan
  <2> QED BY <1>1, <2>1, <2>3 DEF ProgressInv, Missing
<1>2. CASE Executing(d) /\ current'[d] = current[d] /\ todo'[d] = todo[d]
           /\ Recorded(c)' = Recorded(c)
  BY <1>1, <1>2
<1>3. CASE d # s
  <2>1. Executing(d) /\ current'[d] = current[d] /\ todo'[d] = todo[d]
    BY <1>3, OthersSteps DEF OthersAlone, Executing
  <2>2. CASE UNCHANGED journal
    BY <1>2, <2>1, <2>2, RecordedKept
  <2>3. CASE Appends(s)
    <3>1. c # current[s]
      BY <1>1, <1>3, <2>1, <2>3 DEF Appends, Executing, ExecutingInv
    <3>2. PICK e : e = current[s]
      OBVIOUS
    <3>3. Recorded(c)' = Recorded(c)
      BY <1>0, <2>3, <3>1, <3>2, RecordedAppended
    <3> QED BY <1>2, <2>1, <3>3
  <2> QED BY <2>2, <2>3, JournalSteps
<1>4. CASE d = s /\ BeginCall(s)
  <2>1. PICK call \in CallRecords :
          /\ calls'[Len(calls) + 1] = call /\ current'[s] = Len(calls) + 1
          /\ todo'[s] = PlanOf(call) /\ Len(calls) \in Nat
    BY <1>4, BeginShape
  <2>2. c = Len(calls) + 1 /\ todo'[d] = plan
    BY <1>4, <2>1
  <2>3. plan \in Seq(EventTypes) /\ Len(plan) \in Nat
    BY <2>1, <2>2, PlanShape
  <2>4. c \notin 1 .. Len(calls)
    BY <2>1, <2>2
  <2>5. Recorded(c) = {}
    BY <2>4 DEF Recorded, PlacesInv
  <2>6. Recorded(c)' = {}
    BY <1>4, <2>5, RecordedKept DEF BeginCall
  <2>7. Cardinality(Recorded(c))' = 0
    BY <2>6, FS_EmptySet
  <2>8. PICK l \in Nat : l = Len(plan)
    BY <2>3
  <2>9. l <= l /\ 0 = l - l /\ \A i \in 1 .. l : plan[i] = plan[l - l + i]
    OBVIOUS
  <2>10. Len(todo'[d]) = l /\ Len(plan) = l /\ todo'[d] = plan
    BY <2>2, <2>8
  <2> QED BY <2>7, <2>9, <2>10
<1>5. CASE d = s /\ Record(s)
  <2>1. Executing(s) /\ current'[s] = current[s] /\ Appends(s) /\ todo'[s] = Tail(todo[s])
        /\ todo[s] \in Seq(EventTypes) /\ todo[s] # << >>
    BY <1>5, RecordShape DEF Executing
  <2>2. PICK l \in Nat : l = Len(todo[s]) /\ Len(Tail(todo[s])) = l - 1 /\ l # 0
    BY <2>1, HeadTailProperties, LenProperties, EmptySeq
  <2>3. \A i \in 1 .. l - 1 : Tail(todo[s])[i] = todo[s][i + 1]
    BY <2>1, <2>2, HeadTailProperties
  <2>4. PICK p \in Nat : p = Len(plan)
    <3>1. calls'[c] \in CallRecords
      BY <1>1, <1>5, <2>1, CallSteps
    <3> QED BY <3>1, PlanShape
  <2>5. /\ Cardinality(Recorded(c)) = p - l /\ l <= p
        /\ \A i \in 1 .. l : todo[s][i] = plan[p - l + i]
    BY <1>1, <1>5, <2>1, <2>2, <2>4
  <2>6. Cardinality(Recorded(c))' = Cardinality(Recorded(c)) + 1
    BY <1>0, <1>5, <2>1, RecordedAppended
  <2>7. ASSUME NEW i \in 1 .. l - 1 PROVE Tail(todo[s])[i] = plan[p - (l - 1) + i]
    <3>1. i + 1 \in 1 .. l /\ p - l + (i + 1) = p - (l - 1) + i
      BY <2>2
    <3>2. todo[s][i + 1] = plan[p - l + (i + 1)]
      BY <2>5, <3>1
    <3> QED BY <2>3, <3>1, <3>2
  <2>8. l - 1 <= p /\ Cardinality(Recorded(c))' = p - (l - 1)
    BY <2>5, <2>6
  <2>9. Len(todo'[d]) = l - 1 /\ todo'[d] = Tail(todo[s])
    BY <1>5, <2>1, <2>2
  <2> QED BY <2>4, <2>7, <2>8, <2>9
<1>6. CASE d = s /\ CallDownstream(s)
  <2>1. Executing(s) /\ current'[s] = current[s] /\ todo'[s] = todo[s] /\ UNCHANGED journal
    BY <1>6 DEF CallDownstream, Executing
  <2> QED BY <1>2, <1>6, <2>1, RecordedKept
<1>7. d = s => /\ ~Open(s) /\ ~RecordFails(s) /\ ~Acknowledge(s)
               /\ ~AcknowledgeFails(s) /\ ~Crash(s)
  BY DEF Open, RecordFails, Acknowledge, AcknowledgeFails, Crash, Tell, Goto, Executing, TypeOK
<1> QED BY <1>3, <1>4, <1>5, <1>6, <1>7 DEF Act

\* Every place up to the last is taken by an event of its call.
LEMMA ActPlacesInv ==
  ASSUME MainInv, PlacesInv, NEW s \in Sessions, Act(s)
  PROVE  PlacesInv'
<1> USE DEF MainInv
<1>0. PICK k \in Nat : k = Len(journal)
  BY LenProperties DEF TypeOK
<1>1. \A c \in 1 .. Len(calls) : c \in 1 .. Len(calls')
  BY CallSteps
<1>2. ASSUME NEW c \in 1 .. Len(calls') \ 1 .. Len(calls)
      PROVE  Recorded(c)' = {} /\ Cardinality(Recorded(c))' = 0
  <2>1. BeginCall(s)
    BY <1>2, CallIndexes
  <2>2. Recorded(c) = {}
    BY <1>2 DEF Recorded, PlacesInv
  <2>3. Recorded(c)' = {}
    BY <2>1, <2>2, RecordedKept DEF BeginCall
  <2> QED BY <2>3, FS_EmptySet
<1>3. CASE UNCHANGED journal
  <2>1. \A n \in Positions' : journal'[n].call \in 1 .. Len(calls')
    BY <1>1, <1>3, RecordedKept DEF PlacesInv
  <2>2. ASSUME NEW c \in 1 .. Len(calls'), NEW i \in 1 .. Cardinality(Recorded(c))'
        PROVE  \E n \in Recorded(c)' : Place(n)' = i
    <3>1. CASE c \in 1 .. Len(calls)
      <4>1. i \in 1 .. Cardinality(Recorded(c))
        BY <1>3, <2>2, RecordedKept
      <4> QED BY <1>3, <3>1, <4>1, RecordedKept DEF PlacesInv
    <3>2. CASE c \notin 1 .. Len(calls)
      BY <1>2, <2>2, <3>2
    <3> QED BY <3>1, <3>2
  <2> QED BY <2>1, <2>2 DEF PlacesInv
<1>4. CASE Appends(s)
  <2>0. PICK e \in 1 .. Len(calls) : e = current[s]
    BY <1>4 DEF Appends, ExecutingInv, Executing
  <2>1. \A n \in Positions' : journal'[n].call \in 1 .. Len(calls')
    <3>1. journal'[k + 1].call = e
      BY <1>0, <1>4, <2>0, AppendedPositions, EventShape DEF Appends
    <3>2. Positions' = Positions \cup {k + 1} /\ \A n \in Positions : journal'[n] = journal[n]
      BY <1>0, <1>4, AppendedPositions
    <3> QED BY <1>1, <3>1, <3>2 DEF PlacesInv
  <2>2. ASSUME NEW c \in 1 .. Len(calls'), NEW i \in 1 .. Cardinality(Recorded(c))'
        PROVE  \E n \in Recorded(c)' : Place(n)' = i
    <3>1. ASSUME i \in 1 .. Cardinality(Recorded(c)), c \in 1 .. Len(calls)
          PROVE  \E n \in Recorded(c)' : Place(n)' = i
      <4>1. PICK n \in Recorded(c) : Place(n) = i
        BY <3>1 DEF PlacesInv
      <4>2. n \in 1 .. k
        BY <1>0 DEF Recorded, Positions
      <4>3. n \in Recorded(c)' /\ Place(n)' = Place(n)
        BY <1>0, <1>4, <2>0, <4>2, RecordedAppended
      <4> QED BY <4>1, <4>3
    <3>2. CASE c # e /\ c \in 1 .. Len(calls)
      BY <1>0, <1>4, <2>0, <2>2, <3>1, <3>2, RecordedAppended
    <3>3. CASE c = e
      <4>1. PICK m \in Nat : m = Cardinality(Recorded(c))
        BY RecordedIsFinite
      <4>2. /\ Cardinality(Recorded(c))' = m + 1 /\ k + 1 \in Recorded(c)'
            /\ Place(k + 1)' = m + 1
        <5>1. /\ Recorded(e)' = Recorded(e) \cup {k + 1}
              /\ Cardinality(Recorded(e))' = Cardinality(Recorded(e)) + 1
              /\ Place(k + 1)' = Cardinality(Recorded(e)) + 1
          BY <1>0, <1>4, <2>0, RecordedAppended
        <5> QED BY <3>3, <4>1, <5>1
      <4>3. i \in 1 .. m \/ i = m + 1
        BY <2>2, <4>2
      <4> QED BY <2>0, <3>1, <3>3, <4>1, <4>2, <4>3
    <3>4. CASE c \notin 1 .. Len(calls)
      BY <1>2, <2>2, <3>4
    <3> QED BY <3>2, <3>3, <3>4
  <2> QED BY <2>1, <2>2 DEF PlacesInv
<1> QED BY <1>3, <1>4, JournalSteps

LEMMA PlacesAreNumbers ==
  ASSUME TypeOK, NEW c, NEW n \in Recorded(c)
  PROVE  Place(n) \in Nat /\ Place(n) >= 1
<1> DEFINE same == {m \in 1 .. n : journal[m].call = journal[n].call}
<1>1. n \in 1 .. Len(journal) /\ Len(journal) \in Nat
  BY LenProperties DEF TypeOK, Recorded, Positions
<1>2. IsFiniteSet(1 .. n)
  BY <1>1, FS_Interval
<1>3. IsFiniteSet(same) /\ n \in same
  BY <1>1, <1>2, FS_Subset
<1>4. Cardinality(same) \in Nat /\ Cardinality(same) # 0
  BY <1>3, FS_CardinalityType, FS_EmptySet
<1> HIDE DEF same
<1>5. Cardinality(same) >= 1
  BY <1>4
<1> QED BY <1>4, <1>5 DEF same, Place

\* The event a session appends is the next one of its call's lifecycle.
LEMMA NextOfLifecycle ==
  ASSUME MainInv, ProgressInv, NEW s \in Sessions, Appends(s),
         NEW c, c = current[s], NEW p, p = Cardinality(Recorded(c)) + 1
  PROVE  /\ c \in 1 .. Len(calls) /\ p \in Nat
         /\ p <= Len(Lifecycle(calls[c])) /\ Due(s) = Lifecycle(calls[c])[p]
         /\ pc[s] = "acknowledge" => p = Len(Lifecycle(calls[c]))
         /\ pc[s] = "record" /\ Len(todo[s]) = 1 => p = Len(Lifecycle(calls[c]))
<1> USE DEF MainInv
<1>1. Executing(s) /\ pc[s] \in {"record", "acknowledge"}
  BY DEF Appends, Executing
<1>2. /\ c \in 1 .. Len(calls) /\ calls[c] \in CallRecords
      /\ calls[c].ran <=> pc[s] = "acknowledge"
  BY <1>1, ElementOfSeq DEF ExecutingInv, TypeOK
<1>3. PICK l \in Nat : l = Len(todo[s]) /\ todo[s] \in Seq(EventTypes) /\ (l = 0 <=> todo[s] = << >>)
  BY LenProperties, EmptySeq DEF TypeOK
<1>4. PICK plan : plan = PlanOf(calls[c])
  OBVIOUS
<1>5. PICK m \in Nat : m = Len(plan)
  BY <1>2, <1>4, PlanShape
<1>6. /\ l <= m /\ p = m - l + 1
      /\ \A i \in 1 .. l : todo[s][i] = plan[m - l + i]
  BY <1>1, <1>3, <1>4, <1>5 DEF ProgressInv, Missing
<1>7. /\ Len(Lifecycle(calls[c])) = IF calls[c].ran THEN m + 1 ELSE m
      /\ \A i \in 1 .. m : Lifecycle(calls[c])[i] = plan[i]
      /\ calls[c].ran => Lifecycle(calls[c])[m + 1] = "acknowledged"
  BY <1>2, <1>4, <1>5, LifecycleShape
<1>8. CASE pc[s] = "record"
  <2>1. l # 0
    BY <1>3, <1>8 DEF TodoInv
  <2>2. Due(s) = todo[s][1]
    BY <1>8 DEF Due
  <2>3. Due(s) = plan[p] /\ p \in 1 .. m
    BY <1>6, <2>1, <2>2
  <2>4. Len(Lifecycle(calls[c])) = m /\ Lifecycle(calls[c])[p] = plan[p]
    BY <1>2, <1>7, <1>8, <2>3
  <2>5. p <= m /\ (l = 1 => p = m)
    BY <1>6, <2>3
  <2> QED BY <1>2, <1>3, <1>8, <2>3, <2>4, <2>5
<1>9. CASE pc[s] = "acknowledge"
  <2>1. l = 0
    BY <1>3, <1>9 DEF TodoInv
  <2> QED BY <1>2, <1>6, <1>7, <1>9, <2>1 DEF Due
<1> QED BY <1>1, <1>8, <1>9

LEMMA ActRecordedInOrder ==
  ASSUME MainInv, ProgressInv, PlacesInv, RecordedInOrder, NEW s \in Sessions, Act(s)
  PROVE  RecordedInOrder'
<1> USE DEF MainInv
<1>0. PICK k \in Nat : k = Len(journal)
  BY LenProperties DEF TypeOK
<1> SUFFICES ASSUME NEW c \in 1 .. Len(calls'), NEW n \in Recorded(c)'
             PROVE  /\ Place(n)' <= Len(Lifecycle(calls'[c]))
                    /\ journal'[n].type = Lifecycle(calls'[c])[Place(n)']
  BY DEF RecordedInOrder, Lifecycle, PlanOf
<1>1. \* Of the old calls each keeps the lifecycle it had or makes it longer.
      ASSUME c \in 1 .. Len(calls), NEW i, i \in Nat, i >= 1, i <= Len(Lifecycle(calls[c]))
      PROVE  /\ i <= Len(Lifecycle(calls'[c]))
             /\ Lifecycle(calls'[c])[i] = Lifecycle(calls[c])[i]
  <2>1. CASE calls'[c] = calls[c]
    BY <1>1, <2>1
  <2>2. CASE Executing(s) /\ c = current[s]
    <3>1. /\ calls[c] \in CallRecords /\ calls'[c] \in CallRecords
          /\ PlanOf(calls'[c]) = PlanOf(calls[c])
      BY <1>1, CallSteps, SamePlan
    <3>2. calls[c].ran => calls'[c].ran
      <4>1. calls[c].ran => pc[s] = "acknowledge"
        BY <2>2 DEF ExecutingInv
      <4>2. ASSUME calls[c].ran, NEW kind \in {"result", "error"}, NEW ack \in Ids \cup {Null},
                   Tell(s, kind, ack)
            PROVE  calls'[c].ran
        <5>0. current[s] \in 1 .. Len(calls)
          BY <1>1, <2>2
        <5>1. calls'[current[s]] = [calls[current[s]] EXCEPT !.told = Answer(kind, ack)]
          BY <4>2, <5>0, TellShape
        <5>2. current[s] = c
          BY <2>2
        <5> QED BY <3>1, <4>2, <5>1, <5>2 DEF CallRecords
      <4>3. pc[s] = "acknowledge" =>
              UNCHANGED calls \/ Acknowledge(s) \/ AcknowledgeFails(s)
        BY DEF Act, Open, BeginCall, Record, RecordFails, CallDownstream, Crash
      <4>4. Acknowledge(s) \/ AcknowledgeFails(s) =>
              \E kind \in {"result", "error"}, ack \in Ids \cup {Null} : Tell(s, kind, ack)
        BY DEF Acknowledge, AcknowledgeFails, EventId, Ids, TypeOK
      <4> QED BY <4>1, <4>2, <4>3, <4>4
    <3>3. PICK m \in Nat : m = Len(PlanOf(calls[c]))
      BY <3>1, LifecycleShape
    <3>6. PICK old \in CallRecords, new \in CallRecords : old = calls[c] /\ new = calls'[c]
      BY <3>1
    <3>7. /\ Len(Lifecycle(old)) = IF old.ran THEN Len(PlanOf(old)) + 1 ELSE Len(PlanOf(old))
          /\ \A h \in 1 .. Len(PlanOf(old)) : Lifecycle(old)[h] = PlanOf(old)[h]
          /\ old.ran => Lifecycle(old)[Len(PlanOf(old)) + 1] = "acknowledged"
      BY LifecycleShape
    <3>8. /\ Len(Lifecycle(new)) = IF new.ran THEN Len(PlanOf(new)) + 1 ELSE Len(PlanOf(new))
          /\ \A h \in 1 .. Len(PlanOf(new)) : Lifecycle(new)[h] = PlanOf(new)[h]
          /\ new.ran => Lifecycle(new)[Len(PlanOf(new)) + 1] = "acknowledged"
      BY LifecycleShape
    <3>9. PlanOf(new) = PlanOf(old) /\ m = Len(PlanOf(old))
      BY <3>1, <3>3, <3>6
    <3>4. CASE calls[c].ran
      <4>1. old.ran /\ new.ran
        BY <3>2, <3>4, <3>6
      <4>2. i \in 1 .. m \/ i = m + 1
        BY <1>1, <3>6, <3>7, <3>9, <4>1
      <4> QED BY <3>6, <3>7, <3>8, <3>9, <4>1, <4>2
    <3>5. CASE ~calls[c].ran
      <4>1. i \in 1 .. m
        BY <1>1, <3>5, <3>6, <3>7, <3>9
      <4> QED BY <3>6, <3>7, <3>8, <3>9, <4>1
    <3> QED BY <3>4, <3>5
  <2> QED BY <1>1, <2>1, <2>2, CallSteps
<1>2. c \in 1 .. Len(calls)
  <2>1. journal'[n].call = c /\ n \in Positions'
    BY DEF Recorded
  <2>2. CASE UNCHANGED journal
    BY <2>1, <2>2, RecordedKept DEF PlacesInv
  <2>3. CASE Appends(s)
    <3>1. ~BeginCall(s)
      BY <2>3 DEF Appends, BeginCall
    <3> QED BY <3>1, CallSteps
  <2> QED BY <2>2, <2>3, JournalSteps
<1>3. ASSUME n \in Recorded(c), journal'[n] = journal[n], Place(n)' = Place(n)
      PROVE  /\ Place(n)' <= Len(Lifecycle(calls'[c]))
             /\ journal'[n].type = Lifecycle(calls'[c])[Place(n)']
  <2>1. /\ Place(n) <= Len(Lifecycle(calls[c]))
        /\ journal[n].type = Lifecycle(calls[c])[Place(n)]
    BY <1>2, <1>3 DEF RecordedInOrder
  <2>2. Place(n) \in Nat /\ Place(n) >= 1
    BY <1>3, PlacesAreNumbers
  <2> QED BY <1>1, <1>2, <1>3, <2>1, <2>2
<1>4. CASE UNCHANGED journal
  BY <1>3, <1>4, RecordedKept
<1>5. CASE Appends(s)
  <2>1. PICK e : e = current[s]
    OBVIOUS
  <2>2. n \in 1 .. k \/ n = k + 1
    <3>1. n \in Positions'
      BY DEF Recorded
    <3>2. Positions' = 1 .. (k + 1)
      BY <1>0, <1>5, <2>1, RecordedAppended
    <3> QED BY <3>1, <3>2
  <2>3. CASE n \in 1 .. k
    <3>1. journal'[n] = journal[n] /\ Place(n)' = Place(n)
      BY <1>0, <1>5, <2>1, <2>3, RecordedAppended
    <3>2. n \in Recorded(c)
      BY <1>0, <2>3, <3>1 DEF Recorded, Positions
    <3> QED BY <1>3, <3>1, <3>2
  <2>4. CASE n = k + 1
    <3>1. journal'[n] = Event(s, Due(s))
      BY <1>0, <1>5, <2>4, AppendedPositions
    <3>2. journal'[n].type = Due(s) /\ journal'[n].call = e
      BY <1>5, <2>1, <3>1, EventShape DEF Appends
    <3>3. c = e
      BY <3>2 DEF Recorded
    <3>4. PICK p \in Nat : p = Cardinality(Recorded(c)) + 1 /\ p >= 1
      BY RecordedIsFinite
    <3>5. Place(n)' = p
      BY <1>0, <1>5, <2>1, <2>4, <3>3, <3>4, RecordedAppended
    <3>6. p <= Len(Lifecycle(calls[c])) /\ Due(s) = Lifecycle(calls[c])[p]
      BY <1>5, <2>1, <3>3, <3>4, NextOfLifecycle
    <3> QED BY <1>1, <1>2, <3>2, <3>4, <3>5, <3>6
  <2> QED BY <2>2, <2>3, <2>4
<1> QED BY <1>4, <1>5, JournalSteps

----------------------------------------------------------------------------
(***************************************************************************)
(* What callers are told.                                                  *)
(***************************************************************************)
\* How a step can change a call: its tool runs, or its caller hears of an
\* error, of a plan that ended without dispatch, or of an acknowledgement.
LEMMA AnswerSteps ==
  ASSUME MainInv, NEW s \in Sessions, Act(s), NEW c \in 1 .. Len(calls), calls'[c] # calls[c]
  PROVE  /\ c = current[s] /\ Executing(s)
         /\ \/ /\ pc[s] = "call" /\ UNCHANGED journal
               /\ calls'[c].ran = TRUE /\ calls'[c].told = calls[c].told
            \/ calls'[c].ran = calls[c].ran /\ calls'[c].told = Answer("error", Null)
            \/ /\ Appends(s) /\ pc[s] = "record" /\ Len(todo[s]) = 1 /\ ~Dispatches(calls[c])
               /\ calls'[c].ran = calls[c].ran /\ calls'[c].told = Answer("result", Null)
            \/ /\ Appends(s) /\ pc[s] = "acknowledge"
               /\ calls'[c].ran = calls[c].ran /\ calls'[c].told = Answer("result", EventId(s))
<1> USE DEF MainInv
<1>1. c = current[s] /\ Executing(s) /\ calls[c] \in CallRecords
  BY CallSteps
<1>2. current[s] \in 1 .. Len(calls) /\ EventId(s) \in Ids
  BY <1>1 DEF EventId, Ids, TypeOK
<1>3. CASE CallDownstream(s)
  <2>1. calls'[c] = [calls[c] EXCEPT !.ran = TRUE]
    BY <1>1, <1>2, <1>3, RanShape
  <2>2. calls'[c].ran = TRUE /\ calls'[c].told = calls[c].told
    BY <1>1, <2>1 DEF CallRecords
  <2>3. pc[s] = "call" /\ UNCHANGED journal
    BY <1>3 DEF CallDownstream
  <2> QED BY <1>1, <2>2, <2>3
<1>0. ASSUME NEW kind \in {"result", "error"}, NEW ack \in Ids \cup {Null}, Tell(s, kind, ack)
      PROVE  calls'[c].ran = calls[c].ran /\ calls'[c].told = Answer(kind, ack)
  <2>1. calls'[c] = [calls[c] EXCEPT !.told = Answer(kind, ack)]
    BY <1>0, <1>1, <1>2, TellShape
  <2> QED BY <1>1, <2>1 DEF CallRecords
<1>4. CASE RecordFails(s) \/ AcknowledgeFails(s)
  <2>1. Tell(s, "error", Null)
    BY <1>4 DEF RecordFails, AcknowledgeFails
  <2> QED BY <1>0, <1>1, <2>1
<1>5. CASE Record(s)
  <2>1. /\ Appends(s) /\ pc[s] = "record" /\ Len(todo[s]) = 1 /\ ~Dispatches(calls[current[s]])
        /\ Tell(s, "result", Null)
    BY <1>5, RecordShape
  <2> QED BY <1>0, <1>1, <2>1
<1>6. CASE Acknowledge(s)
  <2>1. Appends(s) /\ pc[s] = "acknowledge" /\ Tell(s, "result", EventId(s))
    BY <1>6 DEF Acknowledge, Commit, Appends, Due
  <2> QED BY <1>0, <1>1, <1>2, <2>1
<1>7. ~BeginCall(s) /\ ~Open(s) /\ ~Crash(s)
  BY BeginShape DEF Open, Crash
<1> QED BY <1>3, <1>4, <1>5, <1>6, <1>7 DEF Act

\* A session goes on with its call until the caller is told or it closes.
LEMMA SessionSteps ==
  ASSUME MainInv, NEW s \in Sessions, Act(s)
  PROVE  \/ life'[s] = life[s] + 1
         \/ pc'[s] = "closed"
         \/ pc[s] = "ready" /\ life'[s] = life[s]
         \/ /\ Executing(s) /\ current'[s] = current[s] /\ life'[s] = life[s]
            /\ Executing(s)' \/ calls'[current[s]].told.kind # "none"
<1> USE DEF MainInv
<1>0. Executing(s) => current[s] \in 1 .. Len(calls) /\ calls[current[s]] \in CallRecords
  BY ElementOfSeq DEF ExecutingInv, TypeOK
<1>1. ASSUME Executing(s), NEW kind \in {"result", "error"}, NEW ack \in Ids \cup {Null},
             Tell(s, kind, ack)
      PROVE  calls'[current[s]].told.kind # "none"
  <2>1. calls'[current[s]] = [calls[current[s]] EXCEPT !.told = Answer(kind, ack)]
    BY <1>0, <1>1, TellShape
  <2> QED BY <1>0, <1>1, <2>1 DEF CallRecords, Answer
<1>2. EventId(s) \in Ids
  BY DEF EventId, Ids, TypeOK
<1>3. CASE Open(s)
  BY <1>3 DEF Open, TypeOK
<1>4. CASE BeginCall(s)
  BY <1>4 DEF BeginCall
<1>5. CASE Record(s)
  <2>1. Executing(s) /\ current'[s] = current[s] /\ life'[s] = life[s]
    BY <1>5, RecordShape DEF Executing
  <2>2. pc'[s] \in {"record", "call"} \/ Tell(s, "result", Null)
    BY <1>5, RecordShape
  <2> QED BY <1>1, <2>1, <2>2 DEF Executing
<1>6. CASE RecordFails(s) \/ Acknowledge(s) \/ AcknowledgeFails(s)
  BY <1>1, <1>2, <1>6 DEF RecordFails, Acknowledge, AcknowledgeFails, Executing
<1>7. CASE CallDownstream(s)
  BY <1>7 DEF CallDownstream, Goto, Executing, TypeOK
<1>8. CASE Crash(s)
  BY <1>8 DEF Crash, Goto, TypeOK
<1> QED BY <1>3, <1>4, <1>5, <1>6, <1>7, <1>8 DEF Act

LEMMA RecordedGrows ==
  ASSUME MainInv, NEW s \in Sessions, Act(s), NEW c
  PROVE  /\ Cardinality(Recorded(c)) \in Nat /\ Cardinality(Recorded(c))' \in Nat
         /\ \/ Cardinality(Recorded(c))' = Cardinality(Recorded(c))
            \/ /\ Appends(s) /\ c = current[s]
               /\ Cardinality(Recorded(c))' = Cardinality(Recorded(c)) + 1
<1> USE DEF MainInv
<1>0. PICK k, e : k = Len(journal) /\ e = current[s]
  OBVIOUS
<1>1. Cardinality(Recorded(c)) \in Nat
  BY RecordedIsFinite
<1>2. CASE UNCHANGED journal
  BY <1>1, <1>2, RecordedKept
<1>3. CASE Appends(s) /\ c = e
  BY <1>0, <1>1, <1>3, RecordedAppended
<1>4. CASE Appends(s) /\ c # e
  <2>1. Recorded(c)' = Recorded(c)
    BY <1>0, <1>4, RecordedAppended
  <2> QED BY <1>1, <2>1
<1> QED BY <1>0, <1>2, <1>3, <1>4, JournalSteps

\* A tool runs when its session has recorded the whole plan.
LEMMA ActRanIsRecorded ==
  ASSUME MainInv, ProgressInv, NEW s \in Sessions, Act(s),
         NEW c \in 1 .. Len(calls), RanIsRecorded(c)
  PROVE  RanIsRecorded(c)'
<1> USE DEF MainInv
<1>1. /\ calls[c] \in CallRecords /\ PlanOf(calls'[c]) = PlanOf(calls[c])
      /\ Dispatches(calls'[c]) = Dispatches(calls[c])
  BY CallSteps, SamePlan
<1>2. PICK m \in Nat : m = Len(PlanOf(calls[c]))
  BY <1>1, PlanShape
<1>3. PICK r \in Nat : r = Cardinality(Recorded(c))
  BY RecordedIsFinite
<1>4. Cardinality(Recorded(c))' = r \/ Cardinality(Recorded(c))' = r + 1
  BY <1>3, RecordedGrows
<1> SUFFICES ASSUME calls'[c].ran
             PROVE  Dispatches(calls[c]) /\ r >= m
  BY <1>1, <1>2, <1>3, <1>4 DEF RanIsRecorded, Dispatches, PlanOf
<1>5. CASE calls[c].ran
  BY <1>2, <1>3, <1>5 DEF RanIsRecorded
<1>6. CASE ~calls[c].ran
  <2>1. c = current[s] /\ Executing(s) /\ pc[s] = "call"
    BY <1>6, AnswerSteps
  <2>2. Dispatches(calls[c])
    BY <2>1 DEF ExecutingInv
  <2>3. todo[s] = << >>
    BY <2>1 DEF TodoInv
  <2>4. r = m - 0
    BY <1>2, <1>3, <2>1, <2>3, EmptySeq DEF ProgressInv, Missing
  <2> QED BY <2>2, <2>4
<1> QED BY <1>5, <1>6

LEMMA ActUntoldIsExecuting ==
  ASSUME MainInv, SpentInv, NEW s \in Sessions, Act(s),
         NEW c \in 1 .. Len(calls), UntoldIsExecuting(c)
  PROVE  UntoldIsExecuting(c)'
<1> USE DEF MainInv
<1>1. /\ calls[c] \in CallRecords /\ calls'[c].session = calls[c].session
      /\ calls'[c].life = calls[c].life
  BY CallSteps DEF SameCall
<1>2. PICK d \in Sessions : d = calls[c].session
  BY <1>1 DEF CallRecords
<1> SUFFICES ASSUME calls'[c].told.kind = "none", calls[c].life = life'[d], pc'[d] # "closed"
             PROVE  Executing(d)' /\ current'[d] = c
  BY <1>1, <1>2 DEF UntoldIsExecuting, Executing
<1>3. calls[c].told.kind = "none"
  <2>1. CASE calls'[c].told = calls[c].told
    BY <2>1
  <2>2. CASE \E kind \in {"error", "result"} : \E ack : calls'[c].told = Answer(kind, ack)
    BY <2>2 DEF Answer
  <2> QED BY <2>1, <2>2, AnswerSteps
<1>4. calls[c].life <= life[d] /\ life[d] \in Nat /\ calls[c].life \in Nat
  BY <1>1, <1>2 DEF SpentInv, CallRecords, TypeOK
<1>5. CASE d # s
  BY <1>2, <1>3, <1>5, OthersSteps DEF OthersAlone, UntoldIsExecuting, Executing
<1>6. CASE d = s
  <2>1. life'[s] # life[s] + 1
    BY <1>4, <1>6
  <2>2. ~(pc[s] = "ready" /\ life'[s] = life[s])
    BY <1>2, <1>3, <1>6 DEF UntoldIsExecuting, Executing
  <2>3. /\ Executing(s) /\ current'[s] = current[s] /\ life'[s] = life[s]
        /\ Executing(s)' \/ calls'[current[s]].told.kind # "none"
    BY <1>6, <2>1, <2>2, SessionSteps
  <2>4. pc[s] # "closed"
    BY <2>3 DEF Executing
  <2>5. current[s] = c
    BY <1>2, <1>3, <1>6, <2>3, <2>4 DEF UntoldIsExecuting
  <2> QED BY <1>6, <2>3, <2>5
<1> QED BY <1>5, <1>6

\* Who hears a result hears it with the last event of the lifecycle.
LEMMA ActToldIsRecorded ==
  ASSUME MainInv, ProgressInv, NEW s \in Sessions, Act(s),
         NEW c \in 1 .. Len(calls), ToldIsRecorded(c)
  PROVE  ToldIsRecorded(c)'
<1> USE DEF MainInv
<1>0. PICK k \in Nat : k = Len(journal)
  BY LenProperties DEF TypeOK
<1>1. /\ calls[c] \in CallRecords /\ PlanOf(calls'[c]) = PlanOf(calls[c])
      /\ Dispatches(calls'[c]) = Dispatches(calls[c])
  BY CallSteps, SamePlan
<1>2. PICK r \in Nat : r = Cardinality(Recorded(c))
  BY RecordedIsFinite
<1>3. ASSUME calls'[c].told.kind = "result",
             Cardinality(Recorded(c))' = Len(Lifecycle(calls'[c])),
             calls'[c].ran <=> Dispatches(calls'[c]),
             IF calls'[c].ran THEN \E n \in Positions' : journal'[n].id = calls'[c].told.ack
                              ELSE calls'[c].told.ack = Null
      PROVE  ToldIsRecorded(c)'
  BY <1>3 DEF ToldIsRecorded, Lifecycle, PlanOf, Dispatches
<1>4. ASSUME calls'[c].told.kind # "result"
      PROVE  ToldIsRecorded(c)'
  BY <1>4 DEF ToldIsRecorded
<1>5. CASE calls'[c] = calls[c] /\ calls[c].told.kind = "result"
  <2>1. ~(c = current[s] /\ Executing(s))
    BY <1>5 DEF ExecutingInv, Pending
  <2>2. Cardinality(Recorded(c))' = r
    BY <1>2, <2>1, RecordedGrows DEF Appends, Executing
  <2>3. \A n \in Positions : n \in Positions' /\ journal'[n] = journal[n]
    BY JournalSteps, AppendedPositions, RecordedKept
  <2>4. /\ r = Len(Lifecycle(calls[c]))
        /\ calls[c].ran <=> Dispatches(calls[c])
        /\ IF calls[c].ran THEN \E n \in Positions : journal[n].id = calls[c].told.ack
                           ELSE calls[c].told.ack = Null
    BY <1>2, <1>5 DEF ToldIsRecorded
  <2>5. IF calls'[c].ran THEN \E n \in Positions' : journal'[n].id = calls'[c].told.ack
                         ELSE calls'[c].told.ack = Null
    BY <1>5, <2>3, <2>4
  <2>6. /\ Cardinality(Recorded(c))' = Len(Lifecycle(calls'[c]))
        /\ calls'[c].ran <=> Dispatches(calls'[c])
    <3>1. Lifecycle(calls'[c]) = Lifecycle(calls[c])
      BY <1>1, <1>5 DEF Lifecycle
    <3>2. calls'[c].ran = calls[c].ran
      BY <1>5
    <3> QED BY <1>1, <2>2, <2>4, <3>1, <3>2
  <2> QED BY <1>3, <1>5, <2>5, <2>6
<1>6. ASSUME Appends(s), c = current[s], NEW ack \in Ids \cup {Null},
             calls'[c].ran = calls[c].ran, calls'[c].told = Answer("result", ack),
             r + 1 = Len(Lifecycle(calls[c])), calls[c].ran <=> Dispatches(calls[c]),
             IF calls[c].ran THEN ack = EventId(s) ELSE ack = Null
      PROVE  ToldIsRecorded(c)'
  <2>1. /\ calls'[c].ran = calls[c].ran /\ calls'[c].told.kind = "result"
        /\ calls'[c].told.ack = ack
    BY <1>6 DEF Answer
  <2>2. Lifecycle(calls'[c]) = Lifecycle(calls[c])
    BY <1>1, <2>1 DEF Lifecycle
  <2>3. Cardinality(Recorded(c))' = r + 1
    BY <1>0, <1>2, <1>6, RecordedAppended
  <2>4. k + 1 \in Positions' /\ journal'[k + 1].id = EventId(s)
    BY <1>0, <1>6, AppendedPositions, EventShape DEF Appends
  <2> QED BY <1>1, <1>3, <1>6, <2>1, <2>2, <2>3, <2>4
<1>7. CASE /\ c = current[s] /\ Executing(s) /\ pc[s] = "call"
           /\ calls'[c].told = calls[c].told
  <2>1. calls[c].told = Pending
    BY <1>7 DEF ExecutingInv
  <2> QED BY <1>4, <1>7, <2>1 DEF Pending
<1>8. CASE calls'[c].told = Answer("error", Null)
  BY <1>4, <1>8 DEF Answer
<1>9. CASE /\ c = current[s] /\ Executing(s) /\ Appends(s) /\ pc[s] = "record"
           /\ Len(todo[s]) = 1 /\ ~Dispatches(calls[c])
           /\ calls'[c].ran = calls[c].ran /\ calls'[c].told = Answer("result", Null)
  <2>1. r + 1 = Len(Lifecycle(calls[c]))
    BY <1>2, <1>9, NextOfLifecycle
  <2>2. ~calls[c].ran
    BY <1>9 DEF ExecutingInv
  <2> QED BY <1>6, <1>9, <2>1, <2>2
<1>10. CASE /\ c = current[s] /\ Executing(s) /\ Appends(s) /\ pc[s] = "acknowledge"
            /\ calls'[c].ran = calls[c].ran /\ calls'[c].told = Answer("result", EventId(s))
  <2>1. r + 1 = Len(Lifecycle(calls[c]))
    BY <1>2, <1>10, NextOfLifecycle
  <2>2. calls[c].ran /\ Dispatches(calls[c])
    BY <1>10 DEF ExecutingInv
  <2>3. EventId(s) \in Ids
    BY DEF EventId, Ids, TypeOK
  <2> QED BY <1>6, <1>10, <2>1, <2>2, <2>3
<1> QED BY <1>4, <1>5, <1>7, <1>8, <1>9, <1>10, AnswerSteps

LEMMA ActHistoryInv ==
  ASSUME MainInv, SpentInv, ProgressInv, HistoryInv, NEW s \in Sessions, Act(s)
  PROVE  HistoryInv'
<1> USE DEF MainInv
<1> SUFFICES ASSUME NEW c \in 1 .. Len(calls')
             PROVE  RanIsRecorded(c)' /\ UntoldIsExecuting(c)' /\ ToldIsRecorded(c)'
  BY DEF HistoryInv
<1>1. CASE c \in 1 .. Len(calls)
  BY <1>1, ActRanIsRecorded, ActUntoldIsExecuting, ActToldIsRecorded DEF HistoryInv
<1>2. CASE c = Len(calls) + 1 /\ BeginCall(s)
  <2>1. PICK policy, request, approval, accepted :
          /\ calls'[Len(calls) + 1] = NewCall(s, policy, request, approval, accepted)
          /\ current'[s] = Len(calls) + 1 /\ pc'[s] = "record"
    BY <1>2, BeginShape
  <2>2. /\ calls'[c].ran = FALSE /\ calls'[c].told.kind = "none" /\ calls'[c].session = s
        /\ current'[s] = c /\ pc'[s] = "record"
    BY <1>2, <2>1 DEF NewCall, Pending
  <2> QED BY <2>2 DEF RanIsRecorded, UntoldIsExecuting, ToldIsRecorded, Executing
<1> QED BY <1>1, <1>2, CallIndexes

\* The inductive invariant of the journal's account of the calls.
AccountInv == SpentInv /\ ProgressInv /\ PlacesInv /\ HistoryInv

\* What the journal holds of a call is the beginning of its lifecycle, whatever
\* fails, however calls of other sessions interleave.
THEOREM CallsAreRecordedInOrder == Spec => [](AccountInv /\ RecordedInOrder)
<1>1. Init => AccountInv /\ RecordedInOrder
  <2> SUFFICES ASSUME Init PROVE AccountInv /\ RecordedInOrder
    OBVIOUS
  <2>1. \A c : c \notin 1 .. Len(calls)
    BY DEF Init
  <2>2. Positions = {} /\ \A s \in Sessions : ~Executing(s)
    BY DEF Init, Positions, Executing
  <2> QED BY <2>1, <2>2 DEF AccountInv, SpentInv, ProgressInv, PlacesInv, HistoryInv,
                            RecordedInOrder
<1>2. MainInv /\ AccountInv /\ RecordedInOrder /\ [Next]_vars => (AccountInv /\ RecordedInOrder)'
  <2> SUFFICES ASSUME MainInv, AccountInv, RecordedInOrder, [Next]_vars
               PROVE  (AccountInv /\ RecordedInOrder)'
    OBVIOUS
  <2>1. CASE UNCHANGED vars \/ Pass
    <3>1. /\ journal' = journal /\ pc' = pc /\ life' = life /\ used' = used
          /\ current' = current /\ todo' = todo /\ calls' = calls
      BY <2>1 DEF vars, Pass
    <3>2. SpentInv'
      BY <3>1 DEF AccountInv, SpentInv
    <3>3. ProgressInv'
      BY <3>1 DEF AccountInv, ProgressInv, Missing, Executing, Recorded, Positions, PlanOf
    <3>a. Positions' = Positions /\ Len(calls') = Len(calls)
      BY <3>1 DEF Positions
    <3>b. \A c : Recorded(c)' = Recorded(c)
      BY <3>1 DEF Recorded, Positions
    <3>c. \A n : Place(n)' = Place(n)
      BY <3>1 DEF Place
    <3>4. PlacesInv'
      BY <3>1, <3>a, <3>b, <3>c DEF AccountInv, PlacesInv
    <3>5. RecordedInOrder'
      <4>1. \A c : Lifecycle(calls[c])' = Lifecycle(calls[c])
        BY <3>1 DEF Lifecycle, PlanOf
      <4> QED BY <3>1, <3>a, <3>b, <3>c, <4>1 DEF RecordedInOrder
    <3>6. ASSUME NEW c \in 1 .. Len(calls)
          PROVE  RanIsRecorded(c)' /\ UntoldIsExecuting(c)' /\ ToldIsRecorded(c)'
      <4>1. RanIsRecorded(c) /\ UntoldIsExecuting(c) /\ ToldIsRecorded(c)
        BY DEF AccountInv, HistoryInv
      <4>2. RanIsRecorded(c)'
        BY <3>1, <4>1 DEF RanIsRecorded, Recorded, Positions, PlanOf, Dispatches
      <4>3. UntoldIsExecuting(c)'
        BY <3>1, <4>1 DEF UntoldIsExecuting, Executing
      <4>4. ToldIsRecorded(c)'
        BY <3>1, <4>1 DEF ToldIsRecorded, Recorded, Positions, PlanOf, Dispatches, Lifecycle
      <4> QED BY <4>2, <4>3, <4>4
    <3>7. HistoryInv'
      BY <3>1, <3>6 DEF HistoryInv
    <3> QED BY <3>2, <3>3, <3>4, <3>5, <3>7 DEF AccountInv
  <2>2. ASSUME NEW s \in Sessions, Act(s) PROVE (AccountInv /\ RecordedInOrder)'
    BY <2>2, ActSpentInv, ActProgressInv, ActPlacesInv, ActHistoryInv, ActRecordedInOrder
       DEF AccountInv
  <2> QED BY <2>1, <2>2 DEF Next, Act
<1> QED BY <1>1, <1>2, SessionsExecuteTheirCalls, PTL DEF Spec

\* A place of a call that is taken holds the event its lifecycle has there.
LEMMA TakenPlaces ==
  ASSUME PlacesInv, RecordedInOrder, NEW c \in 1 .. Len(calls),
         NEW i \in 1 .. Cardinality(Recorded(c))
  PROVE  \E n \in Recorded(c) : Place(n) = i /\ journal[n].type = Lifecycle(calls[c])[i]
<1>1. PICK n \in Recorded(c) : Place(n) = i
  BY DEF PlacesInv
<1> QED BY <1>1 DEF RecordedInOrder

\* A tool is only called when its whole plan is in the journal.
THEOREM ToolsRunOnRecordedPlans == Spec => []ToolsRunOnEvidence
<1>1. ASSUME MainInv, AccountInv, RecordedInOrder
      PROVE  ToolsRunOnEvidence
  <2> USE <1>1 DEF MainInv, AccountInv
  <2> SUFFICES ASSUME NEW c \in 1 .. Len(calls), calls[c].ran
               PROVE  /\ \A i \in 1 .. Len(PlanOf(calls[c])) :
                           \E n \in Recorded(c) :
                             Place(n) = i /\ journal[n].type = PlanOf(calls[c])[i]
                      /\ "authorized" \in Types(c)
    BY DEF ToolsRunOnEvidence
  <2>1. calls[c] \in CallRecords
    BY ElementOfSeq DEF TypeOK
  <2>2. PICK m \in Nat : m = Len(PlanOf(calls[c]))
    BY <2>1, PlanShape
  <2>3. PICK r \in Nat : r = Cardinality(Recorded(c))
    BY RecordedIsFinite
  <2>4. Dispatches(calls[c]) /\ r >= m
    BY <2>2, <2>3 DEF HistoryInv, RanIsRecorded
  <2>5. ASSUME NEW i \in 1 .. m
        PROVE  \E n \in Recorded(c) : Place(n) = i /\ journal[n].type = PlanOf(calls[c])[i]
    <3>1. i \in 1 .. Cardinality(Recorded(c))
      BY <2>3, <2>4
    <3>2. Lifecycle(calls[c])[i] = PlanOf(calls[c])[i]
      BY <2>1, <2>2, LifecycleShape
    <3> QED BY <3>1, <3>2, TakenPlaces
  <2>6. m >= 4 /\ PlanOf(calls[c])[3] = "authorized"
    BY <2>1, <2>2, <2>4, PlanShape
  <2>7. 3 \in 1 .. m
    BY <2>6
  <2> QED BY <2>2, <2>5, <2>6, <2>7 DEF Types
<1> QED BY <1>1, SessionsExecuteTheirCalls, CallsAreRecordedInOrder, PTL

\* What a caller is told is in the journal, and a caller whose tool ran without
\* an acknowledgement is told an error, or its process died or is still at it.
THEOREM ResultsStandInTheJournal == Spec => []ResultsAreRecorded
<1>1. ASSUME MainInv, AccountInv, RecordedInOrder
      PROVE  ResultsAreRecorded
  <2> USE <1>1 DEF MainInv, AccountInv
  <2> SUFFICES ASSUME NEW c \in 1 .. Len(calls)
               PROVE  /\ calls[c].told.kind = "result" =>
                           /\ calls[c].ran <=> "not_dispatched" \notin Types(c)
                           /\ calls[c].ran <=> \E n \in Positions : journal[n].id = calls[c].told.ack
                      /\ calls[c].ran /\ "acknowledged" \notin Types(c) =>
                           \/ calls[c].told.kind = "error"
                           \/ /\ calls[c].told.kind = "none"
                              /\ \/ life[calls[c].session] # calls[c].life
                                 \/ pc[calls[c].session] \in {"acknowledge", "closed"}
    BY DEF ResultsAreRecorded
  <2>1. calls[c] \in CallRecords
    BY ElementOfSeq DEF TypeOK
  <2>2. PICK m \in Nat : m = Len(PlanOf(calls[c]))
    BY <2>1, PlanShape
  <2>3. PICK r \in Nat : r = Cardinality(Recorded(c))
    BY RecordedIsFinite
  <2>4. \A i \in 1 .. r : Lifecycle(calls[c])[i] \in Types(c)
    BY <2>3, TakenPlaces DEF Types
  <2>5. CASE calls[c].told.kind = "result" /\ ~calls[c].ran
    <3>1. ~Dispatches(calls[c]) /\ r = m /\ calls[c].told.ack = Null
      BY <2>1, <2>2, <2>3, <2>5, LifecycleShape DEF HistoryInv, ToldIsRecorded
    <3>2. m >= 3 /\ PlanOf(calls[c])[3] = "not_dispatched"
      BY <2>1, <2>2, <3>1, PlanShape
    <3>3. 3 \in 1 .. r /\ Lifecycle(calls[c])[3] = "not_dispatched"
      BY <2>1, <2>2, <3>1, <3>2, LifecycleShape
    <3>4. "not_dispatched" \in Types(c)
      BY <2>4, <3>3
    <3>5. ~ \E n \in Positions : journal[n].id = Null
      <4> SUFFICES ASSUME NEW n \in Positions PROVE journal[n].id # Null
        OBVIOUS
      <4>1. journal[n] \in Events
        BY ElementOfSeq DEF Positions, TypeOK
      <4> QED BY <4>1, NullAssumption DEF Events, Ids
    <3> QED BY <2>5, <3>1, <3>4, <3>5
  <2>6. CASE calls[c].told.kind = "result" /\ calls[c].ran
    <3>1. /\ Dispatches(calls[c]) /\ r = m + 1
          /\ \E n \in Positions : journal[n].id = calls[c].told.ack
      BY <2>1, <2>2, <2>3, <2>6, LifecycleShape DEF HistoryInv, ToldIsRecorded
    <3>2. Lifecycle(calls[c])[m + 1] = "acknowledged" /\ m + 1 \in 1 .. r
      BY <2>1, <2>2, <2>6, <3>1, LifecycleShape
    <3>3. "acknowledged" \in Types(c)
      BY <2>4, <3>2
    <3>4. "not_dispatched" \notin Types(c)
      <4> SUFFICES ASSUME NEW n \in Recorded(c), journal[n].type = "not_dispatched"
                   PROVE  FALSE
        BY DEF Types
      <4>1. PICK p : p = Place(n)
        OBVIOUS
      <4>2. p <= m + 1 /\ Lifecycle(calls[c])[p] = "not_dispatched"
        BY <2>1, <2>2, <2>6, <4>1, LifecycleShape DEF RecordedInOrder
      <4>3. p \in Nat /\ p >= 1
        BY <4>1, PlacesAreNumbers
      <4>4. p \in 1 .. m \/ p = m + 1
        BY <4>2, <4>3
      <4> QED BY <2>1, <2>2, <3>1, <3>2, <4>2, <4>4, PlanShape, LifecycleShape
    <3> QED BY <2>6, <3>1, <3>3, <3>4
  <2>7. CASE calls[c].told.kind = "none"
    <3>1. ASSUME calls[c].ran, life[calls[c].session] = calls[c].life,
                 pc[calls[c].session] # "closed"
          PROVE  pc[calls[c].session] = "acknowledge"
      <4>1. Executing(calls[c].session) /\ current[calls[c].session] = c
        BY <2>7, <3>1 DEF HistoryInv, UntoldIsExecuting
      <4>2. calls[c].session \in Sessions
        BY <2>1 DEF CallRecords
      <4> QED BY <3>1, <4>1, <4>2 DEF ExecutingInv
    <3> QED BY <2>7, <3>1
  <2>8. CASE calls[c].told.kind = "error"
    BY <2>8
  <2> QED BY <2>1, <2>5, <2>6, <2>7, <2>8 DEF CallRecords, Answers
<1> QED BY <1>1, SessionsExecuteTheirCalls, CallsAreRecordedInOrder, PTL

----------------------------------------------------------------------------
(***************************************************************************)
(* Observers and decisions.  A receiver keeps what was sent, perhaps with  *)
(* another status, so what an observer found there was sent before.        *)
(***************************************************************************)
Kept == Calls \cup {[call EXCEPT !.status = 500] : call \in Calls}

\* A record that a receiver keeps of a call.
IsOf(r, call) == r = call \/ r = [call EXCEPT !.status = 500]

RecordsInv ==
  /\ sent \in Seq(Calls) /\ receipts \in Seq(Kept)
  /\ day \in Nat
  /\ \A i \in DOMAIN receipts : \E call \in Range(sent) : IsOf(receipts[i], call)

\* What an observation of a receiver's records says of what was sent.
SaysWhatWasSent(observed) ==
  observed.expected # None =>
    /\ observed.outcome = "observed" =>
         SentAsExpected(observed.expected) # {} /\ observed.exact = 1
    /\ {call \in Range(sent) : call.key = observed.expected.key} = {} =>
         StatusOf(observed.outcome) = "unverified"

ObservedInv == observation # None => SaysWhatWasSent(observation)

ObserverInv == RecordsInv /\ ObservedInv /\ DecisionsFollowTheRecords

\* A receiver changes no more than the status of what it was sent.
LEMMA KeptFields ==
  ASSUME NEW call \in Calls, NEW r, IsOf(r, call)
  PROVE  r.key = call.key /\ r.part = call.part /\ r.digest = call.digest /\ r.etag = call.etag
<1>1. call = [key |-> call.key, part |-> call.part, digest |-> call.digest,
              status |-> call.status, etag |-> call.etag]
  BY RecordsAssumption
<1>2. CASE r = call
  BY <1>2
<1>3. CASE r = [call EXCEPT !.status = 500]
  BY <1>1, <1>3
<1> QED BY <1>2, <1>3 DEF IsOf

\* Nothing contradicts a record exactly when each field agrees or was not named.
LEMMA NoConflicts ==
  ASSUME NEW r, NEW expected
  PROVE  Conflicts(r, expected) = {} <=>
           \A field \in {"digest", "status", "etag"} : expected[field] \in {None, r[field]}
BY DEF Conflicts

\* A record that an observer matched exactly was sent as it was expected.
LEMMA ExactIsSent ==
  ASSUME RecordsInv, NEW expected \in Expectations, NEW i \in ExactMatches(expected)
  PROVE  SentAsExpected(expected) # {}
<1>1. /\ i \in DOMAIN receipts
      /\ receipts[i].key = expected.key
      /\ expected.part \in {None, receipts[i].part}
      /\ Conflicts(receipts[i], expected) = {}
  BY DEF ExactMatches, Candidates
<1>2. PICK call \in Range(sent) : IsOf(receipts[i], call)
  BY <1>1 DEF RecordsInv
<1>3. call \in Calls
  BY <1>2 DEF RecordsInv, Range
<1>4. /\ receipts[i].key = call.key /\ receipts[i].part = call.part
      /\ receipts[i].digest = call.digest /\ receipts[i].etag = call.etag
  BY <1>2, <1>3, KeptFields
<1> DEFINE asked == [expected EXCEPT !.status = None]
<1>5. asked.digest = expected.digest /\ asked.etag = expected.etag /\ asked.status = None
  BY RecordsAssumption
<1>6. /\ expected.digest \in {None, receipts[i].digest}
      /\ expected.etag \in {None, receipts[i].etag}
  BY <1>1, NoConflicts
<1>7. Conflicts(call, asked) = {}
  <2> HIDE DEF asked
  <2> QED BY <1>4, <1>5, <1>6, NoConflicts
<1>8. call \in SentAsExpected(expected)
  BY <1>1, <1>2, <1>4, <1>7 DEF SentAsExpected
<1> QED BY <1>8

\* The answer of an observer of a receiver's records.
LEMMA ReceiptSays ==
  ASSUME RecordsInv, NEW expected \in Expectations
  PROVE  SaysWhatWasSent(Outcome("receiver", "url", expected, ReceiptOutcome(expected)))
<1> DEFINE exact == ExactMatches(expected)
           found == Candidates(expected)
           observed == Outcome("receiver", "url", expected, ReceiptOutcome(expected))
<1>1. /\ observed.expected = expected
      /\ observed.outcome = ReceiptOutcome(expected)
      /\ expected # None => observed.exact = Cardinality(exact)
  BY DEF Outcome
<1>2. ReceiptOutcome(expected) = "observed" => Cardinality(exact) = 1
  BY DEF ReceiptOutcome
<1>3. Cardinality(exact) = 1 => exact # {}
  BY FS_EmptySet
<1>4. exact # {} => SentAsExpected(expected) # {}
  BY ExactIsSent
<1>5. ASSUME {call \in Range(sent) : call.key = expected.key} = {}
      PROVE  StatusOf(ReceiptOutcome(expected)) = "unverified"
  <2>1. found = {}
    <3> SUFFICES ASSUME NEW i \in found PROVE FALSE
      OBVIOUS
    <3>1. i \in DOMAIN receipts /\ receipts[i].key = expected.key
      BY DEF Candidates
    <3>2. PICK call \in Range(sent) : IsOf(receipts[i], call)
      BY <3>1 DEF RecordsInv
    <3>3. call \in Calls
      BY <3>2 DEF RecordsInv, Range
    <3> QED BY <1>5, <3>1, <3>2, <3>3, KeptFields
  <2>2. exact = {}
    BY <2>1 DEF ExactMatches
  <2>3. ReceiptOutcome(expected) = "unverified"
    BY <2>1, <2>2, <1>3 DEF ReceiptOutcome
  <2>4. StatusOf("unverified") = "unverified"
    BY DEF StatusOf
  <2> QED BY <2>3, <2>4
<1> HIDE DEF observed, exact
<1>6. ASSUME expected # None, observed.outcome = "observed"
      PROVE  SentAsExpected(expected) # {} /\ observed.exact = 1
  BY <1>1, <1>2, <1>3, <1>4, <1>6
<1>7. ASSUME NEW e, e = observed.expected, {call \in Range(sent) : call.key = e.key} = {}
      PROVE  StatusOf(observed.outcome) = "unverified"
  <2>1. e = expected
    BY <1>1, <1>7
  <2> QED BY <1>1, <1>5, <1>7, <2>1
<1>8. SaysWhatWasSent(observed)
  BY <1>1, <1>6, <1>7 DEF SaysWhatWasSent
<1> QED BY <1>8 DEF observed

LEMMA ObserverInitially == ObservationInit => ObserverInv
<1>1. ObservationInit => RecordsInv
  BY EmptySeq DEF ObservationInit, RecordsInv
<1> QED BY <1>1 DEF ObservationInit, ObserverInv, ObservedInv, DecisionsFollowTheRecords

LEMMA RangeOfAppended ==
  ASSUME NEW S, NEW s \in Seq(S), NEW x \in S
  PROVE  Append(s, x) \in Seq(S) /\ Range(Append(s, x)) = Range(s) \cup {x}
<1>1. /\ Append(s, x) \in Seq(S) /\ Len(Append(s, x)) = Len(s) + 1
      /\ \A i \in 1 .. Len(s) : Append(s, x)[i] = s[i]
      /\ Append(s, x)[Len(s) + 1] = x
  BY AppendProperties
<1>2. /\ DOMAIN Append(s, x) = 1 .. Len(s) + 1
      /\ DOMAIN s = 1 .. Len(s) /\ Len(s) \in Nat
  BY <1>1
<1>3. \A i : i \in 1 .. Len(s) + 1 <=> (i \in 1 .. Len(s) \/ i = Len(s) + 1)
  BY <1>2
<1> QED BY <1>1, <1>2, <1>3 DEF Range

\* What was sent stays sent, and what a receiver keeps was sent.
LEMMA NextRecords ==
  ASSUME RecordsInv, [ObservationNext]_observationVars
  PROVE  RecordsInv' /\ Range(sent) \subseteq Range(sent')
<1>1. CASE UNCHANGED <<sent, receipts, day>>
  BY <1>1 DEF RecordsInv
<1>2. CASE Send
  <2>1. PICK call \in Calls :
          /\ sent' = Append(sent, call)
          /\ \/ receipts' = Append(receipts, call)
             \/ receipts' = Append(receipts, [call EXCEPT !.status = 500])
             \/ UNCHANGED receipts
    BY <1>2 DEF Send
  <2>2. sent' \in Seq(Calls) /\ Range(sent') = Range(sent) \cup {call}
    BY <2>1, RangeOfAppended DEF RecordsInv
  <2>3. CASE UNCHANGED receipts
    BY <1>2, <2>2, <2>3 DEF RecordsInv, Send
  <2>4. ASSUME NEW r \in Kept, IsOf(r, call), receipts' = Append(receipts, r)
        PROVE  RecordsInv'
    <3>1. receipts' \in Seq(Kept) /\ DOMAIN receipts' = 1 .. Len(receipts) + 1
          /\ \A i \in DOMAIN receipts : receipts'[i] = receipts[i]
          /\ receipts'[Len(receipts) + 1] = r
      BY <2>4, AppendProperties DEF RecordsInv
    <3>2. DOMAIN receipts = 1 .. Len(receipts) /\ Len(receipts) \in Nat
      BY DEF RecordsInv
    <3>3. ASSUME NEW i \in DOMAIN receipts' PROVE \E c \in Range(sent') : IsOf(receipts'[i], c)
      <4>1. CASE i \in DOMAIN receipts
        BY <2>2, <3>1, <4>1 DEF RecordsInv
      <4>2. CASE i = Len(receipts) + 1
        BY <2>2, <2>4, <3>1, <4>2
      <4> QED BY <3>1, <3>2, <3>3, <4>1, <4>2
    <3> QED BY <1>2, <2>2, <3>1, <3>3 DEF RecordsInv, Send
  <2>5. call \in Kept /\ IsOf(call, call)
    BY DEF Kept, IsOf
  <2>6. [call EXCEPT !.status = 500] \in Kept /\ IsOf([call EXCEPT !.status = 500], call)
    BY DEF Kept, IsOf
  <2> QED BY <2>1, <2>2, <2>3, <2>4, <2>5, <2>6
<1>3. CASE Redeliver
  <2>1. PICK k \in DOMAIN sent : receipts' = Append(receipts, sent[k])
    BY <1>3 DEF Redeliver
  <2>2. sent[k] \in Calls /\ sent[k] \in Range(sent) /\ sent' = sent /\ day' = day
    BY <1>3 DEF RecordsInv, Redeliver, Range
  <2>3. sent[k] \in Kept /\ IsOf(sent[k], sent[k])
    BY <2>2 DEF Kept, IsOf
  <2>4. /\ receipts' \in Seq(Kept) /\ DOMAIN receipts' = 1 .. Len(receipts) + 1
        /\ \A i \in DOMAIN receipts : receipts'[i] = receipts[i]
        /\ receipts'[Len(receipts) + 1] = sent[k]
    BY <2>1, <2>3, AppendProperties DEF RecordsInv
  <2>5. DOMAIN receipts = 1 .. Len(receipts) /\ Len(receipts) \in Nat
    BY DEF RecordsInv
  <2>6. ASSUME NEW i \in DOMAIN receipts' PROVE \E c \in Range(sent) : IsOf(receipts'[i], c)
    <3>1. CASE i \in DOMAIN receipts
      BY <2>4, <3>1 DEF RecordsInv
    <3>2. CASE i = Len(receipts) + 1
      BY <2>2, <2>3, <2>4, <3>2
    <3> QED BY <2>4, <2>5, <2>6, <3>1, <3>2
  <2> QED BY <2>2, <2>4, <2>6 DEF RecordsInv
<1>4. CASE ChangeStore \/ NextDay
  BY <1>4 DEF ChangeStore, NextDay, RecordsInv
<1> QED
  BY <1>1, <1>2, <1>3, <1>4
     DEF ObservationNext, observationVars, Observe, ObserveReceipt, ObserveFile, ObserveRow,
         ObserveProcess, ObserveCloud, ObserveSensor, Verify, SelfReport

\* What an observation says of what was sent stays true when more is sent.
LEMMA SaysOn ==
  ASSUME NEW observed, SaysWhatWasSent(observed), Range(sent) \subseteq Range(sent')
  PROVE  SaysWhatWasSent(observed)'
<1>1. SentAsExpected(observed.expected) \subseteq SentAsExpected(observed.expected)'
  BY DEF SentAsExpected, Conflicts
<1> QED BY <1>1 DEF SaysWhatWasSent

LEMMA NextObserved == ObserverInv /\ [ObservationNext]_observationVars => ObservedInv'
<1> SUFFICES ASSUME ObserverInv, [ObservationNext]_observationVars, observation' # None
             PROVE  SaysWhatWasSent(observation)'
  BY DEF ObservedInv
<1>0. RecordsInv /\ ObservedInv /\ Range(sent) \subseteq Range(sent')
  BY NextRecords DEF ObserverInv
<1>1. CASE observation' = observation
  <2>1. PICK o : o = observation
    OBVIOUS
  <2>2. SaysWhatWasSent(o)
    BY <1>0, <1>1, <2>1 DEF ObservedInv
  <2>3. SaysWhatWasSent(o)'
    BY <1>0, <2>2, SaysOn
  <2> QED BY <1>1, <2>1, <2>3 DEF SaysWhatWasSent
<1>2. CASE ObserveReceipt
  <2>1. PICK expected \in Expectations :
          Observe(Outcome("receiver", "url", expected, ReceiptOutcome(expected)))
    BY <1>2 DEF ObserveReceipt
  <2>2. PICK o : o = Outcome("receiver", "url", expected, ReceiptOutcome(expected))
    OBVIOUS
  <2>3. SaysWhatWasSent(o)
    BY <1>0, <2>2, ReceiptSays
  <2>4. SaysWhatWasSent(o)'
    BY <1>0, <2>3, SaysOn
  <2>5. observation' = o
    BY <2>1, <2>2 DEF Observe
  <2> QED BY <2>4, <2>5 DEF SaysWhatWasSent
<1>3. ASSUME NEW observer, NEW resource, NEW outcome,
             Observe(Outcome(observer, resource, None, outcome))
      PROVE  SaysWhatWasSent(observation)'
  <2>1. observation'.expected = None
    BY <1>3 DEF Observe, Outcome
  <2> QED BY <2>1 DEF SaysWhatWasSent
<1> QED
  BY <1>1, <1>2, <1>3
     DEF ObservationNext, observationVars, ObserveFile, ObserveRow, ObserveProcess, ObserveCloud,
         ObserveSensor, Send, Redeliver, ChangeStore, NextDay, Verify, SelfReport

\* Each reason that is not given against a claim of independence holds for it.
LEMMA NoReasonLeft ==
  ASSUME NEW declaration \in Declarations, NEW observed, NEW action, NEW resource, day \in Nat,
         RejectionReasons(declaration, observed, action, resource) = {}
  PROVE  /\ declaration # None
         /\ day \in declaration.reviewedAt .. declaration.reviewedAt + MaxAge
         /\ declaration.validUntil # None => day <= declaration.validUntil
         /\ declaration.kind = "independent_live_telemetry" /\ declaration.shared = {}
         /\ declaration.independent = Boundaries
         /\ observed.observer = declaration.observer
<1> DEFINE given == RejectionReasons(declaration, observed, action, resource)
<1>1. declaration # None
  BY DEF RejectionReasons
<1>2. "identity" \in given <=> declaration.observer # observed.observer
  BY <1>1 DEF RejectionReasons
<1>3. "evidence_kind" \in given <=> declaration.kind # "independent_live_telemetry"
  BY <1>1 DEF RejectionReasons
<1>4. "future" \in given <=> declaration.reviewedAt > day
  BY <1>1 DEF RejectionReasons
<1>5. "expired" \in given <=> (declaration.validUntil # None /\ declaration.validUntil < day)
  BY <1>1 DEF RejectionReasons
<1>6. "stale" \in given <=> day > declaration.reviewedAt + MaxAge
  BY <1>1 DEF RejectionReasons
<1>7. "shared" \in given <=> declaration.shared # {}
  BY <1>1 DEF RejectionReasons
<1>8. ASSUME NEW boundary \in Boundaries
      PROVE  boundary \in given <=> boundary \notin declaration.independent
  <2>1. boundary \in {"tool", "principal", "credential", "execution_host", "network_path",
                      "storage_plane", "administrative_control_plane"}
    BY DEF Boundaries
  <2>2. /\ boundary # "identity" /\ boundary # "evidence_kind" /\ boundary # "action"
        /\ boundary # "resource" /\ boundary # "future" /\ boundary # "expired"
        /\ boundary # "stale" /\ boundary # "shared"
    BY <2>1
  <2> QED BY <1>1, <2>2 DEF RejectionReasons
<1>9. /\ declaration.reviewedAt \in Nat
      /\ declaration.validUntil \in Nat \cup {None}
      /\ declaration.independent \subseteq Boundaries
  BY <1>1, DeclarationsAssumption
<1>10. day \in declaration.reviewedAt .. declaration.reviewedAt + MaxAge
  BY <1>4, <1>6, <1>9, DaysAssumption
<1>11. declaration.validUntil # None => day <= declaration.validUntil
  BY <1>5, <1>9
<1>12. declaration.independent = Boundaries
  BY <1>8, <1>9
<1> QED BY <1>1, <1>2, <1>3, <1>7, <1>10, <1>11, <1>12

\* A decision is about the observation before it and the day it is made.
LEMMA NextDecisions ==
  ObserverInv /\ [ObservationNext]_observationVars => DecisionsFollowTheRecords'
<1> SUFFICES ASSUME ObserverInv, [ObservationNext]_observationVars
             PROVE  DecisionsFollowTheRecords'
  OBVIOUS
<1>0. /\ RecordsInv /\ ObservedInv /\ DecisionsFollowTheRecords
      /\ Range(sent) \subseteq Range(sent')
  BY NextRecords DEF ObserverInv
<1> DEFINE SentFor(o) ==
             o.observation.expected # None =>
               /\ o.status = "verified" =>
                    SentAsExpected(o.observation.expected) # {} /\ o.observation.exact = 1
               /\ {call \in Range(sent) : call.key = o.observation.expected.key} = {} =>
                    o.status = "unverified"
           Declared(o) ==
             o.corroboration = "independent_observer" =>
               /\ o.day \in o.declaration.reviewedAt .. o.declaration.reviewedAt + MaxAge
               /\ o.declaration.validUntil # None => o.day <= o.declaration.validUntil
               /\ o.declaration.kind = "independent_live_telemetry"
               /\ o.declaration.shared = {}
               /\ o.declaration.independent = Boundaries
               /\ o.observation.observer = o.declaration.observer
<1>1. CASE decision' = None
  BY <1>1 DEF DecisionsFollowTheRecords
<1>2. CASE decision' = decision /\ decision # None
  <2>1. PICK o : o = decision
    OBVIOUS
  <2>2. SentFor(o) /\ Declared(o)
    BY <1>0, <1>2, <2>1 DEF DecisionsFollowTheRecords
  <2>3. SentAsExpected(o.observation.expected) \subseteq SentAsExpected(o.observation.expected)'
    BY <1>0 DEF SentAsExpected, Conflicts
  <2>4. SentFor(o)'
    BY <1>0, <2>2, <2>3
  <2> QED BY <1>2, <2>1, <2>2, <2>4 DEF DecisionsFollowTheRecords
<1>3. CASE Verify
  <2>1. PICK corroboration \in {"unknown", "independent_observer"}, declaration \in Declarations,
             action \in {None, "send"}, resource \in {None, "url", "file"} :
          /\ corroboration = "independent_observer" =>
               RejectionReasons(declaration, observation, action, resource) = {}
          /\ decision' = Decision(observation, corroboration, declaration)
    BY <1>3 DEF Verify
  <2>2. PICK o : o = Decision(observation, corroboration, declaration)
    OBVIOUS
  <2>3. /\ o.observation = observation /\ o.corroboration = corroboration
        /\ o.declaration = declaration /\ o.day = day
        /\ o.status = StatusOf(observation.outcome)
    BY <2>2 DEF Decision
  <2>4. observation # None /\ sent' = sent
    BY <1>3 DEF Verify
  <2>5. StatusOf(observation.outcome) = "verified" => observation.outcome = "observed"
    BY DEF StatusOf
  <2>6. SentFor(o)
    BY <1>0, <2>3, <2>4, <2>5 DEF ObservedInv, SaysWhatWasSent
  <2>7. Declared(o)
    <3> SUFFICES ASSUME corroboration = "independent_observer" PROVE Declared(o)
      BY <2>3
    <3>1. day \in Nat /\ RejectionReasons(declaration, observation, action, resource) = {}
      BY <1>0, <2>1 DEF RecordsInv
    <3> QED BY <2>3, <3>1, NoReasonLeft
  <2>8. SentFor(o)'
    BY <2>4, <2>6 DEF SentAsExpected
  <2> QED BY <2>1, <2>2, <2>7, <2>8 DEF DecisionsFollowTheRecords
<1>4. CASE SelfReport
  <2>1. PICK observed : observed = Outcome("tool", "url", None, "unverified")
    OBVIOUS
  <2>2. decision' = Decision(observed, "self_reported", None)
    BY <1>4, <2>1 DEF SelfReport
  <2>3. /\ decision'.observation.expected = None
        /\ decision'.corroboration = "self_reported"
    BY <2>1, <2>2 DEF Decision, Outcome
  <2> QED BY <2>3 DEF DecisionsFollowTheRecords
<1> QED
  BY <1>1, <1>2, <1>3, <1>4
     DEF ObservationNext, observationVars, Observe, ObserveReceipt, ObserveFile, ObserveRow,
         ObserveProcess, ObserveCloud, ObserveSensor, Send, Redeliver, ChangeStore, NextDay

\* The inductive invariant of observers: a receiver keeps what was sent, and an
\* observation of its records says what was sent.
THEOREM ObserversSeeWhatWasSent == ObservationSpec => []ObserverInv
<1>1. ObservationInit => ObserverInv
  BY ObserverInitially
<1>2. ObserverInv /\ [ObservationNext]_observationVars => ObserverInv'
  BY NextRecords, NextObserved, NextDecisions DEF ObserverInv
<1> QED BY <1>1, <1>2, PTL DEF ObservationSpec

\* A decision verifies only what a tool sent and one record shows, contradicts nothing that
\* was never sent, and claims independence only under a declaration in force.
THEOREM DecisionsStandOnRecords == ObservationSpec => []DecisionsFollowTheRecords
<1>1. ObserverInv => DecisionsFollowTheRecords
  BY DEF ObserverInv
<1> QED BY <1>1, ObserversSeeWhatWasSent, PTL
=============================================================================
