------------------------------ MODULE McpRuntime ------------------------------
(***************************************************************************)
(* execute_mcp_tool_call: sessions plan tool calls from a policy decision  *)
(* and perhaps an approval, record the plan in the journal event by event, *)
(* run the tool only when the plan allows it, and record what it answered. *)
(*                                                                         *)
(* Each session has a normalizer and a replay cache of its own, in memory; *)
(* all of them append to one journal, which is that of LocalJournal seen   *)
(* under its lock.  An event keeps its type, the call it belongs to, its   *)
(* id and its parent's.                                                    *)
(***************************************************************************)
EXTENDS Naturals, Sequences, FiniteSets, SequencesExt

CONSTANTS
  Sessions,
  Decisions,  \* policy decisions, [outcome, mode]: mode is the failure mode
  Requests,   \* what a call is about: the subject event and scope of approvals
  Artifacts,  \* approvals: [nonce, request, expires]
  MaxCalls,   \* calls made by all sessions together
  MaxLives,   \* processes that run sessions, all together
  MaxTime,    \* the last moment
  Null        \* the value of an absent field

Outcomes == {"allow", "deny", "require_approval", "dry_run", "error"}

ASSUME BoundsAssumption == MaxCalls \in Nat /\ MaxLives \in Nat \ {0} /\ MaxTime \in Nat
ASSUME DecisionsAssumption ==
  Decisions \subseteq [outcome : Outcomes, mode : {"fail_open", "fail_closed"}]
ASSUME NullAssumption == Null \notin Artifacts /\ Null \notin Sessions \X Nat \X Nat
ASSUME ArtifactsAssumption ==
  \A a \in Artifacts : /\ a = [nonce |-> a.nonce, request |-> a.request, expires |-> a.expires]
                       /\ a.request \in Requests /\ a.expires \in 0 .. MaxTime

VARIABLES
  journal,   \* verified events of the journal
  torn,      \* whether a torn line follows them
  now,       \* the time
  pc,        \* what each session is doing
  life,      \* how many processes have run each session
  sequence,  \* the normalizer's next sequence number
  lastEvent, \* the normalizer's last event id
  used,      \* nonces in the session's replay cache
  current,   \* the call a session is executing, an index of calls
  todo,      \* event types of its plan that are still to be recorded
  calls      \* history: every call, its approval, whether its tool was
             \* called and what its caller was told

vars == <<journal, torn, now, pc, life, sequence, lastEvent, used, current, todo, calls>>

Pending == [kind |-> "none", ack |-> Null]

Goto(s, label) == pc' = [pc EXCEPT ![s] = label]

----------------------------------------------------------------------------
\* ApprovalReplayCache.claim and ApprovalArtifact.is_valid_for
Accepts(s, artifact, request) ==
  /\ artifact.nonce \notin used[s]
  /\ artifact.request = request
  /\ artifact.expires >= now

\* Mutant: the nonce is not remembered.
ClaimForgetting(s, artifact, request) == UNCHANGED used

Claim(s, artifact, request) ==
  used' = IF Accepts(s, artifact, request)
          THEN [used EXCEPT ![s] = @ \cup {artifact.nonce}] ELSE used

\* PolicyDecision.dispatch_allowed
DispatchAllowed(decision, accepted) ==
  \/ decision.outcome \in {"allow", "dry_run"}
  \/ decision.outcome = "require_approval" /\ accepted
  \/ decision.outcome = "error" /\ decision.mode = "fail_open"

\* plan_mcp_tool_execution, in the order of _append_plan_events.
Plan(decision, accepted) ==
  <<"requested", "decision">>
  \o (IF DispatchAllowed(decision, accepted)
      THEN <<"authorized", "dispatched">> ELSE <<"not_dispatched">>)
  \o (IF decision.outcome = "error" THEN <<"degraded">> ELSE << >>)

PlanOf(call) == Plan(call.decision, call.accepted)

Dispatches(call) == DispatchAllowed(call.decision, call.accepted)

----------------------------------------------------------------------------
(***************************************************************************)
(* A process starts a session: a normalizer that continues a verified      *)
(* journal, and an empty replay cache.                                     *)
(***************************************************************************)
Open(s) ==
  /\ pc[s] = "closed"
  /\ FoldFunction(+, 0, life) < MaxLives
  /\ ~torn
  /\ life' = [life EXCEPT ![s] = @ + 1]
  /\ sequence' = [sequence EXCEPT ![s] = Len(journal)]
  /\ lastEvent' = [lastEvent EXCEPT ![s] = Null]
  /\ used' = [used EXCEPT ![s] = {}]
  /\ Goto(s, "ready")
  /\ UNCHANGED <<journal, torn, now, current, todo, calls>>

NewCall(s, decision, request, approval, accepted) ==
  [session |-> s, life |-> life[s], decision |-> decision, request |-> request,
   approval |-> approval, accepted |-> accepted, ran |-> FALSE, told |-> Pending]

\* The caller has a decision, claims an approval if there is one, and executes
\* the call; a call that is refused here has left nothing but a spent nonce.
BeginCall(s) ==
  /\ pc[s] = "ready"
  /\ Len(calls) < MaxCalls
  /\ \E decision \in Decisions, request \in Requests, approval \in Artifacts \cup {Null} :
       LET accepted == approval # Null /\ Accepts(s, approval, request)
       IN  /\ IF approval = Null THEN UNCHANGED used ELSE Claim(s, approval, request)
           /\ calls' = Append(calls, NewCall(s, decision, request, approval, accepted))
           /\ todo' = [todo EXCEPT ![s] = Plan(decision, accepted)]
  /\ current' = [current EXCEPT ![s] = Len(calls) + 1]
  /\ Goto(s, "record")
  /\ UNCHANGED <<journal, torn, now, life, sequence, lastEvent>>

----------------------------------------------------------------------------
EventId(s) == <<s, life[s], sequence[s]>>

Event(s, type) ==
  [type |-> type, call |-> current[s], id |-> EventId(s), parent |-> lastEvent[s]]

\* normalizer.record: its sequence and last event move, whatever becomes of the
\* event.
Normalize(s) ==
  /\ sequence' = [sequence EXCEPT ![s] = @ + 1]
  /\ lastEvent' = [lastEvent EXCEPT ![s] = EventId(s)]

\* Mutant: a gap in front of the event is accepted.
InSequenceWithGaps(s) == ~torn /\ sequence[s] >= Len(journal)

\* What append_event accepts.
InSequence(s) == ~torn /\ sequence[s] = Len(journal)

Commit(s, type) ==
  /\ InSequence(s)
  /\ Normalize(s)
  /\ journal' = Append(journal, Event(s, type))
  /\ UNCHANGED torn

\* An append that raises: refused, or failed with none of the line, a part of
\* it or all of it in the file.
Fail(s, type) ==
  /\ Normalize(s)
  /\ \/ UNCHANGED <<journal, torn>>
     \/ InSequence(s) /\ torn' = TRUE /\ UNCHANGED journal
     \/ InSequence(s) /\ journal' = Append(journal, Event(s, type)) /\ UNCHANGED torn

Tell(s, kind, ack) ==
  /\ calls' = [calls EXCEPT ![current[s]].told = [kind |-> kind, ack |-> ack]]
  /\ Goto(s, "ready")

\* Mutant: the tool is called as soon as its dispatch is recorded.
ProceedOnceDispatched(s) ==
  /\ todo' = [todo EXCEPT ![s] = Tail(@)]
  /\ CASE Head(todo[s]) = "dispatched" -> Goto(s, "call") /\ UNCHANGED calls
       [] Len(todo[s]) = 1 -> Tell(s, "result", Null)
       [] OTHER -> UNCHANGED <<pc, calls>>

\* The plan goes on with its next event; after the last one the tool is called,
\* or the caller is told that it was not dispatched.
Proceed(s) ==
  /\ todo' = [todo EXCEPT ![s] = Tail(@)]
  /\ \/ Len(todo[s]) > 1 /\ UNCHANGED <<pc, calls>>
     \/ /\ Len(todo[s]) = 1
        /\ IF Dispatches(calls[current[s]]) THEN Goto(s, "call") /\ UNCHANGED calls
                                            ELSE Tell(s, "result", Null)

Record(s) ==
  /\ pc[s] = "record"
  /\ Commit(s, Head(todo[s]))
  /\ Proceed(s)
  /\ UNCHANGED <<now, life, used, current>>

\* Mutant: a recorder that cannot record does not stop the call.
RecordFailsQuietly(s) ==
  /\ pc[s] = "record"
  /\ Fail(s, Head(todo[s]))
  /\ Proceed(s)
  /\ UNCHANGED <<now, life, used, current>>

RecordFails(s) ==
  /\ pc[s] = "record"
  /\ Fail(s, Head(todo[s]))
  /\ Tell(s, "error", Null)
  /\ todo' = [todo EXCEPT ![s] = << >>]
  /\ UNCHANGED <<now, life, used, current>>

\* The tool is called; whatever it answers or raises makes an acknowledgement.
CallDownstream(s) ==
  /\ pc[s] = "call"
  /\ calls' = [calls EXCEPT ![current[s]].ran = TRUE]
  /\ Goto(s, "acknowledge")
  /\ UNCHANGED <<journal, torn, now, life, sequence, lastEvent, used, current, todo>>

Acknowledge(s) ==
  /\ pc[s] = "acknowledge"
  /\ Commit(s, "acknowledged")
  /\ Tell(s, "result", EventId(s))
  /\ UNCHANGED <<now, life, used, current, todo>>

\* Mutant: the caller is told the event id although it is not in the journal.
AcknowledgeFailsQuietly(s) ==
  /\ pc[s] = "acknowledge"
  /\ Fail(s, "acknowledged")
  /\ Tell(s, "result", EventId(s))
  /\ UNCHANGED <<now, life, used, current, todo>>

AcknowledgeFails(s) ==
  /\ pc[s] = "acknowledge"
  /\ Fail(s, "acknowledged")
  /\ Tell(s, "error", Null)
  /\ UNCHANGED <<now, life, used, current, todo>>

Pass ==
  /\ now < MaxTime
  /\ now' = now + 1
  /\ UNCHANGED <<journal, torn, pc, life, sequence, lastEvent, used, current, todo, calls>>

\* The process dies, perhaps inside an append; normalizer and cache are lost.
Crash(s) ==
  /\ pc[s] # "closed"
  /\ \/ UNCHANGED <<journal, torn>>
     \/ /\ pc[s] \in {"record", "acknowledge"}
        /\ InSequence(s)
        /\ \/ torn' = TRUE /\ UNCHANGED journal
           \/ /\ journal' = Append(journal, Event(s, IF pc[s] = "record" THEN Head(todo[s])
                                                     ELSE "acknowledged"))
              /\ UNCHANGED torn
  /\ Goto(s, "closed")
  /\ todo' = [todo EXCEPT ![s] = << >>]
  /\ UNCHANGED <<now, life, sequence, lastEvent, used, current, calls>>

----------------------------------------------------------------------------
Init ==
  /\ journal = << >>
  /\ torn = FALSE
  /\ now = 0
  /\ pc = [s \in Sessions |-> "closed"]
  /\ life = [s \in Sessions |-> 0]
  /\ sequence = [s \in Sessions |-> 0]
  /\ lastEvent = [s \in Sessions |-> Null]
  /\ used = [s \in Sessions |-> {}]
  /\ current = [s \in Sessions |-> 0]
  /\ todo = [s \in Sessions |-> << >>]
  /\ calls = << >>

Next ==
  \/ \E s \in Sessions :
       \/ Open(s) \/ BeginCall(s) \/ Record(s) \/ RecordFails(s) \/ CallDownstream(s)
       \/ Acknowledge(s) \/ AcknowledgeFails(s) \/ Crash(s)
  \/ Pass

Spec == Init /\ [][Next]_vars

----------------------------------------------------------------------------
Positions == 1 .. Len(journal)

\* Events that are committed for a call, and the place of one among them.
Recorded(c) == {n \in Positions : journal[n].call = c}

Types(c) == {journal[n].type : n \in Recorded(c)}

Place(n) == Cardinality({m \in 1 .. n : journal[m].call = journal[n].call})

Lifecycle(call) ==
  IF call.ran THEN PlanOf(call) \o <<"acknowledged">> ELSE PlanOf(call)

\* A tool is only called when the whole plan is in the journal: request,
\* decision, authorization, dispatch, and the degraded policy if it failed
\* open, whichever appends failed before, in this call or another.
ToolsRunOnEvidence ==
  \A c \in 1 .. Len(calls) :
    calls[c].ran =>
      /\ \A i \in 1 .. Len(PlanOf(calls[c])) :
           \E n \in Recorded(c) : Place(n) = i /\ journal[n].type = PlanOf(calls[c])[i]
      /\ "authorized" \in Types(c)

\* What the journal holds of a call is the beginning of its lifecycle: no event
\* is missing before another one, none is there twice, and an acknowledgement
\* means that the tool was called.
RecordedInOrder ==
  \A c \in 1 .. Len(calls) : \A n \in Recorded(c) :
    /\ Place(n) <= Len(Lifecycle(calls[c]))
    /\ journal[n].type = Lifecycle(calls[c])[Place(n)]

\* A caller that is told a result finds it in the journal: the acknowledgement
\* of a tool that was called, or not_dispatched of one that was not.  A caller
\* of a tool that was called and has no acknowledgement in the journal is told
\* an error, unless its process died or is still at it.
ResultsAreRecorded ==
  \A c \in 1 .. Len(calls) :
    LET call  == calls[c]
        types == Types(c)
    IN  /\ call.told.kind = "result" =>
             /\ call.ran <=> "not_dispatched" \notin types
             /\ call.ran <=> \E n \in Positions : journal[n].id = call.told.ack
        /\ call.ran /\ "acknowledged" \notin types =>
             \/ call.told.kind = "error"
             \/ call.told.kind = "none" /\ (\/ life[call.session] # call.life
                                            \/ pc[call.session] \in {"acknowledge", "closed"})

\* While a session's process lives, an approval lets one call through.
ApprovalsAreSpentOnce ==
  \A c, d \in 1 .. Len(calls) :
    /\ c # d
    /\ calls[c].session = calls[d].session /\ calls[c].life = calls[d].life
    /\ calls[c].accepted /\ calls[d].accepted
    => calls[c].approval.nonce # calls[d].approval.nonce

\* An event whose parent never reached the journal follows an event of another
\* session: a session alone in the journal leaves no dangling parent, whatever
\* fails and is tried again.
DanglingParentsAreForeign ==
  \A n \in Positions :
    \/ journal[n].parent = Null
    \/ \E m \in 1 .. n - 1 : journal[m].id = journal[n].parent
    \/ n > 1 /\ journal[n - 1].id[1] # journal[n].id[1]
==============================================================================
