------------------------------ MODULE CaseViews ------------------------------
(***************************************************************************)
(* What investigators read from the SQLite projection: timelines, filters, *)
(* the summary of an incident, its graph and the explanation of an event.  *)
(*                                                                         *)
(* A row is [number, event, status, subject, evidence]: the event and the  *)
(* columns that were derived from it when it was indexed.  Queries filter  *)
(* by the columns, summaries and graphs read the event itself.  An event   *)
(* keeps what these tell apart: id, type, time, trace, parent, principal   *)
(* and, of its payload, the evidence link, the status and ids that stand   *)
(* beside it, a tool and a resource.  A text too long for the journal is   *)
(* held as a capture marker, [text, captured |-> TRUE].                    *)
(*                                                                         *)
(* A time is <<second, fraction>> and compares as the text that stores it. *)
(***************************************************************************)
EXTENDS Naturals, Sequences, FiniteSets, FiniteSetsExt, SequencesExt, TLC

CONSTANTS
  CaseEvents, \* events that may be appended
  MaxCase,    \* length of the journal
  Nothing     \* an absent field

VARIABLES
  evidence, \* events of the verified journal
  indexed,  \* rows of the projection
  incident  \* the last timeline that was queried, and the rows it was read from

caseVars == <<evidence, indexed, incident>>

----------------------------------------------------------------------------
\* _string_or_none: the empty text counts as absent.
StringOrNone(value) == IF value = "" THEN Nothing ELSE value

Linked(payload) == payload.link # Nothing

\* Mutant: the status beside a link counts when the link has none.
EvidenceColumnsWithFallback(payload) ==
  LET of == IF Linked(payload) THEN payload.link ELSE payload
  IN  [status   |-> IF StringOrNone(of.status) # Nothing THEN of.status
                    ELSE StringOrNone(payload.status),
       subject  |-> StringOrNone(of.subject),
       evidence |-> StringOrNone(of.evidence)]

\* _evidence_projection_values: the link, or else the payload itself.
EvidenceColumns(payload) ==
  LET of == IF Linked(payload) THEN payload.link ELSE payload
  IN  [status |-> StringOrNone(of.status), subject |-> StringOrNone(of.subject),
       evidence |-> StringOrNone(of.evidence)]

Row(number, event) ==
  LET columns == EvidenceColumns(event.payload)
  IN  [number |-> number, event |-> event, status |-> columns.status,
       subject |-> columns.subject, evidence |-> columns.evidence]

\* index_event refuses an event id that another record holds.
Indexable(events) == \A m, n \in 1 .. Len(events) : events[m].id = events[n].id => m = n

----------------------------------------------------------------------------
\* Timestamps as text: "...:00Z" comes after "...:00.500000Z".
TextBefore(s, t) ==
  \/ s[1] < t[1]
  \/ s[1] = t[1] /\ s[2] # t[2] /\ (t[2] = 0 \/ (s[2] # 0 /\ s[2] < t[2]))

\* ORDER BY occurred_at, sequence, journal_record_number, event_id: the sequence
\* of a verified event is its record number, less one.
InTimelineOrder(r, s) ==
  \/ TextBefore(r.event.at, s.event.at)
  \/ r.event.at = s.event.at /\ r.number < s.number

InOrder(rows) == SetToSortSeq(ToSet(rows), InTimelineOrder)

QueryTimeline(rows, trace) == InOrder(SelectSeq(rows, LAMBDA row : row.event.trace = trace))

TextsOf(value) == IF value = Nothing THEN {} ELSE {value.text}

\* _payload_values_for_keys: only texts; a marker has no key that is asked for.
FilterTexts(value) == IF value = Nothing \/ value.captured THEN {} ELSE TextsOf(value)

\* _string_values: every text of the payload, the digest of a marker too.
PayloadStrings(payload) ==
  TextsOf(payload.tool) \cup TextsOf(payload.resource) \cup
  ({payload.status, payload.subject, payload.evidence} \ {Nothing}) \cup
  (IF Linked(payload)
   THEN {payload.link.status, payload.link.subject, payload.link.evidence,
         payload.link.relationship} \ {Nothing}
   ELSE {})

NoFilter ==
  [trace |-> Nothing, type |-> Nothing, status |-> Nothing, principal |-> Nothing,
   tool |-> Nothing, resource |-> Nothing]

Matches(row, filter) ==
  LET asks(field, values) == filter[field] # Nothing => filter[field] \in values
  IN  /\ asks("trace", {row.event.trace})
      /\ asks("type", {row.event.type})
      /\ asks("status", {row.status})
      /\ asks("principal", {row.event.principal})
      /\ asks("tool", FilterTexts(row.event.payload.tool))
      /\ asks("resource", PayloadStrings(row.event.payload))

FilteredTimeline(rows, filter) == SelectSeq(InOrder(rows), LAMBDA row : Matches(row, filter))

----------------------------------------------------------------------------
\* _verification_status: read from the event once more.
VerificationStatus(event) ==
  IF Linked(event.payload) THEN StringOrNone(event.payload.link.status)
  ELSE StringOrNone(event.payload.status)

PrincipalId(event) == StringOrNone(event.principal)

ParentEventId(event) == StringOrNone(event.parent)

\* _summary_text: a text as it is, a marker as a note about it.
SummaryTexts(value) ==
  IF value = Nothing THEN {}
  ELSE {<<IF value.captured THEN "truncated" ELSE "text", value.text>>}

Present(values) == values \ {Nothing}

EvidenceLinks(events) ==
  LET linked == SelectSeq(events, LAMBDA event : Linked(event.payload))
  IN  [i \in 1 .. Len(linked) |-> linked[i].payload.link]

EventsOf(rows) == [i \in 1 .. Len(rows) |-> rows[i].event]

IncidentSummary(events) ==
  LET ids(Test(_)) == {e.id : e \in {event \in ToSet(events) : Test(event)}}
  IN  [principals |-> Present({PrincipalId(e) : e \in ToSet(events)}),
       tools      |-> UNION {SummaryTexts(e.payload.tool) : e \in ToSet(events)},
       resources  |-> UNION {SummaryTexts(e.payload.resource) : e \in ToSet(events)},
       statuses   |-> [s \in Present({VerificationStatus(e) : e \in ToSet(events)}) |->
                         Len(SelectSeq(events, LAMBDA e : VerificationStatus(e) = s))],
       links      |-> EvidenceLinks(events),
       conflicting |-> ids(LAMBDA e : e.type = "side_effect.conflict_detected"),
       unknown     |-> ids(LAMBDA e : VerificationStatus(e) = "unknown"),
       hits        |-> ids(LAMBDA e : e.type = "lineage.alert.created")]

Counted(summary, status) ==
  IF status \in DOMAIN summary.statuses THEN summary.statuses[status] ELSE 0

Uncertain == {"unknown", "unverified", "timed_out", "conflicting"}

GroundedSummary(events) ==
  LET summary == IncidentSummary(events)
  IN  [verified  |-> Counted(summary, "verified"),
       uncertain |-> FoldSet(LAMBDA s, n : n + Counted(summary, s), 0, Uncertain),
       grounded  |-> [i \in 1 .. Len(events) |-> events[i].id]]

----------------------------------------------------------------------------
EventNode(id) == <<"event", id>>

Node(kind, event) == [kind |-> kind, event |-> event]

\* _ensure_event_reference_node: a node that is there already stays.
ReferenceNode(nodes, id, ids) ==
  nodes @@ (EventNode(id) :> Node(IF id \in ids THEN "event" ELSE "event_reference", Nothing))

References(nodes, refs, ids) ==
  FoldLeft(LAMBDA known, id : ReferenceNode(known, id, ids), nodes, refs)

\* The entities an event names, with the relationship its edge to each gets.
Entities(event) ==
  {<<"principal", p, "performed_by">> : p \in Present({PrincipalId(event)})} \cup
  {<<"tool", t, "uses_tool">> : t \in SummaryTexts(event.payload.tool)} \cup
  {<<"resource", r, "references_resource">> : r \in SummaryTexts(event.payload.resource)} \cup
  {<<"verification_status", s, "has_verification_status">> :
     s \in Present({VerificationStatus(event)})}

EntityNodes(event) ==
  LET ids == {<<entity[1], entity[2]>> : entity \in Entities(event)}
  IN  [id \in ids |-> Node(id[1], Nothing)]

Parents(event) ==
  IF ParentEventId(event) = Nothing THEN << >> ELSE <<ParentEventId(event)>>

\* Mutant: the event does not replace a node that refers to it.
VisitEventOnce(nodes, event, ids) ==
  References(nodes @@ (EventNode(event.id) :> Node("event", event)), Parents(event), ids)
  @@ EntityNodes(event)

\* One turn of the loop over the timeline: the event's own node replaces one that
\* an earlier event put there to refer to it.
VisitEvent(nodes, event, ids) ==
  References((EventNode(event.id) :> Node("event", event)) @@ nodes, Parents(event), ids)
  @@ EntityNodes(event)

\* A link without a subject or an evidence id has no edge.
Complete(link) ==
  StringOrNone(link.subject) # Nothing /\ StringOrNone(link.evidence) # Nothing

Relationship(link) ==
  IF StringOrNone(link.relationship) = Nothing THEN "evidence_link" ELSE link.relationship

Edge(source, target, relationship) ==
  [source |-> source, target |-> target, relationship |-> relationship]

EventEdges(event) ==
  {Edge(EventNode(parent), EventNode(event.id), <<"causal_parent">>) :
     parent \in ToSet(Parents(event))} \cup
  {Edge(EventNode(event.id), <<entity[1], entity[2]>>, <<entity[3]>>) : entity \in Entities(event)}

LinkEdge(link) ==
  Edge(EventNode(link.evidence), EventNode(link.subject), <<"evidence_link", Relationship(link)>>)

\* investigation_graph_from_incident
InvestigationGraph(events) ==
  LET ids     == {event.id : event \in ToSet(events)}
      links   == SelectSeq(EvidenceLinks(events), Complete)
      visited == FoldLeft(LAMBDA nodes, event : VisitEvent(nodes, event, ids), << >>, events)
  IN  [nodes |-> FoldLeft(LAMBDA nodes, link :
                            References(nodes, <<link.subject, link.evidence>>, ids),
                          visited, links),
       edges |-> UNION {EventEdges(event) : event \in ToSet(events)}
                 \cup {LinkEdge(link) : link \in ToSet(links)}]

\* explain_event, over every event of the projection.
ExplainEvent(rows, id) ==
  LET all   == EventsOf(FilteredTimeline(rows, NoFilter))
      links == ToSet(EvidenceLinks(all))
      event == CHOOSE e \in ToSet(all) : e.id = id
  IN  [parent     |-> event.parent,
       children   |-> {e.id : e \in {child \in ToSet(all) : child.parent = id}},
       asSubject  |-> {link \in links : link.subject = id},
       asEvidence |-> {link \in links : link.evidence = id}]

----------------------------------------------------------------------------
CaseInit == evidence = << >> /\ indexed = << >> /\ incident = [timeline |-> << >>, rows |-> << >>]

RecordEvidence ==
  /\ Len(evidence) < MaxCase
  /\ \E event \in CaseEvents : evidence' = Append(evidence, event)
  /\ UNCHANGED <<indexed, incident>>

\* rebuild_projection: all rows anew, or a ProjectionIndexError that rolls back.
IndexJournal ==
  /\ Indexable(evidence)
  /\ indexed' = [n \in 1 .. Len(evidence) |-> Row(n, evidence[n])]
  /\ UNCHANGED <<evidence, incident>>

\* A verified read: only a projection of the whole journal answers.
Investigate ==
  /\ EventsOf(indexed) = evidence
  /\ \E trace \in {event.trace : event \in ToSet(evidence)} :
       incident' = [timeline |-> QueryTimeline(indexed, trace), rows |-> indexed]
  /\ UNCHANGED <<evidence, indexed>>

CaseNext == RecordEvidence \/ IndexJournal \/ Investigate

----------------------------------------------------------------------------
\* The views of an incident are computed apart from each other and agree: the
\* summary counts what the filter finds and the graph connects for every status;
\* a tool or principal of the summary is one the filter finds, unless truncated;
\* the graph has the whole of every selected event, also of one that was referred
\* to first, refers to the others, and has no loose edge; and what explain_event
\* says of a selected event's causes and links is what the graph shows.
ViewsAgree ==
  incident.timeline # << >> =>
  LET events  == EventsOf(incident.timeline)
      trace   == events[1].trace
      ids     == {event.id : event \in ToSet(events)}
      graph   == InvestigationGraph(events)
      summary == IncidentSummary(events)
      grounded == GroundedSummary(events)
      found(field, value) ==
        ToSet(FilteredTimeline(incident.rows, [NoFilter EXCEPT !.trace = trace, ![field] = value]))
      into(node) == {edge \in graph.edges : edge.target = node}
  IN  /\ \A s \in {"verified", "unknown", "conflicting"} :
           /\ Counted(summary, s) = Cardinality(found("status", s))
           /\ Counted(summary, s) = Cardinality(into(<<"verification_status", s>>))
      /\ grounded.verified = Cardinality(found("status", "verified"))
      /\ grounded.uncertain = Cardinality(UNION {found("status", s) : s \in Uncertain})
      /\ summary.unknown = {row.event.id : row \in found("status", "unknown")}
      /\ \A p \in summary.principals : found("principal", p) # {}
      /\ \A e \in ToSet(events) : \A t \in FilterTexts(e.payload.tool) :
           <<"text", t>> \in summary.tools /\ found("tool", t) # {}
      /\ \A e \in ToSet(events) : graph.nodes[EventNode(e.id)] = Node("event", e)
      /\ \A edge \in graph.edges : {edge.source, edge.target} \subseteq DOMAIN graph.nodes
      /\ \A node \in DOMAIN graph.nodes :
           graph.nodes[node].kind = "event_reference" => node[2] \notin ids
      /\ \A id \in ids :
           LET explained == ExplainEvent(incident.rows, id)
           IN  /\ explained.children \cap ids =
                    {edge.target[2] : edge \in {e \in graph.edges :
                       e.source = EventNode(id) /\ e.relationship = <<"causal_parent">>}}
               /\ \A e \in ToSet(events) : Linked(e.payload) /\ Complete(e.payload.link) =>
                    /\ e.payload.link.subject = id => e.payload.link \in explained.asSubject
                    /\ e.payload.link \in explained.asSubject =>
                         LinkEdge(e.payload.link) \in into(EventNode(id))

==============================================================================
