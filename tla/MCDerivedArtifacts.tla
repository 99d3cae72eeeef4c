-------------------------- MODULE MCDerivedArtifacts --------------------------
(***************************************************************************)
(* DerivedArtifacts, TrustedRoots and EvalRun on small instances, one of   *)
(* them in each behaviour: two processes, bundles of two files, and so     *)
(* many operations that a log whose entries raced, or were cut, is         *)
(* appended to again; a journal of two events with one artifact, or an     *)
(* anchor and what is derived from it; and two runs of a scenario, three   *)
(* of one of them, so that a bundle that a dying run left torn is replayed. *)
(***************************************************************************)
EXTENDS DerivedArtifacts, TrustedRoots, EvalRun, TLC

VARIABLE subject

ProcessSymmetry == Permutations(Processes)
FileSymmetry == Permutations(Files)
ArtifactSymmetry == ProcessSymmetry \cup FileSymmetry

SmallScopes ==
  {{"anchor"}, {"segment"}, {"archive"}, {"export"}, {"anchor", "statement"},
   {"anchor", "attestation"}}

RunEvents == {"agent.intent.recorded", "agent.run.started", "agent.run.completed"}
ToolEvents == {"tool.execution.requested", "tool.execution.authorized", "tool.execution.dispatched", "tool.execution.acknowledged"}
File(id, types, class) ==
  [id |-> id, types |-> types, statuses |-> {}, forbidden |-> {}, detections |-> {}, links |-> {},
   class |-> class, control |-> FALSE, tools |-> {"safe_files.read", "safe_http.send"},
   maxRequests |-> 1, maxCalls |-> 4, canaries |-> FALSE, covered |-> TRUE, mutations |-> << >>]
SmallScenarios ==
  {[File("AVL-001", RunEvents \cup ToolEvents, "product") EXCEPT !.canaries = TRUE, !.maxCalls = 1],
   [File("AVL-005", RunEvents \cup ToolEvents, "product") EXCEPT
      !.detections = {"AVL-005"}, !.mutations = <<"duplicate_benign_event", "concurrency">>],
   [File("AVL-009", {"agent.run.failed"}, "harness") EXCEPT !.control = TRUE],
   [File("AVL-010", {"agent.run.failed"}, "agent") EXCEPT !.control = TRUE],
   [File("AVL-013", RunEvents \cup ToolEvents, "product") EXCEPT !.control = TRUE],
   [File("AVL-014", RunEvents \cup ToolEvents, "product") EXCEPT !.control = TRUE]}
SmallAnswers ==
  {<<Send("toxiproxy_timeout")>>, <<[ReadFile EXCEPT !.canary = TRUE]>>,
   <<ReadFile, [ReadFile EXCEPT !.argument = FALSE]>>}

MCInit ==
  /\ Init /\ TrustedRootsInit /\ EvalRunInit
  /\ subject \in {"files", "roots", "evals"}
  /\ subject # "evals" => scenario.id = "AVL-001"
  /\ subject = "evals" => DOMAIN files = {"anchor"}
  /\ subject = "files" => DOMAIN files = {"anchor"}

MCNext ==
  /\ UNCHANGED subject
  /\ \/ subject = "files" /\ Next /\ UNCHANGED <<rootVars, evalVars>>
     \/ subject = "roots" /\ TrustedRootsNext /\ UNCHANGED <<vars, evalVars>>
     \/ /\ subject = "evals" /\ EvalRunNext /\ UNCHANGED <<vars, rootVars>>
        /\ runsMade = 2 /\ runsMade' = 3 =>
             scenario.id = "AVL-005" /\ evalRun'.dir = "replay"
        /\ baseline'.report # Absent => scenario.id = "AVL-001"

MCSpec == MCInit /\ [][MCNext]_<<subject, vars, rootVars, evalVars>>
==============================================================================
