---------------------------- MODULE MCProjection ----------------------------
(***************************************************************************)
(* Projection and CaseViews on small instances, one of them in each        *)
(* behaviour: rebuilders and readers of one database, and the views of a   *)
(* journal whose events refer to each other, also backwards in time and to *)
(* events of another trace.                                                *)
(***************************************************************************)
EXTENDS Projection, CaseViews

VARIABLE topic

Symmetry == Permutations(Events) \cup Permutations(Rebuilders)

----------------------------------------------------------------------------
Bare ==
  [link |-> Null, status |-> Null, subject |-> Null, evidence |-> Null, tool |-> Null,
   resource |-> Null]

Text(text) == [text |-> text, captured |-> FALSE]

Called ==
  [id |-> "called", type |-> "tool.invoked", at |-> <<1, 0>>, trace |-> "t1", parent |-> Null,
   principal |-> "agent", payload |-> [Bare EXCEPT !.tool = Text("mail"),
                                                   !.resource = Text("box")]]

\* It is timed before its parent.
Observed ==
  [Called EXCEPT !.id = "observed", !.type = "side_effect.observed", !.at = <<0, 5>>,
                 !.parent = "called", !.principal = "",
     !.payload = [Bare EXCEPT !.status = "unknown", !.subject = "called"]]

\* Its link has no status of its own.
Checked ==
  [Called EXCEPT !.id = "checked", !.type = "side_effect.checked", !.at = <<1, 5>>,
                 !.parent = "observed",
     !.payload = [Bare EXCEPT !.status = "verified",
                    !.link = [subject |-> "called", evidence |-> "observed", status |-> "",
                              relationship |-> "corroborates"]]]

Conflicting ==
  [Checked EXCEPT !.id = "conflicting", !.type = "side_effect.conflict_detected", !.at = <<1, 0>>,
     !.payload = [Bare EXCEPT !.tool = [text |-> "digest", captured |-> TRUE],
                    !.link = [subject |-> "called", evidence |-> "elsewhere",
                              status |-> "conflicting", relationship |-> Null]]]

Elsewhere ==
  [Called EXCEPT !.id = "elsewhere", !.trace = "t2", !.parent = "checked",
     !.payload = [Bare EXCEPT !.status = "verified"]]

SmallCase == {Called, Observed, Checked, Conflicting, Elsewhere}

----------------------------------------------------------------------------
MCInit == topic \in {"database", "case"} /\ Init /\ CaseInit

MCNext ==
  /\ UNCHANGED topic
  /\ \/ topic = "database" /\ Next /\ UNCHANGED caseVars
     \/ topic = "case" /\ CaseNext /\ UNCHANGED vars

MCSpec == MCInit /\ [][MCNext]_<<topic, vars, caseVars>>
=============================================================================
