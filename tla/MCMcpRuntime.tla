----------------------------- MODULE MCMcpRuntime -----------------------------
(***************************************************************************)
(* McpRuntime and Observation on small instances, one of them in each      *)
(* behaviour: the calls of two sessions under an approval that expires and *)
(* the policy outcomes that make the longest plans, and a receiver that    *)
(* keeps two records of deliveries with two digests.                       *)
(***************************************************************************)
EXTENDS McpRuntime, Observation, TLC

CONSTANTS s1, s2, ask, token

VARIABLE subject

PolicyResult(outcome, mode) == [outcome |-> outcome, mode |-> mode]

SmallDecisions ==
  {PolicyResult("require_approval", "fail_closed"), PolicyResult("error", "fail_open")}

SmallArtifacts == {[nonce |-> token, request |-> ask, expires |-> 0]}

SessionSymmetry == Permutations(Sessions)

----------------------------------------------------------------------------
Sent(digest) ==
  [key |-> "receiver", part |-> "post", digest |-> digest, status |-> 200, etag |-> None]

SmallCalls == {Sent("d1"), Sent("d2")}

SmallExpectations ==
  {[Sent("d1") EXCEPT !.part = None, !.status = None], [Sent(None) EXCEPT !.status = None],
   Sent("d1"), [Sent("d1") EXCEPT !.part = "put"]}

Aws == [provider |-> "aws", service |-> "s3.amazonaws.com", operation |-> "PutObject",
        container |-> "bucket", name |-> "key"]

\* The name of an object may hold the path of another and end in it.
GcpObject(name, ends) ==
  [provider |-> "gcp", service |-> "storage.googleapis.com",
   operation |-> "storage.objects.create", container |-> "bucket", name |-> name,
   ends |-> {<<"bucket", end>> : end \in ends}]
Gcp == GcpObject("key", {"key"})
GcpNested == GcpObject("nested", {"nested", "key"})

\* The id of this blob holds the names of another: "blob" in "blobs".
Azure == [provider |-> "azure", operation |-> "write", account |-> "account",
          container |-> "box", name |-> "blobs", parts |-> {"account", "box", "blob", "blobs"}]

Kubernetes == [provider |-> "kubernetes", stage |-> "ResponseComplete", code |-> 200,
               operation |-> "create", resource |-> "pods", name |-> "pod",
               container |-> "default", group |-> None]

SmallCloudRecords ==
  {None, Aws, Gcp, GcpObject("other", {"other"}), GcpNested, Azure, [Azure EXCEPT !.name = "blob"],
   Kubernetes, [Kubernetes EXCEPT !.code = 409]}

SmallSensorRecords ==
  {[sensor |-> "edr", resource |-> "file", outcome |-> "observed"],
   [sensor |-> "edr", resource |-> "file", outcome |-> "timed_out"]}

Declared ==
  [observer |-> "receiver", kind |-> "independent_live_telemetry", complete |-> TRUE,
   actions |-> {"send"}, resources |-> {"url"}, reviewedAt |-> 0, validUntil |-> None,
   shared |-> {}, independent |-> Boundaries]

SmallDeclarations ==
  {None, Declared, [Declared EXCEPT !.validUntil = 0, !.actions = {"*"}],
   [Declared EXCEPT !.reviewedAt = 1], [Declared EXCEPT !.shared = {"host"}],
   [Declared EXCEPT !.kind = "fixture_oracle"],
   [Declared EXCEPT !.observer = "edr", !.resources = {"file"},
                    !.independent = Boundaries \ {"tool"}]}

----------------------------------------------------------------------------
MCInit == subject \in {"calls", "observations"} /\ Init /\ ObservationInit

MCNext ==
  /\ UNCHANGED subject
  /\ \/ subject = "calls" /\ Next /\ UNCHANGED observationVars
     \/ subject = "observations" /\ ObservationNext /\ UNCHANGED vars

MCSpec == MCInit /\ [][MCNext]_<<subject, vars, observationVars>>
===============================================================================
