---------------------------- MODULE ServiceAccess ----------------------------
(***************************************************************************)
(* Who may do what in service mode: roles are bundles of capabilities, a   *)
(* principal holds roles and single capabilities, and an endpoint asks for *)
(* capabilities.                                                           *)
(***************************************************************************)
EXTENDS Naturals, Sequences

Roles == {"read", "write", "export", "admin"}

Capabilities ==
  {"events:read", "events:write", "journal:verify", "projections:rebuild",
   "detections:run", "cases:read", "cases:export", "admin:configure",
   "tenants:manage"}

RoleCapabilities ==
  [read   |-> {"events:read", "journal:verify", "cases:read"},
   write  |-> {"events:write", "journal:verify", "projections:rebuild"},
   export |-> {"cases:export"},
   admin  |-> Capabilities]

Principals == [roles : SUBSET Roles, capabilities : SUBSET Capabilities]

Bundled(roles) == UNION {RoleCapabilities[role] : role \in roles}

\* Roles and single capabilities alike.
HasCapability(principal, required) ==
  required \in principal.capabilities \cup Bundled(principal.roles)

\* The capabilities that the handler of each endpoint asks for.
Required ==
  [ingest   |-> {"events:write", "projections:rebuild"},
   timeline |-> {"events:read"},
   events   |-> {"events:read"},
   export   |-> {"cases:export"},
   validate |-> {"events:read"},
   evaluate |-> {"detections:run"}]

Admitted(principal, endpoint) ==
  \A capability \in Required[endpoint] : HasCapability(principal, capability)

\* Asserting classification.trust = "trusted" takes an administrator.
MayAssertTrust(principal) == HasCapability(principal, "admin:configure")

==============================================================================
