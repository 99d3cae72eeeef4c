------------------------- MODULE MCEvidenceIngestion -------------------------
(***************************************************************************)
(* EvidenceIngestion and BatchImport on a small instance, one of them in   *)
(* each behaviour: two clients, each with one of six batches that share    *)
(* keys, agree on some records, differ on others and hold the records that *)
(* cannot be imported.                                                     *)
(***************************************************************************)
EXTENDS BatchImport

CONSTANTS k1, k2, k3, k4, k5, k6, x, y

VARIABLE importer

Rec(key, body) == [key |-> key, body |-> body]

MalformedRecords == {Rec(k5, x)}
UnhashableRecords == {Rec(k5, y)}
UnpersistableRecords == {Rec(k4, x)}
UnredactableRecords == {Rec(k4, y)}
LegacyEntry == <<Rec(k6, y)>>

SmallBatches ==
  { \* the same record twice, a conflicting one
    <<Rec(k1, x), Rec(k2, x)>>,
    <<Rec(k2, x), Rec(k2, y), Rec(k3, x)>>,
    \* an entry without fingerprint; records that fail, the last one after it
    <<Rec(k6, x), Rec(k3, x), Rec(k4, x), Rec(k2, x)>>,
    <<Rec(k5, x), Rec(k4, x), Rec(k3, x)>>,
    \* records that end the import
    <<Rec(k3, x), Rec(k4, y), Rec(k1, x)>>,
    <<Rec(k1, x), Rec(k5, y)>> }

----------------------------------------------------------------------------
MCInit == importer \in {"atomic", "batch"} /\ Init /\ BatchInit

MCNext ==
  /\ UNCHANGED importer
  /\ \/ importer = "atomic" /\ Next /\ UNCHANGED batchVars
     \/ importer = "batch" /\ BatchNext /\ UNCHANGED vars

MCSpec == MCInit /\ [][MCNext]_<<importer, vars, batchVars>>

MCFairSpec ==
  MCSpec /\ \A c \in Clients : WF_vars(Acquire(c) \/ Refuse(c)) /\ WF_vars(ImportStep(c))
=============================================================================
