--------------------------- MODULE MCIngestService ---------------------------
(***************************************************************************)
(* IngestService on a small instance: a writer and an administrator submit *)
(* overlapping batches; a third credential may only read.                  *)
(***************************************************************************)
EXTENDS IngestService

CONSTANTS k1, k2, k3, x, y, writer, capable, reader

Rec(key, body) == [key |-> key, body |-> body]

Writing == <<Rec(k1, x), Rec(k2, x)>>
Mixed == <<Rec(k2, x), Rec(k2, y), Rec(k3, x)>>
Odd == <<Rec(k1, x), Rec(k3, y)>>
Binary == <<Rec(k2, x), Rec(k1, y)>>
SmallBatches == {Writing, Mixed, Odd, Binary}
TrustingBatches == {Mixed}
UnhashableRecords == {Rec(k3, y)}
UnredactableRecords == {Rec(k1, y)}
MalformedRecords == {Rec(k3, x)}
NoRecords == {}
NoEntries == << >>

SmallGrants ==
  [c \in Clients |->
     CASE c = writer  -> [roles |-> {"write"}, capabilities |-> {}]
       [] c = capable -> [roles |-> {"admin"}, capabilities |-> {}]
       [] OTHER       -> [roles |-> {"read"}, capabilities |-> {"events:write"}]]
==============================================================================
