--------------------------- MODULE MCLocalJournal ---------------------------
(***************************************************************************)
(* LocalJournal on small instances: processes and events are model values. *)
(***************************************************************************)
EXTENDS LocalJournal, TLC

Symmetry == Permutations(Procs) \cup Permutations(Events)
=============================================================================
