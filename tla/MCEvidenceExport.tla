-------------------------- MODULE MCEvidenceExport --------------------------
(***************************************************************************)
(* EvidenceExport on two plans of an intake: enough for a plan to be       *)
(* superseded by a newer one while a bundle is put together.               *)
(***************************************************************************)
EXTENDS EvidenceExport, TLC

Symmetry == Permutations(Exports) \cup Permutations(Readers)
=============================================================================
