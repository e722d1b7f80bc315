---------------------------- MODULE MCIngestStack ----------------------------
(***************************************************************************)
(* Instances of IngestStack for TLC.                                       *)
(***************************************************************************)
EXTENDS IngestStack, TLC

Symmetry == Permutations(Requests) \cup Permutations(Workers) \cup Permutations(BundleIds)
=============================================================================
