---------------------------- MODULE MCRuleCatalog ----------------------------
(***************************************************************************)
(* Instances of RuleCatalog for TLC.                                       *)
(***************************************************************************)
EXTENDS RuleCatalog, TLC

Symmetry == Permutations(Workers) \cup Permutations(Contents)
=============================================================================
