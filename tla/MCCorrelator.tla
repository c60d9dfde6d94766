---------------------------- MODULE MCCorrelator ----------------------------
(* Instances of Correlator for TLC. *)
EXTENDS Correlator, TLC

Symmetry == Permutations(Uplinks) \cup Permutations(Items)
=============================================================================
