---------------------------- MODULE MCLifecycle -----------------------------
(* Instances of Lifecycle for TLC. *)
EXTENDS Lifecycle, TLC

Symmetry == Permutations(Messages) \cup Permutations(Passes)
            \cup Permutations(Handlers) \cup Permutations(Cancels)
=============================================================================
