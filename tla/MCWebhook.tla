----------------------------- MODULE MCWebhook ------------------------------
(* Instances of Webhook for TLC. *)
EXTENDS Webhook, TLC

Symmetry == Permutations(Events) \cup Permutations(Drains)
=============================================================================
