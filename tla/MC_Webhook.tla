------------------------------- MODULE MC_Webhook -------------------------------
(* Small instances of WebhookDelivery for TLC. *)
EXTENDS WebhookDelivery, TLC

Symmetry == Permutations(Events) \cup Permutations(Senders)
================================================================================
