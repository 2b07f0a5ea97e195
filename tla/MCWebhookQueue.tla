--------------------------- MODULE MCWebhookQueue ---------------------------
(* Small instances: one or two subscriptions with a few deliveries each.   *)
EXTENDS WebhookQueue, TLC, MCWebhookPolicy

SubSymmetry == Permutations(Subs)
One   == 1..1
Two   == 1..2
===========================================================================
