----------------------------- MODULE MCWebhooks -----------------------------
(* Instances of Webhooks for TLC: two subscriptions of one user to the     *)
(* type of the one event.                                                  *)
EXTENDS Webhooks, TLC

CONSTANTS s1, s2, e1

BothMatch == [e \in Event |-> Subscription]
=============================================================================
