----------------------------- MODULE MCWebhooks -----------------------------
(* Two subscriptions and two overlapping passes, each other's equals.      *)
EXTENDS Webhooks, TLC

Interchangeable == Permutations(Subs) \cup Permutations(Passes)
=============================================================================
