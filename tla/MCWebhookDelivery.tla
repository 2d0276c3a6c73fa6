-------------------------- MODULE MCWebhookDelivery --------------------------
(* Small instances of WebhookDelivery for TLC.                              *)
EXTENDS WebhookDelivery, TLC

CONSTANTS
    Ahead   \* the worker whose clock is a unit ahead, if any

MCSkew == [w \in Worker |-> IF w = Ahead THEN 1 ELSE 0]

\* The delay grows with the attempts made.
MCDelay == [n \in 1..MaxAttempts |-> n]

\* No attempt outlives its own claim (webhook-delivery.ts:142-143).
Timely == -1

Symmetry == Permutations(Endpoint)
=============================================================================
