----------------------------- MODULE MCWebhooks -----------------------------
(* A small instance of Webhooks for TLC.                                   *)
EXTENDS Webhooks

CONSTANTS s1, s2

\* The first subscription is a recipient of every event; the second follows
\* the marketplace, and every event is about a task that was opened.
SmallRecipients == [e \in Events |-> {s1}]
SmallMarket == [e \in Events |-> {s2}]
=============================================================================
