-------------------------- MODULE MCWebhookDelivery --------------------------
EXTENDS WebhookDelivery
CONSTANTS e1, e2, d1, d2, d3

\* The first event has two hooks, the second one.
MCFanout == [e \in Events |-> IF e = e1 THEN <<d1, d2>> ELSE <<d3>>]
==============================================================================
