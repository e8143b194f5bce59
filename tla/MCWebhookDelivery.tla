------------------------- MODULE MCWebhookDelivery -------------------------
(* WebhookDelivery for TLC: all deliveries go to one webhook.              *)
EXTENDS WebhookDelivery

CONSTANT theWebhook
OneWebhook == [d \in Deliveries |-> theWebhook]
=============================================================================
