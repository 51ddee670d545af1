-------------------------- MODULE MCWebhookDelivery --------------------------
(***************************************************************************)
(* One worker over one event.                                              *)
(***************************************************************************)
EXTENDS WebhookDelivery

CONSTANT w1
==============================================================================
