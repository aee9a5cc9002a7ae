---- MODULE MCWebhookDelivery ----
(* Instances of WebhookDelivery for TLC. *)
EXTENDS WebhookDelivery, TLC

SwitchOps == {"disable", "enable"}
====
