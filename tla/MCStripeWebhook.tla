-------------------------- MODULE MCStripeWebhook --------------------------
(* The StripeWebhook runs; the cfg files give the constants their values. *)
EXTENDS StripeWebhook, TLC
=============================================================================
