--------------------------- MODULE MCWebhookEngine ---------------------------
(* Two workers on one event; the cfg fixes the engine's options.           *)
EXTENDS WebhookEngine
=============================================================================
