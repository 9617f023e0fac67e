----------------------- MODULE MCPostgresWebhookInbox -----------------------
(* Two concurrent claims, with or without pollers, on one event.           *)
EXTENDS PostgresWebhookInbox
=============================================================================
