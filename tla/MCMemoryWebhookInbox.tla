------------------------ MODULE MCMemoryWebhookInbox ------------------------
(* Two events, two payload hashes, a store that can hold only one of them. *)
EXTENDS MemoryWebhookInbox
=============================================================================
