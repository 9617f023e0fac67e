--------------------- MODULE MCPostgresIdempotencyStore ---------------------
(* Two hosts whose clocks may differ, on one idempotency key.              *)
EXTENDS PostgresIdempotencyStore
=============================================================================
