-------------------------- MODULE IdempotencyClaims --------------------------
(***************************************************************************)
(* The rules of the leased idempotency table as operators on one row: who  *)
(* may reserve a key, what is said to the others, and what the fenced      *)
(* writes leave behind.  As for the webhook inbox, the rule exists as a    *)
(* decision function, as the classification of a miss, as SQL, as a Redis  *)
(* script and as the reserve of an in-memory store, which expires a stale  *)
(* reservation first.                                                      *)
(*                                                                         *)
(* A row is one mutation of an application, its fingerprint the digest of  *)
(* the parameters.  An indeterminate row is one whose outcome nobody       *)
(* knows: it must never be handed out for replay again.                    *)
(***************************************************************************)
EXTENDS Leases

CONSTANT Fingerprints

ReservationStatuses == {"absent", "reserved", "completed", "indeterminate", "expired"}

ReservationRow == [status      : ReservationStatuses,
                   fingerprint : Fingerprints,
                   token       : Nat,
                   lease       : Time,
                   attempts    : Nat,
                   generation  : Nat]

\* What a caller passes to reserve, with the token drawn for the call.
ReserveInput == [fingerprint : Fingerprints, leaseMs : Nat \ {0}, token : Nat \ {0}]

\* The row of a key that has none.  Its fingerprint is never read.
NoReservation == [status |-> "absent", fingerprint |-> CHOOSE f \in Fingerprints : TRUE,
                  token |-> NoToken, lease |-> NoTime, attempts |-> 0, generation |-> 0]

-----------------------------------------------------------------------------
(* The decision function and the row an "acquired" decision writes.        *)

\* Bug: an indeterminate row is taken for one whose lease ran out.
DecideIdempotencyReserve_Replays(row, in, now) ==
  IF row.status = "completed" THEN "already_completed"
  ELSE IF row.status # "absent" /\ row.fingerprint # in.fingerprint
       THEN "fingerprint_conflict"
  ELSE IF row.status = "reserved" /\ IsLeaseActive(row.lease, now) THEN "in_progress"
  ELSE "acquired"

DecideIdempotencyReserve(row, in, now) ==
  IF row.status = "absent" THEN "acquired"
  ELSE IF row.status = "completed" THEN "already_completed"
  ELSE IF row.status = "indeterminate" THEN "indeterminate"
  ELSE IF row.fingerprint # in.fingerprint THEN "fingerprint_conflict"
  ELSE IF row.status = "reserved" /\ IsLeaseActive(row.lease, now) THEN "in_progress"
  ELSE "acquired"

ReservedRow(row, in, now) ==
  [status      |-> "reserved",
   fingerprint |-> in.fingerprint,
   token       |-> in.token,
   lease       |-> now + in.leaseMs,
   attempts    |-> row.attempts + 1,
   generation  |-> row.generation + 1]

-----------------------------------------------------------------------------
(* The classification of a reserve statement that wrote no row.            *)

\* Bug: the fingerprint is compared before the row is found to be finished.
ClassifyIdempotencyReserveMiss_FingerprintFirst(row, fingerprint, now) ==
  IF row.fingerprint # fingerprint THEN "fingerprint_conflict"
  ELSE IF row.status = "completed" THEN "already_completed"
  ELSE IF row.status = "indeterminate" THEN "indeterminate"
  ELSE IF row.status = "reserved" /\ IsLeaseActive(row.lease, now) THEN "in_progress"
  ELSE "claimable"

ClassifyIdempotencyReserveMiss(row, fingerprint, now) ==
  IF row.status = "completed" THEN "already_completed"
  ELSE IF row.status = "indeterminate" THEN "indeterminate"
  ELSE IF row.fingerprint # fingerprint THEN "fingerprint_conflict"
  ELSE IF row.status = "reserved" /\ IsLeaseActive(row.lease, now) THEN "in_progress"
  ELSE "claimable"

-----------------------------------------------------------------------------
(* The SQL statement: ON CONFLICT DO UPDATE ... WHERE.                     *)

\* Bug: the A4 status is forgotten in the WHERE clause.  Its lease is NULL, so
\* the row counts as free.
IdempotencyReserveWhere_Replays(row, in, now) ==
  /\ row.fingerprint = in.fingerprint
  /\ row.status # "completed"
  /\ row.status = "expired" \/ row.lease = NoTime \/ row.lease <= now

IdempotencyReserveWhere(row, in, now) ==
  /\ row.fingerprint = in.fingerprint
  /\ row.status \notin {"completed", "indeterminate"}
  /\ row.status = "expired" \/ row.lease = NoTime \/ row.lease <= now

IdempotencyReserveStatement(row, in, now) ==
  IF row.status = "absent"
  THEN [status |-> "reserved", fingerprint |-> in.fingerprint, token |-> in.token,
        lease |-> now + in.leaseMs, attempts |-> 1, generation |-> 1]
  ELSE IF IdempotencyReserveWhere(row, in, now)
  THEN [row EXCEPT !.status     = "reserved",
                   !.token      = in.token,
                   !.lease      = now + in.leaseMs,
                   !.attempts   = @ + 1,
                   !.generation = @ + 1]
  ELSE row

-----------------------------------------------------------------------------
(* The in-memory store: an expired reservation loses its token and status. *)

ExpireIfNeeded(row, now) ==
  IF row.status = "reserved" /\ row.lease # NoTime /\ row.lease <= now
  THEN [row EXCEPT !.status = "expired", !.token = NoToken, !.lease = NoTime]
  ELSE row

\* Bug: the indeterminate row is looked at after the lease only.
MemoryReserveKind_Replays(base, in, now) ==
  IF base.status = "absent" THEN "acquired"
  ELSE IF base.status = "completed" THEN "already_completed"
  ELSE IF base.fingerprint # in.fingerprint THEN "fingerprint_conflict"
  ELSE IF base.status = "reserved" /\ IsLeaseActive(base.lease, now) THEN "in_progress"
  ELSE "acquired"

\* `base` is the row after ExpireIfNeeded.
MemoryReserveKind(base, in, now) ==
  IF base.status = "absent" THEN "acquired"
  ELSE IF base.status = "completed" THEN "already_completed"
  ELSE IF base.status = "indeterminate" THEN "indeterminate"
  ELSE IF base.fingerprint # in.fingerprint THEN "fingerprint_conflict"
  ELSE IF base.status = "reserved" /\ IsLeaseActive(base.lease, now) THEN "in_progress"
  ELSE "acquired"

-----------------------------------------------------------------------------
(* The Redis script, which reads and writes the row in one EVAL.           *)

RedisReserveKind(row, in, now) ==
  IF row.status = "absent" THEN "acquired"
  ELSE IF row.status = "completed" THEN "already_completed"
  ELSE IF row.status = "indeterminate" THEN "indeterminate"
  ELSE IF row.fingerprint # in.fingerprint THEN "fingerprint_conflict"
  ELSE IF row.status = "reserved" /\ row.lease > now THEN "in_progress"
  ELSE "acquired"

RedisReservedRow(row, in, now) ==
  [status      |-> "reserved",
   fingerprint |-> in.fingerprint,
   token       |-> in.token,
   lease       |-> now + in.leaseMs,
   attempts    |-> IF row.status = "absent" THEN 1 ELSE row.attempts + 1,
   generation  |-> IF row.status = "absent" THEN 1 ELSE row.generation + 1]

-----------------------------------------------------------------------------
(* The other writes of the table.                                          *)

RenewedReservation(row, token, leaseMs, now) ==
  [row EXCEPT !.token = token, !.lease = now + leaseMs, !.generation = @ + 1]

\* Bug: the closed row keeps its token.
ClosedReservation_KeepsToken(row, status) ==
  [row EXCEPT !.status = status, !.lease = NoTime]

\* A completed or indeterminate row has no owner, token or lease.
ClosedReservation(row, status) ==
  [row EXCEPT !.status = status, !.token = NoToken, !.lease = NoTime]
=============================================================================
