---------------------------- MODULE WebhookClaims ----------------------------
(***************************************************************************)
(* The claim rules of the webhook inbox as pure operators on one row.      *)
(*                                                                         *)
(* paykernel writes the same rule five times: as a decision function       *)
(* (decideWebhookClaim), as the classification of a conditional write that *)
(* touched no row (classifyWebhookClaimMiss), as the WHERE and SET clauses *)
(* of the SQL statement (webhookClaimTemplates), as the claim method of    *)
(* the in-memory store, which soft-releases an expired lease before it     *)
(* looks at the row, and as a Redis script.  All are here, each from its   *)
(* own source, so that their agreement can be checked and proved.          *)
(***************************************************************************)
EXTENDS Leases

CONSTANTS Hashes,   \* payload hashes; the payload stored under hash h is h
          NoHash    \* an omitted payloadRef or ifMatchPayloadHash

ASSUME NoHashAssumption == NoHash \notin Hashes

Statuses == {"absent", "pending", "claimed", "completed", "failed", "dead_letter"}

\* The statuses no claim leaves.
Terminal == {"completed", "failed", "dead_letter"}

\* A row of the inbox.  `ref` is the hash of the payload payloadRef stores.
Row == [status      : Statuses,
        hash        : Hashes \cup {NoHash},
        ref         : Hashes \cup {NoHash},
        token       : Nat,
        lease       : Time,
        attempts    : Nat,
        generation  : Nat,
        availableAt : Time]

AbsentRow == [status |-> "absent", hash |-> NoHash, ref |-> NoHash,
              token |-> NoToken, lease |-> NoTime, attempts |-> 0,
              generation |-> 0, availableAt |-> NoTime]

\* What a caller passes to claim, with the token the store drew for the call.
ClaimInput == [hash    : Hashes,
               ref     : Hashes \cup {NoHash},
               ifMatch : Hashes \cup {NoHash},
               leaseMs : Nat \ {0},
               token   : Nat \ {0}]

\* payloadRef := input ?? existing.
Coalesce(ref, existing) == IF ref # NoHash THEN ref ELSE existing

-----------------------------------------------------------------------------
(* The decision function.                                                  *)

\* Plausible bugs, for mutation testing, end in an underscore and a word: here,
\* an expired claim answered in the vocabulary of the miss classifier, ...
DecideWebhookClaim_Claimable(row, in, now) ==
  IF row.status = "claimed" THEN "claimable" ELSE "acquired"

\* ... an active lease that does not protect its row, ...
DecideWebhookClaim_IgnoresLease(row, in, now) ==
  IF row.status = "completed" THEN "already_completed"
  ELSE IF row.status \in {"dead_letter", "failed"} THEN "duplicate_failed"
  ELSE "acquired"

\* ... and a completed row taken for one that can be claimed again.
DecideWebhookClaim_Recompletes(row, in, now) ==
  IF row.status \in {"dead_letter", "failed"} THEN "duplicate_failed"
  ELSE IF row.status = "claimed" /\ IsLeaseActive(row.lease, now) THEN "in_progress"
  ELSE "acquired"

DecideWebhookClaim(row, in, now) ==
  IF row.status = "absent" THEN "acquired"
  ELSE IF row.status = "completed" THEN "already_completed"
  ELSE IF row.status \in {"dead_letter", "failed"} THEN "duplicate_failed"
  ELSE IF row.status = "claimed" /\ IsLeaseActive(row.lease, now)
       THEN IF row.hash # in.hash THEN "payload_hash_conflict" ELSE "in_progress"
  ELSE IF in.ifMatch # NoHash /\ row.hash # in.ifMatch
       THEN "payload_hash_conflict"
  ELSE IF row.hash = in.hash /\ row.status = "pending" /\ row.availableAt > now
       THEN "not_available"
  ELSE "acquired"

\* The row an "acquired" decision writes.  Only a pending row burns an attempt.
AcquiredRow(row, in, now) ==
  [status      |-> "claimed",
   hash        |-> in.hash,
   ref         |-> Coalesce(in.ref, row.ref),
   token       |-> in.token,
   lease       |-> now + in.leaseMs,
   attempts    |-> IF row.status = "claimed" THEN row.attempts
                                             ELSE row.attempts + 1,
   generation  |-> row.generation + 1,
   availableAt |-> now]

-----------------------------------------------------------------------------
(* The classification of a claim statement that wrote no row.              *)

\* Bug: the CAS on ifMatchPayloadHash is forgotten after a miss.
ClassifyWebhookClaimMiss_NoCas(row, in, now) ==
  IF row.status = "completed" THEN "already_completed"
  ELSE IF row.status \in {"failed", "dead_letter"} THEN "duplicate_failed"
  ELSE IF row.status = "claimed" /\ IsLeaseActive(row.lease, now)
       THEN IF row.hash # in.hash THEN "payload_hash_conflict" ELSE "in_progress"
  ELSE IF row.status = "claimed" \/ row.hash # in.hash \/ row.availableAt <= now
       THEN "claimable" ELSE "not_available"

ClassifyWebhookClaimMiss(row, in, now) ==
  IF row.status = "completed" THEN "already_completed"
  ELSE IF row.status \in {"failed", "dead_letter"} THEN "duplicate_failed"
  ELSE IF row.status = "claimed" /\ IsLeaseActive(row.lease, now)
       THEN IF row.hash # in.hash THEN "payload_hash_conflict" ELSE "in_progress"
  ELSE IF in.ifMatch # NoHash /\ row.hash # in.ifMatch
       THEN "payload_hash_conflict"
  ELSE IF row.status = "claimed" THEN "claimable"
  ELSE IF row.hash # in.hash THEN "claimable"
  ELSE IF row.availableAt > now THEN "not_available"
  ELSE "claimable"

-----------------------------------------------------------------------------
(* The SQL statement: which row ON CONFLICT DO UPDATE may write, and what. *)

\* Bug: no supersede during backoff (WEBHOOKS-3).
WebhookClaimWhere_WaitsOut(row, in, now) ==
  /\ \/ row.status = "pending" /\ row.availableAt <= now
     \/ row.status = "claimed" /\ row.lease <= now
  /\ in.ifMatch = NoHash \/ row.hash = in.ifMatch

WebhookClaimWhere(row, in, now) ==
  /\ row.status \notin Terminal
  /\ \/ /\ row.status = "pending"
        /\ \/ row.availableAt = NoTime
           \/ row.availableAt <= now
           \/ row.hash # in.hash
     \/ /\ row.status = "claimed"
        /\ \/ row.lease = NoTime
           \/ row.lease <= now
  /\ in.ifMatch = NoHash \/ row.hash = in.ifMatch

\* Bug: a crash reclaim burns an attempt (WEBHOOKS-1).
WebhookClaimStatement_AlwaysCounts(row, in, now) ==
  IF row.status = "absent" \/ WebhookClaimWhere(row, in, now)
  THEN [row EXCEPT !.status = "claimed", !.hash = in.hash, !.ref = Coalesce(in.ref, @),
                   !.token = in.token, !.lease = now + in.leaseMs, !.attempts = @ + 1,
                   !.generation = @ + 1, !.availableAt = now]
  ELSE row

WebhookClaimStatement(row, in, now) ==
  IF row.status = "absent"
  THEN [status |-> "claimed", hash |-> in.hash, ref |-> in.ref,
        token |-> in.token, lease |-> now + in.leaseMs, attempts |-> 1,
        generation |-> 1, availableAt |-> now]
  ELSE IF WebhookClaimWhere(row, in, now)
  THEN [row EXCEPT !.status      = "claimed",
                   !.hash        = in.hash,
                   !.ref         = Coalesce(in.ref, @),
                   !.token       = in.token,
                   !.lease       = now + in.leaseMs,
                   !.attempts    = IF row.status = "claimed" THEN @ ELSE @ + 1,
                   !.generation  = @ + 1,
                   !.availableAt = now]
  ELSE row

-----------------------------------------------------------------------------
(* The in-memory store's claim: soft-release, then the gates.              *)

\* Bugs: the attempt is not given back; the claim of a dead worker is kept.
ReleaseExpiredLease_KeepsAttempt(row, now) ==
  IF row.status = "claimed" /\ row.lease # NoTime /\ row.lease <= now
  THEN [row EXCEPT !.status = "pending", !.token = NoToken, !.lease = NoTime,
                   !.availableAt = now]
  ELSE row

ReleaseExpiredLease_Never(row, now) == row

\* An expired claim becomes pending again and its attempt is given back.
ReleaseExpiredLease(row, now) ==
  IF row.status = "claimed" /\ row.lease # NoTime /\ row.lease <= now
  THEN [row EXCEPT !.status      = "pending",
                   !.token       = NoToken,
                   !.lease       = NoTime,
                   !.attempts    = IF @ > 0 THEN @ - 1 ELSE 0,
                   !.availableAt = now]
  ELSE row

\* `base` is the row after the soft-release.
MemoryClaimKind(base, in, now) ==
  IF base.status = "absent" THEN "acquired"
  ELSE IF base.status = "completed" THEN "already_completed"
  ELSE IF base.status \in {"dead_letter", "failed"} THEN "duplicate_failed"
  ELSE IF base.status = "claimed" /\ IsLeaseActive(base.lease, now)
       THEN IF base.hash # in.hash THEN "payload_hash_conflict" ELSE "in_progress"
  ELSE IF in.ifMatch # NoHash /\ base.hash # in.ifMatch
       THEN "payload_hash_conflict"
  ELSE IF base.hash = in.hash /\ base.status = "pending" /\ base.availableAt > now
       THEN "not_available"
  ELSE "acquired"

MemoryAcquiredRow(base, in, now) ==
  [status      |-> "claimed",
   hash        |-> in.hash,
   ref         |-> Coalesce(in.ref, base.ref),
   token       |-> in.token,
   lease       |-> now + in.leaseMs,
   attempts    |-> base.attempts + 1,
   generation  |-> base.generation + 1,
   availableAt |-> now]

-----------------------------------------------------------------------------
(* The Redis script, which reads and writes the row in one EVAL.           *)

\* Bug: the CAS is checked on pending rows only.
RedisClaimKind_LateCas(row, in, now) ==
  IF row.status = "completed" THEN "already_completed"
  ELSE IF row.status \in {"dead_letter", "failed"} THEN "duplicate_failed"
  ELSE IF row.status = "claimed" /\ row.lease > now
       THEN IF row.hash # in.hash THEN "payload_hash_conflict" ELSE "in_progress"
  ELSE IF row.status = "pending" /\ in.ifMatch # NoHash /\ row.hash # in.ifMatch
       THEN "payload_hash_conflict"
  ELSE IF row.status = "pending" /\ row.hash = in.hash /\ row.availableAt > now
       THEN "not_available"
  ELSE "acquired"

RedisClaimKind(row, in, now) ==
  IF row.status = "absent" THEN "acquired"
  ELSE IF row.status = "completed" THEN "already_completed"
  ELSE IF row.status \in {"dead_letter", "failed"} THEN "duplicate_failed"
  ELSE IF row.status = "claimed" /\ row.lease > now
       THEN IF row.hash # in.hash THEN "payload_hash_conflict" ELSE "in_progress"
  ELSE IF in.ifMatch # NoHash /\ row.hash # in.ifMatch THEN "payload_hash_conflict"
  ELSE IF row.status = "pending" /\ row.hash = in.hash /\ row.availableAt > now
       THEN "not_available"
  ELSE "acquired"

RedisClaimedRow(row, in, now) ==
  [status      |-> "claimed",
   hash        |-> in.hash,
   ref         |-> Coalesce(in.ref, row.ref),
   token       |-> in.token,
   lease       |-> now + in.leaseMs,
   attempts    |-> IF row.status = "absent" THEN 1
                   ELSE IF row.status = "pending" THEN row.attempts + 1 ELSE row.attempts,
   generation  |-> IF row.status = "absent" THEN 1 ELSE row.generation + 1,
   availableAt |-> now]

-----------------------------------------------------------------------------
(* The other writes of the inbox, shared by the stores.                    *)

RenewedRow(row, token, leaseMs, now) ==
  [row EXCEPT !.token = token, !.lease = now + leaseMs, !.generation = @ + 1]

\* Bug: the finished row keeps its token.
CompletedRow_KeepsToken(row) == [row EXCEPT !.status = "completed", !.lease = NoTime]

CompletedRow(row) ==
  [row EXCEPT !.status = "completed", !.token = NoToken, !.lease = NoTime]

\* Bug: parking burns an attempt (restoreAttempt ignored).
FailedRow_NoRestore(row, dead, restore, retryAfter, now) ==
  [row EXCEPT !.status = IF dead THEN "dead_letter" ELSE "pending",
              !.token = NoToken, !.lease = NoTime, !.availableAt = now + retryAfter]

\* `restore` gives the claim's attempt back (a parked or refused claim).
FailedRow(row, dead, restore, retryAfter, now) ==
  [row EXCEPT !.status      = IF dead THEN "dead_letter" ELSE "pending",
              !.token       = NoToken,
              !.lease       = NoTime,
              !.attempts    = IF restore THEN (IF @ > 0 THEN @ - 1 ELSE 0) ELSE @,
              !.availableAt = now + retryAfter]
=============================================================================
