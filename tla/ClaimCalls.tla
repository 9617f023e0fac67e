----------------------------- MODULE ClaimCalls -----------------------------
(***************************************************************************)
(* One claim, and one fenced write, against an arbitrary row of one of the *)
(* three leased tables at an arbitrary time: the setting in which the      *)
(* implementations of a claim rule are compared.  Nothing restricts the    *)
(* row to those a history of calls produces, except where a property says  *)
(* so.                                                                     *)
(***************************************************************************)
EXTENDS WebhookClaims, IdempotencyClaims, ReconciliationClaims

CONSTANTS MaxTime, MaxAttempts   \* bounds of the rows enumerated

ASSUME CallsAssumption == MaxTime \in Nat /\ MaxAttempts \in Nat
ASSUME FingerprintsAssumption == Fingerprints # {}

VARIABLES row,          \* the stored row of the webhook inbox
          in,           \* the caller's claim input
          reservation,  \* the stored row of the idempotency table
          rin,          \* the caller's reserve input
          job,          \* the stored row of the reconciliation table
          now,          \* the store's clock when the statement runs
          answer        \* "none", then the kind the call answers

vars == <<row, in, reservation, rin, job, now, answer>>

BoundedTime == 0..MaxTime \cup {NoTime}

\* Unset columns of an absent row hold their defaults.
Rows ==
  {AbsentRow} \cup
  [status : Statuses \ {"absent"}, hash : Hashes, ref : Hashes \cup {NoHash},
   token : {NoToken, 1}, lease : BoundedTime, attempts : 0..MaxAttempts,
   generation : {1}, availableAt : BoundedTime]

Inputs == [hash : Hashes, ref : Hashes \cup {NoHash},
           ifMatch : Hashes \cup {NoHash}, leaseMs : {1}, token : {2}]

Reservations ==
  {NoReservation} \cup
  [status : ReservationStatuses \ {"absent"}, fingerprint : Fingerprints,
   token : {NoToken, 1}, lease : BoundedTime, attempts : 0..MaxAttempts,
   generation : {1}]

ReserveInputs == [fingerprint : Fingerprints, leaseMs : {1}, token : {2}]

\* due_at is NOT NULL, and schedule and fail write it in canonical form.
Jobs ==
  {NoJob} \cup
  [status : JobStatuses \ {"absent"}, token : {NoToken, 1}, lease : BoundedTime,
   attempts : 0..MaxAttempts, generation : {1}, dueAt : 0..MaxTime]

\* The token and the lease duration of a claim of a job.
JobToken   == 2
JobLeaseMs == 1

\* One of the three tables holds an arbitrary row, the others none.
Init == /\ \/ row \in Rows /\ reservation = NoReservation /\ job = NoJob
           \/ row = AbsentRow /\ reservation \in Reservations /\ job = NoJob
           \/ row = AbsentRow /\ reservation = NoReservation /\ job \in Jobs
        /\ in \in Inputs
        /\ rin \in ReserveInputs
        /\ now \in 0..MaxTime
        /\ answer = "none"

\* The calls are served by the decision functions.
Claim == /\ answer = "none"
         /\ answer' = DecideWebhookClaim(row, in, now)
         /\ row' = IF answer' = "acquired" THEN AcquiredRow(row, in, now) ELSE row
         /\ UNCHANGED <<in, reservation, rin, job, now>>

Reserve == /\ answer = "none"
           /\ answer' = DecideIdempotencyReserve(reservation, rin, now)
           /\ reservation' = IF answer' = "acquired" THEN ReservedRow(reservation, rin, now)
                                                    ELSE reservation
           /\ UNCHANGED <<row, in, rin, job, now>>

ClaimJob == /\ answer = "none"
            /\ answer' = DecideReconciliationClaim(job, now)
            /\ job' = IF answer' = "acquired" THEN ClaimedJob(job, JobToken, JobLeaseMs, now)
                                              ELSE job
            /\ UNCHANGED <<row, in, reservation, rin, now>>

Next == Claim \/ Reserve \/ ClaimJob

Spec == Init /\ [][Next]_vars

Answers == {"acquired", "already_completed", "duplicate_failed", "payload_hash_conflict",
            "in_progress", "not_available", "indeterminate", "fingerprint_conflict",
            "not_found", "already_terminal", "not_due"}

TypeOK == /\ row \in Row
          /\ row.status = "absent" => row = AbsentRow
          /\ in \in ClaimInput
          /\ reservation \in ReservationRow
          /\ reservation.status = "absent" => reservation = NoReservation
          /\ rin \in ReserveInput
          /\ job \in JobRow
          /\ job.status = "absent" <=> job.dueAt = NoTime
          /\ now \in Nat
          /\ answer \in Answers \cup {"none"}

-----------------------------------------------------------------------------

\* The conditional SQL write of webhookClaimTemplates touches a row exactly
\* when decideWebhookClaim acquires it, and leaves the same row behind.
SqlMatchesDecision ==
  WebhookClaimStatement(row, in, now) =
    IF DecideWebhookClaim(row, in, now) = "acquired"
    THEN AcquiredRow(row, in, now) ELSE row

\* classifyWebhookClaimMiss says "claimable" of a stored row exactly when the
\* claim statement, run again, would write it, and otherwise gives the answer of
\* the decision function: a miss never freezes free work and never invents any.
MissMatchesDecision ==
  row.status # "absent" =>
    LET miss == ClassifyWebhookClaimMiss(row, in, now)
    IN  /\ miss = "claimable" <=> WebhookClaimWhere(row, in, now)
        /\ miss # "claimable" => miss = DecideWebhookClaim(row, in, now)

\* A claimed row of the inbox has a lease and has been counted once.
ClaimedShape(r) == r.status = "claimed" => r.lease # NoTime /\ r.attempts > 0

\* The Redis script answers as decideWebhookClaim does and writes the same row.  So
\* does, on the rows the inbox produces, the in-memory store, which soft-releases an
\* expired lease and then counts the claim: crash reclaim is net zero against
\* maxAttempts.
StoresMatchDecision ==
  LET kind == DecideWebhookClaim(row, in, now)
      won  == AcquiredRow(row, in, now)
      base == ReleaseExpiredLease(row, now)
  IN  /\ RedisClaimKind(row, in, now) = kind
      /\ kind = "acquired" => RedisClaimedRow(row, in, now) = won
      /\ ClaimedShape(row) =>
           /\ MemoryClaimKind(base, in, now) = kind
           /\ kind = "acquired" => MemoryAcquiredRow(base, in, now) = won

\* The WHERE clauses of complete, renew and fail admit exactly the writes
\* decideLeaseMutation allows, with and without an unexpired lease.
FencedWriteMatchesDecision ==
  \A token \in {1, 2}, requireActive \in BOOLEAN :
    DecideLeaseMutation(row, "claimed", token, requireActive, now) = "ok"
      <=> LeaseMutationWhere(row, "claimed", token, requireActive, now)

\* reserve: the SQL statement writes exactly when decideIdempotencyReserve acquires,
\* and writes the same row; a miss is "claimable" exactly when the statement, run
\* again, would write, and otherwise gives the decision's answer; the in-memory store,
\* which first takes an expired reservation's token, and the Redis script answer the
\* same.  So no store hands out a completed or an indeterminate key.
ReserveRulesAgree ==
  LET kind == DecideIdempotencyReserve(reservation, rin, now)
      miss == ClassifyIdempotencyReserveMiss(reservation, rin.fingerprint, now)
  IN  /\ IdempotencyReserveStatement(reservation, rin, now) =
           IF kind = "acquired" THEN ReservedRow(reservation, rin, now) ELSE reservation
      /\ reservation.status # "absent" =>
           /\ miss = "claimable" <=> IdempotencyReserveWhere(reservation, rin, now)
           /\ miss # "claimable" => miss = kind
      /\ MemoryReserveKind(ExpireIfNeeded(reservation, now), rin, now) = kind
      /\ RedisReserveKind(reservation, rin, now) = kind
      /\ kind = "acquired" =>
           RedisReservedRow(reservation, rin, now) = ReservedRow(reservation, rin, now)

\* claim of a job: the conditional UPDATE, the classification of a miss, the Redis
\* script and the in-memory store's soft-release followed by its count agree with
\* decideReconciliationClaim; the reclaim of a dead worker's job is net zero
\* against maxAttempts (STORES-1).
JobRulesAgree ==
  LET kind == DecideReconciliationClaim(job, now)
      miss == ClassifyReconciliationClaimMiss(job, now)
      base == ReleaseExpiredJob(job, now)
      won  == ClaimedJob(job, JobToken, JobLeaseMs, now)
  IN  /\ ReconciliationClaimStatement(job, JobToken, JobLeaseMs, now) =
           IF kind = "acquired" THEN won ELSE job
      /\ miss = "claimable" <=> ReconciliationClaimWhere(job, now)
      /\ miss # "claimable" => miss = kind
      /\ RedisJobKind(job, now) = kind
      /\ kind = "acquired" => RedisClaimedJob(job, JobToken, JobLeaseMs, now) = won
      /\ ClaimedShape(job) =>
           /\ MemoryJobKind(base, now) = kind
           /\ kind = "acquired" => MemoryClaimedJob(base, JobToken, JobLeaseMs, now) = won
=============================================================================
