------------------------- MODULE ReconciliationClaims -------------------------
(***************************************************************************)
(* The rules of the reconciliation job table as operators on one row.  A   *)
(* job asks a provider what became of a payment; it is scheduled for a     *)
(* time, claimed under a lease when it is due, and in the end completed,   *)
(* failed or left to a person (manual_review).  A closed job may be        *)
(* scheduled anew under its key.                                           *)
(***************************************************************************)
EXTENDS Leases

JobStatuses == {"absent", "scheduled", "claimed", "completed", "failed", "manual_review"}

\* The statuses no claim leaves.
JobClosed == {"completed", "failed", "manual_review"}

JobRow == [status     : JobStatuses,
           token      : Nat,
           lease      : Time,
           attempts   : Nat,
           generation : Nat,
           dueAt      : Time]

NoJob == [status |-> "absent", token |-> NoToken, lease |-> NoTime, attempts |-> 0,
          generation |-> 0, dueAt |-> NoTime]

-----------------------------------------------------------------------------
(* schedule                                                                *)

\* Bug: reopening a job starts its fencing counter anew.
ScheduledRow_ResetsGeneration(row, dueAt) ==
  [status |-> "scheduled", token |-> NoToken, lease |-> NoTime, attempts |-> 0,
   generation |-> 0, dueAt |-> dueAt]

\* An absent job is inserted; a closed one is reopened, generation kept.
ScheduledRow(row, dueAt) ==
  [status |-> "scheduled", token |-> NoToken, lease |-> NoTime, attempts |-> 0,
   generation |-> row.generation, dueAt |-> dueAt]

\* Bug: a job at work is scheduled anew under the worker.
Schedulable_Always(row) == TRUE

Schedulable(row) == row.status = "absent" \/ row.status \in JobClosed

-----------------------------------------------------------------------------
(* The decision function and the row an "acquired" decision writes.        *)

DecideReconciliationClaim(row, now) ==
  IF row.status = "absent" THEN "not_found"
  ELSE IF row.status \in JobClosed THEN "already_terminal"
  ELSE IF row.status = "claimed" /\ IsLeaseActive(row.lease, now) THEN "in_progress"
  ELSE IF row.dueAt # NoTime /\ row.dueAt > now THEN "not_due"
  ELSE "acquired"

\* A claim of a scheduled job burns an attempt, the reclaim of one does not.
ClaimedJob(row, token, leaseMs, now) ==
  [status     |-> "claimed",
   token      |-> token,
   lease      |-> now + leaseMs,
   attempts   |-> IF row.status = "claimed" THEN row.attempts ELSE row.attempts + 1,
   generation |-> row.generation + 1,
   dueAt      |-> row.dueAt]

\* Bug: an expired claim is said to be in progress (SQL-1: work frozen for good).
ClassifyReconciliationClaimMiss_Freezes(row, now) ==
  IF row.status = "absent" THEN "not_found"
  ELSE IF row.status \in JobClosed THEN "already_terminal"
  ELSE IF row.status = "claimed" THEN "in_progress"
  ELSE IF row.dueAt # NoTime /\ row.dueAt > now THEN "not_due"
  ELSE "claimable"

\* The classification of a claim statement that wrote no row.
ClassifyReconciliationClaimMiss(row, now) ==
  IF row.status = "absent" THEN "not_found"
  ELSE IF row.status \in JobClosed THEN "already_terminal"
  ELSE IF row.status = "claimed" /\ IsLeaseActive(row.lease, now) THEN "in_progress"
  ELSE IF row.dueAt # NoTime /\ row.dueAt > now THEN "not_due"
  ELSE "claimable"

-----------------------------------------------------------------------------
(* The SQL statement: a conditional UPDATE, never an insert.               *)

\* Bug: the due time is not looked at when an expired claim is taken over.
ReconciliationClaimWhere_Early(row, now) ==
  /\ row.status \notin JobClosed \cup {"absent"}
  /\ \/ row.status = "scheduled" /\ row.dueAt # NoTime /\ row.dueAt <= now
     \/ row.status = "claimed" /\ (row.lease = NoTime \/ row.lease <= now)

ReconciliationClaimWhere(row, now) ==
  /\ row.status \notin JobClosed \cup {"absent"}
  /\ row.dueAt # NoTime /\ row.dueAt <= now
  /\ row.status = "scheduled" \/ row.lease = NoTime \/ row.lease <= now

ReconciliationClaimStatement(row, token, leaseMs, now) ==
  IF ReconciliationClaimWhere(row, now)
  THEN [row EXCEPT !.status     = "claimed",
                   !.token      = token,
                   !.lease      = now + leaseMs,
                   !.attempts   = IF row.status = "claimed" THEN @ ELSE @ + 1,
                   !.generation = @ + 1]
  ELSE row

-----------------------------------------------------------------------------
(* The in-memory store's claim, and the soft-release it shares with the    *)
(* listDue of every store.                                                 *)

\* Bug: the attempt of a worker that died is not given back.
ReleaseExpiredJob_KeepsAttempt(row, now) ==
  IF row.status = "claimed" /\ row.lease # NoTime /\ row.lease <= now
  THEN [row EXCEPT !.status = "scheduled", !.token = NoToken, !.lease = NoTime]
  ELSE row

\* Bug: the job of a worker that died is never released.
ReleaseExpiredJob_Never(row, now) == row

ReleaseExpiredJob(row, now) ==
  IF row.status = "claimed" /\ row.lease # NoTime /\ row.lease <= now
  THEN [row EXCEPT !.status   = "scheduled",
                   !.token    = NoToken,
                   !.lease    = NoTime,
                   !.attempts = IF @ > 0 THEN @ - 1 ELSE 0]
  ELSE row

\* `base` is the row after the soft-release.
MemoryJobKind(base, now) ==
  IF base.status = "absent" THEN "not_found"
  ELSE IF base.status \in JobClosed THEN "already_terminal"
  ELSE IF base.status = "claimed" /\ IsLeaseActive(base.lease, now) THEN "in_progress"
  ELSE IF base.dueAt # NoTime /\ base.dueAt > now THEN "not_due"
  ELSE "acquired"

MemoryClaimedJob(base, token, leaseMs, now) ==
  [base EXCEPT !.status     = "claimed",
               !.token      = token,
               !.lease      = now + leaseMs,
               !.attempts   = IF base.status = "scheduled" THEN @ + 1 ELSE @,
               !.generation = @ + 1]

-----------------------------------------------------------------------------
(* The Redis script, which reads and writes the row in one EVAL, and the   *)
(* index of due jobs every Redis script keeps beside the rows.             *)

RedisJobKind(row, now) ==
  IF row.status = "absent" THEN "not_found"
  ELSE IF row.status \in JobClosed THEN "already_terminal"
  ELSE IF row.status = "claimed" /\ row.lease > now THEN "in_progress"
  ELSE IF row.dueAt > now THEN "not_due"
  ELSE "acquired"

RedisClaimedJob(row, token, leaseMs, now) ==
  [row EXCEPT !.status     = "claimed",
              !.token      = token,
              !.lease      = now + leaseMs,
              !.attempts   = IF row.status = "scheduled" THEN @ + 1 ELSE @,
              !.generation = @ + 1]

\* Bug: a claim takes the job off the index (P1315-REDIS-2).
DueScore_Unlisted(row) == IF row.status = "scheduled" THEN row.dueAt ELSE NoTime

\* The score a script that leaves this row ZADDs, or NoTime when it ZREMs the job:
\* a claimed job is found again when its lease has run out.
DueScore(row) == CASE row.status = "scheduled" -> row.dueAt
                   [] row.status = "claimed"   -> row.lease
                   [] OTHER                    -> NoTime

-----------------------------------------------------------------------------
(* The other writes of the table.                                          *)

RenewedJob(row, token, leaseMs, now) ==
  [row EXCEPT !.token = token, !.lease = now + leaseMs, !.generation = @ + 1]

\* Bug: a closed job keeps the token of its last worker.
ClosedJob_KeepsToken(row, status) == [row EXCEPT !.status = status, !.lease = NoTime]

ClosedJob(row, status) ==
  [row EXCEPT !.status = status, !.token = NoToken, !.lease = NoTime]

\* fail with a retryAt schedules the job again, without one it is closed.
FailedJob(row, retryAt) ==
  IF retryAt = NoTime THEN ClosedJob(row, "failed")
  ELSE [row EXCEPT !.status = "scheduled", !.token = NoToken, !.lease = NoTime,
                   !.dueAt = retryAt]
=============================================================================
