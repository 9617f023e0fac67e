------------------------------- MODULE Leases -------------------------------
(***************************************************************************)
(* The lease and fencing-token rules every durable store of paykernel      *)
(* shares (packages/sql-foundation/src/claims/algorithm.ts).  A row that   *)
(* is leased carries an unguessable token and an expiry time; a mutator    *)
(* must present the token, and some mutators also need the lease to be     *)
(* unexpired.                                                              *)
(*                                                                         *)
(* Times are natural numbers on the store's clock.  NoTime stands for a    *)
(* NULL, empty or unparseable timestamp.  Tokens are positive numbers; a   *)
(* freshly issued one differs from every earlier one, as a random UUID     *)
(* does.  NoToken stands for NULL.                                         *)
(***************************************************************************)
EXTENDS Integers

NoTime  == -1
NoToken == 0

Time == Nat \cup {NoTime}

\* A lease protects its row strictly before its expiry time.
IsLeaseActive(lease, now) == lease # NoTime /\ lease > now

\* Whether a mutator that presents `token` may write a row, and the reason it
\* may not.  `requireActive` is false for fail and markIndeterminate.
DecideLeaseMutation(row, expectedStatus, token, requireActive, now) ==
  IF row.status = "absent" THEN "not_found"
  ELSE IF row.status # expectedStatus THEN "wrong_status"
  ELSE IF \/ row.token = NoToken
          \/ row.token # token
          \/ requireActive /\ ~IsLeaseActive(row.lease, now)
       THEN "lease_lost"
  ELSE "ok"

\* Bug: a lease still counts at the instant it expires.
LeaseMutationWhere_AtExpiry(row, expectedStatus, token, requireActive, now) ==
  /\ row.status = expectedStatus
  /\ row.token # NoToken
  /\ row.token = token
  /\ requireActive => (row.lease # NoTime /\ row.lease >= now)

\* The WHERE clause by which the SQL adapters enforce the same decision.
LeaseMutationWhere(row, expectedStatus, token, requireActive, now) ==
  /\ row.status = expectedStatus
  /\ row.token # NoToken
  /\ row.token = token
  /\ requireActive => (row.lease # NoTime /\ row.lease > now)
=============================================================================
