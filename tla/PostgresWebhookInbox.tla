------------------------ MODULE PostgresWebhookInbox ------------------------
(***************************************************************************)
(* The Postgres webhook inbox (store-postgres webhook-inbox-store.ts) at   *)
(* the granularity of SQL statements, for one event key: every statement   *)
(* but the sweeps names one key, and the sweeps treat keys alike.          *)
(*                                                                         *)
(* A claim is up to five statements of one caller, with other callers'     *)
(* statements in between: the conditional write; a SELECT when it wrote    *)
(* nothing; a repair that writes the timestamps of that SELECT back in     *)
(* canonical form; the conditional write again, with the clock reading of  *)
(* the first; a last SELECT.                                               *)
(*                                                                         *)
(* A statement that names one key is atomic: under READ COMMITTED Postgres *)
(* re-evaluates its WHERE clause on the locked, latest version of the row. *)
(* The soft-release of listRetryable is not: its subquery picks keys in    *)
(* the statement's snapshot, and on the latest version of a row Postgres   *)
(* re-evaluates only the outer clause, status = 'claimed'.                 *)
(*                                                                         *)
(* All hosts read one clock; reading it and running the first statement of *)
(* a call is one step.                                                     *)
(***************************************************************************)
EXTENDS WebhookClaims, FiniteSets

CONSTANTS Callers,      \* concurrent callers of claim
          Pollers,      \* concurrent callers of listRetryable
          Deployments,  \* which of them run together
          LeaseMs,      \* lease duration
          RetryDelays,  \* the retryAfterMs values callers pass to fail
          MaxTime,      \* bound of the clock
          MaxTokens     \* bound of the number of tokens drawn

ASSUME LeaseAssumption == LeaseMs \in Nat \ {0}
ASSUME DeploymentAssumption == Deployments \subseteq SUBSET (Callers \cup Pollers)
ASSUME DelayAssumption == RetryDelays \subseteq Nat
ASSUME BoundAssumption == MaxTime \in Nat /\ MaxTokens \in Nat

VARIABLES row,       \* the row of the key, AbsentRow when there is none
          tuple,     \* identity of the stored tuple: the token it was inserted with
          now,       \* the clock
          issued,    \* tokens 1..issued have been drawn
          claim,     \* claim[c]: where caller c is in its claim
          poll,      \* poll[p]: the keys poller p's subquery picked
          running,   \* the callers and pollers of this deployment
          \* what was promised and recorded, for the properties
          granted,   \* tokens that have been written to the row
          promised,  \* the expiry time last returned to a holder
          backoff,   \* the availableAt the last failure set, NoTime if none
          failures,  \* handler failures recorded since the row was inserted
          call       \* the latest statement that changed the row for a caller

vars == <<row, tuple, now, issued, claim, poll, running,
          granted, promised, backoff, failures, call>>
history == <<granted, promised, backoff, failures>>

Key == "key"

Idle == [pc |-> "idle"]

\* The steps of a claim after its first statement wrote nothing.
InClaim == [pc : {"select", "repair", "retry", "reselect"}, in : ClaimInput,
            now0 : Nat, availableAt : Time, lease : Time]

\* The soft-release of a poller whose subquery picked the key.
InPoll == [pc : {"release"}, now0 : Nat, tuple : Nat]

Init == /\ row = AbsentRow /\ tuple = 0 /\ now = 0 /\ issued = 0
        /\ claim = [c \in Callers |-> Idle]
        /\ poll = [p \in Pollers |-> Idle]
        /\ running \in Deployments
        /\ granted = {} /\ promised = NoTime /\ backoff = NoTime /\ failures = 0
        /\ call = [op |-> "none", key |-> Key, token |-> NoToken]

Called(op, token) == call' = [op |-> op, key |-> Key, token |-> token]

-----------------------------------------------------------------------------
(* claim                                                                   *)

Inputs == {[hash |-> h, ref |-> h, ifMatch |-> m, leaseMs |-> LeaseMs,
            token |-> issued + 1] : h \in Hashes, m \in Hashes \cup {NoHash}}

Writes(in, now0) == row.status = "absent" \/ WebhookClaimWhere(row, in, now0)

\* INSERT ... ON CONFLICT DO UPDATE ... RETURNING.
ClaimStatement(in, now0) ==
  /\ row' = WebhookClaimStatement(row, in, now0)
  /\ tuple' = IF row.status = "absent" THEN in.token ELSE tuple
  /\ granted' = granted \cup {in.token}
  /\ promised' = now0 + in.leaseMs
  /\ Called("claim", NoToken)
  /\ UNCHANGED <<backoff, failures>>

Claim(c, in) ==
  /\ claim[c] = Idle /\ issued < MaxTokens
  /\ issued' = in.token
  /\ \/ /\ Writes(in, now)
        /\ ClaimStatement(in, now)
        /\ UNCHANGED claim
     \/ /\ ~Writes(in, now)
        /\ claim' = [claim EXCEPT ![c] =
                       [pc |-> "select", in |-> in, now0 |-> now,
                        availableAt |-> NoTime, lease |-> NoTime]]
        /\ UNCHANGED <<row, tuple, history, call>>
  /\ UNCHANGED <<now, poll, running>>

\* The SELECT after a miss: unless the row looks claimable, the call ends with
\* an answer, or with StoreUnavailableError when the row is gone.
Select(c) ==
  /\ claim[c].pc = "select"
  /\ claim' = [claim EXCEPT ![c] =
       IF row.status # "absent"
          /\ ClassifyWebhookClaimMiss(row, @.in, now) = "claimable"
       THEN [@ EXCEPT !.pc = "repair", !.availableAt = row.availableAt,
                      !.lease = row.lease]
       ELSE Idle]
  /\ UNCHANGED <<row, tuple, now, issued, poll, running, history, call>>

\* Bug: the repair has no fence (STORES-4).
RepairWhere_NoFence(now0) == row.status \notin Terminal \cup {"absent"}

\* The fence of webhookTimestampRepairTemplates: free or expired leases only.
RepairWhere(now0) ==
  /\ row.status \notin Terminal \cup {"absent"}
  /\ row.status = "pending" \/ row.lease = NoTime \/ row.lease <= now0

Repair(c) ==
  /\ claim[c].pc = "repair"
  /\ row' = IF RepairWhere(claim[c].now0)
            THEN [row EXCEPT !.availableAt = claim[c].availableAt,
                             !.lease = claim[c].lease]
            ELSE row
  /\ claim' = [claim EXCEPT ![c].pc = "retry"]
  /\ UNCHANGED <<tuple, now, issued, poll, running, history, call>>

Retry(c) ==
  /\ claim[c].pc = "retry"
  /\ \/ /\ Writes(claim[c].in, claim[c].now0)
        /\ ClaimStatement(claim[c].in, claim[c].now0)
        /\ claim' = [claim EXCEPT ![c] = Idle]
     \/ /\ ~Writes(claim[c].in, claim[c].now0)
        /\ claim' = [claim EXCEPT ![c].pc = "reselect"]
        /\ UNCHANGED <<row, tuple, history, call>>
  /\ UNCHANGED <<now, issued, poll, running>>

\* The last SELECT only words the answer.
Reselect(c) ==
  /\ claim[c].pc = "reselect"
  /\ claim' = [claim EXCEPT ![c] = Idle]
  /\ UNCHANGED <<row, tuple, now, issued, poll, running, history, call>>

-----------------------------------------------------------------------------
(* renew, complete, fail: one conditional UPDATE each                      *)

Renew(token) ==
  /\ issued < MaxTokens
  /\ LeaseMutationWhere(row, "claimed", token, TRUE, now)
  /\ row' = RenewedRow(row, issued + 1, LeaseMs, now)
  /\ issued' = issued + 1
  /\ granted' = granted \cup {issued + 1}
  /\ promised' = now + LeaseMs
  /\ Called("renew", token)
  /\ UNCHANGED <<tuple, now, claim, poll, running, backoff, failures>>

Complete(token) ==
  /\ LeaseMutationWhere(row, "claimed", token, TRUE, now)
  /\ row' = CompletedRow(row)
  /\ Called("complete", token)
  /\ UNCHANGED <<tuple, now, issued, claim, poll, running, history>>

Fail(token, dead, restore, delay) ==
  /\ LeaseMutationWhere(row, "claimed", token, FALSE, now)
  /\ row' = FailedRow(row, dead, restore, delay, now)
  /\ backoff' = now + delay
  /\ failures' = IF restore THEN failures ELSE failures + 1
  /\ Called("fail", token)
  /\ UNCHANGED <<tuple, now, issued, claim, poll, running, granted, promised>>

-----------------------------------------------------------------------------
(* listRetryable and deleteExpired                                         *)

\* The subquery: the key is picked when the snapshot shows an expired claim.
PollScan(p) ==
  /\ poll[p] = Idle
  /\ row.status = "claimed" /\ row.lease # NoTime /\ row.lease <= now
  /\ poll' = [poll EXCEPT ![p] = [pc |-> "release", now0 |-> now, tuple |-> tuple]]
  /\ UNCHANGED <<row, tuple, now, issued, claim, running, history, call>>

\* Bug: the outer WHERE does not look at the status again (SQL-UPD-1).
ReleaseWhere_KeysOnly(scanned) == tuple = scanned

\* The outer WHERE clause, on the latest version of the tuple.
ReleaseWhere(scanned) == tuple = scanned /\ row.status = "claimed"

PollRelease(p) ==
  /\ poll[p] # Idle
  /\ \/ /\ ReleaseWhere(poll[p].tuple)
        /\ row' = [row EXCEPT !.status = "pending", !.token = NoToken,
                              !.lease = NoTime,
                              !.attempts = IF @ > 0 THEN @ - 1 ELSE 0,
                              !.availableAt = poll[p].now0]
        /\ backoff' = NoTime
     \/ /\ ~ReleaseWhere(poll[p].tuple)
        /\ UNCHANGED <<row, backoff>>
  /\ poll' = [poll EXCEPT ![p] = Idle]
  /\ call' = [call EXCEPT !.op = "list"]
  /\ UNCHANGED <<tuple, now, issued, claim, running, granted, promised, failures>>

\* A sweep deletes the row when it is finished and old enough, or finds nothing.
DeleteExpired ==
  /\ \/ /\ row.status \in {"completed", "dead_letter"}
        /\ row' = AbsentRow /\ tuple' = 0 /\ failures' = 0
        /\ promised' = NoTime /\ backoff' = NoTime
     \/ UNCHANGED <<row, tuple, failures, promised, backoff>>
  /\ call' = [call EXCEPT !.op = "delete"]
  /\ UNCHANGED <<now, issued, claim, poll, running, granted>>

Tick == /\ now < MaxTime
        /\ now' = now + 1
        /\ UNCHANGED <<row, tuple, issued, claim, poll, running, history, call>>

Next == \/ \E c \in Callers \cap running :
             \/ \E in \in Inputs : Claim(c, in)
             \/ Select(c) \/ Repair(c) \/ Retry(c) \/ Reselect(c)
        \/ \E token \in granted :
             \/ Renew(token) \/ Complete(token)
             \/ \E dead, restore \in BOOLEAN, delay \in RetryDelays :
                  Fail(token, dead, restore, delay)
        \/ \E p \in Pollers \cap running : PollScan(p) \/ PollRelease(p)
        \/ DeleteExpired
        \/ Tick

Spec == Init /\ [][Next]_vars

-----------------------------------------------------------------------------

TypeOK == /\ row \in Row
          /\ row.status = "claimed" <=> row.token # NoToken
          /\ tuple \in Nat /\ now \in Nat /\ issued \in Nat
          /\ claim \in [Callers -> {Idle} \cup InClaim]
          /\ poll \in [Pollers -> {Idle} \cup InPoll]
          /\ running \in Deployments
          /\ granted \subseteq 1..issued
          /\ promised \in Time /\ backoff \in Time
          /\ failures \in Nat

\* The attempt budget is exact under every interleaving of statements: attempts
\* are the recorded failures plus one for an outstanding or completed claim.
\* Two pollers that picked the same expired claim give it back once (SQL-UPD-1).
AttemptsCountFailures ==
  row.attempts = failures + (IF row.status \in {"claimed", "completed"} THEN 1 ELSE 0)

\* What the lease contract sees of the row: the lease a holder was promised, not
\* the column, decides what is live.
phase  == [k \in {Key} |-> IF row.status \in Terminal THEN "done"
                           ELSE IF row.status = "claimed" THEN "held" ELSE "free"]
holder == [k \in {Key} |-> row.token]
live   == [k \in {Key} |-> row.status = "claimed" /\ promised > now]
used   == granted

Contract == INSTANCE LeaseTable WITH Keys <- {Key}

\* Where nobody polls, the statements of concurrent claims, renewals and
\* completions implement the lease contract: no interleaving of a claim's later
\* statements takes a row from a holder before the time it was promised (STORES-4).
ImplementsContract ==
  Contract!Init
    /\ [][Pollers \cap running = {} => Contract!Next]_(Contract!vars)

\* A soft-release takes the token of an expired lease only: no poller clears a
\* live token (S20-LIST-NOW in listRetryable).
LiveTokenNotCleared ==
  [][call'.op = "list" /\ row.status = "claimed" /\ promised > now
       => row'.token = row.token]_vars

\* A pending row is not acquired again with the same payload before the time
\* its failure set (the true backoff of availableAt).
BackoffHonoured ==
  [][row.status = "pending" /\ row'.status = "claimed" /\ row'.hash = row.hash
       => backoff <= now]_vars
=============================================================================
