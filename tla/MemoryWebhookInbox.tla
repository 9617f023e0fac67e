------------------------- MODULE MemoryWebhookInbox -------------------------
(***************************************************************************)
(* The in-memory webhook inbox of packages/webhooks (memory-store.ts), the *)
(* store the engine's own tests run against.  Every method mutates its Map *)
(* without an await in between, so each is one action.                     *)
(*                                                                         *)
(* Any caller may present any token ever issued: a worker that was paused, *)
(* reclaimed or restarted still has the tokens it was given.               *)
(***************************************************************************)
EXTENDS WebhookClaims, FiniteSets

CONSTANTS Keys,         \* webhook event keys
          MaxEntries,   \* the maxEntries option (the size of Keys: no cap)
          LeaseMs,      \* lease duration
          RetryDelays,  \* the retryAfterMs values callers pass to fail
          MaxTime,      \* bound of the clock
          MaxTokens     \* bound of the number of tokens issued

ASSUME KeysAssumption  == IsFiniteSet(Keys)
ASSUME LeaseAssumption == LeaseMs \in Nat \ {0}
ASSUME DelayAssumption == RetryDelays \subseteq Nat
ASSUME BoundAssumption == MaxEntries \in Nat \ {0} /\ MaxTime \in Nat /\ MaxTokens \in Nat

VARIABLES rows,      \* the Map: rows[k] is AbsentRow when k is not in it
          born,      \* the Map's insertion order: the token k was inserted with
          now,       \* the store's clock
          issued,    \* tokens 1..issued have been issued
          failures,  \* handler failures recorded against k since its insertion
          call       \* the latest call and the kind it answered

vars == <<rows, born, now, issued, failures, call>>

Calls == [op : {"none", "claim", "renew", "complete", "fail", "list", "delete"},
          key : Keys, token : Nat]

Init == /\ rows     = [k \in Keys |-> AbsentRow]
        /\ born     = [k \in Keys |-> 0]
        /\ now      = 0
        /\ issued   = 0
        /\ failures = [k \in Keys |-> 0]
        /\ \E k \in Keys : call = [op |-> "none", key |-> k, token |-> NoToken]

Present == {k \in Keys : rows[k].status # "absent"}

Called(op, k, token) == call' = [op |-> op, key |-> k, token |-> token]

-----------------------------------------------------------------------------
(* claim                                                                   *)

Request(hash, ref, ifMatch) ==
  [hash |-> hash, ref |-> ref, ifMatch |-> ifMatch,
   leaseMs |-> LeaseMs, token |-> issued + 1]

\* A first delivery passes no hash to match, a worker the hash it was listed.
Requests == {Request(h, r, m) : h \in Hashes, r \in Hashes \cup {NoHash},
                                m \in Hashes \cup {NoHash}}

\* enforceCap: a new key at capacity evicts the oldest row that is not under an
\* active lease.
\* Bug: the cap is checked after the insertion it should prevent.
AtCapacity_Late(k) == rows[k].status = "absent" /\ Cardinality(Present) > MaxEntries

AtCapacity(k) == rows[k].status = "absent" /\ Cardinality(Present) >= MaxEntries

\* Bug: a row under an active lease is evicted.
Evictable_All == Present

Evictable == {j \in Present :
                ~(rows[j].status = "claimed" /\ IsLeaseActive(rows[j].lease, now))}

Evicted(k) == IF AtCapacity(k)
              THEN {j \in Evictable : \A i \in Evictable : born[j] <= born[i]}
              ELSE {}

\* The soft-release of the row sticks even when the claim is then refused.
ClaimRefused(k, in) ==
  LET base == ReleaseExpiredLease(rows[k], now)
  IN  /\ \/ MemoryClaimKind(base, in, now) # "acquired"
         \/ AtCapacity(k) /\ Evictable = {}      \* throws
      /\ rows' = [rows EXCEPT ![k] = base]
      /\ Called("claim", k, NoToken)
      /\ UNCHANGED <<born, now, issued, failures>>

ClaimAcquired(k, in) ==
  LET base == ReleaseExpiredLease(rows[k], now)
  IN  /\ issued < MaxTokens
      /\ MemoryClaimKind(base, in, now) = "acquired"
      /\ ~(AtCapacity(k) /\ Evictable = {})
      /\ rows' = [j \in Keys |->
                    IF j = k THEN MemoryAcquiredRow(base, in, now)
                    ELSE IF j \in Evicted(k) THEN AbsentRow ELSE rows[j]]
      /\ born' = [j \in Keys |->
                    IF j = k /\ base.status = "absent" THEN issued + 1
                    ELSE IF j \in Evicted(k) THEN 0 ELSE born[j]]
      /\ failures' = [j \in Keys |-> IF j \in Evicted(k) THEN 0 ELSE failures[j]]
      /\ issued' = issued + 1
      /\ Called("claim", k, NoToken)
      /\ UNCHANGED now

-----------------------------------------------------------------------------
(* renew, complete, fail: fenced by the token the caller presents          *)

Allowed(k, token, requireActive) ==
  DecideLeaseMutation(rows[k], "claimed", token, requireActive, now) = "ok"

Renew(k, token) ==
  /\ Allowed(k, token, TRUE)
  /\ issued < MaxTokens
  /\ rows' = [rows EXCEPT ![k] = RenewedRow(@, issued + 1, LeaseMs, now)]
  /\ issued' = issued + 1
  /\ Called("renew", k, token)
  /\ UNCHANGED <<born, now, failures>>

Complete(k, token) ==
  /\ Allowed(k, token, TRUE)
  /\ rows' = [rows EXCEPT ![k] = CompletedRow(@)]
  /\ Called("complete", k, token)
  /\ UNCHANGED <<born, now, issued, failures>>

\* A failure without restoreAttempt is the outcome of a handler run.
Fail(k, token, dead, restore, delay) ==
  /\ Allowed(k, token, FALSE)
  /\ rows' = [rows EXCEPT ![k] = FailedRow(@, dead, restore, delay, now)]
  /\ failures' = IF restore THEN failures ELSE [failures EXCEPT ![k] = @ + 1]
  /\ Called("fail", k, token)
  /\ UNCHANGED <<born, now, issued>>

-----------------------------------------------------------------------------
(* listRetryable, deleteExpired and the passing of time                    *)

Due(k) == LET row == ReleaseExpiredLease(rows[k], now)
          IN  row.status = "pending" /\ row.availableAt <= now

\* Rows are visited in insertion order until `limit` due ones are collected;
\* each visited row is soft-released on the way.
ListRetryable(limit) ==
  LET Visited == {k \in Present :
                    Cardinality({j \in Present : Due(j) /\ born[j] < born[k]}) < limit}
  IN  /\ rows' = [k \in Keys |-> IF k \in Visited
                                 THEN ReleaseExpiredLease(rows[k], now) ELSE rows[k]]
      /\ call' = [call EXCEPT !.op = "list", !.token = NoToken]
      /\ UNCHANGED <<born, now, issued, failures>>

\* `gone` are the rows old enough and within the limit of the sweep.
DeleteExpired(gone) ==
  /\ rows' = [k \in Keys |-> IF k \in gone THEN AbsentRow ELSE rows[k]]
  /\ born' = [k \in Keys |-> IF k \in gone THEN 0 ELSE born[k]]
  /\ failures' = [k \in Keys |-> IF k \in gone THEN 0 ELSE failures[k]]
  /\ call' = [call EXCEPT !.op = "delete", !.token = NoToken]
  /\ UNCHANGED <<now, issued>>

Sweepable == {k \in Keys : rows[k].status \in {"completed", "dead_letter"}}

Tick == /\ now < MaxTime
        /\ now' = now + 1
        /\ UNCHANGED <<rows, born, issued, failures, call>>

Next == \/ \E k \in Keys, in \in Requests : ClaimRefused(k, in) \/ ClaimAcquired(k, in)
        \/ \E k \in Keys, token \in 1..issued :
             \/ Renew(k, token)
             \/ Complete(k, token)
             \/ \E dead, restore \in BOOLEAN, delay \in RetryDelays :
                  Fail(k, token, dead, restore, delay)
        \/ \E limit \in 1..Cardinality(Keys) : ListRetryable(limit)
        \/ \E gone \in SUBSET Sweepable : DeleteExpired(gone)
        \/ Tick

Spec == Init /\ [][Next]_vars

-----------------------------------------------------------------------------

TypeOK == /\ rows \in [Keys -> Row]
          /\ \A k \in Keys : rows[k].status = "absent" => rows[k] = AbsentRow
          /\ born \in [Keys -> Nat]
          /\ now \in Nat
          /\ issued \in Nat
          /\ failures \in [Keys -> Nat]
          /\ call \in Calls

\* The attempt budget is exact.  Through claims, renewals, parkings, crash
\* reclaims by claim or by listRetryable, supersessions and late failures, a
\* row's attempts counter is the number of handler failures recorded against it,
\* plus one while a claim is outstanding or completed: crashes never burn the
\* budget and failures are never forgotten (WEBHOOKS-1, WEBHOOKS-2).
AttemptsCountFailures ==
  \A k \in Keys :
    rows[k].attempts = failures[k] +
      (IF rows[k].status \in {"claimed", "completed"} THEN 1 ELSE 0)

\* Exactly the claimed rows carry a token and a lease; the token was issued and
\* no other row carries it, so no caller's token ever opens two rows.
TokensFenceOneRow ==
  \A k \in Keys :
    /\ rows[k].status = "claimed" <=> rows[k].token # NoToken
    /\ rows[k].status = "claimed" <=> rows[k].lease # NoTime
    /\ rows[k].token <= issued
    /\ \A j \in Keys \ {k} : rows[k].token = rows[j].token => rows[k].token = NoToken

\* The store never holds more rows than maxEntries, although an insertion may
\* find every row under an active lease.
WithinCapacity == Cardinality(Present) <= MaxEntries

\* What the lease contract sees of the rows.
phase  == [k \in Keys |-> IF rows[k].status \in Terminal THEN "done"
                          ELSE IF rows[k].status = "claimed" THEN "held" ELSE "free"]
holder == [k \in Keys |-> rows[k].token]
live   == [k \in Keys |-> rows[k].status = "claimed" /\ IsLeaseActive(rows[k].lease, now)]
used   == 1..issued

\* The contract the inbox implements, for these phase, holder, live and used.
Contract == INSTANCE LeaseTable

\* The inbox implements the lease contract: only the presenter of the current
\* token disturbs a live lease, tokens are never reissued, nobody finishes a row
\* after losing it, and a finished row is never claimed again.
ImplementsContract == Contract!Spec
=============================================================================
