--------------------- MODULE MemoryWebhookInbox_proofs ---------------------
(***************************************************************************)
(* The attempt budget and the token fence of the in-memory inbox, for any  *)
(* set of keys, hashes, delays and bounds.                                 *)
(*                                                                         *)
(* The inductive invariant IInv says of each row, on its own, that its     *)
(* columns fit its status and its failure count (Sound), and of the rows   *)
(* together that their tokens differ.  Each write is first shown to keep   *)
(* one row Sound; the step proof then only has to say which rows a method  *)
(* touches and where their tokens come from.                               *)
(***************************************************************************)
EXTENDS MemoryWebhookInbox, FiniteSetTheorems, WellFoundedInduction, TLAPS

\* What holds of one row r whose recorded failures are f, when tokens up to n
\* have been issued.
Sound(r, f, n) ==
  /\ r \in Row
  /\ f \in Nat
  /\ r.status = "absent" => r = AbsentRow
  /\ r.attempts = f + (IF r.status \in {"claimed", "completed"} THEN 1 ELSE 0)
  /\ r.status = "claimed" <=> r.token # NoToken
  /\ r.status = "claimed" <=> r.lease # NoTime
  /\ r.token <= n

AllSound == \A k \in Keys : Sound(rows[k], failures[k], issued)

DistinctTokens ==
  \A j, k \in Keys : j # k /\ rows[k].token = rows[j].token => rows[k].token = NoToken

Shapes == /\ rows \in [Keys -> Row]
          /\ born \in [Keys -> Nat]
          /\ now \in Nat
          /\ issued \in Nat
          /\ failures \in [Keys -> Nat]
          /\ call \in Calls

IInv == Shapes /\ AllSound /\ DistinctTokens

-----------------------------------------------------------------------------
(* One row.                                                                *)

\* A row that is not in the Map is sound with no failures.
LEMMA AbsentSound == ASSUME NEW n \in Nat PROVE Sound(AbsentRow, 0, n)
BY DEF Sound, AbsentRow, Row, Statuses, Time, NoTime, NoToken

\* Issuing tokens leaves a row sound.
LEMMA SoundMonotone ==
  ASSUME NEW r, NEW f, NEW n \in Nat, NEW m \in Nat, n <= m, Sound(r, f, n)
  PROVE  Sound(r, f, m)
BY DEF Sound, Row

\* A soft-released row stays sound, and keeps its token or loses it.
LEMMA ReleaseSound ==
  ASSUME NEW r, NEW f, NEW n \in Nat, NEW t \in Nat, Sound(r, f, n)
  PROVE  /\ Sound(ReleaseExpiredLease(r, t), f, n)
         /\ ReleaseExpiredLease(r, t).token \in {r.token, NoToken}
<1> DEFINE q == ReleaseExpiredLease(r, t)
<1>1. CASE q = r
  BY <1>1
<1>2. CASE q # r
  <2>1. r.status = "claimed"
    BY <1>2 DEF ReleaseExpiredLease
  <2>2. r.attempts = f + 1 /\ r.attempts > 0 /\ r.attempts - 1 = f
    BY <2>1 DEF Sound
  <2>3. q = [r EXCEPT !.status = "pending", !.token = NoToken, !.lease = NoTime,
                      !.attempts = f, !.availableAt = t]
    BY <1>2, <2>2 DEF ReleaseExpiredLease
  <2> HIDE DEF q
  <2>4. /\ q.status = "pending" /\ q.token = NoToken /\ q.lease = NoTime
        /\ q.attempts = f
    BY <2>3 DEF Sound, Row
  <2>5. q \in Row
    BY <2>3 DEF Sound, Row, Statuses, Time, NoTime, NoToken
  <2>6. Sound(q, f, n)
    BY <2>4, <2>5 DEF Sound, NoToken
  <2> QED BY <2>4, <2>6 DEF q
<1> QED BY <1>1, <1>2

\* A claim that is acquired writes a sound row under the token of the call.
LEMMA AcquireSound ==
  ASSUME NEW r, NEW f, NEW n \in Nat, NEW t \in Nat, NEW in \in ClaimInput,
         Sound(r, f, n), in.token = n + 1,
         MemoryClaimKind(ReleaseExpiredLease(r, t), in, t) = "acquired"
  PROVE  LET q == MemoryAcquiredRow(ReleaseExpiredLease(r, t), in, t)
         IN  Sound(q, f, n + 1) /\ q.token = n + 1
<1> DEFINE b == ReleaseExpiredLease(r, t)
           q == MemoryAcquiredRow(b, in, t)
<1>1. Sound(b, f, n)
  BY ReleaseSound
<1>2. b.status # "completed" /\ b.status # "claimed"
  <2>1. b.status # "completed"
    BY DEF MemoryClaimKind
  <2>2. b.status = "claimed" => IsLeaseActive(b.lease, t)
    BY DEF Sound, ReleaseExpiredLease, IsLeaseActive, Row, Time, NoTime
  <2> QED BY <2>1, <2>2 DEF MemoryClaimKind
<1> HIDE DEF b
<1>3. b.attempts = f
  BY <1>1, <1>2 DEF Sound, Row
<1>4. q \in Row
  BY <1>1 DEF MemoryAcquiredRow, Sound, Row, ClaimInput, Statuses, Coalesce, Time, NoTime
<1>5. /\ q.status = "claimed" /\ q.token = n + 1 /\ q.attempts = f + 1
      /\ q.lease \in Nat
  BY <1>1, <1>3 DEF MemoryAcquiredRow, ClaimInput
<1>6. Sound(q, f, n + 1)
  BY <1>1, <1>4, <1>5 DEF Sound, NoToken, NoTime
<1> QED BY <1>5, <1>6 DEF b

\* A caller whose token a mutator accepts has a claimed row.
LEMMA AllowedClaimed ==
  ASSUME NEW k \in Keys, NEW token, NEW a \in BOOLEAN, Allowed(k, token, a)
  PROVE  rows[k].status = "claimed"
BY DEF Allowed, DecideLeaseMutation

LEMMA RenewSound ==
  ASSUME NEW r, NEW f, NEW n \in Nat, NEW t \in Nat,
         Sound(r, f, n), r.status = "claimed"
  PROVE  LET q == RenewedRow(r, n + 1, LeaseMs, t)
         IN  Sound(q, f, n + 1) /\ q.token = n + 1
<1> DEFINE q == RenewedRow(r, n + 1, LeaseMs, t)
<1>1. q = [r EXCEPT !.token = n + 1, !.lease = t + LeaseMs, !.generation = @ + 1]
  BY DEF RenewedRow
<1> HIDE DEF q
<1>2. q \in Row
  <2>1. n + 1 \in Nat /\ t + LeaseMs \in Time /\ r.generation + 1 \in Nat
    BY LeaseAssumption DEF Sound, Row, Time
  <2>2. r \in Row
    BY DEF Sound
  <2> QED BY <1>1, <2>1, <2>2 DEF Row
<1>3. /\ q.status = "claimed" /\ q.token = n + 1 /\ q.lease = t + LeaseMs
      /\ q.attempts = r.attempts
  BY <1>1 DEF Sound, Row
<1>4. Sound(q, f, n + 1)
  BY <1>2, <1>3, LeaseAssumption DEF Sound, NoToken, NoTime
<1> QED BY <1>3, <1>4 DEF q

LEMMA CompleteSound ==
  ASSUME NEW r, NEW f, NEW n \in Nat, Sound(r, f, n), r.status = "claimed"
  PROVE  Sound(CompletedRow(r), f, n) /\ CompletedRow(r).token = NoToken
<1> DEFINE q == CompletedRow(r)
<1>1. q = [r EXCEPT !.status = "completed", !.token = NoToken, !.lease = NoTime]
  BY DEF CompletedRow
<1> HIDE DEF q
<1>2. q \in Row
  BY <1>1 DEF Sound, Row, Statuses, Time, NoTime, NoToken
<1>3. /\ q.status = "completed" /\ q.token = NoToken /\ q.lease = NoTime
      /\ q.attempts = r.attempts
  BY <1>1 DEF Sound, Row
<1>4. Sound(q, f, n)
  BY <1>2, <1>3 DEF Sound, NoToken
<1> QED BY <1>3, <1>4 DEF q

\* A recorded failure counts one more; a restored attempt counts none.
LEMMA FailSound ==
  ASSUME NEW r, NEW f, NEW n \in Nat, NEW t \in Nat, NEW d \in Nat,
         NEW dead \in BOOLEAN, NEW restore \in BOOLEAN,
         Sound(r, f, n), r.status = "claimed"
  PROVE  /\ restore  => Sound(FailedRow(r, dead, restore, d, t), f, n)
         /\ ~restore => Sound(FailedRow(r, dead, restore, d, t), f + 1, n)
         /\ FailedRow(r, dead, restore, d, t).token = NoToken
<1> DEFINE q == FailedRow(r, dead, restore, d, t)
           g == IF restore THEN f ELSE f + 1
           s == IF dead THEN "dead_letter" ELSE "pending"
<1>1. r.attempts = f + 1 /\ f \in Nat /\ r.attempts > 0 /\ r.attempts - 1 = f
  BY DEF Sound
<1>2. q = [r EXCEPT !.status = s, !.token = NoToken, !.lease = NoTime,
                    !.attempts = g, !.availableAt = t + d]
  BY <1>1 DEF FailedRow
<1>3. g \in Nat /\ s \in {"dead_letter", "pending"}
  BY <1>1
<1> HIDE DEF q, g, s
<1>4. q \in Row
  <2>1. s \in Statuses /\ NoToken \in Nat /\ NoTime \in Time /\ t + d \in Time
    BY <1>3 DEF Statuses, NoToken, NoTime, Time
  <2>2. r \in Row
    BY DEF Sound
  <2> QED BY <1>2, <1>3, <2>1, <2>2 DEF Row
<1>5. q.status = s /\ q.token = NoToken /\ q.lease = NoTime /\ q.attempts = g
  BY <1>2 DEF Sound, Row
<1>6. Sound(q, g, n)
  BY <1>3, <1>4, <1>5 DEF Sound, NoToken
<1> QED BY <1>5, <1>6 DEF q, g

-----------------------------------------------------------------------------
(* The rows together.                                                      *)

\* A step that issues at most one token, to one row, and otherwise only drops
\* tokens keeps the rows' tokens different.
LEMMA TokensStayDistinct ==
  ASSUME IInv, NEW k0 \in Keys, 
         \A k \in Keys \ {k0} : rows'[k].token \in {rows[k].token, NoToken},
         rows'[k0].token \in {rows[k0].token, NoToken, issued + 1}
  PROVE  DistinctTokens'
<1> SUFFICES ASSUME NEW j \in Keys, NEW k \in Keys, j # k,
                    rows'[k].token = rows'[j].token, rows'[k].token # NoToken
             PROVE  FALSE
  BY DEF DistinctTokens
<1>1. \A i \in Keys : rows[i].token <= issued /\ rows[i].token \in Nat
  BY DEF IInv, AllSound, Sound, Row
<1>2. issued + 1 # rows[j].token /\ issued + 1 # rows[k].token
  BY <1>1 DEF IInv, Shapes
<1>3. rows[k].token = rows[j].token => rows[k].token = NoToken
  BY DEF IInv, DistinctTokens
<1> QED BY <1>2, <1>3

\* The rows of a well-formed request.
LEMMA RequestType ==
  ASSUME Shapes, NEW in \in Requests
  PROVE  in \in ClaimInput /\ in.token = issued + 1
BY LeaseAssumption DEF Requests, Request, ClaimInput, Shapes

LEMMA InitIInv == Init => IInv
<1> SUFFICES ASSUME Init PROVE IInv
  OBVIOUS
<1>1. Shapes
  BY DEF Init, Shapes, Calls, AbsentRow, Row, Statuses, Time, NoTime, NoToken
<1>2. AllSound
  BY AbsentSound DEF Init, AllSound
<1>3. DistinctTokens
  BY DEF Init, DistinctTokens, AbsentRow
<1> QED BY <1>1, <1>2, <1>3 DEF IInv

\* A refused claim can only soft-release the row it looked at.
LEMMA ClaimRefusedStep ==
  ASSUME IInv, NEW k \in Keys, NEW in \in Requests, ClaimRefused(k, in)
  PROVE  IInv'
<1> DEFINE base == ReleaseExpiredLease(rows[k], now)
<1>1. /\ rows' = [rows EXCEPT ![k] = base]
      /\ call' = [op |-> "claim", key |-> k, token |-> NoToken]
      /\ UNCHANGED <<born, now, issued, failures>>
  BY DEF ClaimRefused, Called
<1>2. Sound(base, failures[k], issued) /\ base.token \in {rows[k].token, NoToken}
  BY ReleaseSound DEF IInv, AllSound, Shapes
<1> HIDE DEF base
<1>3. Shapes'
  BY <1>1, <1>2 DEF IInv, Shapes, Sound, Calls, NoToken
<1>4. AllSound'
  BY <1>1, <1>2 DEF IInv, Shapes, AllSound
<1>5. DistinctTokens'
  <2>1. /\ \A j \in Keys \ {k} : rows'[j].token \in {rows[j].token, NoToken}
        /\ rows'[k].token \in {rows[k].token, NoToken}
    BY <1>1, <1>2 DEF IInv, Shapes
  <2> QED BY <2>1, TokensStayDistinct
<1> QED BY <1>3, <1>4, <1>5 DEF IInv

\* An acquired claim puts the new token on one row; the rows it evicts go.
LEMMA ClaimAcquiredStep ==
  ASSUME IInv, NEW k \in Keys, NEW in \in Requests, ClaimAcquired(k, in)
  PROVE  IInv'
<1> DEFINE base == ReleaseExpiredLease(rows[k], now)
           q == MemoryAcquiredRow(base, in, now)
<1>1. /\ rows' = [j \in Keys |-> IF j = k THEN q
                                 ELSE IF j \in Evicted(k) THEN AbsentRow ELSE rows[j]]
      /\ born' = [j \in Keys |-> IF j = k /\ base.status = "absent" THEN issued + 1
                                 ELSE IF j \in Evicted(k) THEN 0 ELSE born[j]]
      /\ failures' = [j \in Keys |-> IF j \in Evicted(k) THEN 0 ELSE failures[j]]
      /\ issued' = issued + 1 /\ now' = now
      /\ call' = [op |-> "claim", key |-> k, token |-> NoToken]
  BY DEF ClaimAcquired, Called
<1>2. Sound(q, failures[k], issued + 1) /\ q.token = issued + 1
  BY AcquireSound, RequestType DEF ClaimAcquired, IInv, AllSound, Shapes
<1>3. k \notin Evicted(k)
  BY DEF Evicted, AtCapacity, Evictable, Present
<1>4. issued \in Nat /\ issued' \in Nat /\ issued <= issued'
  BY <1>1 DEF IInv, Shapes
<1> HIDE DEF base, q
<1>5. AllSound'
  <2> SUFFICES ASSUME NEW j \in Keys PROVE Sound(rows'[j], failures'[j], issued')
    BY DEF AllSound
  <2>1. CASE j = k
    BY <1>1, <1>2, <1>3, <2>1
  <2>2. CASE j # k /\ j \in Evicted(k)
    BY <1>1, <1>4, <2>2, AbsentSound
  <2>3. CASE j # k /\ j \notin Evicted(k)
    BY <1>1, <1>4, <2>3, SoundMonotone DEF IInv, AllSound
  <2> QED BY <2>1, <2>2, <2>3
<1>6. Shapes'
  <2>1. rows' \in [Keys -> Row] /\ failures' \in [Keys -> Nat]
    BY <1>1, <1>5 DEF AllSound, Sound
  <2>2. born' \in [Keys -> Nat]
    BY <1>1, <1>4 DEF IInv, Shapes
  <2> QED BY <1>1, <1>4, <2>1, <2>2 DEF IInv, Shapes, Calls, NoToken
<1>7. DistinctTokens'
  <2>1. /\ \A j \in Keys \ {k} : rows'[j].token \in {rows[j].token, NoToken}
        /\ rows'[k].token = issued + 1
    BY <1>1, <1>2 DEF AbsentRow
  <2> QED BY <2>1, TokensStayDistinct
<1> QED BY <1>5, <1>6, <1>7 DEF IInv

\* A write to one row k that leaves it sound, its token dropped or freshly
\* issued, keeps the invariant.
LEMMA WriteStep ==
  ASSUME IInv, NEW k \in Keys, NEW q, NEW f, NEW token \in Nat,
         NEW op \in {"renew", "complete", "fail"},
         rows' = [rows EXCEPT ![k] = q],
         failures' = [failures EXCEPT ![k] = f],
         Called(op, k, token),
         issued' \in {issued, issued + 1},
         UNCHANGED <<born, now>>,
         Sound(q, f, issued'),
         q.token = NoToken \/ q.token = issued + 1
  PROVE  IInv'
<1>1. issued \in Nat /\ issued' \in Nat /\ issued <= issued'
  BY DEF IInv, Shapes
<1>2. AllSound'
  BY <1>1, SoundMonotone DEF IInv, Shapes, AllSound
<1>3. Shapes'
  BY <1>1 DEF IInv, Shapes, Sound, Called, Calls
<1>4. DistinctTokens'
  <2>1. /\ \A j \in Keys \ {k} : rows'[j].token \in {rows[j].token, NoToken}
        /\ rows'[k].token \in {rows[k].token, NoToken, issued + 1}
    BY DEF IInv, Shapes
  <2> QED BY <2>1, TokensStayDistinct
<1> QED BY <1>2, <1>3, <1>4 DEF IInv

\* renew, complete and fail write the one row whose token the caller holds.
LEMMA FencedWriteStep ==
  ASSUME IInv, NEW k \in Keys, NEW token \in 1..issued,
         \/ Renew(k, token)
         \/ Complete(k, token)
         \/ \E dead, restore \in BOOLEAN, delay \in RetryDelays :
              Fail(k, token, dead, restore, delay)
  PROVE  IInv'
<1>1. /\ Sound(rows[k], failures[k], issued) /\ issued \in Nat /\ now \in Nat
      /\ token \in Nat /\ failures = [failures EXCEPT ![k] = failures[k]]
  BY DEF IInv, AllSound, Shapes
<1>2. CASE Renew(k, token)
  <2>1. rows[k].status = "claimed"
    BY <1>2, AllowedClaimed DEF Renew
  <2>2. LET q == RenewedRow(rows[k], issued + 1, LeaseMs, now)
        IN  Sound(q, failures[k], issued + 1) /\ q.token = issued + 1
    BY <1>1, <2>1, RenewSound
  <2> QED BY <1>1, <1>2, <2>2, WriteStep DEF Renew
<1>3. CASE Complete(k, token)
  <2>1. rows[k].status = "claimed"
    BY <1>3, AllowedClaimed DEF Complete
  <2>2. /\ Sound(CompletedRow(rows[k]), failures[k], issued)
        /\ CompletedRow(rows[k]).token = NoToken
    BY <1>1, <2>1, CompleteSound
  <2> QED BY <1>1, <1>3, <2>2, WriteStep DEF Complete
<1>4. ASSUME NEW dead \in BOOLEAN, NEW restore \in BOOLEAN, NEW delay \in RetryDelays,
             Fail(k, token, dead, restore, delay)
      PROVE  IInv'
  <2> DEFINE f == IF restore THEN failures[k] ELSE failures[k] + 1
             q == FailedRow(rows[k], dead, restore, delay, now)
  <2>1. rows[k].status = "claimed"
    BY <1>4, AllowedClaimed DEF Fail
  <2>2. Sound(q, f, issued) /\ q.token = NoToken
    <3>1. delay \in Nat
      BY DelayAssumption
    <3> QED BY <1>1, <2>1, <3>1, FailSound
  <2>3. /\ rows' = [rows EXCEPT ![k] = q]
        /\ failures' = [failures EXCEPT ![k] = f]
        /\ Called("fail", k, token)
        /\ issued' = issued /\ UNCHANGED <<born, now>>
    BY <1>1, <1>4 DEF Fail
  <2> HIDE DEF f, q
  <2> QED BY <1>1, <2>2, <2>3, WriteStep
<1> QED BY <1>2, <1>3, <1>4

\* listRetryable soft-releases some rows and issues nothing.
LEMMA ListStep ==
  ASSUME IInv, NEW limit \in Nat, ListRetryable(limit)
  PROVE  IInv'
<1>1. /\ DOMAIN rows' = Keys
      /\ \A k \in Keys : \/ rows'[k] = ReleaseExpiredLease(rows[k], now)
                         \/ rows'[k] = rows[k]
      /\ rows' = [k \in Keys |-> rows'[k]]
      /\ call' = [call EXCEPT !.op = "list", !.token = NoToken]
      /\ UNCHANGED <<born, now, issued, failures>>
  BY DEF ListRetryable
<1>2. \A k \in Keys : /\ Sound(rows'[k], failures[k], issued)
                      /\ rows'[k].token \in {rows[k].token, NoToken}
  <2> SUFFICES ASSUME NEW k \in Keys
               PROVE  /\ Sound(rows'[k], failures[k], issued)
                      /\ rows'[k].token \in {rows[k].token, NoToken}
    OBVIOUS
  <2>1. Sound(rows[k], failures[k], issued) /\ issued \in Nat /\ now \in Nat
    BY DEF IInv, AllSound, Shapes
  <2>2. /\ Sound(ReleaseExpiredLease(rows[k], now), failures[k], issued)
        /\ ReleaseExpiredLease(rows[k], now).token \in {rows[k].token, NoToken}
    BY <2>1, ReleaseSound
  <2> QED BY <1>1, <2>1, <2>2
<1>3. AllSound'
  BY <1>1, <1>2 DEF AllSound
<1>4. Shapes'
  <2>1. rows' \in [Keys -> Row]
    BY <1>1, <1>2 DEF Sound
  <2> QED BY <1>1, <2>1 DEF IInv, Shapes, Calls, NoToken
<1>5. DistinctTokens'
  BY <1>2, TokensStayDistinct DEF IInv, DistinctTokens
<1> QED BY <1>3, <1>4, <1>5 DEF IInv

\* deleteExpired drops rows together with their failure counts.
LEMMA DeleteStep ==
  ASSUME IInv, NEW gone \in SUBSET Sweepable, DeleteExpired(gone)
  PROVE  IInv'
<1>1. /\ rows' = [k \in Keys |-> IF k \in gone THEN AbsentRow ELSE rows[k]]
      /\ born' = [k \in Keys |-> IF k \in gone THEN 0 ELSE born[k]]
      /\ failures' = [k \in Keys |-> IF k \in gone THEN 0 ELSE failures[k]]
      /\ call' = [call EXCEPT !.op = "delete", !.token = NoToken]
      /\ UNCHANGED <<now, issued>>
  BY DEF DeleteExpired
<1>2. AllSound'
  BY <1>1, AbsentSound DEF IInv, AllSound, Shapes
<1>3. Shapes'
  <2>1. rows' \in [Keys -> Row] /\ failures' \in [Keys -> Nat]
    BY <1>1, <1>2 DEF AllSound, Sound
  <2> QED BY <1>1, <2>1 DEF IInv, Shapes, Calls, NoToken
<1>4. DistinctTokens'
  <2>1. \A k \in Keys : rows'[k].token \in {rows[k].token, NoToken}
    BY <1>1 DEF AbsentRow
  <2> QED BY <2>1, TokensStayDistinct DEF IInv, DistinctTokens
<1> QED BY <1>2, <1>3, <1>4 DEF IInv

LEMMA StepIInv == IInv /\ [Next]_vars => IInv'
<1> SUFFICES ASSUME IInv, [Next]_vars PROVE IInv'
  OBVIOUS
<1>1. ASSUME NEW k \in Keys, NEW in \in Requests, ClaimRefused(k, in) PROVE IInv'
  BY <1>1, ClaimRefusedStep
<1>2. ASSUME NEW k \in Keys, NEW in \in Requests, ClaimAcquired(k, in) PROVE IInv'
  BY <1>2, ClaimAcquiredStep
<1>3. ASSUME NEW k \in Keys, NEW token \in 1..issued,
             \/ Renew(k, token)
             \/ Complete(k, token)
             \/ \E dead, restore \in BOOLEAN, delay \in RetryDelays :
                  Fail(k, token, dead, restore, delay)
      PROVE  IInv'
  BY <1>3, FencedWriteStep
<1>4. ASSUME NEW limit \in 1..Cardinality(Keys), ListRetryable(limit) PROVE IInv'
  BY <1>4, ListStep, FS_CardinalityType, KeysAssumption
<1>5. ASSUME NEW gone \in SUBSET Sweepable, DeleteExpired(gone) PROVE IInv'
  BY <1>5, DeleteStep
<1>6. CASE Tick
  BY <1>6 DEF Tick, IInv, Shapes, AllSound, DistinctTokens
<1>7. CASE UNCHANGED vars
  BY <1>7 DEF vars, IInv, Shapes, AllSound, DistinctTokens
<1> QED BY <1>1, <1>2, <1>3, <1>4, <1>5, <1>6, <1>7 DEF Next

\* The inductive invariant holds in every reachable state.
THEOREM Invariance == Spec => []IInv
BY InitIInv, StepIInv, PTL DEF Spec

\* Type correctness of the in-memory inbox.
THEOREM TypeCorrect == Spec => []TypeOK
<1>1. IInv => TypeOK
  BY DEF IInv, Shapes, AllSound, Sound, TypeOK
<1> QED BY <1>1, Invariance, PTL

\* The attempt budget is exact: a row's attempts are its recorded handler
\* failures, plus one while a claim is outstanding or completed, whatever
\* crashes, reclaims, parkings and late failures happened.
THEOREM BudgetIsExact == Spec => []AttemptsCountFailures
<1>1. IInv => AttemptsCountFailures
  BY DEF IInv, AllSound, Sound, AttemptsCountFailures
<1> QED BY <1>1, Invariance, PTL

\* A token opens at most one row, and only while that row is claimed.
THEOREM TokensFence == Spec => []TokensFenceOneRow
<1>1. IInv => TokensFenceOneRow
  BY DEF IInv, AllSound, Sound, DistinctTokens, TokensFenceOneRow
<1> QED BY <1>1, Invariance, PTL

-----------------------------------------------------------------------------
(* The inbox implements the lease contract of LeaseTable.                  *)

\* What the contract sees of a row.
LEMMA ContractView ==
  ASSUME NEW k \in Keys
  PROVE  /\ holder[k] = rows[k].token
         /\ phase[k] = IF rows[k].status \in Terminal THEN "done"
                       ELSE IF rows[k].status = "claimed" THEN "held" ELSE "free"
         /\ live[k] \in BOOLEAN
         /\ live[k] <=> rows[k].status = "claimed" /\ IsLeaseActive(rows[k].lease, now)
BY DEF holder, phase, live

LEMMA ContractViewNext ==
  ASSUME NEW k \in Keys
  PROVE  /\ holder'[k] = rows'[k].token
         /\ phase'[k] = IF rows'[k].status \in Terminal THEN "done"
                        ELSE IF rows'[k].status = "claimed" THEN "held" ELSE "free"
         /\ live'[k] \in BOOLEAN
         /\ live'[k] <=> rows'[k].status = "claimed" /\ IsLeaseActive(rows'[k].lease, now')
BY DEF holder, phase, live

\* A row that no call writes lapses at most by the clock.
LEMMA UntouchedLapses ==
  ASSUME IInv, NEW k \in Keys, rows'[k] = rows[k], now' \in {now, now + 1}
  PROVE  Contract!Lapse(k)
<1>1. rows[k] \in Row /\ now \in Nat
  BY DEF IInv, Shapes
<1>2. /\ phase'[k] = phase[k] /\ holder'[k] = holder[k]
      /\ live[k] => phase[k] = "held"
      /\ live'[k] => live[k]
      /\ live[k] \in BOOLEAN /\ live'[k] \in BOOLEAN
  BY <1>1, ContractView, ContractViewNext
     DEF IsLeaseActive, Row, Time, NoTime, Terminal
<1>3. CASE live[k] /\ ~live'[k]
  <2>1. live'[k] = FALSE
    BY <1>2, <1>3
  <2> QED BY <1>2, <1>3, <2>1 DEF Contract!Lapse, Contract!Cell
<1>4. CASE ~live[k] \/ live'[k]
  <2>1. live'[k] = live[k]
    BY <1>2, <1>4
  <2> QED BY <1>2, <2>1 DEF Contract!Lapse, Contract!Cell
<1> QED BY <1>3, <1>4

\* A row that is free after the step was not under a live lease.
LEMMA FreedLapses ==
  ASSUME NEW k \in Keys, ~live[k],
         rows'[k].status \in {"absent", "pending"}, rows'[k].token = NoToken
  PROVE  Contract!Lapse(k)
<1>1. phase'[k] = "free" /\ holder'[k] = 0 /\ ~live'[k] /\ live'[k] \in BOOLEAN
  BY ContractViewNext DEF Terminal, NoToken
<1>2. live'[k] = FALSE
  BY <1>1
<1> QED BY <1>1, <1>2 DEF Contract!Lapse, Contract!Cell

\* A soft-release takes a row only from a holder whose lease has expired.
LEMMA ReleasedLapses ==
  ASSUME IInv, NEW k \in Keys, rows'[k] = ReleaseExpiredLease(rows[k], now), now' = now
  PROVE  Contract!Lapse(k)
<1>1. CASE rows'[k] = rows[k]
  BY <1>1, UntouchedLapses
<1>2. CASE rows'[k] # rows[k]
  <2>1. rows[k] \in Row
    BY DEF IInv, Shapes
  <2>2. ~live[k]
    <3>1. rows[k].lease # NoTime /\ rows[k].lease <= now
      BY <1>2 DEF ReleaseExpiredLease
    <3>2. ~IsLeaseActive(rows[k].lease, now)
      BY <2>1, <3>1 DEF IsLeaseActive, IInv, Shapes, Row, Time, NoTime
    <3> QED BY <3>2, ContractView
  <2>3. rows'[k].status = "pending" /\ rows'[k].token = NoToken
    BY <1>2, <2>1 DEF ReleaseExpiredLease, Row
  <2> QED BY <2>2, <2>3, FreedLapses
<1> QED BY <1>1, <1>2

\* The contract's step for a call that takes, renews, finishes or gives back one
\* row and lets the others be, and for a step without such a call.
LEMMA CallStep ==
  ASSUME IInv, NEW k \in Keys,
         Contract!Acquire(k) \/ Contract!Rotate(k) \/ Contract!Finish(k) \/ Contract!GiveBack(k),
         \A j \in Keys \ {k} : Contract!Lapse(j),
         issued' \in {issued, issued + 1}
  PROVE  Contract!Next
<1>1. used \subseteq used'
  BY DEF IInv, Shapes, used
<1> QED BY <1>1 DEF Contract!Next

LEMMA LapseStep ==
  ASSUME \A j \in Keys : Contract!Lapse(j), issued' = issued
  PROVE  Contract!Next
<1>1. used \subseteq used'
  BY DEF used
<1> QED BY <1>1 DEF Contract!Next

\* A claim takes a row that is neither done nor under a live lease, with a token
\* never issued before; what it evicts is not under a live lease.
LEMMA ClaimImplements ==
  ASSUME IInv, NEW k \in Keys, NEW in \in Requests, ClaimAcquired(k, in)
  PROVE  Contract!Next
<1> DEFINE base == ReleaseExpiredLease(rows[k], now)
           q == MemoryAcquiredRow(base, in, now)
<1>1. /\ rows'[k] = q
      /\ \A j \in Keys \ {k} : rows'[j] = IF j \in Evicted(k) THEN AbsentRow ELSE rows[j]
      /\ issued' = issued + 1 /\ now' = now
      /\ call' = [op |-> "claim", key |-> k, token |-> NoToken]
      /\ MemoryClaimKind(base, in, now) = "acquired"
  BY DEF ClaimAcquired, Called
<1>2. rows[k] \in Row /\ now \in Nat /\ issued \in Nat
  BY DEF IInv, Shapes
<1>3. \A j \in Keys \ {k} : Contract!Lapse(j)
  <2> SUFFICES ASSUME NEW j \in Keys \ {k} PROVE Contract!Lapse(j)
    OBVIOUS
  <2>1. CASE j \in Evicted(k)
    <3>1. rows'[j].status = "absent" /\ rows'[j].token = NoToken
      BY <1>1, <2>1 DEF AbsentRow
    <3>2. ~live[j]
      BY <2>1, ContractView DEF Evicted, Evictable
    <3> QED BY <3>1, <3>2, FreedLapses
  <2>2. CASE j \notin Evicted(k)
    BY <1>1, <2>2, UntouchedLapses
  <2> QED BY <2>1, <2>2
<1>4. base.status \notin Terminal /\ ~(base.status = "claimed" /\ IsLeaseActive(base.lease, now))
  BY <1>1 DEF MemoryClaimKind, Terminal
<1>5. phase[k] # "done" /\ ~live[k]
  <2>1. CASE base = rows[k]
    BY <1>4, <2>1, ContractView
  <2>2. CASE base # rows[k]
    <3>1. rows[k].status = "claimed" /\ ~IsLeaseActive(rows[k].lease, now)
      BY <1>2, <2>2 DEF ReleaseExpiredLease, IsLeaseActive, Row, Time, NoTime
    <3> QED BY <3>1, ContractView DEF Terminal
  <2> QED BY <2>1, <2>2
<1>6. q.status = "claimed" /\ q.token = issued + 1
  BY RequestType DEF MemoryAcquiredRow, IInv
<1>7. Contract!Acquire(k)
  <2>1. Contract!By("claim", k)
    BY <1>1 DEF Contract!By
  <2>2. issued + 1 \in used' \ used
    BY <1>1, <1>2 DEF used
  <2>3. phase'[k] = "held" /\ holder'[k] = issued + 1 /\ live'[k] \in BOOLEAN
    BY <1>1, <1>6, ContractViewNext DEF Terminal
  <2> QED BY <1>5, <2>1, <2>2, <2>3 DEF Contract!Acquire, Contract!Cell
<1> QED BY <1>1, <1>3, <1>7, CallStep

\* renew, complete and fail are calls of the presenter of the row's token.
LEMMA FencedWriteImplements ==
  ASSUME IInv, NEW k \in Keys, NEW token \in 1..issued,
         \/ Renew(k, token)
         \/ Complete(k, token)
         \/ \E dead, restore \in BOOLEAN, delay \in RetryDelays :
              Fail(k, token, dead, restore, delay)
  PROVE  Contract!Next
<1>1. rows \in [Keys -> Row] /\ rows[k] \in Row /\ now \in Nat /\ issued \in Nat
  BY DEF IInv, Shapes
<1>2. phase[k] = "held" /\ holder[k] = token
  <2>1. rows[k].status = "claimed" /\ rows[k].token = token
    BY DEF Renew, Complete, Fail, Allowed, DecideLeaseMutation
  <2> QED BY <2>1, ContractView DEF Terminal
<1>3. \A j \in Keys \ {k} : rows'[j] = rows[j]
  BY <1>1 DEF Renew, Complete, Fail
<1>4. \A j \in Keys \ {k} : Contract!Lapse(j)
  BY <1>3, UntouchedLapses DEF Renew, Complete, Fail
<1>5. Renew(k, token) \/ Complete(k, token) => live[k]
  <2>1. Allowed(k, token, TRUE)
          => rows[k].status = "claimed" /\ IsLeaseActive(rows[k].lease, now)
    BY DEF Allowed, DecideLeaseMutation
  <2> QED BY <2>1, ContractView DEF Renew, Complete
<1>6. CASE Renew(k, token)
  <2>1. /\ rows'[k].status = "claimed" /\ rows'[k].token = issued + 1
        /\ issued' = issued + 1
    BY <1>1, <1>6 DEF Renew, RenewedRow, Row, Allowed, DecideLeaseMutation
  <2>2. issued + 1 \in used' \ used
    BY <1>1, <2>1 DEF used
  <2>3. phase'[k] = "held" /\ holder'[k] = issued + 1 /\ live'[k] \in BOOLEAN
    BY <2>1, ContractViewNext DEF Terminal
  <2>4. Contract!By("renew", k) /\ call'.token = token
    BY <1>6 DEF Renew, Called, Contract!By
  <2>5. Contract!Rotate(k)
    BY <1>2, <1>5, <1>6, <2>2, <2>3, <2>4 DEF Contract!Rotate, Contract!Cell
  <2> QED BY <1>4, <2>1, <2>5, CallStep
<1>7. CASE Complete(k, token)
  <2>1. rows'[k].status = "completed" /\ rows'[k].token = NoToken /\ issued' = issued
    BY <1>1, <1>7 DEF Complete, CompletedRow, Row
  <2>2. phase'[k] = "done" /\ holder'[k] = 0 /\ ~live'[k] /\ live'[k] \in BOOLEAN
    BY <2>1, ContractViewNext DEF Terminal, NoToken
  <2>3. live'[k] = FALSE
    BY <2>2
  <2>4. Contract!By("complete", k) /\ call'.token = token
    BY <1>7 DEF Complete, Called, Contract!By
  <2>5. Contract!Finish(k)
    BY <1>2, <1>5, <1>7, <2>2, <2>3, <2>4 DEF Contract!Finish, Contract!Cell
  <2> QED BY <1>4, <2>1, <2>5, CallStep
<1>8. ASSUME NEW dead \in BOOLEAN, NEW restore \in BOOLEAN, NEW delay \in RetryDelays,
             Fail(k, token, dead, restore, delay)
      PROVE  Contract!Next
  <2>1. /\ rows'[k].status \in {"dead_letter", "pending"} /\ rows'[k].token = NoToken
        /\ issued' = issued
    BY <1>1, <1>8 DEF Fail, FailedRow, Row
  <2>2. /\ phase'[k] \in {"free", "done"} /\ holder'[k] = 0
        /\ ~live'[k] /\ live'[k] \in BOOLEAN
    BY <2>1, ContractViewNext DEF Terminal, NoToken
  <2>3. live'[k] = FALSE
    BY <2>2
  <2>4. Contract!By("fail", k) /\ call'.token = token
    BY <1>8 DEF Fail, Called, Contract!By
  <2>5. Contract!GiveBack(k)
    BY <1>2, <2>2, <2>3, <2>4 DEF Contract!GiveBack, Contract!Cell
  <2> QED BY <1>4, <2>1, <2>5, CallStep
<1> QED BY <1>6, <1>7, <1>8

\* Every step of the inbox is a step of the contract or changes nothing it sees.
LEMMA StepImplements == IInv /\ [Next]_vars => [Contract!Next]_(Contract!vars)
<1> SUFFICES ASSUME IInv, [Next]_vars PROVE [Contract!Next]_(Contract!vars)
  OBVIOUS
<1>1. ASSUME NEW k \in Keys, NEW in \in Requests, ClaimRefused(k, in) PROVE Contract!Next
  <2>1. /\ rows'[k] = ReleaseExpiredLease(rows[k], now)
        /\ \A j \in Keys \ {k} : rows'[j] = rows[j]
        /\ now' = now /\ issued' = issued
    BY <1>1 DEF ClaimRefused, IInv, Shapes
  <2>2. \A j \in Keys : Contract!Lapse(j)
    BY <2>1, ReleasedLapses, UntouchedLapses
  <2> QED BY <2>1, <2>2, LapseStep
<1>2. ASSUME NEW k \in Keys, NEW in \in Requests, ClaimAcquired(k, in) PROVE Contract!Next
  BY <1>2, ClaimImplements
<1>3. ASSUME NEW k \in Keys, NEW token \in 1..issued,
             \/ Renew(k, token)
             \/ Complete(k, token)
             \/ \E dead, restore \in BOOLEAN, delay \in RetryDelays :
                  Fail(k, token, dead, restore, delay)
      PROVE  Contract!Next
  BY <1>3, FencedWriteImplements
<1>4. ASSUME NEW limit \in 1..Cardinality(Keys), ListRetryable(limit) PROVE Contract!Next
  <2>1. /\ \A j \in Keys : \/ rows'[j] = ReleaseExpiredLease(rows[j], now)
                           \/ rows'[j] = rows[j]
        /\ now' = now /\ issued' = issued
    BY <1>4 DEF ListRetryable
  <2>2. \A j \in Keys : Contract!Lapse(j)
    BY <2>1, ReleasedLapses, UntouchedLapses
  <2> QED BY <2>1, <2>2, LapseStep
<1>5. ASSUME NEW gone \in SUBSET Sweepable, DeleteExpired(gone) PROVE Contract!Next
  <2>1. /\ \A j \in Keys : rows'[j] = IF j \in gone THEN AbsentRow ELSE rows[j]
        /\ now' = now /\ issued' = issued
    BY <1>5 DEF DeleteExpired
  <2>2. \A j \in Keys \ gone : Contract!Lapse(j)
    BY <2>1, UntouchedLapses
  <2>3. ASSUME NEW j \in Keys \cap gone PROVE Contract!Lapse(j)
    <3>1. rows'[j].status = "absent" /\ rows'[j].token = NoToken
      BY <2>1 DEF AbsentRow
    <3>2. rows[j].status # "claimed"
      BY DEF Sweepable
    <3>3. ~live[j]
      BY <3>2, ContractView
    <3> QED BY <3>1, <3>3, FreedLapses
  <2> QED BY <2>1, <2>2, <2>3, LapseStep
<1>6. CASE Tick
  <2>1. \A j \in Keys : Contract!Lapse(j)
    BY <1>6, UntouchedLapses DEF Tick
  <2> QED BY <1>6, <2>1, LapseStep DEF Tick
<1>7. CASE UNCHANGED vars
  BY <1>7 DEF vars, Contract!vars, phase, holder, live, used
<1> QED BY <1>1, <1>2, <1>3, <1>4, <1>5, <1>6, <1>7 DEF Next

LEMMA InitImplements == Init => Contract!Init
<1> SUFFICES ASSUME Init PROVE Contract!Init
  OBVIOUS
<1>1. phase = [k \in Keys |-> "free"]
  BY DEF Init, phase, AbsentRow, Terminal
<1>2. holder = [k \in Keys |-> 0]
  BY DEF Init, holder, AbsentRow, NoToken
<1>3. live = [k \in Keys |-> FALSE]
  BY DEF Init, live, AbsentRow
<1>4. used = {} /\ call.op = "none"
  BY DEF Init, used
<1> QED BY <1>1, <1>2, <1>3, <1>4 DEF Contract!Init

\* The in-memory inbox implements the lease contract of the stores, for any keys,
\* payloads, lease, delays and capacity.
THEOREM Implementation == Spec => ImplementsContract
<1>1. Spec => []IInv
  BY Invariance
<1> QED BY <1>1, InitImplements, StepImplements, PTL
        DEF Spec, ImplementsContract, Contract!Spec

-----------------------------------------------------------------------------
(* The capacity.                                                           *)

\* Some row of a nonempty set of evictable rows is the oldest of them.
LEMMA OldestExists ==
  ASSUME IInv, Evictable # {}
  PROVE  \E j \in Evictable : \A i \in Evictable : born[j] <= born[i]
<1> DEFINE Ages == {born[j] : j \in Evictable}
<1>1. Evictable \subseteq Keys
  BY DEF Evictable, Present
<1>2. born \in [Keys -> Nat]
  BY DEF IInv, Shapes
<1>3. Ages \subseteq Nat /\ Ages # {}
  BY <1>1, <1>2
<1>4. \E a \in Ages : \A b \in Ages : ~(<<b, a>> \in OpToRel(<, Nat))
  BY <1>3, NatLessThanWellFounded, WFMin
<1>5. PICK j \in Evictable : \A i \in Evictable : ~(<<born[i], born[j]>> \in OpToRel(<, Nat))
  BY <1>4
<1>6. \A i \in Evictable : ~(born[i] < born[j])
  BY <1>1, <1>2, <1>5 DEF OpToRel
<1> QED BY <1>1, <1>2, <1>6

LEMMA PresentFinite == IsFiniteSet(Present) /\ Cardinality(Present) \in Nat
BY KeysAssumption, FS_Subset, FS_CardinalityType DEF Present

\* An acquired claim of a key that is not in the Map finds room, or makes it by
\* dropping at least one row.
LEMMA InsertionFits ==
  ASSUME IInv, WithinCapacity, NEW k \in Keys, NEW in \in Requests, ClaimAcquired(k, in)
  PROVE  WithinCapacity'
<1>1. \A j \in Keys \ {k} : rows'[j] = IF j \in Evicted(k) THEN AbsentRow ELSE rows[j]
  BY DEF ClaimAcquired
<1>2. Present' \subseteq (Present \ Evicted(k)) \cup {k}
  BY <1>1 DEF Present, AbsentRow
<1>3. MaxEntries \in Nat
  BY BoundAssumption
<1>4. CASE k \in Present
  <2>1. Present' \subseteq Present
    BY <1>2, <1>4
  <2>2. Cardinality(Present') <= Cardinality(Present) /\ Cardinality(Present') \in Nat
    BY <2>1, PresentFinite, FS_Subset, FS_CardinalityType
  <2> QED BY <1>3, <2>2, PresentFinite DEF WithinCapacity
<1>5. CASE k \notin Present /\ AtCapacity(k)
  <2>1. Evictable # {}
    BY <1>5 DEF ClaimAcquired
  <2>2. PICK e \in Evicted(k) : e \in Present
    BY <1>5, <2>1, OldestExists DEF Evicted, Evictable
  <2>3. Present' \subseteq (Present \ {e}) \cup {k}
    BY <1>2, <2>2
  <2>4. /\ IsFiniteSet((Present \ {e}) \cup {k})
        /\ Cardinality((Present \ {e}) \cup {k}) = Cardinality(Present)
    <3>1. IsFiniteSet(Present \ {e}) /\ Cardinality(Present \ {e}) = Cardinality(Present) - 1
      BY <2>2, PresentFinite, FS_RemoveElement
    <3>2. k \notin Present \ {e}
      BY <1>5
    <3>3. /\ IsFiniteSet((Present \ {e}) \cup {k})
          /\ Cardinality((Present \ {e}) \cup {k}) = Cardinality(Present \ {e}) + 1
      BY <3>1, <3>2, FS_AddElement
    <3> QED BY <3>1, <3>3, PresentFinite
  <2>5. Cardinality(Present') <= Cardinality(Present)
    BY <2>3, <2>4, FS_Subset
  <2>6. Cardinality(Present') \in Nat
    BY <2>3, <2>4, FS_Subset, FS_CardinalityType
  <2> QED BY <1>3, <2>5, <2>6, PresentFinite DEF WithinCapacity
<1>6. CASE k \notin Present /\ ~AtCapacity(k)
  <2>1. Cardinality(Present) < MaxEntries
    BY <1>3, <1>6, PresentFinite DEF AtCapacity, Present
  <2>2. Present' \subseteq Present \cup {k}
    BY <1>2
  <2>3. IsFiniteSet(Present \cup {k}) /\ Cardinality(Present \cup {k}) = Cardinality(Present) + 1
    BY <1>6, PresentFinite, FS_AddElement
  <2>4. Cardinality(Present') <= Cardinality(Present) + 1
    BY <2>2, <2>3, FS_Subset
  <2>5. Cardinality(Present') \in Nat
    BY <2>2, <2>3, FS_Subset, FS_CardinalityType
  <2> QED BY <1>3, <2>1, <2>4, <2>5, PresentFinite DEF WithinCapacity
<1> QED BY <1>4, <1>5, <1>6

\* Every other call leaves absent rows absent.
LEMMA NoInsertionFits ==
  ASSUME WithinCapacity,
         \A j \in Keys : rows[j].status = "absent" => rows'[j].status = "absent"
  PROVE  WithinCapacity'
<1>1. Present' \subseteq Present
  BY DEF Present
<1>2. Cardinality(Present') <= Cardinality(Present) /\ Cardinality(Present') \in Nat
  BY <1>1, PresentFinite, FS_Subset, FS_CardinalityType
<1> QED BY <1>2, PresentFinite, BoundAssumption DEF WithinCapacity

LEMMA StepFits == IInv /\ WithinCapacity /\ [Next]_vars => WithinCapacity'
<1> SUFFICES ASSUME IInv, WithinCapacity, [Next]_vars PROVE WithinCapacity'
  OBVIOUS
<1> DEFINE Kept == \A j \in Keys : rows[j].status = "absent" => rows'[j].status = "absent"
<1>1. \A j \in Keys : rows[j].status = "absent" => ReleaseExpiredLease(rows[j], now) = rows[j]
  BY DEF ReleaseExpiredLease
<1>2. rows \in [Keys -> Row]
  BY DEF IInv, Shapes
<1>3. ASSUME NEW k \in Keys, NEW in \in Requests, ClaimRefused(k, in) PROVE Kept
  BY <1>1, <1>2, <1>3 DEF ClaimRefused
<1>4. ASSUME NEW k \in Keys, NEW token \in 1..issued,
             \/ Renew(k, token)
             \/ Complete(k, token)
             \/ \E dead, restore \in BOOLEAN, delay \in RetryDelays :
                  Fail(k, token, dead, restore, delay)
      PROVE  Kept
  <2>1. rows[k].status = "claimed"
    BY <1>4, AllowedClaimed DEF Renew, Complete, Fail
  <2>2. \A j \in Keys \ {k} : rows'[j] = rows[j]
    BY <1>2, <1>4 DEF Renew, Complete, Fail
  <2> QED BY <2>1, <2>2
<1>5. ASSUME NEW limit \in 1..Cardinality(Keys), ListRetryable(limit) PROVE Kept
  BY <1>1, <1>5 DEF ListRetryable
<1>6. ASSUME NEW gone \in SUBSET Sweepable, DeleteExpired(gone) PROVE Kept
  BY <1>6 DEF DeleteExpired, AbsentRow
<1>7. ASSUME Tick \/ UNCHANGED vars PROVE Kept
  BY <1>7 DEF Tick, vars
<1>8. Kept => WithinCapacity'
  BY NoInsertionFits
<1> HIDE DEF Kept
<1>9. ASSUME NEW k \in Keys, NEW in \in Requests, ClaimAcquired(k, in) PROVE WithinCapacity'
  BY <1>9, InsertionFits
<1> QED BY <1>3, <1>4, <1>5, <1>6, <1>7, <1>8, <1>9 DEF Next

\* The store never holds more rows than maxEntries, although an insertion may
\* find every row under an active lease and eviction drops one row at a time.
THEOREM CapacityHolds == Spec => []WithinCapacity
<1>1. Init => WithinCapacity
  <2> SUFFICES ASSUME Init PROVE WithinCapacity
    OBVIOUS
  <2>1. Present = {}
    BY DEF Init, Present, AbsentRow
  <2> QED BY <2>1, FS_EmptySet, BoundAssumption DEF WithinCapacity
<1> QED BY <1>1, StepFits, Invariance, PTL DEF Spec
=============================================================================
