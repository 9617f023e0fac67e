------------------------- MODULE ClaimCalls_proofs -------------------------
(***************************************************************************)
(* The implementations of the three claim rules agree on every row, every  *)
(* input and every time, not only on those TLC enumerates.                 *)
(***************************************************************************)
EXTENDS ClaimCalls, TLAPS

\* Enumerated rows and inputs are rows and inputs.
LEMMA RowsAreRows ==
  ASSUME NEW r \in Rows
  PROVE  r \in Row /\ (r.status = "absent" => r = AbsentRow)
<1>1. CASE r = AbsentRow
  BY <1>1 DEF Row, AbsentRow, Statuses, Time, NoTime, NoToken
<1>2. CASE r # AbsentRow
  BY <1>2, CallsAssumption DEF Rows, Row, Statuses, BoundedTime, Time, NoTime, NoToken
<1> QED BY <1>1, <1>2

LEMMA InputsAreInputs == Inputs \subseteq ClaimInput
BY DEF Inputs, ClaimInput

\* Rows that agree in every column are equal.
LEMMA RowEquality ==
  ASSUME NEW r \in Row, NEW q \in Row,
         r.status = q.status, r.hash = q.hash, r.ref = q.ref, r.token = q.token,
         r.lease = q.lease, r.attempts = q.attempts,
         r.generation = q.generation, r.availableAt = q.availableAt
  PROVE  r = q
BY DEF Row

\* An acquired row is a row.
LEMMA AcquiredRowType ==
  ASSUME NEW r \in Row, NEW i \in ClaimInput, NEW t \in Nat
  PROVE  AcquiredRow(r, i, t) \in Row
BY DEF AcquiredRow, Row, ClaimInput, Statuses, Coalesce, Time, NoTime

\* The same of the reservations and the jobs.
LEMMA ReservationsAreRows ==
  ASSUME NEW r \in Reservations
  PROVE  r \in ReservationRow /\ (r.status = "absent" => r = NoReservation)
<1>1. CASE r = NoReservation
  BY <1>1, FingerprintsAssumption
     DEF ReservationRow, NoReservation, ReservationStatuses, Time, NoTime, NoToken
<1>2. CASE r # NoReservation
  <2>1. r \in [status : ReservationStatuses \ {"absent"}, fingerprint : Fingerprints,
               token : {NoToken, 1}, lease : BoundedTime, attempts : 0..MaxAttempts,
               generation : {1}]
    BY <1>2 DEF Reservations
  <2>2. {NoToken, 1} \subseteq Nat /\ BoundedTime \subseteq Time
        /\ 0..MaxAttempts \subseteq Nat /\ {1} \subseteq Nat
    BY CallsAssumption DEF NoToken, BoundedTime, Time
  <2> QED BY <2>1, <2>2, Zenon DEF ReservationRow
<1> QED BY <1>1, <1>2

LEMMA JobsAreRows ==
  ASSUME NEW r \in Jobs
  PROVE  r \in JobRow /\ (r.status = "absent" <=> r.dueAt = NoTime)
<1>1. CASE r = NoJob
  BY <1>1 DEF JobRow, NoJob, JobStatuses, Time, NoTime, NoToken
<1>2. CASE r # NoJob
  <2>1. r \in [status : JobStatuses \ {"absent"}, token : {NoToken, 1}, lease : BoundedTime,
               attempts : 0..MaxAttempts, generation : {1}, dueAt : 0..MaxTime]
    BY <1>2 DEF Jobs
  <2>2. {NoToken, 1} \subseteq Nat /\ BoundedTime \subseteq Time
        /\ 0..MaxAttempts \subseteq Nat /\ {1} \subseteq Nat /\ 0..MaxTime \subseteq Time
    BY CallsAssumption DEF NoToken, BoundedTime, Time
  <2>3. r \in JobRow /\ r.status # "absent" /\ r.dueAt \in Nat
    <3>1. r.status # "absent" /\ r.dueAt \in 0..MaxTime
      BY <2>1
    <3>2. r.dueAt \in Nat
      BY <3>1, CallsAssumption
    <3>3. r \in JobRow
      BY <2>1, <2>2 DEF JobRow
    <3> QED BY <3>1, <3>2, <3>3
  <2> QED BY <2>3 DEF NoTime
<1> QED BY <1>1, <1>2

LEMMA ReservedRowType ==
  ASSUME NEW r \in ReservationRow, NEW i \in ReserveInput, NEW t \in Nat
  PROVE  ReservedRow(r, i, t) \in ReservationRow
BY DEF ReservedRow, ReservationRow, ReserveInput, ReservationStatuses, Time, NoTime

LEMMA ClaimedJobType ==
  ASSUME NEW r \in JobRow, NEW t \in Nat, NEW l \in Nat, NEW n \in Nat
  PROVE  ClaimedJob(r, t, l, n) \in JobRow
BY DEF ClaimedJob, JobRow, JobStatuses, Time, NoTime

\* Every reachable state of the one-call setting has rows, inputs, a time and an
\* answer of the declared kinds.
THEOREM CallsTypeCorrect == Spec => []TypeOK
<1>1. Init => TypeOK
  <2> SUFFICES ASSUME Init PROVE TypeOK
    OBVIOUS
  <2>1. row \in Row /\ (row.status = "absent" => row = AbsentRow)
    BY RowsAreRows DEF Init, Rows
  <2>2. reservation \in ReservationRow
        /\ (reservation.status = "absent" => reservation = NoReservation)
    BY ReservationsAreRows DEF Init, Reservations
  <2>3. job \in JobRow /\ (job.status = "absent" <=> job.dueAt = NoTime)
    BY JobsAreRows DEF Init, Jobs
  <2>4. in \in ClaimInput /\ rin \in ReserveInput /\ now \in Nat
    BY CallsAssumption, InputsAreInputs DEF Init, ReserveInputs, ReserveInput
  <2> QED BY <2>1, <2>2, <2>3, <2>4 DEF Init, TypeOK
<1>2. TypeOK /\ [Next]_vars => TypeOK'
  <2> SUFFICES ASSUME TypeOK, [Next]_vars PROVE TypeOK'
    OBVIOUS
  <2>1. CASE Claim
    <3>1. row' \in Row /\ (row'.status = "absent" => row' = AbsentRow)
      BY <2>1, AcquiredRowType DEF Claim, TypeOK, AcquiredRow
    <3>2. answer' \in Answers
      BY <2>1 DEF Claim, DecideWebhookClaim, Answers
    <3> QED BY <2>1, <3>1, <3>2 DEF Claim, TypeOK
  <2>2. CASE Reserve
    <3>1. /\ reservation' \in ReservationRow
          /\ reservation'.status = "absent" => reservation' = NoReservation
      BY <2>2, ReservedRowType DEF Reserve, TypeOK, ReservedRow
    <3>2. answer' \in Answers
      BY <2>2 DEF Reserve, DecideIdempotencyReserve, Answers
    <3> QED BY <2>2, <3>1, <3>2 DEF Reserve, TypeOK
  <2>3. CASE ClaimJob
    <3>1. answer' = "acquired" => job.status # "absent"
      BY <2>3 DEF ClaimJob, DecideReconciliationClaim
    <3>2. job' \in JobRow /\ (job'.status = "absent" <=> job'.dueAt = NoTime)
      <4>1. CASE answer' = "acquired"
        <5>1. job' = ClaimedJob(job, JobToken, JobLeaseMs, now)
          BY <2>3, <4>1 DEF ClaimJob
        <5>2. job' \in JobRow
          BY <5>1, ClaimedJobType DEF TypeOK, JobToken, JobLeaseMs
        <5>3. job'.status = "claimed" /\ job'.dueAt = job.dueAt
          BY <5>1 DEF ClaimedJob
        <5> QED BY <3>1, <4>1, <5>2, <5>3 DEF TypeOK
      <4>2. CASE answer' # "acquired"
        BY <2>3, <4>2 DEF ClaimJob, TypeOK
      <4> QED BY <4>1, <4>2
    <3>3. answer' \in Answers
      BY <2>3 DEF ClaimJob, DecideReconciliationClaim, Answers
    <3> QED BY <2>3, <3>2, <3>3 DEF ClaimJob, TypeOK
  <2>4. CASE UNCHANGED vars
    BY <2>4 DEF vars, TypeOK
  <2> QED BY <2>1, <2>2, <2>3, <2>4 DEF Next
<1> QED BY <1>1, <1>2, PTL DEF Spec

\* The SQL statement writes a row exactly when decideWebhookClaim acquires it,
\* and writes the same row.
THEOREM SqlImplementsDecision == Spec => []SqlMatchesDecision
<1>1. TypeOK => SqlMatchesDecision
  <2> SUFFICES ASSUME TypeOK PROVE SqlMatchesDecision
    OBVIOUS
  <2> USE DEF TypeOK, Row, ClaimInput, Statuses, Time, NoTime, Terminal
  <2>1. CASE row.status = "absent"
    BY <2>1 DEF SqlMatchesDecision, WebhookClaimStatement, DecideWebhookClaim,
                AcquiredRow, AbsentRow, Coalesce
  <2>2. CASE row.status # "absent"
    <3>1. WebhookClaimWhere(row, in, now)
            <=> DecideWebhookClaim(row, in, now) = "acquired"
      BY <2>2 DEF WebhookClaimWhere, DecideWebhookClaim, IsLeaseActive
    <3>2. CASE ~WebhookClaimWhere(row, in, now)
      BY <2>2, <3>1, <3>2 DEF SqlMatchesDecision, WebhookClaimStatement
    <3>3. CASE WebhookClaimWhere(row, in, now)
      <4> DEFINE written == WebhookClaimStatement(row, in, now)
                 decided == AcquiredRow(row, in, now)
      <4>1. written \in Row
        <5>1. row.attempts + 1 \in Nat /\ row.generation + 1 \in Nat
              /\ now + in.leaseMs \in Nat /\ Coalesce(in.ref, row.ref) \in Hashes \cup {NoHash}
          BY DEF Coalesce
        <5> QED BY <2>2, <3>3, <5>1 DEF WebhookClaimStatement
      <4>2. decided \in Row
        BY AcquiredRowType
      <4>3. /\ written.status = decided.status /\ written.hash = decided.hash
            /\ written.ref = decided.ref /\ written.token = decided.token
            /\ written.lease = decided.lease
            /\ written.attempts = decided.attempts
            /\ written.generation = decided.generation
            /\ written.availableAt = decided.availableAt
        BY <2>2, <3>3 DEF WebhookClaimStatement, AcquiredRow
      <4>4. written = decided
        BY <4>1, <4>2, <4>3, RowEquality
      <4> QED BY <3>1, <3>3, <4>4 DEF SqlMatchesDecision
    <3> QED BY <3>2, <3>3
  <2> QED BY <2>1, <2>2
<1> QED BY <1>1, CallsTypeCorrect, PTL

\* A claim statement that wrote no row is classified as claimable exactly when it
\* would write the row it is shown, and otherwise as decideWebhookClaim answers.
THEOREM MissImplementsDecision == Spec => []MissMatchesDecision
<1>1. TypeOK => MissMatchesDecision
  BY DEF TypeOK, Row, ClaimInput, Statuses, Time, NoTime, Terminal,
         MissMatchesDecision, ClassifyWebhookClaimMiss, WebhookClaimWhere,
         DecideWebhookClaim, IsLeaseActive
<1> QED BY <1>1, CallsTypeCorrect, PTL

\* The two halves of StoresMatchDecision.
MemoryMatches ==
  LET base == ReleaseExpiredLease(row, now)
      kind == DecideWebhookClaim(row, in, now)
  IN  /\ MemoryClaimKind(base, in, now) = kind
      /\ kind = "acquired" => MemoryAcquiredRow(base, in, now) = AcquiredRow(row, in, now)

RedisMatches ==
  /\ RedisClaimKind(row, in, now) = DecideWebhookClaim(row, in, now)
  /\ DecideWebhookClaim(row, in, now) = "acquired"
       => RedisClaimedRow(row, in, now) = AcquiredRow(row, in, now)

\* The Redis script, and the in-memory store's soft-release followed by its count,
\* are the decision function's claim: the script on every row, the store on every
\* row whose claims have been counted.
THEOREM StoresImplementDecision == Spec => []StoresMatchDecision
<1>1. TypeOK /\ ClaimedShape(row) => MemoryMatches
  <2> SUFFICES ASSUME TypeOK, ClaimedShape(row)
               PROVE  LET base == ReleaseExpiredLease(row, now)
                          kind == DecideWebhookClaim(row, in, now)
                      IN  /\ MemoryClaimKind(base, in, now) = kind
                          /\ kind = "acquired" =>
                               MemoryAcquiredRow(base, in, now)
                                 = AcquiredRow(row, in, now)
    BY DEF MemoryMatches
  <2> DEFINE base == ReleaseExpiredLease(row, now)
  <2> USE DEF TypeOK, Row, ClaimInput, Statuses, Time, NoTime
  <2>1. CASE row.status = "claimed" /\ row.lease <= now
    <3>1. /\ base.status = "pending" /\ base.hash = row.hash /\ base.ref = row.ref
          /\ base.attempts + 1 = row.attempts
          /\ base.generation = row.generation /\ base.availableAt = now
      BY <2>1 DEF ReleaseExpiredLease, ClaimedShape
    <3>2. MemoryClaimKind(base, in, now) = DecideWebhookClaim(row, in, now)
      <4> HIDE DEF base
      <4> QED BY <2>1, <3>1 DEF MemoryClaimKind, DecideWebhookClaim, IsLeaseActive
    <3>3. MemoryAcquiredRow(base, in, now) = AcquiredRow(row, in, now)
      <4> HIDE DEF base
      <4> QED BY <2>1, <3>1 DEF MemoryAcquiredRow, AcquiredRow
    <3> QED BY <3>2, <3>3
  <2>2. CASE ~(row.status = "claimed" /\ row.lease <= now)
    <3>1. base = row
      BY <2>2 DEF ReleaseExpiredLease
    <3>2. MemoryClaimKind(row, in, now) = DecideWebhookClaim(row, in, now)
      BY DEF MemoryClaimKind, DecideWebhookClaim
    <3>3. DecideWebhookClaim(row, in, now) = "acquired" => row.status # "claimed"
      BY <2>2 DEF DecideWebhookClaim, IsLeaseActive, ClaimedShape
    <3>4. row.status # "claimed" =>
            MemoryAcquiredRow(row, in, now) = AcquiredRow(row, in, now)
      BY DEF MemoryAcquiredRow, AcquiredRow
    <3> QED BY <3>1, <3>2, <3>3, <3>4
  <2> QED BY <2>1, <2>2
<1>2. TypeOK => RedisMatches
  <2> SUFFICES ASSUME TypeOK PROVE RedisMatches
    OBVIOUS
  <2> USE DEF TypeOK, Row, ClaimInput, Statuses, Time, NoTime
  <2>1. RedisClaimKind(row, in, now) = DecideWebhookClaim(row, in, now)
    BY DEF RedisClaimKind, DecideWebhookClaim, IsLeaseActive
  <2>2. DecideWebhookClaim(row, in, now) = "acquired"
          => row.status \in {"absent", "pending", "claimed"}
    BY DEF DecideWebhookClaim
  <2>3. row.status = "absent" => row.attempts = 0 /\ row.generation = 0
    BY DEF AbsentRow
  <2>4. row.status \in {"absent", "pending", "claimed"}
          => RedisClaimedRow(row, in, now) = AcquiredRow(row, in, now)
    BY <2>3 DEF RedisClaimedRow, AcquiredRow
  <2> QED BY <2>1, <2>2, <2>4 DEF RedisMatches
<1>3. TypeOK => StoresMatchDecision
  BY <1>1, <1>2 DEF StoresMatchDecision, MemoryMatches, RedisMatches
<1> QED BY <1>3, CallsTypeCorrect, PTL

\* The WHERE clauses of the fenced writes are decideLeaseMutation.
THEOREM FencedWriteImplementsDecision == Spec => []FencedWriteMatchesDecision
<1>1. TypeOK => FencedWriteMatchesDecision
  BY DEF TypeOK, Row, FencedWriteMatchesDecision, DecideLeaseMutation,
         LeaseMutationWhere, IsLeaseActive
<1> QED BY <1>1, CallsTypeCorrect, PTL

\* Reservations that agree in every column are equal, and so are jobs.
LEMMA ReservationEquality ==
  ASSUME NEW r \in ReservationRow, NEW q \in ReservationRow,
         r.status = q.status, r.fingerprint = q.fingerprint, r.token = q.token,
         r.lease = q.lease, r.attempts = q.attempts, r.generation = q.generation
  PROVE  r = q
BY DEF ReservationRow

LEMMA JobEquality ==
  ASSUME NEW r \in JobRow, NEW q \in JobRow,
         r.status = q.status, r.token = q.token, r.lease = q.lease,
         r.attempts = q.attempts, r.generation = q.generation, r.dueAt = q.dueAt
  PROVE  r = q
BY DEF JobRow

\* The reserve statement, the classification of its misses and the in-memory
\* reserve follow decideIdempotencyReserve on every row, input and time.
THEOREM ReserveImplementsDecision == Spec => []ReserveRulesAgree
<1>1. TypeOK => ReserveRulesAgree
  <2> SUFFICES ASSUME TypeOK PROVE ReserveRulesAgree
    OBVIOUS
  <2> USE DEF TypeOK, ReservationRow, ReserveInput, ReservationStatuses, Time, NoTime
  <2> DEFINE kind == DecideIdempotencyReserve(reservation, rin, now)
             base == ExpireIfNeeded(reservation, now)
             written == IdempotencyReserveStatement(reservation, rin, now)
             decided == ReservedRow(reservation, rin, now)
  <2>1. reservation.status # "absent" =>
          (kind = "acquired" <=> IdempotencyReserveWhere(reservation, rin, now))
    BY DEF IdempotencyReserveWhere, DecideIdempotencyReserve, IsLeaseActive
  <2>2. written = IF kind = "acquired" THEN decided ELSE reservation
    <3>1. CASE reservation.status = "absent"
      BY <3>1 DEF IdempotencyReserveStatement, DecideIdempotencyReserve, ReservedRow,
                  NoReservation
    <3>2. CASE reservation.status # "absent"
               /\ ~IdempotencyReserveWhere(reservation, rin, now)
      BY <2>1, <3>2 DEF IdempotencyReserveStatement
    <3>3. CASE reservation.status # "absent"
               /\ IdempotencyReserveWhere(reservation, rin, now)
      <4>1. written \in ReservationRow
        <5>1. reservation.attempts + 1 \in Nat /\ reservation.generation + 1 \in Nat
              /\ now + rin.leaseMs \in Nat
          OBVIOUS
        <5> QED BY <3>3, <5>1 DEF IdempotencyReserveStatement
      <4>2. decided \in ReservationRow
        BY ReservedRowType
      <4>3. /\ written.status = decided.status
            /\ written.fingerprint = decided.fingerprint
            /\ written.token = decided.token /\ written.lease = decided.lease
            /\ written.attempts = decided.attempts
            /\ written.generation = decided.generation
        BY <3>3 DEF IdempotencyReserveStatement, ReservedRow, IdempotencyReserveWhere
      <4>4. written = decided
        BY <4>1, <4>2, <4>3, ReservationEquality
      <4> QED BY <2>1, <3>3, <4>4
    <3> QED BY <3>1, <3>2, <3>3
  <2>3. reservation.status # "absent" =>
          LET miss == ClassifyIdempotencyReserveMiss(reservation, rin.fingerprint, now)
          IN  /\ miss = "claimable" <=> IdempotencyReserveWhere(reservation, rin, now)
              /\ miss # "claimable" => miss = kind
    BY DEF ClassifyIdempotencyReserveMiss, IdempotencyReserveWhere,
           DecideIdempotencyReserve, IsLeaseActive
  <2>4. MemoryReserveKind(base, rin, now) = kind
    <3>1. CASE base = reservation
      BY <3>1 DEF MemoryReserveKind, DecideIdempotencyReserve
    <3>2. CASE base # reservation
      <4>1. /\ reservation.status = "reserved" /\ reservation.lease <= now
            /\ base.status = "expired" /\ base.fingerprint = reservation.fingerprint
        BY <3>2 DEF ExpireIfNeeded
      <4> HIDE DEF base
      <4> QED BY <4>1 DEF MemoryReserveKind, DecideIdempotencyReserve, IsLeaseActive
    <3> QED BY <3>1, <3>2
  <2>5. RedisReserveKind(reservation, rin, now) = kind
    BY DEF RedisReserveKind, DecideIdempotencyReserve, IsLeaseActive
  <2>6. RedisReservedRow(reservation, rin, now) = decided
    BY DEF RedisReservedRow, ReservedRow, NoReservation
  <2> QED BY <2>2, <2>3, <2>4, <2>5, <2>6 DEF ReserveRulesAgree
<1> QED BY <1>1, CallsTypeCorrect, PTL

\* The claim statement of a job, the classification of its misses and the in-memory
\* claim follow decideReconciliationClaim on every row and at every time.
THEOREM JobImplementsDecision == Spec => []JobRulesAgree
<1>1. TypeOK => JobRulesAgree
  <2> SUFFICES ASSUME TypeOK PROVE JobRulesAgree
    OBVIOUS
  <2> USE DEF TypeOK, JobRow, JobStatuses, Time, NoTime, JobToken, JobLeaseMs
  <2> DEFINE kind == DecideReconciliationClaim(job, now)
             base == ReleaseExpiredJob(job, now)
             won  == ClaimedJob(job, JobToken, JobLeaseMs, now)
             written == ReconciliationClaimStatement(job, JobToken, JobLeaseMs, now)
  <2>1. kind = "acquired" <=> ReconciliationClaimWhere(job, now)
    BY DEF ReconciliationClaimWhere, DecideReconciliationClaim, IsLeaseActive, JobClosed
  <2>2. won \in JobRow
    BY ClaimedJobType
  <2>3. written = IF kind = "acquired" THEN won ELSE job
    <3>1. CASE ~ReconciliationClaimWhere(job, now)
      BY <2>1, <3>1 DEF ReconciliationClaimStatement
    <3>2. CASE ReconciliationClaimWhere(job, now)
      <4>1. written \in JobRow
        <5>1. job.attempts + 1 \in Nat /\ job.generation + 1 \in Nat
              /\ now + JobLeaseMs \in Nat
          OBVIOUS
        <5> QED BY <3>2, <5>1 DEF ReconciliationClaimStatement
      <4>2. /\ written.status = won.status /\ written.token = won.token
            /\ written.lease = won.lease /\ written.attempts = won.attempts
            /\ written.generation = won.generation /\ written.dueAt = won.dueAt
        BY <3>2 DEF ReconciliationClaimStatement, ClaimedJob
      <4>3. written = won
        BY <2>2, <4>1, <4>2, JobEquality
      <4> QED BY <2>1, <3>2, <4>3
    <3> QED BY <3>1, <3>2
  <2>4. LET miss == ClassifyReconciliationClaimMiss(job, now)
        IN  /\ miss = "claimable" <=> ReconciliationClaimWhere(job, now)
            /\ miss # "claimable" => miss = kind
    BY DEF ClassifyReconciliationClaimMiss, ReconciliationClaimWhere,
           DecideReconciliationClaim, IsLeaseActive, JobClosed
  <2>5. ASSUME ClaimedShape(job)
        PROVE  /\ MemoryJobKind(base, now) = kind
               /\ kind = "acquired" => MemoryClaimedJob(base, JobToken, JobLeaseMs, now) = won
    <3> DEFINE mem == MemoryClaimedJob(base, JobToken, JobLeaseMs, now)
    <3>1. CASE job.status = "claimed" /\ job.lease <= now
      <4>1. /\ base \in JobRow
            /\ base.status = "scheduled" /\ base.attempts + 1 = job.attempts
            /\ base.generation = job.generation /\ base.dueAt = job.dueAt
        <5>1. job.lease # NoTime /\ job.attempts > 0 /\ job.attempts - 1 \in Nat
          BY <2>5, <3>1 DEF ClaimedShape
        <5>2. base = [job EXCEPT !.status = "scheduled", !.token = NoToken, !.lease = NoTime,
                                 !.attempts = job.attempts - 1]
          BY <3>1, <5>1 DEF ReleaseExpiredJob
        <5>3. /\ job.token \in Nat /\ job.generation \in Nat /\ job.dueAt \in Time
              /\ "scheduled" \in JobStatuses /\ NoToken \in Nat /\ NoTime \in Time
          BY DEF JobRow, JobStatuses, NoToken, Time
        <5>4. /\ base.status = "scheduled" /\ base.attempts + 1 = job.attempts
              /\ base.generation = job.generation /\ base.dueAt = job.dueAt
          BY <5>1, <5>2 DEF JobRow
        <5> HIDE DEF base
        <5>5. base \in JobRow
          BY <5>1, <5>2, <5>3 DEF JobRow
        <5> QED BY <5>4, <5>5
      <4> HIDE DEF base
      <4>2. MemoryJobKind(base, now) = kind
        BY <3>1, <4>1 DEF MemoryJobKind, DecideReconciliationClaim, IsLeaseActive, JobClosed
      <4>3. mem \in JobRow
        <5>1. base.attempts + 1 \in Nat /\ base.generation + 1 \in Nat
              /\ now + JobLeaseMs \in Nat
          BY <4>1
        <5> QED BY <4>1, <5>1 DEF MemoryClaimedJob
      <4>4. /\ mem.status = won.status /\ mem.token = won.token /\ mem.lease = won.lease
            /\ mem.attempts = won.attempts /\ mem.generation = won.generation
            /\ mem.dueAt = won.dueAt
        BY <3>1, <4>1 DEF MemoryClaimedJob, ClaimedJob
      <4>5. mem = won
        BY <2>2, <4>3, <4>4, JobEquality
      <4> QED BY <4>2, <4>5
    <3>2. CASE ~(job.status = "claimed" /\ job.lease <= now)
      <4>1. base = job
        BY <3>2 DEF ReleaseExpiredJob
      <4>2. MemoryJobKind(job, now) = kind
        BY DEF MemoryJobKind, DecideReconciliationClaim
      <4>3. kind = "acquired" => job.status = "scheduled"
        BY <2>5, <3>2 DEF DecideReconciliationClaim, IsLeaseActive, ClaimedShape, JobClosed
      <4> DEFINE same == MemoryClaimedJob(job, JobToken, JobLeaseMs, now)
      <4>4. ASSUME job.status = "scheduled" PROVE same = won
        <5>1. same \in JobRow
          <6>1. job.attempts + 1 \in Nat /\ job.generation + 1 \in Nat
                /\ now + JobLeaseMs \in Nat
            OBVIOUS
          <6> QED BY <4>4, <6>1 DEF MemoryClaimedJob
        <5>2. /\ same.status = won.status /\ same.token = won.token
              /\ same.lease = won.lease /\ same.attempts = won.attempts
              /\ same.generation = won.generation /\ same.dueAt = won.dueAt
          BY <4>4 DEF MemoryClaimedJob, ClaimedJob
        <5> QED BY <2>2, <5>1, <5>2, JobEquality
      <4> QED BY <4>1, <4>2, <4>3, <4>4
    <3> QED BY <3>1, <3>2
  <2>6. RedisJobKind(job, now) = kind
    BY DEF RedisJobKind, DecideReconciliationClaim, IsLeaseActive, JobClosed
  <2>7. kind = "acquired" => RedisClaimedJob(job, JobToken, JobLeaseMs, now) = won
    <3> DEFINE red == RedisClaimedJob(job, JobToken, JobLeaseMs, now)
    <3> SUFFICES ASSUME job.status \in {"scheduled", "claimed"} PROVE red = won
      BY DEF DecideReconciliationClaim, JobClosed
    <3>1. red \in JobRow
      <4>1. job.attempts + 1 \in Nat /\ job.generation + 1 \in Nat
            /\ now + JobLeaseMs \in Nat
        OBVIOUS
      <4> QED BY <4>1 DEF RedisClaimedJob
    <3>2. /\ red.status = won.status /\ red.token = won.token
          /\ red.lease = won.lease /\ red.attempts = won.attempts
          /\ red.generation = won.generation /\ red.dueAt = won.dueAt
      BY DEF RedisClaimedJob, ClaimedJob
    <3> QED BY <2>2, <3>1, <3>2, JobEquality
  <2> HIDE DEF kind, base, won, written
  <2> QED BY <2>3, <2>4, <2>5, <2>6, <2>7 DEF JobRulesAgree, kind, base, won, written
<1> QED BY <1>1, CallsTypeCorrect, PTL
=============================================================================
