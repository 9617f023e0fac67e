-------------------- MODULE PostgresWebhookInbox_proofs ---------------------
(***************************************************************************)
(* The attempt budget of the Postgres inbox under any interleaving of      *)
(* statements, and its lease contract where nobody polls.                  *)
(*                                                                         *)
(* The claim of one caller is many statements, so the invariant says what  *)
(* a caller between two statements may rely on.  The timestamps it is      *)
(* about to write back were expired when it read them and still are        *)
(* (StaleReads), its clock reading is not ahead of the clock, and the      *)
(* token it drew is its own and not yet granted (OwnTokens).  With that a  *)
(* repair can only touch the lease column of a row whose lease has run     *)
(* out, and the column tells the truth about every live lease              *)
(* (LeaseColumn), which is why a late write takes nothing from a holder.   *)
(***************************************************************************)
EXTENDS PostgresWebhookInbox, TLAPS

\* The column of a claimed row is the time promised, or both have run out; a row
\* nobody holds shows no lease in the future.
LeaseColumn ==
  IF row.status = "claimed"
  THEN row.lease = promised \/ (row.lease <= now /\ promised <= now)
  ELSE row.lease <= now

StaleReads ==
  \A c \in Callers : claim[c] # Idle => claim[c].now0 <= now /\ claim[c].lease <= now

\* A token drawn by a call that has not written yet is in nobody's hands.
OwnTokens ==
  \A c \in Callers : claim[c] # Idle =>
    /\ claim[c].in.token \in 1..issued /\ claim[c].in.token \notin granted
    /\ claim[c].in.leaseMs = LeaseMs
    /\ \A d \in Callers \ {c} :
         claim[d] # Idle => claim[d].in.token # claim[c].in.token

Absence == row.status = "absent" => row = AbsentRow

IInv == /\ TypeOK /\ AttemptsCountFailures /\ Absence
        /\ LeaseColumn /\ StaleReads /\ OwnTokens

-----------------------------------------------------------------------------
(* One row                                                                 *)

\* What holds of a row r whose recorded failures are f.
Sound(r, f) ==
  /\ r \in Row
  /\ r.status = "absent" => r = AbsentRow
  /\ r.status = "claimed" <=> r.token # NoToken
  /\ r.attempts = f + (IF r.status \in {"claimed", "completed"} THEN 1 ELSE 0)

LEMMA RowIsSound == IInv => Sound(row, failures) /\ failures \in Nat
BY DEF IInv, TypeOK, AttemptsCountFailures, Absence, Sound

LEMMA AbsentSound == Sound(AbsentRow, 0) /\ AbsentRow.lease = NoTime
BY DEF Sound, AbsentRow, Row, Statuses, Time, NoTime, NoToken

\* A claim that may write finds a row that is free, or held under a lease that ran
\* out, and counts one attempt more than there are failures.
LEMMA ClaimSound ==
  ASSUME NEW r, NEW f \in Nat, NEW t \in Nat, NEW in \in ClaimInput, Sound(r, f),
         r.status = "absent" \/ WebhookClaimWhere(r, in, t)
  PROVE  LET q == WebhookClaimStatement(r, in, t)
         IN  /\ Sound(q, f) /\ q.status = "claimed" /\ q.token = in.token
             /\ q.lease = t + in.leaseMs
             /\ r.status \in {"absent", "pending", "claimed"}
             /\ r.status = "claimed" => r.lease <= t
<1> DEFINE q == WebhookClaimStatement(r, in, t)
<1>1. /\ in.hash \in Hashes /\ in.ref \in Hashes \cup {NoHash} /\ in.token \in Nat
      /\ in.token # NoToken /\ in.leaseMs \in Nat /\ t + in.leaseMs \in Nat
  BY DEF ClaimInput, NoToken
<1>2. r \in Row
  BY DEF Sound
<1>3. CASE r.status = "absent"
  <2>1. q = [status |-> "claimed", hash |-> in.hash, ref |-> in.ref,
             token |-> in.token, lease |-> t + in.leaseMs, attempts |-> 1,
             generation |-> 1, availableAt |-> t]
    BY <1>3 DEF WebhookClaimStatement
  <2>2. f = 0
    <3>1. r.attempts = 0
      BY <1>3 DEF Sound, AbsentRow
    <3> QED BY <1>3, <3>1 DEF Sound
  <2> HIDE DEF q
  <2>3. q \in Row
    BY <1>1, <2>1 DEF Row, Statuses, Time
  <2>4. q.status = "claimed" /\ q.token = in.token /\ q.lease = t + in.leaseMs
        /\ q.attempts = 1
    BY <2>1
  <2>5. Sound(q, f)
    BY <1>1, <2>2, <2>3, <2>4 DEF Sound
  <2> QED BY <1>3, <2>4, <2>5 DEF q
<1>4. CASE r.status # "absent" /\ WebhookClaimWhere(r, in, t)
  <2> DEFINE n == IF r.status = "claimed" THEN r.attempts ELSE r.attempts + 1
  <2>1. /\ r.status \in {"pending", "claimed"}
        /\ r.status = "claimed" => r.lease = NoTime \/ r.lease <= t
    BY <1>4 DEF WebhookClaimWhere
  <2>2. r.status = "claimed" => r.lease <= t
    BY <2>1 DEF NoTime
  <2>3. n = f + 1 /\ n \in Nat
    BY <2>1 DEF Sound
  <2>4. Coalesce(in.ref, r.ref) \in Hashes \cup {NoHash} /\ r.generation + 1 \in Nat
    BY <1>1, <1>2 DEF Coalesce, Row
  <2>5. q = [r EXCEPT !.status = "claimed", !.hash = in.hash,
                      !.ref = Coalesce(in.ref, r.ref), !.token = in.token,
                      !.lease = t + in.leaseMs, !.attempts = n,
                      !.generation = r.generation + 1, !.availableAt = t]
    BY <1>2, <1>4 DEF WebhookClaimStatement, Row
  <2> HIDE DEF q, n
  <2>6. q \in Row
    BY <1>1, <1>2, <2>3, <2>4, <2>5 DEF Row, Statuses, Time
  <2>7. q.status = "claimed" /\ q.token = in.token /\ q.lease = t + in.leaseMs
        /\ q.attempts = n
    BY <1>2, <2>5 DEF Row
  <2>8. Sound(q, f)
    BY <1>1, <2>3, <2>6, <2>7 DEF Sound
  <2> QED BY <2>1, <2>2, <2>7, <2>8 DEF q
<1> QED BY <1>3, <1>4

LEMMA RenewSound ==
  ASSUME NEW r, NEW f \in Nat, NEW n \in Nat, NEW t \in Nat,
         Sound(r, f), r.status = "claimed"
  PROVE  LET q == RenewedRow(r, n + 1, LeaseMs, t)
         IN  Sound(q, f) /\ q.status = "claimed" /\ q.token = n + 1 /\ q.lease = t + LeaseMs
<1> DEFINE q == RenewedRow(r, n + 1, LeaseMs, t)
<1>1. q = [r EXCEPT !.token = n + 1, !.lease = t + LeaseMs, !.generation = @ + 1]
  BY DEF RenewedRow
<1> HIDE DEF q
<1>2. n + 1 \in Nat /\ n + 1 # NoToken /\ t + LeaseMs \in Time
      /\ r.generation + 1 \in Nat /\ r \in Row
  BY LeaseAssumption DEF Sound, Row, Time, NoToken
<1>3. q \in Row
  BY <1>1, <1>2 DEF Row
<1>4. /\ q.status = "claimed" /\ q.token = n + 1 /\ q.lease = t + LeaseMs
      /\ q.attempts = r.attempts
  BY <1>1, <1>2 DEF Row
<1>5. Sound(q, f)
  BY <1>2, <1>3, <1>4 DEF Sound
<1> QED BY <1>4, <1>5 DEF q

LEMMA CompleteSound ==
  ASSUME NEW r, NEW f \in Nat, Sound(r, f), r.status = "claimed"
  PROVE  LET q == CompletedRow(r)
         IN  Sound(q, f) /\ q.status = "completed" /\ q.lease = NoTime /\ q.token = NoToken
<1> DEFINE q == CompletedRow(r)
<1>1. q = [r EXCEPT !.status = "completed", !.token = NoToken, !.lease = NoTime]
  BY DEF CompletedRow
<1> HIDE DEF q
<1>2. q \in Row
  BY <1>1 DEF Sound, Row, Statuses, Time, NoTime, NoToken
<1>3. /\ q.status = "completed" /\ q.token = NoToken /\ q.lease = NoTime
      /\ q.attempts = r.attempts
  BY <1>1 DEF Sound, Row
<1>4. Sound(q, f)
  BY <1>2, <1>3 DEF Sound
<1> QED BY <1>3, <1>4 DEF q

\* A claimed row given back: its attempt is kept as a failure, or given back too.
LEMMA GivenBackSound ==
  ASSUME NEW r, NEW f \in Nat, NEW dead \in BOOLEAN, NEW restore \in BOOLEAN,
         NEW d \in Nat, NEW t \in Nat, Sound(r, f), r.status = "claimed"
  PROVE  LET q == FailedRow(r, dead, restore, d, t)
         IN  /\ restore => Sound(q, f)
             /\ ~restore => Sound(q, f + 1)
             /\ q.status \in {"dead_letter", "pending"}
             /\ q.lease = NoTime /\ q.token = NoToken
<1> DEFINE q == FailedRow(r, dead, restore, d, t)
           g == IF restore THEN f ELSE f + 1
           s == IF dead THEN "dead_letter" ELSE "pending"
<1>1. r.attempts = f + 1 /\ r.attempts > 0 /\ r.attempts - 1 = f /\ r \in Row
  BY DEF Sound
<1>2. q = [r EXCEPT !.status = s, !.token = NoToken, !.lease = NoTime,
                    !.attempts = g, !.availableAt = t + d]
  BY <1>1 DEF FailedRow, Row
<1>3. /\ g \in Nat /\ s \in {"dead_letter", "pending"} /\ s \in Statuses
      /\ NoToken \in Nat /\ NoTime \in Time /\ t + d \in Time
  BY DEF Statuses, NoToken, NoTime, Time
<1> HIDE DEF q, g, s
<1>4. q \in Row
  BY <1>1, <1>2, <1>3 DEF Row
<1>5. q.status = s /\ q.token = NoToken /\ q.lease = NoTime /\ q.attempts = g
  BY <1>1, <1>2 DEF Row
<1>6. Sound(q, g)
  BY <1>3, <1>4, <1>5 DEF Sound
<1> QED BY <1>3, <1>5, <1>6 DEF q, g

\* A repair writes two timestamps, nothing else.
Repaired(r, a, l) == [r EXCEPT !.availableAt = a, !.lease = l]

LEMMA RepairSound ==
  ASSUME NEW r, NEW f, NEW a \in Time, NEW l \in Time, Sound(r, f), r.status # "absent"
  PROVE  LET q == Repaired(r, a, l)
         IN  Sound(q, f) /\ q.status = r.status /\ q.token = r.token /\ q.lease = l
<1> DEFINE q == Repaired(r, a, l)
<1>1. r \in Row
  BY DEF Sound
<1>2. q \in Row
  BY <1>1 DEF Row, Repaired
<1>3. /\ q.status = r.status /\ q.token = r.token /\ q.lease = l
      /\ q.attempts = r.attempts
  BY <1>1 DEF Row, Repaired
<1> HIDE DEF q
<1>4. Sound(q, f)
  BY <1>2, <1>3 DEF Sound
<1> QED BY <1>3, <1>4 DEF q

-----------------------------------------------------------------------------
(* The callers                                                             *)

\* Callers between two statements stay as they were: the clock moves on, and a
\* token is drawn and granted at once.
LEMMA ClaimsStay ==
  ASSUME IInv, UNCHANGED claim, now' \in Nat, now <= now',
         \/ UNCHANGED <<issued, granted>>
         \/ issued' = issued + 1 /\ granted' = granted \cup {issued + 1}
  PROVE  StaleReads' /\ OwnTokens' /\ issued' \in Nat /\ granted' \subseteq 1..issued'
<1>1. ASSUME NEW c \in Callers, claim[c] # Idle
      PROVE  /\ claim[c].in.token \in 1..issued /\ claim[c].in.token # issued + 1
             /\ claim[c].now0 <= now' /\ claim[c].lease <= now'
  <2>1. claim[c] \in InClaim
    BY <1>1 DEF IInv, TypeOK
  <2>2. claim[c].now0 \in Nat /\ claim[c].lease \in Int
    BY <2>1 DEF InClaim, Time, NoTime
  <2> QED BY <1>1, <2>2 DEF IInv, TypeOK, StaleReads, OwnTokens
<1>2. StaleReads'
  BY <1>1 DEF StaleReads
<1>3. issued' \in Nat /\ granted' \subseteq 1..issued' /\ 1..issued \subseteq 1..issued'
  <2>1. issued \in Nat /\ granted \subseteq 1..issued
    BY DEF IInv, TypeOK
  <2>2. CASE UNCHANGED <<issued, granted>>
    BY <2>1, <2>2
  <2>3. CASE issued' = issued + 1 /\ granted' = granted \cup {issued + 1}
    BY <2>1, <2>3
  <2> QED BY <2>2, <2>3
<1>4. OwnTokens'
  BY <1>1, <1>3 DEF IInv, OwnTokens
<1> QED BY <1>2, <1>3, <1>4

\* Caller c goes to its next statement x, with the clock reading and the token it
\* has, or with a token just drawn.
LEMMA ClaimMoves ==
  ASSUME IInv, NEW c \in Callers, NEW x \in InClaim, x # Idle,
         claim' = [claim EXCEPT ![c] = x], UNCHANGED <<now, granted>>,
         x.now0 <= now, x.lease <= now, x.in.leaseMs = LeaseMs,
         \/ claim[c] # Idle /\ x.in = claim[c].in /\ issued' = issued
         \/ x.in.token = issued + 1 /\ issued' = issued + 1
  PROVE  /\ StaleReads' /\ OwnTokens' /\ issued' \in Nat
         /\ granted' \subseteq 1..issued' /\ claim' \in [Callers -> {Idle} \cup InClaim]
<1>1. claim'[c] = x /\ \A d \in Callers \ {c} : claim'[d] = claim[d]
  BY DEF IInv, TypeOK
<1>2. claim' \in [Callers -> {Idle} \cup InClaim]
  BY DEF IInv, TypeOK
<1>3. StaleReads'
  BY <1>1 DEF IInv, StaleReads
<1>4. issued' \in Nat /\ granted' \subseteq 1..issued' /\ 1..issued \subseteq 1..issued'
  BY DEF IInv, TypeOK
<1>5. \A d \in Callers : claim[d] # Idle => claim[d].in.token # issued + 1
  BY DEF IInv, OwnTokens, TypeOK
<1>6. x.in.token \in 1..issued' /\ x.in.token \notin granted
  BY <1>4 DEF IInv, OwnTokens, TypeOK
<1>7. \A d \in Callers \ {c} : claim[d] # Idle => claim[d].in.token # x.in.token
  BY <1>5 DEF IInv, OwnTokens
<1>8. OwnTokens'
  BY <1>1, <1>4, <1>6, <1>7 DEF IInv, OwnTokens
<1> QED BY <1>2, <1>3, <1>4, <1>8

\* Caller c is done; its token may have been granted.
LEMMA ClaimEnds ==
  ASSUME IInv, NEW c \in Callers, claim[c] # Idle,
         claim' = [claim EXCEPT ![c] = Idle], UNCHANGED <<now, issued>>,
         granted' = granted \/ granted' = granted \cup {claim[c].in.token}
  PROVE  /\ StaleReads' /\ OwnTokens' /\ issued' \in Nat
         /\ granted' \subseteq 1..issued' /\ claim' \in [Callers -> {Idle} \cup InClaim]
<1>1. claim'[c] = Idle /\ \A d \in Callers \ {c} : claim'[d] = claim[d]
  BY DEF IInv, TypeOK
<1>2. claim' \in [Callers -> {Idle} \cup InClaim]
  BY DEF IInv, TypeOK
<1>3. StaleReads'
  BY <1>1 DEF IInv, StaleReads
<1>4. issued' \in Nat /\ granted' \subseteq 1..issued'
  BY DEF IInv, TypeOK, OwnTokens
<1>5. OwnTokens'
  BY <1>1 DEF IInv, OwnTokens
<1> QED BY <1>2, <1>3, <1>4, <1>5

-----------------------------------------------------------------------------
(* The invariant, statement by statement                                   *)

\* A step keeps IInv if it keeps the row sound, its lease column true, and the
\* callers as the lemmas above say.
LEMMA StepKeeps ==
  ASSUME IInv, Sound(row', failures'), failures' \in Nat, LeaseColumn',
         StaleReads', OwnTokens', issued' \in Nat, granted' \subseteq 1..issued',
         claim' \in [Callers -> {Idle} \cup InClaim],
         poll' \in [Pollers -> {Idle} \cup InPoll], running' = running,
         tuple' \in Nat, now' \in Nat, promised' \in Time, backoff' \in Time
  PROVE  IInv'
BY DEF IInv, TypeOK, AttemptsCountFailures, Absence, Sound

\* The first statement of a claim, and the one after the repair.
LEMMA ClaimStatementKeeps ==
  ASSUME IInv, NEW in \in ClaimInput, NEW t \in Nat, t <= now, in.leaseMs = LeaseMs,
         Writes(in, t), ClaimStatement(in, t), UNCHANGED <<now, poll, running>>,
         StaleReads', OwnTokens', issued' \in Nat, granted' \subseteq 1..issued',
         claim' \in [Callers -> {Idle} \cup InClaim]
  PROVE  /\ IInv' /\ row'.status = "claimed" /\ row'.token = in.token
         /\ row.status \notin Terminal /\ ~(row.status = "claimed" /\ promised > now)
<1>1. Sound(row, failures) /\ failures \in Nat
  BY RowIsSound
<1>2. /\ row' = WebhookClaimStatement(row, in, t) /\ promised' = t + LeaseMs
      /\ tuple' = (IF row.status = "absent" THEN in.token ELSE tuple)
      /\ UNCHANGED <<backoff, failures>>
  BY DEF ClaimStatement
<1>3. /\ Sound(row', failures') /\ row'.status = "claimed" /\ row'.token = in.token
      /\ row'.lease = t + LeaseMs
      /\ row.status \in {"absent", "pending", "claimed"}
      /\ row.status = "claimed" => row.lease <= t
  BY <1>1, <1>2, ClaimSound DEF Writes
<1>4. LeaseColumn'
  BY <1>2, <1>3 DEF LeaseColumn
<1>5. tuple' \in Nat /\ promised' \in Time /\ t + LeaseMs \in Nat
  BY <1>2, LeaseAssumption DEF IInv, TypeOK, ClaimInput, Time
<1>6. now' \in Nat /\ poll' \in [Pollers -> {Idle} \cup InPoll] /\ backoff' \in Time
  BY <1>2 DEF IInv, TypeOK
<1>7. IInv'
  BY <1>1, <1>2, <1>3, <1>4, <1>5, <1>6, StepKeeps
<1>8. ~(row.status = "claimed" /\ promised > now)
  <2>1. now \in Nat /\ promised \in Int /\ row.lease \in Int
    BY DEF IInv, TypeOK, Row, Time, NoTime
  <2> QED BY <1>3, <2>1 DEF IInv, LeaseColumn
<1> QED BY <1>3, <1>7, <1>8 DEF Terminal

\* What an input is.
LEMMA InputTypes ==
  ASSUME IInv, NEW in \in Inputs
  PROVE  in \in ClaimInput /\ in.token = issued + 1 /\ in.leaseMs = LeaseMs
<1>1. issued + 1 \in Nat \ {0}
  BY DEF IInv, TypeOK
<1> QED BY <1>1, LeaseAssumption DEF Inputs, ClaimInput

\* The statements of a caller after its first.
LEMMA InCallTypes ==
  ASSUME IInv, NEW c \in Callers, claim[c] # Idle
  PROVE  /\ claim[c] \in InClaim /\ claim[c].in \in ClaimInput
         /\ claim[c].now0 \in Nat /\ claim[c].now0 <= now
         /\ claim[c].availableAt \in Time /\ claim[c].lease \in Time
         /\ claim[c].lease <= now /\ claim[c].in.leaseMs = LeaseMs
         /\ claim[c].in.token \in 1..issued /\ claim[c].in.token \notin granted
<1>1. claim[c] \in InClaim
  BY DEF IInv, TypeOK
<1> QED BY <1>1 DEF IInv, StaleReads, OwnTokens, InClaim

\* A statement that changes nothing but where its caller is.
LEMMA OnlyMoves ==
  ASSUME IInv, NEW c \in Callers, claim[c] # Idle, NEW x \in {Idle} \cup InClaim,
         claim' = [claim EXCEPT ![c] = x],
         x # Idle => /\ x.in = claim[c].in /\ x.now0 <= now /\ x.lease <= now,
         UNCHANGED <<row, tuple, now, issued, poll, running, history>>
  PROVE  IInv'
<1>1. UNCHANGED <<granted, promised, backoff, failures>>
  BY DEF history
<1>2. /\ StaleReads' /\ OwnTokens' /\ issued' \in Nat
      /\ granted' \subseteq 1..issued' /\ claim' \in [Callers -> {Idle} \cup InClaim]
  <2>1. CASE x = Idle
    BY <1>1, <2>1, ClaimEnds
  <2>2. CASE x # Idle
    <3>1. x \in InClaim /\ x.in.leaseMs = LeaseMs
      BY <2>2, InCallTypes
    <3> QED BY <1>1, <2>2, <3>1, ClaimMoves
  <2> QED BY <2>1, <2>2
<1>3. Sound(row', failures') /\ failures' \in Nat
  BY <1>1, RowIsSound
<1>4. LeaseColumn'
  BY <1>1 DEF IInv, LeaseColumn
<1>5. /\ tuple' \in Nat /\ now' \in Nat /\ promised' \in Time /\ backoff' \in Time
      /\ poll' \in [Pollers -> {Idle} \cup InPoll]
  BY <1>1 DEF IInv, TypeOK
<1> QED BY <1>2, <1>3, <1>4, <1>5, StepKeeps

\* A first statement writes, or leaves the call to look at the row.
LEMMA ClaimStep ==
  ASSUME IInv, NEW c \in Callers, NEW in \in Inputs, Claim(c, in)
  PROVE  IInv'
<1>1. in \in ClaimInput /\ in.token = issued + 1 /\ in.leaseMs = LeaseMs
  BY InputTypes
<1>2. issued' = issued + 1 /\ UNCHANGED <<now, poll, running>> /\ now \in Nat
  BY <1>1 DEF Claim, IInv, TypeOK
<1>3. CASE Writes(in, now) /\ ClaimStatement(in, now) /\ UNCHANGED claim
  <2>1. granted' = granted \cup {issued + 1}
    BY <1>1, <1>3 DEF ClaimStatement
  <2>2. /\ StaleReads' /\ OwnTokens' /\ issued' \in Nat /\ granted' \subseteq 1..issued'
    BY <1>2, <1>3, <2>1, ClaimsStay
  <2>3. claim' \in [Callers -> {Idle} \cup InClaim]
    BY <1>3 DEF IInv, TypeOK
  <2> QED BY <1>1, <1>2, <1>3, <2>2, <2>3, ClaimStatementKeeps
<1>4. CASE /\ claim' = [claim EXCEPT ![c] =
                          [pc |-> "select", in |-> in, now0 |-> now,
                           availableAt |-> NoTime, lease |-> NoTime]]
           /\ UNCHANGED <<row, tuple, history, call>>
  <2> DEFINE x == [pc |-> "select", in |-> in, now0 |-> now,
                   availableAt |-> NoTime, lease |-> NoTime]
  <2>1. /\ x \in InClaim /\ x # Idle /\ x.in = in /\ x.now0 = now /\ x.lease = NoTime
        /\ NoTime <= now
    BY <1>1, <1>2 DEF InClaim, Time, NoTime, Idle
  <2>2. UNCHANGED <<granted, promised, backoff, failures>>
    BY <1>4 DEF history
  <2> HIDE DEF x
  <2>3. /\ StaleReads' /\ OwnTokens' /\ issued' \in Nat
        /\ granted' \subseteq 1..issued' /\ claim' \in [Callers -> {Idle} \cup InClaim]
    <3>1. claim' = [claim EXCEPT ![c] = x]
      BY <1>4 DEF x
    <3>2. x.now0 <= now /\ x.lease <= now /\ x.in.leaseMs = LeaseMs
          /\ x.in.token = issued + 1
      BY <1>1, <1>2, <2>1
    <3> QED BY <1>2, <2>1, <2>2, <3>1, <3>2, ClaimMoves
  <2>4. Sound(row', failures') /\ failures' \in Nat
    BY <1>4, <2>2, RowIsSound
  <2>5. LeaseColumn'
    BY <1>2, <1>4, <2>2 DEF IInv, LeaseColumn
  <2>6. /\ tuple' \in Nat /\ now' \in Nat /\ promised' \in Time /\ backoff' \in Time
        /\ poll' \in [Pollers -> {Idle} \cup InPoll]
    BY <1>2, <1>4, <2>2 DEF IInv, TypeOK
  <2> QED BY <1>2, <2>3, <2>4, <2>5, <2>6, StepKeeps
<1> QED BY <1>3, <1>4 DEF Claim

\* A row that looks claimable shows only timestamps that have passed.
LEMMA SelectStep ==
  ASSUME IInv, NEW c \in Callers, Select(c)
  PROVE  IInv'
<1>1. /\ claim[c].pc = "select"
      /\ UNCHANGED <<row, tuple, now, issued, poll, running, history, call>>
  BY DEF Select
<1>2. claim[c] # Idle
  BY <1>1 DEF Idle
<1> DEFINE looks == row.status # "absent"
                      /\ ClassifyWebhookClaimMiss(row, claim[c].in, now) = "claimable"
           y == [claim[c] EXCEPT !.pc = "repair", !.availableAt = row.availableAt,
                                 !.lease = row.lease]
<1>3. claim' = [claim EXCEPT ![c] = IF looks THEN y ELSE Idle]
  BY DEF Select
<1>4. looks => row.lease <= now
  <2>1. row.lease \in Int /\ now \in Nat /\ promised \in Int
    BY DEF IInv, TypeOK, Row, Time, NoTime
  <2>2. row.status = "claimed" /\ row.lease > now /\ row.lease # NoTime => ~looks
    BY DEF ClassifyWebhookClaimMiss, IsLeaseActive
  <2> QED BY <2>1, <2>2 DEF IInv, LeaseColumn, NoTime
<1>5. row.lease \in Time /\ row.availableAt \in Time
  BY DEF IInv, TypeOK, Row
<1>6. claim[c] \in InClaim
  BY <1>2, InCallTypes
<1>7. /\ y \in InClaim /\ y.in = claim[c].in /\ y.now0 = claim[c].now0
      /\ y.lease = row.lease
  BY <1>5, <1>6 DEF InClaim
<1> HIDE DEF looks, y
<1>8. CASE looks
  BY <1>1, <1>2, <1>3, <1>4, <1>7, <1>8, InCallTypes, OnlyMoves
<1>9. CASE ~looks
  BY <1>1, <1>2, <1>3, <1>9, OnlyMoves
<1> QED BY <1>8, <1>9

\* A repair touches no lease that still runs.
LEMMA RepairStep ==
  ASSUME IInv, NEW c \in Callers, Repair(c)
  PROVE  IInv' /\ row'.status = row.status /\ row'.token = row.token
<1>1. /\ claim[c].pc = "repair" /\ claim' = [claim EXCEPT ![c].pc = "retry"]
      /\ UNCHANGED <<tuple, now, issued, poll, running, granted, promised, backoff, failures>>
  BY DEF Repair, history
<1>2. claim[c] # Idle
  BY <1>1 DEF Idle
<1> DEFINE x == [claim[c] EXCEPT !.pc = "retry"]
<1>3. claim[c] \in InClaim
  BY <1>2, InCallTypes
<1>4. /\ x \in InClaim /\ x # Idle /\ x.in = claim[c].in /\ x.now0 = claim[c].now0
      /\ x.lease = claim[c].lease
  BY <1>3 DEF InClaim, Idle
<1>5. claim' = [claim EXCEPT ![c] = x]
  BY <1>1
<1> HIDE DEF x
<1>6. /\ StaleReads' /\ OwnTokens' /\ issued' \in Nat
      /\ granted' \subseteq 1..issued' /\ claim' \in [Callers -> {Idle} \cup InClaim]
  <2>1. x.now0 <= now /\ x.lease <= now /\ x.in.leaseMs = LeaseMs
    BY <1>2, <1>4, InCallTypes
  <2> QED BY <1>1, <1>2, <1>4, <1>5, <2>1, ClaimMoves
<1>7. /\ tuple' \in Nat /\ now' \in Nat /\ promised' \in Time /\ backoff' \in Time
      /\ poll' \in [Pollers -> {Idle} \cup InPoll]
  BY <1>1 DEF IInv, TypeOK
<1>8. Sound(row, failures) /\ failures \in Nat
  BY RowIsSound
<1>9. CASE RepairWhere(claim[c].now0)
  <2>1. /\ row' = Repaired(row, claim[c].availableAt, claim[c].lease)
        /\ row.status # "absent"
    BY <1>9 DEF Repair, RepairWhere, Repaired
  <2>2. /\ Sound(row', failures) /\ row'.status = row.status /\ row'.token = row.token
        /\ row'.lease = claim[c].lease
    BY <1>2, <1>8, <2>1, InCallTypes, RepairSound
  <2>3. row.status = "claimed" => promised <= now
    <3>1. row.lease \in Int /\ now \in Nat /\ promised \in Int
      BY DEF IInv, TypeOK, Row, Time, NoTime
    <3>2. claim[c].now0 \in Nat /\ claim[c].now0 <= now
      BY <1>2, InCallTypes
    <3>3. row.status = "claimed" => row.lease <= now
      BY <1>9, <3>1, <3>2 DEF RepairWhere, NoTime
    <3> QED BY <3>1, <3>3 DEF IInv, LeaseColumn
  <2>4. LeaseColumn'
    BY <1>1, <1>2, <2>2, <2>3, InCallTypes DEF LeaseColumn
  <2> QED BY <1>1, <1>6, <1>7, <1>8, <2>2, <2>4, StepKeeps
<1>10. CASE ~RepairWhere(claim[c].now0)
  <2>1. row' = row
    BY <1>10 DEF Repair
  <2>2. LeaseColumn'
    BY <1>1, <2>1 DEF IInv, LeaseColumn
  <2> QED BY <1>1, <1>6, <1>7, <1>8, <2>1, <2>2, StepKeeps
<1> QED BY <1>9, <1>10

LEMMA RetryStep ==
  ASSUME IInv, NEW c \in Callers, Retry(c)
  PROVE  IInv'
<1>1. claim[c].pc = "retry" /\ UNCHANGED <<now, issued, poll, running>>
  BY DEF Retry
<1>2. claim[c] # Idle
  BY <1>1 DEF Idle
<1>3. CASE /\ Writes(claim[c].in, claim[c].now0)
           /\ ClaimStatement(claim[c].in, claim[c].now0)
           /\ claim' = [claim EXCEPT ![c] = Idle]
  <2>1. granted' = granted \cup {claim[c].in.token}
    BY <1>3 DEF ClaimStatement
  <2>2. /\ StaleReads' /\ OwnTokens' /\ issued' \in Nat
        /\ granted' \subseteq 1..issued' /\ claim' \in [Callers -> {Idle} \cup InClaim]
    BY <1>1, <1>2, <1>3, <2>1, ClaimEnds
  <2> QED BY <1>1, <1>2, <1>3, <2>2, InCallTypes, ClaimStatementKeeps
<1>4. CASE /\ claim' = [claim EXCEPT ![c].pc = "reselect"]
           /\ UNCHANGED <<row, tuple, history, call>>
  <2> DEFINE x == [claim[c] EXCEPT !.pc = "reselect"]
  <2>1. claim[c] \in InClaim
    BY <1>2, InCallTypes
  <2>2. /\ x \in InClaim /\ x.in = claim[c].in /\ x.now0 = claim[c].now0
        /\ x.lease = claim[c].lease
    BY <2>1 DEF InClaim
  <2>3. claim' = [claim EXCEPT ![c] = x]
    BY <1>4
  <2> HIDE DEF x
  <2> QED BY <1>1, <1>2, <1>4, <2>2, <2>3, InCallTypes, OnlyMoves
<1> QED BY <1>3, <1>4 DEF Retry

LEMMA ReselectStep ==
  ASSUME IInv, NEW c \in Callers, Reselect(c)
  PROVE  IInv'
<1>1. /\ claim[c].pc = "reselect" /\ claim' = [claim EXCEPT ![c] = Idle]
      /\ UNCHANGED <<row, tuple, now, issued, poll, running, history>>
  BY DEF Reselect
<1>2. claim[c] # Idle
  BY <1>1 DEF Idle
<1> QED BY <1>1, <1>2, OnlyMoves

\* renew, complete and fail, each of a holder that presents the row's token.
LEMMA FencedStep ==
  ASSUME IInv, NEW token \in granted,
         \/ Renew(token) \/ Complete(token)
         \/ \E dead, restore \in BOOLEAN, delay \in RetryDelays :
              Fail(token, dead, restore, delay)
  PROVE  IInv'
<1>1. Sound(row, failures) /\ failures \in Nat /\ row.status = "claimed"
  BY RowIsSound DEF Renew, Complete, Fail, LeaseMutationWhere
<1>2. /\ UNCHANGED <<tuple, now, claim, poll, running>>
      /\ tuple' \in Nat /\ now' \in Nat /\ now \in Nat /\ issued \in Nat
      /\ poll' \in [Pollers -> {Idle} \cup InPoll]
      /\ claim' \in [Callers -> {Idle} \cup InClaim]
  BY DEF Renew, Complete, Fail, IInv, TypeOK
<1>3. \/ UNCHANGED <<issued, granted>>
      \/ issued' = issued + 1 /\ granted' = granted \cup {issued + 1}
  BY DEF Renew, Complete, Fail, history
<1>4. StaleReads' /\ OwnTokens' /\ issued' \in Nat /\ granted' \subseteq 1..issued'
  BY <1>2, <1>3, ClaimsStay
<1>5. NoTime <= now /\ NoTime \in Time /\ promised \in Time /\ backoff \in Time
  BY <1>2 DEF NoTime, Time, IInv, TypeOK
<1>6. CASE Renew(token)
  <2>1. /\ row' = RenewedRow(row, issued + 1, LeaseMs, now) /\ promised' = now + LeaseMs
        /\ UNCHANGED <<backoff, failures>>
    BY <1>6 DEF Renew
  <2>2. /\ Sound(row', failures') /\ row'.status = "claimed" /\ row'.lease = now + LeaseMs
    BY <1>1, <1>2, <2>1, RenewSound
  <2>3. LeaseColumn'
    BY <2>1, <2>2 DEF LeaseColumn
  <2>4. promised' \in Time
    BY <1>2, <2>1, LeaseAssumption DEF Time
  <2> QED BY <1>1, <1>2, <1>4, <1>5, <2>1, <2>2, <2>3, <2>4, StepKeeps
<1>7. CASE Complete(token)
  <2>1. row' = CompletedRow(row) /\ UNCHANGED <<promised, backoff, failures>>
    BY <1>7 DEF Complete, history
  <2>2. Sound(row', failures') /\ row'.status = "completed" /\ row'.lease = NoTime
    BY <1>1, <2>1, CompleteSound
  <2>3. LeaseColumn'
    BY <1>2, <1>5, <2>2 DEF LeaseColumn
  <2> QED BY <1>1, <1>2, <1>4, <1>5, <2>1, <2>2, <2>3, StepKeeps
<1>8. ASSUME NEW dead \in BOOLEAN, NEW restore \in BOOLEAN, NEW delay \in RetryDelays,
             Fail(token, dead, restore, delay)
      PROVE  IInv'
  <2>1. /\ row' = FailedRow(row, dead, restore, delay, now)
        /\ failures' = (IF restore THEN failures ELSE failures + 1)
        /\ backoff' = now + delay /\ UNCHANGED promised
    BY <1>8 DEF Fail
  <2>2. delay \in Nat /\ now + delay \in Nat
    BY <1>2, DelayAssumption
  <2>3. /\ Sound(row', failures') /\ row'.status \in {"dead_letter", "pending"}
        /\ row'.lease = NoTime
    BY <1>1, <1>2, <2>1, <2>2, GivenBackSound
  <2>4. LeaseColumn'
    BY <1>2, <1>5, <2>2, <2>3 DEF LeaseColumn
  <2>5. failures' \in Nat /\ backoff' \in Time
    BY <1>1, <2>1, <2>2 DEF Time
  <2> QED BY <1>1, <1>2, <1>4, <1>5, <2>1, <2>3, <2>4, <2>5, StepKeeps
<1> QED BY <1>6, <1>7, <1>8

\* The rest: the sweeps and the clock.
LEMMA SweepStep ==
  ASSUME IInv,
         \/ \E p \in Pollers : PollScan(p) \/ PollRelease(p)
         \/ DeleteExpired \/ Tick
  PROVE  IInv'
<1>1. Sound(row, failures) /\ failures \in Nat
  BY RowIsSound
<1>2. /\ UNCHANGED <<claim, issued, granted, running>>
      /\ claim' \in [Callers -> {Idle} \cup InClaim]
      /\ now \in Nat /\ tuple \in Nat /\ promised \in Time /\ backoff \in Time
      /\ poll \in [Pollers -> {Idle} \cup InPoll] /\ row.lease \in Time
  BY DEF PollScan, PollRelease, DeleteExpired, Tick, history, IInv, TypeOK, Row
<1>3. now' \in Nat /\ now <= now'
  <2>1. now' = now \/ now' = now + 1
    BY DEF PollScan, PollRelease, DeleteExpired, Tick
  <2> QED BY <1>2, <2>1
<1>4. StaleReads' /\ OwnTokens' /\ issued' \in Nat /\ granted' \subseteq 1..issued'
  BY <1>2, <1>3, ClaimsStay
<1>5. NoTime <= now /\ NoTime \in Time /\ row.lease \in Int /\ promised \in Int
  BY <1>2 DEF NoTime, Time
<1>6. ASSUME NEW p \in Pollers, PollScan(p) PROVE IInv'
  <2>1. /\ UNCHANGED <<row, tuple, now, promised, backoff, failures>>
        /\ poll' = [poll EXCEPT ![p] = [pc |-> "release", now0 |-> now, tuple |-> tuple]]
    BY <1>6 DEF PollScan, history
  <2>2. poll' \in [Pollers -> {Idle} \cup InPoll]
    <3>1. [pc |-> "release", now0 |-> now, tuple |-> tuple] \in InPoll
      BY <1>2 DEF InPoll
    <3> QED BY <1>2, <2>1, <3>1
  <2>3. LeaseColumn'
    BY <2>1 DEF IInv, LeaseColumn
  <2> QED BY <1>1, <1>2, <1>3, <1>4, <2>1, <2>2, <2>3, StepKeeps
<1>7. ASSUME NEW p \in Pollers, PollRelease(p) PROVE IInv'
  <2>1. /\ poll[p] # Idle /\ poll' = [poll EXCEPT ![p] = Idle]
        /\ UNCHANGED <<tuple, now, promised, failures>>
    BY <1>7 DEF PollRelease
  <2>2. poll' \in [Pollers -> {Idle} \cup InPoll]
    BY <1>2, <2>1
  <2>3. CASE UNCHANGED <<row, backoff>>
    <3>1. LeaseColumn'
      BY <2>1, <2>3 DEF IInv, LeaseColumn
    <3> QED BY <1>1, <1>2, <1>3, <1>4, <2>1, <2>2, <2>3, <3>1, StepKeeps
  <2>4. CASE /\ ReleaseWhere(poll[p].tuple)
             /\ row' = [row EXCEPT !.status = "pending", !.token = NoToken,
                                   !.lease = NoTime,
                                   !.attempts = IF @ > 0 THEN @ - 1 ELSE 0,
                                   !.availableAt = poll[p].now0]
             /\ backoff' = NoTime
    <3>1. poll[p].now0 \in Nat
      BY <1>2, <2>1 DEF InPoll
    <3>2. row.status = "claimed"
      BY <2>4 DEF ReleaseWhere
    <3>3. PICK dead \in BOOLEAN, restore \in BOOLEAN, d \in Nat, t \in Nat :
            restore /\ row' = FailedRow(row, dead, restore, d, t)
      <4>1. poll[p].now0 + 0 = poll[p].now0
        BY <3>1
      <4>2. row' = FailedRow(row, FALSE, TRUE, 0, poll[p].now0)
        BY <2>4, <4>1 DEF FailedRow
      <4> QED BY <3>1, <4>2
    <3>4. Sound(row', failures) /\ row'.status # "claimed" /\ row'.lease = NoTime
      <4>1. Sound(FailedRow(row, dead, restore, d, t), failures)
        BY <1>1, <3>2, <3>3, GivenBackSound
      <4>2. /\ FailedRow(row, dead, restore, d, t).status \in {"dead_letter", "pending"}
            /\ FailedRow(row, dead, restore, d, t).lease = NoTime
        BY <1>1, <3>2, GivenBackSound
      <4> QED BY <3>3, <4>1, <4>2
    <3>5. LeaseColumn'
      BY <1>5, <2>1, <3>4 DEF LeaseColumn
    <3> QED BY <1>1, <1>2, <1>3, <1>4, <1>5, <2>1, <2>2, <2>4, <3>4, <3>5, StepKeeps
  <2> QED BY <1>7, <2>3, <2>4 DEF PollRelease
<1>8. CASE DeleteExpired
  <2>1. UNCHANGED <<now, poll>>
    BY <1>8 DEF DeleteExpired
  <2>2. CASE UNCHANGED <<row, tuple, failures, promised, backoff>>
    <3>1. LeaseColumn'
      BY <2>1, <2>2 DEF IInv, LeaseColumn
    <3> QED BY <1>1, <1>2, <1>3, <1>4, <2>1, <2>2, <3>1, StepKeeps
  <2>3. CASE /\ row' = AbsentRow /\ tuple' = 0 /\ failures' = 0
             /\ promised' = NoTime /\ backoff' = NoTime
    <3>1. Sound(row', failures') /\ row'.lease = NoTime /\ row'.status = "absent"
      BY <2>3, AbsentSound DEF AbsentRow
    <3>2. LeaseColumn'
      BY <1>5, <2>1, <3>1 DEF LeaseColumn
    <3> QED BY <1>2, <1>3, <1>4, <1>5, <2>1, <2>3, <3>1, <3>2, StepKeeps
  <2> QED BY <1>8, <2>2, <2>3 DEF DeleteExpired
<1>9. CASE Tick
  <2>1. UNCHANGED <<row, tuple, poll, promised, backoff, failures>>
    BY <1>9 DEF Tick, history
  <2>2. LeaseColumn'
    BY <1>2, <1>3, <1>5, <2>1 DEF IInv, LeaseColumn
  <2> QED BY <1>1, <1>2, <1>3, <1>4, <2>1, <2>2, StepKeeps
<1> QED BY <1>6, <1>7, <1>8, <1>9

LEMMA InitIInv == Init => IInv
<1> SUFFICES ASSUME Init PROVE IInv
  OBVIOUS
<1>1. Sound(row, failures) /\ row.lease = NoTime /\ row.status = "absent"
  BY AbsentSound DEF Init, AbsentRow
<1>2. AttemptsCountFailures /\ Absence
  BY <1>1 DEF Sound, AttemptsCountFailures, Absence
<1>3. LeaseColumn
  BY <1>1 DEF Init, LeaseColumn, NoTime
<1>4. StaleReads /\ OwnTokens
  BY DEF Init, StaleReads, OwnTokens
<1>5. TypeOK
  BY <1>1 DEF Init, TypeOK, Sound, Time, NoTime
<1> QED BY <1>2, <1>3, <1>4, <1>5 DEF IInv

LEMMA NextIInv == IInv /\ [Next]_vars => IInv'
<1> SUFFICES ASSUME IInv, [Next]_vars PROVE IInv'
  OBVIOUS
<1>1. CASE UNCHANGED vars
  BY <1>1 DEF vars, history, IInv, TypeOK, AttemptsCountFailures, Absence, LeaseColumn,
              StaleReads, OwnTokens
<1>2. CASE \E c \in Callers \cap running :
             \/ \E in \in Inputs : Claim(c, in)
             \/ Select(c) \/ Repair(c) \/ Retry(c) \/ Reselect(c)
  BY <1>2, ClaimStep, SelectStep, RepairStep, RetryStep, ReselectStep
<1>3. CASE \E token \in granted :
             \/ Renew(token) \/ Complete(token)
             \/ \E dead, restore \in BOOLEAN, delay \in RetryDelays :
                  Fail(token, dead, restore, delay)
  BY <1>3, FencedStep
<1>4. CASE \/ \E p \in Pollers \cap running : PollScan(p) \/ PollRelease(p)
           \/ DeleteExpired \/ Tick
  BY <1>4, SweepStep
<1> QED BY <1>1, <1>2, <1>3, <1>4 DEF Next

\* IInv is an invariant of the inbox.
THEOREM Invariance == Spec => []IInv
BY InitIInv, NextIInv, PTL DEF Spec

\* Every variable keeps its type.
THEOREM InboxTypes == Spec => []TypeOK
<1>1. IInv => TypeOK
  BY DEF IInv
<1> QED BY <1>1, Invariance, PTL

\* Attempts are the failures recorded, plus one for a claim that is out or done,
\* under every interleaving of the statements of any number of callers and pollers.
THEOREM BudgetIsExact == Spec => []AttemptsCountFailures
<1>1. IInv => AttemptsCountFailures
  BY DEF IInv
<1> QED BY <1>1, Invariance, PTL

-----------------------------------------------------------------------------
(* Where nobody polls, the inbox implements the lease contract of          *)
(* LeaseTable.                                                             *)

LEMMA ContractView ==
  /\ holder[Key] = row.token
  /\ phase[Key] = IF row.status \in Terminal THEN "done"
                  ELSE IF row.status = "claimed" THEN "held" ELSE "free"
  /\ live[Key] \in BOOLEAN
  /\ live[Key] <=> row.status = "claimed" /\ promised > now
BY DEF holder, phase, live

LEMMA ContractViewNext ==
  /\ holder'[Key] = row'.token
  /\ phase'[Key] = IF row'.status \in Terminal THEN "done"
                   ELSE IF row'.status = "claimed" THEN "held" ELSE "free"
  /\ live'[Key] \in BOOLEAN
  /\ live'[Key] <=> row'.status = "claimed" /\ promised' > now'
BY DEF holder, phase, live

\* A step that leaves the row to its holder lapses at most by the clock.
LEMMA UntouchedLapses ==
  ASSUME IInv, UNCHANGED <<row, promised, granted>>, now' \in {now, now + 1}
  PROVE  Contract!Next
<1>1. /\ phase'[Key] = phase[Key] /\ holder'[Key] = holder[Key]
      /\ live[Key] => phase[Key] = "held"
  BY ContractView, ContractViewNext DEF Terminal
<1>2. live'[Key] => live[Key]
  <2>1. now \in Nat /\ promised \in Int /\ promised' = promised
    BY DEF IInv, TypeOK, Time, NoTime
  <2> QED BY <2>1, ContractView, ContractViewNext
<1>3. live[Key] \in BOOLEAN /\ live'[Key] \in BOOLEAN
  BY ContractView, ContractViewNext
<1>4. Contract!Lapse(Key)
  <2>1. CASE live[Key] /\ ~live'[Key]
    <3>1. live'[Key] = FALSE
      BY <1>3, <2>1
    <3> QED BY <1>1, <2>1, <3>1 DEF Contract!Lapse, Contract!Cell
  <2>2. CASE ~live[Key] \/ live'[Key]
    <3>1. live'[Key] = live[Key]
      BY <1>2, <1>3, <2>2
    <3> QED BY <1>1, <3>1 DEF Contract!Lapse, Contract!Cell
  <2> QED BY <2>1, <2>2
<1>5. used \subseteq used'
  BY DEF used
<1> QED BY <1>4, <1>5 DEF Contract!Next

\* A statement that changes neither the token nor the status, and promises
\* nothing, is none the contract sees.
LEMMA Unseen ==
  ASSUME row'.status = row.status, row'.token = row.token,
         UNCHANGED <<promised, granted, now, call>>
  PROVE  UNCHANGED Contract!vars
BY DEF Contract!vars, phase, holder, live, used

\* A call of the key's claimant or holder.
LEMMA CallStep ==
  ASSUME Contract!Acquire(Key) \/ Contract!Rotate(Key) \/ Contract!Finish(Key)
           \/ Contract!GiveBack(Key),
         granted \subseteq granted'
  PROVE  Contract!Next
BY DEF Contract!Next, used

\* The write of a claim, whichever of its statements does it: the row is not done,
\* nobody's promised lease runs, and the token is fresh.
LEMMA WriteAcquires ==
  ASSUME NEW in, NEW t, ClaimStatement(in, t), in.token \notin granted,
         row'.status = "claimed", row'.token = in.token,
         row.status \notin Terminal, ~(row.status = "claimed" /\ promised > now)
  PROVE  Contract!Next
<1>1. call'.op = "claim" /\ call'.key = Key /\ granted' = granted \cup {in.token}
  BY DEF ClaimStatement, Called
<1>2. Contract!By("claim", Key)
  BY <1>1 DEF Contract!By
<1>3. phase[Key] # "done" /\ ~live[Key]
  BY ContractView
<1>4. in.token \in used' \ used
  BY <1>1 DEF used
<1>5. phase'[Key] = "held" /\ holder'[Key] = in.token /\ live'[Key] \in BOOLEAN
  BY ContractViewNext DEF Terminal
<1>6. Contract!Acquire(Key)
  BY <1>2, <1>3, <1>4, <1>5 DEF Contract!Acquire, Contract!Cell
<1> QED BY <1>1, <1>6, CallStep

LEMMA ClaimImplements ==
  ASSUME IInv, NEW c \in Callers, NEW in \in Inputs, Claim(c, in)
  PROVE  [Contract!Next]_(Contract!vars)
<1>1. in \in ClaimInput /\ in.token = issued + 1 /\ in.leaseMs = LeaseMs
  BY InputTypes
<1>2. issued' = issued + 1 /\ UNCHANGED <<now, poll, running>> /\ now \in Nat
  BY <1>1 DEF Claim, IInv, TypeOK
<1>3. CASE Writes(in, now) /\ ClaimStatement(in, now) /\ UNCHANGED claim
  <2>1. /\ granted' = granted \cup {issued + 1} /\ in.token \notin granted
    BY <1>1, <1>3 DEF ClaimStatement, IInv, TypeOK
  <2>2. /\ StaleReads' /\ OwnTokens' /\ issued' \in Nat /\ granted' \subseteq 1..issued'
    BY <1>2, <1>3, <2>1, ClaimsStay
  <2>3. claim' \in [Callers -> {Idle} \cup InClaim]
    BY <1>3 DEF IInv, TypeOK
  <2>4. /\ row'.status = "claimed" /\ row'.token = in.token
        /\ row.status \notin Terminal /\ ~(row.status = "claimed" /\ promised > now)
    BY <1>1, <1>2, <1>3, <2>2, <2>3, ClaimStatementKeeps
  <2> QED BY <1>3, <2>1, <2>4, WriteAcquires
<1>4. CASE UNCHANGED <<row, tuple, history, call>>
  BY <1>2, <1>4, Unseen DEF history
<1> QED BY <1>3, <1>4 DEF Claim

LEMMA RetryImplements ==
  ASSUME IInv, NEW c \in Callers, Retry(c)
  PROVE  [Contract!Next]_(Contract!vars)
<1>1. claim[c].pc = "retry" /\ UNCHANGED <<now, issued, poll, running>>
  BY DEF Retry
<1>2. claim[c] # Idle
  BY <1>1 DEF Idle
<1>3. CASE /\ Writes(claim[c].in, claim[c].now0)
           /\ ClaimStatement(claim[c].in, claim[c].now0)
           /\ claim' = [claim EXCEPT ![c] = Idle]
  <2>1. granted' = granted \cup {claim[c].in.token}
    BY <1>3 DEF ClaimStatement
  <2>2. /\ StaleReads' /\ OwnTokens' /\ issued' \in Nat
        /\ granted' \subseteq 1..issued' /\ claim' \in [Callers -> {Idle} \cup InClaim]
    BY <1>1, <1>2, <1>3, <2>1, ClaimEnds
  <2>3. /\ row'.status = "claimed" /\ row'.token = claim[c].in.token
        /\ row.status \notin Terminal /\ ~(row.status = "claimed" /\ promised > now)
    BY <1>1, <1>2, <1>3, <2>2, InCallTypes, ClaimStatementKeeps
  <2> QED BY <1>2, <1>3, <2>3, InCallTypes, WriteAcquires
<1>4. CASE UNCHANGED <<row, tuple, history, call>>
  BY <1>1, <1>4, Unseen DEF history
<1> QED BY <1>3, <1>4 DEF Retry

\* renew, complete and fail are calls of the holder of the row's token, and the
\* first two of one whose promised lease runs.
LEMMA FencedImplements ==
  ASSUME IInv, NEW token \in granted,
         \/ Renew(token) \/ Complete(token)
         \/ \E dead, restore \in BOOLEAN, delay \in RetryDelays :
              Fail(token, dead, restore, delay)
  PROVE  Contract!Next
<1>1. row \in Row /\ now \in Nat /\ issued \in Nat /\ promised \in Int /\ row.lease \in Int
      /\ granted \subseteq 1..issued
  BY DEF IInv, TypeOK, Row, Time, NoTime
<1>2. row.status = "claimed" /\ row.token = token
  BY DEF Renew, Complete, Fail, LeaseMutationWhere
<1>3. phase[Key] = "held" /\ holder[Key] = token
  BY <1>2, ContractView DEF Terminal
<1>4. Renew(token) \/ Complete(token) => live[Key]
  <2>1. Renew(token) \/ Complete(token) => row.lease > now
    BY DEF Renew, Complete, LeaseMutationWhere
  <2>2. row.lease > now => promised > now
    BY <1>1, <1>2 DEF IInv, LeaseColumn
  <2> QED BY <1>2, <2>1, <2>2, ContractView
<1>5. CASE Renew(token)
  <2>1. /\ row'.status = "claimed" /\ row'.token = issued + 1
        /\ granted' = granted \cup {issued + 1}
    BY <1>1, <1>2, <1>5 DEF Renew, RenewedRow, Row
  <2>2. issued + 1 \in used' \ used
    BY <1>1, <2>1 DEF used
  <2>3. phase'[Key] = "held" /\ holder'[Key] = issued + 1 /\ live'[Key] \in BOOLEAN
    BY <2>1, ContractViewNext DEF Terminal
  <2>4. Contract!By("renew", Key) /\ call'.token = token
    BY <1>5 DEF Renew, Called, Contract!By
  <2>5. Contract!Rotate(Key)
    BY <1>3, <1>4, <1>5, <2>2, <2>3, <2>4 DEF Contract!Rotate, Contract!Cell
  <2> QED BY <2>1, <2>5, CallStep
<1>6. CASE Complete(token)
  <2>1. row'.status = "completed" /\ row'.token = NoToken /\ granted' = granted
    BY <1>1, <1>6 DEF Complete, CompletedRow, Row, history
  <2>2. phase'[Key] = "done" /\ holder'[Key] = 0 /\ ~live'[Key] /\ live'[Key] \in BOOLEAN
    BY <2>1, ContractViewNext DEF Terminal, NoToken
  <2>3. live'[Key] = FALSE
    BY <2>2
  <2>4. Contract!By("complete", Key) /\ call'.token = token
    BY <1>6 DEF Complete, Called, Contract!By
  <2>5. Contract!Finish(Key)
    BY <1>3, <1>4, <1>6, <2>2, <2>3, <2>4 DEF Contract!Finish, Contract!Cell
  <2> QED BY <2>1, <2>5, CallStep
<1>7. ASSUME NEW dead \in BOOLEAN, NEW restore \in BOOLEAN, NEW delay \in RetryDelays,
             Fail(token, dead, restore, delay)
      PROVE  Contract!Next
  <2>1. /\ row'.status \in {"dead_letter", "pending"} /\ row'.token = NoToken
        /\ granted' = granted
    <3>1. Sound(row, failures) /\ failures \in Nat /\ delay \in Nat
      BY RowIsSound, DelayAssumption
    <3>2. row' = FailedRow(row, dead, restore, delay, now) /\ granted' = granted
      BY <1>7 DEF Fail
    <3> QED BY <1>1, <1>2, <3>1, <3>2, GivenBackSound
  <2>2. /\ phase'[Key] \in {"free", "done"} /\ holder'[Key] = 0
        /\ ~live'[Key] /\ live'[Key] \in BOOLEAN
    BY <2>1, ContractViewNext DEF Terminal, NoToken
  <2>3. live'[Key] = FALSE
    BY <2>2
  <2>4. Contract!By("fail", Key) /\ call'.token = token
    BY <1>7 DEF Fail, Called, Contract!By
  <2>5. Contract!GiveBack(Key)
    BY <1>3, <2>2, <2>3, <2>4 DEF Contract!GiveBack, Contract!Cell
  <2> QED BY <2>1, <2>5, CallStep
<1> QED BY <1>5, <1>6, <1>7

\* A sweep forgets a row that is done, or finds nothing.
LEMMA DeleteImplements == ASSUME IInv, DeleteExpired PROVE Contract!Next
<1>1. UNCHANGED <<now, granted>>
  BY DEF DeleteExpired
<1>2. CASE UNCHANGED <<row, tuple, failures, promised, backoff>>
  BY <1>1, <1>2, UntouchedLapses
<1>3. CASE row.status \in {"completed", "dead_letter"} /\ row' = AbsentRow
  <2>1. row'.status = "absent" /\ row'.token = NoToken
    BY <1>3 DEF AbsentRow
  <2>2. phase'[Key] = "free" /\ holder'[Key] = 0 /\ ~live'[Key] /\ live'[Key] \in BOOLEAN
    BY <2>1, ContractViewNext DEF Terminal, NoToken
  <2>3. live'[Key] = FALSE /\ ~live[Key]
    BY <1>3, <2>2, ContractView
  <2>4. Contract!Lapse(Key)
    BY <2>2, <2>3 DEF Contract!Lapse, Contract!Cell
  <2> QED BY <1>1, <2>4 DEF Contract!Next, used
<1> QED BY <1>2, <1>3 DEF DeleteExpired

LEMMA StepImplements ==
  IInv /\ [Next]_vars => [Pollers \cap running = {} => Contract!Next]_(Contract!vars)
<1> SUFFICES ASSUME IInv, [Next]_vars, Pollers \cap running = {}
             PROVE  [Contract!Next]_(Contract!vars)
  OBVIOUS
<1>1. CASE UNCHANGED vars
  BY <1>1 DEF vars, history, Contract!vars, phase, holder, live, used
<1>2. ASSUME NEW c \in Callers, NEW in \in Inputs, Claim(c, in)
      PROVE  [Contract!Next]_(Contract!vars)
  BY <1>2, ClaimImplements
<1>3. ASSUME NEW c \in Callers, Select(c) \/ Reselect(c) PROVE UNCHANGED Contract!vars
  BY <1>3, Unseen DEF Select, Reselect, history
<1>4. ASSUME NEW c \in Callers, Repair(c) PROVE UNCHANGED Contract!vars
  <2>1. row'.status = row.status /\ row'.token = row.token
    BY <1>4, RepairStep
  <2> QED BY <1>4, <2>1, Unseen DEF Repair, history
<1>5. ASSUME NEW c \in Callers, Retry(c) PROVE [Contract!Next]_(Contract!vars)
  BY <1>5, RetryImplements
<1>6. ASSUME NEW token \in granted,
             \/ Renew(token) \/ Complete(token)
             \/ \E dead, restore \in BOOLEAN, delay \in RetryDelays :
                  Fail(token, dead, restore, delay)
      PROVE  Contract!Next
  BY <1>6, FencedImplements
<1>7. CASE DeleteExpired
  BY <1>7, DeleteImplements
<1>8. CASE Tick
  BY <1>8, UntouchedLapses DEF Tick, history
<1> QED BY <1>1, <1>2, <1>3, <1>4, <1>5, <1>6, <1>7, <1>8 DEF Next

LEMMA InitImplements == Init => Contract!Init
<1> SUFFICES ASSUME Init PROVE Contract!Init
  OBVIOUS
<1>1. phase = [k \in {Key} |-> "free"]
  BY DEF Init, phase, AbsentRow, Terminal
<1>2. holder = [k \in {Key} |-> 0]
  BY DEF Init, holder, AbsentRow, NoToken
<1>3. live = [k \in {Key} |-> FALSE]
  BY DEF Init, live, AbsentRow
<1>4. used = {} /\ call.op = "none"
  BY DEF Init, used
<1> QED BY <1>1, <1>2, <1>3, <1>4 DEF Contract!Init

\* Where nobody polls, the statements of any number of concurrent claims,
\* renewals, completions, failures and sweeps implement the lease contract.
THEOREM Implementation == Spec => ImplementsContract
<1>1. Spec => []IInv
  BY Invariance
<1> QED BY <1>1, InitImplements, StepImplements, PTL DEF Spec, ImplementsContract
=============================================================================
