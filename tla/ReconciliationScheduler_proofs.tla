------------------- MODULE ReconciliationScheduler_proofs -------------------
(***************************************************************************)
(* The reconciliation scheduler, for any number of polls, instances and    *)
(* faults, any budget, cap, lease and backoff.                             *)
(*                                                                         *)
(* The argument is about tokens.  A token is fresh when a claim issues it, *)
(* so no two polls hold the same one (OwnTokens), and as long as nothing   *)
(* failed a poll at work holds the job's, under a lease that runs (Known). *)
(* The attempts of the row and of a poll are measured against the recorded *)
(* failures.  A step writes one poll and perhaps the row: for the other    *)
(* polls it is enough that the row keeps what they rely on                 *)
(* (BystanderKeeps).  On top of this, the hang counters are measured       *)
(* against the faults (Paid), with the polls that are about to count.      *)
(***************************************************************************)
EXTENDS ReconciliationScheduler, FiniteSetTheorems, WellFoundedInduction, TLAPS

\* A poll that works on the job.
Busy == Counted \cup {"parking"}

\* What a poll knows of its own record.
RecordOK(x) ==
  /\ x.pc \in {"idle", "listed"} => x.attempts = 0
  /\ x.pc = "overrun" => x.hangs >= MaxAttempts /\ x.answer = "none"
  /\ x.pc \in {"park", "parking"} =>
       /\ x.answer # "retry_later"
       /\ x.hangs + 1 >= MaxAttempts \/ x.attempts >= MaxAttempts

Owns(x, r) == r.status = "claimed" /\ r.token = x.token

\* What it may rely on of the row r, after f faults, o openings and n recorded
\* failures of this one.
Known(x, r, f, o, n) ==
  /\ o = 0 => x.pc = "idle"
  /\ o <= 1 => x.attempts <= n + 1
  /\ f = 0 /\ x.pc \in Busy => Owns(x, r) /\ r.lease > 0

\* Nothing is stored before the first schedule call.
Unopened == openings = 0 => job.status = "absent"

AllRecords == \A p \in Polls : RecordOK(wk[p])
AllKnown   == \A p \in Polls : Known(wk[p], job, faults, openings, recorded)

\* No two polls hold the same token.
OwnTokens ==
  \A p, q \in Polls : p # q /\ wk[p].token # NoToken => wk[p].token # wk[q].token

IInv == /\ TypeOK /\ Unopened /\ AttemptsAreRecorded /\ LiveCountsClaims
        /\ AllRecords /\ AllKnown /\ OwnTokens

-----------------------------------------------------------------------------
(* Fresh tokens.                                                           *)

\* There is always a token that neither a poll nor the row holds.
LEMMA TokenToSpare == Tokens \ Held # {}
<1> SUFFICES ASSUME Tokens \subseteq Held PROVE FALSE
  OBVIOUS
<1> DEFINE f == [p \in Polls |-> wk[p].token]
           F == {f[p] : p \in Polls}
           n == Cardinality(Polls) + 2
<1>1. IsFiniteSet(F) /\ Cardinality(F) <= Cardinality(Polls)
  <2>1. f \in Surjection(Polls, F)
    BY DEF Surjection
  <2> HIDE DEF f
  <2> QED BY <2>1, FS_Surjection, PollsAssumption
<1>2. Held = F \cup {job.token}
  BY DEF Held
<1> HIDE DEF F, f
<1>3. /\ IsFiniteSet(Held)
      /\ Cardinality(Held) = IF job.token \in F THEN Cardinality(F) ELSE Cardinality(F) + 1
  BY <1>1, <1>2, FS_AddElement
<1>4. /\ Cardinality(Held) \in Nat /\ Cardinality(F) \in Nat /\ Cardinality(Polls) \in Nat
  BY <1>1, <1>3, FS_CardinalityType, PollsAssumption
<1>5. n \in Nat /\ Tokens = 1..n /\ Cardinality(Held) < n
  BY <1>1, <1>3, <1>4 DEF Tokens
<1> HIDE DEF n
<1>6. Cardinality(Tokens) = n
  BY <1>5, FS_Interval
<1>7. Cardinality(Tokens) <= Cardinality(Held)
  BY <1>3, FS_Subset
<1> QED BY <1>4, <1>5, <1>6, <1>7

\* The token a claim or a renewal issues is held by nobody.
LEMMA FreshIsFree ==
  /\ Fresh \in Tokens /\ Fresh # NoToken /\ Fresh \in Nat
  /\ Fresh # job.token
  /\ \A p \in Polls : Fresh # wk[p].token
<1> DEFINE S == Tokens \ Held
<1>1. S \subseteq Nat /\ S # {}
  BY TokenToSpare DEF Tokens
<1> HIDE DEF S
<1>2. \E t \in S : \A u \in S : t <= u
  <2>1. \E t \in S : \A u \in S : ~(<<u, t>> \in OpToRel(<, Nat))
    BY <1>1, NatLessThanWellFounded, WFMin
  <2>2. PICK t \in S : \A u \in S : ~(<<u, t>> \in OpToRel(<, Nat))
    BY <2>1
  <2>3. ASSUME NEW u \in S PROVE t <= u
    <3>1. t \in Nat /\ u \in Nat
      BY <1>1
    <3>2. ~(u < t)
      BY <2>2, <3>1 DEF OpToRel
    <3> QED BY <3>1, <3>2
  <2> QED BY <2>3
<1>3. Fresh \in S
  BY <1>2 DEF Fresh, S
<1>4. Fresh \in Tokens /\ Fresh \notin Held
  BY <1>3 DEF S
<1>5. job.token \in Held /\ \A p \in Polls : wk[p].token \in Held
  BY DEF Held
<1>6. Fresh # NoToken /\ Fresh \in Nat
  BY <1>4 DEF Tokens, NoToken
<1> QED BY <1>4, <1>5, <1>6

-----------------------------------------------------------------------------
(* The in-flight count.                                                    *)

\* How a step that leaves poll p with the record x moves the count of its instance.
LiveMove(p, x) ==
  \/ live' = live /\ (x.pc \in Counted <=> wk[p].pc \in Counted)
  \/ /\ live' = [live EXCEPT ![on[p]] = @ + 1]
     /\ wk[p].pc \notin Counted /\ x.pc \in Counted
  \/ Released(p) /\ wk[p].pc \in Counted /\ x.pc \notin Counted

\* The count follows the polls: the guard of addLive never hides a missing claim.
LEMMA LiveFollows ==
  ASSUME IInv, NEW p \in Polls, NEW x, wk' = [wk EXCEPT ![p] = x], on' = on,
         LiveMove(p, x)
  PROVE  live' \in [Instances -> Nat] /\ LiveCountsClaims'
<1> DEFINE C(i) == {q \in Polls : on[q] = i /\ wk[q].pc \in Counted}
           D(i) == {q \in Polls : on'[q] = i /\ wk'[q].pc \in Counted}
<1>1. /\ live \in [Instances -> Nat] /\ wk \in [Polls -> PollState]
      /\ \A i \in Instances : live[i] = Cardinality(C(i))
  BY DEF IInv, TypeOK, LiveCountsClaims
<1>2. on[p] \in Instances
  BY DeploymentAssumption DEF IInv, TypeOK
<1>3. /\ wk'[p] = x /\ \A q \in Polls \ {p} : wk'[q] = wk[q]
  BY <1>1
<1>4. ASSUME NEW i \in Instances
      PROVE  IsFiniteSet(C(i)) /\ Cardinality(C(i)) \in Nat
  <2>1. C(i) \subseteq Polls
    OBVIOUS
  <2> QED BY <2>1, PollsAssumption, FS_Subset, FS_CardinalityType
<1>5. live' \in [Instances -> Nat]
  BY <1>1, <1>2 DEF LiveMove, Released
<1>6. ASSUME NEW i \in Instances PROVE live'[i] = Cardinality(D(i))
  <2>1. CASE i # on[p]
    <3>1. D(i) = C(i)
      BY <1>3, <2>1
    <3>2. live'[i] = live[i]
      BY <1>1, <2>1 DEF LiveMove, Released
    <3> QED BY <1>1, <3>1, <3>2
  <2>2. CASE i = on[p] /\ live' = live /\ (x.pc \in Counted <=> wk[p].pc \in Counted)
    <3>1. D(i) = C(i)
      BY <1>3, <2>2
    <3> QED BY <1>1, <2>2, <3>1
  <2>3. CASE /\ i = on[p] /\ live' = [live EXCEPT ![on[p]] = @ + 1]
             /\ wk[p].pc \notin Counted /\ x.pc \in Counted
    <3>1. D(i) = C(i) \cup {p} /\ p \notin C(i)
      BY <1>3, <2>3
    <3> HIDE DEF C, D
    <3>2. Cardinality(D(i)) = Cardinality(C(i)) + 1
      BY <1>4, <3>1, FS_AddElement
    <3> QED BY <1>1, <2>3, <3>2
  <2>4. CASE i = on[p] /\ Released(p) /\ wk[p].pc \in Counted /\ x.pc \notin Counted
    <3>1. D(i) = C(i) \ {p} /\ p \in C(i)
      BY <1>3, <2>4
    <3> HIDE DEF C, D
    <3>2. /\ Cardinality(D(i)) = Cardinality(C(i)) - 1
          /\ IsFiniteSet(D(i))
      BY <1>4, <3>1, FS_RemoveElement
    <3>3. Cardinality(D(i)) \in Nat
      BY <3>2, FS_CardinalityType
    <3>4. live'[i] = IF live[i] > 0 THEN live[i] - 1 ELSE 0
      BY <1>1, <2>4 DEF Released
    <3> QED BY <1>1, <1>4, <3>2, <3>3, <3>4
  <2> QED BY <2>1, <2>2, <2>3, <2>4 DEF LiveMove
<1>7. LiveCountsClaims'
  BY <1>6 DEF LiveCountsClaims
<1> QED BY <1>5, <1>7

-----------------------------------------------------------------------------
(* A step of one poll.                                                     *)

\* What a write leaves when n failures are recorded.
JobMove(r, n) ==
  /\ r \in JobRow
  /\ r.status = "claimed" <=> r.token # NoToken
  /\ openings = 0 => r.status = "absent"
  /\ r.status = "scheduled" => r.attempts = n
  /\ r.status = "claimed" => r.attempts = n + 1

\* A poll's write does not take a live claim from another poll without a fault.
Undisturbed(x, r, f) ==
  \/ r.token = job.token /\ r.lease = job.lease
  \/ ~(job.status = "claimed" /\ job.lease > 0)
  \/ Owns(x, job)
  \/ f # 0

LEMMA JobStays == ASSUME IInv PROVE JobMove(job, recorded)
BY DEF IInv, TypeOK, Unopened, AttemptsAreRecorded, JobMove

\* An idle poll relies on nothing.
LEMMA IdleFits ==
  /\ IdlePoll \in PollState /\ RecordOK(IdlePoll) /\ IdlePoll.token = NoToken
  /\ IdlePoll.pc = "idle" /\ IdlePoll.pc \notin Counted
  /\ \A r, f, o : \A n \in Nat : Known(IdlePoll, r, f, o, n)
BY DEF IdlePoll, PollState, Counted, Busy, RecordOK, Known

\* The other polls still know what they knew.
LEMMA BystanderKeeps ==
  ASSUME IInv, NEW q \in Polls, NEW p \in Polls, q # p, NEW r, NEW f \in Nat,
         NEW n \in {recorded, recorded + 1},
         JobMove(r, n), faults <= f, Undisturbed(wk[p], r, f)
  PROVE  Known(wk[q], r, f, openings, n)
<1>1. /\ Known(wk[q], job, faults, openings, recorded) /\ faults \in Nat
      /\ recorded \in Nat /\ wk[q].attempts \in Nat
      /\ wk[q].token # NoToken => wk[q].token # wk[p].token
      /\ job.status = "claimed" <=> job.token # NoToken
  BY DEF IInv, TypeOK, AllKnown, OwnTokens, PollState
<1>2. openings <= 1 => wk[q].attempts <= n + 1
  BY <1>1 DEF Known
<1>3. f = 0 /\ wk[q].pc \in Busy => Owns(wk[q], r) /\ r.lease > 0
  <2> SUFFICES ASSUME f = 0, wk[q].pc \in Busy PROVE Owns(wk[q], r) /\ r.lease > 0
    OBVIOUS
  <2>1. Owns(wk[q], job) /\ job.lease > 0
    BY <1>1 DEF Known
  <2>2. ~Owns(wk[p], job)
    BY <1>1, <2>1 DEF Owns
  <2>3. r.token = job.token /\ r.lease = job.lease
    BY <2>1, <2>2 DEF Undisturbed, Owns
  <2> QED BY <1>1, <2>1, <2>3 DEF Owns, JobMove
<1> QED BY <1>1, <1>2, <1>3 DEF Known

\* A step of poll p keeps the invariant if its record x and the row it leaves do.
LEMMA PollStep ==
  ASSUME IInv, NEW p \in Polls, NEW x \in PollState, Goto(p, x),
         UNCHANGED <<on, store, openings>>,
         laters' \in 0..MaxLaters, faults' \in 0..MaxFaults, faults <= faults',
         recorded' \in {recorded, recorded + 1},
         index' \in Time, hang' \in [Instances -> Nat], LiveMove(p, x),
         JobMove(job', recorded'), Undisturbed(wk[p], job', faults'),
         RecordOK(x), Known(x, job', faults', openings, recorded'),
         x.token \in {NoToken, Fresh, wk[p].token}
  PROVE  IInv'
<1>1. /\ wk' = [wk EXCEPT ![p] = x] /\ wk \in [Polls -> PollState]
      /\ wk'[p] = x /\ \A q \in Polls \ {p} : wk'[q] = wk[q]
      /\ recorded \in Nat /\ recorded' \in Nat /\ faults' \in Nat
  BY SchedulerNumbers DEF IInv, TypeOK, Goto
<1>2. live' \in [Instances -> Nat] /\ LiveCountsClaims'
  BY <1>1, LiveFollows
<1>3. TypeOK'
  <2>1. wk' \in [Polls -> PollState]
    BY <1>1
  <2>2. PollState' = PollState
    BY DEF PollState, Tokens
  <2>3. /\ job' \in JobRow /\ (job'.status = "claimed" <=> job'.token # NoToken)
    BY DEF JobMove
  <2>4. [store |-> store', on |-> on'] \in Deployments /\ openings' \in 0..MaxOpenings
    BY DEF IInv, TypeOK
  <2> QED BY <1>1, <1>2, <2>1, <2>2, <2>3, <2>4 DEF TypeOK
<1>4. Unopened' /\ AttemptsAreRecorded'
  BY DEF JobMove, Unopened, AttemptsAreRecorded
<1>5. AllRecords'
  BY <1>1 DEF IInv, AllRecords, RecordOK
<1>6. \A q \in Polls : Known(wk'[q], job', faults', openings, recorded')
  BY <1>1, BystanderKeeps
<1>7. AllKnown'
  BY <1>6 DEF AllKnown, Known, Owns
<1>8. OwnTokens'
  BY <1>1, FreshIsFree DEF IInv, OwnTokens
<1> QED BY <1>2, <1>3, <1>4, <1>5, <1>7, <1>8 DEF IInv

-----------------------------------------------------------------------------
(* What the store's calls do to the job.                                   *)

LEMMA Stored ==
  ASSUME NEW r \in JobRow, Store(r)
  PROVE  /\ job' \in JobRow /\ index' \in Time
         /\ job'.status = r.status /\ job'.token = r.token /\ job'.lease = r.lease
         /\ job'.attempts = r.attempts /\ job'.dueAt = r.dueAt
<1>1. job' = [r EXCEPT !.generation = 0]
  BY DEF Store
<1>2. /\ job'.status = r.status /\ job'.token = r.token /\ job'.lease = r.lease
      /\ job'.attempts = r.attempts /\ job'.dueAt = r.dueAt /\ job' \in JobRow
  BY <1>1 DEF JobRow
<1>3. DueScore(r) \in Time /\ NoTime \in Time
  BY DEF DueScore, JobRow, Time, NoTime
<1> QED BY <1>2, <1>3 DEF Store

\* A soft-release gives the attempt of the expired claim back.
LEMMA ReleaseMove ==
  ASSUME IInv, Store(ReleaseExpiredJob(job, 0))
  PROVE  /\ JobMove(job', recorded) /\ index' \in Time
         /\ job'.status = ReleaseExpiredJob(job, 0).status
         /\ \A x, f : Undisturbed(x, job', f)
<1> DEFINE r == ReleaseExpiredJob(job, 0)
<1>1. job \in JobRow /\ JobMove(job, recorded) /\ recorded \in Nat
  BY JobStays DEF IInv, TypeOK
<1>2. CASE r = job
  BY <1>1, <1>2, Stored DEF JobMove, Undisturbed
<1>3. CASE r # job
  <2>1. /\ job.status = "claimed" /\ job.lease <= 0 /\ job.lease # NoTime
        /\ r = [job EXCEPT !.status = "scheduled", !.token = NoToken, !.lease = NoTime,
                           !.attempts = IF @ > 0 THEN @ - 1 ELSE 0]
    BY <1>3 DEF ReleaseExpiredJob
  <2>2. (IF job.attempts > 0 THEN job.attempts - 1 ELSE 0) = recorded
    BY <1>1, <2>1 DEF JobMove
  <2>3. r = [job EXCEPT !.status = "scheduled", !.token = NoToken, !.lease = NoTime,
                        !.attempts = recorded]
    BY <2>1, <2>2
  <2> HIDE DEF r
  <2>4. /\ r.status = "scheduled" /\ r.token = NoToken /\ r.attempts = recorded
        /\ r \in JobRow
    BY <1>1, <2>3 DEF JobRow, JobStatuses, Time, NoTime, NoToken
  <2>5. ~(job.lease > 0)
    BY <1>1, <2>1 DEF JobRow, Time, NoTime
  <2>6. /\ job' \in JobRow /\ index' \in Time /\ job'.status = "scheduled"
        /\ job'.token = NoToken /\ job'.attempts = recorded
    BY <2>4, Stored DEF r
  <2>7. openings # 0
    BY <1>1, <2>1 DEF JobMove
  <2> QED BY <2>4, <2>5, <2>6, <2>7 DEF JobMove, Undisturbed, r
<1> QED BY <1>2, <1>3

\* A claim is acquired on an open job that is not under a live lease.
LEMMA ClaimMove ==
  ASSUME IInv, DecideReconciliationClaim(job, 0) = "acquired",
         Store(ClaimedJob(job, Fresh, LeaseMs, 0))
  PROVE  /\ JobMove(job', recorded) /\ index' \in Time /\ openings # 0
         /\ job'.status = "claimed" /\ job'.token = Fresh /\ job'.lease > 0
         /\ ClaimedJob(job, Fresh, LeaseMs, 0).attempts = recorded + 1
         /\ ClaimedJob(job, Fresh, LeaseMs, 0).token = Fresh
         /\ \A x, f : Undisturbed(x, job', f)
<1> DEFINE r == ClaimedJob(job, Fresh, LeaseMs, 0)
<1>1. job \in JobRow /\ JobMove(job, recorded) /\ recorded \in Nat
  BY JobStays DEF IInv, TypeOK
<1>2. /\ job.status \in {"scheduled", "claimed"}
      /\ ~(job.status = "claimed" /\ job.lease > 0)
  BY <1>1 DEF DecideReconciliationClaim, IsLeaseActive, JobRow, JobStatuses, JobClosed,
              NoTime
<1>3. openings # 0
  BY <1>1, <1>2 DEF JobMove
<1>4. Fresh \in Nat /\ Fresh # NoToken
  BY FreshIsFree
<1>5. /\ r.status = "claimed" /\ r.token = Fresh /\ r.lease = LeaseMs
      /\ r.attempts = recorded + 1
  BY <1>1, <1>2, SchedulerNumbers DEF ClaimedJob, JobMove
<1>6. r \in JobRow
  BY <1>1, <1>4, SchedulerNumbers DEF ClaimedJob, JobRow, JobStatuses, Time
<1> HIDE DEF r
<1>7. /\ job' \in JobRow /\ index' \in Time /\ job'.status = "claimed"
      /\ job'.token = Fresh /\ job'.lease = LeaseMs /\ job'.attempts = recorded + 1
  BY <1>5, <1>6, Stored DEF r
<1>8. JobMove(job', recorded)
  BY <1>3, <1>4, <1>7 DEF JobMove
<1> QED BY <1>2, <1>3, <1>5, <1>7, <1>8, SchedulerNumbers DEF Undisturbed, r

\* What a poll whose token is accepted may rely on.
LEMMA FencedOwner ==
  ASSUME IInv, NEW p \in Polls, NEW a \in BOOLEAN,
         DecideLeaseMutation(job, "claimed", wk[p].token, a, 0) = "ok"
  PROVE  /\ Owns(wk[p], job) /\ job.attempts = recorded + 1 /\ openings # 0
         /\ \A r, f : Undisturbed(wk[p], r, f)
BY DEF DecideLeaseMutation, Owns, Undisturbed, IInv, AttemptsAreRecorded, Unopened

LEMMA RenewMove ==
  ASSUME IInv, job.status = "claimed", Store(RenewedJob(job, Fresh, LeaseMs, 0))
  PROVE  /\ JobMove(job', recorded) /\ index' \in Time
         /\ job'.status = "claimed" /\ job'.token = Fresh /\ job'.lease > 0
<1> DEFINE r == RenewedJob(job, Fresh, LeaseMs, 0)
<1>1. job \in JobRow /\ JobMove(job, recorded)
  BY JobStays DEF IInv, TypeOK
<1>2. Fresh \in Nat /\ Fresh # NoToken
  BY FreshIsFree
<1>3. /\ r.status = "claimed" /\ r.token = Fresh /\ r.lease = LeaseMs
      /\ r.attempts = job.attempts /\ r \in JobRow
  <2>1. r = [job EXCEPT !.token = Fresh, !.lease = LeaseMs, !.generation = @ + 1]
    <3>1. 0 + LeaseMs = LeaseMs
      BY SchedulerNumbers
    <3> QED BY <3>1 DEF RenewedJob
  <2>2. LeaseMs \in Time
    BY SchedulerNumbers DEF Time
  <2>3. job.generation + 1 \in Nat
    BY <1>1 DEF JobRow
  <2> HIDE DEF r
  <2> QED BY <1>1, <1>2, <2>1, <2>2, <2>3 DEF JobRow
<1> HIDE DEF r
<1>4. /\ job' \in JobRow /\ index' \in Time /\ job'.status = "claimed"
      /\ job'.token = Fresh /\ job'.lease = LeaseMs /\ job'.attempts = job.attempts
  BY <1>3, Stored DEF r
<1> QED BY <1>1, <1>2, <1>4, SchedulerNumbers DEF JobMove

\* A closed job is measured against nothing.
LEMMA CloseMove ==
  ASSUME IInv, job.status = "claimed", NEW s \in {"completed", "manual_review"},
         Store(ClosedJob(job, s))
  PROVE  /\ \A n : JobMove(job', n)
         /\ index' \in Time /\ job'.status = s
<1> DEFINE r == ClosedJob(job, s)
<1>1. job \in JobRow /\ JobMove(job, recorded)
  BY JobStays DEF IInv, TypeOK
<1>2. r.status = s /\ r.token = NoToken /\ r \in JobRow
  BY <1>1 DEF ClosedJob, JobRow, JobStatuses, Time, NoTime, NoToken
<1> HIDE DEF r
<1>3. job' \in JobRow /\ index' \in Time /\ job'.status = s /\ job'.token = NoToken
  BY <1>2, Stored DEF r
<1> QED BY <1>1, <1>3 DEF JobMove

\* A failure is recorded, and its attempt stays burnt.
LEMMA FailMove ==
  ASSUME IInv, job.status = "claimed", Store(FailedJob(job, RetryMs))
  PROVE  /\ JobMove(job', recorded + 1) /\ index' \in Time /\ job'.status = "scheduled"
<1> DEFINE r == FailedJob(job, RetryMs)
<1>1. job \in JobRow /\ JobMove(job, recorded)
  BY JobStays DEF IInv, TypeOK
<1>2. RetryMs \in Nat /\ RetryMs # NoTime
  BY SchedulerNumbers DEF NoTime
<1>3. /\ r.status = "scheduled" /\ r.token = NoToken /\ r.attempts = job.attempts
      /\ r \in JobRow
  BY <1>1, <1>2 DEF FailedJob, JobRow, JobStatuses, Time, NoTime, NoToken
<1> HIDE DEF r
<1>4. /\ job' \in JobRow /\ index' \in Time /\ job'.status = "scheduled"
      /\ job'.token = NoToken /\ job'.attempts = job.attempts
  BY <1>3, Stored DEF r
<1> QED BY <1>1, <1>4 DEF JobMove

-----------------------------------------------------------------------------
(* Steps that end a poll or go on with the row as it is.                   *)

\* A poll goes on without a fault and without an effect on the hang counts.
LEMMA GoOnStep ==
  ASSUME IInv, NEW p \in Polls, NEW x \in PollState, Goto(p, x),
         UNCHANGED <<on, store>>, Stays, UNCHANGED <<hang, recorded>>,
         index' \in Time, LiveMove(p, x),
         JobMove(job', recorded), Undisturbed(wk[p], job', faults),
         RecordOK(x), Known(x, job', faults, openings, recorded),
         x.token \in {NoToken, Fresh, wk[p].token}
  PROVE  IInv'
<1>1. /\ laters' \in 0..MaxLaters /\ faults' \in 0..MaxFaults /\ faults <= faults'
      /\ recorded' = recorded /\ faults' = faults /\ openings' = openings
      /\ hang' \in [Instances -> Nat] /\ recorded' \in {recorded, recorded + 1}
  BY SchedulerNumbers DEF IInv, TypeOK, Stays
<1>2. /\ JobMove(job', recorded') /\ Undisturbed(wk[p], job', faults')
      /\ Known(x, job', faults', openings, recorded')
  BY <1>1
<1>3. UNCHANGED <<on, store, openings>>
  BY <1>1
<1> QED BY <1>1, <1>2, <1>3, PollStep

\* The same, when only the poll's record moves, with its token and attempts.
LEMMA QuietStep ==
  ASSUME IInv, NEW p \in Polls, NEW x \in PollState, Goto(p, x),
         UNCHANGED <<on, store>>, Kept,
         openings' = openings, faults' = faults, laters' \in 0..MaxLaters,
         UNCHANGED recorded, hang' \in [Instances -> Nat], LiveMove(p, x),
         RecordOK(x), wk[p].pc # "idle", x.pc \in Busy => wk[p].pc \in Busy,
         x.token = wk[p].token, x.attempts = wk[p].attempts
  PROVE  IInv'
<1>1. Known(wk[p], job, faults, openings, recorded) /\ JobMove(job, recorded)
  BY JobStays DEF IInv, AllKnown
<1>2. /\ job' = job /\ index' \in Time /\ faults' \in 0..MaxFaults /\ faults <= faults'
      /\ recorded' \in {recorded, recorded + 1}
  BY SchedulerNumbers DEF IInv, TypeOK, Kept
<1>3. Known(x, job', faults', openings, recorded')
  BY <1>1, <1>2 DEF Known, Owns
<1>4. JobMove(job', recorded') /\ Undisturbed(wk[p], job', faults')
  BY <1>1, <1>2 DEF Undisturbed
<1>5. UNCHANGED <<on, store, openings>> /\ x.token \in {NoToken, Fresh, wk[p].token}
  OBVIOUS
<1> QED BY <1>2, <1>3, <1>4, <1>5, PollStep

\* A poll is over, with a row it left or found.
LEMMA EndStep ==
  ASSUME IInv, NEW p \in Polls, Goto(p, IdlePoll), UNCHANGED <<on, store>>,
         openings' = openings, laters' = laters, faults' \in 0..MaxFaults, faults <= faults',
         recorded' \in {recorded, recorded + 1},
         index' \in Time, hang' \in [Instances -> Nat], LiveMove(p, IdlePoll),
         JobMove(job', recorded'), Undisturbed(wk[p], job', faults')
  PROVE  IInv'
<1>1. laters' \in 0..MaxLaters /\ recorded' \in Nat
  BY DEF IInv, TypeOK
<1>2. Known(IdlePoll, job', faults', openings, recorded')
  BY <1>1, IdleFits
<1>3. UNCHANGED <<on, store, openings>> /\ IdlePoll.token \in {NoToken, Fresh, wk[p].token}
  BY IdleFits
<1> QED BY <1>1, <1>2, <1>3, IdleFits, PollStep

LEMMA Counts ==
  ASSUME IInv
  PROVE  /\ on \in [Polls -> Instances] /\ hang \in [Instances -> Nat]
         /\ index \in Time /\ recorded \in Nat /\ faults \in 0..MaxFaults
         /\ faults \in Nat /\ faults <= faults /\ wk \in [Polls -> PollState]
BY DeploymentAssumption, SchedulerNumbers DEF IInv, TypeOK

\* A settlement the store accepted, or one that only its reply was lost of.
LEMMA SettledStep ==
  ASSUME IInv, NEW p \in Polls, wk[p].pc \in Counted, UNCHANGED <<on, store>>,
         recorded' \in {recorded, recorded + 1}, NEW r, Settled(p, r), Stays,
         index' \in Time, JobMove(job', recorded'), Undisturbed(wk[p], job', faults)
  PROVE  IInv'
<1>1. Goto(p, IdlePoll) /\ Forgiven(p) /\ Released(p)
  BY DEF Settled
<1>2. hang' \in [Instances -> Nat] /\ LiveMove(p, IdlePoll)
  BY <1>1, Counts, IdleFits DEF Forgiven, LiveMove
<1>3. /\ openings' = openings /\ laters' = laters /\ faults' = faults
      /\ faults' \in 0..MaxFaults /\ faults <= faults'
  BY Counts DEF Stays
<1> QED BY <1>1, <1>2, <1>3, EndStep

LEMMA RefusedStep ==
  ASSUME IInv, NEW p \in Polls, wk[p].pc \in Counted, UNCHANGED <<on, store>>,
         Refused(p), Stays
  PROVE  IInv'
<1> DEFINE x == [wk[p] EXCEPT !.pc = "get"]
<1>1. wk[p] \in PollState /\ hang \in [Instances -> Nat] /\ laters \in 0..MaxLaters
  BY Counts DEF IInv, TypeOK
<1>2. /\ x \in PollState /\ x.pc = "get" /\ x.token = wk[p].token
      /\ x.attempts = wk[p].attempts
  BY <1>1 DEF PollState
<1>3. Goto(p, x) /\ Released(p) /\ Kept /\ UNCHANGED <<hang, recorded>>
  BY DEF Refused
<1> HIDE DEF x
<1>4. LiveMove(p, x) /\ RecordOK(x) /\ x.pc \notin Busy
  BY <1>2, <1>3 DEF LiveMove, RecordOK, Counted, Busy
<1>5. wk[p].pc # "idle"
  BY DEF Counted
<1>6. /\ openings' = openings /\ laters' \in 0..MaxLaters /\ faults' = faults
      /\ hang' \in [Instances -> Nat]
  BY <1>1, <1>3 DEF Stays
<1> QED BY <1>2, <1>3, <1>4, <1>5, <1>6, QuietStep

-----------------------------------------------------------------------------
(* processDue.                                                             *)

LEMMA ListStep ==
  ASSUME IInv, NEW p \in Polls, List(p), UNCHANGED <<on, store>>
  PROVE  IInv'
<1>1. /\ wk[p].pc = "idle" /\ UNCHANGED <<hang, live, recorded>> /\ Stays
  BY DEF List
<1>2. /\ JobMove(job', recorded) /\ index' \in Time
      /\ Undisturbed(wk[p], job', faults)
  <2>1. CASE Store(ReleaseExpiredJob(job, 0))
    BY <2>1, ReleaseMove
  <2>2. CASE Kept
    BY <2>2, JobStays, Counts DEF Kept, Undisturbed
  <2> QED BY <2>1, <2>2 DEF List
<1>3. ASSUME Seen, ReleaseExpiredJob(job, 0).status = "scheduled",
             Goto(p, [IdlePoll EXCEPT !.pc = "listed"])
      PROVE  IInv'
  <2> DEFINE x == [IdlePoll EXCEPT !.pc = "listed"]
  <2>1. /\ x \in PollState /\ x.pc = "listed" /\ x.token = NoToken /\ x.attempts = 0
    BY DEF IdlePoll, PollState
  <2>2. Goto(p, x)
    BY <1>3
  <2> HIDE DEF x
  <2>3. openings # 0
    <3>1. Store(ReleaseExpiredJob(job, 0))
      BY <1>3 DEF List
    <3>2. job'.status = "scheduled"
      BY <1>3, <3>1, ReleaseMove
    <3> QED BY <1>2, <3>2 DEF JobMove
  <2>4. LiveMove(p, x) /\ RecordOK(x)
    BY <1>1, <2>1 DEF LiveMove, Counted, RecordOK
  <2>5. Known(x, job', faults, openings, recorded)
    BY <2>1, <2>3, Counts DEF Known, Busy, Counted
  <2> QED BY <1>1, <1>2, <2>1, <2>2, <2>4, <2>5, GoOnStep
<1>4. CASE UNCHANGED wk
  <2>1. /\ wk[p] \in PollState /\ wk' = [wk EXCEPT ![p] = wk[p]]
    BY <1>4, Counts
  <2>2. LiveMove(p, wk[p]) /\ RecordOK(wk[p])
    BY <1>1 DEF LiveMove, IInv, AllRecords
  <2>3. Known(wk[p], job', faults, openings, recorded)
    BY <1>1 DEF IInv, AllKnown, Known, Busy, Counted
  <2> QED BY <1>1, <1>2, <2>1, <2>2, <2>3, GoOnStep DEF Goto
<1>5. \/ /\ Seen /\ ReleaseExpiredJob(job, 0).status = "scheduled"
         /\ Goto(p, [IdlePoll EXCEPT !.pc = "listed"])
      \/ UNCHANGED wk
  BY DEF List
<1> QED BY <1>3, <1>4, <1>5

LEMMA ClaimStep ==
  ASSUME IInv, NEW p \in Polls, Claim(p), UNCHANGED <<on, store>>
  PROVE  IInv'
<1> DEFINE kind == DecideReconciliationClaim(job, 0)
           won  == ClaimedJob(job, Fresh, LeaseMs, 0)
<1>1. /\ wk[p].pc = "listed" /\ wk[p].pc \notin Counted
      /\ UNCHANGED <<hang, recorded>> /\ Stays
  BY DEF Claim, Counted
<1>2. CASE kind # "acquired"
  <2>1. Goto(p, IdlePoll) /\ Kept /\ live' = live
    BY <1>2 DEF Claim
  <2>2. /\ JobMove(job', recorded') /\ index' \in Time
        /\ Undisturbed(wk[p], job', faults')
    BY <1>1, <2>1, JobStays, Counts DEF Kept, Undisturbed
  <2>3. LiveMove(p, IdlePoll)
    BY <1>1, <2>1, IdleFits DEF LiveMove
  <2>4. /\ openings' = openings /\ laters' = laters /\ faults' \in 0..MaxFaults
        /\ faults <= faults' /\ recorded' \in {recorded, recorded + 1}
        /\ hang' \in [Instances -> Nat]
    BY <1>1, Counts DEF Stays
  <2> QED BY <2>1, <2>2, <2>3, <2>4, EndStep
<1>3. CASE kind = "acquired"
  <2> DEFINE x == [IdlePoll EXCEPT
                     !.pc = IF hang[on[p]] >= MaxAttempts THEN "overrun" ELSE "running",
                     !.token = won.token, !.attempts = won.attempts,
                     !.hangs = hang[on[p]]]
  <2>1. /\ Store(won) /\ Goto(p, x)
        /\ live' = [live EXCEPT ![on[p]] = @ + 1]
    BY <1>3 DEF Claim
  <2>2. /\ JobMove(job', recorded) /\ index' \in Time /\ openings # 0
        /\ job'.status = "claimed" /\ job'.token = Fresh /\ job'.lease > 0
        /\ won.attempts = recorded + 1 /\ won.token = Fresh
        /\ Undisturbed(wk[p], job', faults)
    BY <1>3, <2>1, ClaimMove
  <2> HIDE DEF won, kind
  <2>3. hang[on[p]] \in Nat /\ recorded + 1 \in Nat /\ Fresh \in Tokens
    BY Counts, FreshIsFree
  <2>4. /\ x.pc \in {"overrun", "running"} /\ x.token = Fresh
        /\ x.attempts = recorded + 1 /\ x.hangs = hang[on[p]] /\ x.answer = "none"
        /\ x.pc = "overrun" => hang[on[p]] >= MaxAttempts
    BY <2>2 DEF IdlePoll
  <2>5. x \in PollState
    BY <2>2, <2>3 DEF IdlePoll, PollState, Counted
  <2> HIDE DEF x
  <2>6. LiveMove(p, x)
    BY <1>1, <2>1, <2>4 DEF LiveMove, Counted
  <2>7. RecordOK(x)
    BY <2>4 DEF RecordOK
  <2>8. Known(x, job', faults, openings, recorded)
    BY <2>2, <2>3, <2>4 DEF Known, Owns
  <2> QED BY <1>1, <2>1, <2>2, <2>4, <2>5, <2>6, <2>7, <2>8, GoOnStep
<1> QED BY <1>2, <1>3

\* A renewal: the poll goes on with the fresh token.
LEMMA Renewal ==
  ASSUME IInv, NEW p \in Polls, wk[p].pc = "running", UNCHANGED <<on, store>>,
         DecideLeaseMutation(job, "claimed", wk[p].token, TRUE, 0) = "ok",
         Store(RenewedJob(job, Fresh, LeaseMs, 0))
  PROVE  /\ JobMove(job', recorded) /\ index' \in Time /\ openings # 0
         /\ job'.status = "claimed" /\ job'.token = Fresh /\ job'.lease > 0
         /\ Undisturbed(wk[p], job', faults)
BY FencedOwner, RenewMove DEF Owns

LEMMA RenewStep ==
  ASSUME IInv, NEW p \in Polls, Renew(p), UNCHANGED <<on, store>>
  PROVE  IInv'
<1>1. wk[p].pc = "running" /\ UNCHANGED <<hang, live, recorded>> /\ Stays
  BY DEF Renew
<1>2. wk[p] \in PollState
  BY Counts
<1>3. CASE DecideLeaseMutation(job, "claimed", wk[p].token, TRUE, 0) = "ok"
  <2> DEFINE x == [wk[p] EXCEPT !.token = Fresh]
  <2>1. Store(RenewedJob(job, Fresh, LeaseMs, 0)) /\ Goto(p, x)
    BY <1>3 DEF Renew
  <2>2. /\ JobMove(job', recorded) /\ index' \in Time /\ openings # 0
        /\ job'.status = "claimed" /\ job'.token = Fresh /\ job'.lease > 0
        /\ Undisturbed(wk[p], job', faults)
    BY <1>1, <1>3, <2>1, Renewal
  <2>3. /\ x \in PollState /\ x.pc = "running" /\ x.token = Fresh
        /\ x.attempts = wk[p].attempts
    BY <1>1, <1>2, FreshIsFree DEF PollState
  <2> HIDE DEF x
  <2>4. LiveMove(p, x) /\ RecordOK(x)
    BY <1>1, <2>3 DEF LiveMove, RecordOK
  <2>5. Known(x, job', faults, openings, recorded)
    BY <2>2, <2>3 DEF Known, Owns, IInv, AllKnown
  <2> QED BY <1>1, <2>1, <2>2, <2>3, <2>4, <2>5, GoOnStep
<1>4. CASE DecideLeaseMutation(job, "claimed", wk[p].token, TRUE, 0) # "ok"
  <2> DEFINE x == [wk[p] EXCEPT !.lost = TRUE]
  <2>1. Kept /\ Goto(p, x)
    BY <1>4 DEF Renew
  <2>2. /\ x \in PollState /\ x.pc = "running" /\ x.token = wk[p].token
        /\ x.attempts = wk[p].attempts
    BY <1>1, <1>2 DEF PollState
  <2> HIDE DEF x
  <2>3. LiveMove(p, x) /\ RecordOK(x) /\ wk[p].pc # "idle" /\ wk[p].pc \in Busy
    BY <1>1, <2>2 DEF LiveMove, RecordOK, Busy, Counted
  <2>4. /\ openings' = openings /\ faults' = faults /\ laters' \in 0..MaxLaters
        /\ hang' \in [Instances -> Nat]
    BY <1>1 DEF Stays, IInv, TypeOK
  <2> QED BY <1>1, <2>1, <2>2, <2>3, <2>4, QuietStep
<1> QED BY <1>3, <1>4

LEMMA HandlerSettlesStep ==
  ASSUME IInv, NEW p \in Polls, NEW answer \in Dispositions, HandlerSettles(p, answer),
         UNCHANGED <<on, store>>
  PROVE  IInv'
<1> DEFINE x == [wk[p] EXCEPT !.pc = "settle", !.answer = answer]
<1>1. /\ wk[p].pc = "running" /\ Goto(p, x) /\ Kept
      /\ UNCHANGED <<hang, live, openings, faults, recorded>>
      /\ answer = "retry_later" => laters < MaxLaters
      /\ laters' = IF answer = "retry_later" THEN laters + 1 ELSE laters
  BY DEF HandlerSettles
<1>2. wk[p] \in PollState /\ answer \in DispositionKinds
  BY Counts, DispositionAssumption
<1>3. /\ x \in PollState /\ x.pc = "settle" /\ x.token = wk[p].token
      /\ x.attempts = wk[p].attempts
  BY <1>2 DEF PollState, Counted
<1> HIDE DEF x
<1>4. LiveMove(p, x) /\ RecordOK(x) /\ wk[p].pc # "idle" /\ wk[p].pc \in Busy
  BY <1>1, <1>3 DEF LiveMove, RecordOK, Busy, Counted
<1>5. laters' \in 0..MaxLaters
  BY <1>1, SchedulerNumbers DEF IInv, TypeOK
<1>6. hang' \in [Instances -> Nat]
  BY <1>1, Counts
<1> QED BY <1>1, <1>3, <1>4, <1>5, <1>6, QuietStep

LEMMA CompleteStep ==
  ASSUME IInv, NEW p \in Polls, Complete(p), UNCHANGED <<on, store>>
  PROVE  IInv'
<1>1. wk[p].pc \in Counted /\ Stays
  BY DEF Complete, Completes, Counted
<1>2. CASE CanComplete(p) /\ Settled(p, ClosedJob(job, "completed")) /\ UNCHANGED recorded
  <2>1. job.status = "claimed" /\ \A r, f : Undisturbed(wk[p], r, f)
    BY <1>2, FencedOwner DEF CanComplete, Owns
  <2>2. JobMove(job', recorded') /\ index' \in Time
    BY <1>2, <2>1, CloseMove DEF Settled
  <2> QED BY <1>1, <1>2, <2>1, <2>2, SettledStep
<1>3. CASE Refused(p)
  BY <1>1, <1>3, RefusedStep
<1> QED BY <1>2, <1>3 DEF Complete

LEMMA ReviewStep ==
  ASSUME IInv, NEW p \in Polls, Review(p), UNCHANGED <<on, store>>
  PROVE  IInv'
<1>1. wk[p].pc \in Counted /\ Stays
  BY DEF Review, Reviews, Retries, Counted
<1>2. CASE CanReview(p) /\ Settled(p, ClosedJob(job, "manual_review")) /\ UNCHANGED recorded
  <2>1. job.status = "claimed" /\ \A r, f : Undisturbed(wk[p], r, f)
    BY <1>2, FencedOwner DEF CanReview, Owns
  <2>2. JobMove(job', recorded') /\ index' \in Time
    BY <1>2, <2>1, CloseMove DEF Settled
  <2> QED BY <1>1, <1>2, <2>1, <2>2, SettledStep
<1>3. CASE Refused(p)
  BY <1>1, <1>3, RefusedStep
<1> QED BY <1>2, <1>3 DEF Review

LEMMA FailStep ==
  ASSUME IInv, NEW p \in Polls, Fail(p), UNCHANGED <<on, store>>
  PROVE  IInv'
<1>1. wk[p].pc \in Counted /\ Stays
  BY DEF Fail, Fails, Retries, Counted
<1>2. CASE CanFail(p) /\ Settled(p, FailedJob(job, RetryMs)) /\ recorded' = recorded + 1
  <2>1. job.status = "claimed" /\ \A r, f : Undisturbed(wk[p], r, f)
    BY <1>2, FencedOwner DEF CanFail, Owns
  <2>2. JobMove(job', recorded') /\ index' \in Time
    BY <1>2, <2>1, FailMove DEF Settled
  <2> QED BY <1>1, <1>2, <2>1, <2>2, SettledStep
<1>3. CASE Refused(p)
  BY <1>1, <1>3, RefusedStep
<1> QED BY <1>2, <1>3 DEF Fail

LEMMA GetStep ==
  ASSUME IInv, NEW p \in Polls, Get(p), UNCHANGED <<on, store>>
  PROVE  IInv'
<1>1. /\ wk[p].pc = "get" /\ Kept /\ UNCHANGED <<live, recorded>> /\ Stays
  BY DEF Get
<1>2. wk[p] \in PollState /\ wk[p].hangs \in Nat
  BY Counts DEF PollState
<1>3. hang' \in [Instances -> Nat]
  <2>1. hang' = hang \/ hang' = [hang EXCEPT ![on[p]] = wk[p].hangs + 1]
    BY DEF Get
  <2>2. wk[p].hangs + 1 \in Nat
    BY <1>2
  <2> QED BY <2>1, <2>2, Counts
<1>4. CASE Goto(p, IdlePoll)
  <2>1. LiveMove(p, IdlePoll)
    BY <1>1, IdleFits DEF LiveMove, Counted
  <2>2. /\ JobMove(job', recorded') /\ index' \in Time
        /\ Undisturbed(wk[p], job', faults')
    BY <1>1, JobStays, Counts DEF Kept, Undisturbed
  <2>3. /\ openings' = openings /\ laters' = laters /\ faults' \in 0..MaxFaults
        /\ faults <= faults' /\ recorded' \in {recorded, recorded + 1}
    BY <1>1, Counts DEF Stays
  <2> QED BY <1>3, <1>4, <2>1, <2>2, <2>3, EndStep
<1>5. CASE /\ Goto(p, [wk[p] EXCEPT !.pc = "park"]) /\ wk[p].answer # "retry_later"
           /\ wk[p].hangs + 1 >= MaxAttempts \/ wk[p].attempts >= MaxAttempts
  <2> DEFINE x == [wk[p] EXCEPT !.pc = "park"]
  <2>1. /\ x \in PollState /\ x.pc = "park" /\ x.token = wk[p].token
        /\ x.attempts = wk[p].attempts /\ x.hangs = wk[p].hangs
        /\ x.answer = wk[p].answer
    BY <1>2 DEF PollState
  <2>2. Goto(p, x)
    BY <1>5
  <2> HIDE DEF x
  <2>3. LiveMove(p, x) /\ RecordOK(x) /\ wk[p].pc # "idle" /\ x.pc \notin Busy
    BY <1>1, <1>5, <2>1 DEF LiveMove, RecordOK, Busy, Counted
  <2>4. openings' = openings /\ faults' = faults /\ laters' \in 0..MaxLaters
    BY <1>1 DEF Stays, IInv, TypeOK
  <2> QED BY <1>1, <1>3, <2>1, <2>2, <2>3, <2>4, QuietStep
<1> QED BY <1>4, <1>5 DEF Get

LEMMA ParkStep ==
  ASSUME IInv, NEW p \in Polls, Park(p), UNCHANGED <<on, store>>
  PROVE  IInv'
<1> DEFINE won == ClaimedJob(job, Fresh, LeaseMs, 0)
<1>1. wk[p].pc = "park" /\ UNCHANGED <<hang, live, recorded>> /\ Stays
  BY DEF Park
<1>2. CASE Goto(p, IdlePoll) /\ Kept
  <2>1. LiveMove(p, IdlePoll)
    BY <1>1, IdleFits DEF LiveMove, Counted
  <2>2. /\ JobMove(job', recorded') /\ index' \in Time
        /\ Undisturbed(wk[p], job', faults')
    BY <1>1, <1>2, JobStays, Counts DEF Kept, Undisturbed
  <2>3. /\ openings' = openings /\ laters' = laters /\ faults' \in 0..MaxFaults
        /\ faults <= faults' /\ recorded' \in {recorded, recorded + 1}
        /\ hang' \in [Instances -> Nat]
    BY <1>1, Counts DEF Stays
  <2> QED BY <1>2, <2>1, <2>2, <2>3, EndStep
<1>3. CASE /\ DecideReconciliationClaim(job, 0) = "acquired" /\ Store(won)
           /\ Goto(p, [wk[p] EXCEPT !.pc = "parking", !.token = won.token])
  <2> DEFINE x == [wk[p] EXCEPT !.pc = "parking", !.token = won.token]
  <2>1. /\ JobMove(job', recorded) /\ index' \in Time /\ openings # 0
        /\ job'.status = "claimed" /\ job'.token = Fresh /\ job'.lease > 0
        /\ won.token = Fresh /\ Undisturbed(wk[p], job', faults)
    BY <1>3, ClaimMove
  <2>2. Goto(p, x)
    BY <1>3
  <2> HIDE DEF won
  <2>3. wk[p] \in PollState /\ RecordOK(wk[p]) /\ Fresh \in Tokens
    BY Counts, FreshIsFree DEF IInv, AllRecords
  <2>4. /\ x \in PollState /\ x.pc = "parking" /\ x.token = Fresh
        /\ x.attempts = wk[p].attempts /\ x.hangs = wk[p].hangs
        /\ x.answer = wk[p].answer
    BY <2>1, <2>3 DEF PollState
  <2> HIDE DEF x
  <2>5. LiveMove(p, x) /\ RecordOK(x)
    BY <1>1, <2>3, <2>4 DEF LiveMove, RecordOK, Counted
  <2>6. Known(x, job', faults, openings, recorded)
    BY <2>1, <2>4 DEF Known, Owns, IInv, AllKnown
  <2> QED BY <1>1, <2>1, <2>2, <2>4, <2>5, <2>6, GoOnStep
<1> QED BY <1>2, <1>3 DEF Park

LEMMA ReviewParkedStep ==
  ASSUME IInv, NEW p \in Polls, ReviewParked(p), UNCHANGED <<on, store>>
  PROVE  IInv'
<1>1. wk[p].pc = "parking" /\ Goto(p, IdlePoll) /\ UNCHANGED <<live, recorded>> /\ Stays
  BY DEF ReviewParked
<1>2. LiveMove(p, IdlePoll)
  BY <1>1, IdleFits DEF LiveMove, Counted
<1>3. /\ openings' = openings /\ laters' = laters /\ faults' \in 0..MaxFaults
      /\ faults <= faults' /\ recorded' \in {recorded, recorded + 1}
  BY <1>1, Counts DEF Stays
<1>4. CASE CanReview(p) /\ Store(ClosedJob(job, "manual_review")) /\ Forgiven(p)
  <2>1. job.status = "claimed" /\ Undisturbed(wk[p], job', faults')
    BY <1>4, FencedOwner DEF CanReview, Owns
  <2>2. JobMove(job', recorded') /\ index' \in Time
    BY <1>4, <2>1, CloseMove
  <2>3. hang' \in [Instances -> Nat]
    BY <1>4, Counts DEF Forgiven
  <2> QED BY <1>1, <1>2, <1>3, <2>1, <2>2, <2>3, EndStep
<1>5. CASE Kept /\ UNCHANGED hang
  <2>1. /\ JobMove(job', recorded') /\ index' \in Time /\ hang' \in [Instances -> Nat]
        /\ Undisturbed(wk[p], job', faults')
    BY <1>1, <1>5, JobStays, Counts DEF Kept, Undisturbed
  <2> QED BY <1>1, <1>2, <1>3, <2>1, EndStep
<1> QED BY <1>4, <1>5 DEF ReviewParked

-----------------------------------------------------------------------------
(* Faults, time and the application.                                       *)

LEMMA OneFault ==
  ASSUME IInv, faults < MaxFaults, faults' = faults + 1
  PROVE  faults' \in 0..MaxFaults /\ faults <= faults' /\ faults' # 0 /\ faults' \in Nat
BY SchedulerNumbers DEF IInv, TypeOK

LEMMA HeartbeatFaultStep ==
  ASSUME IInv, NEW p \in Polls, HeartbeatFault(p), UNCHANGED <<on, store>>
  PROVE  IInv'
<1> DEFINE x == [wk[p] EXCEPT !.lost = TRUE]
<1>1. /\ wk[p].pc = "running" /\ Goto(p, x)
      /\ UNCHANGED <<hang, live, laters, openings, recorded>>
  BY DEF HeartbeatFault
<1>2. faults' \in 0..MaxFaults /\ faults <= faults' /\ faults' # 0
  BY OneFault DEF HeartbeatFault
<1>3. JobMove(job', recorded') /\ index' \in Time
  <2>1. CASE Kept
    BY <1>1, <2>1, JobStays, Counts DEF Kept
  <2>2. CASE /\ DecideLeaseMutation(job, "claimed", wk[p].token, TRUE, 0) = "ok"
             /\ Store(RenewedJob(job, Fresh, LeaseMs, 0))
    BY <1>1, <2>2, Renewal
  <2> QED BY <2>1, <2>2 DEF HeartbeatFault
<1>4. wk[p] \in PollState
  BY Counts
<1>5. /\ x \in PollState /\ x.pc = "running" /\ x.token = wk[p].token
      /\ x.attempts = wk[p].attempts
  BY <1>1, <1>4 DEF PollState
<1> HIDE DEF x
<1>6. LiveMove(p, x) /\ RecordOK(x)
  BY <1>1, <1>5 DEF LiveMove, RecordOK
<1>7. Known(x, job', faults', openings, recorded')
  BY <1>1, <1>2, <1>5 DEF Known, IInv, AllKnown
<1>8. Undisturbed(wk[p], job', faults')
  BY <1>2 DEF Undisturbed
<1>9. /\ laters' \in 0..MaxLaters /\ hang' \in [Instances -> Nat]
      /\ recorded' \in {recorded, recorded + 1} /\ UNCHANGED <<on, store, openings>>
  BY <1>1 DEF IInv, TypeOK
<1> QED BY <1>1, <1>2, <1>3, <1>5, <1>6, <1>7, <1>8, <1>9, PollStep

\* The four ways a settlement may have been applied.
LEMMA SettleFaultMove ==
  ASSUME IInv, NEW p \in Polls, SettleFault(p)
  PROVE  /\ JobMove(job', recorded') /\ index' \in Time
         /\ recorded' \in {recorded, recorded + 1}
<1>1. CASE Kept /\ UNCHANGED recorded
  BY <1>1, JobStays, Counts DEF Kept
<1>2. CASE CanComplete(p) /\ Store(ClosedJob(job, "completed")) /\ UNCHANGED recorded
  BY <1>2, FencedOwner, CloseMove DEF CanComplete, Owns
<1>3. CASE CanReview(p) /\ Store(ClosedJob(job, "manual_review")) /\ UNCHANGED recorded
  <2>1. job.status = "claimed"
    BY <1>3, FencedOwner DEF CanReview, Owns
  <2> QED BY <1>3, <2>1, CloseMove
<1>4. CASE CanFail(p) /\ Store(FailedJob(job, RetryMs)) /\ recorded' = recorded + 1
  BY <1>4, FencedOwner, FailMove DEF CanFail, Owns
<1> QED BY <1>1, <1>2, <1>3, <1>4 DEF SettleFault

LEMMA SettleFaultStep ==
  ASSUME IInv, NEW p \in Polls, SettleFault(p), UNCHANGED <<on, store>>
  PROVE  IInv'
<1>1. /\ Goto(p, IdlePoll) /\ UNCHANGED <<hang, laters, openings>>
      /\ IF wk[p].pc = "parking" THEN UNCHANGED live ELSE Released(p)
      /\ wk[p].pc \in Counted \cup {"parking"}
  BY DEF SettleFault, Counted
<1>2. faults' \in 0..MaxFaults /\ faults <= faults' /\ faults' # 0
  BY OneFault DEF SettleFault
<1>3. LiveMove(p, IdlePoll)
  BY <1>1, IdleFits DEF LiveMove, Counted
<1>4. hang' \in [Instances -> Nat] /\ Undisturbed(wk[p], job', faults')
  BY <1>1, <1>2, Counts DEF Undisturbed
<1> QED BY <1>1, <1>2, <1>3, <1>4, SettleFaultMove, EndStep

\* A listing or a claim that fails, its write applied or not.
LEMMA CallFaultMove ==
  ASSUME IInv, NEW p \in Polls, CallFault(p)
  PROVE  /\ JobMove(job', recorded) /\ index' \in Time
         /\ \A f : Undisturbed(wk[p], job', f)
<1>1. CASE Kept
  BY <1>1, JobStays, Counts DEF Kept, Undisturbed
<1>2. CASE Store(ReleaseExpiredJob(job, 0))
  BY <1>2, ReleaseMove
<1>3. CASE /\ DecideReconciliationClaim(job, 0) = "acquired"
           /\ Store(ClaimedJob(job, Fresh, LeaseMs, 0))
  BY <1>3, ClaimMove
<1> QED BY <1>1, <1>2, <1>3 DEF CallFault

LEMMA CallFaultStep ==
  ASSUME IInv, NEW p \in Polls, CallFault(p), UNCHANGED <<on, store>>
  PROVE  IInv'
<1>1. /\ Goto(p, IdlePoll) /\ UNCHANGED <<hang, live, laters, openings, recorded>>
      /\ wk[p].pc \in {"idle", "listed", "get", "park"}
  BY DEF CallFault
<1>2. faults' \in 0..MaxFaults /\ faults <= faults'
  BY OneFault DEF CallFault
<1>3. LiveMove(p, IdlePoll)
  BY <1>1, IdleFits DEF LiveMove, Counted
<1>4. /\ JobMove(job', recorded') /\ index' \in Time
      /\ Undisturbed(wk[p], job', faults')
  BY <1>1, CallFaultMove
<1>5. hang' \in [Instances -> Nat] /\ recorded' \in {recorded, recorded + 1}
  BY <1>1, Counts
<1> QED BY <1>1, <1>2, <1>3, <1>4, <1>5, EndStep

\* A crash empties the counters of its instance with its polls.
LEMMA CrashStep ==
  ASSUME IInv, NEW i \in Instances, Crash(i), UNCHANGED <<on, store>>
  PROVE  IInv'
<1>1. /\ wk' = [p \in Polls |-> IF on[p] = i THEN IdlePoll ELSE wk[p]]
      /\ hang' = [hang EXCEPT ![i] = 0] /\ live' = [live EXCEPT ![i] = 0]
      /\ job' = job /\ index' = index /\ UNCHANGED <<laters, openings, recorded>>
  BY DEF Crash, Kept
<1>2. faults' \in 0..MaxFaults /\ faults' # 0
  BY OneFault DEF Crash
<1>3. \A p \in Polls : wk'[p] = IdlePoll \/ wk'[p] = wk[p]
  BY <1>1
<1>4. TypeOK'
  <2>1. wk' \in [Polls -> PollState]
    BY <1>1, Counts, IdleFits
  <2>2. hang' \in [Instances -> Nat] /\ live' \in [Instances -> Nat]
    BY <1>1 DEF IInv, TypeOK
  <2>3. PollState' = PollState
    BY DEF PollState, Tokens
  <2>4. /\ [store |-> store', on |-> on'] \in Deployments
        /\ job' \in JobRow /\ index' \in Time
        /\ job'.status = "claimed" <=> job'.token # NoToken
        /\ laters' \in 0..MaxLaters /\ openings' \in 0..MaxOpenings /\ recorded' \in Nat
    BY <1>1 DEF IInv, TypeOK
  <2> QED BY <1>2, <2>1, <2>2, <2>3, <2>4 DEF TypeOK
<1>5. Unopened' /\ AttemptsAreRecorded'
  BY <1>1 DEF IInv, Unopened, AttemptsAreRecorded
<1>6. LiveCountsClaims'
  <2> SUFFICES ASSUME NEW j \in Instances
               PROVE  live'[j] = Cardinality({p \in Polls : on[p] = j /\ wk'[p].pc \in Counted})
    BY DEF LiveCountsClaims
  <2>1. CASE j = i
    <3>1. {p \in Polls : on[p] = j /\ wk'[p].pc \in Counted} = {}
      BY <1>1, <2>1, IdleFits
    <3>2. live'[j] = 0
      BY <1>1, <2>1 DEF IInv, TypeOK
    <3> QED BY <3>1, <3>2, FS_EmptySet
  <2>2. CASE j # i
    <3>1. {p \in Polls : on[p] = j /\ wk'[p].pc \in Counted}
            = {p \in Polls : on[p] = j /\ wk[p].pc \in Counted}
      BY <1>1, <2>2
    <3>2. live'[j] = live[j]
      BY <1>1, <2>2 DEF IInv, TypeOK
    <3> QED BY <3>1, <3>2 DEF IInv, LiveCountsClaims
  <2> QED BY <2>1, <2>2
<1>7. AllRecords'
  BY <1>3, IdleFits DEF IInv, AllRecords, RecordOK
<1>8. \A p \in Polls : Known(wk'[p], job, faults', openings, recorded)
  <2> SUFFICES ASSUME NEW p \in Polls PROVE Known(wk'[p], job, faults', openings, recorded)
    OBVIOUS
  <2>1. CASE wk'[p] = IdlePoll
    BY <2>1, IdleFits, Counts
  <2>2. CASE wk'[p] = wk[p]
    BY <1>2, <2>2 DEF IInv, AllKnown, Known
  <2> QED BY <1>3, <2>1, <2>2
<1>9. AllKnown'
  BY <1>1, <1>8 DEF AllKnown, Known, Owns
<1>10. OwnTokens'
  BY <1>3, IdleFits DEF IInv, OwnTokens
<1> QED BY <1>4, <1>5, <1>6, <1>7, <1>9, <1>10 DEF IInv

\* Steps of no poll.
LEMMA ApartStep ==
  ASSUME IInv, UNCHANGED <<on, store, wk, hang, live, laters>>,
         openings' \in 0..MaxOpenings, faults' \in 0..MaxFaults, recorded' \in Nat,
         index' \in Time, job' \in JobRow,
         job'.status = "claimed" <=> job'.token # NoToken,
         Unopened', AttemptsAreRecorded',
         \A p \in Polls : Known(wk[p], job', faults', openings', recorded')
  PROVE  IInv'
<1>1. TypeOK'
  <2>1. PollState' = PollState
    BY DEF PollState, Tokens
  <2>2. /\ [store |-> store', on |-> on'] \in Deployments
        /\ wk' \in [Polls -> PollState] /\ hang' \in [Instances -> Nat]
        /\ live' \in [Instances -> Nat] /\ laters' \in 0..MaxLaters
    BY DEF IInv, TypeOK
  <2> QED BY <2>1, <2>2 DEF TypeOK
<1>2. LiveCountsClaims'
  BY DEF IInv, LiveCountsClaims
<1>3. AllRecords' /\ OwnTokens'
  BY DEF IInv, AllRecords, RecordOK, OwnTokens
<1>4. AllKnown'
  BY DEF AllKnown, Known, Owns
<1> QED BY <1>1, <1>2, <1>3, <1>4 DEF IInv

LEMMA ScheduleStep ==
  ASSUME IInv, NEW dueAt \in 0..1, Schedule(dueAt), UNCHANGED <<on, store>>
  PROVE  IInv'
<1> DEFINE r == ScheduledRow(job, dueAt)
<1>1. /\ openings' = openings + 1 /\ openings < MaxOpenings /\ Store(r) /\ recorded' = 0
      /\ UNCHANGED <<wk, hang, live, laters, faults>> /\ Schedulable(job)
  BY DEF Schedule
<1>2. job \in JobRow /\ openings \in 0..MaxOpenings
  BY DEF IInv, TypeOK
<1>3. /\ r \in JobRow /\ r.status = "scheduled" /\ r.token = NoToken /\ r.attempts = 0
  BY <1>2 DEF ScheduledRow, JobRow, JobStatuses, Time, NoTime, NoToken
<1> HIDE DEF r
<1>4. /\ job' \in JobRow /\ index' \in Time /\ job'.status = "scheduled"
      /\ job'.token = NoToken /\ job'.attempts = 0
  BY <1>1, <1>3, Stored
<1>5. openings' \in 0..MaxOpenings /\ openings' # 0
  BY <1>1, <1>2, SchedulerNumbers
<1>6. Unopened' /\ AttemptsAreRecorded'
  BY <1>1, <1>4, <1>5 DEF Unopened, AttemptsAreRecorded
<1>7. ASSUME NEW p \in Polls PROVE Known(wk[p], job', faults', openings', recorded')
  <2>1. Known(wk[p], job, faults, openings, recorded) /\ RecordOK(wk[p])
    BY DEF IInv, AllKnown, AllRecords
  <2>2. openings' <= 1 => wk[p].attempts <= recorded' + 1
    <3>1. openings' <= 1 => openings = 0
      BY <1>1, <1>2, SchedulerNumbers
    <3>2. openings = 0 => wk[p].attempts = 0
      BY <2>1 DEF Known, RecordOK
    <3> QED BY <1>1, <3>1, <3>2
  <2>3. job.status # "claimed"
    BY <1>1 DEF Schedulable, JobClosed
  <2>4. ~(faults = 0 /\ wk[p].pc \in Busy)
    BY <2>1, <2>3 DEF Known, Owns
  <2> QED BY <1>1, <1>5, <2>2, <2>4 DEF Known
<1>8. faults' \in 0..MaxFaults /\ recorded' \in Nat
  BY <1>1, Counts
<1> QED BY <1>1, <1>4, <1>5, <1>6, <1>7, <1>8, ApartStep

LEMMA TickStep ==
  ASSUME IInv, Tick, UNCHANGED <<on, store>>
  PROVE  IInv'
<1>1. /\ job' = [job EXCEPT !.lease = Less(@), !.dueAt = Less(@)]
      /\ index' = Less(index)
      /\ UNCHANGED <<wk, hang, live, laters, openings, recorded>>
      /\ IF Guarded THEN faults < MaxFaults /\ faults' = faults + 1 ELSE UNCHANGED faults
  BY DEF Tick
<1>2. job \in JobRow /\ index \in Time
  BY DEF IInv, TypeOK
<1>3. \A t \in Time : Less(t) \in Time
  BY DEF Less, Time, NoTime
<1>4. Less(job.lease) \in Time /\ Less(job.dueAt) \in Time
  BY <1>2, <1>3 DEF JobRow
<1>5. /\ job' \in JobRow /\ job'.status = job.status /\ job'.token = job.token
      /\ job'.attempts = job.attempts /\ job'.lease = Less(job.lease)
  BY <1>1, <1>2, <1>4 DEF JobRow
<1>6. index' \in Time
  BY <1>1, <1>2, <1>3
<1>7. faults' \in 0..MaxFaults /\ faults' \in Nat
  BY <1>1, OneFault, Counts
<1>8. faults' = 0 => faults = 0 /\ ~Guarded
  BY <1>1, OneFault
<1>9. Unopened' /\ AttemptsAreRecorded'
  BY <1>1, <1>5 DEF IInv, Unopened, AttemptsAreRecorded
<1>10. ASSUME NEW p \in Polls PROVE Known(wk[p], job', faults', openings', recorded')
  <2>1. Known(wk[p], job, faults, openings, recorded)
    BY DEF IInv, AllKnown
  <2>2. faults' = 0 /\ wk[p].pc \in Busy => Owns(wk[p], job') /\ job'.lease > 0
    <3> SUFFICES ASSUME faults' = 0, wk[p].pc \in Busy
                 PROVE  Owns(wk[p], job') /\ job'.lease > 0
      OBVIOUS
    <3>1. Owns(wk[p], job) /\ job.lease > 0 /\ ~Guarded
      BY <1>8, <2>1 DEF Known
    <3>2. job.lease # 1
      BY <3>1 DEF Guarded, Owns
    <3>3. job.lease \in Nat
      BY <1>2, <3>1 DEF JobRow, Time, NoTime
    <3>4. Less(job.lease) > 0
      BY <3>1, <3>2, <3>3 DEF Less
    <3> QED BY <1>5, <3>1, <3>4 DEF Owns
  <2> QED BY <1>1, <2>1, <2>2 DEF Known
<1>11. /\ openings' \in 0..MaxOpenings /\ recorded' \in Nat
       /\ job'.status = "claimed" <=> job'.token # NoToken
  BY <1>1, <1>5 DEF IInv, TypeOK
<1> QED BY <1>1, <1>5, <1>6, <1>7, <1>9, <1>10, <1>11, ApartStep

-----------------------------------------------------------------------------

LEMMA InitIInv == Init => IInv
<1> SUFFICES ASSUME Init PROVE IInv
  OBVIOUS
<1>1. /\ wk = [p \in Polls |-> IdlePoll] /\ job = NoJob /\ index = NoTime
      /\ hang = [i \in Instances |-> 0] /\ live = [i \in Instances |-> 0]
      /\ laters = 0 /\ openings = 0 /\ faults = 0 /\ recorded = 0
  BY DEF Init
<1>2. [store |-> store, on |-> on] \in Deployments
  <2>1. PICK d \in Deployments : store = d.store /\ on = d.on
    BY DEF Init
  <2>2. d = [store |-> d.store, on |-> d.on]
    BY DeploymentAssumption
  <2> QED BY <2>1, <2>2
<1>3. NoJob \in JobRow /\ NoJob.status = "absent" /\ NoJob.token = NoToken
  BY DEF NoJob, JobRow, JobStatuses, Time, NoTime, NoToken
<1>4. /\ 0 \in 0..MaxLaters /\ 0 \in 0..MaxOpenings /\ 0 \in 0..MaxFaults
  BY SchedulerNumbers
<1>5. TypeOK
  BY <1>1, <1>2, <1>3, <1>4, IdleFits DEF TypeOK, Time
<1>6. Unopened /\ AttemptsAreRecorded
  BY <1>1, <1>3 DEF Unopened, AttemptsAreRecorded
<1>7. LiveCountsClaims
  <2>1. \A i \in Instances : {p \in Polls : on[p] = i /\ wk[p].pc \in Counted} = {}
    BY <1>1, IdleFits
  <2> QED BY <1>1, <2>1, FS_EmptySet DEF LiveCountsClaims
<1>8. AllRecords /\ AllKnown /\ OwnTokens
  BY <1>1, IdleFits DEF AllRecords, AllKnown, OwnTokens
<1> QED BY <1>5, <1>6, <1>7, <1>8 DEF IInv

LEMMA StepIInv == IInv /\ [Next]_vars => IInv'
<1> SUFFICES ASSUME IInv, [Next]_vars PROVE IInv'
  OBVIOUS
<1>1. CASE UNCHANGED vars
  <2>1. /\ UNCHANGED <<on, store, wk, hang, live, laters>>
        /\ UNCHANGED <<job, index, openings, faults, recorded>>
    BY <1>1 DEF vars, work
  <2>2. /\ Unopened' /\ AttemptsAreRecorded' /\ openings' \in 0..MaxOpenings
        /\ faults' \in 0..MaxFaults /\ recorded' \in Nat /\ index' \in Time
        /\ job' \in JobRow /\ (job'.status = "claimed" <=> job'.token # NoToken)
    BY <2>1 DEF IInv, TypeOK, Unopened, AttemptsAreRecorded
  <2>3. \A p \in Polls : Known(wk[p], job', faults', openings', recorded')
    BY <2>1 DEF IInv, AllKnown
  <2> QED BY <2>1, <2>2, <2>3, ApartStep
<1>2. ASSUME Next PROVE IInv'
  <2>1. UNCHANGED <<on, store>>
    BY <1>2 DEF Next
  <2>2. ASSUME NEW dueAt \in 0..1, Schedule(dueAt) PROVE IInv'
    BY <2>1, <2>2, ScheduleStep
  <2>3. ASSUME NEW p \in Polls, List(p) PROVE IInv'
    BY <2>1, <2>3, ListStep
  <2>4. ASSUME NEW p \in Polls, Continue(p) PROVE IInv'
    BY <2>1, <2>4, ClaimStep, CompleteStep, ReviewStep, FailStep, GetStep, ParkStep,
       ReviewParkedStep DEF Continue
  <2>5. ASSUME NEW p \in Polls, Renew(p) PROVE IInv'
    BY <2>1, <2>5, RenewStep
  <2>6. ASSUME NEW p \in Polls, NEW answer \in Dispositions, HandlerSettles(p, answer)
        PROVE  IInv'
    BY <2>1, <2>6, HandlerSettlesStep
  <2>7. ASSUME NEW p \in Polls, HeartbeatFault(p) \/ SettleFault(p) \/ CallFault(p)
        PROVE  IInv'
    BY <2>1, <2>7, HeartbeatFaultStep, SettleFaultStep, CallFaultStep
  <2>8. ASSUME NEW i \in Instances, Crash(i) PROVE IInv'
    BY <2>1, <2>8, CrashStep
  <2>9. CASE Tick
    BY <2>1, <2>9, TickStep
  <2> QED BY <1>2, <2>2, <2>3, <2>4, <2>5, <2>6, <2>7, <2>8, <2>9 DEF Next, Step
<1> QED BY <1>1, <1>2

\* The inductive invariant holds in every reachable state.
THEOREM Invariance == Spec => []IInv
BY InitIInv, StepIInv, PTL DEF Spec

-----------------------------------------------------------------------------
(* What follows.                                                           *)

\* Type correctness of the scheduler; in particular a claim always finds a fresh token.
THEOREM SchedulerTypes == Spec => []TypeOK
<1>1. IInv => TypeOK
  BY DEF IInv
<1> QED BY <1>1, Invariance, PTL

\* The attempts of an open job are its recorded failures and the claim in hand, after
\* any number of crashes, takeovers and reopenings.
THEOREM AttemptsRecorded == Spec => []AttemptsAreRecorded
<1>1. IInv => AttemptsAreRecorded
  BY DEF IInv
<1> QED BY <1>1, Invariance, PTL

\* liveByGateway of an instance is the number of its polls that hold a claim: every
\* way out of processDue gives the place back, and none gives it back twice.
THEOREM LiveIsExact == Spec => []LiveCountsClaims
<1>1. IInv => LiveCountsClaims
  BY DEF IInv
<1> QED BY <1>1, Invariance, PTL

\* Without a fault at most one poll works on the job, for any number of polls and
\* instances: who works on it owns its token, and tokens are not shared.
THEOREM OnePoll == Spec => []NoOverlapWithoutFaults
<1>1. IInv => NoOverlapWithoutFaults
  <2> DEFINE S == {p \in Polls : wk[p].pc \in Busy}
  <2> SUFFICES ASSUME IInv, faults = 0 PROVE Cardinality(S) <= 1
    BY DEF NoOverlapWithoutFaults, Busy
  <2>1. \A p, q \in S : p = q
    <3> SUFFICES ASSUME NEW p \in Polls, NEW q \in Polls, p # q,
                        wk[p].pc \in Busy, wk[q].pc \in Busy
                 PROVE  FALSE
      OBVIOUS
    <3>1. Owns(wk[p], job) /\ Owns(wk[q], job)
      BY DEF IInv, AllKnown, Known
    <3>2. job.token # NoToken
      BY <3>1 DEF Owns, IInv, TypeOK
    <3> QED BY <3>1, <3>2 DEF Owns, IInv, OwnTokens
  <2> HIDE DEF S
  <2>2. CASE S = {}
    BY <2>2, FS_EmptySet
  <2>3. CASE S # {}
    <3>1. PICK p \in S : TRUE
      BY <2>3
    <3>2. S = {p} /\ Cardinality({p}) = 1
      BY <2>1, <3>1, FS_Singleton
    <3> QED BY <3>2
  <2> QED BY <2>2, <2>3
<1> QED BY <1>1, Invariance, PTL

-----------------------------------------------------------------------------
(* Every overrun has a fault of its own.                                   *)
(*                                                                         *)
(* A claim is lost by a fault: nothing else makes a lease run out under    *)
(* its poll, or takes the row from it.  A poll that lost its claim will    *)
(* count a hang on top of the number it read, so the bound has to hold     *)
(* with all the polls that have fallen and not counted yet added to it.    *)

\* The poll lost its claim of the row r and has not counted that yet.
Fallen(x, r) == \/ x.pc = "get"
                \/ x.pc \in Counted /\ (x.lost \/ ~(Owns(x, r) /\ r.lease > 0))

Doomed == {p \in Polls : Fallen(wk[p], job)}

\* The hangs of the job the poll knows of, its own among them.
Spent(x) == IF x.pc \in {"park", "parking"} THEN x.hangs + 1 ELSE x.hangs

\* The faults pay for h hangs and for the polls that have fallen.
Pays(h) == h + Cardinality(Doomed) <= faults

Paid == /\ Pays(0)
        /\ \A i \in Instances : Pays(hang[i])
        /\ \A p \in Polls : Pays(Spent(wk[p]))

\* What was paid for stays paid for.
Affords == \A h \in Nat : Pays(h) => h + Cardinality(Doomed') <= faults'

LEMMA DoomedCount ==
  /\ IsFiniteSet(Doomed) /\ Cardinality(Doomed) \in Nat
  /\ IsFiniteSet(Doomed') /\ Cardinality(Doomed') \in Nat
<1>1. Doomed \subseteq Polls /\ Doomed' \subseteq Polls
  BY DEF Doomed
<1> QED BY <1>1, PollsAssumption, FS_Subset, FS_CardinalityType

\* No more polls have fallen.
LEMMA FewerDoomed ==
  ASSUME IInv, Doomed' \subseteq Doomed, faults' \in Nat, faults <= faults'
  PROVE  Affords
<1>1. Cardinality(Doomed') <= Cardinality(Doomed)
  BY DoomedCount, FS_Subset
<1> QED BY <1>1, DoomedCount, Counts DEF Affords, Pays

\* One more has, by a fault.
LEMMA OneMoreDoomed ==
  ASSUME IInv, NEW p \in Polls, Doomed' \subseteq Doomed \cup {p}, faults' = faults + 1
  PROVE  Affords
<1> DEFINE D == Doomed \cup {p}
<1>1. /\ IsFiniteSet(D)
      /\ Cardinality(D) = IF p \in Doomed THEN Cardinality(Doomed) ELSE Cardinality(Doomed) + 1
  BY DoomedCount, FS_AddElement
<1>2. Cardinality(D) \in Nat
  BY <1>1, FS_CardinalityType
<1> HIDE DEF D
<1>3. Cardinality(Doomed') <= Cardinality(D)
  BY <1>1, FS_Subset DEF D
<1>4. Cardinality(Doomed') <= Cardinality(Doomed) + 1
  BY <1>1, <1>2, <1>3, DoomedCount
<1> QED BY <1>4, DoomedCount, Counts DEF Affords, Pays

\* A poll that had fallen counts its hang.
LEMMA HangCounted ==
  ASSUME IInv, NEW p \in Doomed, Doomed' \subseteq Doomed \ {p}, faults' = faults
  PROVE  \A h \in Nat : Pays(h) => h + 1 + Cardinality(Doomed') <= faults'
<1> DEFINE D == Doomed \ {p}
<1>1. IsFiniteSet(D) /\ Cardinality(D) = Cardinality(Doomed) - 1
  BY DoomedCount, FS_RemoveElement
<1>2. Cardinality(D) \in Nat
  BY <1>1, FS_CardinalityType
<1> HIDE DEF D
<1>3. Cardinality(Doomed') <= Cardinality(D)
  BY <1>1, FS_Subset DEF D
<1>4. Cardinality(Doomed') + 1 <= Cardinality(Doomed)
  BY <1>1, <1>2, <1>3, DoomedCount
<1> QED BY <1>4, DoomedCount, Counts DEF Pays

\* Only poll p can fall by a step of its own.
LEMMA OthersStand ==
  ASSUME IInv, IInv', NEW p \in Polls, NEW x, Goto(p, x), Undisturbed(wk[p], job', 0)
  PROVE  /\ Doomed' \subseteq Doomed \cup {p}
         /\ (Fallen(x, job') => Fallen(wk[p], job)) => Doomed' \subseteq Doomed
         /\ ~Fallen(x, job') => Doomed' \subseteq Doomed \ {p}
<1>1. /\ wk'[p] = x /\ \A q \in Polls \ {p} : wk'[q] = wk[q]
  BY Counts DEF Goto
<1>2. ASSUME NEW q \in Polls \ {p}, Fallen(wk[q], job') PROVE Fallen(wk[q], job)
  <2> SUFFICES ASSUME Owns(wk[q], job), job.lease > 0
               PROVE  Owns(wk[q], job') /\ job'.lease > 0
    BY <1>2 DEF Fallen
  <2>1. /\ job.status = "claimed" <=> job.token # NoToken
        /\ job'.status = "claimed" <=> job'.token # NoToken
    BY DEF IInv, TypeOK
  <2>2. ~Owns(wk[p], job)
    BY <2>1 DEF Owns, IInv, OwnTokens
  <2>3. job'.token = job.token /\ job'.lease = job.lease
    BY <2>2 DEF Undisturbed, Owns
  <2> QED BY <2>1, <2>3 DEF Owns
<1>3. ASSUME NEW q \in Doomed', q # p PROVE q \in Doomed
  <2>1. q \in Polls /\ Fallen(wk'[q], job')
    BY DEF Doomed
  <2>2. Fallen(wk[q], job)
    BY <1>1, <1>2, <1>3, <2>1
  <2> QED BY <2>1, <2>2 DEF Doomed
<1>4. p \in Doomed' <=> Fallen(x, job')
  BY <1>1 DEF Doomed
<1>5. p \in Doomed <=> Fallen(wk[p], job)
  BY DEF Doomed
<1> QED BY <1>3, <1>4, <1>5

\* A step of poll p that counts no hang.
LEMMA PaidStep ==
  ASSUME IInv, IInv', Paid, Affords, NEW p \in Polls, NEW x, Goto(p, x),
         hang' = hang \/ Forgiven(p),
         Spent(x) \in {0, Spent(wk[p]), hang[on[p]]}
  PROVE  Paid'
<1>1. /\ wk'[p] = x /\ \A q \in Polls \ {p} : wk'[q] = wk[q]
      /\ on[p] \in Instances /\ hang \in [Instances -> Nat]
  BY Counts DEF Goto
<1>2. \A q \in Polls : Spent(wk[q]) \in Nat
  BY Counts DEF Spent, PollState
<1>3. \A h \in Nat : Pays(h) => h + Cardinality(Doomed') <= faults'
  BY DEF Affords
<1>4. 0 + Cardinality(Doomed') <= faults'
  BY <1>3 DEF Paid
<1>5. ASSUME NEW i \in Instances PROVE hang'[i] + Cardinality(Doomed') <= faults'
  <2>1. hang'[i] = hang[i] \/ hang'[i] = 0
    BY <1>1 DEF Forgiven
  <2> QED BY <1>1, <1>3, <1>4, <2>1 DEF Paid
<1>6. ASSUME NEW q \in Polls PROVE Spent(wk'[q]) + Cardinality(Doomed') <= faults'
  <2>1. CASE q = p
    BY <1>1, <1>2, <1>3, <1>4, <2>1 DEF Paid
  <2>2. CASE q # p
    BY <1>1, <1>2, <1>3, <2>2 DEF Paid
  <2> QED BY <2>1, <2>2
<1> QED BY <1>4, <1>5, <1>6 DEF Paid, Pays

\* A poll without a claim has not fallen, and knows of no hang.
LEMMA IdlePays == Spent(IdlePoll) = 0 /\ \A r : ~Fallen(IdlePoll, r)
BY DEF Spent, Fallen, IdlePoll, Counted

\* The end of a poll.
LEMMA EndPaid ==
  ASSUME IInv, IInv', Paid, NEW p \in Polls, Goto(p, IdlePoll),
         Undisturbed(wk[p], job', 0), hang' = hang \/ Forgiven(p), faults <= faults'
  PROVE  Paid'
<1>1. faults' \in Nat
  BY SchedulerNumbers DEF IInv, TypeOK
<1>2. Doomed' \subseteq Doomed
  BY IdlePays, OthersStand
<1>3. Affords
  BY <1>1, <1>2, FewerDoomed
<1> QED BY <1>3, IdlePays, PaidStep

\* The poll goes on, no worse off than before.
LEMMA GoOnPaid ==
  ASSUME IInv, IInv', Paid, NEW p \in Polls, NEW x, Goto(p, x),
         Undisturbed(wk[p], job', 0), hang' = hang, faults' = faults,
         Fallen(x, job') => Fallen(wk[p], job),
         Spent(x) \in {0, Spent(wk[p]), hang[on[p]]}
  PROVE  Paid'
<1>1. faults' \in Nat /\ faults <= faults'
  BY Counts
<1>2. Doomed' \subseteq Doomed
  BY OthersStand
<1>3. Affords
  BY <1>1, <1>2, FewerDoomed
<1> QED BY <1>3, PaidStep

\* A refused renewal or settlement: the lease was gone.
LEMMA RefusedHasFallen ==
  ASSUME IInv, NEW p \in Polls, NEW a \in BOOLEAN, wk[p].pc \in Counted,
         wk[p].lost \/ DecideLeaseMutation(job, "claimed", wk[p].token, a, 0) # "ok"
  PROVE  Fallen(wk[p], job)
<1> SUFFICES ASSUME Owns(wk[p], job), job.lease > 0
             PROVE  DecideLeaseMutation(job, "claimed", wk[p].token, a, 0) = "ok"
  BY DEF Fallen
<1>1. job.token # NoToken
  BY DEF Owns, IInv, TypeOK
<1>2. IsLeaseActive(job.lease, 0)
  BY DEF IsLeaseActive, NoTime
<1> QED BY <1>1, <1>2 DEF DecideLeaseMutation, Owns

LEMMA KeptStands == ASSUME Kept PROVE \A x : Undisturbed(x, job', 0)
BY DEF Kept, Undisturbed

LEMMA ListPaid ==
  ASSUME IInv, IInv', Paid, NEW p \in Polls, List(p)
  PROVE  Paid'
<1>1. wk[p].pc = "idle" /\ hang' = hang /\ faults' = faults
  BY DEF List, Stays
<1>2. Undisturbed(wk[p], job', 0)
  <2>1. CASE Store(ReleaseExpiredJob(job, 0))
    BY <2>1, ReleaseMove
  <2>2. CASE Kept
    BY <2>2, KeptStands
  <2> QED BY <2>1, <2>2 DEF List
<1>3. CASE Goto(p, [IdlePoll EXCEPT !.pc = "listed"])
  <2> DEFINE x == [IdlePoll EXCEPT !.pc = "listed"]
  <2>1. x.pc = "listed" /\ x.hangs = 0 /\ Goto(p, x)
    BY <1>3 DEF IdlePoll
  <2> HIDE DEF x
  <2>2. Spent(x) = 0 /\ ~Fallen(x, job')
    BY <2>1 DEF Spent, Fallen, Counted
  <2> QED BY <1>1, <1>2, <2>1, <2>2, GoOnPaid
<1>4. CASE UNCHANGED wk
  <2>1. Goto(p, wk[p])
    BY <1>4, Counts DEF Goto
  <2>2. ~Fallen(wk[p], job')
    BY <1>1 DEF Fallen, Counted
  <2> QED BY <1>1, <1>2, <2>1, <2>2, GoOnPaid
<1> QED BY <1>3, <1>4 DEF List

LEMMA ClaimPaid ==
  ASSUME IInv, IInv', Paid, NEW p \in Polls, Claim(p)
  PROVE  Paid'
<1> DEFINE won == ClaimedJob(job, Fresh, LeaseMs, 0)
<1>1. hang' = hang /\ faults' = faults /\ faults <= faults'
  BY Counts DEF Claim, Stays
<1>2. CASE Goto(p, IdlePoll) /\ Kept
  BY <1>1, <1>2, KeptStands, EndPaid
<1>3. CASE /\ DecideReconciliationClaim(job, 0) = "acquired" /\ Store(won)
           /\ Goto(p, [IdlePoll EXCEPT
                !.pc = IF hang[on[p]] >= MaxAttempts THEN "overrun" ELSE "running",
                !.token = won.token, !.attempts = won.attempts, !.hangs = hang[on[p]]])
  <2> DEFINE x == [IdlePoll EXCEPT
                     !.pc = IF hang[on[p]] >= MaxAttempts THEN "overrun" ELSE "running",
                     !.token = won.token, !.attempts = won.attempts,
                     !.hangs = hang[on[p]]]
  <2>1. /\ job'.status = "claimed" /\ job'.token = Fresh /\ job'.lease > 0
        /\ won.token = Fresh /\ Undisturbed(wk[p], job', 0)
    BY <1>3, ClaimMove
  <2> HIDE DEF won
  <2>2. /\ x.pc \in {"overrun", "running"} /\ x.token = Fresh /\ ~x.lost
        /\ x.hangs = hang[on[p]] /\ Goto(p, x)
    BY <1>3, <2>1 DEF IdlePoll
  <2> HIDE DEF x
  <2>3. ~Fallen(x, job') /\ Spent(x) = hang[on[p]]
    BY <2>1, <2>2 DEF Fallen, Owns, Spent
  <2> QED BY <1>1, <2>1, <2>2, <2>3, GoOnPaid
<1> QED BY <1>2, <1>3 DEF Claim

LEMMA RenewPaid ==
  ASSUME IInv, IInv', Paid, NEW p \in Polls, Renew(p), UNCHANGED <<on, store>>
  PROVE  Paid'
<1>1. /\ wk[p].pc = "running" /\ ~wk[p].lost /\ hang' = hang /\ faults' = faults
      /\ wk[p] \in PollState
  BY Counts DEF Renew, Stays
<1>2. CASE DecideLeaseMutation(job, "claimed", wk[p].token, TRUE, 0) = "ok"
  <2> DEFINE x == [wk[p] EXCEPT !.token = Fresh]
  <2>1. Store(RenewedJob(job, Fresh, LeaseMs, 0)) /\ Goto(p, x)
    BY <1>2 DEF Renew
  <2>2. /\ job'.status = "claimed" /\ job'.token = Fresh /\ job'.lease > 0
    BY <1>1, <1>2, <2>1, Renewal
  <2>3. \A r, f : Undisturbed(wk[p], r, f)
    BY <1>2, FencedOwner
  <2>4. x.pc = "running" /\ x.token = Fresh /\ ~x.lost /\ x.hangs = wk[p].hangs
    BY <1>1 DEF PollState
  <2> HIDE DEF x
  <2>5. ~Fallen(x, job') /\ Spent(x) = Spent(wk[p])
    BY <1>1, <2>2, <2>4 DEF Fallen, Owns, Spent
  <2> QED BY <1>1, <2>1, <2>3, <2>5, GoOnPaid
<1>3. CASE DecideLeaseMutation(job, "claimed", wk[p].token, TRUE, 0) # "ok"
  <2> DEFINE x == [wk[p] EXCEPT !.lost = TRUE]
  <2>1. Kept /\ Goto(p, x)
    BY <1>3 DEF Renew
  <2>2. Fallen(wk[p], job)
    BY <1>1, <1>3, RefusedHasFallen DEF Counted
  <2>3. Spent(x) = Spent(wk[p])
    BY <1>1 DEF Spent, PollState
  <2> HIDE DEF x
  <2> QED BY <1>1, <2>1, <2>2, <2>3, KeptStands, GoOnPaid
<1> QED BY <1>2, <1>3

LEMMA HandlerSettlesPaid ==
  ASSUME IInv, IInv', Paid, NEW p \in Polls, NEW answer, HandlerSettles(p, answer)
  PROVE  Paid'
<1> DEFINE x == [wk[p] EXCEPT !.pc = "settle", !.answer = answer]
<1>1. /\ wk[p].pc = "running" /\ Goto(p, x) /\ Kept
      /\ hang' = hang /\ faults' = faults /\ wk[p] \in PollState
  BY Counts DEF HandlerSettles
<1>2. /\ x.pc = "settle" /\ x.token = wk[p].token /\ x.lost = wk[p].lost
      /\ x.hangs = wk[p].hangs
  BY <1>1 DEF PollState
<1> HIDE DEF x
<1>3. Spent(x) = Spent(wk[p])
  BY <1>1, <1>2 DEF Spent
<1>4. Fallen(x, job') => Fallen(wk[p], job)
  BY <1>1, <1>2 DEF Fallen, Owns, Counted, Kept
<1> QED BY <1>1, <1>3, <1>4, KeptStands, GoOnPaid

LEMMA RefusedPaid ==
  ASSUME IInv, IInv', Paid, NEW p \in Polls, Refused(p), Stays, Fallen(wk[p], job),
         wk[p].pc \in Counted
  PROVE  Paid'
<1> DEFINE x == [wk[p] EXCEPT !.pc = "get"]
<1>1. Goto(p, x) /\ Kept /\ hang' = hang /\ faults' = faults /\ wk[p] \in PollState
  BY Counts DEF Refused, Stays
<1>2. x.pc = "get" /\ x.hangs = wk[p].hangs
  BY <1>1 DEF PollState
<1> HIDE DEF x
<1>3. Spent(x) = Spent(wk[p])
  BY <1>2 DEF Spent, Counted
<1> QED BY <1>1, <1>3, KeptStands, GoOnPaid

LEMMA SettledPaid ==
  ASSUME IInv, IInv', Paid, NEW p \in Polls, NEW r, Settled(p, r), Stays,
         NEW a \in BOOLEAN, DecideLeaseMutation(job, "claimed", wk[p].token, a, 0) = "ok"
  PROVE  Paid'
<1>1. Goto(p, IdlePoll) /\ Forgiven(p) /\ faults <= faults'
  BY Counts DEF Settled, Stays
<1>2. Undisturbed(wk[p], job', 0)
  BY FencedOwner
<1> QED BY <1>1, <1>2, EndPaid

LEMMA SettlePaid ==
  ASSUME IInv, IInv', Paid, NEW p \in Polls, Complete(p) \/ Review(p) \/ Fail(p)
  PROVE  Paid'
<1>1. wk[p].pc \in Counted /\ Stays
  BY DEF Complete, Completes, Review, Reviews, Fail, Fails, Retries, Counted
<1>2. CASE \/ CanComplete(p) /\ Settled(p, ClosedJob(job, "completed"))
           \/ CanReview(p) /\ Settled(p, ClosedJob(job, "manual_review"))
           \/ CanFail(p) /\ Settled(p, FailedJob(job, RetryMs))
  BY <1>1, <1>2, SettledPaid DEF CanComplete, CanReview, CanFail
<1>3. CASE /\ Refused(p)
           /\ wk[p].lost \/ ~CanComplete(p) \/ ~CanReview(p) \/ ~CanFail(p)
  <2>1. Fallen(wk[p], job)
    BY <1>1, <1>3, RefusedHasFallen DEF CanComplete, CanReview, CanFail
  <2> QED BY <1>1, <1>3, <2>1, RefusedPaid
<1> QED BY <1>2, <1>3 DEF Complete, Review, Fail

\* The catch block: the hang it counts is its own, on top of what it read.
LEMMA GetPaid ==
  ASSUME IInv, IInv', Paid, NEW p \in Polls, Get(p), UNCHANGED <<on, store>>
  PROVE  Paid'
<1>1. wk[p].pc = "get" /\ Kept /\ faults' = faults /\ faults <= faults'
  BY Counts DEF Get, Stays
<1>2. /\ wk[p] \in PollState /\ wk[p].hangs \in Nat /\ Spent(wk[p]) = wk[p].hangs
      /\ hang \in [Instances -> Nat] /\ on[p] \in Instances
  BY <1>1, Counts DEF PollState, Spent
<1>3. CASE Goto(p, IdlePoll) /\ UNCHANGED hang
  BY <1>1, <1>3, KeptStands, EndPaid
<1>4. CASE /\ hang' = [hang EXCEPT ![on[p]] = wk[p].hangs + 1]
           /\ \/ Goto(p, [wk[p] EXCEPT !.pc = "park"]) \/ Goto(p, IdlePoll)
  <2>1. PICK x : Goto(p, x) /\ x \in {[wk[p] EXCEPT !.pc = "park"], IdlePoll}
    BY <1>4
  <2>2. /\ ~Fallen(x, job') /\ Spent(x) \in {0, wk[p].hangs + 1}
    <3>1. CASE x = IdlePoll
      BY <3>1, IdlePays
    <3>2. CASE x = [wk[p] EXCEPT !.pc = "park"]
      <4>1. x.pc = "park" /\ x.hangs = wk[p].hangs
        BY <1>2, <3>2 DEF PollState
      <4> QED BY <4>1 DEF Fallen, Spent, Counted
    <3> QED BY <2>1, <3>1, <3>2
  <2>3. Doomed' \subseteq Doomed \ {p} /\ p \in Doomed
    BY <1>1, <2>1, <2>2, KeptStands, OthersStand DEF Doomed, Fallen
  <2>4. \A h \in Nat : Pays(h) => h + 1 + Cardinality(Doomed') <= faults'
    BY <1>1, <2>3, HangCounted
  <2>5. Doomed' \subseteq Doomed
    BY <2>3
  <2>6. \A h \in Nat : Pays(h) => h + Cardinality(Doomed') <= faults'
    <3>1. faults' \in Nat
      BY <1>1, Counts
    <3> QED BY <1>1, <2>5, <3>1, FewerDoomed DEF Affords
  <2>7. Pays(wk[p].hangs) /\ Pays(0)
    BY <1>2 DEF Paid
  <2>8. /\ 0 + Cardinality(Doomed') <= faults'
        /\ wk[p].hangs + 1 + Cardinality(Doomed') <= faults'
    BY <1>2, <2>4, <2>6, <2>7
  <2>9. ASSUME NEW i \in Instances PROVE hang'[i] + Cardinality(Doomed') <= faults'
    <3>1. hang'[i] = wk[p].hangs + 1 \/ hang'[i] = hang[i]
      BY <1>2, <1>4
    <3> QED BY <1>2, <2>6, <2>8, <3>1 DEF Paid
  <2>10. ASSUME NEW q \in Polls PROVE Spent(wk'[q]) + Cardinality(Doomed') <= faults'
    <3>1. wk'[p] = x /\ (q # p => wk'[q] = wk[q]) /\ Spent(wk[q]) \in Nat
      BY <2>1, Counts DEF Goto, Spent, PollState
    <3>2. CASE q = p
      BY <2>2, <2>8, <3>1, <3>2
    <3>3. CASE q # p
      BY <2>6, <3>1, <3>3 DEF Paid
    <3> QED BY <3>2, <3>3
  <2> QED BY <2>8, <2>9, <2>10 DEF Paid, Pays
<1> QED BY <1>3, <1>4 DEF Get

LEMMA ParkPaid ==
  ASSUME IInv, IInv', Paid, NEW p \in Polls, Park(p)
  PROVE  Paid'
<1> DEFINE won == ClaimedJob(job, Fresh, LeaseMs, 0)
<1>1. wk[p].pc = "park" /\ hang' = hang /\ faults' = faults /\ faults <= faults'
  BY Counts DEF Park, Stays
<1>2. CASE Goto(p, IdlePoll) /\ Kept
  BY <1>1, <1>2, KeptStands, EndPaid
<1>3. CASE /\ DecideReconciliationClaim(job, 0) = "acquired" /\ Store(won)
           /\ Goto(p, [wk[p] EXCEPT !.pc = "parking", !.token = won.token])
  <2> DEFINE x == [wk[p] EXCEPT !.pc = "parking", !.token = won.token]
  <2>1. Undisturbed(wk[p], job', 0)
    BY <1>3, ClaimMove
  <2>2. x.pc = "parking" /\ x.hangs = wk[p].hangs /\ Goto(p, x)
    BY <1>3, Counts DEF PollState
  <2> HIDE DEF x
  <2>3. ~Fallen(x, job') /\ Spent(x) = Spent(wk[p])
    BY <1>1, <2>2 DEF Fallen, Spent, Counted
  <2> QED BY <1>1, <2>1, <2>2, <2>3, GoOnPaid
<1> QED BY <1>2, <1>3 DEF Park

LEMMA ReviewParkedPaid ==
  ASSUME IInv, IInv', Paid, NEW p \in Polls, ReviewParked(p)
  PROVE  Paid'
<1>1. Goto(p, IdlePoll) /\ faults <= faults' /\ (hang' = hang \/ Forgiven(p))
  BY Counts DEF ReviewParked, Stays
<1>2. Undisturbed(wk[p], job', 0)
  BY FencedOwner, KeptStands DEF ReviewParked, CanReview
<1> QED BY <1>1, <1>2, EndPaid

\* A lost heartbeat makes its poll fall, and is a fault.
LEMMA HeartbeatFaultPaid ==
  ASSUME IInv, IInv', Paid, NEW p \in Polls, HeartbeatFault(p)
  PROVE  Paid'
<1> DEFINE x == [wk[p] EXCEPT !.lost = TRUE]
<1>1. Goto(p, x) /\ hang' = hang /\ faults' = faults + 1 /\ wk[p] \in PollState
  BY Counts DEF HeartbeatFault
<1>2. Undisturbed(wk[p], job', 0)
  BY FencedOwner, KeptStands DEF HeartbeatFault
<1>3. Spent(x) = Spent(wk[p])
  BY <1>1 DEF Spent, PollState
<1> HIDE DEF x
<1>4. Affords
  BY <1>1, <1>2, OthersStand, OneMoreDoomed
<1> QED BY <1>1, <1>3, <1>4, PaidStep

LEMMA FaultPaid ==
  ASSUME IInv, IInv', Paid, NEW p \in Polls, SettleFault(p) \/ CallFault(p)
  PROVE  Paid'
<1>1. Goto(p, IdlePoll) /\ hang' = hang /\ faults <= faults'
  BY Counts DEF SettleFault, CallFault
<1>2. CASE CallFault(p)
  BY <1>1, <1>2, CallFaultMove, EndPaid
<1>3. CASE SettleFault(p)
  <2>1. Kept \/ CanComplete(p) \/ CanReview(p) \/ CanFail(p)
    BY <1>3 DEF SettleFault
  <2>2. Undisturbed(wk[p], job', 0)
    BY <2>1, FencedOwner, KeptStands DEF CanComplete, CanReview, CanFail
  <2> QED BY <1>1, <2>2, EndPaid
<1> QED BY <1>2, <1>3

\* No poll falls by a step that is not a poll's, but for a stall past its lease.
LEMMA ApartPaid ==
  ASSUME IInv, Paid, Affords,
         \A q \in Polls : wk'[q] \in {wk[q], IdlePoll},
         \A i \in Instances : hang'[i] \in {hang[i], 0}
  PROVE  Paid'
<1>1. \A h \in Nat : Pays(h) => h + Cardinality(Doomed') <= faults'
  BY DEF Affords
<1>2. 0 + Cardinality(Doomed') <= faults'
  BY <1>1 DEF Paid
<1>3. ASSUME NEW i \in Instances PROVE hang'[i] + Cardinality(Doomed') <= faults'
  BY <1>1, <1>2, Counts DEF Paid
<1>4. ASSUME NEW q \in Polls PROVE Spent(wk'[q]) + Cardinality(Doomed') <= faults'
  <2>1. Spent(wk[q]) \in Nat /\ Spent(IdlePoll) = 0
    BY IdlePays, Counts DEF Spent, PollState
  <2> QED BY <1>1, <1>2, <2>1 DEF Paid
<1> QED BY <1>2, <1>3, <1>4 DEF Paid, Pays

LEMMA CrashPaid ==
  ASSUME IInv, Paid, NEW i \in Instances, Crash(i)
  PROVE  Paid'
<1>1. /\ \A q \in Polls : wk'[q] \in {wk[q], IdlePoll}
      /\ job' = job /\ faults' = faults + 1
      /\ \A j \in Instances : hang'[j] \in {hang[j], 0}
  BY Counts DEF Crash, Kept
<1>2. Doomed' \subseteq Doomed
  BY <1>1, IdlePays DEF Doomed
<1>3. Affords
  BY <1>1, <1>2, FewerDoomed, Counts
<1> QED BY <1>1, <1>3, ApartPaid

LEMMA SchedulePaid ==
  ASSUME IInv, Paid, NEW dueAt, Schedule(dueAt)
  PROVE  Paid'
<1>1. wk' = wk /\ hang' = hang /\ faults' = faults /\ job.status # "claimed"
  BY DEF Schedule, Schedulable, JobClosed
<1>2. Doomed' \subseteq Doomed
  BY <1>1 DEF Doomed, Fallen, Owns
<1>3. Affords
  BY <1>1, <1>2, FewerDoomed, Counts
<1> QED BY <1>1, <1>3, ApartPaid

LEMMA TickPaid ==
  ASSUME IInv, IInv', Paid, Tick
  PROVE  Paid'
<1>1. /\ wk' = wk /\ hang' = hang
      /\ job' = [job EXCEPT !.lease = Less(@), !.dueAt = Less(@)]
      /\ IF Guarded THEN faults' = faults + 1 ELSE faults' = faults
  BY DEF Tick
<1>2. /\ job \in JobRow /\ job'.status = job.status /\ job'.token = job.token
      /\ job'.lease = Less(job.lease)
  BY <1>1 DEF IInv, TypeOK, JobRow
<1>3. ASSUME NEW q \in Doomed', q \notin Doomed
      PROVE  q \in Polls /\ wk[q].token = job.token /\ job.status = "claimed" /\ job.lease = 1
  <2>1. q \in Polls /\ Fallen(wk[q], job') /\ ~Fallen(wk[q], job)
    BY <1>1, <1>3 DEF Doomed
  <2>2. Owns(wk[q], job) /\ job.lease > 0 /\ ~(Owns(wk[q], job') /\ job'.lease > 0)
    BY <2>1 DEF Fallen
  <2>3. ~(Less(job.lease) > 0)
    BY <1>2, <2>2 DEF Owns
  <2>4. job.lease \in Nat
    BY <1>2, <2>2 DEF JobRow, Time, NoTime
  <2> QED BY <2>1, <2>2, <2>3, <2>4 DEF Less, Owns
<1>4. Affords
  <2>1. CASE Doomed' \subseteq Doomed
    BY <1>1, <2>1, FewerDoomed, Counts
  <2>2. CASE ~(Doomed' \subseteq Doomed)
    <3>1. PICK p \in Doomed' : p \notin Doomed
      BY <2>2
    <3>2. p \in Polls /\ wk[p].token = job.token /\ job.status = "claimed" /\ Guarded
      BY <1>3, <3>1 DEF Guarded
    <3>3. job.token # NoToken
      BY <3>2 DEF IInv, TypeOK
    <3>4. ASSUME NEW q \in Doomed', q \notin Doomed PROVE q = p
      BY <1>3, <3>2, <3>3, <3>4 DEF IInv, OwnTokens
    <3>5. Doomed' \subseteq Doomed \cup {p}
      BY <3>4
    <3> QED BY <1>1, <3>2, <3>5, OneMoreDoomed
  <2> QED BY <2>1, <2>2
<1> QED BY <1>1, <1>4, ApartPaid

LEMMA InitPaid == Init => Paid
<1> SUFFICES ASSUME Init PROVE Paid
  OBVIOUS
<1>1. /\ \A p \in Polls : wk[p] = IdlePoll
      /\ \A i \in Instances : hang[i] = 0
      /\ faults = 0
  BY DEF Init
<1>2. Doomed = {}
  BY <1>1, IdlePays DEF Doomed
<1>3. Pays(0)
  BY <1>1, <1>2, FS_EmptySet DEF Pays
<1> QED BY <1>1, <1>3, IdlePays DEF Paid

LEMMA StepPaid == IInv /\ Paid /\ [Next]_vars => Paid'
<1> SUFFICES ASSUME IInv, Paid, [Next]_vars PROVE Paid'
  OBVIOUS
<1>1. IInv'
  BY StepIInv
<1>2. CASE UNCHANGED vars
  BY <1>2 DEF vars, work, Paid, Pays, Doomed
<1>3. ASSUME Next PROVE Paid'
  <2>1. UNCHANGED <<on, store>>
    BY <1>3 DEF Next
  <2>2. ASSUME NEW dueAt \in 0..1, Schedule(dueAt) PROVE Paid'
    BY <2>2, SchedulePaid
  <2>3. ASSUME NEW p \in Polls, List(p) PROVE Paid'
    BY <1>1, <2>3, ListPaid
  <2>4. ASSUME NEW p \in Polls, Continue(p) PROVE Paid'
    BY <1>1, <2>1, <2>4, ClaimPaid, SettlePaid, GetPaid, ParkPaid, ReviewParkedPaid
       DEF Continue
  <2>5. ASSUME NEW p \in Polls, Renew(p) PROVE Paid'
    BY <1>1, <2>1, <2>5, RenewPaid
  <2>6. ASSUME NEW p \in Polls, NEW answer \in Dispositions, HandlerSettles(p, answer)
        PROVE  Paid'
    BY <1>1, <2>6, HandlerSettlesPaid
  <2>7. ASSUME NEW p \in Polls, HeartbeatFault(p) \/ SettleFault(p) \/ CallFault(p)
        PROVE  Paid'
    BY <1>1, <2>7, HeartbeatFaultPaid, FaultPaid
  <2>8. ASSUME NEW i \in Instances, Crash(i) PROVE Paid'
    BY <2>8, CrashPaid
  <2>9. CASE Tick
    BY <1>1, <2>9, TickPaid
  <2> QED BY <1>3, <2>2, <2>3, <2>4, <2>5, <2>6, <2>7, <2>8, <2>9 DEF Next, Step
<1> QED BY <1>2, <1>3

\* Every hang an instance counts, and every one a poll is about to count, was paid for
\* by a fault of its own, however many polls read the counter before they add to it.
THEOREM HangsArePaid == Spec => [](IInv /\ Paid)
BY InitIInv, StepIInv, InitPaid, StepPaid, PTL DEF Spec

-----------------------------------------------------------------------------
(* Parking.                                                                *)

\* A review that the handler did not ask for has its cause.
LEMMA ReviewHasCause ==
  ASSUME IInv, Paid, NEW p \in Polls,
         Reviews(p) \/ wk[p].pc = "parking", ~Asked(p)
  PROVE  MayPark(p)
<1>1. /\ RecordOK(wk[p]) /\ Known(wk[p], job, faults, openings, recorded)
      /\ wk[p].attempts \in Nat /\ wk[p].hangs \in Nat /\ recorded \in Nat
      /\ openings \in Nat /\ faults \in Nat
  BY Counts, SchedulerNumbers DEF IInv, TypeOK, AllRecords, AllKnown, PollState
<1>2. Spent(wk[p]) <= faults
  <2>1. Spent(wk[p]) + Cardinality(Doomed) <= faults /\ Spent(wk[p]) \in Nat
    BY <1>1 DEF Paid, Pays, Spent
  <2> QED BY <1>1, <2>1, DoomedCount
<1>3. wk[p].attempts >= MaxAttempts =>
        recorded + 1 >= MaxAttempts \/ (openings > 1 /\ wk[p].attempts >= MaxAttempts)
  <2>1. openings <= 1 => wk[p].attempts <= recorded + 1
    BY <1>1 DEF Known
  <2> QED BY <1>1, <2>1, SchedulerNumbers
<1>4. CASE wk[p].pc = "parking"
  <2>1. /\ wk[p].answer # "retry_later" /\ Spent(wk[p]) = wk[p].hangs + 1
        /\ wk[p].hangs + 1 >= MaxAttempts \/ wk[p].attempts >= MaxAttempts
    BY <1>1, <1>4 DEF RecordOK, Spent
  <2>2. wk[p].hangs + 1 >= MaxAttempts => faults >= MaxAttempts
    BY <1>1, <1>2, <2>1, SchedulerNumbers
  <2> QED BY <1>3, <2>1, <2>2 DEF MayPark
<1>5. CASE wk[p].pc = "overrun"
  <2>1. wk[p].hangs >= MaxAttempts /\ wk[p].answer = "none" /\ Spent(wk[p]) = wk[p].hangs
    BY <1>1, <1>5 DEF RecordOK, Spent
  <2>2. faults >= MaxAttempts
    BY <1>1, <1>2, <2>1, SchedulerNumbers
  <2> QED BY <2>1, <2>2 DEF MayPark
<1>6. CASE Retries(p) /\ AtBudget(p)
  BY <1>3, <1>6 DEF AtBudget, MayPark
<1> QED BY <1>4, <1>5, <1>6 DEF Reviews, Asked

\* No other write of the store hands the job to a person.
LEMMA OnlyReviewsPark ==
  ASSUME IInv, Next, job.status # "manual_review", job'.status = "manual_review"
  PROVE  \E q \in Polls : /\ Review(q) \/ ReviewParked(q) \/ SettleFault(q)
                          /\ CanReview(q) /\ (Reviews(q) \/ wk[q].pc = "parking")
<1>1. job' # job /\ job \in JobRow
  BY DEF IInv, TypeOK
<1>2. ASSUME NEW dueAt \in 0..1, Schedule(dueAt) PROVE FALSE
  <2> DEFINE r == ScheduledRow(job, dueAt)
  <2>1. r \in JobRow /\ r.status = "scheduled"
    BY <1>1 DEF ScheduledRow, JobRow, JobStatuses, Time, NoTime, NoToken
  <2>2. Store(r)
    BY <1>2 DEF Schedule
  <2> HIDE DEF r
  <2> QED BY <2>1, <2>2, Stored
<1>3. ASSUME NEW p \in Polls, List(p) PROVE FALSE
  <2>1. Store(ReleaseExpiredJob(job, 0))
    BY <1>1, <1>3 DEF List, Kept
  <2>2. job'.status = ReleaseExpiredJob(job, 0).status
    BY <2>1, ReleaseMove
  <2> QED BY <1>1, <2>2 DEF ReleaseExpiredJob, JobRow
<1>4. ASSUME NEW p \in Polls, Claim(p) \/ Park(p) PROVE FALSE
  BY <1>1, <1>4, ClaimMove DEF Claim, Park, Kept
<1>5. ASSUME NEW p \in Polls, CanComplete(p), Store(ClosedJob(job, "completed")) PROVE FALSE
  BY <1>5, FencedOwner, CloseMove DEF CanComplete, Owns
<1>6. ASSUME NEW p \in Polls, CanFail(p), Store(FailedJob(job, RetryMs)) PROVE FALSE
  BY <1>6, FencedOwner, FailMove DEF CanFail, Owns
<1>7. ASSUME NEW p \in Polls, Complete(p) \/ Fail(p) PROVE FALSE
  BY <1>1, <1>5, <1>6, <1>7 DEF Complete, Fail, Settled, Refused, Kept
<1>8. ASSUME NEW p \in Polls, wk[p].pc = "running",
             DecideLeaseMutation(job, "claimed", wk[p].token, TRUE, 0) = "ok",
             Store(RenewedJob(job, Fresh, LeaseMs, 0))
      PROVE  FALSE
  BY <1>8, FencedOwner, RenewMove DEF Owns
<1>9. ASSUME NEW p \in Polls, Renew(p) \/ HeartbeatFault(p) PROVE FALSE
  BY <1>1, <1>8, <1>9 DEF Renew, HeartbeatFault, Kept
<1>10. ASSUME NEW p \in Polls, NEW answer, Get(p) \/ HandlerSettles(p, answer) PROVE FALSE
  BY <1>1, <1>10 DEF Get, HandlerSettles, Kept
<1>11. ASSUME NEW p \in Polls, Review(p)
       PROVE  CanReview(p) /\ Reviews(p)
  BY <1>1, <1>11 DEF Review, Refused, Kept
<1>12. ASSUME NEW p \in Polls, ReviewParked(p)
       PROVE  CanReview(p) /\ wk[p].pc = "parking"
  BY <1>1, <1>12 DEF ReviewParked, Kept
<1>13. ASSUME NEW p \in Polls, SettleFault(p)
       PROVE  CanReview(p) /\ (Reviews(p) \/ wk[p].pc = "parking")
  BY <1>1, <1>5, <1>6, <1>13 DEF SettleFault, Kept
<1>14. ASSUME NEW p \in Polls, CallFault(p) PROVE FALSE
  <2>1. CASE Store(ReleaseExpiredJob(job, 0))
    <3>1. job'.status = ReleaseExpiredJob(job, 0).status
      BY <2>1, ReleaseMove
    <3> QED BY <1>1, <3>1 DEF ReleaseExpiredJob, JobRow
  <2>2. CASE /\ DecideReconciliationClaim(job, 0) = "acquired"
             /\ Store(ClaimedJob(job, Fresh, LeaseMs, 0))
    BY <2>2, ClaimMove
  <2> QED BY <1>1, <1>14, <2>1, <2>2 DEF CallFault, Kept
<1>15. ASSUME NEW i \in Instances, Crash(i) PROVE FALSE
  BY <1>1, <1>15 DEF Crash, Kept
<1>16. ASSUME Tick PROVE FALSE
  BY <1>1, <1>16 DEF Tick, JobRow
<1> QED BY <1>2, <1>3, <1>4, <1>7, <1>9, <1>10, <1>11, <1>12, <1>13, <1>14, <1>15, <1>16
        DEF Next, Step, Continue

\* RECON-3, S19-RECON-HB: a poll that parks a job of its own accord never does so on a
\* retry_later, and has had the faults or the recorded failures for it, whatever other
\* polls did to counters and rows between its reads and its writes.
THEOREM ParksForCause == Spec => ParkedForCause
<1>1. IInv /\ Paid /\ [Next]_vars =>
        [job.status # "manual_review" /\ job'.status = "manual_review" =>
           \E p \in Polls : Parks(p) /\ (Asked(p) \/ MayPark(p))]_vars
  <2> SUFFICES ASSUME IInv, Paid, Next,
                      job.status # "manual_review", job'.status = "manual_review"
               PROVE  \E p \in Polls : Parks(p) /\ (Asked(p) \/ MayPark(p))
    OBVIOUS
  <2>1. PICK p \in Polls : /\ Review(p) \/ ReviewParked(p) \/ SettleFault(p)
                           /\ CanReview(p) /\ (Reviews(p) \/ wk[p].pc = "parking")
    BY OnlyReviewsPark
  <2>2. Goto(p, IdlePoll)
    BY <2>1 DEF Review, Settled, Refused, Kept, ReviewParked, SettleFault
  <2>3. Parks(p)
    BY <2>1, <2>2, Counts, IdleFits DEF Parks, Goto, Reviews, Retries
  <2>4. Asked(p) \/ MayPark(p)
    BY <2>1, ReviewHasCause
  <2> QED BY <2>3, <2>4
<1> QED BY <1>1, HangsArePaid, PTL DEF Spec, ParkedForCause
=============================================================================
