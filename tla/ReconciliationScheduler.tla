----------------------- MODULE ReconciliationScheduler -----------------------
(***************************************************************************)
(* The reconciliation scheduler (packages/reconciliation/src/scheduler.ts) *)
(* on one job: polls of processDue that list, claim, run the handler under *)
(* a renewed lease and settle the job, on one or several scheduler         *)
(* instances over one store.  The hang counter and the in-flight counter   *)
(* live in an instance's memory and die with it.                           *)
(*                                                                         *)
(* A step is the code between two awaits of the store or of the handler.   *)
(* The store answers by the rules of ReconciliationClaims.  The clock is   *)
(* relative: a lease and a due time are the time still to run, so the      *)
(* rules are read at time 0 and Tick lets time pass.  Tokens are compared  *)
(* only for equality, so a fresh one may be any that nobody holds.         *)
(***************************************************************************)
EXTENDS ReconciliationClaims, FiniteSets

CONSTANTS Polls,         \* concurrent calls of processDue
          Instances,     \* scheduler instances
          Deployments,   \* the store's kind, and the instance that runs each poll
          Dispositions,  \* what the handler answers: of DispositionKinds
          MaxAttempts,   \* the maxAttempts option
          MaxInFlight,   \* maxInFlightByGateway of the job's gateway
          LeaseMs,       \* lease duration
          RetryMs,       \* backoff, or the handler's retryAfterMs
          MaxLaters,     \* bound: retry_later answers
          MaxOpenings,   \* bound: schedule calls that open the job
          MaxFaults      \* bound: crashes, stalls past a lease, failed store calls

\* A handler that throws or returns void is taken to have said retry.
DispositionKinds == {"complete", "retry", "retry_later", "manual_review"}

\* At most one poll holds each token, so there is a fresh one.
ASSUME PollsAssumption == IsFiniteSet(Polls)

ASSUME DeploymentAssumption  ==
  Deployments \subseteq [store : {"sql", "redis", "memory"}, on : [Polls -> Instances]]
ASSUME DispositionAssumption == Dispositions \subseteq DispositionKinds
ASSUME SchedulerNumbers == /\ MaxAttempts \in Nat \ {0} /\ MaxInFlight \in Nat \ {0}
                           /\ LeaseMs \in Nat \ {0} /\ RetryMs \in Nat
                           /\ MaxLaters \in Nat /\ MaxOpenings \in Nat /\ MaxFaults \in Nat

VARIABLES on,        \* on[p]: the instance that runs poll p
          store,     \* the kind of the store
          job,       \* the stored row of the job
          index,     \* the score of the job in a Redis store's due index, or NoTime
          wk,        \* wk[p]: what poll p is doing
          hang,      \* hang[i]: hangByKey of the job on instance i
          live,      \* live[i]: liveByGateway of its gateway on instance i
          laters,    \* retry_later answers so far
          openings,  \* times the job was opened
          faults,    \* faults so far
          recorded   \* history: claims of this opening that ended in a recorded fail

work == <<job, index, wk, hang, live, laters, openings, faults, recorded>>
vars == <<on, store, work>>

IdlePoll == [pc |-> "idle", token |-> NoToken, attempts |-> 0, hangs |-> 0,
             answer |-> "none", lost |-> FALSE]

\* Each poll holds at most one token and the row one.
Tokens == 1..(Cardinality(Polls) + 2)
Held   == {job.token} \cup {wk[p].token : p \in Polls}
Fresh  == CHOOSE t \in Tokens \ Held : \A u \in Tokens \ Held : t <= u

Init == /\ \E d \in Deployments : store = d.store /\ on = d.on
        /\ job = NoJob /\ index = NoTime
        /\ wk = [p \in Polls |-> IdlePoll]
        /\ hang = [i \in Instances |-> 0] /\ live = [i \in Instances |-> 0]
        /\ laters = 0 /\ openings = 0 /\ faults = 0 /\ recorded = 0

\* A store call that leaves the row r.  Nobody here reads a generation.
Store(r) == /\ job' = [r EXCEPT !.generation = 0]
            /\ index' = IF store = "redis" THEN DueScore(r) ELSE NoTime

\* The store is only read, or not called.
Kept == UNCHANGED <<job, index>>

Goto(p, poll) == wk' = [wk EXCEPT ![p] = poll]

Stays == UNCHANGED <<laters, openings, faults>>

-----------------------------------------------------------------------------
(* The application                                                         *)

\* A first or a renewed opening of the job; active jobs answer already_exists.
Schedule(dueAt) ==
  /\ openings < MaxOpenings /\ openings' = openings + 1
  /\ Schedulable(job)
  /\ Store(ScheduledRow(job, dueAt))
  /\ recorded' = 0
  /\ UNCHANGED <<wk, hang, live, laters, faults>>

-----------------------------------------------------------------------------
(* addLive and hangByKey                                                   *)

\* Bug: a poll that lost its lease keeps its place among the live claims.
Released_KeepsLive(p) == live' = live

\* addLive(gateway, -1), never below 0.
Released(p) == live' = [live EXCEPT ![on[p]] = IF @ > 0 THEN @ - 1 ELSE 0]

Forgiven(p) == hang' = [hang EXCEPT ![on[p]] = 0]

-----------------------------------------------------------------------------
(* What a settling poll may write                                          *)

\* complete needs an unexpired lease, fail only the token.
CanComplete(p) == DecideLeaseMutation(job, "claimed", wk[p].token, TRUE, 0) = "ok"
CanFail(p)     == DecideLeaseMutation(job, "claimed", wk[p].token, FALSE, 0) = "ok"

\* markManualReview: the SQL templates need the token, the memory store the lease.
CanReview(p) ==
  DecideLeaseMutation(job, "claimed", wk[p].token, store = "memory", 0) = "ok"

\* Bug: a job that waits for a settlement is parked like one that fails.
AtBudget_CountsLater(p) == wk[p].attempts >= MaxAttempts

\* The handler asked to try again and the attempts are used up.
AtBudget(p) == wk[p].answer # "retry_later" /\ wk[p].attempts >= MaxAttempts

\* Which settlement the poll is at: complete; manual_review, a retry at the end of
\* the budget, or a hang budget used up; fail and try again.
Completes(p) == wk[p].pc = "settle" /\ wk[p].answer = "complete"
Retries(p)   == wk[p].pc = "settle" /\ wk[p].answer \in {"retry", "retry_later"}
Fails(p)     == Retries(p) /\ ~AtBudget(p)
Reviews(p)   == \/ wk[p].pc = "overrun"
                \/ wk[p].pc = "settle" /\ wk[p].answer = "manual_review"
                \/ Retries(p) /\ AtBudget(p)

-----------------------------------------------------------------------------
(* processDue                                                              *)

\* listDue sees a job that the index holds with a score that has passed; the other
\* stores look at every row.
Seen == store = "redis" => index # NoTime /\ index <= 0

\* listDue releases the expired claims it sees, and lists the job if it is due; the
\* cap is applied to the listing.
List(p) ==
  LET rec == ReleaseExpiredJob(job, 0)
  IN  /\ wk[p].pc = "idle"
      /\ IF Seen THEN Store(rec) ELSE Kept
      /\ IF Seen /\ rec.status = "scheduled" /\ rec.dueAt <= 0 /\ live[on[p]] < MaxInFlight
         THEN Goto(p, [IdlePoll EXCEPT !.pc = "listed"])
         ELSE UNCHANGED wk
      /\ UNCHANGED <<hang, live, recorded>> /\ Stays

\* The claim is the fence.  A poll whose instance saw the job hang too often
\* parks it instead of running the handler.
Claim(p) ==
  LET kind == DecideReconciliationClaim(job, 0)
      won  == ClaimedJob(job, Fresh, LeaseMs, 0)
  IN  /\ wk[p].pc = "listed"
      /\ \/ /\ kind # "acquired"
            /\ Goto(p, IdlePoll)
            /\ Kept /\ UNCHANGED live
         \/ /\ kind = "acquired"
            /\ Store(won)
            /\ Goto(p, [IdlePoll EXCEPT
                 !.pc = IF hang[on[p]] >= MaxAttempts THEN "overrun" ELSE "running",
                 !.token = won.token, !.attempts = won.attempts, !.hangs = hang[on[p]]])
            /\ live' = [live EXCEPT ![on[p]] = @ + 1]
      /\ UNCHANGED <<hang, recorded>> /\ Stays

\* The heartbeat: a renewal rotates the token, a refusal loses ownership.  They
\* are serialised, and the poll awaits the last one when the handler settles.
Renew(p) ==
  /\ wk[p].pc = "running" /\ ~wk[p].lost
  /\ IF DecideLeaseMutation(job, "claimed", wk[p].token, TRUE, 0) = "ok"
     THEN Store(RenewedJob(job, Fresh, LeaseMs, 0)) /\ Goto(p, [wk[p] EXCEPT !.token = Fresh])
     ELSE Kept /\ Goto(p, [wk[p] EXCEPT !.lost = TRUE])
  /\ UNCHANGED <<hang, live, recorded>> /\ Stays

\* The handler answers, or throws.
HandlerSettles(p, answer) ==
  /\ wk[p].pc = "running"
  /\ answer = "retry_later" => laters < MaxLaters
  /\ laters' = IF answer = "retry_later" THEN laters + 1 ELSE laters
  /\ Goto(p, [wk[p] EXCEPT !.pc = "settle", !.answer = answer])
  /\ Kept /\ UNCHANGED <<hang, live, openings, faults, recorded>>

\* A settlement the store accepted.
Settled(p, r) == /\ Store(r)
                 /\ Goto(p, IdlePoll)
                 /\ Forgiven(p) /\ Released(p)

\* One it refused: the catch block looks at the row.
Refused(p) == /\ Goto(p, [wk[p] EXCEPT !.pc = "get"])
              /\ Released(p)
              /\ Kept /\ UNCHANGED <<hang, recorded>>

Complete(p) ==
  /\ Completes(p)
  /\ \/ /\ ~wk[p].lost /\ CanComplete(p)
        /\ Settled(p, ClosedJob(job, "completed")) /\ UNCHANGED recorded
     \/ (wk[p].lost \/ ~CanComplete(p)) /\ Refused(p)
  /\ Stays

Review(p) ==
  /\ Reviews(p)
  /\ \/ /\ ~wk[p].lost /\ CanReview(p)
        /\ Settled(p, ClosedJob(job, "manual_review")) /\ UNCHANGED recorded
     \/ (wk[p].lost \/ ~CanReview(p)) /\ Refused(p)
  /\ Stays

Fail(p) ==
  /\ Fails(p)
  /\ \/ /\ ~wk[p].lost /\ CanFail(p)
        /\ Settled(p, FailedJob(job, RetryMs)) /\ recorded' = recorded + 1
     \/ (wk[p].lost \/ ~CanFail(p)) /\ Refused(p)
  /\ Stays

\* isForeignLeaseOwner: another worker holds or finished the job.
Foreign(p) == \/ job.status = "absent" \/ job.status \in JobClosed
              \/ job.status = "claimed" /\ job.token \notin {NoToken, wk[p].token}

\* The settlement was refused: another worker's job now, a wait for a provider, or
\* a hang that counts from the value read before the handler ran.
Get(p) ==
  /\ wk[p].pc = "get"
  /\ \/ /\ Foreign(p) \/ wk[p].answer = "retry_later"
        /\ Goto(p, IdlePoll) /\ UNCHANGED hang
     \/ /\ ~Foreign(p) /\ wk[p].answer # "retry_later"
        /\ hang' = [hang EXCEPT ![on[p]] = wk[p].hangs + 1]
        /\ IF wk[p].hangs + 1 >= MaxAttempts \/ wk[p].attempts >= MaxAttempts
           THEN Goto(p, [wk[p] EXCEPT !.pc = "park"])
           ELSE Goto(p, IdlePoll)
  /\ Kept /\ UNCHANGED <<live, recorded>> /\ Stays

\* parkHangBudget: claim the job again, whoever recovered it, to park it.
Park(p) ==
  LET kind == DecideReconciliationClaim(job, 0)
      won  == ClaimedJob(job, Fresh, LeaseMs, 0)
  IN  /\ wk[p].pc = "park"
      /\ \/ kind # "acquired" /\ Goto(p, IdlePoll) /\ Kept
         \/ /\ kind = "acquired"
            /\ Store(won)
            /\ Goto(p, [wk[p] EXCEPT !.pc = "parking", !.token = won.token])
      /\ UNCHANGED <<hang, live, recorded>> /\ Stays

ReviewParked(p) ==
  /\ wk[p].pc = "parking"
  /\ Goto(p, IdlePoll)
  /\ \/ CanReview(p) /\ Store(ClosedJob(job, "manual_review")) /\ Forgiven(p)
     \/ ~CanReview(p) /\ Kept /\ UNCHANGED hang
  /\ UNCHANGED <<live, recorded>> /\ Stays

-----------------------------------------------------------------------------
(* Faults and time                                                         *)

\* Fault: an instance dies with its polls and its counters.  An in-memory store
\* would be gone as well, and the job with it.
Crash(i) ==
  /\ store # "memory"
  /\ faults < MaxFaults /\ faults' = faults + 1
  /\ wk' = [p \in Polls |-> IF on[p] = i THEN IdlePoll ELSE wk[p]]
  /\ hang' = [hang EXCEPT ![i] = 0] /\ live' = [live EXCEPT ![i] = 0]
  /\ Kept /\ UNCHANGED <<laters, openings, recorded>>

\* Fault: a heartbeat fails, or is applied and its reply lost.
HeartbeatFault(p) ==
  /\ faults < MaxFaults /\ faults' = faults + 1
  /\ wk[p].pc = "running" /\ ~wk[p].lost
  /\ \/ Kept
     \/ /\ DecideLeaseMutation(job, "claimed", wk[p].token, TRUE, 0) = "ok"
        /\ Store(RenewedJob(job, Fresh, LeaseMs, 0))
  /\ Goto(p, [wk[p] EXCEPT !.lost = TRUE])
  /\ UNCHANGED <<hang, live, laters, openings, recorded>>

\* Fault: a settlement fails with another error than a lost lease, applied or not.
\* The claim is no longer counted and the poll ends.
SettleFault(p) ==
  /\ faults < MaxFaults /\ faults' = faults + 1
  /\ \/ wk[p].pc \in {"overrun", "settle"} /\ ~wk[p].lost
     \/ wk[p].pc = "parking"
  /\ \/ Kept /\ UNCHANGED recorded
     \/ /\ Completes(p) /\ CanComplete(p)
        /\ Store(ClosedJob(job, "completed")) /\ UNCHANGED recorded
     \/ /\ Reviews(p) \/ wk[p].pc = "parking"
        /\ CanReview(p)
        /\ Store(ClosedJob(job, "manual_review")) /\ UNCHANGED recorded
     \/ /\ Fails(p) /\ CanFail(p)
        /\ Store(FailedJob(job, RetryMs)) /\ recorded' = recorded + 1
  /\ Goto(p, IdlePoll)
  /\ IF wk[p].pc = "parking" THEN UNCHANGED live ELSE Released(p)
  /\ UNCHANGED <<hang, laters, openings>>

\* Fault: a listing, a claim or the catch block's get fails, the write of the first two
\* applied or not.  A failing get is taken for another worker's job.
CallFault(p) ==
  /\ faults < MaxFaults /\ faults' = faults + 1
  /\ wk[p].pc \in {"idle", "listed", "get", "park"}
  /\ \/ Kept
     \/ wk[p].pc = "idle" /\ Seen /\ Store(ReleaseExpiredJob(job, 0))
     \/ /\ wk[p].pc \in {"listed", "park"}
        /\ DecideReconciliationClaim(job, 0) = "acquired"
        /\ Store(ClaimedJob(job, Fresh, LeaseMs, 0))
  /\ Goto(p, IdlePoll)
  /\ UNCHANGED <<hang, live, laters, openings, recorded>>

Less(t) == IF t > 0 THEN t - 1 ELSE t

\* A lease runs out under a poll that works on the job only when its process
\* stalls or its heartbeat is lost.
Guarded == \E p \in Polls : wk[p].token = job.token /\ job.status = "claimed" /\ job.lease = 1

Tick == /\ job.lease > 0 \/ job.dueAt > 0
        /\ IF Guarded THEN faults < MaxFaults /\ faults' = faults + 1 ELSE UNCHANGED faults
        /\ job' = [job EXCEPT !.lease = Less(@), !.dueAt = Less(@)]
        /\ index' = Less(index)
        /\ UNCHANGED <<wk, hang, live, laters, openings, recorded>>

\* The continuation of a store call a poll awaits.
Continue(p) == \/ Claim(p) \/ Complete(p) \/ Review(p) \/ Fail(p)
               \/ Get(p) \/ Park(p) \/ ReviewParked(p)

Step == \/ \E dueAt \in 0..1 : Schedule(dueAt)
        \/ \E p \in Polls : \/ List(p) \/ Continue(p) \/ Renew(p)
                            \/ \E answer \in Dispositions : HandlerSettles(p, answer)
                            \/ HeartbeatFault(p) \/ SettleFault(p) \/ CallFault(p)
        \/ \E i \in Instances : Crash(i)
        \/ Tick

Next == Step /\ UNCHANGED <<on, store>>

Spec == Init /\ [][Next]_vars

\* Awaited calls return, handlers answer, hosts keep polling and the clock runs;
\* renewals and schedule calls are not owed to anyone.
Fairness == /\ \A p \in Polls :
                 /\ WF_work(List(p)) /\ WF_work(Continue(p))
                 /\ WF_work(\E answer \in Dispositions : HandlerSettles(p, answer))
            /\ WF_work(Tick)

FairSpec == Spec /\ Fairness

-----------------------------------------------------------------------------

\* A poll is counted from its claim to its settlement.
Counted == {"overrun", "running", "settle"}

PollState == [pc       : {"idle", "listed", "get", "park", "parking"} \cup Counted,
              token    : Tokens \cup {NoToken},
              attempts : Nat,
              hangs    : Nat,
              answer   : DispositionKinds \cup {"none"},
              lost     : BOOLEAN]

TypeOK == /\ [store |-> store, on |-> on] \in Deployments
          /\ job \in JobRow /\ index \in Time
          /\ job.status = "claimed" <=> job.token # NoToken
          /\ wk \in [Polls -> PollState]
          /\ hang \in [Instances -> Nat] /\ live \in [Instances -> Nat]
          /\ laters \in 0..MaxLaters /\ openings \in 0..MaxOpenings
          /\ faults \in 0..MaxFaults /\ recorded \in Nat

\* The attempts of an open job are its recorded failures, and the claim in hand:
\* a crash, a lost lease and a takeover cost nothing (STORES-1), a failure reported
\* after the lease expired counts (RECON-LEASE-1), a reopened job starts afresh.
AttemptsAreRecorded ==
  /\ job.status = "scheduled" => job.attempts = recorded
  /\ job.status = "claimed" => job.attempts = recorded + 1

\* The in-flight count of an instance is the number of its polls that hold a claim,
\* on whichever path they leave it: a leak would use the gateway's cap up.
LiveCountsClaims ==
  \A i \in Instances :
    live[i] = Cardinality({p \in Polls : on[p] = i /\ wk[p].pc \in Counted})

\* Without a crash, a stall or a failed store call no two polls work on the job at
\* the same time, on whatever instances they run.
NoOverlapWithoutFaults ==
  faults = 0 => Cardinality({p \in Polls : wk[p].pc \in Counted \cup {"parking"}}) <= 1

\* Poll p takes the job from the application.
Parks(p) == /\ job.status # "manual_review" /\ job'.status = "manual_review"
            /\ wk[p].pc # "idle" /\ wk'[p].pc = "idle"

\* Its handler said so.
Asked(p) == wk[p].pc = "settle" /\ wk[p].answer = "manual_review"

\* The poll may do so of its own accord: never on a retry_later (S19-RECON-HB), and only
\* when there were as many faults as attempts (each hang has one of its own), or this
\* opening has so many recorded failures, retry_later's among them.  A poll that began
\* before the job was closed and opened again brings the attempts of its own claim.
MayPark(p) == /\ wk[p].answer # "retry_later"
              /\ \/ faults >= MaxAttempts
                 \/ recorded + 1 >= MaxAttempts
                 \/ openings > 1 /\ wk[p].attempts >= MaxAttempts

\* A job is parked by a poll with a cause, whatever other polls did to counters and
\* rows since it read them.
ParkedForCause ==
  [][job.status # "manual_review" /\ job'.status = "manual_review" =>
       \E p \in Polls : Parks(p) /\ (Asked(p) \/ MayPark(p))]_vars

\* A scheduled job is eventually completed or handed to a person, although
\* instances crash and handlers fail, hang or wait for the provider for a while.
JobIsSettled == job.status = "scheduled" ~> job.status \in JobClosed

-----------------------------------------------------------------------------
(* What the documentation says and the code does otherwise                 *)

\* retry_later "reschedules and does not consume the maxAttempts manual-review /
\* dead-letter budget" (RECON-3): where nothing fails, a retry parks the job only
\* when the claims that did not end in retry_later have used the budget up.
LaterIsFree ==
  [][\A p \in Polls :
       Parks(p) /\ ~Asked(p) /\ openings = 1 /\ faults = 0 =>
         recorded + 1 - laters >= MaxAttempts]_vars

\* "maxInFlightByGateway is enforced on the scheduler instance (overlapping
\* processDue calls share the count)".
CapHolds == \A i \in Instances : live[i] <= MaxInFlight
=============================================================================
