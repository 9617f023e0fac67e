---------------------------- MODULE WebhookEngine ----------------------------
(***************************************************************************)
(* The webhook inbox engine (packages/webhooks/src/engine.ts) together     *)
(* with its callers: HTTP deliveries of one provider event, whose outcome  *)
(* is mapped to the status the provider sees (integration-http), and the   *)
(* retry worker.  Several workers run it against one inbox row.            *)
(*                                                                         *)
(* A worker's step is the code between two awaits of a store call or of    *)
(* the handler.  The store answers by the claim rules of WebhookClaims.    *)
(*                                                                         *)
(* The clock is relative: a lease and a backoff are the time they still    *)
(* have to run, so the rules are read at time 0 and Tick lets time pass.   *)
(* Tokens are compared only for equality, so a fresh one may be any token  *)
(* that nobody holds.  The engine never reads a row's generation.          *)
(***************************************************************************)
EXTENDS WebhookClaims, FiniteSets

CONSTANTS Workers,        \* processes that serve deliveries or drain the inbox
          Modes,          \* the engine's mode: of "inline", "durable_retry"
          AckAfterClaim,  \* the ackAfterClaim option
          AckPolicies,    \* of "provider_redelivery", "durable_worker"
          Errors,         \* the errors the handler throws, of ErrorKinds
          InlineErrors,   \* the same for the handler of an inline engine
          InlineEra,      \* an inline engine has run before this one
          MaxAttempts,    \* the maxAttempts option
          LeaseMs,        \* lease duration
          RetryAfterMs,   \* the defaultRetryAfterMs option
          MaxDeliveries,  \* bound: how often the provider delivers the event
          MaxFaults       \* bound: crashes, stalls past a lease, lost replies

\* An ordinary error, NonRetryableHandlerError, and the same with
\* { deadLetter: false }.
ErrorKinds == {"retryable", "non_retryable", "keep_pending"}

ASSUME WorkersAssumption == IsFiniteSet(Workers)
ASSUME ModeAssumption   == Modes \subseteq {"inline", "durable_retry"}
ASSUME PolicyAssumption == AckPolicies \subseteq {"provider_redelivery", "durable_worker"}
ASSUME ErrorAssumption  == Errors \subseteq ErrorKinds /\ InlineErrors \subseteq ErrorKinds
ASSUME NumberAssumption == /\ MaxAttempts \in Nat \ {0} /\ LeaseMs \in Nat \ {0}
                           /\ RetryAfterMs \in Nat
                           /\ MaxDeliveries \in Nat /\ MaxFaults \in Nat

VARIABLES mode,        \* the engine's mode
          policy,      \* the adapter's ack policy
          row,         \* the inbox row of the event
          wk,          \* wk[w]: what worker w is doing
          deliveries,  \* deliveries so far
          faults,      \* faults so far
          acked,       \* some delivery was answered with HTTP 200
          processed    \* how often the engine reported "processed"

work == <<row, wk, deliveries, faults, acked, processed>>
vars == <<mode, policy, work>>

Durable == mode = "durable_retry"

\* createWebhookInboxEngine refuses to park in an inline engine, and processWebhookHttp
\* answers for one as if the policy were provider_redelivery.
Deployable == policy = "durable_worker" \/ AckAfterClaim => Durable

\* In-flight renew: none, or the token the store answered (NoToken: refused).
NoRenew == [by |-> "none", token |-> NoToken]

IdleWorker == [pc |-> "idle", http |-> FALSE, hash |-> NoHash, ref |-> NoHash,
               event |-> NoHash, token |-> NoToken, attempts |-> 0, error |-> "none",
               lost |-> FALSE, heartbeatLost |-> FALSE, renew |-> NoRenew]

\* Each worker holds at most two tokens and the row one.
Tokens == 1..(2 * Cardinality(Workers) + 2)
Held   == {row.token} \cup UNION {{wk[w].token, wk[w].renew.token} : w \in Workers}
Fresh  == CHOOSE t \in Tokens \ Held : \A u \in Tokens \ Held : t <= u

\* The row an inline delivery without a materializable event leaves when its
\* handler fails once.
InlineEraRow(h) == [AbsentRow EXCEPT !.status = "pending", !.hash = h,
                                     !.attempts = 1, !.availableAt = 0]

Init == /\ mode \in Modes /\ policy \in AckPolicies /\ Deployable
        /\ \/ row = AbsentRow
           \/ Durable /\ InlineEra /\ \E h \in Hashes : row = InlineEraRow(h)
        /\ wk = [w \in Workers |-> IdleWorker]
        /\ deliveries = 0 /\ faults = 0
        /\ acked = FALSE /\ processed = 0

Store(r) == row' = [r EXCEPT !.generation = 0]

Goto(w, worker) == wk' = [wk EXCEPT ![w] = worker]

-----------------------------------------------------------------------------
(* Outcomes                                                                *)

\* Bug: every handler failure is acknowledged.
HttpStatus_AcksFailures(outcome) ==
  IF outcome \in {"payload_conflict", "already_processing"} THEN 503 ELSE 200

\* mapInboxOutcome: handler_failed_final is handler_failed { retryable: false }.
HttpStatus(outcome) ==
  CASE outcome \in {"processed", "duplicate_completed", "handler_failed_final"} -> 200
    [] outcome = "payload_conflict" -> 409
    [] outcome = "handler_failed" -> 500
    [] outcome \in {"already_processing", "not_available"} -> 503
    [] outcome \in {"parked", "handler_retry"} ->
         IF policy = "durable_worker" THEN 200 ELSE 503

\* The outcome of a claim that was not acquired.
ClaimOutcome(kind) ==
  CASE kind = "already_completed" -> "duplicate_completed"
    [] kind = "in_progress" -> "already_processing"
    [] kind = "payload_hash_conflict" -> "payload_conflict"
    [] kind = "duplicate_failed" -> "handler_failed_final"
    [] kind = "not_available" -> IF Durable THEN "not_available" ELSE "handler_failed"

\* The provider sees the outcome of a delivery; a worker's items are only logged.
Answer(http, outcome) ==
  /\ acked' = (acked \/ (http /\ HttpStatus(outcome) = 200))
  /\ processed' = IF outcome = "processed" THEN processed + 1 ELSE processed

Finish(w, outcome) == Goto(w, IdleWorker) /\ Answer(wk[w].http, outcome)

-----------------------------------------------------------------------------
(* What a worker is about to write                                         *)

CanComplete(w) ==
  /\ ~wk[w].lost /\ ~wk[w].heartbeatLost
  /\ DecideLeaseMutation(row, "claimed", wk[w].token, TRUE, 0) = "ok"

NonRetryable(error) == error \in {"non_retryable", "keep_pending"}

\* Bug: one run too many.
ShouldDeadLetter_OneMore(error, attempts) ==
  error = "non_retryable" \/ (Durable /\ attempts > MaxAttempts)

ShouldDeadLetter(error, attempts) ==
  error = "non_retryable" \/ (Durable /\ attempts >= MaxAttempts)

Backoff == IF Durable THEN RetryAfterMs ELSE 0

FailsForGood(w) ==
  \/ ShouldDeadLetter(wk[w].error, wk[w].attempts)
  \/ wk[w].pc = "refail" /\ NonRetryable(wk[w].error)

\* store.fail is fenced by the token, also after the lease expired.
FencedFail(w) == DecideLeaseMutation(row, "claimed", wk[w].token, FALSE, 0) = "ok"

\* A parked or refused claim is given back, a handler failure is recorded.
GivenBackRow(w) == FailedRow(row, FALSE, TRUE, IF wk[w].pc = "park" THEN 0 ELSE RetryAfterMs, 0)
FailureRow(w)   == FailedRow(row, FailsForGood(w), FALSE,
                             IF FailsForGood(w) THEN 0 ELSE Backoff, 0)

-----------------------------------------------------------------------------
(* processVerified                                                         *)

\* Bug: a delivery is claimed although its event cannot be stored.
SnapshotAccepted_Any(snapshot) == TRUE

\* durable_retry refuses a delivery whose event cannot be stored as payloadRef.
SnapshotAccepted(snapshot) == Durable => snapshot

\* Claim for a verified delivery with payload h.  `snapshot` says whether the
\* event can be stored as payloadRef.
Deliver(w, h, snapshot) ==
  LET in   == [hash |-> h, ref |-> IF snapshot THEN h ELSE NoHash,
               ifMatch |-> NoHash, leaseMs |-> LeaseMs, token |-> Fresh]
      kind == DecideWebhookClaim(row, in, 0)
      won  == AcquiredRow(row, in, 0)
  IN  /\ wk[w].pc = "idle" /\ deliveries < MaxDeliveries
      /\ SnapshotAccepted(snapshot)
      /\ deliveries' = deliveries + 1
      /\ \/ /\ kind # "acquired"
            /\ Answer(TRUE, ClaimOutcome(kind))
            /\ UNCHANGED <<row, wk>>
         \/ /\ kind = "acquired"
            /\ Store(won)
            /\ Goto(w, [IdleWorker EXCEPT
                          !.pc = IF AckAfterClaim THEN "park" ELSE "running",
                          !.http = TRUE, !.hash = h, !.ref = won.ref, !.event = h,
                          !.token = in.token, !.attempts = won.attempts])
            /\ UNCHANGED <<acked, processed>>
      /\ UNCHANGED faults

\* ackAfterClaim: give the claim back for the worker and answer "parked".  When
\* the fence was lost the engine may also answer already_processing; either way
\* the provider is not told 200.
Park(w) ==
  /\ wk[w].pc = "park"
  /\ \/ FencedFail(w) /\ Store(GivenBackRow(w)) /\ Finish(w, "parked")
     \/ ~FencedFail(w) /\ UNCHANGED row /\ Finish(w, "handler_failed")
  /\ UNCHANGED <<deliveries, faults>>

-----------------------------------------------------------------------------
(* processRetryable                                                        *)

\* listRetryable soft-releases an expired claim and lists the row when due.
List(w) ==
  LET listed == ReleaseExpiredLease(row, 0)
  IN  /\ Durable /\ wk[w].pc = "idle"
      /\ listed.status = "pending" /\ listed.availableAt <= 0
      /\ Store(listed)
      /\ Goto(w, [IdleWorker EXCEPT !.pc = "get", !.hash = row.hash, !.ref = row.ref,
                                    !.event = row.ref])
      /\ UNCHANGED <<deliveries, faults, acked, processed>>

\* Bug: the re-read adopts the latest payload hash with the listed event.
Get_AdoptsLatest(w) ==
  /\ wk[w].pc = "get"
  /\ Goto(w, [wk[w] EXCEPT !.pc = "claim", !.hash = row.hash, !.ref = row.ref])
  /\ UNCHANGED <<row, deliveries, faults, acked, processed>>

\* The re-read before the claim: skip the row if its payload moved on.
Get(w) ==
  /\ wk[w].pc = "get"
  /\ \/ /\ row.status = "absent" \/ row.hash # wk[w].hash
        /\ Finish(w, "handler_failed")
     \/ /\ row.status # "absent" /\ row.hash = wk[w].hash
        /\ Goto(w, [wk[w] EXCEPT !.pc = "claim", !.ref = Coalesce(row.ref, @)])
        /\ UNCHANGED <<acked, processed>>
  /\ UNCHANGED <<row, deliveries, faults>>

\* Bug: the claim of a worker is not fenced (S19).
MatchingClaim_NoFence(w) == [hash |-> wk[w].hash, ref |-> wk[w].ref, ifMatch |-> NoHash,
                             leaseMs |-> LeaseMs, token |-> Fresh]

\* A claim fenced by the payload hash the worker holds.
MatchingClaim(w) == [hash |-> wk[w].hash, ref |-> wk[w].ref, ifMatch |-> wk[w].hash,
                     leaseMs |-> LeaseMs, token |-> Fresh]

\* The handler runs only on a stored payload.
Redrive(event) == IF event = NoHash THEN "refuse" ELSE "running"

ClaimListed(w) ==
  LET in   == MatchingClaim(w)
      kind == DecideWebhookClaim(row, in, 0)
      won  == AcquiredRow(row, in, 0)
  IN  /\ wk[w].pc = "claim"
      /\ \/ kind # "acquired" /\ UNCHANGED row /\ Finish(w, ClaimOutcome(kind))
         \/ /\ kind = "acquired"
            /\ Store(won)
            /\ Goto(w, [wk[w] EXCEPT
                          !.pc = Redrive(wk[w].event),
                          !.ref = won.ref, !.token = in.token, !.attempts = won.attempts])
            /\ UNCHANGED <<acked, processed>>
      /\ UNCHANGED <<deliveries, faults>>

\* No stored payload to run the handler on: give the claim back with a backoff.
Refuse(w) ==
  /\ wk[w].pc = "refuse"
  /\ \/ FencedFail(w) /\ Store(GivenBackRow(w))
     \/ ~FencedFail(w) /\ UNCHANGED row
  /\ Finish(w, "handler_failed")
  /\ UNCHANGED <<deliveries, faults>>

-----------------------------------------------------------------------------
(* runHandlerUnderLease                                                    *)

HandlerReturns(w) ==
  /\ wk[w].pc = "running"
  /\ Goto(w, [wk[w] EXCEPT !.pc = "returned"])
  /\ UNCHANGED <<row, deliveries, faults, acked, processed>>

HandlerThrows(w, error) ==
  /\ wk[w].pc = "running"
  /\ Goto(w, [wk[w] EXCEPT !.pc = "threw", !.error = error])
  /\ UNCHANGED <<row, deliveries, faults, acked, processed>>

\* A renewal, by the heartbeat or by the handler's ctx.renew; they are
\* serialised, and none starts once the handler has settled.
Renew(w, by) ==
  LET ok == DecideLeaseMutation(row, "claimed", wk[w].token, TRUE, 0) = "ok"
  IN  /\ wk[w].pc = "running" /\ wk[w].renew = NoRenew /\ ~wk[w].lost
      /\ IF ok THEN Store(RenewedRow(row, Fresh, LeaseMs, 0)) ELSE UNCHANGED row
      /\ Goto(w, [wk[w] EXCEPT !.renew = [by |-> by, token |-> IF ok THEN Fresh ELSE NoToken]])
      /\ UNCHANGED <<deliveries, faults, acked, processed>>

\* The store's answer arrives: the token rotates, or ownership is lost.  Whether
\* the heartbeat's own catch has run when the settled handler looks is open.
RenewAnswered(w) ==
  /\ wk[w].renew # NoRenew
  /\ \E flagged \in BOOLEAN :
       /\ flagged => wk[w].renew.by = "heartbeat"
       /\ wk[w].pc = "running" /\ wk[w].renew.by = "heartbeat" => flagged
       /\ Goto(w, IF wk[w].renew.token # NoToken
                  THEN [wk[w] EXCEPT !.token = wk[w].renew.token, !.renew = NoRenew]
                  ELSE [wk[w] EXCEPT !.lost = TRUE, !.heartbeatLost = @ \/ flagged,
                                     !.renew = NoRenew])
  /\ UNCHANGED <<row, deliveries, faults, acked, processed>>

\* The next heartbeat after ctx.renew lost the lease: it throws and stops.
HeartbeatStops(w) ==
  /\ wk[w].pc = "running" /\ wk[w].renew = NoRenew
  /\ wk[w].lost /\ ~wk[w].heartbeatLost
  /\ Goto(w, [wk[w] EXCEPT !.heartbeatLost = TRUE])
  /\ UNCHANGED <<row, deliveries, faults, acked, processed>>

\* Fault: a heartbeat's store call fails, or was applied and its reply lost.
HeartbeatFault(w) ==
  /\ faults < MaxFaults /\ faults' = faults + 1
  /\ wk[w].pc = "running" /\ wk[w].renew = NoRenew /\ ~wk[w].heartbeatLost
  /\ \/ UNCHANGED row
     \/ /\ DecideLeaseMutation(row, "claimed", wk[w].token, TRUE, 0) = "ok"
        /\ Store(RenewedRow(row, Fresh, LeaseMs, 0))
  /\ Goto(w, [wk[w] EXCEPT !.lost = TRUE, !.heartbeatLost = TRUE])
  /\ UNCHANGED <<deliveries, acked, processed>>

\* The handler returned; complete under the current token, unless the fence was
\* lost.  The renew in flight is awaited first.
CompleteHandled(w) ==
  /\ wk[w].pc = "returned" /\ wk[w].renew = NoRenew
  /\ \/ CanComplete(w) /\ Store(CompletedRow(row)) /\ Finish(w, "processed")
     \/ ~CanComplete(w) /\ UNCHANGED row /\ Finish(w, "handler_failed")
  /\ UNCHANGED <<deliveries, faults>>

\* The handler threw: record the failure under the current token, also after the
\* lease expired.  A lost heartbeat means another owner: record nothing.
FailHandled(w) ==
  /\ wk[w].pc = "threw" /\ wk[w].renew = NoRenew
  /\ \/ /\ wk[w].heartbeatLost
        /\ UNCHANGED row
        /\ Finish(w, "handler_failed")
     \/ /\ ~wk[w].heartbeatLost /\ FencedFail(w)
        /\ Store(FailureRow(w))
        /\ Finish(w, IF FailsForGood(w) \/ NonRetryable(wk[w].error)
                     THEN "handler_failed_final"
                     ELSE IF Durable THEN "handler_retry" ELSE "handler_failed")
     \/ /\ ~wk[w].heartbeatLost /\ ~FencedFail(w)
        /\ Goto(w, [wk[w] EXCEPT !.pc = "reclaim"])
        /\ UNCHANGED <<row, acked, processed>>
  /\ UNCHANGED <<deliveries, faults>>

\* bestEffortRecordFailAfterLeaseLost: claim the row again, if it still holds the
\* payload this handler ran, so that the failure counts.
Reclaim(w) ==
  LET in   == MatchingClaim(w)
      kind == DecideWebhookClaim(row, in, 0)
      won  == AcquiredRow(row, in, 0)
  IN  /\ wk[w].pc = "reclaim"
      /\ \/ /\ kind = "acquired"
            /\ Store(won)
            /\ Goto(w, [wk[w] EXCEPT !.pc = "refail", !.token = in.token,
                          !.attempts = IF won.attempts > @ THEN won.attempts ELSE @])
            /\ UNCHANGED <<acked, processed>>
         \/ /\ kind # "acquired"
            /\ UNCHANGED row
            /\ Finish(w, IF kind \in {"already_completed", "duplicate_failed"}
                         THEN "handler_failed_final" ELSE "handler_failed")
      /\ UNCHANGED <<deliveries, faults>>

Refail(w) ==
  /\ wk[w].pc = "refail"
  /\ \/ /\ FencedFail(w)
        /\ Store(FailureRow(w))
        /\ Finish(w, IF FailsForGood(w) THEN "handler_failed_final"
                     ELSE IF Durable THEN "handler_retry" ELSE "handler_failed")
     \/ /\ ~FencedFail(w)
        /\ UNCHANGED row
        /\ Finish(w, "handler_failed")
  /\ UNCHANGED <<deliveries, faults>>

-----------------------------------------------------------------------------
(* Faults and time                                                         *)

\* Fault: the process dies; the provider sees no answer.
Crash(w) ==
  /\ faults < MaxFaults /\ faults' = faults + 1
  /\ wk[w].pc # "idle"
  /\ Goto(w, IdleWorker)
  /\ UNCHANGED <<row, deliveries, acked, processed>>

\* Fault: the last write of a claim is applied and its reply is lost.  The error
\* reaches the HTTP handler, which answers 500, or ends the worker's poll.  (A
\* lost reply to a claim leaves what a crash after it leaves.)
ReplyLost(w) ==
  /\ faults < MaxFaults /\ faults' = faults + 1
  /\ wk[w].renew = NoRenew
  /\ \/ wk[w].pc = "returned" /\ CanComplete(w) /\ Store(CompletedRow(row))
     \/ wk[w].pc \in {"park", "refuse"} /\ FencedFail(w) /\ Store(GivenBackRow(w))
     \/ /\ wk[w].pc = "refail" \/ (wk[w].pc = "threw" /\ ~wk[w].heartbeatLost)
        /\ FencedFail(w) /\ Store(FailureRow(w))
  /\ Goto(w, IdleWorker)
  /\ UNCHANGED <<deliveries, acked, processed>>

Less(t) == IF t > 0 THEN t - 1 ELSE t

\* The row's owner still works under its lease.
Guarded == \E w \in Workers : /\ wk[w].token = row.token \/ wk[w].renew.token = row.token
                              /\ row.status = "claimed" /\ row.lease = 1

\* Heartbeats come every third of the lease, so a lease runs out under a working
\* owner only when its process stalls: that tick is a fault.
Tick ==
  /\ row.lease > 0 \/ row.availableAt > 0
  /\ IF Guarded THEN faults < MaxFaults /\ faults' = faults + 1 ELSE UNCHANGED faults
  /\ Store([row EXCEPT !.lease = Less(@), !.availableAt = Less(@)])
  /\ UNCHANGED <<wk, deliveries, acked, processed>>

\* The continuation of a store call a worker awaits.
Continue(w) == \/ Park(w) \/ Get(w) \/ ClaimListed(w) \/ Refuse(w)
               \/ RenewAnswered(w) \/ CompleteHandled(w) \/ FailHandled(w)
               \/ Reclaim(w) \/ Refail(w)

HandlerErrors == IF Durable THEN Errors ELSE InlineErrors

HandlerSettles(w) == HandlerReturns(w) \/ \E e \in HandlerErrors : HandlerThrows(w, e)

Step == \/ \E w \in Workers :
             \/ \E h \in Hashes, snapshot \in BOOLEAN : Deliver(w, h, snapshot)
             \/ List(w)
             \/ Continue(w)
             \/ HandlerSettles(w)
             \/ \E by \in {"heartbeat", "ctx"} : Renew(w, by)
             \/ HeartbeatStops(w) \/ HeartbeatFault(w)
             \/ Crash(w) \/ ReplyLost(w)
        \/ Tick

Next == Step /\ UNCHANGED <<mode, policy>>

Spec == Init /\ [][Next]_vars

\* Awaited calls return, handlers settle, the clock runs, and the retry worker
\* keeps polling; deliveries, renewals and faults are not owed to anyone.
Fairness == /\ \A w \in Workers : /\ WF_work(Continue(w))
                                  /\ WF_work(HandlerSettles(w))
                                  /\ WF_work(List(w))
            /\ WF_work(Tick)

FairSpec == Spec /\ Fairness

-----------------------------------------------------------------------------

WorkerState ==
  [pc : {"idle", "park", "get", "claim", "refuse", "running", "returned", "threw",
         "reclaim", "refail"},
   http : BOOLEAN,
   hash : Hashes \cup {NoHash}, ref : Hashes \cup {NoHash}, event : Hashes \cup {NoHash},
   token : Tokens \cup {NoToken}, attempts : Nat, error : ErrorKinds \cup {"none"},
   lost : BOOLEAN, heartbeatLost : BOOLEAN,
   renew : [by : {"none", "heartbeat", "ctx"}, token : Tokens \cup {NoToken}]]

TypeOK == /\ mode \in Modes /\ policy \in AckPolicies
          /\ row \in Row
          /\ row.status = "claimed" <=> row.token # NoToken
          /\ wk \in [Workers -> WorkerState]
          /\ deliveries \in 0..MaxDeliveries /\ faults \in 0..MaxFaults
          /\ acked \in BOOLEAN /\ processed \in Nat

\* Once the provider has been told 200 it never redelivers: the event must then
\* be finished, or still be in the inbox with a payload the worker can redrive.
AckedIsNotLost ==
  acked => \/ row.status \in {"completed", "dead_letter"}
           \/ Durable /\ row.status \in {"pending", "claimed"} /\ row.ref # NoHash

\* The engine reports "processed" at most once, and only for a completed row,
\* however many workers ran the handler.
ProcessedOnce == processed <= 1 /\ (processed = 1 => row.status = "completed")

\* In durable_retry a row whose handler failures reached maxAttempts is never
\* left for another run.
BudgetEnforced ==
  Durable => /\ row.status = "pending" => row.attempts < MaxAttempts
             /\ row.status = "claimed" => row.attempts <= MaxAttempts

\* Without a crash, a stall or a lost reply the event's handler never runs twice
\* at the same time.
NoOverlapWithoutFaults ==
  faults = 0 => Cardinality({w \in Workers : wk[w].pc \in {"running", "returned", "threw"}}) <= 1

\* The handler runs on the payload whose hash the worker claimed.
HandlerSeesClaimedPayload ==
  \A w \in Workers : wk[w].pc = "running" => wk[w].event = wk[w].hash

\* Only a delivery supersedes the stored payload: retry workers and late failure
\* recording never roll the row back to the payload they hold (S19, S20).
OnlyDeliveriesSupersede ==
  [][row'.hash # row.hash => deliveries' = deliveries + 1]_vars

\* An event the provider was told is accepted is eventually completed or dead
\* lettered, although workers may crash and handlers may fail.
AckedIsSettled == acked ~> row.status \in {"completed", "dead_letter"}

\* A handler error with { deadLetter: false } leaves the row pending until
\* maxAttempts is exhausted.
KeepPendingIsKept ==
  [][\A w \in Workers :
       wk[w].error = "keep_pending" /\ wk'[w].pc = "idle"
       /\ row.status # "dead_letter" /\ row'.status = "dead_letter"
         => Durable /\ wk[w].attempts >= MaxAttempts]_vars
=============================================================================
