--------------------------- MODULE RecoveredPayment ---------------------------
(***************************************************************************)
(* The payment of RoutedPayment and what comes after it.  When its last    *)
(* attempt stays uncertain no other gateway may have it; the application   *)
(* reconciles it instead, as examples/checkout-kernel does: a job looks    *)
(* the payment up by the keys it has, compares, decides, and applies what  *)
(* is safe, while the provider's events update the same local record.     *)
(* When reconciliation does not forbid it the application charges again.   *)
(*                                                                         *)
(* An order has one job at a time: ReconciliationScheduler is about that.  *)
(***************************************************************************)
EXTENDS RoutedPayment, ReconciliationPolicy

CONSTANTS RecoveredFlows,  \* the <<rules, fallback, payment>> that are reconciled
          OrderReferences, \* a reference is the order's, not one attempt's
          Amount,          \* what the order costs
          MaxReplacements  \* charges after the first

ASSUME RecoveryAssumption ==
  OrderReferences \in BOOLEAN /\ Amount \in Nat \ {0} /\ MaxReplacements \in Nat

VARIABLES recovering,  \* this payment is reconciled
          ledger,      \* the providers' payments, one for each attempt
          local,       \* the application's record of the last attempt
          job,         \* the reconciliation job
          replaced     \* charges made after the first

recoveryVars == <<recovering, ledger, local, job, replaced>>
allVars == <<vars, recoveryVars>>

\* A request the provider never took, and one it has just taken: lookups need not
\* show it yet, which also stands for a request that is still on its way.
NoPayment  == [status |-> "none",       captured |-> 0, refunded |-> 0, visible |-> FALSE]
NewPayment == [status |-> "processing", captured |-> 0, refunded |-> 0, visible |-> FALSE]

Nothing == [id |-> NoId, status |-> Unset, amount |-> NoMoney,
            captured |-> NoMoney, refunded |-> NoMoney]

NewLocal(id) == [id |-> id, status |-> "processing", amount |-> Amount,
                 captured |-> NoMoney, refunded |-> NoMoney]

IdleJob == [stage |-> "idle"]
LookupJob(stage, keys, target, result) ==
  [stage |-> stage, keys |-> keys, target |-> target, result |-> result]

RecoverInit == /\ Init
               /\ recovering = (<<rules, fallback, payment>> \in RecoveredFlows)
               /\ ledger = <<>> /\ local = Nothing /\ job = IdleJob /\ replaced = 0

Last == Len(ledger)

\* No attempt may follow and the last is unclear.  After a fallback at its own risk the
\* order is the application's.
Uncertain == /\ recovering /\ ~vouchedFor
             /\ pc = "stopped" /\ ledger # <<>> /\ state = "uncertain"

-----------------------------------------------------------------------------
(* The providers                                                           *)

Successors(status) ==
  CASE status = "processing"         -> {"authorized", "paid", "failed"}
    [] status = "authorized"         -> {"authorized", "partially_captured", "paid", "failed"}
    [] status = "partially_captured" -> {"paid", "failed"}
    [] status = "paid"               -> {"paid", "partially_refunded", "refunded"}
    [] status = "partially_refunded" -> {"refunded"}
    [] OTHER                         -> {}

\* A hold may be captured in part and still be a hold; what is left of a partial
\* capture may be released, and the payment is closed as failed with money taken.
Plausible(status, captured, refunded) ==
  /\ status = "processing" => captured = 0
  /\ status \in {"partially_captured", "paid", "partially_refunded", "refunded"} => captured > 0
  /\ status \in {"authorized", "partially_captured"} => captured < Amount
  /\ status \notin {"paid", "partially_refunded", "refunded"} => refunded = 0
  /\ status \in {"paid", "partially_refunded"} => refunded < captured
  /\ status = "partially_refunded" => refunded > 0
  /\ status = "refunded" => refunded = captured

\* A payment is shown, captured, voided or refunded at any time after it was taken.
Provider(n) ==
  LET p == ledger[n]
  IN  /\ recovering /\ ~vouchedFor /\ p.status # "none"
      /\ \/ /\ ~p.visible
            /\ ledger' = [ledger EXCEPT ![n].visible = TRUE]
         \/ \E status \in Successors(p.status),
               captured \in p.captured..Amount, refunded \in p.refunded..Amount :
              /\ Plausible(status, captured, refunded)
              /\ status = "failed" => captured = p.captured
              /\ ledger' = [ledger EXCEPT ![n] =
                   [p EXCEPT !.status = status, !.captured = captured, !.refunded = refunded]]
      /\ UNCHANGED <<vars, recovering, local, job, replaced>>

\* What a provider tells of a payment: the totals may be left out, but not of a
\* failed payment that has taken money.
Snapshots(n) ==
  LET p == ledger[n]
  IN  {[id |-> n, status |-> p.status, amount |-> Amount, captured |-> c, refunded |-> r] :
         c \in {p.captured} \cup (IF p.status = "failed" /\ p.captured > 0 THEN {} ELSE {NoMoney}),
         r \in {p.refunded, NoMoney}}

-----------------------------------------------------------------------------
(* Routing and attempts                                                    *)

Routing == /\ \/ Route
              \/ \E eligibility \in Eligibilities, healthy \in HealthMaps :
                   Reroute(eligibility, healthy)
           /\ UNCHANGED recoveryVars

\* createOrderPayment: the answer may have brought the payment's id, or nothing.
Charge == /\ Attempt
          /\ \E taken \in BOOLEAN :
               /\ taken <=> charges' > charges
               /\ ledger' = IF recovering
                            THEN Append(ledger, IF taken THEN NewPayment ELSE NoPayment)
                            ELSE ledger
               /\ \E id \in {NoId} \cup (IF taken THEN {Last + 1} ELSE {}) :
                    local' = IF recovering THEN NewLocal(id) ELSE local
          /\ UNCHANGED <<recovering, job, replaced>>

\* webhookHandler: the record takes over what an event of the last payment says, and
\* its id.  The kernel does so for paid ones; an application may record the others.
Event == /\ Uncertain /\ ledger[Last].status \notin {"none", local.status}
         /\ \E p \in Snapshots(Last) : local' = [p EXCEPT !.amount = local.amount]
         /\ UNCHANGED <<vars, recovering, ledger, job, replaced>>

-----------------------------------------------------------------------------
(* The job.  "key" stands for the three secondary keys, which the lookup   *)
(* treats alike: the idempotency key, the reference and the request id.    *)

\* rebuildTarget, with the expected snapshot or without one, and the keys that the
\* lookup port has a method for.
StartJob ==
  /\ Uncertain /\ job.stage = "idle"
  /\ \E expected \in {local, Nothing}, keys \in SUBSET {"id", "key"} :
       /\ "id" \in keys => local.id # NoId
       /\ job' = LookupJob("looking", keys, [id |-> local.id, expected |-> expected],
                           [outcome |-> IF keys = {} THEN "manual_review_required"
                                        ELSE "provider_not_found"])
  /\ UNCHANGED <<vars, recovering, ledger, local, replaced>>

\* The payments a key may name, of those the provider shows: this attempt's, or with a
\* reference all of the order's.  Where the id is known the lookup checks it, and either
\* will do; where it is not, the kernel looks up by what it sent with this attempt only.
Named(key) ==
  LET shown(ns) == {n \in ns : ledger[n].visible}
  IN  {shown({Last})} \cup
      (IF key # "id" /\ (job.target.id # NoId \/ OrderReferences)
       THEN {shown(DOMAIN ledger)} ELSE {})

\* One lookup of resolveProviderSnapshot: by payment id first, then by the others.
LookUp ==
  /\ job.stage = "looking" /\ job.keys # {}
  /\ LET key == IF "id" \in job.keys THEN "id" ELSE "key"
         passed == LookupJob("looking", job.keys \ {key}, job.target, job.result)
         answered(result) == LookupJob("answered", {}, job.target, result)
     IN  \/ job' = answered([outcome |-> "temporarily_unavailable"])
         \/ job' = passed   \* the method cannot take this key
         \/ \E named \in Named(key) :
              \/ named = {} /\ job' = passed
              \/ \E n \in named : /\ named = {n}
                                 /\ \E p \in Snapshots(n) : job' = answered(Found(job.target, p))
              \/ \E n, m \in named : n # m /\ job' = answered([outcome |-> "ambiguous_match"])
  /\ UNCHANGED <<vars, recovering, ledger, local, replaced>>

\* decideReconciliationPolicy, and reconcileDue applying what is safe.
Apply ==
  /\ job.stage \in {"looking", "answered"} /\ job.keys = {}
  /\ LET action == Decide(job.result, job.target)
     IN  /\ local' = CASE action = "update_local_to_paid"   -> [local EXCEPT !.status = "paid"]
                       [] action = "update_local_to_failed" -> [local EXCEPT !.status = "failed"]
                       [] OTHER -> local
         /\ job' = [stage |-> "applied", action |-> action,
                    forbids |-> ForbidsReplacement(job.result, job.target)]
  /\ UNCHANGED <<vars, recovering, ledger, replaced>>

EndJob == /\ job.stage = "applied" /\ job' = IdleJob
          /\ UNCHANGED <<vars, recovering, ledger, local, replaced>>

\* The application charges again, as a new payment with keys of its own.
Replace == /\ job.stage = "applied" /\ ~job.forbids /\ replaced < MaxReplacements
           /\ replaced' = replaced + 1 /\ job' = IdleJob
           /\ pc' = "route" /\ decision' = NoDecision
           /\ attempted' = {} /\ charges' = 0
           /\ UNCHANGED <<rules, fallback, payment, state, vouchedFor, recovering, ledger, local>>

RecoverNext == \/ Routing \/ Charge \/ Event
               \/ StartJob \/ LookUp \/ Apply \/ EndJob \/ Replace
               \/ \E n \in DOMAIN ledger : Provider(n)

RecoverSpec == RecoverInit /\ [][RecoverNext]_allVars

-----------------------------------------------------------------------------

\* Over fallbacks and replacements together, one payment of an order takes money: no
\* fallback and no replacement is charged while an earlier payment may still settle
\* ("never create a duplicate charge" in docs/crash-boundaries.md).
MoneyMovesOnce ==
  \A n, m \in DOMAIN ledger :
    ledger[n].captured > 0 /\ ledger[m].captured > 0 => n = m

\* A decision that is marked safe is true of the payment it was made for, whatever
\* moves at the provider while it is made: what is written off as failed has taken
\* no money and never will, what is fulfilled was captured, and what is closed is
\* neither settling nor left pending in the record (RECON-1, RECON-3, RECON-4).
SafeDecisionsHold ==
  job.stage = "applied" =>
    LET p == ledger[Last]
    IN  /\ job.action = "update_local_to_failed" => p.status = "failed" /\ p.captured = 0
        /\ job.action = "update_local_to_paid" => p.captured > 0
        /\ job.action = "mark_consistent" => p.status \notin Settling /\ ~Indeterminate(local)
=============================================================================
