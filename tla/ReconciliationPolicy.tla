------------------------- MODULE ReconciliationPolicy -------------------------
(***************************************************************************)
(* The pure decisions of packages/reconciliation about a payment whose     *)
(* outcome is unclear: how the provider's view of it differs from the      *)
(* local one (compare.ts), what the application may then do, and whether   *)
(* it may charge again (policy.ts).                                        *)
(*                                                                         *)
(* Amounts are in the payment's currency and parsed; the provider's raw    *)
(* status is taken to be the normalised one.  An expectation that was not  *)
(* given is one with every field unset.                                    *)
(***************************************************************************)
EXTENDS Integers

Unset   == "unset"   \* a status that was omitted
NoMoney == -1        \* an amount that was omitted
NoId    == 0         \* a payment id that is not known

Settling        == {"pending", "processing"}
Holds           == {"authorized", "approved"}
Failures        == {"failed", "cancelled"}
RefundStatuses  == {"refunded", "refund_pending", "refund_failed", "refund_completed"}

\* OPEN_INCOMPLETE_PROVIDER_STATUSES: money may exist, or has left again.
OpenIncomplete == Settling \cup Holds \cup RefundStatuses
                    \cup {"partially_captured", "partially_refunded", "setup_completed", "reversed"}

\* OPEN_MONEY_LOCAL_STATUSES: a second charge may be one too many.
OpenMoney == OpenIncomplete \cup {"paid"}

-----------------------------------------------------------------------------
(* compare.ts                                                              *)

AuthHold(local, p) == local.status \in Holds \cup {Unset} /\ p.status \in Holds

\* Without a captured amount of its own the local side expects nothing captured of a
\* hold, and nothing or the whole amount of a payment that settles.
CapturedDiffers(local, p) ==
  IF local.captured # NoMoney THEN local.captured # p.captured
  ELSE /\ local.amount # NoMoney /\ p.captured # NoMoney
       /\ IF AuthHold(local, p) THEN p.captured # 0
          ELSE /\ local.amount # p.captured
               /\ ~(p.status \in Settling /\ p.captured = 0)

\* compareSnapshots: the fields in which a provider's snapshot differs from what is
\* known locally; what is not known locally is not compared.
Differences(local, p) ==
  {field \in {"status", "amount", "captured", "refunded", "id"} :
     CASE field = "status"   -> local.status \notin {Unset, p.status}
       [] field = "amount"   -> local.amount \notin {NoMoney, p.amount}
       [] field = "captured" -> CapturedDiffers(local, p)
       [] field = "refunded" -> local.refunded \notin {NoMoney, p.refunded}
       [] field = "id"       -> local.id \notin {NoId, p.id}}

-----------------------------------------------------------------------------
(* policy.ts.  A target has the payment id looked for, if known, and the   *)
(* expected local snapshot; a result has an outcome and, where one payment *)
(* was found, the provider's snapshot of it.  The two updates and          *)
(* mark_consistent are the decisions marked safe, which may be applied.    *)

Moved(amount) == amount \notin {NoMoney, 0}

Indeterminate(local) == local.status \in {Unset} \cup Settling

BoundToTarget(target, p) ==
  target.id \in {NoId, p.id} /\ target.expected.id \in {NoId, p.id}

\* Paid in full, as far as the provider tells, and nothing refunded.
PaidCleanly(p) == p.status = "paid" /\ ~Moved(p.refunded) /\ p.captured \in {NoMoney, p.amount}

FailedWithMoney(p) == p.status \in Failures /\ (Moved(p.captured) \/ Moved(p.refunded))

FailedCleanly(p) == p.status \in Failures /\ ~FailedWithMoney(p)

\* An authorised or partial local payment that cannot account for the provider's totals.
Unaccounted(local, p) ==
  LET capture == local.captured = NoMoney /\ Moved(p.captured)
      refund  == local.refunded = NoMoney /\ Moved(p.refunded)
  IN  CASE local.status \in Holds -> capture \/ refund
        [] local.status = "partially_captured" -> local.captured = NoMoney \/ refund
        [] local.status = "partially_refunded" -> local.refunded = NoMoney \/ capture
        [] OTHER -> FALSE

DecideConsistent(target, p) ==
  LET local == target.expected
      upgradable == Indeterminate(local) /\ BoundToTarget(target, p)
  IN  CASE upgradable /\ PaidCleanly(p) -> "update_local_to_paid"
        [] upgradable /\ FailedCleanly(p) -> "update_local_to_failed"
        [] Indeterminate(local) /\ p.status \in Settling -> "retry_later"
        [] \/ upgradable /\ FailedWithMoney(p)
           \/ Indeterminate(local) /\ p.status \in OpenIncomplete \ Settling
           \/ p.status = "paid" /\ ~PaidCleanly(p)
           \/ Unaccounted(local, p) -> "manual_review"
        [] OTHER -> "mark_consistent"

\* A capture of nothing while the payment still settles is no drift (NEW-RECON-1).
StillSettles(target, p, differences) ==
  /\ Indeterminate(target.expected) /\ target.expected.captured = NoMoney
  /\ p.status \in Settling /\ p.captured = 0
  /\ "captured" \in differences /\ differences \subseteq {"status", "captured"}

DecideDrift(target, p) ==
  LET differences == Differences(target.expected, p)
      upgradable  == /\ differences = {"status"}
                     /\ Indeterminate(target.expected) /\ BoundToTarget(target, p)
  IN  CASE upgradable /\ PaidCleanly(p) -> "update_local_to_paid"
        [] upgradable /\ FailedCleanly(p) -> "update_local_to_failed"
        [] StillSettles(target, p, differences) -> "retry_later"
        [] OTHER -> "apply_drift_review"

\* decideReconciliationPolicy; a provider_not_found of the lookup is always retryable.
Decide(result, target) ==
  CASE result.outcome = "consistent" -> DecideConsistent(target, result.provider)
    [] result.outcome = "drift_detected" -> DecideDrift(target, result.provider)
    [] result.outcome = "ambiguous_match" -> "manual_review"
    [] result.outcome = "temporarily_unavailable" -> "retry_later"
    [] result.outcome = "provider_not_found" -> "do_not_create_replacement"
    [] result.outcome = "manual_review_required" ->
         IF Indeterminate(target.expected) THEN "do_not_create_replacement" ELSE "manual_review"

\* Bug: a terminal local status is enough to charge again (RECON-1).
ForbidsReplacement_LocalOnly(result, target) ==
  \/ result.outcome \notin {"consistent", "drift_detected"}
  \/ target.expected.status \in OpenMoney \cup {Unset}

\* shouldForbidReplacementCharge.
ForbidsReplacement(result, target) ==
  \/ result.outcome \notin {"consistent", "drift_detected"}
  \/ target.expected.status \in OpenMoney \cup {Unset}
  \/ result.provider.status \in OpenMoney
  \/ FailedWithMoney(result.provider)

-----------------------------------------------------------------------------
(* lookup.ts                                                               *)

\* Bug: a payment found by a secondary key is taken for the one looked for (RECON-3).
Found_AnyPayment(target, p) ==
  [outcome  |-> IF Differences(target.expected, p) = {} THEN "consistent" ELSE "drift_detected",
   provider |-> p]

\* finalizeWithExpected: a payment other than the one whose id is known is not shown.
Found(target, p) ==
  IF target.id \notin {NoId, p.id} THEN [outcome |-> "manual_review_required"]
  ELSE [outcome  |-> IF Differences(target.expected, p) = {} THEN "consistent" ELSE "drift_detected",
        provider |-> p]
=============================================================================
