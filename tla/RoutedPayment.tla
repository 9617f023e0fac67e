---------------------------- MODULE RoutedPayment ----------------------------
(***************************************************************************)
(* One payment of an application that routes it with packages/routing: it  *)
(* selects a gateway, attempts the payment there, and when the attempt     *)
(* went wrong classifies what it knows and may be given another gateway.   *)
(* The routing functions only decide; what an attempt does, and what the   *)
(* application gets to know of it, is the environment's choice.            *)
(***************************************************************************)
EXTENDS Routing, Sequences

CONSTANTS Tables,      \* rule tables: sequences of rules
          Fallbacks,   \* select-time fallbacks: gateways, or NoGateway
          Payments,    \* the payments to route
          HealthMaps   \* sets of gateways that may be healthy when asked

ASSUME TableAssumption ==
  /\ \A rules \in Tables : DOMAIN rules \subseteq Nat /\ \A i \in DOMAIN rules : rules[i] \in Rule
  /\ Fallbacks \subseteq Nat /\ Payments \subseteq Payment
  /\ \A healthy \in HealthMaps : healthy \subseteq Nat

VARIABLES rules, fallback,  \* the router's configuration
          payment,          \* the routing input, with the health known last
          pc,               \* "route", "attempt", "decide" or "stopped"
          decision,         \* the last decision of the router
          attempted,        \* attemptedGateways
          state,            \* the last attempt's submission state
          charges,          \* history: attempts a provider accepted
          vouchedFor        \* history: a fallback was at the application's risk

vars == <<rules, fallback, payment, pc, decision, attempted, state, charges, vouchedFor>>

NoDecision == [by |-> "none", gateway |-> NoGateway]

Init == /\ rules \in Tables /\ fallback \in Fallbacks /\ payment \in Payments
        /\ pc = "route" /\ decision = NoDecision
        /\ attempted = {} /\ state = "uncertain"
        /\ charges = 0 /\ vouchedFor = FALSE

-----------------------------------------------------------------------------
(* What the application can know of an attempt                             *)

\* A report that shows the request may have been sent, or shows nothing.  An error
\* kind or object may be mistaken for another as long as one sign is true.
ShowsSubmission(report) ==
  \/ report.view = "uncertain" \/ report.outcome = "reached" \/ report.result = "reached"
  \/ report.kind \in {"abort", "uncertain"} \/ report.error \in {"abort", "uncertain"}
  \/ /\ report.view = "none"
     /\ report.kind \in {"none", "unknown"} /\ report.error \in {"none", "unknown"}

\* An accepted request leaves a sign; the application claims to have aborted before
\* sending only what it has not sent.  A request that was not sent may look as if.
Truthful(report, accepted) ==
  accepted => ShowsSubmission(report) /\ ~report.abortIsSafe

\* What can come of an attempt: whether it was accepted, and how it is classified.
Aftermaths ==
  UNION {{<<accepted, Classify(report)>> : report \in {r \in Report : Truthful(r, accepted)}} :
         accepted \in BOOLEAN}

-----------------------------------------------------------------------------

\* select for the first attempt.
Route ==
  /\ pc = "route"
  /\ decision' = Select(rules, fallback, payment, {})
  /\ pc' = IF decision'.gateway = NoGateway THEN "stopped" ELSE "attempt"
  /\ UNCHANGED <<rules, fallback, payment, attempted, state, charges, vouchedFor>>

\* createPayment at the gateway of the decision, and classifySubmissionState.
Attempt ==
  /\ pc = "attempt"
  /\ attempted' = attempted \cup {decision.gateway}
  /\ \E aftermath \in Aftermaths :
       /\ charges' = IF aftermath[1] THEN charges + 1 ELSE charges
       /\ state' = aftermath[2]
  /\ pc' = "decide"
  /\ UNCHANGED <<rules, fallback, payment, decision, vouchedFor>>

\* The router takes the application's word for it: an expert's override, or a state
\* that is not the last attempt's.
AtOwnRisk(eligibility) == eligibility.branded \/ eligibility.state # state

\* trySelectFallbackGateway, with the gateways attempted excluded and the health as
\* it is now.  Denied, or without an alternate, the flow ends.
Reroute(eligibility, healthy) ==
  /\ pc = "decide"
  /\ payment' = [payment EXCEPT !.healthy = healthy]
  /\ \/ /\ ~MayReroute(eligibility)
        /\ pc' = "stopped"
        /\ UNCHANGED <<decision, vouchedFor>>
     \/ /\ MayReroute(eligibility)
        /\ decision' = Select(rules, fallback, payment', attempted)
        /\ pc' = IF decision'.gateway \in {NoGateway} \cup attempted THEN "stopped" ELSE "attempt"
        /\ vouchedFor' = (vouchedFor \/ AtOwnRisk(eligibility))
  /\ UNCHANGED <<rules, fallback, attempted, state, charges>>

\* What an application in a hurry may hand over: the evaluation of any attempt's state,
\* an earlier one's among them, or one it made up.
Eligibilities == {Evaluate(s, override) : s \in SubmissionStates, override \in BOOLEAN}
                 \cup {Forged(s) : s \in SubmissionStates}

Next == \/ Route
        \/ Attempt
        \/ \E eligibility \in Eligibilities, healthy \in HealthMaps : Reroute(eligibility, healthy)

Spec == Init /\ [][Next]_vars

-----------------------------------------------------------------------------

TypeOK == /\ rules \in Tables /\ fallback \in Fallbacks
          /\ payment \in Payment
          /\ pc \in {"route", "attempt", "decide", "stopped"}
          /\ decision \in Decision
          /\ decision.by \in {"rule", "fallback"} <=> decision.gateway # NoGateway
          /\ attempted \subseteq Nat /\ state \in SubmissionStates
          /\ charges \in Nat /\ vouchedFor \in BOOLEAN

\* Unless the application took the risk, at most one provider ever accepts the
\* payment: a fallback never follows an attempt that may have been submitted, and
\* an eligibility that names the true state and calls it allowed does not help.
NoDoubleCharge == charges > 1 => vouchedFor

\* An exclusion or a health signal never opens the select-time fallback to a payment
\* that it is closed to otherwise: neither where all gateways in good health would
\* be refused, nor where a rule would take the payment for a value of a field of
\* which another rule names another value (P21-EXCLUDE-HONESTY, NEW-ROUTE-1, -2).
FallbackIsHonest ==
  decision.by = "fallback" =>
    LET atBest == Select(rules, fallback, [payment EXCEPT !.healthy = Nat], {})
    IN  /\ atBest.by # "honesty"
        /\ atBest.by = "rule" =>
             \A i, j \in DOMAIN rules, f \in Fields :
               /\ RuleMatches(rules[i], payment)
               /\ Any \notin {rules[i].part[f], rules[j].part[f]}
               => rules[i].part[f] = rules[j].part[f]
=============================================================================
