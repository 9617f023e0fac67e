------------------------------- MODULE Routing -------------------------------
(***************************************************************************)
(* The decisions of packages/routing as operators: which gateway a payment *)
(* is sent to, and whether a payment whose attempt went wrong may be sent  *)
(* to another one.                                                         *)
(*                                                                         *)
(* A gateway id stands for its spellings, which are compared trimmed and   *)
(* without case; ids are numbers in their alphabetical order.  A rule      *)
(* states a value, or none, for each of its fields; currency, country,     *)
(* payment method and tenant are fields of the same kind.  One capability  *)
(* stands for the set a rule or a payment may require.                     *)
(***************************************************************************)
EXTENDS Integers, FiniteSets

CONSTANTS Fields,    \* partition fields; "currency" is one
          Values,    \* their values
          Any        \* an unset field

ASSUME FieldAssumption == "currency" \in Fields /\ Any \notin Values

NoGateway == 0
NoBound   == -1    \* an unset amount or bound

\* needs: requiredCapabilities unset, empty, or naming the capability.
Rule == [gateway  : Nat \ {NoGateway},
         part     : [Fields -> Values \cup {Any}],
         min      : Nat \cup {NoBound},
         max      : Nat \cup {NoBound},
         rangeCur : Values \cup {Any},
         needs    : {"unset", "nothing", "capability"}]

\* amountCur: the currency declared with the amount.  cost: costs are given.
Payment == [part       : [Fields -> Values \cup {Any}],
            amount     : Nat \cup {NoBound},
            amountCur  : Values \cup {Any},
            needs      : BOOLEAN,
            able       : SUBSET Nat,
            healthy    : SUBSET Nat,
            preference : Nat,
            costly     : SUBSET Nat,
            costs      : BOOLEAN]

-----------------------------------------------------------------------------
(* match.ts and amount-range.ts                                            *)

CurrenciesConflict(p) ==
  p.part["currency"] # Any /\ p.amountCur # Any /\ p.part["currency"] # p.amountCur

\* Every field the rule states is the payment's, and so is the amount's currency.
FieldsMatch(r, p) ==
  /\ \A f \in Fields : r.part[f] # Any => p.part[f] = r.part[f]
  /\ r.part["currency"] # Any /\ p.amountCur # Any => r.part["currency"] = p.amountCur

Requires(r, p) == r.needs = "capability" \/ (r.needs = "unset" /\ p.needs)

HasRange(r) == r.min # NoBound \/ r.max # NoBound

\* The currency the amount is in: its own, or the payment's.
AmountCurrency(p) == IF p.amountCur # Any THEN p.amountCur ELSE p.part["currency"]

Within(r, n) == /\ r.min # NoBound => n >= r.min
                /\ r.max # NoBound => n <= r.max

\* A payment without a currency has no resolvable amount.
Resolved(p) == p.amount # NoBound /\ AmountCurrency(p) # Any

AmountInRange(r, p) ==
  HasRange(r) => /\ r.rangeCur # Any /\ Resolved(p)
                 /\ AmountCurrency(p) = r.rangeCur
                 /\ Within(r, p.amount)

\* Not the negation: an amount in another currency is not outside the range.
AmountOutsideRange(r, p) ==
  /\ HasRange(r)
  /\ \/ r.rangeCur = Any \/ ~Resolved(p)
     \/ AmountCurrency(p) = r.rangeCur /\ ~Within(r, p.amount)

MatchesButAmount(r, p) == FieldsMatch(r, p) /\ (Requires(r, p) => r.gateway \in p.able)

RuleMatches(r, p) == MatchesButAmount(r, p) /\ AmountInRange(r, p)

-----------------------------------------------------------------------------
(* router.ts: `rules` is a sequence, `excluded` a set of gateways.         *)

Candidates(rules, p, excluded) ==
  {i \in DOMAIN rules : /\ rules[i].gateway \in p.healthy \ excluded
                        /\ RuleMatches(rules[i], p)}

\* Bug: a rule whose gateway is excluded or unhealthy no longer bounds the amount.
AmountHonesty_Excluding(rules, p, excluded) ==
  \E i \in DOMAIN rules : /\ rules[i].gateway \in p.healthy \ excluded
                          /\ MatchesButAmount(rules[i], p) /\ AmountOutsideRange(rules[i], p)

\* The three reasons for which a payment no rule takes is not sent to the fallback:
\* a rule takes it but for the amount, whether or not its gateway is excluded;
AmountHonesty(rules, p, excluded) ==
  \E i \in DOMAIN rules : MatchesButAmount(rules[i], p) /\ AmountOutsideRange(rules[i], p)

\* a rule that takes it requires a capability the fallback lacks;
CapabilityHonesty(rules, p, fallback) ==
  \E i \in DOMAIN rules : /\ FieldsMatch(rules[i], p) /\ AmountInRange(rules[i], p)
                          /\ Requires(rules[i], p) /\ fallback \notin p.able

\* and it belongs to one bucket of a field that the rules divide.
PartitionHonesty(rules, p) ==
  \E f \in Fields :
    /\ p.part[f] # Any
    /\ \E i \in DOMAIN rules : rules[i].part[f] = p.part[f] /\ RuleMatches(rules[i], p)
    /\ \E i \in DOMAIN rules : rules[i].part[f] \notin {Any, p.part[f]}

\* Merchant preference first, then cost and id where costs are given, then order.
Better(rules, p, i, j) ==
  LET preferred(k) == rules[k].gateway = p.preference
      dear(k)      == rules[k].gateway \in p.costly
  IN  \/ preferred(i) /\ ~preferred(j)
      \/ /\ preferred(i) = preferred(j)
         /\ IF p.costs
            THEN \/ ~dear(i) /\ dear(j)
                 \/ /\ dear(i) = dear(j)
                    /\ \/ rules[i].gateway < rules[j].gateway
                       \/ rules[i].gateway = rules[j].gateway /\ i < j
            ELSE i < j

Decision == [by : {"rule", "fallback", "none", "honesty"}, gateway : Nat]

\* The first, or best, rule that takes the payment; else the select-time fallback.
Select(rules, fallback, p, excluded) ==
  LET cands    == Candidates(rules, p, excluded)
      best     == CHOOSE i \in cands : \A j \in cands \ {i} : Better(rules, p, i, j)
      usable   == fallback # NoGateway /\ fallback \in p.healthy \ excluded
      honesty  == \/ AmountHonesty(rules, p, excluded)
                  \/ usable /\ CapabilityHonesty(rules, p, fallback)
                  \/ PartitionHonesty(rules, p)
                  \/ usable /\ p.needs /\ fallback \notin p.able
  IN  IF CurrenciesConflict(p) THEN [by |-> "honesty", gateway |-> NoGateway]
      ELSE IF cands # {} THEN [by |-> "rule", gateway |-> rules[best].gateway]
      ELSE IF honesty THEN [by |-> "honesty", gateway |-> NoGateway]
      ELSE IF usable THEN [by |-> "fallback", gateway |-> fallback]
      ELSE [by |-> "none", gateway |-> NoGateway]

-----------------------------------------------------------------------------
(* fallback.ts.  A report is what the application hands to                 *)
(* classifySubmissionState about an attempt: its own view, the error's     *)
(* kind, the error object, the operation's outcome and its result.         *)
(* "uncertain" stands for the five states that deny a fallback.            *)

SubmissionStates == {"not_submitted", "pre_submission_failure", "uncertain"}

\* kind    pre: configuration_error and its like; cancelled: aborted_before_submit;
\*         uncertain: timeout, reset, 5xx, invalid_request, network_error, submitted;
\*         unknown: any other word, validation_error among them.
\* error   validation: a ValidationError; unknown: an unrecognised shape.
\* outcome reached: succeeded, requires_action, declined, failed or indeterminate.
\* abortIsSafe is the option expertUnsafeAbortAsNotSubmitted.
Report == [view        : SubmissionStates \cup {"none"},
           kind        : {"none", "pre", "cancelled", "abort", "uncertain", "unknown"},
           error       : {"none", "validation", "abort", "uncertain", "unknown"},
           outcome     : {"none", "reached"},
           result      : {"none", "reached", "unknown"},
           abortIsSafe : BOOLEAN]

IsSafe(submission) == submission \in {"not_submitted", "pre_submission_failure"}

\* Bug: an abort is taken to have come before the request was sent.
FromAbort_NotSubmitted(report) == "not_submitted"

FromAbort(report) == IF report.abortIsSafe THEN "not_submitted" ELSE "uncertain"

\* Bug: the kind an application names is taken for a submission state as it is.
FromErrorKind_AsGiven(report) == report.kind

FromErrorKind(report) ==
  CASE report.kind = "pre" -> "pre_submission_failure"
    [] report.kind = "cancelled" -> "not_submitted"
    [] report.kind = "abort" -> FromAbort(report)
    [] report.kind = "uncertain" -> "uncertain"
    [] report.kind \in {"none", "unknown"} -> "none"

FromError(report) ==
  CASE report.error = "validation" -> "pre_submission_failure"
    [] report.error = "abort" -> FromAbort(report)
    [] report.error = "uncertain" -> "uncertain"
    [] report.error \in {"none", "unknown"} -> "none"

ConflictingMoneyEvidence(report) ==
  \/ report.outcome = "reached" \/ report.result = "reached"
  \/ FromErrorKind(report) = "uncertain" \/ FromError(report) = "uncertain"

\* Bug: a validation error is looked at before the outcome (ROUTE-2).
Classify_ErrorFirst(report) ==
  IF /\ report.view # "none"
     /\ ~IsSafe(report.view) \/ ~ConflictingMoneyEvidence(report) THEN report.view
  ELSE IF FromErrorKind(report) # "none" THEN FromErrorKind(report)
  ELSE IF FromError(report) # "none" THEN FromError(report)
  ELSE "uncertain"

\* classifySubmissionState: the application's view, unless it is safe and something
\* speaks against it; an uncertain error; the outcome and the result; only then an
\* error that says the request was never sent; and uncertain when nothing is known.
Classify(report) ==
  IF /\ report.view # "none"
     /\ ~IsSafe(report.view) \/ ~ConflictingMoneyEvidence(report) THEN report.view
  ELSE IF "uncertain" \in {FromErrorKind(report), FromError(report)} THEN "uncertain"
  ELSE IF report.outcome = "reached" \/ report.result = "reached" THEN "uncertain"
  ELSE IF FromErrorKind(report) # "none" THEN FromErrorKind(report)
  ELSE IF FromError(report) # "none" THEN FromError(report)
  ELSE "uncertain"

\* evaluateFallback: an expert override is branded by the function that grants it.
Evaluate(submission, override) ==
  [allowed |-> IsSafe(submission) \/ override, state |-> submission,
   branded |-> ~IsSafe(submission) /\ override]

\* An eligibility the application made up; it cannot carry the brand.
Forged(submission) == [allowed |-> TRUE, state |-> submission, branded |-> FALSE]

\* Bug: the eligibility is trusted as it is handed over.
MayReroute_TrustsCaller(eligibility) == eligibility.allowed

\* trySelectFallbackGateway checks the state again.
MayReroute(eligibility) ==
  eligibility.allowed /\ (IsSafe(eligibility.state) \/ eligibility.branded)
=============================================================================
