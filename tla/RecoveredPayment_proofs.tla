----------------------- MODULE RecoveredPayment_proofs -----------------------
(***************************************************************************)
(* What a routed payment and its recovery promise, for any rules, payments,*)
(* gateways, amount and number of attempts and replacements: the routed    *)
(* payment is charged once and its fallbacks are honest; and a payment     *)
(* that is reconciled after its attempts failed takes money once, and what *)
(* is decided about it is true.                                            *)
(***************************************************************************)
EXTENDS RecoveredPayment, WellFoundedInduction, TLAPS

-----------------------------------------------------------------------------
(* RoutedPayment                                                           *)

\* What an accepted attempt is classified as: never a state that lets the payment go
\* to another gateway.
LEMMA AcceptedIsUnsafe ==
  ASSUME NEW report \in Report, Truthful(report, TRUE)
  PROVE  ~IsSafe(Classify(report))
<1> USE DEF Report, SubmissionStates, IsSafe
<1>1. ~report.abortIsSafe /\ ShowsSubmission(report)
  BY DEF Truthful
<1>2. FromErrorKind(report) = "uncertain" <=> report.kind \in {"abort", "uncertain"}
  BY <1>1 DEF FromErrorKind, FromAbort
<1>3. FromError(report) = "uncertain" <=> report.error \in {"abort", "uncertain"}
  BY <1>1 DEF FromError, FromAbort
<1>4. CASE report.view = "uncertain"
  BY <1>4 DEF Classify
<1>5. CASE report.view # "uncertain" /\ ConflictingMoneyEvidence(report)
  <2>1. Classify(report) = "uncertain"
    BY <1>5 DEF Classify, ConflictingMoneyEvidence
  <2> QED BY <2>1
<1>6. CASE report.view # "uncertain" /\ ~ConflictingMoneyEvidence(report)
  <2>1. /\ report.view = "none"
        /\ report.kind \in {"none", "unknown"} /\ report.error \in {"none", "unknown"}
    BY <1>1, <1>2, <1>3, <1>6 DEF ShowsSubmission, ConflictingMoneyEvidence
  <2>2. FromErrorKind(report) = "none" /\ FromError(report) = "none"
    BY <2>1 DEF FromErrorKind, FromError
  <2>3. Classify(report) = "uncertain"
    BY <1>6, <2>1, <2>2 DEF Classify, ConflictingMoneyEvidence
  <2> QED BY <2>3
<1> QED BY <1>4, <1>5, <1>6

\* A denied eligibility opens no other gateway but at the application's risk.
LEMMA OnlySafeOrAtRisk ==
  ASSUME NEW eligibility \in Eligibilities, MayReroute(eligibility)
  PROVE  /\ AtOwnRisk(eligibility) \in BOOLEAN
         /\ IsSafe(state) \/ AtOwnRisk(eligibility)
<1>1. eligibility.branded \in BOOLEAN
  <2>1. ASSUME NEW s \in SubmissionStates, NEW override \in BOOLEAN,
               eligibility = Evaluate(s, override)
        PROVE  eligibility.branded \in BOOLEAN
    BY <2>1 DEF Evaluate, IsSafe
  <2>2. ASSUME NEW s \in SubmissionStates, eligibility = Forged(s)
        PROVE  eligibility.branded \in BOOLEAN
    BY <2>2 DEF Forged
  <2> QED BY <2>1, <2>2 DEF Eligibilities
<1>2. AtOwnRisk(eligibility) \in BOOLEAN
  BY <1>1 DEF AtOwnRisk
<1>3. IsSafe(eligibility.state) \/ eligibility.branded
  BY DEF MayReroute
<1>4. IsSafe(state) \/ AtOwnRisk(eligibility)
  BY <1>3 DEF AtOwnRisk
<1> QED BY <1>2, <1>4

\* No attempt is under way once a provider has accepted the payment; from then on
\* the state on record denies a fallback.  The application's word ends the promise.
ChargedIsDenied ==
  /\ charges \in Nat /\ vouchedFor \in BOOLEAN
  /\ ~vouchedFor => /\ charges <= 1
                    /\ pc \in {"route", "attempt"} => charges = 0
                    /\ pc = "decide" /\ charges = 1 => ~IsSafe(state)

\* At most one provider accepts the payment unless the application took the risk, for
\* any rules, payments, health reports and any number of attempts.
THEOREM ChargedOnce == Spec => []NoDoubleCharge
<1>1. Init => ChargedIsDenied
  <2> SUFFICES ASSUME Init PROVE ChargedIsDenied
    OBVIOUS
  <2>1. charges \in Nat /\ charges <= 1 /\ charges = 0 /\ pc # "decide"
    BY DEF Init
  <2>2. vouchedFor \in BOOLEAN
    BY Zenon DEF Init
  <2> QED BY <2>1, <2>2, Zenon DEF ChargedIsDenied
<1>2. ChargedIsDenied /\ [Next]_vars => ChargedIsDenied'
  <2> SUFFICES ASSUME ChargedIsDenied, [Next]_vars PROVE ChargedIsDenied'
    OBVIOUS
  <2>1. CASE Route
    BY <2>1 DEF Route, ChargedIsDenied
  <2>2. CASE Attempt
    <3>1. PICK aftermath \in Aftermaths :
            /\ charges' = IF aftermath[1] THEN charges + 1 ELSE charges
            /\ state' = aftermath[2]
      BY <2>2 DEF Attempt
    <3>2. PICK accepted \in BOOLEAN, report \in Report :
            /\ Truthful(report, accepted)
            /\ aftermath = <<accepted, Classify(report)>>
      BY <3>1 DEF Aftermaths
    <3>3. /\ charges' = IF accepted THEN charges + 1 ELSE charges
          /\ state' = Classify(report)
      BY <3>1, <3>2
    <3>4. accepted => ~IsSafe(state')
      BY <3>2, <3>3, AcceptedIsUnsafe
    <3> QED BY <2>2, <3>3, <3>4 DEF Attempt, ChargedIsDenied, IsSafe
  <2>3. ASSUME NEW eligibility \in Eligibilities, NEW healthy \in HealthMaps,
               Reroute(eligibility, healthy)
        PROVE  ChargedIsDenied'
    <3>1. CASE MayReroute(eligibility)
      <4>1. vouchedFor' = (vouchedFor \/ AtOwnRisk(eligibility))
            /\ pc' \in {"stopped", "attempt"} /\ pc = "decide"
            /\ charges' = charges /\ state' = state
        BY <2>3, <3>1 DEF Reroute
      <4>2. /\ IsSafe(state) \/ AtOwnRisk(eligibility)
            /\ AtOwnRisk(eligibility) \in BOOLEAN
        BY <3>1, OnlySafeOrAtRisk
      <4>3. vouchedFor' \in BOOLEAN
        BY <4>1, <4>2 DEF ChargedIsDenied
      <4>4. ~vouchedFor' => ~vouchedFor /\ IsSafe(state)
        BY <4>1, <4>2
      <4>5. ~vouchedFor' => charges = 0
        BY <4>1, <4>4 DEF ChargedIsDenied
      <4> QED BY <4>1, <4>3, <4>5 DEF ChargedIsDenied
    <3>2. CASE ~MayReroute(eligibility)
      BY <2>3, <3>2 DEF Reroute, ChargedIsDenied
    <3> QED BY <3>1, <3>2
  <2>4. CASE UNCHANGED vars
    BY <2>4 DEF vars, ChargedIsDenied, IsSafe
  <2> QED BY <2>1, <2>2, <2>3, <2>4 DEF Next
<1>3. ChargedIsDenied => NoDoubleCharge
  BY DEF ChargedIsDenied, NoDoubleCharge
<1> QED BY <1>1, <1>2, <1>3, PTL DEF Spec

-----------------------------------------------------------------------------
(* The select-time fallback                                                *)

At(p, healthy) == [p EXCEPT !.healthy = healthy]

\* What the router asks of a payment, other than its gateways' health, is the same
\* whatever that health.
LEMMA HealthIsSeparate ==
  ASSUME NEW p \in Payment, NEW h
  PROVE  /\ At(p, h).healthy = h /\ At(p, h).part = p.part /\ At(p, h).amount = p.amount
         /\ At(p, h).amountCur = p.amountCur /\ At(p, h).needs = p.needs
         /\ At(p, h).able = p.able
BY DEF At, Payment

LEMMA MatchIgnoresHealth ==
  ASSUME NEW p \in Payment, NEW h, NEW r
  PROVE  /\ CurrenciesConflict(At(p, h)) <=> CurrenciesConflict(p)
         /\ FieldsMatch(r, At(p, h)) <=> FieldsMatch(r, p)
         /\ Requires(r, At(p, h)) <=> Requires(r, p)
         /\ AmountInRange(r, At(p, h)) <=> AmountInRange(r, p)
         /\ AmountOutsideRange(r, At(p, h)) <=> AmountOutsideRange(r, p)
         /\ MatchesButAmount(r, At(p, h)) <=> MatchesButAmount(r, p)
         /\ RuleMatches(r, At(p, h)) <=> RuleMatches(r, p)
<1> DEFINE q == At(p, h)
<1>1. q.part = p.part /\ q.amount = p.amount /\ q.amountCur = p.amountCur
      /\ q.needs = p.needs /\ q.able = p.able
  BY HealthIsSeparate
<1> HIDE DEF q
<1>2. /\ CurrenciesConflict(q) <=> CurrenciesConflict(p)
      /\ FieldsMatch(r, q) <=> FieldsMatch(r, p)
      /\ Requires(r, q) <=> Requires(r, p)
  BY <1>1, Zenon DEF CurrenciesConflict, FieldsMatch, Requires
<1>3. AmountCurrency(q) = AmountCurrency(p) /\ (Resolved(q) <=> Resolved(p))
  BY <1>1, Zenon DEF AmountCurrency, Resolved
<1>4. /\ AmountInRange(r, q) <=> AmountInRange(r, p)
      /\ AmountOutsideRange(r, q) <=> AmountOutsideRange(r, p)
  BY <1>1, <1>3, Zenon DEF AmountInRange, AmountOutsideRange
<1>5. MatchesButAmount(r, q) <=> MatchesButAmount(r, p)
  BY <1>1, <1>2, Zenon DEF MatchesButAmount
<1>6. RuleMatches(r, q) <=> RuleMatches(r, p)
  BY <1>4, <1>5, Zenon DEF RuleMatches
<1> QED BY <1>2, <1>4, <1>5, <1>6, Zenon DEF q

\* The same of the reasons that close the fallback.
LEMMA HonestyIgnoresHealth ==
  ASSUME NEW p \in Payment, NEW h, NEW rs, NEW e1, NEW e2, NEW f
  PROVE  /\ AmountHonesty(rs, At(p, h), e1) <=> AmountHonesty(rs, p, e2)
         /\ CapabilityHonesty(rs, At(p, h), f) <=> CapabilityHonesty(rs, p, f)
         /\ PartitionHonesty(rs, At(p, h)) <=> PartitionHonesty(rs, p)
<1>1. AmountHonesty(rs, At(p, h), e1) <=> AmountHonesty(rs, p, e2)
  BY MatchIgnoresHealth, Zenon DEF AmountHonesty
<1>2. CapabilityHonesty(rs, At(p, h), f) <=> CapabilityHonesty(rs, p, f)
  BY MatchIgnoresHealth, HealthIsSeparate, Zenon DEF CapabilityHonesty
<1>3. PartitionHonesty(rs, At(p, h)) <=> PartitionHonesty(rs, p)
  <2> DEFINE q == At(p, h)
  <2>1. q.part = p.part
    BY HealthIsSeparate
  <2>2. \A r : RuleMatches(r, q) <=> RuleMatches(r, p)
    BY MatchIgnoresHealth, Zenon
  <2> HIDE DEF q
  <2>3. PartitionHonesty(rs, q) <=> PartitionHonesty(rs, p)
    BY <2>1, <2>2 DEF PartitionHonesty
  <2> QED BY <2>3 DEF q
<1> QED BY <1>1, <1>2, <1>3

\* What closes the fallback to a payment that no rule takes.
ClosedTo(rs, f, p, excluded) ==
  \/ CurrenciesConflict(p) \/ AmountHonesty(rs, p, excluded)
  \/ CapabilityHonesty(rs, p, f) \/ PartitionHonesty(rs, p)
  \/ p.needs /\ f \notin p.able

LEMMA ClosedIgnoresHealth ==
  ASSUME NEW p \in Payment, NEW h, NEW rs, NEW f, NEW e1, NEW e2
  PROVE  ClosedTo(rs, f, At(p, h), e1) <=> ClosedTo(rs, f, p, e2)
<1>1. CurrenciesConflict(At(p, h)) <=> CurrenciesConflict(p)
  BY MatchIgnoresHealth, Zenon
<1>2. /\ AmountHonesty(rs, At(p, h), e1) <=> AmountHonesty(rs, p, e2)
      /\ CapabilityHonesty(rs, At(p, h), f) <=> CapabilityHonesty(rs, p, f)
      /\ PartitionHonesty(rs, At(p, h)) <=> PartitionHonesty(rs, p)
  BY HonestyIgnoresHealth, Zenon
<1>3. At(p, h).needs = p.needs /\ At(p, h).able = p.able
  BY HealthIsSeparate, Zenon
<1> QED BY <1>1, <1>2, <1>3, Zenon DEF ClosedTo

\* Select answers "fallback" only where it is open, and "honesty" only where closed.
LEMMA FallbackIsOpen ==
  ASSUME NEW rs, NEW f, NEW p, NEW excluded
  PROVE  /\ Select(rs, f, p, excluded).by = "fallback" => ~ClosedTo(rs, f, p, excluded)
         /\ Select(rs, f, p, excluded).by = "honesty" => ClosedTo(rs, f, p, excluded)
BY DEF Select, ClosedTo

LEMMA AtAgain ==
  ASSUME NEW p \in Payment, NEW h1, NEW h2
  PROVE  At(At(p, h1), h2) = At(p, h2) /\ At(p, p.healthy) = p
BY DEF At, Payment

\* A fallback decided for this payment, with whatever health and exclusions, is one
\* the best case would not refuse.
LEMMA OpenIsHonest ==
  ASSUME payment \in Payment, decision.by = "fallback", NEW h, NEW e,
         decision = Select(rules, fallback, At(payment, h), e)
  PROVE  FallbackIsHonest
<1> DEFINE atBest == Select(rules, fallback, At(payment, Nat), {})
<1>1. ~ClosedTo(rules, fallback, At(payment, h), e)
  BY FallbackIsOpen, Zenon
<1>2. ~ClosedTo(rules, fallback, payment, {})
  BY <1>1, ClosedIgnoresHealth, Zenon
<1>3. atBest.by # "honesty"
  <2>1. ~ClosedTo(rules, fallback, At(payment, Nat), {})
    BY <1>2, ClosedIgnoresHealth, Zenon
  <2> QED BY <2>1, FallbackIsOpen, Zenon
<1>4. ASSUME NEW i \in DOMAIN rules, NEW j \in DOMAIN rules, NEW f \in Fields,
             RuleMatches(rules[i], payment),
             Any \notin {rules[i].part[f], rules[j].part[f]}
      PROVE  rules[i].part[f] = rules[j].part[f]
  <2>1. payment.part[f] = rules[i].part[f]
    BY <1>4 DEF RuleMatches, MatchesButAmount, FieldsMatch
  <2> QED BY <1>2, <1>4, <2>1 DEF ClosedTo, PartitionHonesty
<1> HIDE DEF atBest
<1> QED BY <1>3, <1>4 DEF FallbackIsHonest, At, atBest

\* The fallback on record was decided for this payment, with the health and the
\* exclusions of some moment.
DecidedForPayment ==
  /\ payment \in Payment
  /\ decision.by = "fallback" =>
       \E h, e : decision = Select(rules, fallback, At(payment, h), e)

\* No exclusion and no health report opens the select-time fallback, for any rules,
\* fallback, payments and number of attempts.
THEOREM FallbackStaysHonest == Spec => []FallbackIsHonest
<1>1. Init => DecidedForPayment
  BY TableAssumption DEF Init, NoDecision, DecidedForPayment
<1>2. DecidedForPayment /\ [Next]_vars => DecidedForPayment'
  <2> SUFFICES ASSUME DecidedForPayment, [Next]_vars PROVE DecidedForPayment'
    OBVIOUS
  <2>1. CASE Route
    <3>1. decision' = Select(rules', fallback', At(payment', payment'.healthy), {})
      BY <2>1, AtAgain DEF Route, DecidedForPayment
    <3> QED BY <2>1, <3>1, Zenon DEF Route, DecidedForPayment
  <2>2. CASE Attempt
    BY <2>2, Zenon DEF Attempt, DecidedForPayment
  <2>3. ASSUME NEW eligibility \in Eligibilities, NEW healthy \in HealthMaps,
               Reroute(eligibility, healthy)
        PROVE  DecidedForPayment'
    <3>1. payment' = At(payment, healthy) /\ rules' = rules /\ fallback' = fallback
      BY <2>3 DEF Reroute, At
    <3>2. payment' \in Payment
      BY <3>1, TableAssumption DEF DecidedForPayment, At, Payment
    <3>3. CASE decision' = Select(rules, fallback, payment', attempted)
      <4>1. At(payment', payment'.healthy) = payment'
        BY <3>2, AtAgain
      <4> QED BY <3>1, <3>2, <3>3, <4>1, Zenon DEF DecidedForPayment
    <3>4. CASE decision' = decision
      <4>1. \A h : At(payment', h) = At(payment, h)
        BY <3>1, AtAgain DEF DecidedForPayment
      <4> QED BY <3>1, <3>2, <3>4, <4>1, Zenon DEF DecidedForPayment
    <3> QED BY <2>3, <3>3, <3>4 DEF Reroute
  <2>4. CASE UNCHANGED vars
    BY <2>4, Zenon DEF vars, DecidedForPayment
  <2> QED BY <2>1, <2>2, <2>3, <2>4 DEF Next
<1>3. DecidedForPayment => FallbackIsHonest
  BY OpenIsHonest, Zenon DEF DecidedForPayment, FallbackIsHonest
<1> QED BY <1>1, <1>2, <1>3, PTL DEF Spec

-----------------------------------------------------------------------------
(* What select returns                                                     *)

LEMMA LeastExists ==
  ASSUME NEW S \in SUBSET Nat, S # {}
  PROVE  \E n \in S : \A m \in S : n <= m
<1>1. \E n \in S : \A m \in S : ~(<<m, n>> \in OpToRel(<, Nat))
  BY NatLessThanWellFounded, WFMin
<1>2. PICK n \in S : \A m \in S : ~(<<m, n>> \in OpToRel(<, Nat))
  BY <1>1
<1>3. \A m \in S : ~(m < n)
  BY <1>2 DEF OpToRel
<1> QED BY <1>3

\* Of the rules that take a payment one is better than all others, however many
\* there are: preference, cost, id and order leave no tie.
LEMMA BestExists ==
  ASSUME NEW rs, DOMAIN rs \subseteq Nat, \A i \in DOMAIN rs : rs[i] \in Rule,
         NEW p \in Payment, NEW C \in SUBSET DOMAIN rs, C # {}
  PROVE  \E i \in C : \A j \in C \ {i} : Better(rs, p, i, j)
<1> DEFINE preferred(k) == rs[k].gateway = p.preference
           dear(k)      == rs[k].gateway \in p.costly
<1>1. PICK P \in SUBSET C :
        /\ P # {}
        /\ \A i \in P, j \in C :
             \/ preferred(i) /\ ~preferred(j)
             \/ j \in P /\ preferred(i) = preferred(j)
  <2>1. CASE \E i \in C : preferred(i)
    <3> WITNESS {i \in C : preferred(i)} \in SUBSET C
    <3> QED BY <2>1
  <2>2. CASE ~\E i \in C : preferred(i)
    <3> WITNESS C \in SUBSET C
    <3> QED BY <2>2
  <2> QED BY <2>1, <2>2
<1>2. CASE ~p.costs
  <2>1. PICK i \in P : \A j \in P : i <= j
    BY <1>1, LeastExists
  <2>2. ASSUME NEW j \in C \ {i} PROVE Better(rs, p, i, j)
    <3>1. CASE preferred(i) /\ ~preferred(j)
      BY <3>1 DEF Better
    <3>2. CASE j \in P /\ preferred(i) = preferred(j)
      <4>1. i < j
        BY <2>1, <3>2
      <4> QED BY <1>2, <3>2, <4>1 DEF Better
    <3> QED BY <1>1, <3>1, <3>2
  <2> QED BY <2>2
<1>3. CASE p.costs
  <2>1. PICK Q \in SUBSET P :
          /\ Q # {}
          /\ \A i \in Q, j \in P : \/ ~dear(i) /\ dear(j)
                                   \/ j \in Q /\ dear(i) = dear(j)
    <3>1. CASE \E i \in P : ~dear(i)
      <4> WITNESS {i \in P : ~dear(i)} \in SUBSET P
      <4> QED BY <3>1
    <3>2. CASE ~\E i \in P : ~dear(i)
      <4> WITNESS P \in SUBSET P
      <4> QED BY <1>1, <3>2
    <3> QED BY <3>1, <3>2
  <2> DEFINE ids == {rs[i].gateway : i \in Q}
  <2>2. ids \in SUBSET Nat /\ ids # {}
    BY <2>1 DEF Rule
  <2>3. PICK g \in ids : \A h \in ids : g <= h
    BY <2>2, LeastExists
  <2> DEFINE R == {i \in Q : rs[i].gateway = g}
  <2>4. R \in SUBSET Nat /\ R # {}
    BY <2>3
  <2>5. PICK i \in R : \A j \in R : i <= j
    BY <2>4, LeastExists
  <2>6. ASSUME NEW j \in C \ {i} PROVE Better(rs, p, i, j)
    <3>1. CASE preferred(i) /\ ~preferred(j)
      BY <3>1 DEF Better
    <3>2. CASE j \in P /\ preferred(i) = preferred(j) /\ ~dear(i) /\ dear(j)
      BY <1>3, <3>2 DEF Better
    <3>3. CASE j \in Q /\ preferred(i) = preferred(j) /\ dear(i) = dear(j)
      <4>1. rs[i].gateway = g /\ rs[j].gateway \in ids /\ g <= rs[j].gateway
            /\ rs[i].gateway \in Nat /\ rs[j].gateway \in Nat
        BY <2>2, <2>3, <3>3
      <4>2. rs[i].gateway = rs[j].gateway => i < j
        BY <2>4, <2>5, <3>3, <4>1
      <4>3. rs[i].gateway < rs[j].gateway \/ (rs[i].gateway = rs[j].gateway /\ i < j)
        BY <4>1, <4>2
      <4> QED BY <1>3, <3>3, <4>3 DEF Better
    <3>4. i \in P /\ i \in Q
      OBVIOUS
    <3> QED BY <1>1, <2>1, <3>1, <3>2, <3>3, <3>4
  <2>7. i \in C
    OBVIOUS
  <2> QED BY <2>6, <2>7
<1> QED BY <1>2, <1>3

\* A gateway is chosen by a rule or by the fallback, and then only.
LEMMA SelectType ==
  ASSUME NEW rs \in Tables, NEW f \in Fallbacks, NEW p \in Payment, NEW excluded
  PROVE  LET d == Select(rs, f, p, excluded)
         IN  d \in Decision /\ (d.by \in {"rule", "fallback"} <=> d.gateway # NoGateway)
<1> DEFINE cands == Candidates(rs, p, excluded)
           best  == CHOOSE i \in cands : \A j \in cands \ {i} : Better(rs, p, i, j)
           d     == Select(rs, f, p, excluded)
<1>1. /\ DOMAIN rs \subseteq Nat /\ \A i \in DOMAIN rs : rs[i] \in Rule
      /\ f \in Nat /\ NoGateway \in Nat
  BY TableAssumption DEF NoGateway
<1>2. cands \in SUBSET DOMAIN rs
  BY DEF Candidates
<1>3. cands # {} => rs[best].gateway \in Nat \ {NoGateway}
  <2> SUFFICES ASSUME cands # {} PROVE rs[best].gateway \in Nat \ {NoGateway}
    OBVIOUS
  <2>1. \E i \in cands : \A j \in cands \ {i} : Better(rs, p, i, j)
    BY <1>1, <1>2, BestExists
  <2>2. best \in cands
    BY <2>1
  <2> QED BY <1>1, <1>2, <2>2 DEF Rule
<1>4. \/ d \in [by : {"honesty", "none"}, gateway : {NoGateway}]
      \/ cands # {} /\ d = [by |-> "rule", gateway |-> rs[best].gateway]
      \/ f # NoGateway /\ d = [by |-> "fallback", gateway |-> f]
  BY DEF Select
<1> HIDE DEF cands, best, d
<1>5. d \in Decision /\ (d.by \in {"rule", "fallback"} <=> d.gateway # NoGateway)
  BY <1>1, <1>3, <1>4 DEF Decision
<1> QED BY <1>5 DEF d

LEMMA ClassifyType ==
  ASSUME NEW report \in Report
  PROVE  Classify(report) \in SubmissionStates
<1>1. /\ FromErrorKind(report) \in SubmissionStates \cup {"none"}
      /\ FromError(report) \in SubmissionStates \cup {"none"}
      /\ report.view \in SubmissionStates \cup {"none"}
  BY DEF Report, FromErrorKind, FromError, FromAbort, SubmissionStates
<1> QED BY <1>1 DEF Classify, SubmissionStates

\* Every variable keeps its type, and a decision names a gateway exactly when a rule
\* or the fallback made it: select always finds a best rule among those that match.
THEOREM PaymentTypes == Spec => []TypeOK
<1>1. Init => TypeOK
  <2> SUFFICES ASSUME Init PROVE TypeOK
    OBVIOUS
  <2>1. /\ decision \in Decision
        /\ decision.by \in {"rule", "fallback"} <=> decision.gateway # NoGateway
    BY DEF Init, Decision, NoDecision, NoGateway
  <2>2. payment \in Payment /\ vouchedFor \in BOOLEAN
    BY TableAssumption, Zenon DEF Init
  <2> QED BY <2>1, <2>2 DEF Init, TypeOK, SubmissionStates
<1>2. TypeOK /\ [Next]_vars => TypeOK'
  <2> SUFFICES ASSUME TypeOK, [Next]_vars PROVE TypeOK'
    OBVIOUS
  <2>1. CASE Route
    <3>1. decision' \in Decision
          /\ (decision'.by \in {"rule", "fallback"} <=> decision'.gateway # NoGateway)
      BY <2>1, SelectType DEF Route, TypeOK
    <3> QED BY <2>1, <3>1 DEF Route, TypeOK
  <2>2. CASE Attempt
    <3>1. PICK accepted \in BOOLEAN, report \in Report :
            /\ charges' = IF accepted THEN charges + 1 ELSE charges
            /\ state' = Classify(report)
      <4>1. PICK aftermath \in Aftermaths :
              /\ charges' = IF aftermath[1] THEN charges + 1 ELSE charges
              /\ state' = aftermath[2]
        BY <2>2 DEF Attempt
      <4>2. PICK accepted \in BOOLEAN, report \in Report :
              aftermath = <<accepted, Classify(report)>>
        BY <4>1 DEF Aftermaths
      <4> QED BY <4>1, <4>2
    <3>2. state' \in SubmissionStates /\ charges' \in Nat
      BY <3>1, ClassifyType DEF TypeOK
    <3>3. attempted' \subseteq Nat
      BY <2>2 DEF Attempt, TypeOK, Decision
    <3> QED BY <2>2, <3>2, <3>3 DEF Attempt, TypeOK
  <2>3. ASSUME NEW eligibility \in Eligibilities, NEW healthy \in HealthMaps,
               Reroute(eligibility, healthy)
        PROVE  TypeOK'
    <3>1. payment' \in Payment
      BY <2>3, TableAssumption DEF Reroute, TypeOK, Payment
    <3>2. CASE ~MayReroute(eligibility)
      BY <2>3, <3>1, <3>2 DEF Reroute, TypeOK
    <3>3. CASE MayReroute(eligibility)
      <4>1. decision' \in Decision
            /\ (decision'.by \in {"rule", "fallback"} <=> decision'.gateway # NoGateway)
        BY <2>3, <3>1, <3>3, SelectType DEF Reroute, TypeOK
      <4>2. AtOwnRisk(eligibility) \in BOOLEAN
        BY <3>3, OnlySafeOrAtRisk
      <4>3. /\ vouchedFor' = (vouchedFor \/ AtOwnRisk(eligibility))
            /\ pc' \in {"stopped", "attempt"}
            /\ UNCHANGED <<rules, fallback, attempted, state, charges>>
        BY <2>3, <3>3 DEF Reroute
      <4>4. vouchedFor' \in BOOLEAN
        BY <4>2, <4>3 DEF TypeOK
      <4> QED BY <3>1, <4>1, <4>3, <4>4 DEF TypeOK
    <3> QED BY <3>2, <3>3
  <2>4. CASE UNCHANGED vars
    BY <2>4 DEF vars, TypeOK
  <2> QED BY <2>1, <2>2, <2>3, <2>4 DEF Next
<1> QED BY <1>1, <1>2, PTL DEF Spec

-----------------------------------------------------------------------------
(* RecoveredPayment                                                        *)

ShownStatuses == {"processing", "authorized", "partially_captured", "paid",
                  "partially_refunded", "refunded", "failed"}

Entry == [status   : ShownStatuses \cup {"none"},
          captured : Nat, refunded : Nat, visible : BOOLEAN]

Record == [id : Nat, status : ShownStatuses \cup {Unset}, amount : Int, captured : Int, refunded : Int]

\* The payment has taken no money and never will.
Dead(p) == p.status \in {"none", "failed"} /\ p.captured = 0

\* What a status says of the money, and what it cannot be taken back to.
Coherent(p) == /\ p.status \in {"none", "processing"} => p.captured = 0
               /\ p.status = "paid" => p.captured > 0
               /\ p.visible => p.status # "none"

Typed == /\ ledger \in Seq(Entry)
         /\ \A n \in DOMAIN ledger : Coherent(ledger[n])
         /\ local \in Record
         /\ charges \in Nat /\ vouchedFor \in BOOLEAN

\* Whoever may charge can rely on every payment before being dead.
MayCharge == pc \in {"route", "attempt"} \/ (pc = "decide" /\ IsSafe(state))

PastIsDead ==
  ~vouchedFor => \A n \in DOMAIN ledger : n # Last \/ MayCharge => Dead(ledger[n])

\* The record names the last payment or none, and never runs ahead of it.
RecordIsBehind ==
  /\ local.id \in {NoId, Last}
  /\ ~Indeterminate(local) => ledger # <<>> /\ ledger[Last].status # "processing"

\* What a snapshot taken earlier still says of the payment p.
StillTrue(snapshot, p) ==
  /\ snapshot.status \in ShownStatuses
  /\ snapshot.status = "failed" =>
       /\ p.status = "failed"
       /\ ~Moved(snapshot.captured) => p.captured = 0
  /\ snapshot.status = "paid" => p.captured > 0
  /\ snapshot.status # "processing" => p.status # "processing"

TargetIsSound(target) ==
  /\ target.id \in {NoId, Last} /\ target.expected.id \in {NoId, Last}
  /\ target.expected.status \in ShownStatuses \cup {Unset}
  /\ ~Indeterminate(target.expected) => ~Indeterminate(local)

ResultIsSound(result, target) ==
  \/ result.outcome \in {"ambiguous_match", "temporarily_unavailable",
                         "provider_not_found", "manual_review_required"}
  \/ /\ result.outcome \in {"consistent", "drift_detected"}
     /\ result.provider.id = Last /\ StillTrue(result.provider, ledger[Last])
     /\ result.outcome = "consistent" => Differences(target.expected, result.provider) = {}

JobIsSound ==
  /\ job.stage \in {"idle", "looking", "answered", "applied"}
  /\ job.stage # "idle" => pc = "stopped" /\ ~vouchedFor /\ ledger # <<>>
  /\ job.stage \in {"looking", "answered"} =>
       TargetIsSound(job.target) /\ ResultIsSound(job.result, job.target)
  /\ job.stage = "applied" =>
       /\ job.forbids \in BOOLEAN
       /\ ~job.forbids => Dead(ledger[Last])

IInv == /\ Typed /\ PastIsDead /\ MoneyMovesOnce /\ RecordIsBehind
        /\ JobIsSound /\ SafeDecisionsHold

-----------------------------------------------------------------------------
(* What a provider tells, and what is decided on it                        *)

\* The last payment is one of the ledger's.
LEMMA LastIsThere ==
  ASSUME Typed, ledger # <<>>
  PROVE  /\ Last \in DOMAIN ledger /\ Last \in Nat /\ Last # NoId
         /\ ledger[Last] \in Entry /\ Coherent(ledger[Last])
<1>1. Len(ledger) \in Nat /\ DOMAIN ledger = 1..Len(ledger) /\ Len(ledger) # 0
  BY DEF Typed
<1>2. Last \in DOMAIN ledger
  BY <1>1 DEF Last
<1> QED BY <1>1, <1>2 DEF Last, NoId, Typed

\* A snapshot is true of its payment when it is taken.
LEMMA SnapshotIsTrue ==
  ASSUME Typed, NEW n \in DOMAIN ledger, ledger[n].status # "none", NEW p \in Snapshots(n)
  PROVE  /\ p.id = n /\ p.status = ledger[n].status
         /\ StillTrue(p, ledger[n])
<1>1. ledger[n] \in Entry /\ Coherent(ledger[n])
  BY DEF Typed
<1>2. ledger[n].status \in ShownStatuses
  BY <1>1 DEF Entry
<1>3. PICK c \in {ledger[n].captured} \cup (IF ledger[n].status = "failed" /\ ledger[n].captured > 0
                                          THEN {} ELSE {NoMoney}),
           r \in {ledger[n].refunded, NoMoney} :
        p = [id |-> n, status |-> ledger[n].status, amount |-> Amount, captured |-> c, refunded |-> r]
  BY DEF Snapshots
<1>4. p.id = n /\ p.status = ledger[n].status /\ p.captured = c
  BY <1>3
<1>5. ledger[n].captured \in Nat
  BY <1>1 DEF Entry
<1>6. ledger[n].status = "failed" /\ ~Moved(c) => ledger[n].captured = 0
  BY <1>3, <1>5 DEF Moved, NoMoney
<1>7. ledger[n].status = "paid" => ledger[n].captured > 0
  BY <1>1 DEF Coherent
<1> QED BY <1>2, <1>4, <1>6, <1>7 DEF StillTrue

\* Where a replacement is not forbidden the last payment is dead.
LEMMA AllowedIsDead ==
  ASSUME NEW result, NEW target, ResultIsSound(result, target),
         ~ForbidsReplacement(result, target)
  PROVE  Dead(ledger[Last])
<1> DEFINE p == result.provider
<1>1. StillTrue(p, ledger[Last])
  BY DEF ForbidsReplacement, ResultIsSound
<1>2. p.status \notin OpenMoney /\ ~FailedWithMoney(p)
  BY DEF ForbidsReplacement
<1>3. p.status = "failed"
  BY <1>1, <1>2 DEF StillTrue, ShownStatuses, OpenMoney, OpenIncomplete, Settling, Holds,
                    RefundStatuses
<1>4. ~Moved(p.captured)
  BY <1>2, <1>3 DEF FailedWithMoney, Failures
<1> QED BY <1>1, <1>3, <1>4 DEF StillTrue, Dead

\* What a safe decision says is true of the last payment, and a decision that closes
\* the job needs a record that is not pending.
Justified(action, expected) ==
  /\ action = "update_local_to_failed" => Dead(ledger[Last]) /\ ledger[Last].status = "failed"
  /\ action = "update_local_to_paid" => ledger[Last].captured > 0
  /\ action = "mark_consistent" => /\ ledger[Last].status # "processing"
                                   /\ ~Indeterminate(expected)

LEMMA DecisionIsTrue ==
  ASSUME NEW result, NEW target, TargetIsSound(target), ResultIsSound(result, target)
  PROVE  Justified(Decide(result, target), target.expected)
<1> DEFINE p == result.provider
           l == target.expected
<1>1. CASE result.outcome \notin {"consistent", "drift_detected"}
  <2>1. Decide(result, target) \in {"manual_review", "retry_later", "do_not_create_replacement"}
    BY <1>1 DEF Decide, ResultIsSound
  <2> QED BY <2>1 DEF Justified
<1>2. CASE result.outcome \in {"consistent", "drift_detected"}
  <2>1. p.id = Last /\ StillTrue(p, ledger[Last])
    BY <1>2 DEF ResultIsSound
  <2>2. BoundToTarget(target, p)
    BY <2>1 DEF TargetIsSound, BoundToTarget
  <2>3. FailedCleanly(p) => Dead(ledger[Last]) /\ ledger[Last].status = "failed"
    BY <2>1 DEF FailedCleanly, FailedWithMoney, Failures, StillTrue, ShownStatuses, Dead
  <2>4. PaidCleanly(p) => ledger[Last].captured > 0
    BY <2>1 DEF PaidCleanly, StillTrue
  <2>5. CASE result.outcome = "drift_detected"
    <3>1. Decide(result, target) = DecideDrift(target, p)
      BY <2>5 DEF Decide
    <3>2. \/ DecideDrift(target, p) = "update_local_to_paid" /\ PaidCleanly(p)
          \/ DecideDrift(target, p) = "update_local_to_failed" /\ FailedCleanly(p)
          \/ DecideDrift(target, p) \in {"retry_later", "apply_drift_review"}
      BY DEF DecideDrift
    <3> QED BY <2>3, <2>4, <3>1, <3>2 DEF Justified
  <2>6. CASE result.outcome = "consistent"
    <3>1. Decide(result, target) = DecideConsistent(target, p)
      BY <2>6 DEF Decide
    <3>2. Differences(l, p) = {}
      BY <2>6 DEF ResultIsSound
    <3>3. ~Indeterminate(l) => p.status = l.status
      <4>1. "status" \notin Differences(l, p)
        BY <3>2
      <4>2. l.status \in {Unset, p.status}
        BY <4>1 DEF Differences
      <4> QED BY <4>2 DEF Indeterminate
    <3>4. \/ DecideConsistent(target, p) = "update_local_to_paid" /\ PaidCleanly(p)
          \/ DecideConsistent(target, p) = "update_local_to_failed" /\ FailedCleanly(p)
          \/ DecideConsistent(target, p) \in {"retry_later", "manual_review"}
          \/ DecideConsistent(target, p) = "mark_consistent" /\ ~Indeterminate(l)
      <4>1. CASE ~Indeterminate(l)
        BY <4>1 DEF DecideConsistent
      <4>2. CASE Indeterminate(l)
        <5>1. p.status \in {"paid", "failed"} \/ p.status \in OpenIncomplete
          BY <2>1 DEF StillTrue, ShownStatuses, OpenIncomplete, Settling, Holds, RefundStatuses
        <5>2. p.status = "failed" => FailedCleanly(p) \/ FailedWithMoney(p)
          BY DEF FailedCleanly, Failures
        <5>3. \/ PaidCleanly(p) \/ FailedCleanly(p) \/ FailedWithMoney(p)
              \/ p.status \in Settling \/ p.status \in OpenIncomplete \ Settling
              \/ p.status = "paid" /\ ~PaidCleanly(p)
          BY <5>1, <5>2
        <5> QED BY <2>2, <4>2, <5>3 DEF DecideConsistent
      <4> QED BY <4>1, <4>2
    <3>5. ~Indeterminate(l) => ledger[Last].status # "processing"
      BY <2>1, <3>3 DEF Indeterminate, Settling, StillTrue
    <3> QED BY <2>3, <2>4, <3>1, <3>4, <3>5 DEF Justified
  <2> QED BY <1>2, <2>5, <2>6
<1> QED BY <1>1, <1>2

-----------------------------------------------------------------------------
(* The steps                                                               *)

\* What a step of the provider makes of a payment, and of the other payments.
Moves(p, q) ==
  /\ q \in Entry /\ Coherent(q)
  /\ p.status = "failed" => q.status = "failed" /\ q.captured = p.captured
  /\ p.status # "none" /\ (p.status # "processing" => q.status # "processing")
  /\ p.captured > 0 => q.captured > 0

LEMMA ProviderMoves ==
  ASSUME Typed, NEW n \in DOMAIN ledger, Provider(n)
  PROVE  /\ ledger' \in Seq(Entry) /\ DOMAIN ledger' = DOMAIN ledger /\ Last' = Last
         /\ \A m \in DOMAIN ledger : m # n => ledger'[m] = ledger[m]
         /\ Moves(ledger[n], ledger'[n])
<1> DEFINE p == ledger[n]
           q == ledger'[n]
<1>1. p \in Entry /\ Coherent(p) /\ p.status # "none"
  <2>1. p \in Entry /\ Coherent(p)
    BY DEF Typed
  <2>2. p.status # "none"
    BY Zenon DEF Provider
  <2> QED BY <2>1, <2>2
<1>2. \E e \in Entry : ledger' = [ledger EXCEPT ![n] = e] /\ Moves(p, e)
  <2>1. CASE ~p.visible /\ ledger' = [ledger EXCEPT ![n].visible = TRUE]
    <3>1. [p EXCEPT !.visible = TRUE] \in Entry
      BY <1>1 DEF Entry
    <3>2. Moves(p, [p EXCEPT !.visible = TRUE])
      BY <1>1, <3>1 DEF Moves, Coherent, Entry
    <3> QED BY <2>1, <3>1, <3>2
  <2>2. ASSUME NEW status \in Successors(p.status),
               NEW captured \in p.captured..Amount, NEW refunded \in p.refunded..Amount,
               Plausible(status, captured, refunded),
               status = "failed" => captured = p.captured,
               ledger' = [ledger EXCEPT ![n] =
                 [p EXCEPT !.status = status, !.captured = captured, !.refunded = refunded]]
        PROVE  \E e \in Entry : ledger' = [ledger EXCEPT ![n] = e] /\ Moves(p, e)
    <3> DEFINE e == [p EXCEPT !.status = status, !.captured = captured, !.refunded = refunded]
    <3>1. p.captured \in Nat /\ p.refunded \in Nat /\ Amount \in Nat
      BY <1>1, RecoveryAssumption DEF Entry
    <3>2. captured \in Nat /\ refunded \in Nat /\ captured >= p.captured
      BY <3>1
    <3>3. status \in ShownStatuses /\ status # "processing" /\ p.status # "failed"
      BY DEF Successors, ShownStatuses
    <3>4. e \in Entry /\ e.status = status /\ e.captured = captured /\ e.visible = p.visible
      BY <1>1, <3>2, <3>3 DEF Entry
    <3>5. Coherent(e)
      BY <3>2, <3>3, <3>4, <2>2 DEF Coherent, Plausible, ShownStatuses
    <3>6. Moves(p, e)
      BY <1>1, <3>1, <3>2, <3>3, <3>4, <3>5 DEF Moves
    <3> QED BY <2>2, <3>4, <3>6
  <2> QED BY <2>1, <2>2 DEF Provider
<1>3. PICK e \in Entry : ledger' = [ledger EXCEPT ![n] = e] /\ Moves(p, e)
  BY <1>2
<1>4. ledger \in Seq(Entry)
  BY DEF Typed
<1>5. ledger' \in Seq(Entry) /\ Len(ledger') = Len(ledger) /\ q = e
  BY <1>3, <1>4
<1> QED BY <1>3, <1>4, <1>5 DEF Last

LEMMA ProviderKeeps ==
  ASSUME IInv, NEW n \in DOMAIN ledger, Provider(n)
  PROVE  IInv'
<1>1. /\ ledger' \in Seq(Entry) /\ DOMAIN ledger' = DOMAIN ledger /\ Last' = Last
      /\ \A m \in DOMAIN ledger : m # n => ledger'[m] = ledger[m]
      /\ Moves(ledger[n], ledger'[n])
  BY ProviderMoves DEF IInv
<1>2. UNCHANGED <<vars, recovering, local, job, replaced>> /\ ~vouchedFor
  BY DEF Provider
<1>3. /\ pc' = pc /\ state' = state /\ vouchedFor' = vouchedFor /\ charges' = charges
      /\ local' = local /\ job' = job
  BY <1>2 DEF vars
<1>4. \A m \in DOMAIN ledger : Dead(ledger[m]) => Dead(ledger'[m])
  BY <1>1 DEF Moves, Dead
<1>5. Typed'
  <2>1. \A m \in DOMAIN ledger' : Coherent(ledger'[m])
    BY <1>1 DEF IInv, Typed, Moves
  <2> QED BY <1>1, <1>3, <2>1 DEF IInv, Typed
<1>6. PastIsDead'
  BY <1>1, <1>3, <1>4 DEF IInv, PastIsDead, MayCharge
<1>7. MoneyMovesOnce'
  <2>1. \A m \in DOMAIN ledger : ledger'[m].captured > 0 => ~Dead(ledger[m])
    <3> SUFFICES ASSUME NEW m \in DOMAIN ledger, Dead(ledger[m])
                 PROVE  ledger'[m].captured = 0
      OBVIOUS
    <3> QED BY <1>4 DEF Dead
  <2>2. \A m \in DOMAIN ledger : ledger'[m].captured > 0 => m = Last
    BY <1>2, <2>1 DEF IInv, PastIsDead
  <2> QED BY <1>1, <2>2 DEF MoneyMovesOnce
<1>8. ledger # <<>> => /\ ledger' # <<>>
                       /\ Last \in DOMAIN ledger
                       /\ ledger'[Last] = ledger[Last] \/ Moves(ledger[Last], ledger'[Last])
  <2>1. ASSUME ledger # <<>> PROVE Last \in DOMAIN ledger
    BY <2>1, LastIsThere DEF IInv
  <2> QED BY <1>1, <2>1
<1>9. RecordIsBehind'
  BY <1>1, <1>3, <1>8 DEF IInv, RecordIsBehind, Indeterminate, Moves
<1>10. JobIsSound' /\ SafeDecisionsHold'
  <2>1. CASE job.stage = "idle"
    BY <1>3, <2>1 DEF JobIsSound, SafeDecisionsHold
  <2>2. CASE job.stage # "idle"
    <3> DEFINE p == ledger[Last]
               q == ledger'[Last]
    <3>1. ledger # <<>> /\ Last \in DOMAIN ledger /\ p \in Entry
      BY <2>2, LastIsThere DEF IInv, JobIsSound
    <3>2. /\ p.status = "failed" => q.status = "failed" /\ q.captured = p.captured
          /\ p.status # "processing" => q.status # "processing"
          /\ p.captured > 0 => q.captured > 0
          /\ Dead(p) => Dead(q)
      BY <1>4, <1>8, <3>1 DEF Moves
    <3>3. \A snapshot : StillTrue(snapshot, p) => StillTrue(snapshot, q)
      BY <3>2 DEF StillTrue
    <3>4. JobIsSound'
      <4>1. TargetIsSound(job.target) => TargetIsSound(job.target)'
        BY <1>1, <1>3 DEF TargetIsSound
      <4>2. ResultIsSound(job.result, job.target) => ResultIsSound(job.result, job.target)'
        BY <1>1, <1>3, <3>3 DEF ResultIsSound
      <4> QED BY <1>1, <1>3, <1>8, <3>2, <4>1, <4>2 DEF IInv, JobIsSound
    <3>5. SafeDecisionsHold'
      <4>1. CASE job.stage # "applied"
        BY <1>3, <4>1 DEF SafeDecisionsHold
      <4>2. CASE job.stage = "applied"
        <5>1. /\ job.action = "update_local_to_failed" => p.status = "failed" /\ p.captured = 0
              /\ job.action = "update_local_to_paid" => p.captured > 0
              /\ job.action = "mark_consistent" => p.status \notin Settling /\ ~Indeterminate(local)
          BY <4>2 DEF IInv, SafeDecisionsHold
        <5>2. q \in Entry
          BY <1>1, <3>1
        <5>3. p.status \notin Settling => q.status \notin Settling
          BY <3>1, <3>2, <5>2 DEF Settling, Entry, ShownStatuses
        <5> HIDE DEF p, q
        <5>4. /\ job.action = "update_local_to_failed" => q.status = "failed" /\ q.captured = 0
              /\ job.action = "update_local_to_paid" => q.captured > 0
              /\ job.action = "mark_consistent" => q.status \notin Settling /\ ~Indeterminate(local)
          BY <3>2, <5>1, <5>3
        <5> QED BY <1>1, <1>3, <5>4 DEF SafeDecisionsHold, Indeterminate, q
      <4> QED BY <4>1, <4>2
    <3> QED BY <3>4, <3>5
  <2> QED BY <2>1, <2>2
<1> QED BY <1>5, <1>6, <1>7, <1>9, <1>10 DEF IInv

\* A step of the routing, which makes no attempt.
LEMMA RoutingKeeps ==
  ASSUME IInv, Routing
  PROVE  IInv'
<1>1. UNCHANGED <<ledger, local, job, charges>> /\ Last' = Last
  BY DEF Routing, Route, Reroute, recoveryVars, Last
<1>2. /\ pc # "stopped"
      /\ vouchedFor' \in BOOLEAN
      /\ ~vouchedFor' => ~vouchedFor /\ (MayCharge' => MayCharge)
  <2>1. CASE Route
    BY <2>1 DEF Route, MayCharge, IInv, Typed
  <2>2. ASSUME NEW eligibility \in Eligibilities, NEW healthy \in HealthMaps,
               Reroute(eligibility, healthy)
        PROVE  /\ pc = "decide" /\ vouchedFor' \in BOOLEAN
               /\ ~vouchedFor' => ~vouchedFor /\ (MayCharge' => MayCharge)
    <3>1. vouchedFor \in BOOLEAN /\ pc = "decide"
      BY <2>2, Zenon DEF IInv, Typed, Reroute
    <3>2. CASE ~MayReroute(eligibility)
      <4>1. vouchedFor' = vouchedFor /\ pc' = "stopped"
        BY <2>2, <3>2 DEF Reroute
      <4> QED BY <3>1, <4>1 DEF MayCharge
    <3>3. CASE MayReroute(eligibility)
      <4>1. vouchedFor' = (vouchedFor \/ AtOwnRisk(eligibility))
        BY <2>2, <3>3 DEF Reroute
      <4>2. /\ IsSafe(state) \/ AtOwnRisk(eligibility)
            /\ AtOwnRisk(eligibility) \in BOOLEAN
        BY <3>3, OnlySafeOrAtRisk
      <4> QED BY <3>1, <4>1, <4>2 DEF MayCharge
    <3> QED BY <3>1, <3>2, <3>3
  <2> QED BY <2>1, <2>2 DEF Routing, Route
<1>3. Typed' /\ MoneyMovesOnce' /\ RecordIsBehind'
  BY <1>1, <1>2 DEF IInv, Typed, MoneyMovesOnce, RecordIsBehind, Indeterminate, Coherent
<1>4. PastIsDead'
  BY <1>1, <1>2 DEF IInv, PastIsDead
<1>5. job.stage = "idle"
  BY <1>2 DEF IInv, JobIsSound
<1>6. JobIsSound' /\ SafeDecisionsHold'
  BY <1>1, <1>5 DEF JobIsSound, SafeDecisionsHold
<1> QED BY <1>3, <1>4, <1>6 DEF IInv

\* An attempt adds a payment that has taken nothing yet.
LEMMA ChargeKeeps ==
  ASSUME IInv, Charge
  PROVE  IInv'
<1>1. pc = "attempt" /\ pc' = "decide" /\ vouchedFor' = vouchedFor /\ job' = job
  BY Zenon DEF Charge, Attempt
<1>2. PICK accepted \in BOOLEAN, report \in Report :
        /\ Truthful(report, accepted)
        /\ charges' = IF accepted THEN charges + 1 ELSE charges
        /\ state' = Classify(report)
  <2>1. PICK aftermath \in Aftermaths :
          /\ charges' = IF aftermath[1] THEN charges + 1 ELSE charges
          /\ state' = aftermath[2]
    BY DEF Charge, Attempt
  <2>2. PICK accepted \in BOOLEAN, report \in Report :
          Truthful(report, accepted) /\ aftermath = <<accepted, Classify(report)>>
    BY DEF Aftermaths
  <2> QED BY <2>1, <2>2
<1>3. accepted => ~IsSafe(state')
  BY <1>2, AcceptedIsUnsafe
<1>4. charges \in Nat /\ vouchedFor \in BOOLEAN /\ ledger \in Seq(Entry) /\ local \in Record
  BY DEF IInv, Typed
<1>5. charges' \in Nat /\ (charges' > charges <=> accepted)
  BY <1>2, <1>4
<1>6. PICK entry \in {NewPayment, NoPayment}, id \in {NoId, Last + 1} :
        /\ entry = NewPayment => accepted
        /\ ledger' = IF recovering THEN Append(ledger, entry) ELSE ledger
        /\ local' = IF recovering THEN NewLocal(id) ELSE local
  <2>1. PICK taken \in BOOLEAN :
          /\ taken <=> accepted
          /\ ledger' = IF recovering
                       THEN Append(ledger, IF taken THEN NewPayment ELSE NoPayment)
                       ELSE ledger
          /\ \E id \in {NoId} \cup (IF taken THEN {Last + 1} ELSE {}) :
               local' = IF recovering THEN NewLocal(id) ELSE local
    BY <1>5, Zenon DEF Charge
  <2>2. PICK id \in {NoId, Last + 1} : local' = IF recovering THEN NewLocal(id) ELSE local
    BY <2>1
  <2>3. CASE taken
    BY <2>1, <2>2, <2>3
  <2>4. CASE ~taken
    <3>1. NoPayment = NewPayment => FALSE
      BY DEF NoPayment, NewPayment
    <3> QED BY <2>1, <2>2, <2>4, <3>1
  <2> QED BY <2>3, <2>4
<1>7. entry \in Entry /\ Coherent(entry) /\ entry.captured = 0 /\ (~accepted => Dead(entry))
  <2>1. NoPayment \in Entry /\ NewPayment \in Entry
    BY DEF NoPayment, NewPayment, Entry, ShownStatuses
  <2>2. CASE entry = NewPayment
    BY <1>6, <2>1, <2>2 DEF Coherent, NewPayment
  <2>3. CASE entry = NoPayment
    BY <2>1, <2>3 DEF Coherent, NoPayment, Dead
  <2> QED BY <1>6, <2>2, <2>3
<1>8. Last \in Nat /\ Last' = IF recovering THEN Last + 1 ELSE Last
  BY <1>4, <1>6, <1>7 DEF Last
<1>9. \A n \in DOMAIN ledger' :
         \/ n \in DOMAIN ledger /\ ledger'[n] = ledger[n]
         \/ recovering /\ n = Last' /\ ledger'[n] = entry
  BY <1>4, <1>6, <1>7, <1>8 DEF Last
<1>10. Typed'
  <2>1. ledger' \in Seq(Entry)
    BY <1>4, <1>6, <1>7
  <2>2. \A n \in DOMAIN ledger' : Coherent(ledger'[n])
    BY <1>7, <1>9 DEF IInv, Typed
  <2>3. local' \in Record
    <3>1. NewLocal(id) \in Record
      BY <1>6, <1>8, RecoveryAssumption
         DEF NewLocal, Record, NoId, NoMoney, ShownStatuses
    <3> QED BY <1>4, <1>6, <3>1
  <2> QED BY <1>1, <1>4, <1>5, <2>1, <2>2, <2>3 DEF Typed, Coherent
<1>11. PastIsDead'
  <2> SUFFICES ASSUME ~vouchedFor, NEW n \in DOMAIN ledger', n # Last' \/ MayCharge'
               PROVE  Dead(ledger'[n])
    BY <1>1 DEF PastIsDead, Dead
  <2>1. \A m \in DOMAIN ledger : Dead(ledger[m])
    BY <1>1 DEF IInv, PastIsDead, MayCharge
  <2>2. accepted => ~MayCharge'
    BY <1>1, <1>3 DEF MayCharge, IsSafe
  <2> QED BY <1>7, <1>9, <2>1, <2>2
<1>12. MoneyMovesOnce'
  <2>1. \A n \in DOMAIN ledger' :
           ledger'[n].captured > 0 => n \in DOMAIN ledger /\ ledger'[n] = ledger[n]
    BY <1>7, <1>9
  <2> QED BY <2>1 DEF IInv, MoneyMovesOnce
<1>13. RecordIsBehind'
  <2>1. CASE recovering
    BY <1>6, <1>8, <2>1 DEF RecordIsBehind, NewLocal, Indeterminate, Settling
  <2>2. CASE ~recovering
    BY <1>6, <1>8, <2>2 DEF IInv, RecordIsBehind, Indeterminate
  <2> QED BY <2>1, <2>2
<1>14. JobIsSound' /\ SafeDecisionsHold'
  <2>1. job.stage = "idle"
    BY <1>1 DEF IInv, JobIsSound
  <2> QED BY <1>1, <2>1 DEF JobIsSound, SafeDecisionsHold
<1> QED BY <1>10, <1>11, <1>12, <1>13, <1>14 DEF IInv

-----------------------------------------------------------------------------
(* Steps that leave the providers and the routing alone                    *)

\* What is untouched by a step of the record or of the job.
LEMMA LedgerKeeps ==
  ASSUME IInv, UNCHANGED <<vars, ledger>>
  PROVE  /\ Last' = Last /\ PastIsDead' /\ MoneyMovesOnce'
         /\ ledger' \in Seq(Entry) /\ \A n \in DOMAIN ledger' : Coherent(ledger'[n])
         /\ charges' \in Nat /\ vouchedFor' \in BOOLEAN
<1>1. UNCHANGED <<ledger, pc, state, vouchedFor, charges>>
  BY DEF vars
<1> QED BY <1>1 DEF IInv, Typed, PastIsDead, MayCharge, MoneyMovesOnce, Last, Dead, Coherent, IsSafe

\* The record takes over an event of the last payment.
LEMMA EventKeeps ==
  ASSUME IInv, Event
  PROVE  IInv'
<1>1. UNCHANGED <<vars, ledger, job>> /\ ~vouchedFor /\ pc = "stopped" /\ ledger # <<>>
      /\ UNCHANGED <<pc, vouchedFor, recovering>>
  BY Zenon DEF Event, Uncertain, vars
<1>2. PICK p \in Snapshots(Last) : local' = [p EXCEPT !.amount = local.amount]
  BY DEF Event
<1>3. Last \in DOMAIN ledger /\ Last \in Nat /\ ledger[Last] \in Entry
      /\ ledger[Last].status \notin {"none", local.status}
  BY <1>1, LastIsThere DEF IInv, Event
<1>4. p.id = Last /\ p.status = ledger[Last].status /\ p.status \in ShownStatuses
  BY <1>3, SnapshotIsTrue DEF IInv, StillTrue
<1>5. /\ local' \in Record /\ local'.id = Last /\ local'.status = ledger[Last].status
  <2>1. PICK c \in Int, r \in Int :
          p = [id |-> Last, status |-> ledger[Last].status, amount |-> Amount,
               captured |-> c, refunded |-> r]
    BY <1>3 DEF Snapshots, Entry, NoMoney
  <2>2. local.amount \in Int
    BY DEF IInv, Typed, Record
  <2>3. local' = [id |-> Last, status |-> ledger[Last].status, amount |-> local.amount,
                  captured |-> c, refunded |-> r]
    BY <1>2, <2>1
  <2> QED BY <1>3, <1>4, <2>2, <2>3 DEF Record
<1>6. ~Indeterminate(local) => ~Indeterminate(local')
  BY <1>3, <1>4, <1>5 DEF IInv, RecordIsBehind, Indeterminate, Settling, ShownStatuses, Unset
<1>7. Typed' /\ PastIsDead' /\ MoneyMovesOnce' /\ Last' = Last
  BY <1>1, <1>5, LedgerKeeps DEF Typed
<1>8. RecordIsBehind'
  BY <1>1, <1>5, <1>7 DEF RecordIsBehind, Indeterminate, Settling
<1>9. JobIsSound'
  <2>1. TargetIsSound(job.target) => TargetIsSound(job.target)'
    BY <1>1, <1>6, <1>7 DEF TargetIsSound, Indeterminate
  <2>2. ResultIsSound(job.result, job.target) => ResultIsSound(job.result, job.target)'
    BY <1>1, <1>7 DEF ResultIsSound, StillTrue
  <2> QED BY <1>1, <1>7, <2>1, <2>2 DEF IInv, JobIsSound, Dead
<1>10. SafeDecisionsHold'
  BY <1>1, <1>6, <1>7 DEF IInv, SafeDecisionsHold, Indeterminate
<1> QED BY <1>7, <1>8, <1>9, <1>10 DEF IInv

\* A job starts without a result.
LEMMA StartJobKeeps ==
  ASSUME IInv, StartJob
  PROVE  IInv'
<1>1. /\ UNCHANGED <<vars, ledger, local>> /\ UNCHANGED <<pc, vouchedFor>>
      /\ ~vouchedFor /\ pc = "stopped" /\ ledger # <<>>
  BY Zenon DEF StartJob, Uncertain, vars
<1>2. PICK expected \in {local, Nothing}, keys \in SUBSET {"id", "key"} :
        job' = LookupJob("looking", keys, [id |-> local.id, expected |-> expected],
                         [outcome |-> IF keys = {} THEN "manual_review_required"
                                      ELSE "provider_not_found"])
  BY DEF StartJob
<1>3. /\ job'.stage = "looking"
      /\ job'.target = [id |-> local.id, expected |-> expected]
      /\ job'.result.outcome \in {"manual_review_required", "provider_not_found"}
  BY <1>2 DEF LookupJob
<1>4. Typed' /\ PastIsDead' /\ MoneyMovesOnce' /\ Last' = Last
  BY <1>1, LedgerKeeps DEF IInv, Typed
<1>5. RecordIsBehind'
  BY <1>1, <1>4 DEF IInv, RecordIsBehind, Indeterminate
<1>6. TargetIsSound(job.target)'
  <2>1. expected.id \in {NoId, Last} /\ expected.status \in ShownStatuses \cup {Unset}
        /\ (~Indeterminate(expected) => ~Indeterminate(local))
    BY <1>2 DEF IInv, Typed, Record, RecordIsBehind, Nothing, Indeterminate
  <2> QED BY <1>1, <1>3, <1>4, <2>1 DEF TargetIsSound, IInv, RecordIsBehind, Indeterminate
<1>7. ResultIsSound(job.result, job.target)'
  BY <1>3 DEF ResultIsSound
<1> QED BY <1>1, <1>3, <1>4, <1>5, <1>6, <1>7 DEF IInv, JobIsSound, SafeDecisionsHold

\* A lookup answers with a true snapshot of the last payment, or without one.
LEMMA LookUpKeeps ==
  ASSUME ~OrderReferences, IInv, LookUp
  PROVE  IInv'
<1>1. /\ UNCHANGED <<vars, ledger, local>> /\ UNCHANGED <<pc, vouchedFor>>
      /\ job.stage = "looking"
  BY Zenon DEF LookUp, vars
<1>2. TargetIsSound(job.target) /\ ResultIsSound(job.result, job.target)
      /\ pc = "stopped" /\ ~vouchedFor /\ ledger # <<>>
  BY <1>1 DEF IInv, JobIsSound
<1>3. PICK keys, result : /\ job' = LookupJob("looking", keys, job.target, result)
                             \/ job' = LookupJob("answered", keys, job.target, result)
                          /\ ResultIsSound(result, job.target)
  <2> DEFINE key == IF "id" \in job.keys THEN "id" ELSE "key"
             answered(result) == LookupJob("answered", {}, job.target, result)
  <2>1. CASE job' = answered([outcome |-> "temporarily_unavailable"])
    <3>1. ResultIsSound([outcome |-> "temporarily_unavailable"], job.target)
      BY DEF ResultIsSound
    <3> QED BY <2>1, <3>1
  <2>2. CASE job' = LookupJob("looking", job.keys \ {key}, job.target, job.result)
    BY <1>2, <2>2
  <2>3. CASE job' = answered([outcome |-> "ambiguous_match"])
    <3>1. ResultIsSound([outcome |-> "ambiguous_match"], job.target)
      BY DEF ResultIsSound
    <3> QED BY <2>3, <3>1
  <2>4. ASSUME NEW named \in Named(key), NEW n \in named, NEW p \in Snapshots(n),
               job' = answered(Found(job.target, p))
        PROVE  ResultIsSound(Found(job.target, p), job.target)
    <3>1. n \in DOMAIN ledger /\ ledger[n].visible /\ (job.target.id = NoId => n = Last)
      BY <1>2, LastIsThere DEF IInv, Named
    <3>2. p.id = n /\ StillTrue(p, ledger[n])
      BY <3>1, SnapshotIsTrue DEF IInv, Typed, Coherent
    <3>3. CASE job.target.id \notin {NoId, p.id}
      BY <3>3 DEF Found, ResultIsSound
    <3>4. CASE job.target.id \in {NoId, p.id}
      <4>1. p.id = Last
        BY <1>2, <3>1, <3>2, <3>4 DEF TargetIsSound
      <4> QED BY <3>1, <3>2, <3>4, <4>1 DEF Found, ResultIsSound
    <3> QED BY <3>3, <3>4
  <2> QED BY <2>1, <2>2, <2>3, <2>4 DEF LookUp
<1>4. /\ job'.stage \in {"looking", "answered"}
      /\ job'.target = job.target /\ job'.result = result
  BY <1>3 DEF LookupJob
<1>5. Typed' /\ PastIsDead' /\ MoneyMovesOnce' /\ Last' = Last
  BY <1>1, LedgerKeeps DEF IInv, Typed
<1>6. RecordIsBehind'
  BY <1>1, <1>5 DEF IInv, RecordIsBehind, Indeterminate
<1>7. TargetIsSound(job.target)' /\ ResultIsSound(job.result, job.target)'
  BY <1>1, <1>2, <1>3, <1>4, <1>5 DEF TargetIsSound, ResultIsSound, Indeterminate, StillTrue
<1> QED BY <1>1, <1>2, <1>4, <1>5, <1>6, <1>7 DEF IInv, JobIsSound, SafeDecisionsHold

\* What is applied is true of the last payment.
LEMMA ApplyKeeps ==
  ASSUME IInv, Apply
  PROVE  IInv'
<1> DEFINE action == Decide(job.result, job.target)
           p == ledger[Last]
<1>1. /\ UNCHANGED <<vars, ledger>> /\ UNCHANGED <<pc, vouchedFor>>
      /\ job.stage \in {"looking", "answered"}
  BY Zenon DEF Apply, vars
<1>2. TargetIsSound(job.target) /\ ResultIsSound(job.result, job.target)
      /\ pc = "stopped" /\ ~vouchedFor /\ ledger # <<>>
  BY <1>1 DEF IInv, JobIsSound
<1>3. /\ job'.stage = "applied" /\ job'.action = action
      /\ job'.forbids = ForbidsReplacement(job.result, job.target)
      /\ local' = CASE action = "update_local_to_paid"   -> [local EXCEPT !.status = "paid"]
                    [] action = "update_local_to_failed" -> [local EXCEPT !.status = "failed"]
                    [] OTHER -> local
  BY DEF Apply
<1>4. Justified(action, job.target.expected)
  BY <1>2, DecisionIsTrue
<1>5. job'.forbids \in BOOLEAN /\ (~job'.forbids => Dead(p))
  BY <1>2, <1>3, AllowedIsDead DEF ForbidsReplacement
<1>6. p \in Entry /\ Coherent(p)
  BY <1>2, LastIsThere DEF IInv
<1> HIDE DEF action
<1>7. \/ local' = local /\ action \notin {"update_local_to_paid", "update_local_to_failed"}
      \/ local' = [local EXCEPT !.status = "paid"] /\ action = "update_local_to_paid"
      \/ local' = [local EXCEPT !.status = "failed"] /\ action = "update_local_to_failed"
  BY <1>3
<1>8. /\ local' \in Record /\ local'.id = local.id
      /\ action \in {"update_local_to_paid", "update_local_to_failed"} => p.status # "processing"
      /\ action \notin {"update_local_to_paid", "update_local_to_failed"} => local' = local
  BY <1>4, <1>6, <1>7 DEF IInv, Typed, Record, ShownStatuses, Justified, Coherent
<1>9. Typed' /\ PastIsDead' /\ MoneyMovesOnce' /\ Last' = Last
  BY <1>1, <1>8, LedgerKeeps DEF Typed
<1>10. RecordIsBehind'
  BY <1>1, <1>2, <1>8, <1>9 DEF IInv, RecordIsBehind, Indeterminate
<1>11. JobIsSound'
  BY <1>1, <1>2, <1>3, <1>5, <1>9 DEF JobIsSound, Dead
<1>12. SafeDecisionsHold'
  <2>1. action = "update_local_to_failed" => p.status = "failed" /\ p.captured = 0
    BY <1>4 DEF Justified, Dead
  <2>2. action = "update_local_to_paid" => p.captured > 0
    BY <1>4 DEF Justified
  <2>3. action = "mark_consistent" => p.status \notin Settling /\ ~Indeterminate(local')
    BY <1>2, <1>4, <1>6, <1>8 DEF Justified, TargetIsSound, Settling, Entry, ShownStatuses
  <2> QED BY <1>1, <1>3, <1>9, <2>1, <2>2, <2>3 DEF SafeDecisionsHold, Indeterminate
<1> QED BY <1>9, <1>10, <1>11, <1>12 DEF IInv

\* The job ends, or the last payment is dead and another may follow.
LEMMA EndKeeps ==
  ASSUME IInv, EndJob \/ Replace
  PROVE  IInv'
<1>1. UNCHANGED <<ledger, local, vouchedFor>> /\ Last' = Last /\ job'.stage = "idle"
  BY DEF EndJob, Replace, vars, IdleJob, Last
<1>2. Typed' /\ MoneyMovesOnce' /\ RecordIsBehind' /\ JobIsSound' /\ SafeDecisionsHold'
  <2>1. charges' \in Nat
    BY DEF EndJob, Replace, vars, IInv, Typed
  <2> QED BY <1>1, <2>1 DEF IInv, Typed, MoneyMovesOnce, RecordIsBehind, JobIsSound,
                            SafeDecisionsHold, Indeterminate, Coherent
<1>3. CASE EndJob
  <2>1. UNCHANGED <<pc, state>>
    BY <1>3 DEF EndJob, vars
  <2>2. PastIsDead'
    BY <1>1, <2>1 DEF IInv, PastIsDead, MayCharge, IsSafe, Dead
  <2> QED BY <1>2, <2>2 DEF IInv
<1>4. CASE Replace
  <2>1. job.stage = "applied" /\ ~job.forbids
    BY <1>4 DEF Replace
  <2>2. ~vouchedFor => Dead(ledger[Last])
    BY <2>1 DEF IInv, JobIsSound
  <2>3. PastIsDead'
    BY <1>1, <2>2 DEF IInv, PastIsDead, Dead
  <2> QED BY <1>2, <2>3 DEF IInv
<1> QED BY <1>3, <1>4

-----------------------------------------------------------------------------
(* The theorems                                                            *)

LEMMA RecoveryInductive ==
  ASSUME ~OrderReferences
  PROVE  /\ RecoverInit => IInv
         /\ IInv /\ [RecoverNext]_allVars => IInv'
<1>1. RecoverInit => IInv
  <2> SUFFICES ASSUME RecoverInit PROVE IInv
    OBVIOUS
  <2>1. /\ ledger = <<>> /\ local = Nothing /\ job = IdleJob /\ charges = 0
        /\ vouchedFor = FALSE
    BY Zenon DEF RecoverInit, Init
  <2>2. Typed
    <3>1. Nothing \in Record
      BY DEF Nothing, Record, NoId, NoMoney
    <3>2. ledger \in Seq(Entry) /\ (\A n \in DOMAIN ledger : Coherent(ledger[n])) /\ charges \in Nat
      BY <2>1
    <3> QED BY <2>1, <3>1, <3>2, Zenon DEF Typed
  <2>3. PastIsDead /\ MoneyMovesOnce
    BY <2>1 DEF PastIsDead, MoneyMovesOnce
  <2>4. RecordIsBehind
    BY <2>1 DEF RecordIsBehind, Nothing, Indeterminate
  <2>5. JobIsSound /\ SafeDecisionsHold
    BY <2>1 DEF JobIsSound, IdleJob, SafeDecisionsHold
  <2> QED BY <2>2, <2>3, <2>4, <2>5 DEF IInv
<1>2. ASSUME IInv, [RecoverNext]_allVars PROVE IInv'
  <2>1. CASE UNCHANGED allVars
    <3>1. UNCHANGED <<ledger, local, job, vouchedFor, charges, pc, state, vars>>
      BY <2>1 DEF allVars, recoveryVars, vars
    <3>2. Last' = Last /\ Typed' /\ PastIsDead' /\ MoneyMovesOnce'
      BY <1>2, <3>1, LedgerKeeps DEF IInv, Typed
    <3>3. RecordIsBehind' /\ SafeDecisionsHold'
      BY <1>2, <3>1, <3>2 DEF IInv, RecordIsBehind, SafeDecisionsHold, Indeterminate
    <3>4. JobIsSound'
      BY <1>2, <3>1, <3>2 DEF IInv, JobIsSound, TargetIsSound, ResultIsSound, Dead, StillTrue,
                              Indeterminate
    <3> QED BY <3>2, <3>3, <3>4 DEF IInv
  <2> QED BY <1>2, <2>1, RoutingKeeps, ChargeKeeps, EventKeeps, StartJobKeeps, LookUpKeeps,
             ApplyKeeps, EndKeeps, ProviderKeeps DEF RecoverNext
<1> QED BY <1>1, <1>2

\* One payment of an order takes money, whatever the number of fallbacks and of
\* replacements, the moves of the providers and the snapshots that are lost or late;
\* where the payment's id is not known, no key names another attempt.
THEOREM MoneyMovesOnly ==
  ASSUME ~OrderReferences
  PROVE  RecoverSpec => []MoneyMovesOnce
<1>1. IInv => MoneyMovesOnce
  BY DEF IInv
<1>2. RecoverInit => IInv
  BY RecoveryInductive
<1>3. IInv /\ [RecoverNext]_allVars => IInv'
  BY RecoveryInductive
<1> QED BY <1>1, <1>2, <1>3, PTL DEF RecoverSpec

\* What reconciliation marks as safe is true of the payment it decides about, on the
\* same condition.
THEOREM SafeIsTrue ==
  ASSUME ~OrderReferences
  PROVE  RecoverSpec => []SafeDecisionsHold
<1>1. IInv => SafeDecisionsHold
  BY DEF IInv
<1>2. RecoverInit => IInv
  BY RecoveryInductive
<1>3. IInv /\ [RecoverNext]_allVars => IInv'
  BY RecoveryInductive
<1> QED BY <1>1, <1>2, <1>3, PTL DEF RecoverSpec
=============================================================================
