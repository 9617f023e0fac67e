--------------------------- MODULE MCRecoveredPayment --------------------------
(* Three gateways, tables of two rules, and one partition field.           *)
EXTENDS RecoveredPayment

CONSTANTS usd, eur

Part(v) == [f \in Fields |-> v]

\* A rule takes any amount or only 2 usd and more.
MCRules == {[gateway |-> g, part |-> Part(v), min |-> lo, max |-> NoBound, rangeCur |-> usd,
             needs |-> n] :
            g \in {1, 2}, v \in {usd, eur, Any}, lo \in {NoBound, 2},
            n \in {"unset", "capability"}}

MCTables == {r \in MCRules : r.needs = "unset"} \X MCRules

\* The payment's currency and the amount's; the last two disagree.
MCCurrencies == {<<usd, Any>>, <<eur, Any>>, <<Any, usd>>, <<eur, usd>>}

MCHealthMaps == {{1, 2, 3}, {2, 3}}

MCPayments == {[part |-> Part(c[1]), amount |-> a, amountCur |-> c[2], needs |-> FALSE,
                able |-> able, healthy |-> h, costly |-> {1},
                preference |-> IF a = 1 THEN 2 ELSE NoGateway,
                costs |-> a # 1] :
               c \in MCCurrencies, a \in {NoBound, 1}, able \in {{1, 2}, {1, 2, 3}},
               h \in MCHealthMaps}

\* One payment that two gateways would take is also reconciled.
MCRecoveredFlows ==
  LET rule(g) == [gateway |-> g, part |-> Part(Any), min |-> NoBound, max |-> NoBound,
                  rangeCur |-> usd, needs |-> "unset"]
  IN  {<< <<rule(1), rule(2)>>, 1, p>> :
         p \in {q \in MCPayments : /\ q.part = Part(usd) /\ q.amount = NoBound
                                   /\ q.able = {1, 2, 3} /\ q.healthy = {1, 2, 3}}}
=============================================================================
