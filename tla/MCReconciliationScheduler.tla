---------------------- MODULE MCReconciliationScheduler ----------------------
(* Two overlapping polls, on one instance or on two.                       *)
EXTENDS ReconciliationScheduler, TLC

CONSTANTS p1, p2, i1, i2

One == p1 :> i1 @@ p2 :> i1
Two == p1 :> i1 @@ p2 :> i2

MCDeployments == {[store |-> "sql", on |-> One], [store |-> "memory", on |-> One],
                  [store |-> "redis", on |-> Two]}
=============================================================================
