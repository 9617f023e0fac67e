----------------------------- MODULE LeaseTable -----------------------------
(***************************************************************************)
(* What every leased store of paykernel promises its callers, whatever the *)
(* engine underneath: a row is free, held under one fencing token, or      *)
(* done.  While the holder's lease is live nobody but the caller that      *)
(* presents the holder's token changes the row; a row that is done is      *)
(* never worked again unless it is forgotten; and a token is issued once.  *)
(*                                                                         *)
(* The contract is the prose of packages/store-contracts/src/contracts.ts: *)
(* fencing tokens and the WebhookInboxStore section.                       *)
(***************************************************************************)
EXTENDS Integers

CONSTANT Keys

VARIABLES phase,    \* phase[k] is "free", "held" or "done"
          holder,   \* holder[k] is the token under which k is held, 0 if none
          live,     \* live[k]: the holder's lease has not expired
          used,     \* the tokens issued so far
          call      \* the latest call: its op, key and the token presented

vars == <<phase, holder, live, used, call>>

Phases == {"free", "held", "done"}

Init == /\ phase  = [k \in Keys |-> "free"]
        /\ holder = [k \in Keys |-> 0]
        /\ live   = [k \in Keys |-> FALSE]
        /\ used   = {}
        /\ call.op = "none"

Cell(k, p, h, l) == phase'[k] = p /\ holder'[k] = h /\ live'[k] = l

\* What may happen to a row without its holder: nothing, the expiry of the
\* lease, and once the lease is not live the loss of the claim or of the row.
Lapse(k) == \/ Cell(k, phase[k], holder[k], live[k])
            \/ live[k] /\ Cell(k, "held", holder[k], FALSE)
            \/ ~live[k] /\ Cell(k, "free", 0, FALSE)

By(op, k) == call'.op = op /\ call'.key = k

\* A fresh token takes a row that is not done and not under a live lease.
Acquire(k) == /\ By("claim", k)
              /\ phase[k] # "done" /\ ~live[k]
              /\ \E t \in used' \ used, l \in BOOLEAN : Cell(k, "held", t, l)

\* The holder of a live lease exchanges its token for a fresh one.
Rotate(k) == /\ By("renew", k) /\ call'.token = holder[k]
             /\ live[k]
             /\ \E t \in used' \ used, l \in BOOLEAN : Cell(k, "held", t, l)

\* The holder of a live lease finishes the row.
Finish(k) == /\ By("complete", k) /\ call'.token = holder[k]
             /\ live[k]
             /\ Cell(k, "done", 0, FALSE)

\* The holder gives the row back, or up for good, even after its lease expired.
GiveBack(k) == /\ By("fail", k) /\ call'.token = holder[k]
               /\ phase[k] = "held"
               /\ \E p \in {"free", "done"} : Cell(k, p, 0, FALSE)

Next == /\ used \subseteq used'
        /\ \/ \A k \in Keys : Lapse(k)
           \/ \E k \in Keys :
                /\ Acquire(k) \/ Rotate(k) \/ Finish(k) \/ GiveBack(k)
                /\ \A j \in Keys \ {k} : Lapse(j)

Spec == Init /\ [][Next]_vars
=============================================================================
