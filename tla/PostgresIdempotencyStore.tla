---------------------- MODULE PostgresIdempotencyStore ----------------------
(***************************************************************************)
(* The leased idempotency store over Postgres (store-postgres              *)
(* idempotency-store.ts), for one key, statement by statement.             *)
(*                                                                         *)
(* reserve is up to five statements of one host with other hosts'          *)
(* statements in between: the conditional write; a SELECT when it wrote    *)
(* nothing; a repair that writes the lease of that SELECT back in          *)
(* canonical form; the conditional write again, with the clock reading of  *)
(* the first; a last SELECT.  A statement that names the key is atomic.    *)
(* deleteExpired is not: its subquery picks keys in the statement's        *)
(* snapshot, and the locked row is only matched by key.                    *)
(*                                                                         *)
(* Every statement carries the clock of the host that sends it.  Hosts'    *)
(* clocks differ: host h is ahead of the slowest one by ahead[h], at most  *)
(* MaxSkew.                                                                *)
(***************************************************************************)
EXTENDS IdempotencyClaims, FiniteSets

CONSTANTS Hosts,        \* processes that call the store, one reserve at a time
          LeaseMs,      \* lease duration
          MaxSkew,      \* bound of the difference between two hosts' clocks
          MaxTime,      \* bound of the clock
          MaxTokens     \* bound of the number of tokens drawn

ASSUME FingerprintsAssumption == Fingerprints # {}
ASSUME LeaseAssumption == LeaseMs \in Nat \ {0}
ASSUME BoundAssumption == MaxSkew \in Nat /\ MaxTime \in Nat /\ MaxTokens \in Nat

VARIABLES row,       \* the row of the key, NoReservation when there is none
          tuple,     \* identity of the stored tuple: the token it was inserted with
          now,       \* the slowest host's clock
          ahead,     \* ahead[h]: how much host h's clock is ahead of it
          issued,    \* tokens 1..issued have been drawn
          reserve,   \* reserve[h]: where host h is in its reserve
          sweep,     \* the tuple the subquery of a deleteExpired picked, 0 if none
          \* what was promised, for the properties
          granted,   \* tokens that have been written to the row
          promised,  \* the expiry time last returned to a holder
          call       \* the latest statement that changed the row for a caller

vars == <<row, tuple, now, ahead, issued, reserve, sweep, granted, promised, call>>

Key == "key"

Idle == [pc |-> "idle"]

\* The steps of a reserve after its first statement wrote nothing.
InReserve == [pc : {"select", "repair", "retry", "reselect"}, in : ReserveInput,
              now0 : Nat, lease : Time]

Init == /\ row = NoReservation /\ tuple = 0 /\ now = 0 /\ issued = 0
        /\ ahead \in [Hosts -> 0..MaxSkew]
        /\ reserve = [h \in Hosts |-> Idle]
        /\ sweep = 0
        /\ granted = {} /\ promised = NoTime
        /\ call = [op |-> "none", key |-> Key, token |-> NoToken]

Called(op, token) == call' = [op |-> op, key |-> Key, token |-> token]

Clock(h) == now + ahead[h]

-----------------------------------------------------------------------------
(* reserve                                                                 *)

Inputs == [fingerprint : Fingerprints, leaseMs : {LeaseMs}, token : {issued + 1}]

Writes(in, now0) == row.status = "absent" \/ IdempotencyReserveWhere(row, in, now0)

\* INSERT ... ON CONFLICT DO UPDATE ... RETURNING, when it writes.
ReserveStatement(in, now0) ==
  /\ Writes(in, now0)
  /\ row' = IdempotencyReserveStatement(row, in, now0)
  /\ tuple' = IF row.status = "absent" THEN in.token ELSE tuple
  /\ granted' = granted \cup {in.token}
  /\ promised' = now0 + in.leaseMs
  /\ Called("claim", NoToken)

ReserveMisses(in, now0) ==
  ~Writes(in, now0) /\ UNCHANGED <<row, tuple, granted, promised, call>>

Reserve(h, in) ==
  /\ reserve[h] = Idle /\ issued < MaxTokens
  /\ issued' = in.token
  /\ \/ /\ ReserveStatement(in, Clock(h))
        /\ UNCHANGED reserve
     \/ /\ ReserveMisses(in, Clock(h))
        /\ reserve' = [reserve EXCEPT ![h] =
                         [pc |-> "select", in |-> in, now0 |-> Clock(h), lease |-> NoTime]]
  /\ UNCHANGED <<now, ahead, sweep>>

\* The SELECT after a miss reads the clock again.  Unless the row looks
\* claimable the call ends, with StoreUnavailableError when the row is gone.
Select(h) ==
  /\ reserve[h].pc = "select"
  /\ reserve' = [reserve EXCEPT ![h] =
       IF /\ row.status # "absent"
          /\ ClassifyIdempotencyReserveMiss(row, @.in.fingerprint, Clock(h)) = "claimable"
       THEN [@ EXCEPT !.pc = "repair", !.lease = row.lease]
       ELSE Idle]
  /\ UNCHANGED <<row, tuple, now, ahead, issued, sweep, granted, promised, call>>

\* Bug: the repair has no fence on the lease.
RepairWhere_NoFence(lease, now0) ==
  row.status \notin {"absent", "completed", "indeterminate"}

\* The fence of idempotencyTimestampRepairTemplates: a free or expired lease, or
\* the lease of the snapshot (where lease = NULL is not true).
RepairWhere(lease, now0) ==
  /\ row.status \notin {"absent", "completed", "indeterminate"}
  /\ \/ row.status = "expired"
     \/ row.lease = NoTime
     \/ row.lease <= now0
     \/ lease # NoTime /\ row.lease = lease

Repair(h) ==
  /\ reserve[h].pc = "repair"
  /\ row' = IF RepairWhere(reserve[h].lease, reserve[h].now0)
            THEN [row EXCEPT !.lease = reserve[h].lease]
            ELSE row
  /\ reserve' = [reserve EXCEPT ![h].pc = "retry"]
  /\ UNCHANGED <<tuple, now, ahead, issued, sweep, granted, promised, call>>

Retry(h) ==
  /\ reserve[h].pc = "retry"
  /\ \/ /\ ReserveStatement(reserve[h].in, reserve[h].now0)
        /\ reserve' = [reserve EXCEPT ![h] = Idle]
     \/ /\ ReserveMisses(reserve[h].in, reserve[h].now0)
        /\ reserve' = [reserve EXCEPT ![h].pc = "reselect"]
  /\ UNCHANGED <<now, ahead, issued, sweep>>

\* The last SELECT only words the answer.
Reselect(h) ==
  /\ reserve[h].pc = "reselect"
  /\ reserve' = [reserve EXCEPT ![h] = Idle]
  /\ UNCHANGED <<row, tuple, now, ahead, issued, sweep, granted, promised, call>>

-----------------------------------------------------------------------------
(* renew, complete, markIndeterminate: one conditional UPDATE each         *)

Renew(h, token) ==
  /\ issued < MaxTokens
  /\ LeaseMutationWhere(row, "reserved", token, TRUE, Clock(h))
  /\ row' = RenewedReservation(row, issued + 1, LeaseMs, Clock(h))
  /\ issued' = issued + 1
  /\ granted' = granted \cup {issued + 1}
  /\ promised' = Clock(h) + LeaseMs
  /\ Called("renew", token)
  /\ UNCHANGED <<tuple, now, ahead, reserve, sweep>>

Complete(h, token) ==
  /\ LeaseMutationWhere(row, "reserved", token, TRUE, Clock(h))
  /\ row' = ClosedReservation(row, "completed")
  /\ Called("complete", token)
  /\ UNCHANGED <<tuple, now, ahead, issued, reserve, sweep, granted, promised>>

\* The token is enough: a worker may park its outcome after its lease ran out.
MarkIndeterminate(token) ==
  /\ LeaseMutationWhere(row, "reserved", token, FALSE, now)
  /\ row' = ClosedReservation(row, "indeterminate")
  /\ Called("fail", token)
  /\ UNCHANGED <<tuple, now, ahead, issued, reserve, sweep, granted, promised>>

-----------------------------------------------------------------------------
(* deleteExpired                                                           *)

\* Bug: retention takes every closed row for one that may be forgotten (A4).
Sweepable_Closed(status) == status \in {"completed", "expired", "indeterminate"}

Sweepable(status) == status \in {"completed", "expired"}

\* The subquery, in the statement's snapshot.
SweepScan ==
  /\ sweep = 0
  /\ Sweepable(row.status)
  /\ sweep' = tuple
  /\ UNCHANGED <<row, tuple, now, ahead, issued, reserve, granted, promised, call>>

\* The DELETE locks the tuple; the key is all its outer clause asks for.
SweepDelete ==
  /\ sweep # 0
  /\ IF tuple = sweep
     THEN row' = NoReservation /\ tuple' = 0 /\ promised' = NoTime
     ELSE UNCHANGED <<row, tuple, promised>>
  /\ sweep' = 0
  /\ call' = [call EXCEPT !.op = "delete"]
  /\ UNCHANGED <<now, ahead, issued, reserve, granted>>

Tick == /\ now < MaxTime
        /\ now' = now + 1
        /\ UNCHANGED <<row, tuple, ahead, issued, reserve, sweep, granted, promised, call>>

Next == \/ \E h \in Hosts :
             \/ \E in \in Inputs : Reserve(h, in)
             \/ Select(h) \/ Repair(h) \/ Retry(h) \/ Reselect(h)
             \/ \E token \in granted : Renew(h, token) \/ Complete(h, token)
        \/ \E token \in granted : MarkIndeterminate(token)
        \/ SweepScan \/ SweepDelete
        \/ Tick

Spec == Init /\ [][Next]_vars

-----------------------------------------------------------------------------

TypeOK == /\ row \in ReservationRow
          /\ row.status = "reserved" <=> row.token # NoToken
          /\ tuple \in 0..issued /\ sweep \in 0..issued
          /\ tuple = 0 <=> row.status = "absent"
          /\ now \in Nat /\ issued \in Nat
          /\ ahead \in [Hosts -> 0..MaxSkew]
          /\ reserve \in [Hosts -> {Idle} \cup InReserve]
          /\ granted \subseteq 1..issued
          /\ promised \in Time

Synchronised == \A h \in Hosts : ahead[h] = 0

\* What the lease contract sees of the row: the lease a holder was promised, not
\* the column, decides what is live.
phase  == [k \in {Key} |-> IF row.status \in {"completed", "indeterminate"} THEN "done"
                           ELSE IF row.status = "reserved" THEN "held" ELSE "free"]
holder == [k \in {Key} |-> row.token]
live   == [k \in {Key} |-> row.status = "reserved" /\ promised > now]

Contract == INSTANCE LeaseTable WITH Keys <- {Key}, used <- granted

\* When hosts' clocks agree, the statements of concurrent reserves, renewals,
\* completions and sweeps implement the lease contract: no interleaving of a
\* reserve's later statements takes a key from a holder before the time it was
\* promised, and a sweep deletes only what is done.
ImplementsContract == Contract!Init /\ [][Synchronised => Contract!Next]_(Contract!vars)

\* Whatever the clocks show, a reservation is not handed to anybody else until its
\* promised expiry is at most the clock skew away: a lease longer than the
\* mutation plus the skew keeps a second worker from replaying it.
LeaseOutlivesSkew ==
  [][row.status = "reserved" /\ row'.token \notin {NoToken, row.token}
       /\ call'.op = "claim" => promised <= now + MaxSkew]_vars

\* A4: once the outcome of a mutation is unknown, no later statement of any call,
\* begun before or after, hands the key out, repairs its lease or deletes it.
IndeterminateIsFinal == [][row.status = "indeterminate" => row' = row]_vars
=============================================================================
