------------------ MODULE PostgresIdempotencyStore_proofs ------------------
(***************************************************************************)
(* The Postgres idempotency store, for any number of hosts, any clocks and *)
(* any interleaving of their statements: an indeterminate row is final, a  *)
(* reservation outlives its promise but for the clock skew, and where      *)
(* clocks agree the store implements the lease contract.                   *)
(*                                                                         *)
(* A host in the middle of its reserve holds what an earlier statement     *)
(* read: a clock reading, the lease of a snapshot and a token nobody else  *)
(* has.  The invariant says what of that is still true.  A repair may put  *)
(* an old lease back on the row; LeaseIsPromise says that it then was not  *)
(* live on some host's clock, before and after.                            *)
(***************************************************************************)
EXTENDS PostgresIdempotencyStore, TLAPS

\* Nothing in the SQL store writes the status "expired".
NeverExpired == row.status # "expired"

\* A token drawn for a reserve that is under way is on no row and no other host's.
DrawnTokens ==
  \A h \in Hosts : reserve[h] # Idle =>
    /\ reserve[h].in.token \in 1..issued
    /\ reserve[h].in.token \notin granted
    /\ \A g \in Hosts \ {h} :
         reserve[g] # Idle => reserve[g].in.token # reserve[h].in.token

\* The tuples a row or a sweep names were inserted.
TuplesWritten == tuple \in granted \cup {0} /\ sweep \in granted \cup {0}

\* A tuple that a sweep picked is still the completed one it saw.
SweptIsDone == sweep # 0 /\ sweep = tuple => row.status = "completed"

\* What a host read earlier is not ahead of its clock now.
ReadingsAreOld ==
  \A h \in Hosts : reserve[h] # Idle =>
    reserve[h].now0 <= Clock(h) /\ reserve[h].lease <= Clock(h)

\* The lease column is the promise, unless both are over on some host's clock.
LeaseIsPromise ==
  row.status = "reserved" =>
    \/ row.lease = promised
    \/ \E g, h \in Hosts : promised <= Clock(g) /\ row.lease <= Clock(h)

IInv == /\ TypeOK /\ NeverExpired /\ DrawnTokens /\ TuplesWritten
        /\ SweptIsDone /\ ReadingsAreOld /\ LeaseIsPromise

-----------------------------------------------------------------------------
(* The hosts and the statements.                                           *)

\* Clocks are numbers that a tick only moves ahead.
LEMMA ClockType ==
  ASSUME TypeOK, NEW h \in Hosts
  PROVE  /\ Clock(h) \in Nat /\ now <= Clock(h) /\ Clock(h) <= now + MaxSkew
         /\ ahead[h] \in Nat /\ now \in Nat
BY BoundAssumption DEF TypeOK, Clock

\* The fields of a host that is in its reserve.
LEMMA InReserveType ==
  ASSUME TypeOK, NEW h \in Hosts, reserve[h] # Idle
  PROVE  /\ reserve[h] \in InReserve
         /\ reserve[h].in \in ReserveInput /\ reserve[h].now0 \in Nat
         /\ reserve[h].lease \in Time
BY DEF TypeOK, InReserve

LEMMA BusyHost == ASSUME NEW h, reserve[h].pc # "idle" PROVE reserve[h] # Idle
BY DEF Idle

LEMMA InputType ==
  ASSUME TypeOK, NEW in \in Inputs
  PROVE  in \in ReserveInput /\ in.token = issued + 1
BY LeaseAssumption DEF TypeOK, Inputs, ReserveInput

\* A row that a reserve may take is absent, or reserved with a lease that is over
\* at the reading the statement carries.
LEMMA WritesWhat ==
  ASSUME TypeOK, NeverExpired, NEW in, NEW t \in Nat, Writes(in, t)
  PROVE  /\ row.status \in {"absent", "reserved"}
         /\ row.status = "reserved" => row.lease <= t
BY DEF TypeOK, NeverExpired, Writes, IdempotencyReserveWhere, ReservationRow,
       ReservationStatuses, Time, NoTime

\* What the conditional write leaves when it writes.
LEMMA StatementEffect ==
  ASSUME TypeOK, NeverExpired, NEW in \in ReserveInput, NEW t \in Nat, ReserveStatement(in, t)
  PROVE  /\ row' \in ReservationRow
         /\ row'.status = "reserved" /\ row'.token = in.token /\ row'.token # NoToken
         /\ row'.lease = promised' /\ promised' \in Time
         /\ tuple' \in {tuple, in.token} /\ tuple' # 0
         /\ row.status = "absent" => tuple' = in.token
         /\ row.status # "absent" => tuple' = tuple
         /\ granted' = granted \cup {in.token}
         /\ call' = [op |-> "claim", key |-> Key, token |-> NoToken]
<1>1. /\ row' = IdempotencyReserveStatement(row, in, t)
      /\ tuple' = IF row.status = "absent" THEN in.token ELSE tuple
      /\ granted' = granted \cup {in.token}
      /\ promised' = t + in.leaseMs
      /\ call' = [op |-> "claim", key |-> Key, token |-> NoToken]
      /\ Writes(in, t)
  BY DEF ReserveStatement, Called
<1>2. /\ in.token \in Nat /\ in.token # 0 /\ in.fingerprint \in Fingerprints
      /\ t + in.leaseMs \in Time /\ t + in.leaseMs \in Nat
  BY DEF ReserveInput, Time
<1>3. row \in ReservationRow
  BY DEF TypeOK
<1>4. /\ row' \in ReservationRow /\ row'.status = "reserved" /\ row'.token = in.token
      /\ row'.lease = t + in.leaseMs
  <2>1. CASE row.status = "absent"
    BY <1>1, <1>2, <2>1
       DEF IdempotencyReserveStatement, ReservationRow, ReservationStatuses
  <2>2. CASE row.status # "absent"
    <3>1. row' = [row EXCEPT !.status = "reserved", !.token = in.token,
                             !.lease = t + in.leaseMs, !.attempts = row.attempts + 1,
                             !.generation = row.generation + 1]
      BY <1>1, <2>2 DEF IdempotencyReserveStatement, Writes
    <3>2. row.attempts + 1 \in Nat /\ row.generation + 1 \in Nat
      BY <1>3 DEF ReservationRow
    <3> QED BY <1>2, <1>3, <3>1, <3>2 DEF ReservationRow, ReservationStatuses
  <2> QED BY <2>1, <2>2
<1>5. row.status # "absent" => tuple # 0
  BY DEF TypeOK
<1> QED BY <1>1, <1>2, <1>4, <1>5 DEF NoToken

\* A write of the reserve keeps the invariant.  The host may have been idle before
\* (its first statement) or not (its retry); it is idle afterwards.
LEMMA StatementStep ==
  ASSUME IInv, NEW h \in Hosts, NEW in \in ReserveInput, NEW t \in Nat,
         ReserveStatement(in, t),
         issued' \in {issued, issued + 1}, in.token \in 1..issued', in.token \notin granted,
         \A g \in Hosts \ {h} : reserve[g] # Idle => reserve[g].in.token # in.token,
         reserve' = [reserve EXCEPT ![h] = Idle],
         UNCHANGED <<now, ahead, sweep>>
  PROVE  IInv'
<1>1. /\ row' \in ReservationRow
      /\ row'.status = "reserved" /\ row'.token = in.token /\ row'.token # NoToken
      /\ row'.lease = promised' /\ promised' \in Time
      /\ tuple' \in {tuple, in.token} /\ tuple' # 0
      /\ row.status = "absent" => tuple' = in.token
      /\ row.status # "absent" => tuple' = tuple
      /\ granted' = granted \cup {in.token}
  BY StatementEffect DEF IInv
<1>2. /\ issued \in Nat /\ issued' \in Nat /\ issued <= issued'
      /\ tuple \in 0..issued /\ sweep \in 0..issued /\ granted \subseteq 1..issued
      /\ reserve \in [Hosts -> {Idle} \cup InReserve]
  BY DEF IInv, TypeOK
<1>3. TypeOK'
  <2>1. tuple' \in 0..issued' /\ sweep' \in 0..issued' /\ granted' \subseteq 1..issued'
    <3>1. in.token \in 0..issued' /\ \A n \in 0..issued : n \in 0..issued'
      BY <1>2
    <3>2. \A n \in granted : n \in 1..issued'
      BY <1>2
    <3> QED BY <1>1, <1>2, <3>1, <3>2
  <2>2. reserve' \in [Hosts -> {Idle} \cup InReserve]
    BY <1>2
  <2> QED BY <1>1, <1>2, <2>1, <2>2 DEF IInv, TypeOK
<1>4. DrawnTokens'
  BY <1>1, <1>2 DEF IInv, DrawnTokens
<1>5. TuplesWritten'
  BY <1>1 DEF IInv, TuplesWritten
<1>6. SweptIsDone'
  <2>1. row.status # "completed"
    BY WritesWhat DEF IInv, ReserveStatement
  <2>2. tuple' # sweep' \/ sweep' = 0
    BY <1>1, <2>1 DEF IInv, SweptIsDone, TuplesWritten
  <2> QED BY <2>2 DEF SweptIsDone
<1>7. ReadingsAreOld'
  BY <1>2 DEF IInv, ReadingsAreOld, Clock
<1> QED BY <1>1, <1>3, <1>4, <1>5, <1>6, <1>7 DEF IInv, NeverExpired, LeaseIsPromise

-----------------------------------------------------------------------------
(* The actions.                                                            *)

LEMMA InitIInv == Init => IInv
<1> SUFFICES ASSUME Init PROVE IInv
  OBVIOUS
<1>1. (CHOOSE f \in Fingerprints : TRUE) \in Fingerprints
  BY FingerprintsAssumption
<1>2. row \in ReservationRow /\ row.status = "absent" /\ row.token = NoToken
  BY <1>1 DEF Init, NoReservation, ReservationRow, ReservationStatuses, Time, NoToken, NoTime
<1>3. TypeOK
  BY <1>2 DEF Init, TypeOK, Time, NoTime
<1>4. NeverExpired /\ LeaseIsPromise
  BY <1>2 DEF NeverExpired, LeaseIsPromise
<1>5. DrawnTokens /\ TuplesWritten /\ SweptIsDone /\ ReadingsAreOld
  BY DEF Init, DrawnTokens, TuplesWritten, SweptIsDone, ReadingsAreOld
<1> QED BY <1>3, <1>4, <1>5 DEF IInv

\* The first statement of a reserve draws the token, and writes or misses.
LEMMA ReserveStep ==
  ASSUME IInv, NEW h \in Hosts, NEW in \in Inputs, Reserve(h, in)
  PROVE  IInv'
<1>1. in \in ReserveInput /\ in.token = issued + 1 /\ issued \in Nat /\ issued' = issued + 1
  BY InputType DEF IInv, TypeOK, Reserve
<1>2. /\ Clock(h) \in Nat /\ reserve[h] = Idle /\ reserve \in [Hosts -> {Idle} \cup InReserve]
      /\ granted \subseteq 1..issued
  BY ClockType DEF IInv, TypeOK, Reserve
<1>3. /\ in.token \notin granted
      /\ \A g \in Hosts : reserve[g] # Idle => reserve[g].in.token # in.token
  BY <1>1, <1>2 DEF IInv, DrawnTokens
<1>4. CASE ReserveStatement(in, Clock(h)) /\ UNCHANGED reserve
  <2>1. reserve' = [reserve EXCEPT ![h] = Idle]
    BY <1>2, <1>4
  <2>2. issued' \in {issued, issued + 1} /\ in.token \in 1..issued'
    BY <1>1
  <2>3. UNCHANGED <<now, ahead, sweep>>
    BY DEF Reserve
  <2> QED BY <1>1, <1>2, <1>3, <1>4, <2>1, <2>2, <2>3, StatementStep
<1>5. CASE /\ ReserveMisses(in, Clock(h))
           /\ reserve' = [reserve EXCEPT ![h] =
                            [pc |-> "select", in |-> in, now0 |-> Clock(h), lease |-> NoTime]]
  <2> DEFINE r == [pc |-> "select", in |-> in, now0 |-> Clock(h), lease |-> NoTime]
  <2>1. /\ UNCHANGED <<row, tuple, granted, promised, call, now, ahead, sweep>>
        /\ issued <= issued' /\ issued' \in Nat
    BY <1>1, <1>5 DEF ReserveMisses, Reserve
  <2>2. r \in InReserve
    BY <1>1, <1>2 DEF InReserve, Time
  <2>3. /\ reserve'[h] = r /\ r # Idle /\ r.in = in /\ r.now0 = Clock(h) /\ r.lease = NoTime
        /\ \A g \in Hosts \ {h} : reserve'[g] = reserve[g]
        /\ reserve' \in [Hosts -> {Idle} \cup InReserve]
    BY <1>2, <1>5, <2>2 DEF Idle
  <2> HIDE DEF r
  <2>4. TypeOK'
    BY <1>1, <2>1, <2>3 DEF IInv, TypeOK
  <2>5. DrawnTokens'
    BY <1>1, <1>3, <2>1, <2>3 DEF IInv, DrawnTokens
  <2>6. ReadingsAreOld'
    BY <1>2, <2>1, <2>3 DEF IInv, ReadingsAreOld, Clock, NoTime
  <2>7. NeverExpired' /\ TuplesWritten' /\ SweptIsDone' /\ LeaseIsPromise'
    BY <2>1 DEF IInv, NeverExpired, TuplesWritten, SweptIsDone, LeaseIsPromise, Clock
  <2> QED BY <2>4, <2>5, <2>6, <2>7 DEF IInv
<1> QED BY <1>4, <1>5 DEF Reserve

\* A step that only moves one host on, or ends its reserve, keeps the invariant
\* when the host takes along the token and the reading it had.
LEMMA HostStep ==
  ASSUME IInv, NEW h \in Hosts, NEW r \in {Idle} \cup InReserve, reserve[h] # Idle,
         r # Idle => /\ r.in = reserve[h].in /\ r.now0 = reserve[h].now0
                     /\ r.lease <= Clock(h),
         reserve' = [reserve EXCEPT ![h] = r],
         UNCHANGED <<row, tuple, now, ahead, issued, sweep, granted, promised>>
  PROVE  IInv'
<1>1. /\ reserve' \in [Hosts -> {Idle} \cup InReserve] /\ reserve'[h] = r
      /\ \A g \in Hosts \ {h} : reserve'[g] = reserve[g]
  BY DEF IInv, TypeOK
<1>2. TypeOK'
  BY <1>1 DEF IInv, TypeOK
<1>3. DrawnTokens'
  BY <1>1 DEF IInv, DrawnTokens
<1>4. ReadingsAreOld'
  BY <1>1 DEF IInv, ReadingsAreOld, Clock
<1>5. NeverExpired' /\ TuplesWritten' /\ SweptIsDone' /\ LeaseIsPromise'
  BY DEF IInv, NeverExpired, TuplesWritten, SweptIsDone, LeaseIsPromise, Clock
<1> QED BY <1>2, <1>3, <1>4, <1>5 DEF IInv

\* A row that looks claimable to the SELECT has a lease that is over on its clock.
LEMMA SelectStep == ASSUME IInv, NEW h \in Hosts, Select(h) PROVE IInv'
<1> DEFINE c == /\ row.status # "absent"
                /\ ClassifyIdempotencyReserveMiss(row, reserve[h].in.fingerprint, Clock(h)) = "claimable"
           s == [reserve[h] EXCEPT !.pc = "repair", !.lease = row.lease]
<1>1. reserve[h] # Idle
  BY BusyHost DEF Select
<1>2. reserve[h] \in InReserve /\ row \in ReservationRow /\ Clock(h) \in Nat
  BY <1>1, InReserveType, ClockType DEF IInv, TypeOK
<1>3. s \in InReserve /\ s.in = reserve[h].in /\ s.now0 = reserve[h].now0 /\ s.lease = row.lease
  BY <1>2 DEF InReserve, ReservationRow
<1>4. c => row.lease <= Clock(h)
  BY <1>2 DEF IInv, NeverExpired, ClassifyIdempotencyReserveMiss, IsLeaseActive,
              ReservationRow, ReservationStatuses, Time, NoTime
<1>5. reserve' = [reserve EXCEPT ![h] = IF c THEN s ELSE Idle]
  BY DEF Select
<1> HIDE DEF c, s
<1> QED BY <1>1, <1>3, <1>4, <1>5, HostStep DEF Select

\* The repair leaves a lease that is over on the host's clock where one was over
\* on the host's clock, or where it was the same.
LEMMA RepairStep == ASSUME IInv, NEW h \in Hosts, Repair(h) PROVE IInv'
<1> DEFINE s == [reserve[h] EXCEPT !.pc = "retry"]
           l == reserve[h].lease
<1>1. reserve[h] # Idle
  BY BusyHost DEF Repair
<1>2. /\ reserve[h] \in InReserve /\ row \in ReservationRow /\ Clock(h) \in Nat
      /\ l \in Time /\ reserve[h].now0 \in Nat /\ promised \in Time
      /\ l <= Clock(h) /\ reserve[h].now0 <= Clock(h)
  BY <1>1, InReserveType, ClockType DEF IInv, TypeOK, ReadingsAreOld
<1>3. s \in InReserve /\ s.in = reserve[h].in /\ s.now0 = reserve[h].now0 /\ s.lease = l
  BY <1>2 DEF InReserve
<1>4. reserve' = [reserve EXCEPT ![h] = s]
  BY DEF Repair, IInv, TypeOK
<1> HIDE DEF s
<1>5. CASE row' = row
  BY <1>1, <1>2, <1>3, <1>4, <1>5, HostStep DEF Repair
<1>6. CASE row' # row
  <2>1. /\ row' = [row EXCEPT !.lease = l] /\ RepairWhere(l, reserve[h].now0)
        /\ UNCHANGED <<tuple, now, ahead, issued, sweep, granted, promised>>
    BY <1>6 DEF Repair
  <2>2. /\ row' \in ReservationRow /\ row'.status = row.status /\ row'.token = row.token
        /\ row'.lease = l
    BY <1>2, <2>1 DEF ReservationRow
  <2>3. /\ row.status = "reserved" /\ row.lease <= reserve[h].now0
    <3>1. row.lease # l
      BY <1>2, <1>6, <2>1 DEF ReservationRow
    <3> QED BY <1>2, <2>1, <3>1 DEF RepairWhere, IInv, NeverExpired, ReservationRow,
                                    ReservationStatuses, Time, NoTime
  <2>4. reserve' \in [Hosts -> {Idle} \cup InReserve] /\ reserve'[h] = s
        /\ \A g \in Hosts \ {h} : reserve'[g] = reserve[g]
    BY <1>3, <1>4 DEF IInv, TypeOK
  <2>5. TypeOK'
    BY <2>1, <2>2, <2>4 DEF IInv, TypeOK
  <2>6. DrawnTokens'
    BY <1>1, <1>3, <2>1, <2>4 DEF IInv, DrawnTokens
  <2>7. ReadingsAreOld'
    BY <1>1, <1>2, <1>3, <2>1, <2>4 DEF IInv, ReadingsAreOld, Clock
  <2>8. NeverExpired' /\ TuplesWritten' /\ SweptIsDone'
    BY <2>1, <2>2 DEF IInv, NeverExpired, TuplesWritten, SweptIsDone
  <2>9. LeaseIsPromise'
    <3>1. \E g \in Hosts : promised <= Clock(g)
      <4>1. CASE row.lease = promised
        <5>1. promised <= Clock(h)
          BY <1>2, <2>3, <4>1 DEF Time, NoTime
        <5> QED BY <5>1
      <4>2. CASE row.lease # promised
        BY <2>3, <4>2 DEF IInv, LeaseIsPromise
      <4> QED BY <4>1, <4>2
    <3>2. \A g \in Hosts : Clock(g)' = Clock(g)
      BY <2>1 DEF Clock
    <3> QED BY <1>2, <2>1, <2>2, <3>1, <3>2 DEF LeaseIsPromise
  <2> QED BY <2>5, <2>6, <2>7, <2>8, <2>9 DEF IInv
<1> QED BY <1>5, <1>6

\* The second conditional write carries the first one's reading and token.
LEMMA RetryStep == ASSUME IInv, NEW h \in Hosts, Retry(h) PROVE IInv'
<1>1. reserve[h] # Idle
  BY BusyHost DEF Retry
<1>2. /\ reserve[h] \in InReserve /\ reserve[h].in \in ReserveInput
      /\ reserve[h].now0 \in Nat
      /\ reserve[h].in.token \in 1..issued /\ reserve[h].in.token \notin granted
      /\ \A g \in Hosts \ {h} :
           reserve[g] # Idle => reserve[g].in.token # reserve[h].in.token
  BY <1>1, InReserveType DEF IInv, DrawnTokens
<1>3. UNCHANGED <<now, ahead, issued, sweep>>
  BY DEF Retry
<1>4. CASE /\ ReserveStatement(reserve[h].in, reserve[h].now0)
           /\ reserve' = [reserve EXCEPT ![h] = Idle]
  <2>1. issued' \in {issued, issued + 1} /\ reserve[h].in.token \in 1..issued'
    BY <1>2, <1>3
  <2> QED BY <1>2, <1>3, <1>4, <2>1, StatementStep
<1>5. CASE /\ ReserveMisses(reserve[h].in, reserve[h].now0)
           /\ reserve' = [reserve EXCEPT ![h].pc = "reselect"]
  <2> DEFINE s == [reserve[h] EXCEPT !.pc = "reselect"]
  <2>1. s \in InReserve /\ s.in = reserve[h].in /\ s.now0 = reserve[h].now0
        /\ s.lease = reserve[h].lease
    BY <1>2 DEF InReserve
  <2>2. reserve' = [reserve EXCEPT ![h] = s]
    BY <1>5 DEF IInv, TypeOK
  <2>3. reserve[h].lease <= Clock(h)
    BY <1>1 DEF IInv, ReadingsAreOld
  <2>4. UNCHANGED <<row, tuple, granted, promised>>
    BY <1>5 DEF ReserveMisses
  <2> HIDE DEF s
  <2> QED BY <1>1, <1>3, <2>1, <2>2, <2>3, <2>4, HostStep
<1> QED BY <1>4, <1>5 DEF Retry

LEMMA ReselectStep == ASSUME IInv, NEW h \in Hosts, Reselect(h) PROVE IInv'
<1>1. reserve[h] # Idle
  BY BusyHost DEF Reselect
<1> QED BY <1>1, HostStep DEF Reselect

\* A renewal draws a fresh token and promises what it writes.
LEMMA RenewStep == ASSUME IInv, NEW h \in Hosts, NEW token, Renew(h, token) PROVE IInv'
<1>1. /\ row \in ReservationRow /\ row.status = "reserved" /\ Clock(h) \in Nat
      /\ issued \in Nat /\ granted \subseteq 1..issued
      /\ tuple \in 0..issued /\ sweep \in 0..issued
  BY ClockType DEF IInv, TypeOK, Renew, LeaseMutationWhere
<1>2. /\ row' = [row EXCEPT !.token = issued + 1, !.lease = Clock(h) + LeaseMs,
                            !.generation = @ + 1]
      /\ issued' = issued + 1 /\ granted' = granted \cup {issued + 1}
      /\ promised' = Clock(h) + LeaseMs
      /\ UNCHANGED <<tuple, now, ahead, reserve, sweep>>
  BY DEF Renew, RenewedReservation
<1>3. Clock(h) + LeaseMs \in Time /\ issued + 1 \in Nat /\ row.generation + 1 \in Nat
  BY <1>1, LeaseAssumption DEF ReservationRow, Time
<1>4. /\ row' \in ReservationRow /\ row'.status = "reserved" /\ row'.token = issued + 1
      /\ row'.lease = promised'
  BY <1>1, <1>2, <1>3 DEF ReservationRow
<1>5. TypeOK'
  <2>1. /\ \A n \in 0..issued : n \in 0..issued'
        /\ \A n \in granted : n \in 1..issued'
        /\ issued + 1 \in 1..issued' /\ issued + 1 # NoToken
    BY <1>1, <1>2 DEF NoToken
  <2>2. granted' \subseteq 1..issued'
    BY <1>2, <2>1
  <2> QED BY <1>1, <1>2, <1>3, <1>4, <2>1, <2>2 DEF IInv, TypeOK
<1>6. DrawnTokens'
  BY <1>1, <1>2 DEF IInv, DrawnTokens
<1>7. TuplesWritten' /\ SweptIsDone' /\ NeverExpired' /\ LeaseIsPromise'
  BY <1>1, <1>2, <1>4 DEF IInv, TuplesWritten, SweptIsDone, NeverExpired, LeaseIsPromise
<1>8. ReadingsAreOld'
  BY <1>2 DEF IInv, ReadingsAreOld, Clock
<1> QED BY <1>5, <1>6, <1>7, <1>8 DEF IInv

\* complete and markIndeterminate close a reserved row.
LEMMA CloseStep ==
  ASSUME IInv, NEW status \in {"completed", "indeterminate"}, row.status = "reserved",
         row' = ClosedReservation(row, status),
         UNCHANGED <<tuple, now, ahead, issued, reserve, sweep, granted, promised>>
  PROVE  IInv'
<1>1. row \in ReservationRow
  BY DEF IInv, TypeOK
<1>2. /\ row' \in ReservationRow /\ row'.status = status /\ row'.token = NoToken
  BY <1>1 DEF ClosedReservation, ReservationRow, ReservationStatuses, Time, NoTime, NoToken
<1>3. TypeOK'
  BY <1>2 DEF IInv, TypeOK
<1>4. DrawnTokens' /\ TuplesWritten' /\ ReadingsAreOld'
  BY DEF IInv, DrawnTokens, TuplesWritten, ReadingsAreOld, Clock
<1>5. NeverExpired' /\ SweptIsDone' /\ LeaseIsPromise'
  BY <1>2 DEF IInv, NeverExpired, SweptIsDone, LeaseIsPromise
<1> QED BY <1>3, <1>4, <1>5 DEF IInv

\* The subquery can only pick a completed row.
LEMMA SweepScanStep == ASSUME IInv, SweepScan PROVE IInv'
<1>1. row.status = "completed" /\ sweep' = tuple
      /\ UNCHANGED <<row, tuple, now, ahead, issued, reserve, granted, promised>>
  BY DEF SweepScan, Sweepable, IInv, NeverExpired
<1>2. TypeOK'
  BY <1>1 DEF IInv, TypeOK
<1>3. DrawnTokens' /\ TuplesWritten' /\ ReadingsAreOld'
  BY <1>1 DEF IInv, DrawnTokens, TuplesWritten, ReadingsAreOld, Clock
<1>4. NeverExpired' /\ SweptIsDone' /\ LeaseIsPromise'
  BY <1>1 DEF IInv, NeverExpired, SweptIsDone, LeaseIsPromise
<1> QED BY <1>2, <1>3, <1>4 DEF IInv

LEMMA SweepDeleteStep == ASSUME IInv, SweepDelete PROVE IInv'
<1>1. NoReservation \in ReservationRow /\ NoReservation.status = "absent"
      /\ NoReservation.token = NoToken
  <2>1. (CHOOSE f \in Fingerprints : TRUE) \in Fingerprints
    BY FingerprintsAssumption
  <2> QED BY <2>1 DEF NoReservation, ReservationRow, ReservationStatuses, Time, NoToken, NoTime
<1>2. /\ sweep' = 0 /\ UNCHANGED <<now, ahead, issued, reserve, granted>>
      /\ \/ row' = NoReservation /\ tuple' = 0 /\ promised' = NoTime
         \/ UNCHANGED <<row, tuple, promised>>
  BY DEF SweepDelete
<1>3. TypeOK'
  BY <1>1, <1>2 DEF IInv, TypeOK, Time
<1>4. DrawnTokens' /\ TuplesWritten' /\ ReadingsAreOld' /\ SweptIsDone'
  BY <1>2 DEF IInv, DrawnTokens, TuplesWritten, ReadingsAreOld, SweptIsDone, Clock
<1>5. NeverExpired' /\ LeaseIsPromise'
  BY <1>1, <1>2 DEF IInv, NeverExpired, LeaseIsPromise, Clock
<1> QED BY <1>3, <1>4, <1>5 DEF IInv

LEMMA TickStep == ASSUME IInv, Tick PROVE IInv'
<1>1. /\ now' = now + 1
      /\ UNCHANGED <<row, tuple, ahead, issued, reserve, sweep, granted, promised>>
  BY DEF Tick
<1>2. TypeOK'
  BY <1>1 DEF IInv, TypeOK
<1>3. \A h \in Hosts : Clock(h)' = Clock(h) + 1 /\ Clock(h) \in Nat
  BY <1>1, ClockType DEF IInv, TypeOK, Clock
<1>4. DrawnTokens' /\ TuplesWritten' /\ SweptIsDone' /\ NeverExpired'
  BY <1>1 DEF IInv, DrawnTokens, TuplesWritten, SweptIsDone, NeverExpired
<1>5. ReadingsAreOld'
  <2>1. \A h \in Hosts : reserve[h] # Idle =>
          reserve[h].now0 \in Nat /\ reserve[h].lease \in Time
    BY InReserveType DEF IInv
  <2> QED BY <1>1, <1>3, <2>1 DEF IInv, ReadingsAreOld, Time, NoTime
<1>6. LeaseIsPromise'
  <2>1. promised \in Time /\ row.lease \in Time
    BY DEF IInv, TypeOK, ReservationRow
  <2>2. \A x \in Time, h \in Hosts : x <= Clock(h) => x <= Clock(h)'
    BY <1>3 DEF Time, NoTime
  <2> QED BY <1>1, <2>1, <2>2 DEF IInv, LeaseIsPromise
<1> QED BY <1>2, <1>4, <1>5, <1>6 DEF IInv

LEMMA StepIInv == IInv /\ [Next]_vars => IInv'
<1> SUFFICES ASSUME IInv, [Next]_vars PROVE IInv'
  OBVIOUS
<1>1. ASSUME NEW h \in Hosts, NEW in \in Inputs, Reserve(h, in) PROVE IInv'
  BY <1>1, ReserveStep
<1>2. ASSUME NEW h \in Hosts, Select(h) \/ Repair(h) \/ Retry(h) \/ Reselect(h) PROVE IInv'
  BY <1>2, SelectStep, RepairStep, RetryStep, ReselectStep
<1>3. ASSUME NEW h \in Hosts, NEW token \in granted, Renew(h, token) PROVE IInv'
  BY <1>3, RenewStep
<1>4. ASSUME NEW h \in Hosts, NEW token \in granted, Complete(h, token) PROVE IInv'
  BY <1>4, CloseStep DEF Complete, LeaseMutationWhere
<1>5. ASSUME NEW token \in granted, MarkIndeterminate(token) PROVE IInv'
  BY <1>5, CloseStep DEF MarkIndeterminate, LeaseMutationWhere
<1>6. CASE SweepScan
  BY <1>6, SweepScanStep
<1>7. CASE SweepDelete
  BY <1>7, SweepDeleteStep
<1>8. CASE Tick
  BY <1>8, TickStep
<1>9. CASE UNCHANGED vars
  BY <1>9 DEF vars, IInv, TypeOK, NeverExpired, DrawnTokens, TuplesWritten, SweptIsDone,
              ReadingsAreOld, LeaseIsPromise, Clock
<1> QED BY <1>1, <1>2, <1>3, <1>4, <1>5, <1>6, <1>7, <1>8, <1>9 DEF Next

\* The inductive invariant holds in every reachable state.
THEOREM Invariance == Spec => []IInv
BY InitIInv, StepIInv, PTL DEF Spec

\* Type correctness of the store.
THEOREM StoreTypes == Spec => []TypeOK
<1>1. IInv => TypeOK
  BY DEF IInv
<1> QED BY <1>1, Invariance, PTL

-----------------------------------------------------------------------------
(* An indeterminate row is final, and a reservation outlives the skew.     *)

\* A4: no statement of any call, begun before or after the outcome of a mutation
\* became unknown, changes the row again.
THEOREM IndeterminateStays == Spec => IndeterminateIsFinal
<1>1. IInv /\ [Next]_vars => [row.status = "indeterminate" => row' = row]_vars
  <2> SUFFICES ASSUME IInv, Next, row.status = "indeterminate" PROVE row' = row
    OBVIOUS
  <2>1. \A in : \A t \in Nat : ~Writes(in, t)
    BY WritesWhat DEF IInv
  <2>2. \A token, active, t : ~LeaseMutationWhere(row, "reserved", token, active, t)
    BY DEF LeaseMutationWhere
  <2>3. ASSUME NEW h \in Hosts, NEW in \in Inputs, Reserve(h, in) PROVE row' = row
    BY <2>1, <2>3, ClockType DEF Reserve, ReserveStatement, ReserveMisses, IInv
  <2>4. ASSUME NEW h \in Hosts, Retry(h) PROVE row' = row
    <3>1. reserve[h].now0 \in Nat
      BY <2>4, BusyHost, InReserveType DEF Retry, IInv
    <3> QED BY <2>1, <2>4, <3>1 DEF Retry, ReserveStatement, ReserveMisses
  <2>5. ASSUME NEW h \in Hosts, Repair(h) PROVE row' = row
    BY <2>5 DEF Repair, RepairWhere
  <2>6. ASSUME NEW h \in Hosts, NEW token, Renew(h, token) \/ Complete(h, token) PROVE row' = row
    BY <2>2, <2>6 DEF Renew, Complete
  <2>7. ASSUME NEW token, MarkIndeterminate(token) PROVE row' = row
    BY <2>2, <2>7 DEF MarkIndeterminate
  <2>8. ASSUME SweepDelete PROVE row' = row
    BY <2>8 DEF SweepDelete, IInv, SweptIsDone
  <2>9. ASSUME NEW h \in Hosts, Select(h) \/ Reselect(h) PROVE row' = row
    BY <2>9 DEF Select, Reselect
  <2>10. ASSUME SweepScan \/ Tick PROVE row' = row
    BY <2>10 DEF SweepScan, Tick
  <2> QED BY <2>3, <2>4, <2>5, <2>6, <2>7, <2>8, <2>9, <2>10 DEF Next
<1> QED BY <1>1, Invariance, PTL DEF Spec, IndeterminateIsFinal

\* A reserve that writes a reserved row does so when what was promised is over on
\* some host's clock.
LEMMA TakenWhenOver ==
  ASSUME IInv, NEW h \in Hosts, NEW in, NEW t \in Nat, t <= Clock(h),
         Writes(in, t), row.status = "reserved"
  PROVE  \E g \in Hosts : promised <= Clock(g)
<1>1. row.lease <= t /\ row.lease \in Time /\ promised \in Time /\ Clock(h) \in Nat
  BY WritesWhat, ClockType DEF IInv, TypeOK, ReservationRow
<1>2. CASE row.lease = promised
  <2>1. promised <= Clock(h)
    BY <1>1, <1>2 DEF Time, NoTime
  <2> QED BY <2>1
<1>3. CASE row.lease # promised
  BY <1>3 DEF IInv, LeaseIsPromise
<1> QED BY <1>2, <1>3

\* A reservation is handed to nobody else until its promised expiry is at most the
\* clock skew away, whatever the clocks show and the statements' order.
THEOREM LeaseOutlives == Spec => LeaseOutlivesSkew
<1>1. IInv /\ [Next]_vars =>
        [row.status = "reserved" /\ row'.token \notin {NoToken, row.token}
           /\ call'.op = "claim" => promised <= now + MaxSkew]_vars
  <2> SUFFICES ASSUME IInv, Next, row.status = "reserved", 
                      row'.token \notin {NoToken, row.token}, call'.op = "claim"
               PROVE  promised <= now + MaxSkew
    OBVIOUS
  <2>1. (\E g \in Hosts : promised <= Clock(g)) => promised <= now + MaxSkew
    <3>1. promised \in Time /\ now + MaxSkew \in Nat
      BY BoundAssumption DEF IInv, TypeOK
    <3> QED BY <3>1, ClockType DEF IInv, Time, NoTime
  <2>2. ASSUME NEW h \in Hosts, NEW in \in Inputs, Reserve(h, in)
        PROVE  promised <= now + MaxSkew
    <3>1. Clock(h) \in Nat /\ Clock(h) <= Clock(h)
      BY ClockType DEF IInv
    <3>2. Writes(in, Clock(h))
      BY <2>2 DEF Reserve, ReserveStatement, ReserveMisses
    <3> QED BY <2>1, <3>1, <3>2, TakenWhenOver
  <2>3. ASSUME NEW h \in Hosts, Retry(h) PROVE promised <= now + MaxSkew
    <3>1. reserve[h].now0 \in Nat /\ reserve[h].now0 <= Clock(h)
      BY <2>3, BusyHost, InReserveType DEF Retry, IInv, ReadingsAreOld
    <3>2. Writes(reserve[h].in, reserve[h].now0)
      BY <2>3 DEF Retry, ReserveStatement, ReserveMisses
    <3> QED BY <2>1, <3>1, <3>2, TakenWhenOver
  <2>4. ASSUME NEW h \in Hosts, Repair(h) PROVE FALSE
    BY <2>4 DEF Repair, IInv, TypeOK, ReservationRow
  <2>5. ASSUME NEW h \in Hosts, NEW token, Renew(h, token) \/ Complete(h, token)
        PROVE  FALSE
    <3>1. CASE Renew(h, token)
      BY <3>1 DEF Renew, Called
    <3>2. CASE Complete(h, token)
      BY <3>2 DEF Complete, Called
    <3> QED BY <2>5, <3>1, <3>2
  <2>6. ASSUME NEW token, MarkIndeterminate(token) PROVE FALSE
    BY <2>6 DEF MarkIndeterminate, Called
  <2>7. ASSUME SweepDelete PROVE FALSE
    BY <2>7 DEF SweepDelete, NoReservation
  <2>8. ASSUME NEW h \in Hosts, Select(h) \/ Reselect(h) PROVE FALSE
    BY <2>8 DEF Select, Reselect
  <2>9. ASSUME SweepScan \/ Tick PROVE FALSE
    BY <2>9 DEF SweepScan, Tick
  <2> QED BY <2>2, <2>3, <2>4, <2>5, <2>6, <2>7, <2>8, <2>9 DEF Next
<1> QED BY <1>1, Invariance, PTL DEF Spec, LeaseOutlivesSkew
-----------------------------------------------------------------------------
(* The lease contract, where hosts' clocks agree.                          *)

LEMMA ContractView ==
  /\ holder[Key] = row.token
  /\ phase[Key] = IF row.status \in {"completed", "indeterminate"} THEN "done"
                  ELSE IF row.status = "reserved" THEN "held" ELSE "free"
  /\ live[Key] \in BOOLEAN
  /\ live[Key] <=> row.status = "reserved" /\ promised > now
BY DEF holder, phase, live

LEMMA ContractViewNext ==
  /\ holder'[Key] = row'.token
  /\ phase'[Key] = IF row'.status \in {"completed", "indeterminate"} THEN "done"
                   ELSE IF row'.status = "reserved" THEN "held" ELSE "free"
  /\ live'[Key] \in BOOLEAN
  /\ live'[Key] <=> row'.status = "reserved" /\ promised' > now'
BY DEF holder, phase, live

\* There is one key, so a step of the contract is what happens to it.
LEMMA OneKey ==
  ASSUME granted \subseteq granted',
         \/ Contract!Lapse(Key) \/ Contract!Acquire(Key) \/ Contract!Rotate(Key)
         \/ Contract!Finish(Key) \/ Contract!GiveBack(Key)
  PROVE  Contract!Next
BY DEF Contract!Next

\* Nothing but the clock happens to a reservation that no call writes; the lease
\* column may change under it.
LEMMA UntouchedLapses ==
  ASSUME IInv, row'.status = row.status, row'.token = row.token,
         promised' = promised, now' \in {now, now + 1}
  PROVE  Contract!Lapse(Key)
<1>1. promised \in Time /\ now \in Nat
  BY DEF IInv, TypeOK
<1>2. /\ phase'[Key] = phase[Key] /\ holder'[Key] = holder[Key]
      /\ live[Key] => phase[Key] = "held"
      /\ live'[Key] => live[Key]
      /\ live[Key] \in BOOLEAN /\ live'[Key] \in BOOLEAN
  BY <1>1, ContractView, ContractViewNext DEF Time, NoTime
<1>3. CASE live[Key] /\ ~live'[Key]
  <2>1. live'[Key] = FALSE
    BY <1>2, <1>3
  <2> QED BY <1>2, <1>3, <2>1 DEF Contract!Lapse, Contract!Cell
<1>4. CASE ~live[Key] \/ live'[Key]
  <2>1. live'[Key] = live[Key]
    BY <1>2, <1>4
  <2> QED BY <1>2, <2>1 DEF Contract!Lapse, Contract!Cell
<1> QED BY <1>3, <1>4

\* Where clocks agree, a reserve writes only when what was promised is over.
LEMMA ReserveImplements ==
  ASSUME IInv, Synchronised, NEW h \in Hosts, NEW in \in ReserveInput, NEW t \in Nat,
         t <= Clock(h), ReserveStatement(in, t), in.token \notin granted
  PROVE  Contract!Next
<1>1. /\ row'.status = "reserved" /\ row'.token = in.token
      /\ granted' = granted \cup {in.token}
      /\ call' = [op |-> "claim", key |-> Key, token |-> NoToken]
  BY StatementEffect DEF IInv
<1>2. Writes(in, t)
  BY DEF ReserveStatement
<1>3. row.status \in {"absent", "reserved"}
  BY <1>2, WritesWhat DEF IInv
<1>4. row.status = "reserved" => ~(promised > now)
  <2> SUFFICES ASSUME row.status = "reserved" PROVE ~(promised > now)
    OBVIOUS
  <2>1. PICK g \in Hosts : promised <= Clock(g)
    BY <1>2, TakenWhenOver
  <2>2. Clock(g) = now /\ promised \in Time /\ now \in Nat
    BY DEF Synchronised, Clock, IInv, TypeOK
  <2> QED BY <2>1, <2>2 DEF Time, NoTime
<1>5. /\ phase[Key] # "done" /\ ~live[Key]
      /\ phase'[Key] = "held" /\ holder'[Key] = in.token /\ live'[Key] \in BOOLEAN
  BY <1>1, <1>3, <1>4, ContractView, ContractViewNext
<1>6. in.token \in granted' \ granted /\ Contract!By("claim", Key)
  BY <1>1 DEF Contract!By
<1>7. Contract!Cell(Key, "held", in.token, live'[Key])
  BY <1>5 DEF Contract!Cell
<1>8. Contract!Acquire(Key)
  BY <1>5, <1>6, <1>7 DEF Contract!Acquire
<1> QED BY <1>1, <1>8, OneKey

\* A holder whose lease is in the future on the agreed clock is promised as much.
LEMMA LiveHolder ==
  ASSUME IInv, Synchronised, NEW h \in Hosts, NEW token,
         LeaseMutationWhere(row, "reserved", token, TRUE, Clock(h))
  PROVE  live[Key] /\ holder[Key] = token
<1>1. /\ row.status = "reserved" /\ row.token = token /\ row.lease > Clock(h)
      /\ row.lease \in Time
  BY DEF LeaseMutationWhere, IInv, TypeOK, ReservationRow
<1>2. \A g \in Hosts : Clock(g) = now /\ now \in Nat
  BY DEF Synchronised, Clock, IInv, TypeOK
<1>3. row.lease = promised
  BY <1>1, <1>2 DEF IInv, LeaseIsPromise, Time, NoTime
<1> QED BY <1>1, <1>2, <1>3, ContractView

LEMMA RenewImplements ==
  ASSUME IInv, Synchronised, NEW h \in Hosts, NEW token, Renew(h, token)
  PROVE  Contract!Next
<1>1. live[Key] /\ holder[Key] = token
  BY LiveHolder DEF Renew
<1>2. /\ granted' = granted \cup {issued + 1} /\ issued + 1 \notin granted
      /\ call' = [op |-> "renew", key |-> Key, token |-> token]
      /\ row' = RenewedReservation(row, issued + 1, LeaseMs, Clock(h))
      /\ row.status = "reserved" /\ row \in ReservationRow
  BY DEF IInv, TypeOK, Renew, Called, LeaseMutationWhere
<1>3. row'.status = "reserved" /\ row'.token = issued + 1
  BY <1>2 DEF RenewedReservation, ReservationRow
<1>4. /\ phase'[Key] = "held" /\ holder'[Key] = issued + 1 /\ live'[Key] \in BOOLEAN
  BY <1>3, ContractViewNext
<1>5. issued + 1 \in granted' \ granted
  BY <1>2
<1>6. Contract!By("renew", Key) /\ call'.token = holder[Key]
  BY <1>1, <1>2 DEF Contract!By
<1>7. Contract!Cell(Key, "held", issued + 1, live'[Key])
  BY <1>4 DEF Contract!Cell
<1>8. Contract!Rotate(Key)
  BY <1>1, <1>4, <1>5, <1>6, <1>7 DEF Contract!Rotate
<1> QED BY <1>2, <1>8, OneKey

\* A closed row is done for the contract.
LEMMA ClosedView ==
  ASSUME NEW status \in {"completed", "indeterminate"}, row \in ReservationRow,
         row' = ClosedReservation(row, status)
  PROVE  Contract!Cell(Key, "done", 0, FALSE)
<1>1. row'.status = status /\ row'.token = 0
  BY DEF ClosedReservation, ReservationRow, NoToken
<1>2. phase'[Key] = "done" /\ holder'[Key] = 0 /\ live'[Key] \in BOOLEAN /\ ~live'[Key]
  BY <1>1, ContractViewNext
<1>3. live'[Key] = FALSE
  BY <1>2
<1> QED BY <1>2, <1>3 DEF Contract!Cell

LEMMA CompleteImplements ==
  ASSUME IInv, Synchronised, NEW h \in Hosts, NEW token, Complete(h, token)
  PROVE  Contract!Next
<1>1. live[Key] /\ holder[Key] = token
  BY LiveHolder DEF Complete
<1>2. /\ call' = [op |-> "complete", key |-> Key, token |-> token]
      /\ row' = ClosedReservation(row, "completed") /\ granted' = granted
  BY DEF Complete, Called
<1>3. Contract!Cell(Key, "done", 0, FALSE)
  BY <1>2, ClosedView DEF IInv, TypeOK
<1>4. Contract!Finish(Key)
  BY <1>1, <1>2, <1>3 DEF Contract!Finish, Contract!By
<1> QED BY <1>2, <1>4, OneKey

LEMMA ParkImplements ==
  ASSUME IInv, NEW token, MarkIndeterminate(token)
  PROVE  Contract!Next
<1>1. /\ call' = [op |-> "fail", key |-> Key, token |-> token]
      /\ row' = ClosedReservation(row, "indeterminate") /\ granted' = granted
      /\ row.status = "reserved" /\ row.token = token
  BY DEF MarkIndeterminate, Called, LeaseMutationWhere
<1>2. Contract!Cell(Key, "done", 0, FALSE)
  BY <1>1, ClosedView DEF IInv, TypeOK
<1>3. phase[Key] = "held" /\ holder[Key] = token
  BY <1>1, ContractView
<1>4. Contract!By("fail", Key) /\ call'.token = holder[Key]
  BY <1>1, <1>3 DEF Contract!By
<1>5. \E p \in {"free", "done"} : Contract!Cell(Key, p, 0, FALSE)
  BY <1>2
<1>6. Contract!GiveBack(Key)
  BY <1>3, <1>4, <1>5 DEF Contract!GiveBack
<1> QED BY <1>1, <1>6, OneKey

\* A sweep deletes only what is done.
LEMMA SweepImplements == ASSUME IInv, SweepDelete PROVE Contract!Next
<1>1. granted' = granted /\ now' = now
  BY DEF SweepDelete
<1>2. CASE tuple = sweep
  <2>1. row.status = "completed" /\ row' = NoReservation
    BY <1>2 DEF SweepDelete, IInv, SweptIsDone
  <2>2. row'.status = "absent" /\ row'.token = 0
    BY <2>1 DEF NoReservation, NoToken
  <2>3. ~live[Key] /\ phase'[Key] = "free" /\ holder'[Key] = 0
        /\ live'[Key] \in BOOLEAN /\ ~live'[Key]
    BY <2>1, <2>2, ContractView, ContractViewNext
  <2>4. live'[Key] = FALSE
    BY <2>3
  <2>5. Contract!Lapse(Key)
    BY <2>3, <2>4 DEF Contract!Lapse, Contract!Cell
  <2> QED BY <1>1, <2>5, OneKey
<1>3. CASE tuple # sweep
  <2>1. UNCHANGED <<row, promised>>
    BY <1>3 DEF SweepDelete
  <2>2. Contract!Lapse(Key)
    BY <1>1, <2>1, UntouchedLapses
  <2> QED BY <1>1, <2>2, OneKey
<1> QED BY <1>2, <1>3

\* A statement that leaves status, token and promise alone.
LEMMA QuietImplements ==
  ASSUME IInv, row'.status = row.status, row'.token = row.token, granted' = granted,
         promised' = promised, now' \in {now, now + 1}
  PROVE  Contract!Next
<1>1. Contract!Lapse(Key)
  BY UntouchedLapses
<1> QED BY <1>1, OneKey

LEMMA StepImplements ==
  IInv /\ [Next]_vars => [Synchronised => Contract!Next]_(Contract!vars)
<1> SUFFICES ASSUME IInv, [Next]_vars
             PROVE  [Synchronised => Contract!Next]_(Contract!vars)
  OBVIOUS
<1>1. CASE UNCHANGED vars
  BY <1>1 DEF vars, Contract!vars, phase, holder, live
<1>2. ASSUME Next, Synchronised PROVE Contract!Next
  <2>1. ASSUME NEW h \in Hosts, NEW in \in Inputs, Reserve(h, in) PROVE Contract!Next
    <3>1. in \in ReserveInput /\ in.token \notin granted /\ now' = now
      BY <2>1, InputType DEF IInv, TypeOK, Reserve
    <3>2. Clock(h) \in Nat /\ Clock(h) <= Clock(h)
      BY ClockType DEF IInv
    <3>3. CASE ReserveStatement(in, Clock(h))
      BY <1>2, <3>1, <3>2, <3>3, ReserveImplements
    <3>4. CASE ReserveMisses(in, Clock(h))
      BY <3>1, <3>4, QuietImplements DEF ReserveMisses
    <3> QED BY <2>1, <3>3, <3>4 DEF Reserve
  <2>2. ASSUME NEW h \in Hosts, Retry(h) PROVE Contract!Next
    <3>1. reserve[h] # Idle
      BY <2>2, BusyHost DEF Retry
    <3>2. /\ reserve[h].in \in ReserveInput /\ reserve[h].in.token \notin granted
          /\ reserve[h].now0 \in Nat /\ reserve[h].now0 <= Clock(h) /\ now' = now
      BY <2>2, <3>1, InReserveType DEF IInv, DrawnTokens, ReadingsAreOld, Retry
    <3>3. CASE ReserveStatement(reserve[h].in, reserve[h].now0)
      BY <1>2, <3>2, <3>3, ReserveImplements
    <3>4. CASE ReserveMisses(reserve[h].in, reserve[h].now0)
      BY <3>2, <3>4, QuietImplements DEF ReserveMisses
    <3> QED BY <2>2, <3>3, <3>4 DEF Retry
  <2>3. ASSUME NEW h \in Hosts, Repair(h) PROVE Contract!Next
    <3>1. row \in ReservationRow
      BY DEF IInv, TypeOK
    <3>2. row'.status = row.status /\ row'.token = row.token
      BY <2>3, <3>1 DEF Repair, ReservationRow
    <3> QED BY <2>3, <3>2, QuietImplements DEF Repair
  <2>4. ASSUME NEW h \in Hosts, Select(h) \/ Reselect(h) PROVE Contract!Next
    BY <2>4, QuietImplements DEF Select, Reselect
  <2>5. ASSUME NEW h \in Hosts, NEW token, Renew(h, token) \/ Complete(h, token)
        PROVE  Contract!Next
    BY <1>2, <2>5, RenewImplements, CompleteImplements
  <2>6. ASSUME NEW token, MarkIndeterminate(token) PROVE Contract!Next
    BY <2>6, ParkImplements
  <2>7. ASSUME SweepScan \/ Tick PROVE Contract!Next
    BY <2>7, QuietImplements DEF SweepScan, Tick
  <2>8. ASSUME SweepDelete PROVE Contract!Next
    BY <2>8, SweepImplements
  <2> QED BY <1>2, <2>1, <2>2, <2>3, <2>4, <2>5, <2>6, <2>7, <2>8 DEF Next
<1> QED BY <1>1, <1>2

LEMMA InitImplements == Init => Contract!Init
<1> SUFFICES ASSUME Init PROVE Contract!Init
  OBVIOUS
<1>1. phase = [k \in {Key} |-> "free"]
  BY DEF Init, phase, NoReservation
<1>2. holder = [k \in {Key} |-> 0]
  BY DEF Init, holder, NoReservation, NoToken
<1>3. live = [k \in {Key} |-> FALSE]
  BY DEF Init, live, NoReservation
<1>4. granted = {} /\ call.op = "none"
  BY DEF Init
<1> QED BY <1>1, <1>2, <1>3, <1>4 DEF Contract!Init

\* Where hosts' clocks agree, the interleaved statements of reserves, renewals,
\* completions and sweeps implement the lease contract of the stores.
THEOREM Implementation == Spec => ImplementsContract
<1>1. Spec => []IInv
  BY Invariance
<1> QED BY <1>1, InitImplements, StepImplements, PTL DEF Spec, ImplementsContract
=============================================================================
