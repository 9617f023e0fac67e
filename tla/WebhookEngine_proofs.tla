------------------------ MODULE WebhookEngine_proofs ------------------------
(***************************************************************************)
(* The webhook inbox engine, for any number of workers, deliveries and     *)
(* faults, any payloads and any options.                                   *)
(*                                                                         *)
(* The argument is about tokens.  A token is fresh when a store issues it, *)
(* so at most one worker holds the token of the row (OwnTokens), and a     *)
(* worker knows of the row it owns how many attempts it has burnt.  What   *)
(* the row says by itself is RowOK; what one worker may be sure of, of its *)
(* own record and of the row, is WorkerOK.  A step writes one worker and   *)
(* perhaps the row: for the other workers it is enough that the row keeps  *)
(* what they rely on (BystanderKeeps).                                     *)
(***************************************************************************)
EXTENDS WebhookEngine, FiniteSetTheorems, WellFoundedInduction, TLAPS

\* What the columns of a row say of each other.
RowOK(r) ==
  /\ r.status # "failed"
  /\ r.status = "absent" => r.attempts = 0 /\ r.ref = NoHash
  /\ r.status # "absent" => r.hash \in Hashes
  /\ r.status = "claimed" <=> r.lease # NoTime
  /\ Durable => r.ref \in {NoHash, r.hash}

\* The tokens a worker would write with, and whether they own the row r.
Keeps(x)   == {x.token, x.renew.token} \ {NoToken}
Owns(x, r) == r.token # NoToken /\ r.token \in Keeps(x)

Working(x) == x.pc \in {"running", "returned", "threw"}

\* What a worker knows of its own claim, whatever the row is.
RecordOK(x) ==
  /\ x.pc # "idle" => /\ x.hash \in Hashes
                      /\ x.event \in {NoHash, x.hash}
                      /\ Durable => x.ref \in {NoHash, x.hash}
  /\ x.pc = "running" => x.event = x.hash
  /\ x.token = NoToken <=> x.pc \in {"idle", "get", "claim"}
  /\ x.renew # NoRenew => Working(x)
  /\ x.error \in HandlerErrors \cup {"none"}

\* What it may rely on of the row r, when there have been f faults.
RowKnown(x, r, f) ==
  /\ x.pc # "idle" => r.status # "absent"
  /\ Durable /\ x.http => r.ref # NoHash
  /\ Owns(x, r) => r.attempts <= x.attempts
  /\ x.renew.token # NoToken => x.token # r.token
  /\ f = 0 /\ Working(x) => Owns(x, r) /\ r.lease > 0

AllRecords == \A w \in Workers : RecordOK(wk[w])
AllKnown   == \A w \in Workers : RowKnown(wk[w], row, faults)

\* No two workers hold the same token.
OwnTokens == \A v, w \in Workers : v # w => Keeps(wk[v]) \cap Keeps(wk[w]) = {}

\* A delivery that an inline engine failed has burnt an attempt before any budget
\* was counted.
RoomToRetry == InlineEra => MaxAttempts > 1

InBudget(r) == /\ r.status = "pending" => r.attempts < MaxAttempts
               /\ r.status = "claimed" => r.attempts <= MaxAttempts

\* The provider need not deliver the event again.
Safe(r) == \/ r.status \in {"completed", "dead_letter"}
           \/ Durable /\ r.status \in {"pending", "claimed"} /\ r.ref # NoHash

\* An inline engine tells the provider 200 for a failure it does not dead-letter.
NoneKeptInline == "keep_pending" \notin InlineErrors

IInv == /\ TypeOK /\ Deployable /\ RowOK(row) /\ AllRecords /\ AllKnown /\ OwnTokens
        /\ ProcessedOnce
        /\ RoomToRetry /\ Durable => InBudget(row)
        /\ NoneKeptInline /\ acked => Safe(row)

-----------------------------------------------------------------------------
(* Fresh tokens.                                                           *)

\* As many workers, at most as many tokens.
LEMMA ImageSmall ==
  ASSUME NEW f, f \in [Workers -> {f[w] : w \in Workers}]
  PROVE  LET T == {f[w] : w \in Workers}
         IN  IsFiniteSet(T) /\ Cardinality(T) <= Cardinality(Workers)
<1> DEFINE T == {f[w] : w \in Workers}
<1>1. f \in Surjection(Workers, T)
  BY DEF Surjection
<1> QED BY <1>1, FS_Surjection, WorkersAssumption

\* There is always a token that neither a worker nor the row holds.
LEMMA HeldSmall ==
  /\ IsFiniteSet(Held) /\ Cardinality(Held) <= 2 * Cardinality(Workers) + 1
  /\ Cardinality(Held) \in Nat /\ Cardinality(Workers) \in Nat
<1> DEFINE f == [w \in Workers |-> wk[w].token]
           g == [w \in Workers |-> wk[w].renew.token]
           F == {f[w] : w \in Workers}
           G == {g[w] : w \in Workers}
<1>1. IsFiniteSet(F) /\ Cardinality(F) <= Cardinality(Workers)
  <2>1. f \in [Workers -> {f[w] : w \in Workers}]
    OBVIOUS
  <2> HIDE DEF f
  <2> QED BY <2>1, ImageSmall
<1>2. IsFiniteSet(G) /\ Cardinality(G) <= Cardinality(Workers)
  <2>1. g \in [Workers -> {g[w] : w \in Workers}]
    OBVIOUS
  <2> HIDE DEF g
  <2> QED BY <2>1, ImageSmall
<1>3. Held = (F \cup G) \cup {row.token}
  BY DEF Held
<1> HIDE DEF F, G, f, g
<1>4. IsFiniteSet(F \cup G) /\ Cardinality(F \cup G) <= 2 * Cardinality(Workers)
  <2>1. /\ IsFiniteSet(F \cup G)
        /\ Cardinality(F \cup G) = Cardinality(F) + Cardinality(G) - Cardinality(F \cap G)
    BY <1>1, <1>2, FS_Union
  <2>2. IsFiniteSet(F \cap G)
    BY <1>1, FS_Subset
  <2>3. /\ Cardinality(F) \in Nat /\ Cardinality(G) \in Nat
        /\ Cardinality(F \cap G) \in Nat /\ Cardinality(Workers) \in Nat
    BY <1>1, <1>2, <2>2, FS_CardinalityType, WorkersAssumption
  <2> QED BY <1>1, <1>2, <2>1, <2>3
<1>5. /\ IsFiniteSet(Held)
      /\ Cardinality(Held) = IF row.token \in F \cup G THEN Cardinality(F \cup G)
                                                       ELSE Cardinality(F \cup G) + 1
  BY <1>3, <1>4, FS_AddElement
<1>6. /\ Cardinality(Held) \in Nat /\ Cardinality(F \cup G) \in Nat
      /\ Cardinality(Workers) \in Nat
  BY <1>4, <1>5, FS_CardinalityType, WorkersAssumption
<1> QED BY <1>4, <1>5, <1>6

LEMMA TokenToSpare == Tokens \ Held # {}
<1> SUFFICES ASSUME Tokens \subseteq Held PROVE FALSE
  OBVIOUS
<1> DEFINE n == 2 * Cardinality(Workers) + 2
<1>1. n \in Nat /\ Tokens = 1..n /\ Cardinality(Held) \in Nat /\ Cardinality(Held) < n
  BY HeldSmall DEF Tokens
<1> HIDE DEF n
<1>2. Cardinality(Tokens) = n
  BY <1>1, FS_Interval
<1>3. Cardinality(Tokens) <= Cardinality(Held)
  BY HeldSmall, FS_Subset
<1> QED BY <1>1, <1>2, <1>3

\* The token a store issues is held by nobody.
LEMMA FreshIsFree ==
  /\ Fresh \in Tokens /\ Fresh # NoToken /\ Fresh \in Nat
  /\ Fresh # row.token
  /\ \A w \in Workers : Fresh # wk[w].token /\ Fresh # wk[w].renew.token
<1> DEFINE S == Tokens \ Held
<1>1. S \subseteq Nat /\ S # {}
  BY TokenToSpare DEF Tokens
<1> HIDE DEF S
<1>2. \E t \in S : \A u \in S : t <= u
  <2>1. \E t \in S : \A u \in S : ~(<<u, t>> \in OpToRel(<, Nat))
    BY <1>1, NatLessThanWellFounded, WFMin
  <2>2. PICK t \in S : \A u \in S : ~(<<u, t>> \in OpToRel(<, Nat))
    BY <2>1
  <2>3. ASSUME NEW u \in S PROVE t <= u
    <3>1. t \in Nat /\ u \in Nat
      BY <1>1
    <3>2. ~(u < t)
      BY <2>2, <3>1 DEF OpToRel
    <3> QED BY <3>1, <3>2
  <2> QED BY <2>3
<1>3. Fresh \in S
  BY <1>2 DEF Fresh, S
<1>4. Fresh \in Tokens /\ Fresh \notin Held
  BY <1>3 DEF S
<1>5. \A w \in Workers : wk[w].token \in Held /\ wk[w].renew.token \in Held
  BY DEF Held
<1>6. row.token \in Held
  BY DEF Held
<1>7. Fresh # NoToken /\ Fresh \in Nat
  BY <1>4 DEF Tokens, NoToken
<1> QED BY <1>4, <1>5, <1>6, <1>7

-----------------------------------------------------------------------------
(* A step of one worker.                                                   *)

\* What every write of the row keeps of it.
RowMove(r) ==
  /\ r \in Row /\ RowOK(r)
  /\ r.status = "claimed" <=> r.token # NoToken
  /\ row.status # "absent" => r.status # "absent"
  /\ row.status \in {"completed", "dead_letter"} => r.status = row.status
  /\ row.ref # NoHash => r.ref # NoHash
  /\ r.token \in {row.token, NoToken, Fresh}
  /\ r.token = row.token => r.attempts <= row.attempts
  /\ RoomToRetry /\ Durable => InBudget(r)

\* A worker's write does not take a live claim from another worker without a fault.
Undisturbed(x, r, f) ==
  \/ r.token = row.token /\ r.lease = row.lease
  \/ ~(row.token # NoToken /\ row.lease > 0)
  \/ Owns(x, row)
  \/ f # 0

LEMMA RowStays == ASSUME IInv PROVE RowMove(row)
<1>1. row.attempts \in Nat
  BY DEF IInv, TypeOK, Row
<1> QED BY <1>1 DEF IInv, TypeOK, RowMove

\* An idle worker relies on nothing.
LEMMA IdleFits ==
  /\ IdleWorker \in WorkerState /\ RecordOK(IdleWorker)
  /\ \A r, f : RowKnown(IdleWorker, r, f)
  /\ IdleWorker.token = NoToken /\ IdleWorker.renew.token = NoToken
<1>1. IdleWorker \in WorkerState
  BY DEF IdleWorker, WorkerState, NoRenew
<1>2. RecordOK(IdleWorker)
  BY DEF IdleWorker, NoRenew, RecordOK, Working
<1>3. \A r, f : RowKnown(IdleWorker, r, f)
  BY DEF IdleWorker, NoRenew, RowKnown, Working, Owns, Keeps
<1> QED BY <1>1, <1>2, <1>3 DEF IdleWorker, NoRenew

\* The other workers still know what they knew.
LEMMA BystanderKeeps ==
  ASSUME IInv, NEW v \in Workers, NEW w \in Workers, v # w, NEW r, NEW f \in Nat,
         RowMove(r), faults <= f, Undisturbed(wk[w], r, f)
  PROVE  RowKnown(wk[v], r, f)
<1>1. /\ RowKnown(wk[v], row, faults) /\ RecordOK(wk[v]) /\ faults \in Nat
      /\ Keeps(wk[v]) \cap Keeps(wk[w]) = {}
      /\ row \in Row /\ wk[v] \in WorkerState /\ wk[w] \in WorkerState
  BY DEF IInv, TypeOK, AllKnown, AllRecords, OwnTokens
<1>2. /\ Fresh # NoToken /\ Fresh # row.token
      /\ Fresh # wk[v].token /\ Fresh # wk[v].renew.token
  BY FreshIsFree
<1>3. /\ wk[v].pc # "idle" => r.status # "absent"
      /\ Durable /\ wk[v].http => r.ref # NoHash
  BY <1>1 DEF RowKnown, RowMove
<1>4. Owns(wk[v], r) => r.token = row.token /\ Owns(wk[v], row)
  BY <1>2 DEF RowMove, Owns, Keeps
<1>5. Owns(wk[v], r) => r.attempts <= wk[v].attempts
  BY <1>1, <1>4 DEF RowKnown, RowMove, Row, WorkerState
<1>6. wk[v].renew.token # NoToken => wk[v].token # r.token
  <2> SUFFICES ASSUME wk[v].renew.token # NoToken PROVE wk[v].token # r.token
    OBVIOUS
  <2>1. wk[v].renew # NoRenew
    BY DEF NoRenew
  <2>2. wk[v].token # NoToken
    BY <1>1, <2>1 DEF RecordOK, Working
  <2> QED BY <1>1, <1>2, <2>2 DEF RowKnown, RowMove
<1>7. f = 0 /\ Working(wk[v]) => Owns(wk[v], r) /\ r.lease > 0
  <2> SUFFICES ASSUME f = 0, Working(wk[v]) PROVE Owns(wk[v], r) /\ r.lease > 0
    OBVIOUS
  <2>1. Owns(wk[v], row) /\ row.lease > 0
    BY <1>1 DEF RowKnown
  <2>2. ~Owns(wk[w], row)
    BY <1>1, <2>1 DEF Owns
  <2>3. r.token = row.token /\ r.lease = row.lease
    BY <2>1, <2>2 DEF Undisturbed, Owns
  <2> QED BY <2>1, <2>3 DEF Owns
<1> QED BY <1>3, <1>5, <1>6, <1>7 DEF RowKnown

\* A step of worker w keeps the invariant if its record x and the row it leaves do.
LEMMA WorkerStep ==
  ASSUME IInv, NEW w \in Workers, NEW x \in WorkerState,
         wk' = [wk EXCEPT ![w] = x], UNCHANGED <<mode, policy>>,
         deliveries' \in 0..MaxDeliveries, faults' \in 0..MaxFaults, faults <= faults',
         RecordOK(x), RowKnown(x, row', faults'),
         RowMove(row'), Undisturbed(wk[w], row', faults'),
         {x.token, x.renew.token} \subseteq
           {NoToken, Fresh, wk[w].token, wk[w].renew.token},
         \/ processed' = processed
         \/ /\ processed' = processed + 1
            /\ row.status = "claimed" /\ row'.status = "completed",
         acked' \in BOOLEAN,
         NoneKeptInline /\ acked' => acked \/ Safe(row')
  PROVE  IInv'
<1>1. /\ wk \in [Workers -> WorkerState] /\ faults' \in Nat /\ processed \in Nat
      /\ wk'[w] = x /\ \A v \in Workers \ {w} : wk'[v] = wk[v]
      /\ Durable' = Durable /\ HandlerErrors' = HandlerErrors
  BY NumberAssumption DEF IInv, TypeOK, Durable, HandlerErrors
<1>2. TypeOK'
  BY <1>1 DEF IInv, TypeOK, RowMove
<1>3. Deployable' /\ RowOK(row)'
  BY <1>1 DEF IInv, Deployable, RowMove, RowOK
<1>4. AllRecords'
  BY <1>1 DEF IInv, AllRecords, RecordOK
<1>5. \A v \in Workers : RowKnown(wk'[v], row', faults')
  BY <1>1, BystanderKeeps
<1>6. AllKnown'
  BY <1>1, <1>5 DEF AllKnown, RowKnown
<1>7. OwnTokens'
  <2>1. \A v \in Workers \ {w} : Keeps(wk[v]) \cap Keeps(x) = {}
    <3>1. Keeps(x) \subseteq Keeps(wk[w]) \cup {Fresh}
      BY DEF Keeps
    <3>2. \A v \in Workers : Fresh \notin Keeps(wk[v])
      BY FreshIsFree DEF Keeps
    <3> QED BY <3>1, <3>2 DEF IInv, OwnTokens
  <2> QED BY <1>1, <2>1 DEF IInv, OwnTokens, Keeps
<1>8. ProcessedOnce'
  BY <1>1 DEF IInv, ProcessedOnce, RowMove
<1>9. (RoomToRetry /\ Durable => InBudget(row))'
  BY <1>1 DEF RowMove, RoomToRetry, InBudget
<1>10. (NoneKeptInline /\ acked => Safe(row))'
  <2>1. Safe(row) => Safe(row')
    BY DEF Safe, RowMove, RowOK, Row, Statuses
  <2> QED BY <1>1, <2>1 DEF IInv, NoneKeptInline, Safe
<1> QED BY <1>2, <1>3, <1>4, <1>6, <1>7, <1>8, <1>9, <1>10 DEF IInv

-----------------------------------------------------------------------------
(* What the store's calls do to the row.                                   *)

\* A claim is acquired on a row that is not finished and not under a live lease,
\* and a fenced claim on no other payload.
LEMMA AcquireWhen ==
  ASSUME IInv, NEW in, DecideWebhookClaim(row, in, 0) = "acquired"
  PROVE  /\ row.status \in {"absent", "pending", "claimed"}
         /\ ~(row.token # NoToken /\ row.lease > 0)
         /\ in.ifMatch # NoHash /\ row.status # "absent" => row.hash = in.ifMatch
BY DEF IInv, TypeOK, RowOK, DecideWebhookClaim, IsLeaseActive, Row, Statuses, NoTime

LEMMA AcquireMove ==
  ASSUME IInv, NEW in \in ClaimInput, in.token = Fresh, in.leaseMs = LeaseMs,
         DecideWebhookClaim(row, in, 0) = "acquired", Store(AcquiredRow(row, in, 0)),
         Durable => (in.ref = in.hash \/ (in.ref = NoHash /\ row.hash = in.hash))
  PROVE  /\ RowMove(row') /\ row'.status = "claimed" /\ row'.token = Fresh
         /\ row'.lease = LeaseMs /\ row'.hash = in.hash
         /\ row'.ref = Coalesce(in.ref, row.ref)
         /\ row'.attempts = AcquiredRow(row, in, 0).attempts
         /\ row'.attempts \in Nat
         /\ \A x, f : Undisturbed(x, row', f)
<1> DEFINE n == IF row.status = "claimed" THEN row.attempts ELSE row.attempts + 1
<1>1. /\ row.status \in {"absent", "pending", "claimed"}
      /\ ~(row.token # NoToken /\ row.lease > 0)
  BY AcquireWhen
<1>2. row \in Row /\ RowOK(row) /\ row.attempts \in Nat /\ n \in Nat
  BY DEF IInv, TypeOK, Row
<1>3. row' = [status |-> "claimed", hash |-> in.hash, ref |-> Coalesce(in.ref, row.ref),
              token |-> Fresh, lease |-> LeaseMs, attempts |-> n, generation |-> 0,
              availableAt |-> 0]
  <2>1. 0 + LeaseMs = LeaseMs
    BY NumberAssumption
  <2> QED BY <2>1 DEF Store, AcquiredRow
<1>4. AcquiredRow(row, in, 0).attempts = n
  BY DEF AcquiredRow
<1>5. RoomToRetry /\ Durable => n <= MaxAttempts
  BY <1>1, <1>2, NumberAssumption DEF IInv, RowOK, InBudget
<1> HIDE DEF n
<1>6. Fresh \in Nat /\ Fresh # NoToken /\ Fresh # row.token
  BY FreshIsFree
<1>7. Coalesce(in.ref, row.ref) \in Hashes \cup {NoHash} /\ in.hash \in Hashes
  BY <1>2 DEF Coalesce, ClaimInput, Row
<1>8. row' \in Row
  BY <1>2, <1>3, <1>6, <1>7, NumberAssumption DEF Row, Statuses, Time
<1>9. RowOK(row')
  <2>1. Durable => row'.ref \in {NoHash, in.hash}
    <3>1. row'.ref = IF in.ref # NoHash THEN in.ref ELSE row.ref
      BY <1>3 DEF Coalesce
    <3>2. Durable => row.ref \in {NoHash, row.hash}
      BY <1>2 DEF RowOK
    <3> QED BY <1>7, <3>1, <3>2, NoHashAssumption
  <2> QED BY <1>3, <1>7, <2>1, NumberAssumption DEF RowOK, NoTime
<1>10. row.ref # NoHash => row'.ref # NoHash
  BY <1>3 DEF Coalesce
<1>11. RowMove(row')
  BY <1>1, <1>3, <1>5, <1>6, <1>8, <1>9, <1>10 DEF RowMove, InBudget
<1> QED BY <1>1, <1>2, <1>3, <1>4, <1>11 DEF Undisturbed

\* What a mutator that presents its token may rely on.
LEMMA FencedOwner ==
  ASSUME IInv, NEW w \in Workers, NEW a \in BOOLEAN,
         DecideLeaseMutation(row, "claimed", wk[w].token, a, 0) = "ok"
  PROVE  /\ row.status = "claimed" /\ row.token = wk[w].token /\ Owns(wk[w], row)
         /\ row.attempts <= wk[w].attempts
<1>1. row.status = "claimed" /\ row.token = wk[w].token /\ row.token # NoToken
  BY DEF DecideLeaseMutation
<1>2. Owns(wk[w], row)
  BY <1>1 DEF Owns, Keeps
<1> QED BY <1>1, <1>2 DEF IInv, AllKnown, RowKnown

LEMMA RenewMove ==
  ASSUME IInv, row.status = "claimed", Store(RenewedRow(row, Fresh, LeaseMs, 0))
  PROVE  /\ RowMove(row') /\ row'.status = "claimed" /\ row'.token = Fresh
         /\ row'.lease = LeaseMs /\ row'.attempts = row.attempts
         /\ row'.hash = row.hash /\ row'.ref = row.ref
<1>1. row \in Row /\ RowOK(row)
  BY DEF IInv, TypeOK
<1>2. row' = [row EXCEPT !.token = Fresh, !.lease = LeaseMs, !.generation = 0]
  <2>1. 0 + LeaseMs = LeaseMs
    BY NumberAssumption
  <2> QED BY <1>1, <2>1 DEF Store, RenewedRow, Row
<1>3. Fresh \in Nat /\ Fresh # NoToken /\ Fresh # row.token
  BY FreshIsFree
<1>4. /\ row'.status = "claimed" /\ row'.token = Fresh
      /\ row'.lease = LeaseMs /\ row'.attempts = row.attempts
      /\ row'.hash = row.hash /\ row'.ref = row.ref
  BY <1>1, <1>2 DEF Row
<1>5. row' \in Row
  BY <1>1, <1>2, <1>3, NumberAssumption DEF Row, Time
<1>6. RowMove(row')
  BY <1>1, <1>3, <1>4, <1>5, NumberAssumption DEF IInv, RowMove, RowOK, InBudget, NoTime
<1> QED BY <1>4, <1>6

LEMMA CompleteMove ==
  ASSUME IInv, row.status = "claimed", Store(CompletedRow(row))
  PROVE  /\ RowMove(row') /\ row'.status = "completed" /\ row'.hash = row.hash
<1>1. row \in Row /\ RowOK(row)
  BY DEF IInv, TypeOK
<1>2. row' = [row EXCEPT !.status = "completed", !.token = NoToken, !.lease = NoTime,
                         !.generation = 0]
  BY <1>1 DEF Store, CompletedRow, Row
<1>3. /\ row'.status = "completed" /\ row'.token = NoToken /\ row'.lease = NoTime
      /\ row'.hash = row.hash /\ row'.ref = row.ref
  BY <1>1, <1>2 DEF Row
<1>4. row' \in Row
  BY <1>1, <1>2 DEF Row, Statuses, Time, NoTime, NoToken
<1>5. row.token # NoToken
  BY DEF IInv, TypeOK
<1>6. RowMove(row')
  BY <1>1, <1>3, <1>4, <1>5 DEF RowMove, RowOK, InBudget
<1> QED BY <1>3, <1>6

\* A failure leaves the row for another run only when its budget allows one.
LEMMA FailMove ==
  ASSUME IInv, row.status = "claimed", NEW dead \in BOOLEAN, NEW restore \in BOOLEAN,
         NEW delay \in Nat, Store(FailedRow(row, dead, restore, delay, 0)),
         dead \/ restore \/ (Durable => row.attempts < MaxAttempts)
  PROVE  /\ RowMove(row') /\ row'.hash = row.hash /\ row'.ref = row.ref
         /\ row'.status = IF dead THEN "dead_letter" ELSE "pending"
<1> DEFINE n == IF restore THEN (IF row.attempts > 0 THEN row.attempts - 1 ELSE 0)
                           ELSE row.attempts
           s == IF dead THEN "dead_letter" ELSE "pending"
<1>1. row \in Row /\ RowOK(row) /\ row.attempts \in Nat /\ row.token # NoToken
  BY DEF IInv, TypeOK, Row
<1>2. row' = [row EXCEPT !.status = s, !.token = NoToken, !.lease = NoTime,
                         !.attempts = n, !.availableAt = delay, !.generation = 0]
  <2>1. 0 + delay = delay
    OBVIOUS
  <2> QED BY <1>1, <2>1 DEF Store, FailedRow, Row
<1>3. n \in Nat /\ s \in {"dead_letter", "pending"}
  BY <1>1
<1>4. RoomToRetry /\ Durable /\ s = "pending" => n < MaxAttempts
  BY <1>1, NumberAssumption DEF IInv, InBudget
<1> HIDE DEF n, s
<1>5. /\ row'.status = s /\ row'.token = NoToken /\ row'.lease = NoTime
      /\ row'.attempts = n /\ row'.hash = row.hash /\ row'.ref = row.ref
  BY <1>1, <1>2 DEF Row
<1>6. row' \in Row
  BY <1>1, <1>2, <1>3 DEF Row, Statuses, Time, NoTime, NoToken
<1>7. RowMove(row')
  BY <1>1, <1>3, <1>4, <1>5, <1>6 DEF RowMove, RowOK, InBudget
<1> QED BY <1>5, <1>7 DEF s

\* Listing a due row releases it first when its lease has run out.
LEMMA ListMove ==
  ASSUME IInv, Store(ReleaseExpiredLease(row, 0)),
         ReleaseExpiredLease(row, 0).status = "pending"
  PROVE  /\ RowMove(row') /\ row'.status = "pending"
         /\ row'.hash = row.hash /\ row'.ref = row.ref
         /\ \A x, f : Undisturbed(x, row', f)
<1> DEFINE n == IF row.attempts > 0 THEN row.attempts - 1 ELSE 0
<1>1. row \in Row /\ RowOK(row) /\ row.attempts \in Nat /\ n \in Nat
  BY DEF IInv, TypeOK, Row
<1>2. CASE row.status = "pending"
  <2>1. row' = [row EXCEPT !.generation = 0]
    BY <1>2 DEF Store, ReleaseExpiredLease
  <2>2. /\ row'.status = row.status /\ row'.token = row.token /\ row'.lease = row.lease
        /\ row'.attempts = row.attempts /\ row'.hash = row.hash /\ row'.ref = row.ref
    BY <1>1, <2>1 DEF Row
  <2>3. row' \in Row
    BY <1>1, <2>1 DEF Row
  <2>4. RowMove(row')
    BY <1>1, <2>2, <2>3 DEF IInv, TypeOK, RowMove, RowOK, InBudget
  <2> QED BY <1>2, <2>2, <2>4 DEF Undisturbed
<1>3. CASE row.status # "pending"
  <2>1. row.status = "claimed" /\ row.lease <= 0 /\ row.token # NoToken
    BY <1>1, <1>3 DEF ReleaseExpiredLease, IInv, TypeOK
  <2>2. row' = [row EXCEPT !.status = "pending", !.token = NoToken, !.lease = NoTime,
                           !.attempts = n, !.availableAt = 0, !.generation = 0]
    <3>1. ReleaseExpiredLease(row, 0) # row
      BY <1>3
    <3> QED BY <1>1, <3>1 DEF Store, ReleaseExpiredLease, Row
  <2>3. RoomToRetry /\ Durable => n < MaxAttempts
    BY <1>1, <2>1, NumberAssumption DEF IInv, InBudget
  <2> HIDE DEF n
  <2>4. /\ row'.status = "pending" /\ row'.token = NoToken /\ row'.lease = NoTime
        /\ row'.attempts = n /\ row'.hash = row.hash /\ row'.ref = row.ref
    BY <1>1, <2>2 DEF Row
  <2>5. row' \in Row
    BY <1>1, <2>2 DEF Row, Statuses, Time, NoTime, NoToken
  <2>6. RowMove(row')
    BY <1>1, <2>1, <2>3, <2>4, <2>5 DEF RowMove, RowOK, InBudget
  <2>7. ~(row.lease > 0)
    BY <1>1, <2>1 DEF Row, Time, NoTime
  <2> QED BY <2>4, <2>6, <2>7 DEF Undisturbed
<1> QED BY <1>2, <1>3

-----------------------------------------------------------------------------
(* Answers.                                                                *)

Outcomes == {"processed", "duplicate_completed", "handler_failed_final",
             "payload_conflict", "handler_failed", "already_processing",
             "not_available", "parked", "handler_retry"}

\* What the provider is told 200 for.
LEMMA Http200 ==
  ASSUME NEW outcome \in Outcomes, HttpStatus(outcome) = 200
  PROVE  \/ outcome \in {"processed", "duplicate_completed", "handler_failed_final"}
         \/ outcome \in {"parked", "handler_retry"} /\ policy = "durable_worker"
BY DEF HttpStatus, Outcomes

\* An answer to a delivery is safe when what it says of the row is true.
LEMMA AnswerSafe ==
  ASSUME IInv, NEW http \in BOOLEAN, NEW outcome, Answer(http, outcome),
         NoneKeptInline /\ http /\ HttpStatus(outcome) = 200 => Safe(row'),
         outcome = "processed" => row.status = "claimed" /\ row'.status = "completed"
  PROVE  /\ acked' \in BOOLEAN
         /\ NoneKeptInline /\ acked' => acked \/ Safe(row')
         /\ \/ processed' = processed
            \/ /\ processed' = processed + 1
               /\ row.status = "claimed" /\ row'.status = "completed"
<1>1. acked \in BOOLEAN /\ acked' = (acked \/ (http /\ HttpStatus(outcome) = 200))
  BY DEF IInv, TypeOK, Answer
<1>2. acked' \in BOOLEAN
  BY <1>1
<1>3. NoneKeptInline /\ acked' => acked \/ Safe(row')
  BY <1>1
<1>4. \/ processed' = processed
      \/ /\ processed' = processed + 1
         /\ row.status = "claimed" /\ row'.status = "completed"
  BY DEF Answer
<1> QED BY <1>2, <1>3, <1>4

\* A worker that ends its call becomes idle.
LEMMA FinishStep ==
  ASSUME IInv, NEW w \in Workers, NEW outcome, Finish(w, outcome),
         UNCHANGED <<mode, policy, deliveries, faults>>,
         RowMove(row'), Undisturbed(wk[w], row', faults),
         NoneKeptInline /\ wk[w].http /\ HttpStatus(outcome) = 200 => Safe(row'),
         outcome = "processed" => row.status = "claimed" /\ row'.status = "completed"
  PROVE  IInv'
<1>1. wk[w].http \in BOOLEAN
  BY DEF IInv, TypeOK, WorkerState
<1>2. /\ acked' \in BOOLEAN
      /\ NoneKeptInline /\ acked' => acked \/ Safe(row')
      /\ \/ processed' = processed
         \/ /\ processed' = processed + 1
            /\ row.status = "claimed" /\ row'.status = "completed"
  BY <1>1, AnswerSafe DEF Finish
<1>3. wk' = [wk EXCEPT ![w] = IdleWorker]
  BY DEF Finish, Goto
<1>4. /\ deliveries' \in 0..MaxDeliveries /\ faults' \in 0..MaxFaults /\ faults <= faults'
      /\ faults' = faults
  BY NumberAssumption DEF IInv, TypeOK
<1>5. {IdleWorker.token, IdleWorker.renew.token} \subseteq
        {NoToken, Fresh, wk[w].token, wk[w].renew.token}
  BY IdleFits
<1>6. RowKnown(IdleWorker, row', faults') /\ Undisturbed(wk[w], row', faults')
  BY <1>4, IdleFits
<1> QED BY <1>2, <1>3, <1>4, <1>5, <1>6, IdleFits, WorkerStep

\* A worker that dies, or whose reply is lost, becomes idle by a fault.
LEMMA FaultStep ==
  ASSUME IInv, NEW w \in Workers, Goto(w, IdleWorker), faults' = faults + 1,
         faults < MaxFaults, RowMove(row'),
         UNCHANGED <<mode, policy, deliveries, acked, processed>>
  PROVE  IInv'
<1>1. /\ deliveries' \in 0..MaxDeliveries /\ faults' \in 0..MaxFaults /\ faults <= faults'
      /\ faults' # 0 /\ acked' \in BOOLEAN
  BY NumberAssumption DEF IInv, TypeOK
<1>2. {IdleWorker.token, IdleWorker.renew.token} \subseteq
        {NoToken, Fresh, wk[w].token, wk[w].renew.token}
  BY IdleFits
<1>3. RowKnown(IdleWorker, row', faults') /\ Undisturbed(wk[w], row', faults')
  BY <1>1, IdleFits DEF Undisturbed
<1>4. wk' = [wk EXCEPT ![w] = IdleWorker]
  BY DEF Goto
<1> QED BY <1>1, <1>2, <1>3, <1>4, IdleFits, WorkerStep

\* A worker that goes on without an answer, and without a fault.
LEMMA GoOnStep ==
  ASSUME IInv, NEW w \in Workers, NEW x \in WorkerState, Goto(w, x),
         deliveries' \in 0..MaxDeliveries,
         UNCHANGED <<mode, policy, faults, acked, processed>>,
         RecordOK(x), RowKnown(x, row', faults),
         RowMove(row'), Undisturbed(wk[w], row', faults),
         {x.token, x.renew.token} \subseteq
           {NoToken, Fresh, wk[w].token, wk[w].renew.token}
  PROVE  IInv'
<1>1. /\ faults' \in 0..MaxFaults /\ faults <= faults' /\ faults' = faults
      /\ acked' \in BOOLEAN /\ acked' = acked
  BY NumberAssumption DEF IInv, TypeOK
<1>2. RowKnown(x, row', faults') /\ Undisturbed(wk[w], row', faults')
  BY <1>1
<1>3. wk' = [wk EXCEPT ![w] = x]
  BY DEF Goto
<1>4. UNCHANGED <<mode, policy>> /\ processed' = processed
  OBVIOUS
<1>5. NoneKeptInline /\ acked' => acked \/ Safe(row')
  OBVIOUS
<1> QED BY <1>1, <1>2, <1>3, <1>4, <1>5, WorkerStep

\* The same, when the row and the worker's tokens stay.
LEMMA QuietStep ==
  ASSUME IInv, NEW w \in Workers, NEW x \in WorkerState, Goto(w, x),
         UNCHANGED <<mode, policy, row, deliveries, faults, acked, processed>>,
         RecordOK(x), wk[w].pc # "idle", Working(x) => Working(wk[w]),
         x.token = wk[w].token, x.renew = wk[w].renew, x.http = wk[w].http,
         x.attempts = wk[w].attempts
  PROVE  IInv'
<1>1. RowKnown(wk[w], row, faults)
  BY DEF IInv, AllKnown
<1>2. RowKnown(x, row, faults)
  BY <1>1 DEF RowKnown, Owns, Keeps
<1>3. RowKnown(x, row', faults) /\ RowMove(row') /\ Undisturbed(wk[w], row', faults)
  BY <1>2, RowStays DEF Undisturbed
<1>4. deliveries' \in 0..MaxDeliveries
  BY DEF IInv, TypeOK
<1>5. {x.token, x.renew.token} \subseteq {NoToken, Fresh, wk[w].token, wk[w].renew.token}
  OBVIOUS
<1> QED BY <1>3, <1>4, <1>5, GoOnStep

-----------------------------------------------------------------------------
(* Deliveries.                                                             *)

\* The answer to a claim that was refused says 200 only of a finished row.
LEMMA RefusedOutcome ==
  ASSUME IInv, NEW in, DecideWebhookClaim(row, in, 0) # "acquired",
         NEW outcome, outcome = ClaimOutcome(DecideWebhookClaim(row, in, 0))
  PROVE  /\ outcome \in Outcomes /\ outcome # "processed"
         /\ HttpStatus(outcome) = 200 => Safe(row)
<1> DEFINE kind == DecideWebhookClaim(row, in, 0)
<1>1. /\ kind \in {"already_completed", "duplicate_failed", "in_progress",
                   "payload_hash_conflict", "not_available"}
      /\ kind = "already_completed" => row.status = "completed"
      /\ kind = "duplicate_failed" => row.status = "dead_letter"
  BY DEF DecideWebhookClaim, IInv, RowOK
<1> HIDE DEF kind
<1>2. /\ outcome \in Outcomes \ {"processed", "parked", "handler_retry"}
      /\ outcome = "duplicate_completed" => kind = "already_completed"
      /\ outcome = "handler_failed_final" => kind = "duplicate_failed"
  <2>1. outcome = ClaimOutcome(kind)
    BY DEF kind
  <2> QED BY <1>1, <2>1 DEF ClaimOutcome, Outcomes
<1>3. HttpStatus(outcome) = 200 => Safe(row)
  BY <1>1, <1>2, Http200 DEF Safe
<1> QED BY <1>2, <1>3

LEMMA DeliverStep ==
  ASSUME IInv, NEW w \in Workers, NEW h \in Hashes, NEW snapshot \in BOOLEAN,
         Deliver(w, h, snapshot), UNCHANGED <<mode, policy>>
  PROVE  IInv'
<1> DEFINE in   == [hash |-> h, ref |-> IF snapshot THEN h ELSE NoHash,
                    ifMatch |-> NoHash, leaseMs |-> LeaseMs, token |-> Fresh]
           kind == DecideWebhookClaim(row, in, 0)
           won  == AcquiredRow(row, in, 0)
<1>1. /\ wk[w].pc = "idle" /\ (Durable => snapshot) /\ faults' = faults
      /\ deliveries' \in 0..MaxDeliveries
  BY NumberAssumption DEF Deliver, SnapshotAccepted, IInv, TypeOK
<1>2. CASE kind # "acquired"
  <2>1. Answer(TRUE, ClaimOutcome(kind)) /\ row' = row /\ wk' = wk
    BY <1>2 DEF Deliver
  <2>2. /\ ClaimOutcome(kind) # "processed"
        /\ HttpStatus(ClaimOutcome(kind)) = 200 => Safe(row')
    BY <1>2, <2>1, RefusedOutcome
  <2>3. /\ acked' \in BOOLEAN
        /\ NoneKeptInline /\ acked' => acked \/ Safe(row')
        /\ \/ processed' = processed
           \/ /\ processed' = processed + 1
              /\ row.status = "claimed" /\ row'.status = "completed"
    BY <2>1, <2>2, AnswerSafe
  <2>4. /\ wk[w] \in WorkerState /\ wk' = [wk EXCEPT ![w] = wk[w]]
        /\ RecordOK(wk[w]) /\ RowKnown(wk[w], row', faults')
        /\ faults' \in 0..MaxFaults /\ faults <= faults'
    BY <1>1, <2>1, NumberAssumption DEF IInv, TypeOK, AllRecords, AllKnown
  <2>5. RowMove(row') /\ Undisturbed(wk[w], row', faults')
    BY <2>1, RowStays DEF Undisturbed
  <2>6. {wk[w].token, wk[w].renew.token} \subseteq
          {NoToken, Fresh, wk[w].token, wk[w].renew.token}
    OBVIOUS
  <2> QED BY <1>1, <2>3, <2>4, <2>5, <2>6, WorkerStep
<1>3. CASE kind = "acquired"
  <2> DEFINE x == [IdleWorker EXCEPT
                     !.pc = IF AckAfterClaim THEN "park" ELSE "running",
                     !.http = TRUE, !.hash = h, !.ref = won.ref, !.event = h,
                     !.token = in.token, !.attempts = won.attempts]
  <2>1. Store(won) /\ Goto(w, x) /\ UNCHANGED <<acked, processed>>
    BY <1>3 DEF Deliver
  <2>2. /\ in \in ClaimInput /\ in.token = Fresh /\ in.leaseMs = LeaseMs
        /\ in.hash = h /\ (Durable => in.ref = h)
    BY <1>1, FreshIsFree, NumberAssumption DEF ClaimInput, NoToken
  <2> HIDE DEF in
  <2>3. Durable => (in.ref = in.hash \/ (in.ref = NoHash /\ row.hash = in.hash))
    BY <2>2
  <2>4. /\ RowMove(row') /\ row'.status = "claimed" /\ row'.token = Fresh
        /\ row'.lease = LeaseMs /\ row'.ref = Coalesce(in.ref, row.ref)
        /\ row'.attempts = won.attempts /\ row'.attempts \in Nat
        /\ Undisturbed(wk[w], row', faults)
    BY <1>3, <2>1, <2>2, <2>3, AcquireMove
  <2>5. won.ref = row'.ref
    BY <2>4 DEF AcquiredRow
  <2> HIDE DEF won, kind
  <2>6. /\ x.pc \in {"park", "running"} /\ x.http = TRUE /\ x.hash = h /\ x.event = h
        /\ x.ref = row'.ref /\ x.token = Fresh /\ x.attempts = row'.attempts
        /\ x.error = "none" /\ x.renew = NoRenew
    BY <2>2, <2>4, <2>5 DEF IdleWorker
  <2>7. x \in WorkerState
    <3>1. won.ref \in Hashes \cup {NoHash} /\ won.attempts \in Nat /\ in.token \in Tokens
      BY <2>2, <2>4, <2>5, FreshIsFree DEF RowMove, Row
    <3> QED BY <3>1, IdleFits DEF WorkerState
  <2> HIDE DEF x
  <2>8. Durable => row'.ref = h /\ row'.ref # NoHash
    BY <2>2, <2>4, NoHashAssumption DEF Coalesce
  <2>9. RecordOK(x)
    BY <2>4, <2>6, <2>8, FreshIsFree DEF RecordOK, Working
  <2>10. RowKnown(x, row', faults)
    BY <2>4, <2>6, <2>8, FreshIsFree, NumberAssumption
       DEF RowKnown, Owns, Keeps, NoRenew
  <2>11. {x.token, x.renew.token} \subseteq {NoToken, Fresh, wk[w].token, wk[w].renew.token}
    BY <2>6 DEF NoRenew
  <2> QED BY <1>1, <2>1, <2>4, <2>7, <2>9, <2>10, <2>11, GoOnStep
<1> QED BY <1>2, <1>3

\* parked is told only to a durable engine's provider, whose event is stored.
LEMMA ParkStep ==
  ASSUME IInv, NEW w \in Workers, Park(w), UNCHANGED <<mode, policy>>
  PROVE  IInv'
<1>1. wk[w].pc = "park" /\ UNCHANGED <<deliveries, faults>>
  BY DEF Park
<1>2. CASE FencedFail(w) /\ Store(GivenBackRow(w)) /\ Finish(w, "parked")
  <2>1. row.status = "claimed" /\ Owns(wk[w], row)
    BY <1>2, FencedOwner DEF FencedFail
  <2>2. Store(FailedRow(row, FALSE, TRUE, 0, 0))
    BY <1>1, <1>2 DEF GivenBackRow
  <2>3. RowMove(row') /\ row'.status = "pending" /\ row'.ref = row.ref
    BY <2>1, <2>2, FailMove
  <2>4. wk[w].http /\ HttpStatus("parked") = 200 => Safe(row')
    <3>1. HttpStatus("parked") = 200 => policy = "durable_worker"
      BY Http200 DEF Outcomes
    <3>2. policy = "durable_worker" => Durable
      BY DEF IInv, Deployable
    <3>3. Durable /\ wk[w].http => row.ref # NoHash
      BY DEF IInv, AllKnown, RowKnown
    <3> QED BY <2>3, <3>1, <3>2, <3>3 DEF Safe
  <2>5. Undisturbed(wk[w], row', faults)
    BY <2>1 DEF Undisturbed
  <2> QED BY <1>1, <1>2, <2>3, <2>4, <2>5, FinishStep
<1>3. CASE UNCHANGED row /\ Finish(w, "handler_failed")
  <2>1. HttpStatus("handler_failed") # 200
    BY Http200 DEF Outcomes
  <2>2. RowMove(row') /\ Undisturbed(wk[w], row', faults)
    BY <1>3, RowStays DEF Undisturbed
  <2> QED BY <1>1, <1>3, <2>1, <2>2, FinishStep
<1> QED BY <1>2, <1>3 DEF Park

\* Ending with an answer that is not 200, and nothing written.
LEMMA GiveUpStep ==
  ASSUME IInv, NEW w \in Workers, Finish(w, "handler_failed"),
         UNCHANGED <<mode, policy, row, deliveries, faults>>
  PROVE  IInv'
<1>1. HttpStatus("handler_failed") # 200
  BY Http200 DEF Outcomes
<1>2. RowMove(row') /\ Undisturbed(wk[w], row', faults)
  BY RowStays DEF Undisturbed
<1> QED BY <1>1, <1>2, FinishStep

-----------------------------------------------------------------------------
(* The retry worker.                                                       *)

LEMMA ListStep ==
  ASSUME IInv, NEW w \in Workers, List(w), UNCHANGED <<mode, policy>>
  PROVE  IInv'
<1> DEFINE x == [IdleWorker EXCEPT !.pc = "get", !.hash = row.hash, !.ref = row.ref,
                                   !.event = row.ref]
<1>1. /\ Durable /\ Store(ReleaseExpiredLease(row, 0)) /\ Goto(w, x)
      /\ ReleaseExpiredLease(row, 0).status = "pending"
      /\ UNCHANGED <<mode, policy, deliveries, faults, acked, processed>>
  BY DEF List
<1>2. /\ RowMove(row') /\ row'.status = "pending" /\ Undisturbed(wk[w], row', faults)
      /\ row'.hash = row.hash /\ row'.ref = row.ref
  BY <1>1, ListMove
<1>3. /\ x.pc = "get" /\ x.http = FALSE /\ x.hash = row.hash /\ x.event = row.ref
      /\ x.ref = row.ref /\ x.token = NoToken /\ x.error = "none" /\ x.renew = NoRenew
  BY DEF IdleWorker
<1>4. row.hash \in Hashes /\ row.ref \in {NoHash, row.hash}
  BY <1>1, <1>2 DEF RowMove, RowOK
<1>5. x \in WorkerState
  BY <1>4, IdleFits DEF WorkerState
<1> HIDE DEF x
<1>6. RecordOK(x)
  BY <1>3, <1>4 DEF RecordOK
<1>7. RowKnown(x, row', faults)
  BY <1>2, <1>3 DEF RowKnown, Owns, Keeps, NoRenew, Working
<1>8. {x.token, x.renew.token} \subseteq {NoToken, Fresh, wk[w].token, wk[w].renew.token}
  BY <1>3 DEF NoRenew
<1>9. deliveries' \in 0..MaxDeliveries
  BY <1>1 DEF IInv, TypeOK
<1> QED BY <1>1, <1>2, <1>5, <1>6, <1>7, <1>8, <1>9, GoOnStep

LEMMA GetStep ==
  ASSUME IInv, NEW w \in Workers, Get(w), UNCHANGED <<mode, policy>>
  PROVE  IInv'
<1> DEFINE c == Coalesce(row.ref, wk[w].ref)
           x == [wk[w] EXCEPT !.pc = "claim", !.ref = c]
<1>1. wk[w].pc = "get" /\ UNCHANGED <<row, deliveries, faults>>
  BY DEF Get
<1>2. CASE Finish(w, "handler_failed")
  BY <1>1, <1>2, GiveUpStep
<1>3. CASE /\ row.status # "absent" /\ row.hash = wk[w].hash
           /\ Goto(w, x) /\ UNCHANGED <<acked, processed>>
  <2>1. wk[w] \in WorkerState /\ RecordOK(wk[w]) /\ RowOK(row) /\ row \in Row
    BY DEF IInv, TypeOK, AllRecords
  <2>2. c \in Hashes \cup {NoHash} /\ (Durable => c \in {NoHash, wk[w].hash})
    BY <1>1, <1>3, <2>1 DEF Coalesce, Row, WorkerState, RecordOK, RowOK
  <2> HIDE DEF c
  <2>3. x \in WorkerState
    BY <2>1, <2>2 DEF WorkerState
  <2>4. /\ x.pc = "claim" /\ x.ref = c /\ x.hash = wk[w].hash /\ x.event = wk[w].event
        /\ x.token = wk[w].token /\ x.renew = wk[w].renew /\ x.http = wk[w].http
        /\ x.attempts = wk[w].attempts /\ x.error = wk[w].error
    BY <2>1 DEF WorkerState
  <2> HIDE DEF x
  <2>5. RecordOK(x)
    BY <1>1, <2>1, <2>2, <2>4 DEF RecordOK, Working
  <2>6. wk[w].pc # "idle" /\ ~Working(x)
    BY <1>1, <2>4 DEF Working
  <2> QED BY <1>1, <1>3, <2>3, <2>4, <2>5, <2>6, QuietStep
<1> QED BY <1>2, <1>3 DEF Get

\* A fenced claim that is acquired finds the payload the worker holds.
LEMMA MatchAcquires ==
  ASSUME IInv, NEW w \in Workers, wk[w].pc \in {"claim", "reclaim"},
         DecideWebhookClaim(row, MatchingClaim(w), 0) = "acquired",
         Store(AcquiredRow(row, MatchingClaim(w), 0))
  PROVE  /\ RowMove(row') /\ row'.status = "claimed" /\ row'.token = Fresh
         /\ row'.lease = LeaseMs /\ row'.hash = row.hash
         /\ row'.ref = AcquiredRow(row, MatchingClaim(w), 0).ref
         /\ row'.ref \in Hashes \cup {NoHash}
         /\ Durable => row'.ref \in {NoHash, wk[w].hash}
         /\ row.ref # NoHash => row'.ref # NoHash
         /\ row'.attempts = AcquiredRow(row, MatchingClaim(w), 0).attempts
         /\ row'.attempts \in Nat
         /\ Undisturbed(wk[w], row', faults)
<1> DEFINE in == MatchingClaim(w)
<1>1. /\ wk[w] \in WorkerState /\ RecordOK(wk[w]) /\ row.status # "absent"
      /\ wk[w].hash \in Hashes /\ wk[w].hash # NoHash
      /\ Durable => wk[w].ref \in {NoHash, wk[w].hash}
  BY NoHashAssumption DEF IInv, TypeOK, AllRecords, AllKnown, RecordOK, RowKnown
<1>2. /\ in \in ClaimInput /\ in.token = Fresh /\ in.leaseMs = LeaseMs
      /\ in.hash = wk[w].hash /\ in.ref = wk[w].ref /\ in.ifMatch = wk[w].hash
  BY <1>1, FreshIsFree, NumberAssumption DEF MatchingClaim, ClaimInput, WorkerState, NoToken
<1> HIDE DEF in
<1>3. DecideWebhookClaim(row, in, 0) = "acquired" /\ Store(AcquiredRow(row, in, 0))
  BY DEF in
<1>4. row.hash = wk[w].hash
  BY <1>1, <1>2, <1>3, AcquireWhen
<1>5. Durable => (in.ref = in.hash \/ (in.ref = NoHash /\ row.hash = in.hash))
  BY <1>1, <1>2, <1>4
<1>6. /\ RowMove(row') /\ row'.status = "claimed" /\ row'.token = Fresh
      /\ row'.lease = LeaseMs /\ row'.hash = in.hash
      /\ row'.attempts = AcquiredRow(row, in, 0).attempts /\ row'.attempts \in Nat
      /\ row'.ref = Coalesce(in.ref, row.ref)
      /\ Undisturbed(wk[w], row', faults)
  BY <1>2, <1>3, <1>5, AcquireMove
<1>7. /\ row'.ref \in Hashes \cup {NoHash} /\ (Durable => row'.ref \in {NoHash, wk[w].hash})
      /\ row.ref # NoHash => row'.ref # NoHash
  BY <1>2, <1>6 DEF RowMove, RowOK, Row
<1>8. row'.ref = AcquiredRow(row, in, 0).ref
  BY <1>6 DEF AcquiredRow
<1> QED BY <1>2, <1>4, <1>6, <1>7, <1>8 DEF in

\* A claim of the listed row: the handler runs on a stored payload only.
LEMMA ClaimListedStep ==
  ASSUME IInv, NEW w \in Workers, ClaimListed(w), UNCHANGED <<mode, policy>>
  PROVE  IInv'
<1> DEFINE in   == MatchingClaim(w)
           kind == DecideWebhookClaim(row, in, 0)
           won  == AcquiredRow(row, in, 0)
<1>1. wk[w].pc = "claim" /\ UNCHANGED <<deliveries, faults>>
  BY DEF ClaimListed
<1>2. CASE kind # "acquired" /\ UNCHANGED row /\ Finish(w, ClaimOutcome(kind))
  <2>1. /\ ClaimOutcome(kind) # "processed"
        /\ HttpStatus(ClaimOutcome(kind)) = 200 => Safe(row')
    BY <1>2, RefusedOutcome
  <2>2. RowMove(row') /\ Undisturbed(wk[w], row', faults)
    BY <1>2, RowStays DEF Undisturbed
  <2> QED BY <1>1, <1>2, <2>1, <2>2, FinishStep
<1>3. CASE kind = "acquired"
  <2> DEFINE x == [wk[w] EXCEPT !.pc = Redrive(wk[w].event), !.ref = won.ref,
                                !.token = in.token, !.attempts = won.attempts]
  <2>1. Store(won) /\ Goto(w, x) /\ UNCHANGED <<acked, processed>>
    BY <1>3 DEF ClaimListed
  <2>2. /\ RowMove(row') /\ row'.status = "claimed" /\ row'.token = Fresh
        /\ row'.lease = LeaseMs /\ row'.ref = won.ref
        /\ row'.ref \in Hashes \cup {NoHash}
        /\ Durable => row'.ref \in {NoHash, wk[w].hash}
        /\ row.ref # NoHash => row'.ref # NoHash
        /\ row'.attempts = won.attempts /\ row'.attempts \in Nat
        /\ Undisturbed(wk[w], row', faults)
    BY <1>1, <1>3, <2>1, MatchAcquires
  <2>3. in.token = Fresh
    BY DEF MatchingClaim
  <2> HIDE DEF in, won, kind
  <2>4. /\ wk[w] \in WorkerState /\ RecordOK(wk[w]) /\ RowKnown(wk[w], row, faults)
        /\ wk[w].renew = NoRenew
    BY <1>1 DEF IInv, TypeOK, AllRecords, AllKnown, RecordOK, Working
  <2>5. x \in WorkerState
    BY <2>2, <2>3, <2>4, FreshIsFree DEF WorkerState, Redrive
  <2>6. /\ x.pc = Redrive(wk[w].event) /\ x.ref = row'.ref /\ x.hash = wk[w].hash
        /\ x.event = wk[w].event /\ x.token = Fresh /\ x.renew = NoRenew
        /\ x.http = wk[w].http /\ x.attempts = row'.attempts /\ x.error = wk[w].error
    BY <2>2, <2>3, <2>4 DEF WorkerState
  <2> HIDE DEF x
  <2>7. RecordOK(x)
    BY <1>1, <2>2, <2>4, <2>6, FreshIsFree DEF RecordOK, Working, Redrive
  <2>8. RowKnown(x, row', faults)
    BY <2>2, <2>4, <2>6, FreshIsFree, NumberAssumption
       DEF RowKnown, Owns, Keeps, NoRenew
  <2>9. {x.token, x.renew.token} \subseteq {NoToken, Fresh, wk[w].token, wk[w].renew.token}
    BY <2>6 DEF NoRenew
  <2>10. deliveries' \in 0..MaxDeliveries
    BY <1>1 DEF IInv, TypeOK
  <2> QED BY <1>1, <2>1, <2>2, <2>5, <2>7, <2>8, <2>9, <2>10, GoOnStep
<1> QED BY <1>2, <1>3 DEF ClaimListed

LEMMA RefuseStep ==
  ASSUME IInv, NEW w \in Workers, Refuse(w), UNCHANGED <<mode, policy>>
  PROVE  IInv'
<1>1. /\ wk[w].pc = "refuse" /\ UNCHANGED <<deliveries, faults>>
      /\ Finish(w, "handler_failed")
  BY DEF Refuse
<1>2. CASE FencedFail(w) /\ Store(GivenBackRow(w))
  <2>1. row.status = "claimed" /\ Owns(wk[w], row)
    BY <1>2, FencedOwner DEF FencedFail
  <2>2. Store(FailedRow(row, FALSE, TRUE, RetryAfterMs, 0)) /\ RetryAfterMs \in Nat
    BY <1>1, <1>2, NumberAssumption DEF GivenBackRow
  <2>3. RowMove(row')
    BY <2>1, <2>2, FailMove
  <2>4. Undisturbed(wk[w], row', faults)
    BY <2>1 DEF Undisturbed
  <2>5. HttpStatus("handler_failed") # 200
    BY Http200 DEF Outcomes
  <2> QED BY <1>1, <2>3, <2>4, <2>5, FinishStep
<1>3. CASE UNCHANGED row
  BY <1>1, <1>3, GiveUpStep
<1> QED BY <1>2, <1>3 DEF Refuse

-----------------------------------------------------------------------------
(* The handler and its heartbeat.                                          *)

LEMMA SettleStep ==
  ASSUME IInv, NEW w \in Workers, HandlerSettles(w), UNCHANGED <<mode, policy>>
  PROVE  IInv'
<1>1. wk[w] \in WorkerState /\ RecordOK(wk[w])
  BY DEF IInv, TypeOK, AllRecords
<1>2. CASE HandlerReturns(w)
  <2> DEFINE x == [wk[w] EXCEPT !.pc = "returned"]
  <2>1. /\ wk[w].pc = "running" /\ Goto(w, x)
        /\ UNCHANGED <<row, deliveries, faults, acked, processed>>
    BY <1>2 DEF HandlerReturns
  <2>2. /\ x \in WorkerState /\ x.pc = "returned" /\ x.ref = wk[w].ref
        /\ x.hash = wk[w].hash /\ x.event = wk[w].event /\ x.token = wk[w].token
        /\ x.renew = wk[w].renew /\ x.http = wk[w].http
        /\ x.attempts = wk[w].attempts /\ x.error = wk[w].error
    BY <1>1 DEF WorkerState
  <2> HIDE DEF x
  <2>3. RecordOK(x) /\ wk[w].pc # "idle" /\ Working(wk[w])
    BY <1>1, <2>1, <2>2 DEF RecordOK, Working
  <2> QED BY <2>1, <2>2, <2>3, QuietStep
<1>3. ASSUME NEW e \in HandlerErrors, HandlerThrows(w, e) PROVE IInv'
  <2> DEFINE x == [wk[w] EXCEPT !.pc = "threw", !.error = e]
  <2>1. /\ wk[w].pc = "running" /\ Goto(w, x)
        /\ UNCHANGED <<row, deliveries, faults, acked, processed>>
    BY <1>3 DEF HandlerThrows
  <2>2. e \in ErrorKinds
    BY ErrorAssumption DEF HandlerErrors
  <2>3. /\ x \in WorkerState /\ x.pc = "threw" /\ x.ref = wk[w].ref
        /\ x.hash = wk[w].hash /\ x.event = wk[w].event /\ x.token = wk[w].token
        /\ x.renew = wk[w].renew /\ x.http = wk[w].http
        /\ x.attempts = wk[w].attempts /\ x.error = e
    BY <1>1, <2>2 DEF WorkerState
  <2> HIDE DEF x
  <2>4. RecordOK(x) /\ wk[w].pc # "idle" /\ Working(wk[w])
    BY <1>1, <2>1, <2>3 DEF RecordOK, Working
  <2> QED BY <2>1, <2>3, <2>4, QuietStep
<1> QED BY <1>2, <1>3 DEF HandlerSettles

\* A renewal gives the row to the token in flight; a refused one changes nothing.
LEMMA RenewStep ==
  ASSUME IInv, NEW w \in Workers, NEW by \in {"heartbeat", "ctx"}, Renew(w, by),
         UNCHANGED <<mode, policy>>
  PROVE  IInv'
<1> DEFINE ok == DecideLeaseMutation(row, "claimed", wk[w].token, TRUE, 0) = "ok"
           t  == IF ok THEN Fresh ELSE NoToken
           r  == [by |-> by, token |-> t]
           x  == [wk[w] EXCEPT !.renew = r]
<1>1. /\ wk[w].pc = "running" /\ wk[w].renew = NoRenew /\ Goto(w, x)
      /\ IF ok THEN Store(RenewedRow(row, Fresh, LeaseMs, 0)) ELSE UNCHANGED row
      /\ UNCHANGED <<deliveries, faults, acked, processed>>
  BY DEF Renew
<1>2. wk[w] \in WorkerState /\ RecordOK(wk[w]) /\ RowKnown(wk[w], row, faults)
  BY DEF IInv, TypeOK, AllRecords, AllKnown
<1>3. t \in {Fresh, NoToken} /\ t \in Tokens \cup {NoToken} /\ r # NoRenew
  BY FreshIsFree DEF NoRenew
<1> HIDE DEF t
<1>4. /\ x \in WorkerState /\ x.pc = "running" /\ x.ref = wk[w].ref
      /\ x.hash = wk[w].hash /\ x.event = wk[w].event /\ x.token = wk[w].token
      /\ x.renew = r /\ r.token = t /\ x.http = wk[w].http
      /\ x.attempts = wk[w].attempts /\ x.error = wk[w].error
  BY <1>1, <1>2, <1>3 DEF WorkerState
<1> HIDE DEF x, r
<1>5. RecordOK(x)
  BY <1>1, <1>2, <1>3, <1>4 DEF RecordOK, Working
<1>6. {x.token, x.renew.token} \subseteq {NoToken, Fresh, wk[w].token, wk[w].renew.token}
  BY <1>3, <1>4
<1>7. deliveries' \in 0..MaxDeliveries
  BY <1>1 DEF IInv, TypeOK
<1>8. CASE ok
  <2>1. row.status = "claimed" /\ Owns(wk[w], row) /\ row.attempts <= wk[w].attempts
    BY <1>8, FencedOwner
  <2>2. /\ RowMove(row') /\ row'.status = "claimed" /\ row'.token = Fresh
        /\ row'.lease = LeaseMs /\ row'.attempts = row.attempts
        /\ row'.ref = row.ref
    BY <1>1, <1>8, <2>1, RenewMove
  <2>3. Undisturbed(wk[w], row', faults)
    BY <2>1 DEF Undisturbed
  <2>4. t = Fresh
    BY <1>8 DEF t
  <2> HIDE DEF ok
  <2>5. RowKnown(x, row', faults)
    BY <1>2, <1>4, <2>1, <2>2, <2>4, FreshIsFree, NumberAssumption
       DEF RowKnown, Owns, Keeps
  <2> QED BY <1>1, <1>4, <1>5, <1>6, <1>7, <2>2, <2>3, <2>5, GoOnStep
<1>9. CASE ~ok
  <2>1. t = NoToken /\ row' = row
    BY <1>1, <1>9 DEF t
  <2> HIDE DEF ok
  <2>2. RowKnown(x, row', faults)
    BY <1>1, <1>2, <1>4, <2>1 DEF RowKnown, Owns, Keeps, Working, NoRenew
  <2>3. RowMove(row') /\ Undisturbed(wk[w], row', faults)
    BY <2>1, RowStays DEF Undisturbed
  <2> QED BY <1>1, <1>4, <1>5, <1>6, <1>7, <2>2, <2>3, GoOnStep
<1> QED BY <1>8, <1>9

\* The answer rotates the worker's token; until then the row is under the new one.
LEMMA RenewAnsweredStep ==
  ASSUME IInv, NEW w \in Workers, RenewAnswered(w), UNCHANGED <<mode, policy>>
  PROVE  IInv'
<1> DEFINE p == wk[w].renew.token
<1>1. /\ wk[w].renew # NoRenew
      /\ UNCHANGED <<row, deliveries, faults, acked, processed>>
  BY DEF RenewAnswered
<1>2. /\ wk[w] \in WorkerState /\ RecordOK(wk[w]) /\ RowKnown(wk[w], row, faults)
      /\ Working(wk[w]) /\ wk[w].renew.token \in Tokens \cup {NoToken}
  BY <1>1 DEF IInv, TypeOK, AllRecords, AllKnown, RecordOK, WorkerState
<1>3. RowMove(row') /\ Undisturbed(wk[w], row', faults) /\ row' = row
  BY <1>1, RowStays DEF Undisturbed
<1>4. deliveries' \in 0..MaxDeliveries
  BY <1>1 DEF IInv, TypeOK
<1>5. CASE p # NoToken
  <2> DEFINE x == [wk[w] EXCEPT !.token = p, !.renew = NoRenew]
  <2>1. Goto(w, x)
    BY <1>5 DEF RenewAnswered
  <2>2. /\ x \in WorkerState /\ x.pc = wk[w].pc /\ x.ref = wk[w].ref
        /\ x.hash = wk[w].hash /\ x.event = wk[w].event /\ x.token = p
        /\ x.renew = NoRenew /\ x.http = wk[w].http
        /\ x.attempts = wk[w].attempts /\ x.error = wk[w].error
    BY <1>2 DEF WorkerState, NoRenew
  <2> HIDE DEF x
  <2>3. RecordOK(x)
    BY <1>2, <1>5, <2>2 DEF RecordOK, Working
  <2>4. RowKnown(x, row', faults)
    BY <1>2, <1>3, <1>5, <2>2 DEF RowKnown, Owns, Keeps, Working, NoRenew
  <2>5. {x.token, x.renew.token} \subseteq {NoToken, Fresh, wk[w].token, wk[w].renew.token}
    BY <2>2 DEF NoRenew
  <2> QED BY <1>1, <1>3, <1>4, <2>1, <2>2, <2>3, <2>4, <2>5, GoOnStep
<1>6. CASE p = NoToken
  <2>1. PICK lost \in BOOLEAN :
          Goto(w, [wk[w] EXCEPT !.lost = TRUE, !.heartbeatLost = lost, !.renew = NoRenew])
    <3>1. PICK flagged \in BOOLEAN :
            Goto(w, [wk[w] EXCEPT !.lost = TRUE, !.heartbeatLost = @ \/ flagged,
                                  !.renew = NoRenew])
      BY <1>6 DEF RenewAnswered
    <3>2. (wk[w].heartbeatLost \/ flagged) \in BOOLEAN
      OBVIOUS
    <3>3. [wk[w] EXCEPT !.lost = TRUE].heartbeatLost = wk[w].heartbeatLost
      BY <1>2 DEF WorkerState
    <3> QED BY <3>1, <3>2, <3>3
  <2> DEFINE x == [wk[w] EXCEPT !.lost = TRUE, !.heartbeatLost = lost, !.renew = NoRenew]
  <2>2. /\ x \in WorkerState /\ x.pc = wk[w].pc /\ x.ref = wk[w].ref
        /\ x.hash = wk[w].hash /\ x.event = wk[w].event /\ x.token = wk[w].token
        /\ x.renew = NoRenew /\ x.http = wk[w].http
        /\ x.attempts = wk[w].attempts /\ x.error = wk[w].error
    BY <1>2 DEF WorkerState, NoRenew
  <2> HIDE DEF x
  <2>3. RecordOK(x)
    BY <1>2, <2>2 DEF RecordOK, Working
  <2>4. RowKnown(x, row', faults)
    BY <1>2, <1>3, <1>6, <2>2 DEF RowKnown, Owns, Keeps, Working, NoRenew
  <2>5. {x.token, x.renew.token} \subseteq {NoToken, Fresh, wk[w].token, wk[w].renew.token}
    BY <2>2 DEF NoRenew
  <2>6. Goto(w, x)
    BY <2>1 DEF x
  <2> QED BY <1>1, <1>3, <1>4, <2>2, <2>3, <2>4, <2>5, <2>6, GoOnStep
<1> QED BY <1>5, <1>6

LEMMA HeartbeatStopsStep ==
  ASSUME IInv, NEW w \in Workers, HeartbeatStops(w), UNCHANGED <<mode, policy>>
  PROVE  IInv'
<1> DEFINE x == [wk[w] EXCEPT !.heartbeatLost = TRUE]
<1>1. /\ wk[w].pc = "running" /\ Goto(w, x)
      /\ UNCHANGED <<row, deliveries, faults, acked, processed>>
  BY DEF HeartbeatStops
<1>2. wk[w] \in WorkerState /\ RecordOK(wk[w])
  BY DEF IInv, TypeOK, AllRecords
<1>3. /\ x \in WorkerState /\ x.pc = wk[w].pc /\ x.ref = wk[w].ref
      /\ x.hash = wk[w].hash /\ x.event = wk[w].event /\ x.token = wk[w].token
      /\ x.renew = wk[w].renew /\ x.http = wk[w].http
      /\ x.attempts = wk[w].attempts /\ x.error = wk[w].error
  BY <1>2 DEF WorkerState
<1> HIDE DEF x
<1>4. RecordOK(x) /\ wk[w].pc # "idle" /\ Working(wk[w])
  BY <1>1, <1>2, <1>3 DEF RecordOK, Working
<1> QED BY <1>1, <1>3, <1>4, QuietStep

\* After a lost renewal the row may be under a token no worker has.
LEMMA HeartbeatFaultStep ==
  ASSUME IInv, NEW w \in Workers, HeartbeatFault(w), UNCHANGED <<mode, policy>>
  PROVE  IInv'
<1> DEFINE x == [wk[w] EXCEPT !.lost = TRUE, !.heartbeatLost = TRUE]
<1>1. /\ wk[w].pc = "running" /\ wk[w].renew = NoRenew /\ Goto(w, x)
      /\ faults < MaxFaults /\ faults' = faults + 1
      /\ UNCHANGED <<deliveries, acked, processed>>
      /\ \/ UNCHANGED row
         \/ /\ DecideLeaseMutation(row, "claimed", wk[w].token, TRUE, 0) = "ok"
            /\ Store(RenewedRow(row, Fresh, LeaseMs, 0))
  BY DEF HeartbeatFault
<1>2. wk[w] \in WorkerState /\ RecordOK(wk[w]) /\ RowKnown(wk[w], row, faults)
  BY DEF IInv, TypeOK, AllRecords, AllKnown
<1>3. /\ x \in WorkerState /\ x.pc = wk[w].pc /\ x.ref = wk[w].ref
      /\ x.hash = wk[w].hash /\ x.event = wk[w].event /\ x.token = wk[w].token
      /\ x.renew = wk[w].renew /\ x.http = wk[w].http
      /\ x.attempts = wk[w].attempts /\ x.error = wk[w].error
  BY <1>2 DEF WorkerState
<1> HIDE DEF x
<1>4. RecordOK(x)
  BY <1>2, <1>3 DEF RecordOK, Working
<1>5. /\ faults' \in 0..MaxFaults /\ faults <= faults' /\ faults' # 0
      /\ acked' \in BOOLEAN /\ deliveries' \in 0..MaxDeliveries
  BY <1>1, NumberAssumption DEF IInv, TypeOK
<1>6. /\ RowMove(row')
      /\ \/ row' = row
         \/ /\ row'.status = "claimed" /\ row'.token = Fresh /\ row'.ref = row.ref
  <2>1. CASE UNCHANGED row
    BY <2>1, RowStays
  <2>2. CASE /\ DecideLeaseMutation(row, "claimed", wk[w].token, TRUE, 0) = "ok"
             /\ Store(RenewedRow(row, Fresh, LeaseMs, 0))
    <3>1. row.status = "claimed"
      BY <2>2, FencedOwner
    <3> QED BY <2>2, <3>1, RenewMove
  <2> QED BY <1>1, <2>1, <2>2
<1>7. RowKnown(x, row', faults')
  BY <1>1, <1>2, <1>3, <1>5, <1>6, FreshIsFree DEF RowKnown, Owns, Keeps, NoRenew
<1>8. Undisturbed(wk[w], row', faults')
  BY <1>5 DEF Undisturbed
<1>9. {x.token, x.renew.token} \subseteq {NoToken, Fresh, wk[w].token, wk[w].renew.token}
  BY <1>3
<1>10. NoneKeptInline /\ acked' => acked \/ Safe(row')
  BY <1>1
<1>11. wk' = [wk EXCEPT ![w] = x]
  BY <1>1 DEF Goto
<1>12. processed' = processed
  BY <1>1
<1> QED BY <1>3, <1>4, <1>5, <1>6, <1>7, <1>8, <1>9, <1>10, <1>11, <1>12, WorkerStep

\* complete under a live lease is the one step that reports "processed".
LEMMA CompleteStep ==
  ASSUME IInv, NEW w \in Workers, CompleteHandled(w), UNCHANGED <<mode, policy>>
  PROVE  IInv'
<1>1. UNCHANGED <<deliveries, faults>>
  BY DEF CompleteHandled
<1>2. CASE CanComplete(w) /\ Store(CompletedRow(row)) /\ Finish(w, "processed")
  <2>1. row.status = "claimed" /\ Owns(wk[w], row)
    BY <1>2, FencedOwner DEF CanComplete
  <2>2. RowMove(row') /\ row'.status = "completed"
    BY <1>2, <2>1, CompleteMove
  <2>3. Undisturbed(wk[w], row', faults) /\ Safe(row')
    BY <2>1, <2>2 DEF Undisturbed, Safe
  <2> QED BY <1>1, <1>2, <2>1, <2>2, <2>3, FinishStep
<1>3. CASE UNCHANGED row /\ Finish(w, "handler_failed")
  BY <1>1, <1>3, GiveUpStep
<1> QED BY <1>2, <1>3 DEF CompleteHandled

-----------------------------------------------------------------------------
(* Failures.                                                               *)

\* A recorded failure leaves the row for another run only within the budget: the
\* worker has counted at least as many attempts as the row it owns.
LEMMA FailureMove ==
  ASSUME IInv, NEW w \in Workers, FencedFail(w), Store(FailureRow(w))
  PROVE  /\ RowMove(row') /\ row'.ref = row.ref
         /\ row'.status = IF FailsForGood(w) THEN "dead_letter" ELSE "pending"
         /\ \A f : Undisturbed(wk[w], row', f)
<1> DEFINE dead  == FailsForGood(w)
           delay == IF dead THEN 0 ELSE Backoff
<1>1. /\ row.status = "claimed" /\ Owns(wk[w], row) /\ row.attempts <= wk[w].attempts
  BY FencedOwner DEF FencedFail
<1>2. Store(FailedRow(row, dead, FALSE, delay, 0))
  BY DEF FailureRow
<1>3. delay \in Nat
  BY NumberAssumption DEF Backoff
<1>4. dead \/ (Durable => row.attempts < MaxAttempts)
  <2>1. ~dead /\ Durable => ~(wk[w].attempts >= MaxAttempts)
    BY DEF FailsForGood, ShouldDeadLetter
  <2>2. row.attempts \in Nat /\ wk[w].attempts \in Nat
    BY DEF IInv, TypeOK, Row, WorkerState
  <2> QED BY <1>1, <2>1, <2>2, NumberAssumption
<1>5. dead \in BOOLEAN
  BY DEF FailsForGood
<1> HIDE DEF dead, delay
<1>6. /\ RowMove(row') /\ row'.ref = row.ref
      /\ row'.status = IF dead THEN "dead_letter" ELSE "pending"
  BY <1>1, <1>2, <1>3, <1>4, <1>5, FailMove
<1>7. \A f : Undisturbed(wk[w], row', f)
  BY <1>1 DEF Undisturbed
<1> QED BY <1>6, <1>7 DEF dead

\* What an answer of 200 to a failure rests on.
LEMMA FailureSafe ==
  ASSUME IInv, NEW w \in Workers, wk[w].http, row'.ref = row.ref,
         row'.status = IF FailsForGood(w) THEN "dead_letter" ELSE "pending",
         FailsForGood(w) \/ Durable
  PROVE  Safe(row')
<1>1. Durable => row.ref # NoHash
  BY DEF IInv, AllKnown, RowKnown
<1> QED BY <1>1 DEF Safe

LEMMA FailHandledStep ==
  ASSUME IInv, NEW w \in Workers, FailHandled(w), UNCHANGED <<mode, policy>>
  PROVE  IInv'
<1>1. /\ wk[w].pc = "threw" /\ wk[w].renew = NoRenew /\ UNCHANGED <<deliveries, faults>>
  BY DEF FailHandled
<1>2. CASE UNCHANGED row /\ Finish(w, "handler_failed")
  BY <1>1, <1>2, GiveUpStep
<1>3. CASE /\ FencedFail(w) /\ Store(FailureRow(w))
           /\ Finish(w, IF FailsForGood(w) \/ NonRetryable(wk[w].error)
                        THEN "handler_failed_final"
                        ELSE IF Durable THEN "handler_retry" ELSE "handler_failed")
  <2> DEFINE o == IF FailsForGood(w) \/ NonRetryable(wk[w].error)
                  THEN "handler_failed_final"
                  ELSE IF Durable THEN "handler_retry" ELSE "handler_failed"
  <2>1. /\ RowMove(row') /\ row'.ref = row.ref
        /\ row'.status = IF FailsForGood(w) THEN "dead_letter" ELSE "pending"
        /\ Undisturbed(wk[w], row', faults)
    BY <1>3, FailureMove
  <2>2. NoneKeptInline /\ ~Durable /\ NonRetryable(wk[w].error) => FailsForGood(w)
    <3>1. wk[w].error \in HandlerErrors \cup {"none"}
      BY DEF IInv, AllRecords, RecordOK
    <3> QED BY <3>1 DEF HandlerErrors, NoneKeptInline, NonRetryable, FailsForGood,
                        ShouldDeadLetter
  <2>3. HttpStatus(o) = 200 => FailsForGood(w) \/ NonRetryable(wk[w].error) \/ Durable
    BY Http200 DEF Outcomes
  <2>4. NoneKeptInline /\ wk[w].http /\ HttpStatus(o) = 200 => Safe(row')
    BY <2>1, <2>2, <2>3, FailureSafe
  <2>5. o # "processed" /\ Finish(w, o)
    BY <1>3
  <2> HIDE DEF o
  <2> QED BY <1>1, <2>1, <2>4, <2>5, FinishStep
<1>4. CASE /\ Goto(w, [wk[w] EXCEPT !.pc = "reclaim"])
           /\ UNCHANGED <<row, acked, processed>>
  <2> DEFINE x == [wk[w] EXCEPT !.pc = "reclaim"]
  <2>1. wk[w] \in WorkerState /\ RecordOK(wk[w])
    BY DEF IInv, TypeOK, AllRecords
  <2>2. /\ x \in WorkerState /\ x.pc = "reclaim" /\ x.ref = wk[w].ref
        /\ x.hash = wk[w].hash /\ x.event = wk[w].event /\ x.token = wk[w].token
        /\ x.renew = wk[w].renew /\ x.http = wk[w].http
        /\ x.attempts = wk[w].attempts /\ x.error = wk[w].error
    BY <2>1 DEF WorkerState
  <2>3. Goto(w, x)
    BY <1>4
  <2> HIDE DEF x
  <2>4. RecordOK(x) /\ wk[w].pc # "idle" /\ ~Working(x)
    BY <1>1, <2>1, <2>2 DEF RecordOK, Working
  <2> QED BY <1>1, <1>4, <2>2, <2>3, <2>4, QuietStep
<1> QED BY <1>2, <1>3, <1>4 DEF FailHandled

\* A worker that lost its lease takes the row back under the payload it ran.
LEMMA ReclaimStep ==
  ASSUME IInv, NEW w \in Workers, Reclaim(w), UNCHANGED <<mode, policy>>
  PROVE  IInv'
<1> DEFINE in   == MatchingClaim(w)
           kind == DecideWebhookClaim(row, in, 0)
           won  == AcquiredRow(row, in, 0)
           o    == IF kind \in {"already_completed", "duplicate_failed"}
                   THEN "handler_failed_final" ELSE "handler_failed"
<1>1. wk[w].pc = "reclaim" /\ UNCHANGED <<deliveries, faults>>
  BY DEF Reclaim
<1>2. CASE kind # "acquired" /\ UNCHANGED row /\ Finish(w, o)
  <2>1. kind \in {"already_completed", "duplicate_failed"} => Safe(row)
    BY DEF DecideWebhookClaim, Safe, IInv, RowOK
  <2>2. HttpStatus("handler_failed") # 200
    BY Http200 DEF Outcomes
  <2>3. HttpStatus(o) = 200 => Safe(row')
    BY <1>2, <2>1, <2>2
  <2>4. RowMove(row') /\ Undisturbed(wk[w], row', faults) /\ o # "processed"
    BY <1>2, RowStays DEF Undisturbed
  <2> HIDE DEF o, kind
  <2> QED BY <1>1, <1>2, <2>3, <2>4, FinishStep
<1>3. CASE kind = "acquired"
  <2> DEFINE a == IF won.attempts > wk[w].attempts THEN won.attempts ELSE wk[w].attempts
             x == [wk[w] EXCEPT !.pc = "refail", !.token = in.token, !.attempts = a]
  <2>1. wk[w] \in WorkerState /\ RecordOK(wk[w]) /\ RowKnown(wk[w], row, faults)
        /\ wk[w].renew = NoRenew
    BY <1>1 DEF IInv, TypeOK, AllRecords, AllKnown, RecordOK, Working
  <2>2. Store(won) /\ Goto(w, x) /\ UNCHANGED <<acked, processed>>
    <3>1. /\ Store(won) /\ UNCHANGED <<acked, processed>>
          /\ Goto(w, [wk[w] EXCEPT !.pc = "refail", !.token = in.token,
                                   !.attempts = IF won.attempts > @ THEN won.attempts ELSE @])
      BY <1>3 DEF Reclaim
    <3>2. [wk[w] EXCEPT !.pc = "refail", !.token = in.token].attempts = wk[w].attempts
      BY <2>1 DEF WorkerState
    <3> QED BY <3>1, <3>2
  <2>3. /\ RowMove(row') /\ row'.status = "claimed" /\ row'.token = Fresh
        /\ row.ref # NoHash => row'.ref # NoHash
        /\ row'.attempts = won.attempts /\ row'.attempts \in Nat
        /\ Undisturbed(wk[w], row', faults)
    BY <1>1, <1>3, <2>2, MatchAcquires
  <2>4. in.token = Fresh
    BY DEF MatchingClaim
  <2>5. a \in Nat /\ row'.attempts <= a
    BY <2>1, <2>3 DEF WorkerState
  <2> HIDE DEF in, won, kind, a
  <2>6. /\ x \in WorkerState /\ x.pc = "refail" /\ x.ref = wk[w].ref
        /\ x.hash = wk[w].hash /\ x.event = wk[w].event /\ x.token = Fresh
        /\ x.renew = NoRenew /\ x.http = wk[w].http
        /\ x.attempts = a /\ x.error = wk[w].error
    BY <2>1, <2>4, <2>5, FreshIsFree DEF WorkerState
  <2> HIDE DEF x
  <2>7. RecordOK(x)
    BY <1>1, <2>1, <2>6, FreshIsFree DEF RecordOK, Working
  <2>8. RowKnown(x, row', faults)
    BY <2>1, <2>3, <2>5, <2>6, FreshIsFree DEF RowKnown, Owns, Keeps, NoRenew, Working
  <2>9. {x.token, x.renew.token} \subseteq {NoToken, Fresh, wk[w].token, wk[w].renew.token}
    BY <2>6 DEF NoRenew
  <2>10. deliveries' \in 0..MaxDeliveries
    BY <1>1 DEF IInv, TypeOK
  <2> QED BY <1>1, <2>2, <2>3, <2>6, <2>7, <2>8, <2>9, <2>10, GoOnStep
<1> QED BY <1>2, <1>3 DEF Reclaim

LEMMA RefailStep ==
  ASSUME IInv, NEW w \in Workers, Refail(w), UNCHANGED <<mode, policy>>
  PROVE  IInv'
<1>1. wk[w].pc = "refail" /\ UNCHANGED <<deliveries, faults>>
  BY DEF Refail
<1>2. CASE UNCHANGED row /\ Finish(w, "handler_failed")
  BY <1>1, <1>2, GiveUpStep
<1>3. CASE /\ FencedFail(w) /\ Store(FailureRow(w))
           /\ Finish(w, IF FailsForGood(w) THEN "handler_failed_final"
                        ELSE IF Durable THEN "handler_retry" ELSE "handler_failed")
  <2> DEFINE o == IF FailsForGood(w) THEN "handler_failed_final"
                  ELSE IF Durable THEN "handler_retry" ELSE "handler_failed"
  <2>1. /\ RowMove(row') /\ row'.ref = row.ref
        /\ row'.status = IF FailsForGood(w) THEN "dead_letter" ELSE "pending"
        /\ Undisturbed(wk[w], row', faults)
    BY <1>3, FailureMove
  <2>2. HttpStatus(o) = 200 => FailsForGood(w) \/ Durable
    BY Http200 DEF Outcomes
  <2>3. wk[w].http /\ HttpStatus(o) = 200 => Safe(row')
    BY <2>1, <2>2, FailureSafe
  <2>4. o # "processed" /\ Finish(w, o)
    BY <1>3
  <2> HIDE DEF o
  <2> QED BY <1>1, <2>1, <2>3, <2>4, FinishStep
<1> QED BY <1>2, <1>3 DEF Refail

-----------------------------------------------------------------------------
(* Faults, time, and the invariant.                                        *)

LEMMA CrashStep ==
  ASSUME IInv, NEW w \in Workers, Crash(w), UNCHANGED <<mode, policy>>
  PROVE  IInv'
<1>1. RowMove(row')
  BY RowStays DEF Crash
<1> QED BY <1>1, FaultStep DEF Crash

LEMMA ReplyLostStep ==
  ASSUME IInv, NEW w \in Workers, ReplyLost(w), UNCHANGED <<mode, policy>>
  PROVE  IInv'
<1>1. CASE CanComplete(w) /\ Store(CompletedRow(row))
  <2>1. row.status = "claimed"
    BY <1>1, FencedOwner DEF CanComplete
  <2>2. RowMove(row')
    BY <1>1, <2>1, CompleteMove
  <2> QED BY <2>2, FaultStep DEF ReplyLost
<1>2. CASE FencedFail(w) /\ Store(GivenBackRow(w))
  <2> DEFINE d == IF wk[w].pc = "park" THEN 0 ELSE RetryAfterMs
  <2>1. row.status = "claimed"
    BY <1>2, FencedOwner DEF FencedFail
  <2>2. Store(FailedRow(row, FALSE, TRUE, d, 0)) /\ d \in Nat
    BY <1>2, NumberAssumption DEF GivenBackRow
  <2> HIDE DEF d
  <2>3. RowMove(row')
    BY <2>1, <2>2, FailMove
  <2> QED BY <2>3, FaultStep DEF ReplyLost
<1>3. CASE FencedFail(w) /\ Store(FailureRow(w))
  <2>1. RowMove(row')
    BY <1>3, FailureMove
  <2> QED BY <2>1, FaultStep DEF ReplyLost
<1> QED BY <1>1, <1>2, <1>3 DEF ReplyLost

\* A lease runs out under a working owner only by a fault.
LEMMA TickStep == ASSUME IInv, Tick, UNCHANGED <<mode, policy>> PROVE IInv'
<1>1. /\ row \in Row /\ RowOK(row) /\ wk \in [Workers -> WorkerState]
      /\ faults \in 0..MaxFaults /\ MaxFaults \in Nat
      /\ \A w \in Workers : RecordOK(wk[w]) /\ RowKnown(wk[w], row, faults)
      /\ \A w \in Workers : wk[w].token \in Nat /\ wk[w].renew.token \in Nat
  BY NumberAssumption
     DEF IInv, TypeOK, AllRecords, AllKnown, WorkerState, Tokens, NoToken
<1>2. row' = [row EXCEPT !.lease = Less(row.lease), !.availableAt = Less(row.availableAt),
                         !.generation = 0]
  BY <1>1 DEF Tick, Store, Row
<1>3. \A t \in Time : Less(t) \in Time /\ (Less(t) = NoTime <=> t = NoTime)
  BY DEF Less, Time, NoTime
<1>4. /\ row' \in Row
      /\ row'.status = row.status /\ row'.hash = row.hash /\ row'.ref = row.ref
      /\ row'.token = row.token /\ row'.attempts = row.attempts
      /\ row'.lease = Less(row.lease) /\ row.lease \in Time
      /\ row'.lease = NoTime <=> row.lease = NoTime
  BY <1>1, <1>2, <1>3 DEF Row
<1>5. /\ UNCHANGED <<wk, deliveries, acked, processed, mode, policy>>
      /\ Durable' = Durable /\ HandlerErrors' = HandlerErrors
      /\ \/ faults' = faults /\ ~Guarded
         \/ faults' = faults + 1 /\ faults < MaxFaults
  BY DEF Tick, Durable, HandlerErrors
<1>6. TypeOK'
  BY <1>1, <1>4, <1>5 DEF IInv, TypeOK
<1>7. Deployable' /\ RowOK(row)'
  BY <1>1, <1>4, <1>5 DEF IInv, Deployable, RowOK
<1>8. AllRecords'
  BY <1>1, <1>5 DEF AllRecords, RecordOK
<1>9. \A w \in Workers : RowKnown(wk[w], row', faults')
  <2> SUFFICES ASSUME NEW w \in Workers PROVE RowKnown(wk[w], row', faults')
    OBVIOUS
  <2>1. \A x : Owns(x, row') <=> Owns(x, row)
    BY <1>4 DEF Owns
  <2>2. faults' = 0 /\ Working(wk[w]) => row'.lease > 0
    <3> SUFFICES ASSUME faults' = 0, Working(wk[w]) PROVE row'.lease > 0
      OBVIOUS
    <3>1. faults = 0 /\ ~Guarded
      BY <1>1, <1>5
    <3>2. Owns(wk[w], row) /\ row.lease > 0
      BY <1>1, <3>1 DEF RowKnown
    <3>3. row.status = "claimed"
      BY <3>2 DEF IInv, TypeOK, Owns
    <3>4. row.lease # 1
      BY <3>1, <3>2, <3>3 DEF Guarded, Owns, Keeps
    <3> QED BY <1>4, <3>2, <3>4 DEF Less, Time, NoTime
  <2>3. faults' = 0 => faults = 0
    BY <1>1, <1>5
  <2> QED BY <1>1, <1>4, <2>1, <2>2, <2>3 DEF RowKnown
<1>10. AllKnown'
  BY <1>5, <1>9 DEF AllKnown, RowKnown
<1>11. OwnTokens' /\ ProcessedOnce'
  BY <1>4, <1>5 DEF IInv, OwnTokens, ProcessedOnce, Keeps
<1>12. (RoomToRetry /\ Durable => InBudget(row))'
  BY <1>4, <1>5 DEF IInv, RoomToRetry, InBudget
<1>13. (NoneKeptInline /\ acked => Safe(row))'
  BY <1>4, <1>5 DEF IInv, NoneKeptInline, Safe
<1> QED BY <1>6, <1>7, <1>8, <1>10, <1>11, <1>12, <1>13 DEF IInv

LEMMA InitIInv == Init => IInv
<1> SUFFICES ASSUME Init PROVE IInv
  OBVIOUS
<1>1. /\ wk = [w \in Workers |-> IdleWorker] /\ faults = 0 /\ processed = 0
      /\ acked = FALSE /\ deliveries = 0 /\ Deployable
      /\ mode \in Modes /\ policy \in AckPolicies
  BY DEF Init
<1>2. /\ row \in Row /\ RowOK(row) /\ (row.status = "claimed" <=> row.token # NoToken)
      /\ RoomToRetry /\ Durable => InBudget(row)
  <2>1. CASE row = AbsentRow
    BY <2>1 DEF AbsentRow, Row, RowOK, InBudget, Statuses, Time, NoTime, NoToken
  <2>2. CASE Durable /\ InlineEra /\ \E h \in Hashes : row = InlineEraRow(h)
    <3>1. PICK h \in Hashes : row = InlineEraRow(h)
      BY <2>2
    <3>2. row = [status |-> "pending", hash |-> h, ref |-> NoHash, token |-> NoToken,
                 lease |-> NoTime, attempts |-> 1, generation |-> 0, availableAt |-> 0]
      BY <3>1 DEF InlineEraRow, AbsentRow
    <3>3. row \in Row /\ RowOK(row)
      BY <3>2 DEF Row, RowOK, Statuses, Time, NoTime, NoToken
    <3>4. RoomToRetry => 1 < MaxAttempts
      BY <2>2, NumberAssumption DEF RoomToRetry
    <3> QED BY <3>2, <3>3, <3>4 DEF InBudget, NoToken
  <2> QED BY <2>1, <2>2 DEF Init
<1>3. TypeOK
  <2>1. wk \in [Workers -> WorkerState] /\ acked \in BOOLEAN
    BY <1>1, IdleFits
  <2>2. deliveries \in 0..MaxDeliveries /\ faults \in 0..MaxFaults /\ processed \in Nat
    BY <1>1, NumberAssumption
  <2> QED BY <1>1, <1>2, <2>1, <2>2 DEF TypeOK
<1>4. AllRecords /\ AllKnown
  BY <1>1, IdleFits DEF AllRecords, AllKnown
<1>5. OwnTokens
  BY <1>1, IdleFits DEF OwnTokens, Keeps
<1> QED BY <1>1, <1>2, <1>3, <1>4, <1>5 DEF IInv, ProcessedOnce

LEMMA StepIInv == IInv /\ [Next]_vars => IInv'
<1> SUFFICES ASSUME IInv, [Next]_vars PROVE IInv'
  OBVIOUS
<1>1. CASE UNCHANGED vars
  BY <1>1 DEF vars, work, IInv, TypeOK, Deployable, RowOK, AllRecords, RecordOK, AllKnown,
              RowKnown, OwnTokens, Keeps, Owns, ProcessedOnce, RoomToRetry, InBudget,
              NoneKeptInline, Safe, Durable, HandlerErrors
<1>2. ASSUME Next PROVE IInv'
  <2>1. UNCHANGED <<mode, policy>>
    BY <1>2 DEF Next
  <2>2. ASSUME NEW w \in Workers, NEW h \in Hashes, NEW snapshot \in BOOLEAN,
               Deliver(w, h, snapshot)
        PROVE  IInv'
    BY <2>1, <2>2, DeliverStep
  <2>3. ASSUME NEW w \in Workers, List(w) PROVE IInv'
    BY <2>1, <2>3, ListStep
  <2>4. ASSUME NEW w \in Workers, Continue(w) PROVE IInv'
    BY <2>1, <2>4, ParkStep, GetStep, ClaimListedStep, RefuseStep, RenewAnsweredStep,
       CompleteStep, FailHandledStep, ReclaimStep, RefailStep DEF Continue
  <2>5. ASSUME NEW w \in Workers, HandlerSettles(w) PROVE IInv'
    BY <2>1, <2>5, SettleStep
  <2>6. ASSUME NEW w \in Workers, NEW by \in {"heartbeat", "ctx"}, Renew(w, by) PROVE IInv'
    BY <2>1, <2>6, RenewStep
  <2>7. ASSUME NEW w \in Workers, HeartbeatStops(w) \/ HeartbeatFault(w) PROVE IInv'
    BY <2>1, <2>7, HeartbeatStopsStep, HeartbeatFaultStep
  <2>8. ASSUME NEW w \in Workers, Crash(w) \/ ReplyLost(w) PROVE IInv'
    BY <2>1, <2>8, CrashStep, ReplyLostStep
  <2>9. CASE Tick
    BY <2>1, <2>9, TickStep
  <2> QED BY <1>2, <2>2, <2>3, <2>4, <2>5, <2>6, <2>7, <2>8, <2>9 DEF Next, Step
<1> QED BY <1>1, <1>2

\* The inductive invariant holds in every reachable state.
THEOREM Invariance == Spec => []IInv
BY InitIInv, StepIInv, PTL DEF Spec

-----------------------------------------------------------------------------
(* What follows.                                                           *)

\* Type correctness of the engine; in particular there is always a token to issue.
THEOREM EngineTypes == Spec => []TypeOK
<1>1. IInv => TypeOK
  BY DEF IInv
<1> QED BY <1>1, Invariance, PTL

\* However many workers ran the handler, an event is reported processed at most once.
THEOREM ReportedOnce == Spec => []ProcessedOnce
<1>1. IInv => ProcessedOnce
  BY DEF IInv
<1> QED BY <1>1, Invariance, PTL

\* An event the provider was told is accepted is finished or can be redriven, if the
\* handlers of inline engines do not throw { deadLetter: false }.
THEOREM AckedIsKept ==
  ASSUME "keep_pending" \notin InlineErrors
  PROVE  Spec => []AckedIsNotLost
<1>1. IInv => AckedIsNotLost
  BY DEF IInv, NoneKeptInline, AckedIsNotLost, Safe
<1> QED BY <1>1, Invariance, PTL

\* No row whose failures used up maxAttempts is left for another run, unless it was
\* failed by an inline engine and only one attempt is allowed.
THEOREM BudgetHolds ==
  ASSUME InlineEra => MaxAttempts > 1
  PROVE  Spec => []BudgetEnforced
<1>1. IInv => BudgetEnforced
  BY DEF IInv, RoomToRetry, InBudget, BudgetEnforced
<1> QED BY <1>1, Invariance, PTL

\* Without a fault the event's handler runs in at most one worker at a time, for any
\* number of workers: who runs it owns the row's token, and tokens are not shared.
THEOREM OneHandler == Spec => []NoOverlapWithoutFaults
<1>1. IInv => NoOverlapWithoutFaults
  <2> DEFINE S == {w \in Workers : wk[w].pc \in {"running", "returned", "threw"}}
  <2> SUFFICES ASSUME IInv, faults = 0 PROVE Cardinality(S) <= 1
    BY DEF NoOverlapWithoutFaults
  <2>1. \A v, w \in S : v = w
    <3> SUFFICES ASSUME NEW v \in Workers, NEW w \in Workers, v # w,
                        Working(wk[v]), Working(wk[w])
                 PROVE  FALSE
      BY DEF Working
    <3>1. row.token \in Keeps(wk[v]) /\ row.token \in Keeps(wk[w])
      BY DEF IInv, AllKnown, RowKnown, Owns
    <3>2. Keeps(wk[v]) \cap Keeps(wk[w]) = {}
      BY DEF IInv, OwnTokens
    <3> QED BY <3>1, <3>2
  <2> HIDE DEF S
  <2>2. CASE S = {}
    BY <2>2, FS_EmptySet
  <2>3. CASE S # {}
    <3>1. PICK w \in S : TRUE
      BY <2>3
    <3>2. S = {w} /\ Cardinality({w}) = 1
      BY <2>1, <3>1, FS_Singleton
    <3> QED BY <3>2
  <2> QED BY <2>2, <2>3
<1> QED BY <1>1, Invariance, PTL

\* The handler runs on the payload whose hash the worker's claim carries.
THEOREM HandlerPayload == Spec => []HandlerSeesClaimedPayload
<1>1. IInv => HandlerSeesClaimedPayload
  BY DEF IInv, AllRecords, RecordOK, HandlerSeesClaimedPayload
<1> QED BY <1>1, Invariance, PTL

\* S19, S20: only a delivery changes the payload of a row.
THEOREM DeliveriesSupersede == Spec => OnlyDeliveriesSupersede
<1>1. IInv /\ [Next]_vars => [row'.hash # row.hash => deliveries' = deliveries + 1]_vars
  <2> SUFFICES ASSUME IInv, Next, row'.hash # row.hash PROVE deliveries' = deliveries + 1
    OBVIOUS
  <2>1. row' # row
    OBVIOUS
  <2>2. ASSUME NEW w \in Workers, NEW h \in Hashes, NEW snapshot \in BOOLEAN,
               Deliver(w, h, snapshot)
        PROVE  deliveries' = deliveries + 1
    BY <2>2 DEF Deliver
  <2>3. ASSUME NEW w \in Workers, List(w) PROVE FALSE
    BY <2>3, ListMove DEF List
  <2>4. ASSUME NEW w \in Workers, ClaimListed(w) \/ Reclaim(w) PROVE FALSE
    BY <2>1, <2>4, MatchAcquires DEF ClaimListed, Reclaim
  <2>5. ASSUME NEW w \in Workers, FencedFail(w), Store(GivenBackRow(w)) PROVE FALSE
    <3> DEFINE d == IF wk[w].pc = "park" THEN 0 ELSE RetryAfterMs
    <3>1. row \in Row
      BY DEF IInv, TypeOK
    <3>2. row'.hash = row.hash
      BY <2>5, <3>1 DEF Store, GivenBackRow, FailedRow, Row
    <3> QED BY <3>2
  <2>6. ASSUME NEW w \in Workers, FencedFail(w), Store(FailureRow(w)) PROVE FALSE
    <3>1. row \in Row
      BY DEF IInv, TypeOK
    <3>2. row'.hash = row.hash
      BY <2>6, <3>1 DEF Store, FailureRow, FailedRow, Row
    <3> QED BY <3>2
  <2>7. ASSUME NEW w \in Workers, Park(w) \/ Refuse(w) \/ FailHandled(w) \/ Refail(w)
        PROVE  FALSE
    BY <2>1, <2>5, <2>6, <2>7 DEF Park, Refuse, FailHandled, Refail
  <2>8. ASSUME NEW w \in Workers, CanComplete(w), Store(CompletedRow(row)) PROVE FALSE
    BY <2>8, FencedOwner, CompleteMove DEF CanComplete
  <2>9. ASSUME NEW w \in Workers, CompleteHandled(w) \/ ReplyLost(w) PROVE FALSE
    BY <2>1, <2>5, <2>6, <2>8, <2>9 DEF CompleteHandled, ReplyLost
  <2>10. ASSUME NEW w \in Workers,
                DecideLeaseMutation(row, "claimed", wk[w].token, TRUE, 0) = "ok",
                Store(RenewedRow(row, Fresh, LeaseMs, 0))
         PROVE  FALSE
    BY <2>10, FencedOwner, RenewMove
  <2>11. ASSUME NEW w \in Workers, NEW by, Renew(w, by) PROVE FALSE
    BY <2>1, <2>10, <2>11 DEF Renew
  <2>12. ASSUME NEW w \in Workers, HeartbeatFault(w) PROVE FALSE
    BY <2>1, <2>10, <2>12 DEF HeartbeatFault
  <2>13. ASSUME NEW w \in Workers,
                \/ Get(w) \/ RenewAnswered(w) \/ HandlerSettles(w)
                \/ HeartbeatStops(w) \/ Crash(w)
         PROVE  FALSE
    BY <2>1, <2>13 DEF Get, RenewAnswered, HandlerSettles, HandlerReturns, HandlerThrows,
                       HeartbeatStops, Crash
  <2>14. CASE Tick
    <3>1. row \in Row
      BY DEF IInv, TypeOK
    <3>2. row'.hash = row.hash
      BY <2>14, <3>1 DEF Tick, Store, Row
    <3> QED BY <3>2
  <2> QED BY <2>2, <2>3, <2>4, <2>7, <2>9, <2>11, <2>12, <2>13, <2>14
          DEF Next, Step, Continue
<1> QED BY <1>1, Invariance, PTL DEF Spec, OnlyDeliveriesSupersede
=============================================================================
