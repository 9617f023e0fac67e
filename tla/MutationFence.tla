---------------------------- MODULE MutationFence ----------------------------
(***************************************************************************)
(* How the gateways without native idempotency keep a retried or           *)
(* concurrent mutation (refund, capture, void, create) from moving money   *)
(* twice: runIdempotentMutation of Moyasar, executeIdempotent of Paymob,   *)
(* withCreateReservation of MyFatoorah and withHesabeReservation, over the *)
(* IdempotencyStore of core with its atomic reserve.                       *)
(*                                                                         *)
(* A call reserves its key, runs an executor that sends one request to the *)
(* provider, and settles the key by what it learned.  The provider applies *)
(* a request when it likes, also after the caller stopped waiting for the  *)
(* answer.  Processes crash, and a store operation that throws may or may  *)
(* not have been applied; one that was not is never applied later.         *)
(*                                                                         *)
(* Every behaviour uses one gateway, chosen in Init.                       *)
(***************************************************************************)
EXTENDS Naturals, FiniteSets

CONSTANTS Gateways,   \* the gateways modelled, a subset of AllGateways
          Calls,      \* the calls of applications, retries included
          Processes, Keys,
          Prints,     \* fingerprints of the parameters
          NoPrint,
          Capacity,   \* maxEntries of the store and of Paymob's local cache
          MaxFaults   \* bound of the crashes and failed store operations

AllGateways == {"moyasar", "paymob", "myfatoorah", "hesabe"}

ASSUME GatewaysAssumption == Gateways \subseteq AllGateways
ASSUME NoPrintAssumption == NoPrint \notin Prints

VARIABLES gateway,
          store,    \* store[k]: the shared record of key k
          cache,    \* cache[p][k]: Paymob's entry for k in process p
          call,     \* call[c]: where call c is
          wire,     \* wire[c]: what became of the latest request of c
          applied,  \* applied[k]: how often the provider moved money for k
          paid,     \* paid[k]: the fingerprint the provider last applied for k
          faults    \* crashes and failed store operations so far

vars == <<gateway, store, cache, call, wire, applied, paid, faults>>
provider == <<wire, applied, paid>>

Results == {"done", "declined"}

\* How an executor ends: with a result; refused by the provider for certain;
\* with no certain knowledge after the request was sent; before it was sent.
Ends == Results \cup {"rejected", "ambiguous", "preflight"}

Record == [status : {"free", "in_progress", "completed", "unknown"},
           print : Prints \cup {NoPrint}, result : Results \cup {"none"}]

Free == [status |-> "free", print |-> NoPrint, result |-> "none"]
InProgress(f)   == [status |-> "in_progress", print |-> f, result |-> "none"]
Unknown(f)      == [status |-> "unknown", print |-> f, result |-> "none"]

Completed(f, r) == [status |-> "completed", print |-> f, result |-> r]

\* An entry of Paymob's local cache: a pending or settled promise of call `by`,
\* or the memory of an unknown outcome.
Entry == [status : {"none", "promise", "unknown"},
          print : Prints \cup {NoPrint}, by : Calls \cup {"nobody"}]
NoEntry == [status |-> "none", print |-> NoPrint, by |-> "nobody"]

Writes == {"none", "completed", "unknown", "delete", "keep"}

Stages == {"idle", "reserving", "joined", "executing", "submitted", "resubmitted",
           "settling", "answered", "crashed"}
Answers == {"none", "done", "declined", "refused", "error"}

Call == [pc     : Stages,
         proc   : Processes \cup {"nowhere"},
         key    : Keys \cup {"nokey"},
         print  : Prints \cup {NoPrint},
         end    : Ends \cup {"none"},       \* how its executor ended
         write  : Writes,                   \* what it is about to do to its record
         on     : Calls \cup {"nobody"},    \* the call whose promise it shares
         answer : Answers]

IdleCall == [pc |-> "idle", proc |-> "nowhere", key |-> "nokey", print |-> NoPrint,
             end |-> "none", write |-> "none", on |-> "nobody", answer |-> "none"]

Init == /\ gateway \in Gateways
        /\ store = [k \in Keys |-> Free]
        /\ cache = [p \in Processes |-> [k \in Keys |-> NoEntry]]
        /\ call = [c \in Calls |-> IdleCall]
        /\ wire = [c \in Calls |-> "none"]
        /\ applied = [k \in Keys |-> 0]
        /\ paid = [k \in Keys |-> NoPrint]
        /\ faults = 0

Answered(c, answer) == call' = [call EXCEPT ![c].pc = "answered", ![c].answer = answer]
Settling(c, end, write) ==
  call' = [call EXCEPT ![c].pc = "settling", ![c].end = end, ![c].write = write]
Cached(p, k, entry) == cache' = [cache EXCEPT ![p][k] = entry]

\* Only Paymob keeps a local cache.
CachedIfPaymob(c, entry) ==
  IF gateway = "paymob" THEN Cached(call[c].proc, call[c].key, entry) ELSE UNCHANGED cache

Fault == faults < MaxFaults /\ faults' = faults + 1

-----------------------------------------------------------------------------
(* Starting a call                                                         *)

CacheIsFull(p) == Cardinality({k \in Keys : cache[p][k].status # "none"}) >= Capacity

\* Everything before the first await: Paymob first looks at its local cache.
Begin(c, p, k, f) ==
  LET started == [IdleCall EXCEPT !.proc = p, !.key = k, !.print = f]
      mine    == cache[p][k]
      To(pc)  == call' = [call EXCEPT ![c] = [started EXCEPT !.pc = pc]]
      Refused == call' = [call EXCEPT ![c] = [started EXCEPT !.pc = "answered",
                                                             !.answer = "refused"]]
  IN  /\ call[c].pc = "idle"
      /\ \/ gateway # "paymob" /\ To("reserving") /\ UNCHANGED cache
         \/ /\ gateway = "paymob" /\ mine.status = "none"
            /\ IF CacheIsFull(p) THEN Refused /\ UNCHANGED cache
               ELSE /\ To("reserving")
                    /\ Cached(p, k, [status |-> "promise", print |-> f, by |-> c])
         \/ /\ gateway = "paymob" /\ mine.status # "none"
            /\ IF mine.print # f \/ mine.status = "unknown" THEN Refused
               ELSE call' = [call EXCEPT ![c] = [started EXCEPT !.pc = "joined",
                                                                !.on = mine.by]]
            /\ UNCHANGED cache
      /\ UNCHANGED <<gateway, store, provider, faults>>

\* A caller that shares a promise gets the answer of the call that made it.
Join(c) == /\ call[c].pc = "joined"
           /\ \E maker \in Calls : /\ call[c].on = maker /\ call[maker].pc = "answered"
                                  /\ Answered(c, call[maker].answer)
           /\ UNCHANGED <<gateway, store, cache, provider, faults>>

-----------------------------------------------------------------------------
(* reserve                                                                 *)

IsFree(k) == store[k].status = "free"

StoreIsFull == Cardinality({k \in Keys : ~IsFree(k)}) >= Capacity

\* Bug: a full store forgets its settled keys to make room.
Reservations_Evict(k, f) ==
  {[j \in Keys |-> IF j = k THEN InProgress(f)
                   ELSE IF StoreIsFull /\ store[j].status # "in_progress" THEN Free
                   ELSE store[j]]}

\* The store once key k is reserved; InMemoryIdempotencyStore refuses a new key
\* when it is full, and drops no record to make room.
Reservations(k, f) == IF StoreIsFull THEN {} ELSE {[store EXCEPT ![k] = InProgress(f)]}

\* The key is free: the call becomes its owner, or the store has no room.
Reserve(c) ==
  /\ call[c].pc = "reserving" /\ IsFree(call[c].key)
  /\ \/ /\ store' \in Reservations(call[c].key, call[c].print)
        /\ call' = [call EXCEPT ![c].pc = "executing"]
        /\ UNCHANGED cache
     \/ /\ Reservations(call[c].key, call[c].print) = {}
        /\ Answered(c, "error") /\ CachedIfPaymob(c, NoEntry)
        /\ UNCHANGED store
  /\ UNCHANGED <<gateway, provider, faults>>

\* What Paymob remembers of a record it may not touch.  An in_progress record
\* past its expiry is read as unknown.
Remembered(record) ==
  IF record.status = "unknown" THEN {Unknown(record.print)}
  ELSE IF record.status = "in_progress" THEN {Free, Unknown(record.print)}
  ELSE {Free}

\* Bug: the parameters are not compared.
Matches_Any(record, c) == TRUE

\* A key belongs to the parameters it was first used with.
Matches(record, c) == record.print = call[c].print

\* The key is taken: the recorded result is replayed, anything else refused.
Observe(c) ==
  LET record  == store[call[c].key]
      matches == Matches(record, c)
  IN  /\ call[c].pc = "reserving" /\ ~IsFree(call[c].key)
      /\ \/ /\ matches /\ record.status = "completed"
            /\ IF gateway = "paymob"
               THEN Settling(c, record.result, "completed")
               ELSE Answered(c, record.result)
            /\ UNCHANGED cache
         \/ /\ ~(matches /\ record.status = "completed")
            /\ Answered(c, "refused")
            /\ \E kept \in IF matches THEN Remembered(record) ELSE {Free} :
                 CachedIfPaymob(c, IF kept = Free THEN NoEntry
                                   ELSE [status |-> "unknown", print |-> kept.print,
                                         by |-> "nobody"])
      /\ UNCHANGED <<gateway, store, provider, faults>>

\* The store throws; the reservation may have been written all the same.
ReserveFails(c) ==
  /\ call[c].pc = "reserving" /\ Fault
  /\ \/ UNCHANGED store
     \/ /\ IsFree(call[c].key)
        /\ store' \in Reservations(call[c].key, call[c].print)
  /\ Answered(c, "error") /\ CachedIfPaymob(c, NoEntry)
  /\ UNCHANGED <<gateway, provider>>

-----------------------------------------------------------------------------
(* The executor and the provider                                           *)

\* The request goes out: markSubmitted, then the POST.
Submit(c) == /\ call[c].pc = "executing"
             /\ call' = [call EXCEPT ![c].pc = "submitted"]
             /\ wire' = [wire EXCEPT ![c] = "sent"]
             /\ UNCHANGED <<gateway, store, cache, applied, paid, faults>>

\* The provider decides about a request it received, whoever still waits.
Decide(c, decision) ==
  /\ wire[c] = "sent"
  /\ wire' = [wire EXCEPT ![c] = decision]
  /\ IF decision = "done"
     THEN /\ applied' = [applied EXCEPT ![call[c].key] = @ + 1]
          /\ paid' = [paid EXCEPT ![call[c].key] = call[c].print]
     ELSE UNCHANGED <<applied, paid>>
  /\ UNCHANGED <<gateway, store, cache, call, faults>>

\* MyFatoorah sends a create again, once, when its idempotency header was
\* rejected.
Resubmit(c) == /\ gateway = "myfatoorah"
               /\ call[c].pc = "submitted" /\ wire[c] = "rejected"
               /\ call' = [call EXCEPT ![c].pc = "resubmitted"]
               /\ wire' = [wire EXCEPT ![c] = "sent"]
               /\ UNCHANGED <<gateway, store, cache, applied, paid, faults>>

\* Bug: an ambiguous failure clears the key like a definite one.
SettlingWrites_ClearsAmbiguous(end) ==
  IF end \in Results THEN {"completed"} ELSE {"delete"}

\* Bug: no failure frees the key.
SettlingWrites_Keeps(end) ==
  IF end \in Results THEN {"completed"} ELSE {"keep"}

\* What the caller does to its record once the executor ended.  Only a failure
\* that certainly moved no money frees the key.
SettlingWrites(end) ==
  CASE end \in Results    -> {"completed"}
    [] end = "rejected"   -> IF gateway \in {"moyasar", "paymob"} THEN {"delete"} ELSE {"keep"}
    [] end = "ambiguous"  -> IF gateway \in {"moyasar", "paymob"} THEN {"unknown"}
                                                                  ELSE {"unknown", "keep"}
    [] end = "preflight"  -> IF gateway = "moyasar" THEN {"unknown"}
                             ELSE IF gateway = "paymob" THEN {"delete", "unknown"}
                             ELSE {"delete"}

\* The executor ended; Paymob updates its cache in the same turn.
Settle(c, end) ==
  /\ \E write \in SettlingWrites(end) :
       /\ Settling(c, end, write)
       /\ CachedIfPaymob(c,
            CASE write = "completed" -> cache[call[c].proc][call[c].key]
              [] write = "unknown"   -> [status |-> "unknown", print |-> call[c].print,
                                         by |-> "nobody"]
              [] OTHER               -> NoEntry)
  /\ UNCHANGED <<gateway, store, provider, faults>>

\* It failed before anything was sent: validation, authentication, an abort.
Preflight(c) == call[c].pc = "executing" /\ Settle(c, "preflight")

\* The provider's answer arrived and was understood.
Receive(c) == /\ call[c].pc \in {"submitted", "resubmitted"}
              /\ wire[c] \in Results \cup {"rejected"}
              /\ Settle(c, wire[c])

\* A timeout, an abort, a 5xx, an unreadable answer: anything may have happened.
GiveUp(c) == call[c].pc \in {"submitted", "resubmitted"} /\ Settle(c, "ambiguous")

-----------------------------------------------------------------------------
(* Settling the key                                                        *)

Written(c) ==
  LET k == call[c].key
      f == call[c].print
  IN  CASE call[c].write = "completed" -> [store EXCEPT ![k] = Completed(f, call[c].end)]
        [] call[c].write = "unknown"   -> [store EXCEPT ![k] = Unknown(f)]
        [] call[c].write = "delete"    -> [store EXCEPT ![k] = Free]
        [] OTHER                       -> store

\* What the caller is told; `stored` says whether the store took the write.
SettledAnswer(c, stored) ==
  IF call[c].end \in Results /\ (stored \/ gateway \in {"moyasar", "paymob"})
  THEN call[c].end ELSE "error"

Persist(c) == /\ call[c].pc = "settling"
              /\ store' = Written(c)
              /\ Answered(c, SettledAnswer(c, TRUE))
              /\ UNCHANGED <<gateway, cache, provider, faults>>

\* The store throws: Moyasar and Paymob carry on, the others report an error.
PersistFails(c) == /\ call[c].pc = "settling" /\ call[c].write # "keep"
                   /\ Fault
                   /\ store' \in {store, Written(c)}
                   /\ Answered(c, SettledAnswer(c, FALSE))
                   /\ UNCHANGED <<gateway, cache, provider>>

-----------------------------------------------------------------------------

Active == {"reserving", "joined", "executing", "submitted", "resubmitted", "settling"}

\* A process dies with its calls and its cache; requests under way stay so.
Crash(p) == /\ Fault
            /\ call' = [c \in Calls |->
                          IF call[c].proc = p /\ call[c].pc \in Active
                          THEN [call[c] EXCEPT !.pc = "crashed"] ELSE call[c]]
            /\ cache' = [cache EXCEPT ![p] = [k \in Keys |-> NoEntry]]
            /\ UNCHANGED <<gateway, store, provider>>

Next == \/ \E c \in Calls :
             \/ \E p \in Processes, k \in Keys, f \in Prints : Begin(c, p, k, f)
             \/ Join(c)
             \/ Reserve(c) \/ Observe(c) \/ ReserveFails(c)
             \/ Submit(c) \/ Resubmit(c)
             \/ \E decision \in {"done", "declined", "rejected"} : Decide(c, decision)
             \/ Preflight(c) \/ Receive(c) \/ GiveUp(c)
             \/ Persist(c) \/ PersistFails(c)
        \/ \E p \in Processes : Crash(p)

Spec == Init /\ [][Next]_vars

-----------------------------------------------------------------------------

TypeOK == /\ gateway \in Gateways
          /\ store \in [Keys -> Record]
          /\ \A k \in Keys : store[k].status = "completed" <=> store[k].result # "none"
          /\ cache \in [Processes -> [Keys -> Entry]]
          /\ call \in [Calls -> Call]
          /\ wire \in [Calls -> {"none", "sent", "done", "declined", "rejected"}]
          /\ applied \in [Keys -> Nat]
          /\ paid \in [Keys -> Prints \cup {NoPrint}]
          /\ faults \in Nat

\* The provider moves money at most once for a key, whatever calls retry or
\* race, however late it applies a request, and whatever crashes or fails.
AppliedOnce == \A k \in Keys : applied[k] <= 1

\* Callers are told the truth: "done" means the provider applied a request with
\* the caller's own parameters; "declined" that it applied none and has none left
\* to apply.  That includes results replayed from the store or a shared promise.
AnswersAreTrue ==
  \A c \in Calls :
    /\ call[c].answer = "done" =>
         applied[call[c].key] = 1 /\ paid[call[c].key] = call[c].print
    /\ call[c].answer = "declined" =>
         /\ applied[call[c].key] = 0
         /\ \A d \in Calls : call[d].key = call[c].key => wire[d] # "sent"

\* A recorded result is never lost, replaced or downgraded.
CompletedIsFinal ==
  [][\A k \in Keys : store[k].status = "completed" => store'[k] = store[k]]_vars

\* Calls that own the reservation of key k.
Owners(k) == {c \in Calls : /\ call[c].key = k
                            /\ call[c].pc \in {"executing", "submitted", "resubmitted",
                                              "settling"}}

\* Moyasar and Paymob leave no key in progress that nobody works on, unless a
\* process died or the store failed: a definite failure frees the key for a retry.
NoStuckKey ==
  gateway \in {"moyasar", "paymob"} /\ faults = 0 =>
    \A k \in Keys : store[k].status = "in_progress" => Owners(k) # {}
=============================================================================
