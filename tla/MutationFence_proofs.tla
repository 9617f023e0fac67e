------------------------ MODULE MutationFence_proofs -------------------------
(***************************************************************************)
(* For any gateways, calls, processes, keys and bounds: money moves at     *)
(* most once per key, a recorded result is final, callers are told the     *)
(* truth, and no key is stuck without a fault.                             *)
(*                                                                         *)
(* AppliedOnce says nothing of the requests still on their way, nor of the *)
(* calls about to send or to free a key, so it is not inductive.  IInv     *)
(* adds what the fence is for: whoever may still send a request for a key, *)
(* or make the key free again, knows that the key is quiet, that is that   *)
(* the provider moved nothing for it and has nothing left to apply; and    *)
(* two calls hold one key only to repeat the result already recorded.      *)
(* On top of it TInv is about what the records and the calls say of the    *)
(* money, and SInv about who is left to settle a reservation.              *)
(***************************************************************************)
EXTENDS MutationFence, TLAPS

Holds(c) == call[c].pc \in {"executing", "submitted", "resubmitted", "settling"}

\* The provider moved no money for k and no request for k is on its way.
Quiet(k) == /\ applied[k] = 0
            /\ \A d \in Calls : call[d].key = k => wire[d] # "sent"

\* Call c may yet send a first request for its key, send it again or free it.
Relies(c) == \/ call[c].pc = "executing"
             \/ /\ call[c].pc \in {"submitted", "resubmitted"}
                /\ wire[c] \in {"rejected", "declined"}
             \/ call[c].pc = "settling" /\ call[c].write = "delete"

\* A call has its key, parameters and process once it began, and has sent
\* nothing before its executor did; it records no success without a result.
WellFormed ==
  \A c \in Calls :
    /\ call[c].pc # "idle" => /\ call[c].key \in Keys
                              /\ call[c].proc \in Processes
                              /\ call[c].print \in Prints
    /\ call[c].pc \in {"idle", "reserving", "joined", "executing"} => wire[c] = "none"
    /\ call[c].pc = "settling" /\ call[c].write = "completed" => call[c].end \in Results

FreeIsQuiet == \A k \in Keys : store[k].status = "free" => Quiet(k)
RelianceIsJustified == \A c \in Calls : Relies(c) => Quiet(call[c].key)

OneInFlight ==
  \A c \in Calls : wire[c] = "sent" =>
    /\ call[c].pc # "idle"
    /\ applied[call[c].key] = 0
    /\ \A d \in Calls \ {c} : call[d].key = call[c].key => wire[d] # "sent"

\* A held key is never free; once its result is recorded, holders only repeat it.
HeldKeys ==
  \A c \in Calls : Holds(c) =>
    /\ store[call[c].key].status # "free"
    /\ store[call[c].key].status = "completed" =>
         /\ call[c].pc = "settling" /\ call[c].write = "completed"
         /\ store[call[c].key] = Completed(call[c].print, call[c].end)
    /\ \A d \in Calls \ {c} : Holds(d) /\ call[d].key = call[c].key =>
         store[call[c].key].status = "completed"

IInv == /\ TypeOK /\ WellFormed /\ FreeIsQuiet /\ RelianceIsJustified
        /\ OneInFlight /\ AppliedOnce /\ HeldKeys

-----------------------------------------------------------------------------
(* Types                                                                   *)

\* The records the gateways store are records.
LEMMA RecordTypes ==
  ASSUME NEW f \in Prints, NEW r \in Results
  PROVE  /\ Free \in Record /\ InProgress(f) \in Record
         /\ Unknown(f) \in Record /\ Completed(f, r) \in Record
BY DEF Free, InProgress, Unknown, Completed, Record, Results

\* IInv holds initially.
LEMMA InitInvariant == Init => IInv
BY DEF Init, IInv, TypeOK, WellFormed, FreeIsQuiet, RelianceIsJustified, OneInFlight,
       AppliedOnce, HeldKeys, Holds, Relies, Quiet, Free, NoEntry, IdleCall, Record,
       Entry, Call, Writes, Stages, Answers

-----------------------------------------------------------------------------
(* What the assignments of the actions do to the call they are about       *)

Kept(c) == \A d \in Calls \ {c} : call'[d] = call[d]
SameJob(c) == /\ call'[c].key = call[c].key
              /\ call'[c].print = call[c].print
              /\ call'[c].proc = call[c].proc

\* A call that only moves on keeps its key, parameters and process.
LEMMA StageEffect ==
  ASSUME TypeOK, NEW c \in Calls, NEW pc \in Stages,
         call' = [call EXCEPT ![c].pc = pc]
  PROVE  /\ call' \in [Calls -> Call] /\ Kept(c) /\ SameJob(c)
         /\ call'[c].pc = pc /\ call'[c].answer = call[c].answer
<1>1. call[c] \in Call BY DEF TypeOK
<1>2. [call[c] EXCEPT !.pc = pc] \in Call BY <1>1 DEF Call
<1>3. call' = [call EXCEPT ![c] = [call[c] EXCEPT !.pc = pc]] OBVIOUS
<1>4. call' \in [Calls -> Call] /\ Kept(c) BY <1>2, <1>3 DEF TypeOK, Kept
<1> QED BY <1>1, <1>3, <1>4 DEF TypeOK, SameJob, Call

\* So does one that ends.
LEMMA AnsweredEffect ==
  ASSUME TypeOK, NEW c \in Calls, NEW answer \in Answers, Answered(c, answer)
  PROVE  /\ call' \in [Calls -> Call] /\ Kept(c) /\ SameJob(c)
         /\ call'[c].pc = "answered" /\ call'[c].answer = answer
<1> DEFINE r == [call[c] EXCEPT !.pc = "answered", !.answer = answer]
<1>1. call[c] \in Call BY DEF TypeOK
<1>2. r \in Call BY <1>1 DEF Call, Stages
<1>3. call' = [call EXCEPT ![c] = r] BY DEF Answered
<1>4. r.pc = "answered" /\ r.key = call[c].key /\ r.print = call[c].print
        /\ r.proc = call[c].proc /\ r.answer = answer
  BY <1>1 DEF Call
<1> HIDE DEF r
<1>5. call' \in [Calls -> Call] /\ Kept(c) /\ call'[c] = r
  BY <1>2, <1>3 DEF TypeOK, Kept
<1> QED BY <1>4, <1>5 DEF SameJob

\* So does one that comes to settle, with the end and the write given.
LEMMA SettlingEffect ==
  ASSUME TypeOK, NEW c \in Calls, NEW end \in Ends, NEW write \in Writes,
         Settling(c, end, write)
  PROVE  /\ call' \in [Calls -> Call] /\ Kept(c) /\ SameJob(c)
         /\ call'[c].pc = "settling" /\ call'[c].end = end /\ call'[c].write = write
         /\ call'[c].answer = call[c].answer
<1> DEFINE r == [call[c] EXCEPT !.pc = "settling", !.end = end, !.write = write]
<1>1. call[c] \in Call BY DEF TypeOK
<1>2. r \in Call BY <1>1 DEF Call, Stages
<1>3. call' = [call EXCEPT ![c] = r] BY DEF Settling
<1>4. r.pc = "settling" /\ r.key = call[c].key /\ r.print = call[c].print
        /\ r.proc = call[c].proc /\ r.end = end /\ r.write = write
        /\ r.answer = call[c].answer
  BY <1>1 DEF Call
<1> HIDE DEF r
<1>5. call' \in [Calls -> Call] /\ Kept(c) /\ call'[c] = r
  BY <1>2, <1>3 DEF TypeOK, Kept
<1> QED BY <1>4, <1>5 DEF SameJob

\* A call that begins reserves, joins or is refused, with the job given.
LEMMA BeginEffect ==
  ASSUME TypeOK, NEW c \in Calls, NEW p \in Processes, NEW k \in Keys, NEW f \in Prints,
         Begin(c, p, k, f)
  PROVE  /\ call' \in [Calls -> Call] /\ Kept(c)
         /\ call'[c].pc \in {"reserving", "joined", "answered"}
         /\ call'[c].key = k /\ call'[c].proc = p /\ call'[c].print = f
<1> DEFINE new(pc, on, answer) == [pc |-> pc, proc |-> p, key |-> k, print |-> f,
               end |-> "none", write |-> "none", on |-> on, answer |-> answer]
<1>1. \/ call' = [call EXCEPT ![c] = new("reserving", "nobody", "none")]
      \/ call' = [call EXCEPT ![c] = new("answered", "nobody", "refused")]
      \/ call' = [call EXCEPT ![c] = new("joined", cache[p][k].by, "none")]
  BY Zenon DEF Begin, IdleCall
<1>2. cache[p][k].by \in Calls \cup {"nobody"} BY DEF TypeOK, Entry
<1>3. ASSUME NEW pc \in {"reserving", "joined", "answered"},
             NEW on \in Calls \cup {"nobody"}, NEW answer \in {"none", "refused"},
             call' = [call EXCEPT ![c] = new(pc, on, answer)]
      PROVE  /\ call' \in [Calls -> Call] /\ Kept(c)
             /\ call'[c].pc \in {"reserving", "joined", "answered"}
             /\ call'[c].key = k /\ call'[c].proc = p /\ call'[c].print = f
  <2>1. new(pc, on, answer) \in Call BY DEF Call, Stages, Answers, Writes
  <2> QED BY <1>3, <2>1 DEF TypeOK, Kept
<1> QED BY <1>1, <1>2, <1>3

\* An update of Paymob's cache keeps its type.
LEMMA CacheEffect ==
  ASSUME TypeOK, NEW p \in Processes, NEW k \in Keys, NEW entry \in Entry,
         Cached(p, k, entry) \/ UNCHANGED cache
  PROVE  cache' \in [Processes -> [Keys -> Entry]]
BY DEF TypeOK, Cached

-----------------------------------------------------------------------------
(* The invariant, action by action                                         *)

\* A call that steps without holding its key, and changes nothing else that
\* IInv is about, disturbs nobody.
LEMMA StandingBack ==
  ASSUME IInv, TypeOK', NEW c \in Calls, Kept(c), UNCHANGED <<store, wire, applied>>,
         call'[c].pc \in {"reserving", "joined", "answered"},
         call'[c].key \in Keys, call'[c].proc \in Processes, call'[c].print \in Prints,
         call[c].pc = "idle" \/ call'[c].key = call[c].key,
         call[c].pc = "idle" \/ call'[c].pc = "answered"
  PROVE  IInv'
<1>1. WellFormed' BY DEF IInv, WellFormed, Kept
<1>2. ASSUME NEW k \in Keys, Quiet(k) PROVE Quiet(k)'
  BY <1>2 DEF IInv, WellFormed, Kept, Quiet
<1>3. FreeIsQuiet' BY <1>2 DEF IInv, FreeIsQuiet
<1>4. RelianceIsJustified'
  BY <1>1, <1>2 DEF IInv, RelianceIsJustified, Relies, Kept, WellFormed
<1>5. OneInFlight' BY DEF IInv, OneInFlight, WellFormed, Kept
<1>6. AppliedOnce' BY DEF IInv, AppliedOnce
<1>7. HeldKeys' BY DEF IInv, HeldKeys, Holds, Kept
<1> QED BY <1>1, <1>3, <1>4, <1>5, <1>6, <1>7 DEF IInv

\* Beginning a call preserves IInv.
LEMMA BeginStep ==
  ASSUME IInv, NEW c \in Calls, NEW p \in Processes, NEW k \in Keys, NEW f \in Prints,
         Begin(c, p, k, f)
  PROVE  IInv'
<1>1. TypeOK BY DEF IInv
<1>2. UNCHANGED <<gateway, store, wire, applied, paid, faults>> /\ call[c].pc = "idle"
  BY DEF Begin, provider
<1>3. /\ call' \in [Calls -> Call] /\ Kept(c)
      /\ call'[c].pc \in {"reserving", "joined", "answered"}
      /\ call'[c].key = k /\ call'[c].proc = p /\ call'[c].print = f
  BY <1>1, BeginEffect
<1>4. cache' \in [Processes -> [Keys -> Entry]]
  <2>1. [status |-> "promise", print |-> f, by |-> c] \in Entry BY DEF Entry
  <2>2. Cached(p, k, [status |-> "promise", print |-> f, by |-> c]) \/ UNCHANGED cache
    BY DEF Begin
  <2> QED BY <1>1, <2>1, <2>2, CacheEffect
<1>5. TypeOK' BY <1>1, <1>2, <1>3, <1>4 DEF TypeOK
<1> QED BY <1>2, <1>3, <1>5, StandingBack

\* The cases of Join, Reserve, Observe, ReserveFails and PersistFails in which the
\* call ends and the store stays as it was.
LEMMA EndsStep ==
  ASSUME IInv, NEW c \in Calls, call[c].pc # "idle", NEW answer \in Answers,
         Answered(c, answer), cache' \in [Processes -> [Keys -> Entry]], faults' \in Nat,
         UNCHANGED <<gateway, store, wire, applied, paid>>
  PROVE  IInv'
<1>1. TypeOK BY DEF IInv
<1>2. /\ call' \in [Calls -> Call] /\ Kept(c) /\ SameJob(c)
      /\ call'[c].pc = "answered"
  BY <1>1, AnsweredEffect
<1>3. TypeOK' BY <1>1, <1>2 DEF TypeOK
<1>4. call[c].key \in Keys /\ call[c].proc \in Processes /\ call[c].print \in Prints
  BY DEF IInv, WellFormed
<1> QED BY <1>2, <1>3, <1>4, StandingBack DEF SameJob

\* The key was free, so it is quiet: the new owner may rely on it, and a
\* reservation whose owner never learns of it hurts nobody.
LEMMA ReservationStep ==
  ASSUME IInv, TypeOK', NEW c \in Calls, Kept(c), SameJob(c), call[c].pc = "reserving",
         IsFree(call[c].key), call'[c].pc \in {"executing", "answered"},
         store' = [store EXCEPT ![call[c].key] = InProgress(call[c].print)],
         UNCHANGED <<wire, applied>>
  PROVE  IInv'
<1> DEFINE key == call[c].key
<1>1. key \in Keys BY DEF IInv, WellFormed
<1>2. /\ store'[key].status = "in_progress"
      /\ \A k \in Keys \ {key} : store'[k] = store[k]
  BY <1>1 DEF IInv, TypeOK, InProgress
<1>3. Quiet(key) BY <1>1 DEF IInv, FreeIsQuiet, IsFree
<1>4. \A d \in Calls \ {c} : ~(Holds(d) /\ call[d].key = key)
  BY <1>1 DEF IInv, HeldKeys, IsFree
<1>5. WellFormed' BY DEF IInv, WellFormed, Kept, SameJob
<1>6. ASSUME NEW k \in Keys, Quiet(k) PROVE Quiet(k)'
  BY <1>6 DEF Kept, SameJob, Quiet
<1>7. FreeIsQuiet' BY <1>2, <1>6 DEF IInv, FreeIsQuiet
<1>8. RelianceIsJustified'
  BY <1>1, <1>3, <1>5, <1>6
     DEF IInv, RelianceIsJustified, Relies, Kept, SameJob, WellFormed
<1>9. OneInFlight' BY DEF IInv, OneInFlight, Kept, SameJob
<1>10. AppliedOnce' BY DEF IInv, AppliedOnce
<1>11. HeldKeys'
  BY <1>1, <1>2, <1>4, <1>5 DEF IInv, HeldKeys, Holds, Kept, SameJob, WellFormed
<1> QED BY <1>5, <1>7, <1>8, <1>9, <1>10, <1>11 DEF IInv

\* Only the one call that may rely on its key sends a request, the first or again.
LEMMA SendStep ==
  ASSUME IInv, TypeOK', NEW c \in Calls, Kept(c), SameJob(c), Relies(c),
         call[c].pc \in {"executing", "submitted"},
         call'[c].pc \in {"submitted", "resubmitted"},
         wire' = [wire EXCEPT ![c] = "sent"], UNCHANGED <<store, applied>>
  PROVE  IInv'
<1> DEFINE key == call[c].key
<1>1. key \in Keys BY DEF IInv, WellFormed
<1>2. wire'[c] = "sent" /\ \A d \in Calls \ {c} : wire'[d] = wire[d]
  BY DEF IInv, TypeOK
<1>3. Quiet(key) BY DEF IInv, RelianceIsJustified
<1>4. Holds(c) BY DEF Holds
<1>5. store[key].status \notin {"free", "completed"} BY <1>4 DEF IInv, HeldKeys
<1>6. \A d \in Calls \ {c} : ~(Holds(d) /\ call[d].key = key)
  BY <1>4, <1>5 DEF IInv, HeldKeys
<1>7. ASSUME NEW k \in Keys, k # key, Quiet(k) PROVE Quiet(k)'
  BY <1>2, <1>7 DEF Kept, SameJob, Quiet
<1>8. WellFormed' BY <1>2 DEF IInv, WellFormed, Kept, SameJob
<1>9. FreeIsQuiet' BY <1>5, <1>7 DEF IInv, FreeIsQuiet
<1>10. RelianceIsJustified'
  <2> SUFFICES ASSUME NEW d \in Calls, Relies(d)' PROVE Quiet(call[d].key)'
    BY DEF RelianceIsJustified, Kept, SameJob
  <2>1. d # c BY <1>2 DEF Relies
  <2>2. Relies(d) /\ Holds(d) BY <1>2, <2>1 DEF Relies, Holds, Kept
  <2>3. call[d].key # key BY <1>6, <2>1, <2>2
  <2>4. call[d].key \in Keys BY <2>2 DEF IInv, WellFormed, Holds
  <2>5. Quiet(call[d].key) BY <2>2 DEF IInv, RelianceIsJustified
  <2>6. call'[d].key = call[d].key BY <2>1 DEF Kept
  <2> QED BY <1>7, <2>3, <2>4, <2>5, <2>6 DEF Quiet
<1>11. OneInFlight'
  BY <1>2, <1>3 DEF IInv, OneInFlight, Kept, SameJob, Quiet
<1>12. AppliedOnce' BY DEF IInv, AppliedOnce
<1>13. HeldKeys' BY <1>5, <1>6 DEF IInv, HeldKeys, Holds, Kept, SameJob
<1> QED BY <1>8, <1>9, <1>10, <1>11, <1>12, <1>13 DEF IInv

\* The provider decides about the one request under way for its key.
LEMMA DecideStep ==
  ASSUME IInv, NEW c \in Calls, NEW decision \in {"done", "declined", "rejected"},
         Decide(c, decision)
  PROVE  IInv'
<1> DEFINE key == call[c].key
<1>1. /\ wire[c] = "sent" /\ UNCHANGED <<gateway, store, cache, call, faults>>
      /\ wire' = [wire EXCEPT ![c] = decision]
  BY DEF Decide
<1>2. key \in Keys /\ call[c].print \in Prints
  BY <1>1 DEF IInv, OneInFlight, WellFormed
<1>3. wire'[c] = decision /\ \A d \in Calls \ {c} : wire'[d] = wire[d]
  BY <1>1 DEF IInv, TypeOK
<1>4. /\ applied[key] = 0
      /\ \A d \in Calls \ {c} : call[d].key = key => wire[d] # "sent"
  BY <1>1 DEF IInv, OneInFlight
<1>5. /\ applied' \in [Keys -> Nat] /\ applied'[key] \in {0, 1}
      /\ decision # "done" => applied'[key] = 0
      /\ \A k \in Keys \ {key} : applied'[k] = applied[k]
  BY <1>2, <1>4 DEF IInv, TypeOK, Decide
<1>6. paid' \in [Keys -> Prints \cup {NoPrint}] BY <1>2 DEF IInv, TypeOK, Decide
<1>7. TypeOK' BY <1>1, <1>5, <1>6 DEF IInv, TypeOK
<1>8. ~Quiet(key) BY <1>1 DEF Quiet
<1>9. decision # "done" => Quiet(key)' BY <1>1, <1>3, <1>4, <1>5 DEF Quiet
<1>10. ASSUME NEW k \in Keys, Quiet(k) PROVE Quiet(k)'
  BY <1>1, <1>3, <1>5, <1>8, <1>10 DEF Quiet
<1>11. WellFormed'
  BY <1>1, <1>3 DEF IInv, WellFormed
<1>12. FreeIsQuiet' BY <1>1, <1>10 DEF IInv, FreeIsQuiet
<1>13. RelianceIsJustified'
  <2> SUFFICES ASSUME NEW d \in Calls, Relies(d)' PROVE Quiet(call[d].key)'
    BY <1>1 DEF RelianceIsJustified
  <2>1. CASE d = c
    <3>1. call[c].pc # "executing" BY <1>1 DEF IInv, WellFormed
    <3>2. ~(call[c].pc = "settling" /\ call[c].write = "delete")
      BY <1>8 DEF IInv, RelianceIsJustified, Relies
    <3> QED BY <1>1, <1>3, <1>9, <2>1, <3>1, <3>2 DEF Relies
  <2>2. CASE d # c
    <3>1. Relies(d) BY <1>1, <1>3, <2>2 DEF Relies
    <3>2. call[d].key \in Keys BY <3>1 DEF IInv, WellFormed, Relies
    <3>3. Quiet(call[d].key) BY <3>1 DEF IInv, RelianceIsJustified
    <3> QED BY <1>1, <1>10, <3>2, <3>3 DEF Quiet
  <2> QED BY <2>1, <2>2
<1>14. OneInFlight'
  BY <1>1, <1>2, <1>3, <1>4, <1>5 DEF IInv, OneInFlight, WellFormed
<1>15. AppliedOnce' BY <1>2, <1>5 DEF IInv, AppliedOnce
<1>16. HeldKeys' BY <1>1 DEF IInv, HeldKeys, Holds
<1> QED BY <1>7, <1>11, <1>12, <1>13, <1>14, <1>15, <1>16 DEF IInv

\* A call comes to settle its key: it keeps hold of it after its executor, or
\* (Paymob) takes hold of it to repeat the result it read.
LEMMA SettlingStep ==
  ASSUME IInv, TypeOK', NEW c \in Calls, Kept(c), SameJob(c), call[c].pc # "idle",
         call'[c].pc = "settling", call'[c].write = "completed" => call'[c].end \in Results,
         call'[c].write = "delete" => Relies(c),
         \/ call[c].pc \in {"executing", "submitted", "resubmitted"}
         \/ /\ store[call[c].key] = Completed(call[c].print, call'[c].end)
            /\ call'[c].write = "completed",
         UNCHANGED <<store, wire, applied>>
  PROVE  IInv'
<1>1. WellFormed' BY DEF IInv, WellFormed, Kept, SameJob
<1>2. ASSUME NEW k \in Keys, Quiet(k) PROVE Quiet(k)'
  BY <1>2 DEF Kept, SameJob, Quiet
<1>3. FreeIsQuiet' BY <1>2 DEF IInv, FreeIsQuiet
<1>4. RelianceIsJustified'
  BY <1>1, <1>2 DEF IInv, RelianceIsJustified, Relies, Kept, SameJob, WellFormed
<1>5. OneInFlight' BY DEF IInv, OneInFlight, Kept, SameJob
<1>6. AppliedOnce' BY DEF IInv, AppliedOnce
<1>7. HeldKeys'
  <2>1. CASE call[c].pc \in {"executing", "submitted", "resubmitted"}
    <3>1. store[call[c].key].status \notin {"free", "completed"}
      BY <2>1 DEF IInv, HeldKeys, Holds
    <3> QED BY <2>1, <3>1 DEF IInv, HeldKeys, Holds, Kept, SameJob
  <2>2. CASE /\ store[call[c].key] = Completed(call[c].print, call'[c].end)
             /\ call'[c].write = "completed"
    <3>1. store[call[c].key].status = "completed" BY <2>2 DEF Completed
    <3> QED BY <2>2, <3>1 DEF IInv, HeldKeys, Holds, Kept, SameJob
  <2> QED BY <2>1, <2>2
<1> QED BY <1>1, <1>3, <1>4, <1>5, <1>6, <1>7 DEF IInv

\* The end of an executor preserves IInv: only a call whose request was refused, or
\* never sent, comes to free its key.
LEMMA SettleStep ==
  ASSUME IInv, NEW c \in Calls, NEW end \in Ends, Settle(c, end),
         call[c].pc \in {"executing", "submitted", "resubmitted"},
         end \in Results \cup {"rejected"} => call[c].pc # "executing" /\ wire[c] = end,
         end = "preflight" => call[c].pc = "executing"
  PROVE  IInv'
<1>1. TypeOK BY DEF IInv
<1>2. UNCHANGED <<gateway, store, wire, applied, paid, faults>> BY DEF Settle, provider
<1>3. call[c].key \in Keys /\ call[c].proc \in Processes /\ call[c].print \in Prints
  BY DEF IInv, WellFormed
<1>4. PICK write \in SettlingWrites(end) :
        /\ Settling(c, end, write)
        /\ CachedIfPaymob(c,
             CASE write = "completed" -> cache[call[c].proc][call[c].key]
               [] write = "unknown"   -> [status |-> "unknown", print |-> call[c].print,
                                          by |-> "nobody"]
               [] OTHER               -> NoEntry)
  BY DEF Settle
<1>5. /\ write \in Writes
      /\ write = "completed" => end \in Results
      /\ write = "delete" => end \in {"rejected", "preflight"}
  BY DEF SettlingWrites, Ends, Results, Writes
<1>6. /\ call' \in [Calls -> Call] /\ Kept(c) /\ SameJob(c)
      /\ call'[c].pc = "settling" /\ call'[c].end = end /\ call'[c].write = write
  BY <1>1, <1>4, <1>5, SettlingEffect
<1>7. cache' \in [Processes -> [Keys -> Entry]]
  <2>1. /\ cache[call[c].proc][call[c].key] \in Entry
        /\ [status |-> "unknown", print |-> call[c].print, by |-> "nobody"] \in Entry
        /\ NoEntry \in Entry
    BY <1>1, <1>3 DEF TypeOK, Entry, NoEntry
  <2>2. \/ UNCHANGED cache
        \/ Cached(call[c].proc, call[c].key, cache[call[c].proc][call[c].key])
        \/ Cached(call[c].proc, call[c].key,
                  [status |-> "unknown", print |-> call[c].print, by |-> "nobody"])
        \/ Cached(call[c].proc, call[c].key, NoEntry)
    BY <1>4 DEF CachedIfPaymob
  <2> QED BY <1>1, <1>3, <2>1, <2>2, CacheEffect
<1>8. TypeOK' BY <1>1, <1>2, <1>6, <1>7 DEF TypeOK
<1>9. write = "delete" => Relies(c) BY <1>5 DEF Relies, Results
<1> QED BY <1>2, <1>5, <1>6, <1>8, <1>9, SettlingStep

\* A call repeats a recorded result only if it is its own.
LEMMA ObserveStep ==
  ASSUME IInv, NEW c \in Calls, Observe(c)
  PROVE  IInv'
<1> DEFINE record == store[call[c].key]
<1>1. TypeOK BY DEF IInv
<1>2. /\ UNCHANGED <<gateway, store, wire, applied, paid, faults>>
      /\ call[c].pc = "reserving" /\ ~IsFree(call[c].key)
  BY DEF Observe, provider
<1>3. call[c].key \in Keys /\ call[c].proc \in Processes /\ call[c].print \in Prints
  BY <1>2 DEF IInv, WellFormed
<1>4. record \in Record /\ (record.status = "completed" => record.result \in Results)
  BY <1>1, <1>3 DEF TypeOK, Record, Results
<1>5. CASE /\ record.status = "completed" /\ record.print = call[c].print
           /\ Settling(c, record.result, "completed")
           /\ UNCHANGED cache
  <2>1. /\ call' \in [Calls -> Call] /\ Kept(c) /\ SameJob(c)
        /\ call'[c].pc = "settling" /\ call'[c].end = record.result
        /\ call'[c].write = "completed"
    BY <1>1, <1>4, <1>5, SettlingEffect DEF Ends, Writes
  <2>2. record = Completed(call[c].print, record.result)
    BY <1>4, <1>5 DEF Completed, Record
  <2>3. TypeOK' BY <1>1, <1>2, <1>5, <2>1 DEF TypeOK
  <2> HIDE DEF record
  <2> QED BY <1>2, <1>4, <1>5, <2>1, <2>2, <2>3, SettlingStep DEF record
<1>6. CASE /\ record.status = "completed" /\ Answered(c, record.result)
           /\ UNCHANGED cache
  <2>1. record.result \in Answers BY <1>4, <1>6 DEF Answers, Results
  <2> QED BY <1>1, <1>2, <1>6, <2>1, EndsStep DEF TypeOK
<1>7. CASE /\ Answered(c, "refused")
           /\ \E kept \in {Free, Unknown(record.print)} :
                CachedIfPaymob(c, IF kept = Free THEN NoEntry
                                  ELSE [status |-> "unknown", print |-> kept.print,
                                        by |-> "nobody"])
  <2>1. NoEntry \in Entry
        /\ [status |-> "unknown", print |-> record.print, by |-> "nobody"] \in Entry
    BY <1>4 DEF NoEntry, Entry, Record
  <2>2. \/ UNCHANGED cache
        \/ Cached(call[c].proc, call[c].key, NoEntry)
        \/ Cached(call[c].proc, call[c].key,
                  [status |-> "unknown", print |-> record.print, by |-> "nobody"])
    BY <1>7 DEF CachedIfPaymob, Unknown
  <2>3. cache' \in [Processes -> [Keys -> Entry]]
    BY <1>1, <1>3, <2>1, <2>2, CacheEffect
  <2>4. "refused" \in Answers /\ faults' \in Nat BY <1>1, <1>2 DEF Answers, TypeOK
  <2> QED BY <1>2, <1>7, <2>3, <2>4, EndsStep
<1> QED BY <1>5, <1>6, <1>7 DEF Observe, Matches, Remembered

\* What settling may do to the store; a key is freed only by a call that relies
\* on it, and nobody else holds that key.
LEMMA WrittenStep ==
  ASSUME IInv, NEW c \in Calls, call[c].pc = "settling", store' = Written(c),
         NEW answer \in Answers, Answered(c, answer), faults' \in Nat,
         UNCHANGED <<gateway, cache, wire, applied, paid>>
  PROVE  IInv' /\ \A k \in Keys : store[k].status = "completed" => store'[k] = store[k]
<1> DEFINE key == call[c].key
           write == call[c].write
<1>1. TypeOK BY DEF IInv
<1>2. key \in Keys /\ call[c].print \in Prints /\ call[c].proc \in Processes
      /\ (write = "completed" => call[c].end \in Results)
  BY DEF IInv, WellFormed
<1>3. /\ call' \in [Calls -> Call] /\ Kept(c) /\ SameJob(c)
      /\ call'[c].pc = "answered"
  BY <1>1, AnsweredEffect
<1>4. Holds(c) BY DEF Holds
<1>5. /\ store[key].status # "free"
      /\ store[key].status = "completed" =>
           write = "completed" /\ store[key] = Completed(call[c].print, call[c].end)
      /\ store[key].status # "completed" =>
           \A d \in Calls \ {c} : ~(Holds(d) /\ call[d].key = key)
  BY <1>4 DEF IInv, HeldKeys
<1>6. CASE write \notin {"completed", "unknown", "delete"}
  <2>1. store' = store BY <1>6 DEF Written
  <2> QED BY <1>1, <2>1, EndsStep DEF TypeOK
<1>7. CASE write \in {"completed", "unknown", "delete"}
  <2> DEFINE record == IF write = "completed" THEN Completed(call[c].print, call[c].end)
                       ELSE IF write = "unknown" THEN Unknown(call[c].print) ELSE Free
  <2>1. store' = [store EXCEPT ![key] = record] BY <1>7 DEF Written
  <2>2. /\ record \in Record
        /\ record.status = "completed" <=> record.result # "none"
        /\ record.status = "free" => write = "delete"
    BY <1>2, <1>7 DEF Record, Completed, Unknown, Free, Results
  <2>3. store[key].status = "completed" => record = store[key] BY <1>5
  <2> HIDE DEF record
  <2>4. store'[key] = record /\ \A k \in Keys \ {key} : store'[k] = store[k]
    BY <1>1, <1>2, <2>1 DEF TypeOK
  <2>5. TypeOK' BY <1>1, <1>3, <2>1, <2>2, <2>4 DEF TypeOK
  <2>6. WellFormed' BY <1>3 DEF IInv, WellFormed, Kept, SameJob
  <2>7. ASSUME NEW k \in Keys, Quiet(k) PROVE Quiet(k)'
    BY <1>3, <2>7 DEF Kept, SameJob, Quiet
  <2>8. write = "delete" => Quiet(key)
    BY DEF IInv, RelianceIsJustified, Relies
  <2>9. FreeIsQuiet' BY <2>2, <2>4, <2>7, <2>8 DEF IInv, FreeIsQuiet
  <2>10. RelianceIsJustified'
    BY <1>3, <2>6, <2>7 DEF IInv, RelianceIsJustified, Relies, Kept, SameJob, WellFormed
  <2>11. OneInFlight' BY <1>3 DEF IInv, OneInFlight, Kept, SameJob
  <2>12. AppliedOnce' BY DEF IInv, AppliedOnce
  <2>13. HeldKeys'
    <3> SUFFICES ASSUME NEW d \in Calls, Holds(d)'
                 PROVE  /\ store'[call'[d].key].status # "free"
                        /\ store'[call'[d].key].status = "completed" =>
                             /\ call'[d].pc = "settling" /\ call'[d].write = "completed"
                             /\ store'[call'[d].key] =
                                  Completed(call'[d].print, call'[d].end)
                        /\ \A e \in Calls \ {d} :
                             Holds(e)' /\ call'[e].key = call'[d].key =>
                               store'[call'[d].key].status = "completed"
      BY DEF HeldKeys, Holds
    <3>1. d # c /\ Holds(d) /\ call'[d] = call[d] BY <1>3 DEF Holds, Kept
    <3>2. \A e \in Calls : Holds(e)' => e # c /\ Holds(e) /\ call'[e] = call[e]
      BY <1>3 DEF Holds, Kept
    <3>3. call[d].key \in Keys BY <3>1 DEF IInv, WellFormed, Holds
    <3>4. store'[call[d].key] = store[call[d].key]
      BY <1>5, <2>3, <2>4, <3>1, <3>3
    <3> QED BY <3>1, <3>2, <3>4 DEF IInv, HeldKeys
  <2>14. \A k \in Keys : store[k].status = "completed" => store'[k] = store[k]
    BY <2>3, <2>4
  <2> QED BY <2>5, <2>6, <2>9, <2>10, <2>11, <2>12, <2>13, <2>14 DEF IInv
<1> QED BY <1>6, <1>7

\* A crash takes holders away and leaves their requests under way.
LEMMA CrashStep ==
  ASSUME IInv, NEW p \in Processes, Crash(p)
  PROVE  IInv'
<1>1. /\ UNCHANGED <<gateway, store, wire, applied, paid>> /\ faults' = faults + 1
      /\ cache' = [cache EXCEPT ![p] = [k \in Keys |-> NoEntry]]
  BY DEF Crash, provider, Fault
<1>2. cache' \in [Processes -> [Keys -> Entry]]
  <2>1. [k \in Keys |-> NoEntry] \in [Keys -> Entry] BY DEF NoEntry, Entry
  <2> QED BY <1>1, <2>1 DEF IInv, TypeOK
<1>3. ASSUME NEW d \in Calls
      PROVE  /\ call'[d] \in Call /\ SameJob(d)
             /\ \/ call'[d] = call[d]
                \/ call'[d].pc = "crashed" /\ call[d].pc \in Active
  <2>1. call[d] \in Call BY DEF IInv, TypeOK
  <2>2. /\ [call[d] EXCEPT !.pc = "crashed"] \in Call
        /\ [call[d] EXCEPT !.pc = "crashed"].pc = "crashed"
        /\ [call[d] EXCEPT !.pc = "crashed"].key = call[d].key
        /\ [call[d] EXCEPT !.pc = "crashed"].print = call[d].print
        /\ [call[d] EXCEPT !.pc = "crashed"].proc = call[d].proc
    BY <2>1 DEF Call, Stages
  <2>3. call'[d] = IF call[d].proc = p /\ call[d].pc \in Active
                   THEN [call[d] EXCEPT !.pc = "crashed"] ELSE call[d]
    BY DEF Crash
  <2> QED BY <2>1, <2>2, <2>3 DEF SameJob
<1>4. call' \in [Calls -> Call]
  <2>1. call' = [d \in Calls |-> call'[d]] BY DEF Crash
  <2> QED BY <1>3, <2>1
<1>5. TypeOK' BY <1>1, <1>2, <1>4 DEF IInv, TypeOK
<1>6. WellFormed' BY <1>1, <1>3 DEF IInv, WellFormed, SameJob, Active
<1>7. ASSUME NEW k \in Keys, Quiet(k) PROVE Quiet(k)'
  BY <1>1, <1>3, <1>7 DEF SameJob, Quiet
<1>8. FreeIsQuiet' BY <1>1, <1>7 DEF IInv, FreeIsQuiet
<1>9. RelianceIsJustified'
  <2> SUFFICES ASSUME NEW d \in Calls, Relies(d)' PROVE Quiet(call[d].key)'
    BY <1>3 DEF RelianceIsJustified, SameJob
  <2>1. call'[d] = call[d] /\ Relies(d) BY <1>1, <1>3 DEF Relies
  <2>2. call[d].key \in Keys BY <2>1 DEF IInv, WellFormed, Relies
  <2>3. Quiet(call[d].key) BY <2>1 DEF IInv, RelianceIsJustified
  <2> QED BY <1>7, <2>1, <2>2, <2>3 DEF Quiet
<1>10. OneInFlight' BY <1>1, <1>3 DEF IInv, OneInFlight, SameJob
<1>11. AppliedOnce' BY <1>1 DEF IInv, AppliedOnce
<1>12. HeldKeys'
  <2>1. \A d \in Calls : Holds(d)' => Holds(d) /\ call'[d] = call[d]
    BY <1>3 DEF Holds
  <2> QED BY <1>1, <2>1 DEF IInv, HeldKeys
<1> QED BY <1>5, <1>6, <1>8, <1>9, <1>10, <1>11, <1>12 DEF IInv

\* One action at a time, with what CompletedIsFinal says of the step.
LEMMA CallStep ==
  ASSUME IInv, NEW c \in Calls,
         \/ Join(c) \/ Reserve(c) \/ Observe(c) \/ ReserveFails(c)
         \/ Submit(c) \/ Resubmit(c) \/ Preflight(c) \/ Receive(c) \/ GiveUp(c)
         \/ Persist(c) \/ PersistFails(c)
  PROVE  IInv' /\ \A k \in Keys : store[k].status = "completed" => store'[k] = store[k]
<1> DEFINE Final == \A k \in Keys : store[k].status = "completed" => store'[k] = store[k]
<1>1. TypeOK BY DEF IInv
<1>2. ASSUME call[c].pc # "idle"
      PROVE  call[c].key \in Keys /\ call[c].proc \in Processes /\ call[c].print \in Prints
  BY <1>2 DEF IInv, WellFormed
<1>3. \A d \in Calls : call[d].answer \in Answers BY <1>1 DEF TypeOK, Call
<1>4. \A answer \in {"error"} \cup Results : answer \in Answers BY DEF Answers, Results
<1>5. ASSUME call[c].pc # "idle", CachedIfPaymob(c, NoEntry)
      PROVE  cache' \in [Processes -> [Keys -> Entry]]
  <2>1. NoEntry \in Entry BY DEF NoEntry, Entry
  <2>2. Cached(call[c].proc, call[c].key, NoEntry) \/ UNCHANGED cache
    BY <1>5 DEF CachedIfPaymob
  <2> QED BY <1>1, <1>2, <1>5, <2>1, <2>2, CacheEffect
<1>6. ASSUME call[c].pc = "reserving", IsFree(call[c].key),
             store' \in Reservations(call[c].key, call[c].print),
             call' \in [Calls -> Call], Kept(c), SameJob(c),
             call'[c].pc \in {"executing", "answered"},
             cache' \in [Processes -> [Keys -> Entry]], faults' \in Nat,
             UNCHANGED <<gateway, wire, applied, paid>>
      PROVE  IInv' /\ Final
  <2>1. store' = [store EXCEPT ![call[c].key] = InProgress(call[c].print)]
    BY <1>6 DEF Reservations
  <2>2. /\ InProgress(call[c].print) \in Record
        /\ InProgress(call[c].print).status = "in_progress"
        /\ InProgress(call[c].print).result = "none"
    BY <1>2, <1>6 DEF InProgress, Record
  <2>3. TypeOK' BY <1>1, <1>6, <2>1, <2>2 DEF TypeOK
  <2>4. Final BY <1>1, <1>6, <2>1 DEF TypeOK, IsFree
  <2> QED BY <1>6, <2>1, <2>3, <2>4, ReservationStep
<1>7. CASE Join(c)
  <2>1. UNCHANGED <<gateway, store, cache, wire, applied, paid, faults>>
        /\ call[c].pc # "idle"
    BY <1>7 DEF Join, provider
  <2>2. PICK maker \in Calls : Answered(c, call[maker].answer) BY <1>7 DEF Join
  <2> QED BY <1>1, <1>3, <2>1, <2>2, EndsStep DEF TypeOK
<1>8. CASE Reserve(c)
  <2>1. /\ call[c].pc = "reserving" /\ IsFree(call[c].key)
        /\ UNCHANGED <<gateway, wire, applied, paid, faults>>
    BY <1>8 DEF Reserve, provider
  <2>2. CASE /\ store' \in Reservations(call[c].key, call[c].print)
             /\ call' = [call EXCEPT ![c].pc = "executing"] /\ UNCHANGED cache
    <3>1. /\ call' \in [Calls -> Call] /\ Kept(c) /\ SameJob(c)
          /\ call'[c].pc = "executing"
      <4>1. "executing" \in Stages BY DEF Stages
      <4> QED BY <1>1, <2>2, <4>1, StageEffect
    <3> QED BY <1>1, <1>6, <2>1, <2>2, <3>1 DEF TypeOK
  <2>3. CASE Answered(c, "error") /\ CachedIfPaymob(c, NoEntry) /\ UNCHANGED store
    BY <1>1, <1>4, <1>5, <2>1, <2>3, EndsStep DEF TypeOK
  <2> QED BY <1>8, <2>2, <2>3 DEF Reserve
<1>9. CASE Observe(c)
  <2>1. UNCHANGED store BY <1>9 DEF Observe
  <2> QED BY <1>9, <2>1, ObserveStep
<1>10. CASE ReserveFails(c)
  <2>1. /\ call[c].pc = "reserving" /\ Answered(c, "error")
        /\ CachedIfPaymob(c, NoEntry) /\ faults' = faults + 1
        /\ UNCHANGED <<gateway, wire, applied, paid>>
    BY <1>10 DEF ReserveFails, provider, Fault
  <2>2. cache' \in [Processes -> [Keys -> Entry]] /\ faults' \in Nat
    BY <1>1, <1>5, <2>1 DEF TypeOK
  <2>3. CASE UNCHANGED store BY <1>4, <2>1, <2>2, <2>3, EndsStep
  <2>4. CASE /\ IsFree(call[c].key)
             /\ store' \in Reservations(call[c].key, call[c].print)
    <3>1. /\ call' \in [Calls -> Call] /\ Kept(c) /\ SameJob(c)
          /\ call'[c].pc = "answered"
      BY <1>1, <1>4, <2>1, AnsweredEffect
    <3> QED BY <1>6, <2>1, <2>2, <2>4, <3>1
  <2> QED BY <1>10, <2>3, <2>4 DEF ReserveFails
<1>11. ASSUME NEW pc \in {"submitted", "resubmitted"},
              call[c].pc \in {"executing", "submitted"}, Relies(c),
              call' = [call EXCEPT ![c].pc = pc], wire' = [wire EXCEPT ![c] = "sent"],
              UNCHANGED <<gateway, store, cache, applied, paid, faults>>
       PROVE  IInv' /\ Final
  <2>1. /\ call' \in [Calls -> Call] /\ Kept(c) /\ SameJob(c) /\ call'[c].pc = pc
    <3>1. pc \in Stages BY DEF Stages
    <3> QED BY <1>1, <1>11, <3>1, StageEffect
  <2>2. TypeOK' BY <1>1, <1>11, <2>1 DEF TypeOK
  <2> QED BY <1>11, <2>1, <2>2, SendStep
<1>12. CASE Submit(c)
  BY <1>11, <1>12 DEF Submit, Relies
<1>13. CASE Resubmit(c)
  BY <1>11, <1>13 DEF Resubmit, Relies
<1>14. CASE Preflight(c) \/ Receive(c) \/ GiveUp(c)
  <2>1. PICK end \in Ends :
          /\ Settle(c, end) /\ call[c].pc \in {"executing", "submitted", "resubmitted"}
          /\ end \in Results \cup {"rejected"} =>
               call[c].pc # "executing" /\ wire[c] = end
          /\ end = "preflight" => call[c].pc = "executing"
    <3>1. CASE Preflight(c) BY <3>1 DEF Preflight, Ends, Results
    <3>2. CASE Receive(c) BY <3>2 DEF Receive, Ends, Results
    <3>3. CASE GiveUp(c) BY <3>3 DEF GiveUp, Ends, Results
    <3> QED BY <1>14, <3>1, <3>2, <3>3
  <2>2. UNCHANGED store BY <2>1 DEF Settle
  <2> QED BY <2>1, <2>2, SettleStep
<1>15. ASSUME NEW stored \in BOOLEAN PROVE SettledAnswer(c, stored) \in Answers
  BY <1>4 DEF SettledAnswer
<1>16. CASE Persist(c)
  <2>1. /\ call[c].pc = "settling" /\ store' = Written(c)
        /\ Answered(c, SettledAnswer(c, TRUE))
        /\ UNCHANGED <<gateway, cache, wire, applied, paid, faults>>
    BY <1>16 DEF Persist, provider
  <2> QED BY <1>1, <1>15, <2>1, WrittenStep DEF TypeOK
<1>17. CASE PersistFails(c)
  <2>1. /\ call[c].pc = "settling" /\ store' \in {store, Written(c)}
        /\ Answered(c, SettledAnswer(c, FALSE)) /\ faults' = faults + 1
        /\ UNCHANGED <<gateway, cache, wire, applied, paid>>
    BY <1>17 DEF PersistFails, provider, Fault
  <2>2. faults' \in Nat BY <1>1, <2>1 DEF TypeOK
  <2>3. CASE store' = Written(c) BY <1>15, <2>1, <2>2, <2>3, WrittenStep
  <2>4. CASE UNCHANGED store
    <3>1. cache' \in [Processes -> [Keys -> Entry]] BY <1>1, <2>1 DEF TypeOK
    <3> QED BY <1>15, <2>1, <2>2, <2>4, <3>1, EndsStep
  <2> QED BY <2>1, <2>3, <2>4
<1> QED BY <1>7, <1>8, <1>9, <1>10, <1>12, <1>13, <1>14, <1>16, <1>17

\* Every step preserves IInv and changes no recorded result.
LEMMA NextStep ==
  ASSUME IInv, [Next]_vars
  PROVE  IInv' /\ \A k \in Keys : store[k].status = "completed" => store'[k] = store[k]
<1>1. CASE UNCHANGED vars
  BY <1>1 DEF vars, IInv, TypeOK, WellFormed, FreeIsQuiet, RelianceIsJustified,
              OneInFlight, AppliedOnce, HeldKeys, Holds, Relies, Quiet
<1>2. ASSUME NEW c \in Calls, NEW p \in Processes, NEW k \in Keys, NEW f \in Prints,
             Begin(c, p, k, f)
      PROVE  IInv' /\ UNCHANGED store
  BY <1>2, BeginStep DEF Begin
<1>3. ASSUME NEW c \in Calls, NEW decision \in {"done", "declined", "rejected"},
             Decide(c, decision)
      PROVE  IInv' /\ UNCHANGED store
  BY <1>3, DecideStep DEF Decide
<1>4. ASSUME NEW p \in Processes, Crash(p) PROVE IInv' /\ UNCHANGED store
  BY <1>4, CrashStep DEF Crash
<1> QED BY <1>1, <1>2, <1>3, <1>4, CallStep DEF Next

-----------------------------------------------------------------------------
(* What callers are told                                                   *)

\* The provider applied nothing for k, and nobody will ask it to again: the key is
\* taken, and no call is about to send or to free it.
Declined(k) == /\ Quiet(k) /\ store[k].status # "free"
               /\ \A d \in Calls : call[d].key = k => ~Relies(d)

\* That a request for k with parameters f ended as r is, and stays, true.
Truth(k, f, r) == /\ r = "done" => applied[k] = 1 /\ paid[k] = f
                  /\ r = "declined" => Declined(k)

\* Call c has learned, or said, that its request ended as r.
Knows(c, r) == \/ call[c].answer = r
               \/ call[c].pc = "settling" /\ call[c].end = r
               \/ /\ r = "done" /\ wire[c] = "done"
                  /\ call[c].pc \in {"submitted", "resubmitted"}

KnowledgeIsTrue ==
  \A c \in Calls, k \in Keys, f \in Prints, r \in Results :
    call[c].key = k /\ call[c].print = f /\ Knows(c, r) => Truth(k, f, r)

RecordsAreTrue ==
  \A k \in Keys, f \in Prints, r \in Results :
    store[k] = Completed(f, r) => Truth(k, f, r)

ResultsEnd == \A c \in Calls : call[c].answer \in Results => call[c].pc = "answered"

\* A shared promise is one of the same key and parameters.
PromisesMatch ==
  /\ \A p \in Processes, k \in Keys : cache[p][k].status = "promise" =>
       \E m \in Calls : /\ cache[p][k].by = m /\ call[m].pc # "idle"
                        /\ call[m].key = k /\ call[m].print = cache[p][k].print
  /\ \A c \in Calls : call[c].pc = "joined" =>
       \E m \in Calls : /\ call[c].on = m /\ call[m].pc # "idle"
                        /\ call[m].key = call[c].key /\ call[m].print = call[c].print

TInv == KnowledgeIsTrue /\ RecordsAreTrue /\ ResultsEnd /\ PromisesMatch

\* A step of call c: the others, and what the provider did, stay as they were.
StepOf(c) == /\ Kept(c) /\ (call[c].pc = "idle" \/ SameJob(c)) /\ call'[c].pc # "idle"
             /\ \A d \in Calls \ {c} : wire'[d] = wire[d]
             /\ UNCHANGED <<applied, paid>>

\* The step leaves a declined key alone.
Respects(c) ==
  \A k \in Keys : Declined(k) =>
    /\ store'[k].status # "free"
    /\ call'[c].key = k => ~Relies(c)' /\ wire'[c] # "sent"

\* Then it leaves every truth true.
LEMMA TruthStays ==
  ASSUME NEW c \in Calls, StepOf(c), Respects(c), NEW k \in Keys, NEW f,
         NEW r \in Results, Truth(k, f, r)
  PROVE  Truth(k, f, r)'
<1>1. ASSUME Declined(k) PROVE Declined(k)'
  <2>1. ASSUME NEW d \in Calls, call'[d].key = k PROVE ~Relies(d)' /\ wire'[d] # "sent"
    <3>1. CASE d = c
      BY <1>1, <2>1, <3>1 DEF Respects
    <3>2. CASE d # c
      <4>1. call'[d] = call[d] /\ wire'[d] = wire[d]
        BY <3>2 DEF StepOf, Kept
      <4> QED BY <1>1, <2>1, <4>1 DEF Declined, Quiet, Relies
    <3> QED BY <3>1, <3>2
  <2>2. store'[k].status # "free" /\ applied'[k] = 0
    BY <1>1 DEF Respects, StepOf, Declined, Quiet
  <2> QED BY <2>1, <2>2 DEF Declined, Quiet
<1> QED BY <1>1 DEF Truth, StepOf

\* A step that sends nothing and is about to send or free nothing.
LEMMA Peaceful ==
  ASSUME NEW c \in Calls, UNCHANGED wire, ~Relies(c)',
         SameJob(c) \/ wire[c] = "none",
         \A k \in Keys : Declined(k) => store'[k].status # "free"
  PROVE  Respects(c)
BY DEF Respects, Declined, Quiet, SameJob

\* Promises survive a step that makes none and joins none.
LEMMA PromisesStay ==
  ASSUME IInv, TInv, NEW c \in Calls, StepOf(c), call'[c].pc # "joined",
         \A p \in Processes, k \in Keys :
           cache'[p][k] = cache[p][k] \/ cache'[p][k].status # "promise"
  PROVE  PromisesMatch'
<1>1. ASSUME NEW m \in Calls, call[m].pc # "idle"
      PROVE  /\ call'[m].pc # "idle" /\ call'[m].key = call[m].key
             /\ call'[m].print = call[m].print
  BY <1>1 DEF StepOf, Kept, SameJob
<1>2. ASSUME NEW p \in Processes, NEW k \in Keys, cache'[p][k].status = "promise"
      PROVE  \E m \in Calls : /\ cache'[p][k].by = m /\ call'[m].pc # "idle"
                              /\ call'[m].key = k /\ call'[m].print = cache'[p][k].print
  <2>1. cache'[p][k] = cache[p][k] /\ cache[p][k].status = "promise"
    BY <1>2
  <2>2. PICK m \in Calls : /\ cache[p][k].by = m /\ call[m].pc # "idle"
                           /\ call[m].key = k /\ call[m].print = cache[p][k].print
    BY <2>1 DEF TInv, PromisesMatch
  <2> QED BY <1>1, <2>1, <2>2
<1>3. ASSUME NEW d \in Calls, call'[d].pc = "joined"
      PROVE  \E m \in Calls : /\ call'[d].on = m /\ call'[m].pc # "idle"
                              /\ call'[m].key = call'[d].key
                              /\ call'[m].print = call'[d].print
  <2>1. call'[d] = call[d]
    BY <1>3 DEF StepOf, Kept
  <2>2. PICK m \in Calls : /\ call[d].on = m /\ call[m].pc # "idle"
                           /\ call[m].key = call[d].key /\ call[m].print = call[d].print
    BY <1>3, <2>1 DEF TInv, PromisesMatch
  <2> QED BY <1>1, <2>1, <2>2
<1> QED BY <1>2, <1>3 DEF PromisesMatch

\* A step of call c keeps the truth if what c and the store then hold is true.
LEMMA Advance ==
  ASSUME IInv, TInv, NEW c \in Calls, StepOf(c), Respects(c), PromisesMatch',
         call'[c].answer \in Results => call'[c].pc = "answered",
         \A k \in Keys, f \in Prints, r \in Results :
           /\ call'[c].key = k /\ call'[c].print = f /\ Knows(c, r)' =>
                Truth(k, f, r) \/ Truth(k, f, r)'
           /\ store'[k] = Completed(f, r) => Truth(k, f, r)
  PROVE  TInv'
<1>1. KnowledgeIsTrue'
  <2> SUFFICES ASSUME NEW d \in Calls, NEW k \in Keys, NEW f \in Prints,
                      NEW r \in Results,
                      call'[d].key = k, call'[d].print = f, Knows(d, r)'
               PROVE  Truth(k, f, r)'
    BY DEF KnowledgeIsTrue
  <2>1. CASE d = c
    BY <2>1, TruthStays
  <2>2. CASE d # c
    <3>1. call'[d] = call[d] /\ wire'[d] = wire[d]
      BY <2>2 DEF StepOf, Kept
    <3>2. Truth(k, f, r)
      BY <3>1 DEF TInv, KnowledgeIsTrue, Knows
    <3> QED BY <3>2, TruthStays
  <2> QED BY <2>1, <2>2
<1>2. RecordsAreTrue'
  <2> SUFFICES ASSUME NEW k \in Keys, NEW f \in Prints, NEW r \in Results,
                      store'[k] = Completed(f, r)
               PROVE  Truth(k, f, r)'
    BY DEF RecordsAreTrue, Completed
  <2>1. Truth(k, f, r)
    OBVIOUS
  <2> QED BY <2>1, TruthStays
<1>3. ResultsEnd'
  BY DEF TInv, ResultsEnd, StepOf, Kept
<1> QED BY <1>1, <1>2, <1>3 DEF TInv

\* The cases in which a call ends without news of its own: an answer that is no
\* result, or one that was true before.
LEMMA EndsTruth ==
  ASSUME IInv, TInv, NEW c \in Calls, call[c].pc # "idle", NEW answer \in Answers,
         Answered(c, answer), UNCHANGED <<wire, applied, paid>>,
         \A p \in Processes, k \in Keys :
           cache'[p][k] = cache[p][k] \/ cache'[p][k].status # "promise",
         answer \in Results =>
           \A k \in Keys, f \in Prints :
             call[c].key = k /\ call[c].print = f => Truth(k, f, answer),
         \A k \in Keys : Declined(k) => store'[k].status # "free",
         \A k \in Keys, f \in Prints, r \in Results :
           store'[k] = Completed(f, r) => Truth(k, f, r)
  PROVE  TInv'
<1>1. /\ Kept(c) /\ SameJob(c) /\ call'[c].pc = "answered" /\ call'[c].answer = answer
  BY AnsweredEffect DEF IInv
<1>2. StepOf(c)
  BY <1>1 DEF StepOf
<1>3. Respects(c)
  <2>1. ~Relies(c)'
    BY <1>1 DEF Relies
  <2> QED BY <1>1, <2>1, Peaceful
<1>4. PromisesMatch'
  BY <1>1, <1>2, PromisesStay
<1>5. ASSUME NEW k \in Keys, NEW f \in Prints, NEW r \in Results,
             call'[c].key = k, call'[c].print = f, Knows(c, r)'
      PROVE  Truth(k, f, r)
  <2>1. answer = r /\ call[c].key = k /\ call[c].print = f
    BY <1>1, <1>5 DEF Knows, SameJob
  <2> QED BY <2>1
<1> QED BY <1>1, <1>2, <1>3, <1>4, <1>5, Advance

\* Reading the store tells the truth, and leaving it alone frees nothing.
LEMMA StoreStays ==
  ASSUME TInv, UNCHANGED store
  PROVE  /\ \A k \in Keys : Declined(k) => store'[k].status # "free"
         /\ \A k \in Keys, f \in Prints, r \in Results :
              store'[k] = Completed(f, r) => Truth(k, f, r)
BY DEF TInv, RecordsAreTrue, Declined

\* A reservation takes a key that no result is known of.
LEMMA ReservationTruth ==
  ASSUME IInv, TInv, NEW c \in Calls, call[c].pc = "reserving", IsFree(call[c].key),
         store' \in Reservations(call[c].key, call[c].print)
  PROVE  /\ \A k \in Keys : Declined(k) => store'[k].status # "free"
         /\ \A k \in Keys, f \in Prints, r \in Results :
              store'[k] = Completed(f, r) => Truth(k, f, r)
<1>1. store' = [store EXCEPT ![call[c].key] = InProgress(call[c].print)]
  BY DEF Reservations
<1>2. call[c].key \in Keys
  BY DEF IInv, WellFormed
<1>3. /\ store'[call[c].key] = InProgress(call[c].print)
      /\ \A k \in Keys \ {call[c].key} : store'[k] = store[k]
  BY <1>1, <1>2 DEF IInv, TypeOK
<1>4. InProgress(call[c].print).status = "in_progress"
  BY DEF InProgress
<1>5. \A f, r : Completed(f, r).status = "completed"
  BY DEF Completed
<1> QED BY <1>3, <1>4, <1>5 DEF TInv, RecordsAreTrue, Declined

\* Paymob's cache forgets a promise, or keeps it as it is.
LEMMA CacheTruth ==
  ASSUME IInv, NEW c \in Calls, call[c].pc # "idle", NEW entry, CachedIfPaymob(c, entry),
         entry.status # "promise" \/ entry = cache[call[c].proc][call[c].key]
  PROVE  \A p \in Processes, k \in Keys :
           cache'[p][k] = cache[p][k] \/ cache'[p][k].status # "promise"
<1>1. call[c].proc \in Processes /\ call[c].key \in Keys
  BY DEF IInv, WellFormed
<1>2. cache' = cache \/ cache' = [cache EXCEPT ![call[c].proc][call[c].key] = entry]
  BY DEF CachedIfPaymob, Cached
<1> QED BY <1>1, <1>2 DEF IInv, TypeOK

LEMMA JoinTruth ==
  ASSUME IInv, TInv, NEW c \in Calls, Join(c)
  PROVE  TInv'
<1>1. /\ call[c].pc = "joined"
      /\ UNCHANGED <<gateway, store, cache, wire, applied, paid, faults>>
  BY DEF Join, provider
<1>2. PICK m \in Calls : call[c].on = m /\ Answered(c, call[m].answer)
  BY DEF Join
<1>3. call[m].key = call[c].key /\ call[m].print = call[c].print
  BY <1>1, <1>2 DEF TInv, PromisesMatch
<1>4. call[m].answer \in Answers
  BY DEF IInv, TypeOK, Call
<1>5. call[m].answer \in Results =>
        \A k \in Keys, f \in Prints :
          call[c].key = k /\ call[c].print = f => Truth(k, f, call[m].answer)
  BY <1>3 DEF TInv, KnowledgeIsTrue, Knows
<1>6. \A p \in Processes, k \in Keys : cache'[p][k] = cache[p][k]
  BY <1>1
<1>7. call[c].pc # "idle" /\ UNCHANGED store
  BY <1>1
<1> QED BY <1>1, <1>2, <1>4, <1>5, <1>6, <1>7, StoreStays, EndsTruth

\* The promise a call makes, or shares, is for its own key and parameters.
LEMMA BeginTruth ==
  ASSUME IInv, TInv, NEW c \in Calls, NEW p \in Processes, NEW k \in Keys,
         NEW f \in Prints, Begin(c, p, k, f)
  PROVE  TInv'
<1> DEFINE new(pc, on, answer) == [pc |-> pc, proc |-> p, key |-> k, print |-> f,
               end |-> "none", write |-> "none", on |-> on, answer |-> answer]
           promise == [status |-> "promise", print |-> f, by |-> c]
<1>1. /\ UNCHANGED <<gateway, store, wire, applied, paid, faults>> /\ call[c].pc = "idle"
      /\ wire[c] = "none"
  BY DEF Begin, provider, IInv, WellFormed
<1>2. \/ /\ call' = [call EXCEPT ![c] = new("reserving", "nobody", "none")]
         /\ UNCHANGED cache \/ Cached(p, k, promise)
      \/ /\ call' = [call EXCEPT ![c] = new("answered", "nobody", "refused")]
         /\ UNCHANGED cache
      \/ /\ call' = [call EXCEPT ![c] = new("joined", cache[p][k].by, "none")]
         /\ cache[p][k].status = "promise" /\ cache[p][k].print = f
         /\ UNCHANGED cache
  <2>1. cache[p][k].status \in {"none", "promise", "unknown"}
    BY DEF IInv, TypeOK, Entry
  <2> QED BY <2>1, Zenon DEF Begin, IdleCall
<1>3. /\ Kept(c) /\ call'[c].pc \in {"reserving", "answered", "joined"}
      /\ call'[c].key = k /\ call'[c].print = f
      /\ call'[c].answer \in {"none", "refused"}
      /\ call'[c].pc = "joined" => /\ call'[c].on = cache[p][k].by
                                   /\ cache[p][k].status = "promise"
                                   /\ cache[p][k].print = f
  BY <1>2 DEF Kept, IInv, TypeOK
<1>4. UNCHANGED cache \/ cache' = [cache EXCEPT ![p][k] = promise]
  BY <1>2 DEF Cached
<1> HIDE DEF new
<1>5. StepOf(c)
  BY <1>1, <1>3 DEF StepOf
<1>6. Respects(c)
  <2>1. ~Relies(c)'
    BY <1>3 DEF Relies
  <2> QED BY <1>1, <2>1, StoreStays, Peaceful
<1>7. ASSUME NEW m \in Calls, call[m].pc # "idle"
      PROVE  /\ call'[m].pc # "idle" /\ call'[m].key = call[m].key
             /\ call'[m].print = call[m].print
  BY <1>1, <1>7, <1>3 DEF Kept
<1>8. ASSUME NEW q \in Processes, NEW j \in Keys, cache'[q][j].status = "promise"
      PROVE  \E m \in Calls : /\ cache'[q][j].by = m /\ call'[m].pc # "idle"
                              /\ call'[m].key = j /\ call'[m].print = cache'[q][j].print
  <2>1. CASE cache'[q][j] = cache[q][j]
    <3>1. PICK m \in Calls : /\ cache[q][j].by = m /\ call[m].pc # "idle"
                             /\ call[m].key = j /\ call[m].print = cache[q][j].print
      BY <1>8, <2>1 DEF TInv, PromisesMatch
    <3> QED BY <1>7, <2>1, <3>1
  <2>2. CASE q = p /\ j = k /\ cache'[q][j] = promise
    <3>1. promise.by = c /\ promise.print = f
      OBVIOUS
    <3>2. call'[c].pc # "idle"
      BY <1>3
    <3> QED BY <1>3, <2>2, <3>1, <3>2
  <2> QED BY <1>4, <2>1, <2>2 DEF IInv, TypeOK
<1>9. ASSUME NEW d \in Calls, call'[d].pc = "joined"
      PROVE  \E m \in Calls : /\ call'[d].on = m /\ call'[m].pc # "idle"
                              /\ call'[m].key = call'[d].key
                              /\ call'[m].print = call'[d].print
  <2>1. CASE d = c
    <3>1. PICK m \in Calls : /\ cache[p][k].by = m /\ call[m].pc # "idle"
                             /\ call[m].key = k /\ call[m].print = cache[p][k].print
      BY <1>3, <1>9, <2>1 DEF TInv, PromisesMatch
    <3> QED BY <1>3, <1>7, <1>9, <2>1, <3>1
  <2>2. CASE d # c
    <3>1. call'[d] = call[d]
      BY <1>3, <2>2 DEF Kept
    <3>2. PICK m \in Calls : /\ call[d].on = m /\ call[m].pc # "idle"
                             /\ call[m].key = call[d].key /\ call[m].print = call[d].print
      BY <1>9, <3>1 DEF TInv, PromisesMatch
    <3> QED BY <1>7, <3>1, <3>2
  <2> QED BY <2>1, <2>2
<1>10. PromisesMatch'
  BY <1>8, <1>9 DEF PromisesMatch
<1>11. call'[c].answer \notin Results /\ \A r \in Results : ~Knows(c, r)'
  BY <1>3 DEF Knows, Results
<1>12. \A j \in Keys, g \in Prints, r \in Results :
         store'[j] = Completed(g, r) => Truth(j, g, r)
  BY <1>1, StoreStays
<1> QED BY <1>5, <1>6, <1>10, <1>11, <1>12, Advance

\* A replayed result is the recorded one, of the caller's own parameters.
LEMMA ObserveTruth ==
  ASSUME IInv, TInv, NEW c \in Calls, Observe(c)
  PROVE  TInv'
<1> DEFINE record == store[call[c].key]
<1>1. /\ UNCHANGED <<gateway, store, wire, applied, paid, faults>>
      /\ call[c].pc = "reserving" /\ call[c].pc # "idle"
  BY DEF Observe, provider
<1>2. call[c].key \in Keys /\ call[c].print \in Prints
  BY <1>1 DEF IInv, WellFormed
<1>3. record \in Record /\ (record.status = "completed" => record.result \in Results)
  BY <1>2 DEF IInv, TypeOK, Record, Results
<1>4. ASSUME record.status = "completed", record.print = call[c].print
      PROVE  /\ record.result \in Results
             /\ \A k \in Keys, f \in Prints :
                  call[c].key = k /\ call[c].print = f => Truth(k, f, record.result)
  <2>1. record = Completed(call[c].print, record.result)
    BY <1>3, <1>4 DEF Completed, Record
  <2> QED BY <1>2, <1>3, <1>4, <2>1 DEF TInv, RecordsAreTrue
<1>5. CASE /\ record.status = "completed" /\ record.print = call[c].print
           /\ Settling(c, record.result, "completed") /\ UNCHANGED cache
  <2>1. /\ Kept(c) /\ SameJob(c) /\ call'[c].pc = "settling"
        /\ call'[c].end = record.result /\ call'[c].write = "completed"
        /\ call'[c].answer = call[c].answer
    BY <1>3, <1>5, SettlingEffect DEF IInv, Ends, Writes
  <2>2. call[c].answer \notin Results
    BY <1>1 DEF TInv, ResultsEnd
  <2>3. StepOf(c)
    BY <1>1, <2>1 DEF StepOf
  <2>4. Respects(c)
    <3>1. ~Relies(c)'
      BY <2>1 DEF Relies
    <3> QED BY <1>1, <2>1, <3>1, StoreStays, Peaceful
  <2>5. PromisesMatch'
    BY <1>5, <2>1, <2>3, PromisesStay
  <2>6. ASSUME NEW k \in Keys, NEW f \in Prints, NEW r \in Results,
               call'[c].key = k, call'[c].print = f, Knows(c, r)'
        PROVE  Truth(k, f, r)
    <3>1. record.result = r /\ call[c].key = k /\ call[c].print = f
      BY <2>1, <2>2, <2>6 DEF Knows, SameJob
    <3> QED BY <1>4, <1>5, <3>1
  <2> QED BY <1>1, <2>1, <2>2, <2>3, <2>4, <2>5, <2>6, StoreStays, Advance
<1>6. CASE /\ record.status = "completed" /\ record.print = call[c].print
           /\ Answered(c, record.result) /\ UNCHANGED cache
  <2>1. record.result \in Answers
    BY <1>3, <1>6 DEF Answers, Results
  <2>2. \A p \in Processes, k \in Keys : cache'[p][k] = cache[p][k]
    BY <1>6
  <2> QED BY <1>1, <1>4, <1>6, <2>1, <2>2, StoreStays, EndsTruth
<1>7. CASE /\ Answered(c, "refused")
           /\ \E kept \in {Free, Unknown(record.print)} :
                CachedIfPaymob(c, IF kept = Free THEN NoEntry
                                  ELSE [status |-> "unknown", print |-> kept.print,
                                        by |-> "nobody"])
  <2>1. PICK kept \in {Free, Unknown(record.print)} :
          CachedIfPaymob(c, IF kept = Free THEN NoEntry
                            ELSE [status |-> "unknown", print |-> kept.print,
                                  by |-> "nobody"])
    BY <1>7
  <2>2. (IF kept = Free THEN NoEntry
         ELSE [status |-> "unknown", print |-> kept.print, by |-> "nobody"]).status
           # "promise"
    BY DEF NoEntry
  <2>3. \A p \in Processes, k \in Keys :
          cache'[p][k] = cache[p][k] \/ cache'[p][k].status # "promise"
    BY <1>1, <2>1, <2>2, CacheTruth
  <2>4. "refused" \in Answers /\ "refused" \notin Results
    BY DEF Answers, Results
  <2> QED BY <1>1, <1>7, <2>3, <2>4, StoreStays, EndsTruth
<1> QED BY <1>5, <1>6, <1>7 DEF Observe, Matches, Remembered

\* A call that moves on, and learns no more than what is true, keeps the truth.
LEMMA MovesTruth ==
  ASSUME IInv, TInv, NEW c \in Calls, call[c].pc \notin {"idle", "answered"},
         Kept(c), SameJob(c), call'[c].answer = call[c].answer,
         call'[c].pc \in {"executing", "submitted", "resubmitted", "settling"},
         UNCHANGED <<applied, paid>>, \A d \in Calls \ {c} : wire'[d] = wire[d],
         \A p \in Processes, k \in Keys :
           cache'[p][k] = cache[p][k] \/ cache'[p][k].status # "promise",
         Respects(c),
         \A k \in Keys, f \in Prints, r \in Results :
           store'[k] = Completed(f, r) => Truth(k, f, r),
         \A r \in Results, f \in Prints :
           \/ call'[c].pc = "settling" /\ call'[c].end = r
           \/ wire'[c] = "done" /\ call'[c].pc \in {"submitted", "resubmitted"}
           => Truth(call[c].key, f, r) \/ Truth(call[c].key, f, r)' \/ f # call[c].print
  PROVE  TInv'
<1>1. StepOf(c)
  BY DEF StepOf
<1>2. PromisesMatch'
  BY <1>1, PromisesStay
<1>3. call[c].answer \notin Results
  BY DEF TInv, ResultsEnd
<1>4. ASSUME NEW k \in Keys, NEW f \in Prints, NEW r \in Results,
             call'[c].key = k, call'[c].print = f, Knows(c, r)'
      PROVE  Truth(k, f, r) \/ Truth(k, f, r)'
  BY <1>3, <1>4 DEF Knows, SameJob
<1> QED BY <1>1, <1>2, <1>3, <1>4, Advance

\* The owner of a fresh reservation finds a key nobody has a result of.
LEMMA ReserveTruth ==
  ASSUME IInv, TInv, NEW c \in Calls, Reserve(c)
  PROVE  TInv'
<1>1. /\ call[c].pc = "reserving" /\ IsFree(call[c].key)
      /\ UNCHANGED <<gateway, wire, applied, paid, faults>>
  BY DEF Reserve, provider
<1>2. CASE /\ store' \in Reservations(call[c].key, call[c].print)
           /\ call' = [call EXCEPT ![c].pc = "executing"] /\ UNCHANGED cache
  <2>1. /\ Kept(c) /\ SameJob(c) /\ call'[c].pc = "executing"
        /\ call'[c].answer = call[c].answer
    <3>1. "executing" \in Stages
      BY DEF Stages
    <3> QED BY <1>2, <3>1, StageEffect DEF IInv
  <2>2. wire'[c] = "none"
    BY <1>1 DEF IInv, WellFormed
  <2>3. Respects(c)
    <3>1. ~Declined(call[c].key)
      BY <1>1 DEF Declined, IsFree
    <3> QED BY <1>1, <1>2, <2>1, <3>1, ReservationTruth DEF Respects, SameJob
  <2>4. \A k \in Keys, f \in Prints, r \in Results :
          store'[k] = Completed(f, r) => Truth(k, f, r)
    BY <1>1, <1>2, ReservationTruth
  <2>5. \A p \in Processes, k \in Keys : cache'[p][k] = cache[p][k]
    BY <1>2
  <2>6. \A d \in Calls \ {c} : wire'[d] = wire[d]
    BY <1>1
  <2> QED BY <1>1, <2>1, <2>2, <2>3, <2>4, <2>5, <2>6, MovesTruth
<1>3. CASE Answered(c, "error") /\ CachedIfPaymob(c, NoEntry) /\ UNCHANGED store
  <2>1. "error" \in Answers /\ "error" \notin Results /\ NoEntry.status # "promise"
    BY DEF Answers, Results, NoEntry
  <2>2. \A p \in Processes, k \in Keys :
          cache'[p][k] = cache[p][k] \/ cache'[p][k].status # "promise"
    BY <1>1, <1>3, <2>1, CacheTruth
  <2> QED BY <1>1, <1>3, <2>1, <2>2, StoreStays, EndsTruth
<1> QED BY <1>2, <1>3 DEF Reserve

LEMMA ReserveFailsTruth ==
  ASSUME IInv, TInv, NEW c \in Calls, ReserveFails(c)
  PROVE  TInv'
<1>1. /\ call[c].pc = "reserving" /\ Answered(c, "error") /\ CachedIfPaymob(c, NoEntry)
      /\ UNCHANGED <<gateway, wire, applied, paid>>
  BY DEF ReserveFails, provider
<1>2. "error" \in Answers /\ "error" \notin Results /\ NoEntry.status # "promise"
  BY DEF Answers, Results, NoEntry
<1>3. \A p \in Processes, k \in Keys :
        cache'[p][k] = cache[p][k] \/ cache'[p][k].status # "promise"
  BY <1>1, <1>2, CacheTruth
<1>4. /\ \A k \in Keys : Declined(k) => store'[k].status # "free"
      /\ \A k \in Keys, f \in Prints, r \in Results :
           store'[k] = Completed(f, r) => Truth(k, f, r)
  <2>1. CASE UNCHANGED store
    BY <2>1, StoreStays
  <2>2. CASE IsFree(call[c].key) /\ store' \in Reservations(call[c].key, call[c].print)
    BY <1>1, <2>2, ReservationTruth
  <2> QED BY <2>1, <2>2 DEF ReserveFails
<1> QED BY <1>1, <1>2, <1>3, <1>4, EndsTruth

\* A call that sends relies on its key, so nobody was told that it was declined.
LEMMA SendTruth ==
  ASSUME IInv, TInv, NEW c \in Calls, Submit(c) \/ Resubmit(c)
  PROVE  TInv'
<1>1. PICK pc \in {"submitted", "resubmitted"} : call' = [call EXCEPT ![c].pc = pc]
  BY DEF Submit, Resubmit
<1>2. /\ Relies(c) /\ call[c].pc \in {"executing", "submitted"}
      /\ wire' = [wire EXCEPT ![c] = "sent"]
      /\ UNCHANGED <<gateway, store, cache, applied, paid, faults>>
  BY DEF Submit, Resubmit, Relies
<1>3. /\ Kept(c) /\ SameJob(c) /\ call'[c].pc = pc /\ call'[c].answer = call[c].answer
  <2>1. pc \in Stages
    BY DEF Stages
  <2> QED BY <1>1, <2>1, StageEffect DEF IInv
<1>4. wire'[c] = "sent" /\ \A d \in Calls \ {c} : wire'[d] = wire[d]
  BY <1>2 DEF IInv, TypeOK
<1>5. Respects(c)
  <2>1. ~Declined(call[c].key)
    BY <1>2 DEF Declined
  <2> QED BY <1>2, <1>3, <2>1, StoreStays DEF Respects, SameJob
<1>6. \A k \in Keys, f \in Prints, r \in Results :
        store'[k] = Completed(f, r) => Truth(k, f, r)
  BY <1>2, StoreStays
<1>7. \A p \in Processes, k \in Keys : cache'[p][k] = cache[p][k]
  BY <1>2
<1>8. call'[c].pc # "settling" /\ wire'[c] # "done"
  BY <1>3, <1>4
<1> QED BY <1>1, <1>2, <1>3, <1>4, <1>5, <1>6, <1>7, <1>8, MovesTruth

\* The executor learns of a success that the provider applied, or of a refusal that
\* leaves its key quiet: it alone held the key, and gives it up.
LEMMA SettleTruth ==
  ASSUME IInv, TInv, NEW c \in Calls, NEW end \in Ends, Settle(c, end),
         call[c].pc \in {"executing", "submitted", "resubmitted"},
         end \in Results \cup {"rejected"} => call[c].pc # "executing" /\ wire[c] = end,
         end = "preflight" => call[c].pc = "executing"
  PROVE  TInv'
<1>1. UNCHANGED <<gateway, store, wire, applied, paid, faults>>
  BY DEF Settle, provider
<1>2. call[c].key \in Keys /\ call[c].proc \in Processes /\ call[c].print \in Prints
  BY DEF IInv, WellFormed
<1> DEFINE entry(write) ==
             CASE write = "completed" -> cache[call[c].proc][call[c].key]
               [] write = "unknown"   -> [status |-> "unknown", print |-> call[c].print,
                                          by |-> "nobody"]
               [] OTHER               -> NoEntry
<1>3. PICK write \in SettlingWrites(end) :
        Settling(c, end, write) /\ CachedIfPaymob(c, entry(write))
  BY DEF Settle
<1>4. /\ write \in Writes
      /\ end \in Results => write = "completed"
      /\ write = "delete" => end \in {"rejected", "preflight"}
  BY DEF SettlingWrites, Ends, Results, Writes
<1>5. entry(write).status # "promise" \/ entry(write) = cache[call[c].proc][call[c].key]
  BY DEF NoEntry
<1> HIDE DEF entry
<1>6. /\ Kept(c) /\ SameJob(c) /\ call'[c].pc = "settling" /\ call'[c].end = end
      /\ call'[c].write = write /\ call'[c].answer = call[c].answer
  BY <1>3, <1>4, SettlingEffect DEF IInv
<1>7. \A p \in Processes, k \in Keys :
        cache'[p][k] = cache[p][k] \/ cache'[p][k].status # "promise"
  BY <1>3, <1>5, CacheTruth
<1>8. Relies(c)' => Relies(c)
  BY <1>4, <1>6 DEF Relies, Results
<1>9. Respects(c)
  <2>1. \A k \in Keys : Declined(k) /\ call[c].key = k => ~Relies(c) /\ wire[c] # "sent"
    BY DEF Declined, Quiet
  <2> QED BY <1>1, <1>6, <1>8, <2>1, StoreStays DEF Respects, SameJob
<1>10. ASSUME NEW f \in Prints, end = "done"
       PROVE  Truth(call[c].key, f, end) \/ f # call[c].print
  <2>1. Knows(c, end)
    BY <1>10 DEF Knows, Results
  <2> QED BY <1>2, <1>10, <2>1 DEF TInv, KnowledgeIsTrue, Results
<1>11. ASSUME NEW f \in Prints, end = "declined"
       PROVE  Truth(call[c].key, f, end)'
  <2>1. Relies(c)
    BY <1>11 DEF Relies, Results
  <2>2. Quiet(call[c].key)
    BY <2>1 DEF IInv, RelianceIsJustified
  <2>3. Quiet(call[c].key)'
    BY <1>1, <1>6, <2>2 DEF Quiet, Kept, SameJob
  <2>4. store[call[c].key].status \notin {"free", "completed"}
    BY DEF IInv, HeldKeys, Holds
  <2>5. \A d \in Calls \ {c} : ~(Holds(d) /\ call[d].key = call[c].key)
    BY <2>4 DEF IInv, HeldKeys, Holds
  <2>6. \A d \in Calls : call'[d].key = call[c].key => ~Relies(d)'
    <3>1. ~Relies(c)'
      BY <1>4, <1>6, <1>11 DEF Relies, Results
    <3>2. \A d \in Calls \ {c} : Relies(d)' => Holds(d) /\ call'[d] = call[d]
      BY <1>1, <1>6 DEF Relies, Holds, Kept
    <3> QED BY <2>5, <3>1, <3>2
  <2>7. Declined(call[c].key)'
    BY <1>1, <1>6, <2>3, <2>4, <2>6 DEF Declined, SameJob
  <2> QED BY <1>11, <2>7 DEF Truth
<1>12. \A k \in Keys, f \in Prints, r \in Results :
         store'[k] = Completed(f, r) => Truth(k, f, r)
  BY <1>1, StoreStays
<1>13. ASSUME NEW r \in Results, NEW f \in Prints, end = r
       PROVE  \/ Truth(call[c].key, f, r) \/ Truth(call[c].key, f, r)'
              \/ f # call[c].print
  BY <1>10, <1>11, <1>13 DEF Results
<1> QED BY <1>1, <1>6, <1>7, <1>9, <1>12, <1>13, MovesTruth

\* A result is written, and told, as the executor learned it; a key is freed only by
\* the call that relies on it.
LEMMA PersistTruth ==
  ASSUME IInv, TInv, NEW c \in Calls, Persist(c) \/ PersistFails(c)
  PROVE  TInv'
<1> DEFINE key == call[c].key
<1>1. PICK stored \in BOOLEAN : Answered(c, SettledAnswer(c, stored))
  BY DEF Persist, PersistFails
<1>2. /\ call[c].pc = "settling" /\ UNCHANGED <<gateway, cache, wire, applied, paid>>
      /\ store' = store \/ store' = Written(c)
  BY DEF Persist, PersistFails, provider
<1>3. key \in Keys /\ call[c].print \in Prints
      /\ (call[c].write = "completed" => call[c].end \in Results)
  BY <1>2 DEF IInv, WellFormed
<1>4. /\ SettledAnswer(c, stored) \in Answers
      /\ SettledAnswer(c, stored) \in Results => SettledAnswer(c, stored) = call[c].end
  BY DEF SettledAnswer, Answers, Results
<1>5. ASSUME call[c].end \in Results, NEW f \in Prints, call[c].print = f
      PROVE  Truth(key, f, call[c].end)
  BY <1>2, <1>3, <1>5 DEF TInv, KnowledgeIsTrue, Knows
<1>6. \A k \in Keys : Declined(k) => store'[k].status # "free"
  <2>1. ASSUME NEW k \in Keys, Declined(k), store' = Written(c)
        PROVE  store'[k].status # "free"
    <3>1. CASE call[c].write = "delete"
      <4>1. Relies(c)
        BY <1>2, <3>1 DEF Relies
      <4>2. k # key
        BY <2>1, <4>1 DEF Declined
      <4>3. store'[k] = store[k]
        BY <1>3, <2>1, <3>1, <4>2 DEF Written, IInv, TypeOK
      <4> QED BY <2>1, <4>3 DEF Declined
    <3>2. CASE call[c].write # "delete"
      BY <1>3, <2>1, <3>2 DEF Written, IInv, TypeOK, Completed, Unknown, Declined
    <3> QED BY <3>1, <3>2
  <2> QED BY <1>2, <2>1, StoreStays
<1>7. ASSUME NEW k \in Keys, NEW f \in Prints, NEW r \in Results,
             store'[k] = Completed(f, r)
      PROVE  Truth(k, f, r)
  <2>1. CASE store'[k] = store[k]
    BY <1>7, <2>1 DEF TInv, RecordsAreTrue
  <2>2. CASE /\ k = key /\ call[c].write = "completed"
             /\ store'[k] = Completed(call[c].print, call[c].end)
    <3>1. f = call[c].print /\ r = call[c].end
      BY <1>7, <2>2 DEF Completed
    <3> QED BY <1>3, <1>5, <2>2, <3>1
  <2>3. CASE store'[k] \in {Unknown(call[c].print), Free}
    <3>1. store'[k].status # "completed"
      BY <2>3 DEF Unknown, Free
    <3> QED BY <1>7, <3>1 DEF Completed
  <2> QED BY <1>2, <1>3, <2>1, <2>2, <2>3 DEF Written, IInv, TypeOK
<1>8. SettledAnswer(c, stored) \in Results =>
        \A k \in Keys, f \in Prints :
          call[c].key = k /\ call[c].print = f => Truth(k, f, SettledAnswer(c, stored))
  BY <1>4, <1>5
<1>9. \A p \in Processes, k \in Keys : cache'[p][k] = cache[p][k]
  BY <1>2
<1> HIDE DEF key
<1> QED BY <1>1, <1>2, <1>4, <1>6, <1>7, <1>8, <1>9, EndsTruth

\* The request decided was the only one for its key, of which nothing was known; if
\* the provider applied it, the money moved with the parameters of its call.
LEMMA DecideTruth ==
  ASSUME IInv, TInv, NEW c \in Calls, NEW decision \in {"done", "declined", "rejected"},
         Decide(c, decision)
  PROVE  TInv'
<1> DEFINE key == call[c].key
<1>1. /\ wire[c] = "sent" /\ UNCHANGED <<gateway, store, cache, call, faults>>
      /\ wire' = [wire EXCEPT ![c] = decision]
  BY DEF Decide
<1>2. key \in Keys /\ applied[key] = 0
  BY <1>1 DEF IInv, OneInFlight, WellFormed
<1>3. wire'[c] = decision /\ \A d \in Calls \ {c} : wire'[d] = wire[d]
  BY <1>1 DEF IInv, TypeOK
<1>4. \A k \in Keys \ {key} : applied'[k] = applied[k] /\ paid'[k] = paid[k]
  BY <1>2 DEF Decide, IInv, TypeOK
<1>5. decision = "done" => applied'[key] = 1 /\ paid'[key] = call[c].print
  BY <1>2 DEF Decide, IInv, TypeOK
<1>6. ASSUME NEW k \in Keys, NEW f \in Prints, NEW r \in Results, Truth(k, f, r)
      PROVE  Truth(k, f, r)'
  <2>1. k # key
    BY <1>1, <1>2, <1>6 DEF Truth, Declined, Quiet, Results
  <2>2. Declined(k) => Declined(k)'
    BY <1>1, <1>3, <1>4, <2>1 DEF Declined, Quiet, Relies
  <2> QED BY <1>4, <1>6, <2>1, <2>2 DEF Truth
<1>7. KnowledgeIsTrue'
  <2> SUFFICES ASSUME NEW d \in Calls, NEW k \in Keys, NEW f \in Prints,
                      NEW r \in Results,
                      call[d].key = k, call[d].print = f, Knows(d, r)'
               PROVE  Truth(k, f, r)'
    BY <1>1 DEF KnowledgeIsTrue
  <2>1. CASE Knows(d, r)
    BY <1>6, <2>1 DEF TInv, KnowledgeIsTrue
  <2>2. CASE ~Knows(d, r)
    <3>1. d = c /\ r = "done" /\ decision = "done"
      BY <1>1, <1>3, <2>2 DEF Knows
    <3> QED BY <1>5, <3>1 DEF Truth
  <2> QED BY <2>1, <2>2
<1>8. RecordsAreTrue'
  BY <1>1, <1>6 DEF TInv, RecordsAreTrue
<1>9. ResultsEnd' /\ PromisesMatch'
  BY <1>1 DEF TInv, ResultsEnd, PromisesMatch
<1> QED BY <1>7, <1>8, <1>9 DEF TInv

\* A crash takes callers away, with what they knew, and one cache.
LEMMA CrashTruth ==
  ASSUME IInv, TInv, NEW p \in Processes, Crash(p)
  PROVE  TInv'
<1>1. /\ UNCHANGED <<gateway, store, wire, applied, paid>>
      /\ cache' = [cache EXCEPT ![p] = [k \in Keys |-> NoEntry]]
  BY DEF Crash, provider
<1>2. ASSUME NEW d \in Calls
      PROVE  /\ SameJob(d) /\ call'[d].answer = call[d].answer
             /\ \/ call'[d] = call[d]
                \/ call'[d].pc = "crashed" /\ call[d].pc \in Active
  <2>1. call[d] \in Call
    BY DEF IInv, TypeOK
  <2>2. /\ [call[d] EXCEPT !.pc = "crashed"].pc = "crashed"
        /\ [call[d] EXCEPT !.pc = "crashed"].key = call[d].key
        /\ [call[d] EXCEPT !.pc = "crashed"].print = call[d].print
        /\ [call[d] EXCEPT !.pc = "crashed"].proc = call[d].proc
        /\ [call[d] EXCEPT !.pc = "crashed"].answer = call[d].answer
    BY <2>1 DEF Call
  <2>3. call'[d] = IF call[d].proc = p /\ call[d].pc \in Active
                   THEN [call[d] EXCEPT !.pc = "crashed"] ELSE call[d]
    BY DEF Crash
  <2> QED BY <2>2, <2>3 DEF SameJob
<1>3. ASSUME NEW k \in Keys, NEW f \in Prints, NEW r \in Results, Truth(k, f, r)
      PROVE  Truth(k, f, r)'
  <2>1. Declined(k) => Declined(k)'
    BY <1>1, <1>2 DEF Declined, Quiet, Relies, SameJob
  <2> QED BY <1>1, <1>3, <2>1 DEF Truth
<1>4. KnowledgeIsTrue'
  <2> SUFFICES ASSUME NEW d \in Calls, NEW k \in Keys, NEW f \in Prints,
                      NEW r \in Results,
                      call'[d].key = k, call'[d].print = f, Knows(d, r)'
               PROVE  Truth(k, f, r)'
    BY DEF KnowledgeIsTrue
  <2>1. Knows(d, r) /\ call[d].key = k /\ call[d].print = f
    BY <1>1, <1>2 DEF Knows, SameJob
  <2> QED BY <1>3, <2>1 DEF TInv, KnowledgeIsTrue
<1>5. RecordsAreTrue'
  BY <1>1, <1>3 DEF TInv, RecordsAreTrue
<1>6. ResultsEnd'
  <2>1. \A d \in Calls : call[d].pc \in Active => call[d].answer \notin Results
    BY DEF TInv, ResultsEnd, Active
  <2> QED BY <1>2, <2>1 DEF TInv, ResultsEnd
<1>7. ASSUME NEW m \in Calls, call[m].pc # "idle"
      PROVE  /\ call'[m].pc # "idle" /\ call'[m].key = call[m].key
             /\ call'[m].print = call[m].print
  BY <1>2, <1>7 DEF SameJob
<1>8. ASSUME NEW q \in Processes, NEW k \in Keys, cache'[q][k].status = "promise"
      PROVE  \E m \in Calls : /\ cache'[q][k].by = m /\ call'[m].pc # "idle"
                              /\ call'[m].key = k /\ call'[m].print = cache'[q][k].print
  <2>1. cache'[q][k] = cache[q][k]
    BY <1>1, <1>8 DEF IInv, TypeOK, NoEntry
  <2>2. PICK m \in Calls : /\ cache[q][k].by = m /\ call[m].pc # "idle"
                           /\ call[m].key = k /\ call[m].print = cache[q][k].print
    BY <1>8, <2>1 DEF TInv, PromisesMatch
  <2> QED BY <1>7, <2>1, <2>2
<1>9. ASSUME NEW d \in Calls, call'[d].pc = "joined"
      PROVE  \E m \in Calls : /\ call'[d].on = m /\ call'[m].pc # "idle"
                              /\ call'[m].key = call'[d].key
                              /\ call'[m].print = call'[d].print
  <2>1. call'[d] = call[d]
    BY <1>2, <1>9
  <2>2. PICK m \in Calls : /\ call[d].on = m /\ call[m].pc # "idle"
                           /\ call[m].key = call[d].key /\ call[m].print = call[d].print
    BY <1>9, <2>1 DEF TInv, PromisesMatch
  <2> QED BY <1>7, <2>1, <2>2
<1>10. PromisesMatch'
  BY <1>8, <1>9 DEF PromisesMatch
<1> QED BY <1>4, <1>5, <1>6, <1>10 DEF TInv

LEMMA InitTruth == Init => TInv
BY DEF Init, TInv, KnowledgeIsTrue, RecordsAreTrue, ResultsEnd, PromisesMatch, Knows,
       Free, NoEntry, IdleCall, Completed, Results

\* Every step keeps the truth.
LEMMA NextTruth ==
  ASSUME IInv, TInv, [Next]_vars
  PROVE  TInv'
<1>1. CASE UNCHANGED vars
  BY <1>1 DEF vars, TInv, KnowledgeIsTrue, RecordsAreTrue, ResultsEnd, PromisesMatch,
              Knows, Truth, Declined, Quiet, Relies
<1>2. ASSUME NEW c \in Calls, Preflight(c) \/ Receive(c) \/ GiveUp(c) PROVE TInv'
  <2>1. PICK end \in Ends :
          /\ Settle(c, end) /\ call[c].pc \in {"executing", "submitted", "resubmitted"}
          /\ end \in Results \cup {"rejected"} =>
               call[c].pc # "executing" /\ wire[c] = end
          /\ end = "preflight" => call[c].pc = "executing"
    <3>1. CASE Preflight(c) BY <3>1 DEF Preflight, Ends, Results
    <3>2. CASE Receive(c) BY <3>2 DEF Receive, Ends, Results
    <3>3. CASE GiveUp(c) BY <3>3 DEF GiveUp, Ends, Results
    <3> QED BY <1>2, <3>1, <3>2, <3>3
  <2> QED BY <2>1, SettleTruth
<1> QED
  BY <1>1, <1>2, BeginTruth, JoinTruth, ReserveTruth, ObserveTruth, ReserveFailsTruth,
     SendTruth, PersistTruth, DecideTruth, CrashTruth
     DEF Next

-----------------------------------------------------------------------------
(* Keys nobody works on                                                    *)

\* Moyasar and Paymob settle a key by completing, marking or freeing it, so without
\* faults a key in progress has an owner.
Settles == gateway \in {"moyasar", "paymob"} =>
             \A c \in Calls : call[c].pc = "settling" =>
               call[c].write \in {"completed", "unknown", "delete"}

SInv == Settles /\ NoStuckKey

\* A step that reserves nothing and leaves owners as they are, or settles a key.
LEMMA StaysUnstuck ==
  ASSUME IInv, SInv, UNCHANGED gateway, faults' = 0 => faults = 0, Settles',
         NEW c \in Calls, Kept(c),
         \A k \in Keys : store'[k].status = "in_progress" =>
           \/ c \in Owners(k)'
           \/ /\ store[k].status = "in_progress"
              /\ c \notin Owners(k)
  PROVE  SInv'
<1> SUFFICES ASSUME gateway \in {"moyasar", "paymob"}, faults' = 0, NEW k \in Keys,
                    store'[k].status = "in_progress", c \notin Owners(k)'
             PROVE  Owners(k)' # {}
  BY DEF SInv, NoStuckKey
<1>1. store[k].status = "in_progress" /\ c \notin Owners(k)
  OBVIOUS
<1>2. PICK d \in Calls : d \in Owners(k)
  BY <1>1 DEF SInv, NoStuckKey, Owners
<1>3. d # c /\ call'[d] = call[d]
  BY <1>1, <1>2 DEF Kept
<1>4. d \in Owners(k)'
  BY <1>2, <1>3 DEF Owners
<1> QED BY <1>4

\* Settles survives a step of one call that does not come to keep its key.
LEMMA StaysSettled ==
  ASSUME SInv, UNCHANGED gateway, NEW c \in Calls, Kept(c),
         gateway \in {"moyasar", "paymob"} /\ call'[c].pc = "settling" =>
           call'[c].write \in {"completed", "unknown", "delete"}
  PROVE  Settles'
BY DEF SInv, Settles, Kept

\* Every step keeps SInv; one that could strand a key is a fault.
LEMMA NextUnstuck ==
  ASSUME IInv, SInv, [Next]_vars
  PROVE  SInv'
<1>1. TypeOK
  BY DEF IInv
<1>2. CASE UNCHANGED vars
  BY <1>2 DEF vars, SInv, Settles, NoStuckKey, Owners
<1>3. ASSUME NEW c \in Calls, Kept(c), UNCHANGED <<gateway, store>>,
             faults' = 0 => faults = 0, call'[c].pc \in {"reserving", "joined", "answered"},
             call[c].pc \in {"idle", "reserving", "joined"}
      PROVE  SInv'
  BY <1>3, StaysSettled, StaysUnstuck DEF Owners
<1>4. ASSUME NEW c \in Calls, Kept(c), SameJob(c), UNCHANGED <<gateway, store, faults>>,
             call[c].pc \in {"executing", "submitted", "resubmitted"},
             \/ call'[c].pc \in {"submitted", "resubmitted"}
             \/ /\ call'[c].pc = "settling"
                /\ gateway \in {"moyasar", "paymob"} =>
                     call'[c].write \in {"completed", "unknown", "delete"}
      PROVE  SInv'
  BY <1>4, StaysSettled, StaysUnstuck DEF Owners, SameJob
<1>5. ASSUME NEW c \in Calls, Kept(c), UNCHANGED gateway, faults' = faults + 1,
             call'[c].pc = "answered"
      PROVE  SInv'
  <2>1. faults' # 0
    BY <1>1, <1>5 DEF TypeOK
  <2> QED BY <1>5, <2>1, StaysSettled DEF SInv, NoStuckKey
<1>6. \A answer \in {"error", "refused"} \cup Results : answer \in Answers
  BY DEF Answers, Results
<1>7. \A d \in Calls : call[d].answer \in Answers
  BY <1>1 DEF TypeOK, Call
<1>8. ASSUME NEW c \in Calls, NEW p \in Processes, NEW k \in Keys, NEW f \in Prints,
             Begin(c, p, k, f)
      PROVE  SInv'
  <2>1. Kept(c) /\ call'[c].pc \in {"reserving", "joined", "answered"}
    BY <1>1, <1>8, BeginEffect
  <2>2. UNCHANGED <<gateway, store, faults>> /\ call[c].pc = "idle"
    BY <1>8 DEF Begin
  <2> QED BY <1>3, <2>1, <2>2
<1>9. ASSUME NEW c \in Calls, Join(c) PROVE SInv'
  <2>1. UNCHANGED <<gateway, store, faults>> /\ call[c].pc = "joined"
    BY <1>9 DEF Join
  <2>2. PICK maker \in Calls : Answered(c, call[maker].answer)
    BY <1>9 DEF Join
  <2>3. Kept(c) /\ call'[c].pc = "answered"
    BY <1>1, <1>7, <2>2, AnsweredEffect
  <2> QED BY <1>3, <2>1, <2>3
<1>10. ASSUME NEW c \in Calls, Reserve(c) PROVE SInv'
  <2>1. call[c].pc = "reserving" /\ UNCHANGED <<gateway, faults>>
    BY <1>10 DEF Reserve
  <2>2. CASE Answered(c, "error") /\ UNCHANGED store
    <3>1. Kept(c) /\ call'[c].pc = "answered"
      BY <1>1, <1>6, <2>2, AnsweredEffect
    <3> QED BY <1>3, <2>1, <2>2, <3>1
  <2>3. CASE /\ store' \in Reservations(call[c].key, call[c].print)
             /\ call' = [call EXCEPT ![c].pc = "executing"]
    <3>1. Kept(c) /\ SameJob(c) /\ call'[c].pc = "executing"
      <4>1. "executing" \in Stages
        BY DEF Stages
      <4> QED BY <1>1, <2>3, <4>1, StageEffect
    <3>2. store' = [store EXCEPT ![call[c].key] = InProgress(call[c].print)]
      BY <2>3 DEF Reservations
    <3>3. \A k \in Keys : k = call[c].key \/ store'[k] = store[k]
      BY <1>1, <3>2 DEF TypeOK
    <3>4. Settles'
      BY <2>1, <3>1, StaysSettled
    <3> QED BY <2>1, <3>1, <3>3, <3>4, StaysUnstuck DEF Owners, SameJob
  <2> QED BY <1>10, <2>2, <2>3 DEF Reserve
<1>11. ASSUME NEW c \in Calls, Observe(c) PROVE SInv'
  <2>1. call[c].pc = "reserving" /\ UNCHANGED <<gateway, store, faults>>
    BY <1>11 DEF Observe
  <2>2. call[c].key \in Keys
    BY <2>1 DEF IInv, WellFormed
  <2>3. store[call[c].key].status = "completed" => store[call[c].key].result \in Results
    BY <1>1, <2>2 DEF TypeOK, Record, Results
  <2>4. CASE /\ store[call[c].key].status = "completed"
             /\ Settling(c, store[call[c].key].result, "completed")
    <3>1. Kept(c) /\ call'[c].pc = "settling" /\ call'[c].write = "completed"
      BY <1>1, <2>3, <2>4, SettlingEffect DEF Ends, Writes
    <3>2. Settles'
      BY <2>1, <3>1, StaysSettled
    <3> QED BY <2>1, <3>1, <3>2, StaysUnstuck DEF Owners
  <2>5. CASE \E answer \in Answers : Answered(c, answer)
    <3>1. Kept(c) /\ call'[c].pc = "answered"
      BY <1>1, <2>5, AnsweredEffect
    <3> QED BY <1>3, <2>1, <3>1
  <2> QED BY <1>6, <1>11, <2>3, <2>4, <2>5 DEF Observe
<1>12. ASSUME NEW c \in Calls, Submit(c) \/ Resubmit(c) PROVE SInv'
  <2>1. PICK pc \in {"submitted", "resubmitted"} : call' = [call EXCEPT ![c].pc = pc]
    BY <1>12 DEF Submit, Resubmit
  <2>2. Kept(c) /\ SameJob(c) /\ call'[c].pc = pc
    <3>1. pc \in Stages
      BY DEF Stages
    <3> QED BY <1>1, <2>1, <3>1, StageEffect
  <2>3. /\ UNCHANGED <<gateway, store, faults>> /\ call[c].pc \in {"executing", "submitted"}
    BY <1>12 DEF Submit, Resubmit
  <2> QED BY <1>4, <2>2, <2>3
<1>13. ASSUME NEW c \in Calls, Preflight(c) \/ Receive(c) \/ GiveUp(c) PROVE SInv'
  <2>1. PICK end \in Ends : Settle(c, end)
    BY <1>13 DEF Preflight, Receive, GiveUp, Ends, Results
  <2>2. PICK write \in SettlingWrites(end) : Settling(c, end, write)
    BY <2>1 DEF Settle
  <2>3. /\ write \in Writes
        /\ gateway \in {"moyasar", "paymob"} => write \in {"completed", "unknown", "delete"}
    BY DEF SettlingWrites, Ends, Results, Writes
  <2>4. /\ Kept(c) /\ SameJob(c) /\ call'[c].pc = "settling" /\ call'[c].write = write
    BY <1>1, <2>2, <2>3, SettlingEffect
  <2>5. /\ UNCHANGED <<gateway, store, faults>>
        /\ call[c].pc \in {"executing", "submitted", "resubmitted"}
    BY <1>13, <2>1 DEF Settle, Preflight, Receive, GiveUp
  <2> QED BY <1>4, <2>3, <2>4, <2>5
<1>14. ASSUME NEW c \in Calls, Persist(c) \/ PersistFails(c) \/ ReserveFails(c)
       PROVE  \E answer \in Answers : Answered(c, answer)
  BY <1>6, <1>14 DEF Persist, PersistFails, ReserveFails, SettledAnswer
<1>15. ASSUME NEW c \in Calls, Persist(c) PROVE SInv'
  <2>1. call[c].pc = "settling" /\ store' = Written(c) /\ UNCHANGED <<gateway, faults>>
    BY <1>15 DEF Persist
  <2>2. Kept(c) /\ call'[c].pc = "answered"
    BY <1>1, <1>14, <1>15, AnsweredEffect
  <2>3. Settles'
    BY <2>1, <2>2, StaysSettled
  <2>4. CASE gateway \in {"moyasar", "paymob"}
    <3>1. call[c].write \in {"completed", "unknown", "delete"}
      BY <2>1, <2>4 DEF SInv, Settles
    <3>2. \A k \in Keys : store'[k].status = "in_progress" =>
            k # call[c].key /\ store'[k] = store[k]
      BY <1>1, <2>1, <3>1 DEF Written, TypeOK, Completed, Unknown, Free
    <3> QED BY <2>1, <2>2, <2>3, <3>2, StaysUnstuck DEF Owners
  <2>5. CASE gateway \notin {"moyasar", "paymob"}
    BY <2>1, <2>3, <2>5 DEF SInv, NoStuckKey
  <2> QED BY <2>4, <2>5
<1>16. ASSUME NEW c \in Calls, PersistFails(c) \/ ReserveFails(c) PROVE SInv'
  <2>1. UNCHANGED gateway /\ faults' = faults + 1
    BY <1>16 DEF PersistFails, ReserveFails, Fault
  <2>2. Kept(c) /\ call'[c].pc = "answered"
    BY <1>1, <1>14, <1>16, AnsweredEffect
  <2> QED BY <1>5, <2>1, <2>2
<1>17. ASSUME NEW c \in Calls, NEW decision \in {"done", "declined", "rejected"},
              Decide(c, decision)
       PROVE  SInv'
  BY <1>17 DEF Decide, SInv, Settles, NoStuckKey, Owners
<1>18. ASSUME NEW p \in Processes, Crash(p) PROVE SInv'
  <2>1. UNCHANGED gateway /\ faults' # 0
    BY <1>1, <1>18 DEF Crash, Fault, TypeOK
  <2>2. ASSUME NEW d \in Calls PROVE call'[d].pc = "crashed" \/ call'[d] = call[d]
    <3>1. call[d] \in Call
      BY <1>1 DEF TypeOK
    <3>2. [call[d] EXCEPT !.pc = "crashed"].pc = "crashed"
      BY <3>1 DEF Call
    <3>3. call'[d] = IF call[d].proc = p /\ call[d].pc \in Active
                     THEN [call[d] EXCEPT !.pc = "crashed"] ELSE call[d]
      BY <1>18 DEF Crash
    <3> QED BY <3>2, <3>3
  <2>3. Settles'
    BY <2>1, <2>2 DEF SInv, Settles
  <2> QED BY <2>1, <2>3 DEF SInv, NoStuckKey
<1> QED
  BY <1>2, <1>8, <1>9, <1>10, <1>11, <1>12, <1>13, <1>15, <1>16, <1>17, <1>18 DEF Next

-----------------------------------------------------------------------------

\* IInv is an invariant of the fence.
THEOREM Invariance == Spec => []IInv
<1>1. IInv /\ [Next]_vars => IInv' BY NextStep
<1> QED BY <1>1, InitInvariant, PTL DEF Spec

\* Every variable keeps its type, for any constants that meet the assumptions.
THEOREM FenceTypes == Spec => []TypeOK
<1>1. IInv => TypeOK BY DEF IInv
<1> QED BY <1>1, Invariance, PTL

\* Whatever retries, races, late provider decisions, crashes and failing store
\* operations: no key ever moves money twice.
THEOREM MoneyMovesOnce == Spec => []AppliedOnce
<1>1. IInv => AppliedOnce BY DEF IInv
<1> QED BY <1>1, Invariance, PTL

\* No step loses, replaces or downgrades a recorded result.
THEOREM ResultsAreFinal == Spec => CompletedIsFinal
<1>1. IInv /\ [Next]_vars =>
        [\A k \in Keys : store[k].status = "completed" => store'[k] = store[k]]_vars
  BY NextStep
<1> QED BY <1>1, Invariance, PTL DEF Spec, CompletedIsFinal

\* "done" means that the provider applied a request with the caller's parameters, once;
\* "declined" that it applied none and has none left to apply: also when the result
\* was replayed from the store or shared through a promise.
THEOREM AnswersHold == Spec => []AnswersAreTrue
<1>1. IInv /\ TInv => AnswersAreTrue
  <2> SUFFICES ASSUME IInv, TInv, NEW c \in Calls, call[c].answer \in Results
               PROVE  Truth(call[c].key, call[c].print, call[c].answer)
    BY DEF AnswersAreTrue, Truth, Declined, Quiet, Results
  <2>1. call[c].pc = "answered"
    BY DEF TInv, ResultsEnd
  <2>2. call[c].key \in Keys /\ call[c].print \in Prints
    BY <2>1 DEF IInv, WellFormed
  <2> QED BY <2>2 DEF TInv, KnowledgeIsTrue, Knows
<1>2. IInv /\ TInv /\ [Next]_vars => TInv' BY NextTruth
<1> QED BY <1>1, <1>2, InitTruth, Invariance, PTL DEF Spec

\* With Moyasar and Paymob no key stays in progress unless a call works on it, a
\* process died or the store failed.
THEOREM NoKeyStuck == Spec => []NoStuckKey
<1>1. Init => SInv
  BY DEF Init, SInv, Settles, NoStuckKey, Free, IdleCall
<1>2. SInv => NoStuckKey BY DEF SInv
<1>3. IInv /\ SInv /\ [Next]_vars => SInv' BY NextUnstuck
<1> QED BY <1>1, <1>2, <1>3, Invariance, PTL DEF Spec
=============================================================================
