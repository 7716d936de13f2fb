----------------------------- MODULE TransferSend -----------------------------
(***************************************************************************)
(* POST /api/transfer/send: a user-paid USDC transfer behind an            *)
(* idempotency key (lib/redis/idempotency.ts) and two sliding-window       *)
(* limits (lib/redis/rate-limiter.ts) on Redis.                            *)
(*                                                                         *)
(* Every Redis key is scoped by the sender, so the module is about one     *)
(* sender.  A request is a slot of Req, one step per await.  The clock     *)
(* measures the two windows; the TTLs of the idempotency lock (30 s) and   *)
(* of a cached answer (60 s) are far shorter and pass at any moment.       *)
(* AGENT_SIMULATION_MODE is off.                                           *)
(***************************************************************************)
EXTENDS Integers, FiniteSets

CONSTANTS
  Req,         \* request slots
  IdemKey,     \* Idempotency-Key headers
  None,        \* no header, no lock, no answer
  Token,       \* the random part of a window entry; bounds the admissions
  Hour, Day,   \* the windows, in ticks of the clock
  HandlerMax,  \* an admitted request is over after HandlerMax ticks
  HourMax,     \* transfers per hour (3)
  DayMax,      \* transfers per day (20)
  MaxTime,     \* bound of the clock
  Fault        \* "store", "sql", "crash", "receipt"; "slow": a handler
               \* outlives its lock; "forget": a cached answer's TTL ends

ASSUME TransferAssumption ==
  /\ {Hour, Day, HandlerMax, HourMax, DayMax, MaxTime} \subseteq Nat
  /\ HandlerMax < Hour /\ Hour <= Day /\ HourMax > 0 /\ DayMax > 0
  /\ IsFiniteSet(Token)
  /\ None \notin Req \cup IdemKey \cup {"success", "failed", "refused"}
  /\ None \notin Nat \X Token
  /\ Fault \subseteq {"store", "sql", "crash", "receipt", "slow", "forget"}

Time == 0 .. MaxTime
Stamp == Time \X Token    \* an entry of a window: its score and its member

VARIABLES
  req,        \* req[q]: pc, key, stamp (its hourly entry), answer
  idemLock,   \* idemLock[k]: who set <key>:lock; the value itself is "1"
  cached,     \* cached[k]: the outcome stored under <key>
  hourly,     \* the sorted set transfer_hourly:<address>
  daily,      \* the sorted set transfer:<address>
  clock,
  admitted,   \* history: every entry ever made in hourly
  sent,       \* history: the transfers submitted to the bundler
  lost        \* history: entries of successes that are never recorded

windowVars == <<hourly, daily, clock, admitted, lost>>
vars == <<req, idemLock, cached, windowVars, sent>>

Answer == {"success", "failed", "refused"}
Handling == {"session", "hourly", "daily", "execute", "record", "log"}
Bracket == Handling \cup {"settle", "drop"}
IdleReq == [pc |-> "idle", key |-> None, stamp |-> None, answer |-> None]

TypeOK ==
  /\ req \in [Req -> [pc : Bracket \cup {"idle", "lookup", "acquire"},
                      key : IdemKey \cup {None}, stamp : admitted \cup {None},
                      answer : Answer \cup {None}]]
  /\ \A q \in Req :
       /\ req[q].pc \in {"daily", "execute", "record"} => req[q].stamp \in admitted
       /\ req[q].pc \in {"record", "log", "settle"} => req[q].answer \in Answer
       /\ req[q].pc \in {"lookup", "acquire", "settle", "drop"} => req[q].key \in IdemKey
  /\ idemLock \in [IdemKey -> Req \cup {None}]
  /\ cached \in [IdemKey -> Answer \cup {None}]
  /\ hourly \subseteq admitted /\ admitted \subseteq Stamp
  /\ daily \subseteq Stamp /\ lost \subseteq admitted
  /\ clock \in Time
  /\ sent \subseteq [stamp : admitted, key : IdemKey \cup {None}, at : Time, ok : BOOLEAN]

Init ==
  /\ req = [q \in Req |-> IdleReq]
  /\ idemLock = [k \in IdemKey |-> None]
  /\ cached = [k \in IdemKey |-> None]
  /\ hourly = {} /\ daily = {} /\ clock = 0
  /\ admitted = {} /\ sent = {} /\ lost = {}

-------------------------------------------------------------------------------
At(q, p) == req[q].pc = p
Goto(q, p) == req' = [req EXCEPT ![q].pc = p]
Finish(q) == req' = [req EXCEPT ![q] = IdleReq]
Proceed(q, p, s, a) ==
  req' = [req EXCEPT ![q] = [pc |-> p, key |-> req[q].key, stamp |-> s, answer |-> a]]

(* Bound: a request starts only while there is a token for its admission. *)
MayStart ==
  Cardinality(admitted) + Cardinality({q \in Req : ~At(q, "idle") /\ req[q].stamp = None})
    < Cardinality(Token)

(* The request body was complete and its sender authenticated. *)
Start(q, k) ==
  /\ At(q, "idle") /\ MayStart
  /\ req' = [req EXCEPT ![q] = [IdleReq EXCEPT !.key = k,
               !.pc = IF k = None THEN "session" ELSE "lookup"]]
  /\ UNCHANGED <<idemLock, cached, windowVars, sent>>

(* A cached outcome is answered; so is the error of a rejected call. *)
Lookup(q) ==
  /\ At(q, "lookup")
  /\ \/ cached[req[q].key] = None /\ Goto(q, "acquire")
     \/ (cached[req[q].key] # None \/ "store" \in Fault) /\ Finish(q)
  /\ UNCHANGED <<idemLock, cached, windowVars, sent>>

(* Faulty variant of NotSet: a plain SET, without NX. *)
AlwaysSettable(k) == k \in IdemKey

NotSet(k) == idemLock[k] = None

Acquire(q) ==
  LET k == req[q].key IN
  /\ At(q, "acquire")
  /\ \/ NotSet(k) /\ Goto(q, "session") /\ idemLock' = [idemLock EXCEPT ![k] = q]
     \/ (~NotSet(k) \/ "store" \in Fault) /\ Finish(q) /\ UNCHANGED idemLock
  /\ UNCHANGED <<cached, windowVars, sent>>

(* The handler returns an outcome, or throws. *)
Return(q, a) ==
  IF req[q].key = None THEN Finish(q)
  ELSE req' = [req EXCEPT ![q].pc = "settle", ![q].answer = a]
Throw(q) == IF req[q].key = None THEN Finish(q) ELSE Goto(q, "drop")

(* No user, no usable session, or a recipient that is not allowed. *)
LoadSession(q) ==
  /\ At(q, "session")
  /\ Goto(q, "hourly") \/ Return(q, "refused") \/ ("sql" \in Fault /\ Throw(q))
  /\ UNCHANGED <<idemLock, cached, windowVars, sent>>

(* Faulty variant of Within: entries of half the window are dropped. *)
WithinHalf(w, d) == {s \in w : 2 * (clock - s[1]) < d}

(* ZREMRANGEBYSCORE key 0 now-window. *)
Within(w, d) == {s \in w : clock - s[1] < d}

(* Faulty variant of Admits: an off-by-one in the comparison. *)
AdmitsOneMore(w, d, max) == Cardinality(Within(w, d)) <= max

Admits(w, d, max) == Cardinality(Within(w, d)) < max

Fresh(tok) == \A s \in admitted : s[2] # tok

(* The Lua script cleans, counts and adds in one step.  The entry stays,   *)
(* whatever becomes of the transfer.                                       *)
Hourly(q) ==
  /\ At(q, "hourly")
  /\ \/ /\ Admits(hourly, Hour, HourMax)
        /\ \E tok \in Token :
             LET s == <<clock, tok>> IN
             /\ Fresh(tok)
             /\ hourly' = Within(hourly, Hour) \cup {s}
             /\ admitted' = admitted \cup {s}
             /\ Proceed(q, "daily", s, None)
     \/ /\ ~Admits(hourly, Hour, HourMax)
        /\ hourly' = Within(hourly, Hour)
        /\ Return(q, "refused")
        /\ UNCHANGED admitted
     \/ "store" \in Fault /\ Return(q, "refused") /\ UNCHANGED <<hourly, admitted>>
  /\ UNCHANGED <<idemLock, cached, daily, clock, sent, lost>>

(* Faulty variant of DayWindow: the daily check is given the hour. *)
DayWindowIsHour(w) == Within(w, Hour)

DayWindow(w) == Within(w, Day)

(* Checked here, recorded after the transfer.  An amount over the limit, or *)
(* parameters of the wrong shape, are refused as well.                      *)
Daily(q) ==
  /\ At(q, "daily")
  /\ \/ Return(q, "refused") /\ UNCHANGED daily
     \/ /\ daily' = DayWindow(daily)
        /\ IF Cardinality(DayWindow(daily)) < DayMax THEN Goto(q, "execute")
                                                     ELSE Return(q, "refused")
  /\ UNCHANGED <<idemLock, cached, hourly, clock, admitted, sent, lost>>

(* One batched UserOp.  The receipt of a reverted one reads as a success,  *)
(* a lost receipt as a failure.                                            *)
Execute(q) ==
  /\ At(q, "execute")
  /\ \/ Proceed(q, "log", req[q].stamp, "failed") /\ UNCHANGED sent
     \/ \E ok \in {TRUE} \cup (IF "receipt" \in Fault THEN {FALSE} ELSE {}) :
          /\ sent' = sent \cup
               {[stamp |-> req[q].stamp, key |-> req[q].key, at |-> clock, ok |-> ok]}
          /\ Proceed(q, IF ok THEN "record" ELSE "log", req[q].stamp,
                     IF ok THEN "success" ELSE "failed")
  /\ UNCHANGED <<idemLock, cached, windowVars>>

(* recordTransferAttemptRedis swallows what Redis rejects. *)
Record(q) ==
  /\ At(q, "record")
  /\ \/ daily' = daily \cup {<<clock, req[q].stamp[2]>>} /\ UNCHANGED lost
     \/ "store" \in Fault /\ lost' = lost \cup {req[q].stamp} /\ UNCHANGED daily
  /\ Goto(q, "log")
  /\ UNCHANGED <<idemLock, cached, hourly, clock, admitted, sent>>

(* The agent_actions row; a rejected INSERT makes the handler throw. *)
Log(q) ==
  /\ At(q, "log")
  /\ Return(q, req[q].answer) \/ ("sql" \in Fault /\ Throw(q))
  /\ UNCHANGED <<idemLock, cached, windowVars, sent>>

(* Faulty variant of Outcome: what was not refused counts as a success. *)
OutcomeAssumed(q) == IF req[q].answer = "refused" THEN "refused" ELSE "success"

Outcome(q) == req[q].answer

(* Cached before the lock is released; refusals and failures as well. *)
Settle(q) ==
  /\ At(q, "settle")
  /\ \/ cached' = [cached EXCEPT ![req[q].key] = Outcome(q)]
     \/ "store" \in Fault /\ UNCHANGED cached
  /\ Goto(q, "drop")
  /\ UNCHANGED <<idemLock, windowVars, sent>>

(* The finally block deletes the lock, whoever holds it by then. *)
Drop(q) ==
  /\ At(q, "drop")
  /\ \/ idemLock' = [idemLock EXCEPT ![req[q].key] = None]
     \/ "store" \in Fault /\ UNCHANGED idemLock
  /\ Finish(q)
  /\ UNCHANGED <<cached, windowVars, sent>>

(* The function instance dies; a lock it holds stays. *)
Crash(q) ==
  /\ "crash" \in Fault /\ ~At(q, "idle")
  /\ lost' = lost \cup (IF At(q, "record") THEN {req[q].stamp} ELSE {})
  /\ Finish(q)
  /\ UNCHANGED <<idemLock, cached, hourly, daily, clock, admitted, sent>>

-------------------------------------------------------------------------------
(* Time. *)

Busy(k) == {q \in Req : req[q].pc \in Bracket /\ req[q].key = k}

Lapse(k) ==
  /\ idemLock[k] # None
  /\ idemLock[k] \notin Busy(k) \/ "slow" \in Fault
  /\ idemLock' = [idemLock EXCEPT ![k] = None]
  /\ UNCHANGED <<req, cached, windowVars, sent>>

Forget(k) ==
  /\ "forget" \in Fault /\ cached[k] # None
  /\ cached' = [cached EXCEPT ![k] = None]
  /\ UNCHANGED <<req, idemLock, windowVars, sent>>

Tick ==
  /\ clock < MaxTime
  /\ \A q \in Req : req[q].stamp # None => clock - req[q].stamp[1] < HandlerMax
  /\ clock' = clock + 1
  /\ UNCHANGED <<req, idemLock, cached, hourly, daily, admitted, sent, lost>>

RequestStep(q) ==
  \/ Lookup(q) \/ Acquire(q) \/ LoadSession(q) \/ Hourly(q) \/ Daily(q)
  \/ Execute(q) \/ Record(q) \/ Log(q) \/ Settle(q) \/ Drop(q)

Next ==
  \/ \E q \in Req : RequestStep(q) \/ Crash(q) \/ \E k \in IdemKey \cup {None} : Start(q, k)
  \/ \E k \in IdemKey : Lapse(k) \/ Forget(k)
  \/ Tick

Spec == Init /\ [][Next]_vars

-------------------------------------------------------------------------------
(* A handler at work holds the lock of its key, unless it outlived it. *)
HandlerHoldsKey ==
  "slow" \notin Fault =>
    \A q \in Req : req[q].pc \in Bracket /\ req[q].key # None => idemLock[req[q].key] = q

(* No entry is dropped from the hourly set while it still counts. *)
RecentKept == \A s \in admitted : s[1] <= clock /\ (clock - s[1] < Hour => s \in hourly)

(* A success on its way into the cache has been submitted. *)
SuccessSent ==
  \A q \in Req : req[q].answer = "success" => \E s \in sent : s.key = req[q].key

(* An admission is one entry, one request and at most one transfer. *)
OneSendEach ==
  /\ \A a, b \in admitted : a[2] = b[2] => a = b
  /\ \A p, q \in Req : req[p].stamp # None /\ req[p].stamp = req[q].stamp => p = q
  /\ \A s, r \in sent : s.stamp = r.stamp => s = r
  /\ \A q \in Req, s \in sent :
       req[q].pc \in {"daily", "execute"} => s.stamp # req[q].stamp

(* An admitted request is over in time; what it submits is in the past. *)
Timely ==
  /\ \A q \in Req : req[q].stamp # None => clock - req[q].stamp[1] <= HandlerMax
  /\ \A s \in sent : s.at <= clock

(* A success that is not lost is about to be recorded, or it is recorded no *)
(* earlier than it was submitted, or its day is over.                       *)
Recorded ==
  \A s \in sent : s.ok /\ s.stamp \notin lost =>
    \/ \E q \in Req : At(q, "record") /\ req[q].stamp = s.stamp
    \/ \E d \in daily : d[2] = s.stamp[2] /\ s.at <= d[1]
    \/ clock - s.at >= Day

(* The successes of the day that ends at t, and the requests that have      *)
(* passed the daily check and not submitted yet.                            *)
Successes(t) == {s \in sent : s.ok /\ s.stamp \notin lost /\ t - Day < s.at /\ s.at <= t}
Spent(t) == {s.stamp[2] : s \in Successes(t)}
Underway == {req[q].stamp[2] : q \in {p \in Req : At(p, "execute")}}

(* Whatever the requests under way submit, the day stays within its bound. *)
DayHasRoom ==
  \A t \in Time : clock <= t =>
    Cardinality(Spent(t) \cup Underway) <= DayMax + HourMax - 1

(* The inductive invariant behind the properties below. *)
TransferInv ==
  /\ TypeOK /\ HandlerHoldsKey /\ RecentKept /\ SuccessSent
  /\ OneSendEach /\ Timely /\ Recorded /\ DayHasRoom

(* As long as no handler outlives its lock, the requests of one key are     *)
(* workers of the abstract mutex, although the release is unconditional:    *)
(* two handlers of one key are never at work together.                      *)
Mutex == INSTANCE UserMutex WITH
  User <- IdemKey, Worker <- Req, busy <- [k \in IdemKey |-> Busy(k)]

OneHandlerPerKey == Mutex!Spec

(* In every window of an hour at most HourMax requests are admitted, so no  *)
(* more transfers are submitted for them, whatever fails or is retried.     *)
HourlyLimit ==
  \A t \in Time : Cardinality({s \in admitted : t - Hour < s[1] /\ s[1] <= t}) <= HourMax

(* Check and record of the daily limit are apart; requests in flight pass   *)
(* it together, but no more than one hour admits.  (A success that Redis or *)
(* a crash keeps from being recorded is not counted.)                       *)
DailyOvershootBounded ==
  \A t \in Time : Cardinality(Successes(t)) <= DayMax + HourMax - 1

(* What a retry is told is true: a key whose cached answer is a success has *)
(* a submitted transfer.                                                    *)
CachedSuccessSent ==
  \A k \in IdemKey : cached[k] = "success" => \E s \in sent : s.key = k

(* "Executes the handler at most once within ttlSec" (idempotency.ts:4): as *)
(* long as no TTL ends, one transfer per key.                               *)
AtMostOncePerKey ==
  {"slow", "forget"} \cap Fault = {} =>
    \A k \in IdemKey : Cardinality({s \in sent : s.key = k}) <= 1

===============================================================================
