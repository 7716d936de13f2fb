-------------------------- MODULE TransferSendProofs --------------------------
(* Proofs about TransferSend, for any number of requests, keys and limits. *)
EXTENDS TransferSend, TLAPS, FiniteSetTheorems

-------------------------------------------------------------------------------
(* Steps of one request. *)

(* The slots are well-formed with respect to the admissions A. *)
SlotsOK(r, A) ==
  /\ r \in [Req -> [pc : Bracket \cup {"idle", "lookup", "acquire"},
                    key : IdemKey \cup {None}, stamp : A \cup {None},
                    answer : Answer \cup {None}]]
  /\ \A q \in Req :
       /\ r[q].pc \in {"daily", "execute", "record"} => r[q].stamp \in A
       /\ r[q].pc \in {"record", "log", "settle"} => r[q].answer \in Answer
       /\ r[q].pc \in {"lookup", "acquire", "settle", "drop"} => r[q].key \in IdemKey

(* Whatever a handler returns or throws, its slot stays well-formed. *)
LEMMA ReturnSlots ==
  ASSUME NEW A, SlotsOK(req, A), NEW q \in Req, NEW a \in Answer,
         Return(q, a) \/ Throw(q) \/ Finish(q)
  PROVE  /\ SlotsOK(req', A)
         /\ req'[q].pc \in {"idle", "settle", "drop"}
         /\ \A p \in Req \ {q} : req'[p] = req[p]
<1>1. CASE req' = [req EXCEPT ![q] = IdleReq]
  BY <1>1 DEF SlotsOK, IdleReq, Bracket, Handling
<1>2. CASE req[q].key # None /\ req' = [req EXCEPT ![q].pc = "settle", ![q].answer = a]
  BY <1>2 DEF SlotsOK, Bracket, Handling
<1>3. CASE req[q].key # None /\ req' = [req EXCEPT ![q].pc = "drop"]
  BY <1>3 DEF SlotsOK, Bracket, Handling
<1> QED
  BY <1>1, <1>2, <1>3 DEF Return, Throw, Finish, Goto

(* A request that only moves on stays well-formed. *)
LEMMA MoveSlots ==
  ASSUME NEW A, SlotsOK(req, A), NEW q \in Req, NEW p, Goto(q, p),
         \/ p \in {"session", "hourly"}
         \/ p = "acquire" /\ req[q].key \in IdemKey
         \/ p = "execute" /\ req[q].stamp \in A
         \/ p = "log" /\ req[q].answer \in Answer
         \/ p = "drop" /\ req[q].key \in IdemKey
  PROVE  SlotsOK(req', A)
  BY DEF Goto, SlotsOK, Bracket, Handling

(* Two fields of a slot change. *)
LEMMA UpdateSlots ==
  ASSUME NEW A, SlotsOK(req, A), NEW q \in Req,
         NEW p \in {"daily", "record", "log"}, NEW s \in A \cup {None}, NEW a \in Answer \cup {None},
         p \in {"daily", "record"} => s \in A, p \in {"record", "log"} => a \in Answer,
         Proceed(q, p, s, a)
  PROVE  SlotsOK(req', A)
  BY DEF Proceed, SlotsOK, Bracket, Handling

(* More admissions do no harm. *)
LEMMA MoreSlots ==
  ASSUME NEW A, NEW B, A \subseteq B, NEW r, SlotsOK(r, A)
  PROVE  SlotsOK(r, B)
<1>1. \A q \in Req : r[q] \in [pc : Bracket \cup {"idle", "lookup", "acquire"},
                    key : IdemKey \cup {None}, stamp : B \cup {None},
                    answer : Answer \cup {None}]
  BY DEF SlotsOK
<1>2. r \in [Req -> [pc : Bracket \cup {"idle", "lookup", "acquire"},
                    key : IdemKey \cup {None}, stamp : B \cup {None},
                    answer : Answer \cup {None}]]
  BY <1>1 DEF SlotsOK
<1> QED
  BY <1>2 DEF SlotsOK

(* TypeOK without the slots. *)
StoresOK ==
  /\ idemLock \in [IdemKey -> Req \cup {None}]
  /\ cached \in [IdemKey -> Answer \cup {None}]
  /\ hourly \subseteq admitted /\ admitted \subseteq Stamp
  /\ daily \subseteq Stamp /\ lost \subseteq admitted
  /\ clock \in Time
  /\ sent \subseteq [stamp : admitted, key : IdemKey \cup {None}, at : Time, ok : BOOLEAN]

(* TypeOK is about the slots and about the stores. *)
LEMMA TypeParts == TypeOK <=> SlotsOK(req, admitted) /\ StoresOK
  BY DEF TypeOK, SlotsOK, StoresOK

(* And so it is in the next state. *)
LEMMA TypePartsNext == SlotsOK(req', admitted') /\ StoresOK' => TypeOK'
  BY DEF TypeOK, SlotsOK, StoresOK

(* Every step of a request keeps the declared shapes. *)
LEMMA RequestStepType ==
  ASSUME TypeOK, NEW q \in Req, RequestStep(q)
  PROVE  SlotsOK(req', admitted') /\ StoresOK'
<1> USE TransferAssumption
<1>0. SlotsOK(req, admitted) /\ StoresOK
  BY TypeParts
<1>1. CASE Lookup(q)
  <2>1. req[q].key \in IdemKey /\ (Goto(q, "acquire") \/ Finish(q))
    BY <1>0, <1>1 DEF Lookup, At, SlotsOK
  <2>2. SlotsOK(req', admitted)
    BY <1>0, <2>1, MoveSlots, ReturnSlots DEF Answer
  <2> QED
    BY <1>0, <1>1, <2>2 DEF Lookup, StoresOK, windowVars
<1>2. CASE Acquire(q)
  <2>1. Goto(q, "session") \/ Finish(q)
    BY <1>2 DEF Acquire
  <2>2. SlotsOK(req', admitted)
    BY <1>0, <2>1, MoveSlots, ReturnSlots DEF Answer
  <2>3. idemLock' \in [IdemKey -> Req \cup {None}]
    BY <1>0, <1>2 DEF Acquire, StoresOK
  <2> QED
    BY <1>0, <1>2, <2>2, <2>3 DEF Acquire, StoresOK, windowVars
<1>3. CASE LoadSession(q)
  <2>1. Goto(q, "hourly") \/ Return(q, "refused") \/ Throw(q)
    BY <1>3 DEF LoadSession
  <2>2. SlotsOK(req', admitted)
    BY <1>0, <2>1, MoveSlots, ReturnSlots DEF Answer
  <2> QED
    BY <1>0, <1>3, <2>2 DEF LoadSession, StoresOK, windowVars
<1>4. CASE Hourly(q)
  <2>1. CASE \E tok \in Token : LET s == <<clock, tok>> IN
                /\ hourly' = Within(hourly, Hour) \cup {s}
                /\ admitted' = admitted \cup {s}
                /\ Proceed(q, "daily", s, None)
    <3>1. PICK s \in Stamp :
                /\ hourly' = Within(hourly, Hour) \cup {s}
                /\ admitted' = admitted \cup {s}
                /\ Proceed(q, "daily", s, None)
      BY <2>1, <1>0 DEF Stamp, StoresOK
    <3>2. SlotsOK(req, admitted')
      BY <1>0, <3>1, MoreSlots
    <3>3. SlotsOK(req', admitted')
      <4> DEFINE B == admitted \cup {s}
      <4>1. admitted' = B /\ s \in B
        BY <3>1
      <4>2. SlotsOK(req, B)
        BY <3>2, <4>1
      <4> HIDE DEF B
      <4>3. SlotsOK(req', B)
        BY <3>1, <4>1, <4>2, UpdateSlots
      <4> QED
        BY <4>1, <4>3
    <3>4. hourly' \subseteq admitted' /\ admitted' \subseteq Stamp /\ lost' \subseteq admitted'
      BY <1>0, <1>4, <3>1 DEF Hourly, StoresOK, Within
    <3>5. sent' \subseteq [stamp : admitted', key : IdemKey \cup {None}, at : Time, ok : BOOLEAN]
      BY <1>0, <1>4, <3>1 DEF Hourly, StoresOK
    <3> QED
      BY <1>0, <1>4, <3>3, <3>4, <3>5 DEF Hourly, StoresOK
  <2>2. CASE /\ Return(q, "refused") /\ UNCHANGED admitted
             /\ hourly' \in {hourly, Within(hourly, Hour)}
    <3>1. SlotsOK(req', admitted')
      BY <1>0, <2>2, ReturnSlots DEF Answer
    <3> QED
      BY <1>0, <1>4, <2>2, <3>1 DEF Hourly, StoresOK, Within
  <2> QED
    BY <1>4, <2>1, <2>2 DEF Hourly
<1>5. CASE Daily(q)
  <2>1. req[q].stamp \in admitted /\ (Return(q, "refused") \/ Goto(q, "execute"))
    BY <1>0, <1>5 DEF Daily, At, SlotsOK
  <2>2. daily' \subseteq daily
    BY <1>5 DEF Daily, DayWindow, Within
  <2>3. SlotsOK(req', admitted)
    BY <1>0, <2>1, MoveSlots, ReturnSlots DEF Answer
  <2> QED
    BY <1>0, <1>5, <2>2, <2>3 DEF Daily, StoresOK
<1>6. CASE Execute(q)
  <2>1. req[q].stamp \in admitted /\ req[q].key \in IdemKey \cup {None} /\ clock \in Time
    BY <1>0, <1>6 DEF Execute, At, SlotsOK, StoresOK
  <2>2. SlotsOK(req', admitted)
    <3>1. CASE Proceed(q, "log", req[q].stamp, "failed")
      BY <1>0, <2>1, <3>1, UpdateSlots DEF Answer
    <3>2. CASE Proceed(q, "record", req[q].stamp, "success")
      BY <1>0, <2>1, <3>2, UpdateSlots DEF Answer
    <3> QED
      BY <1>6, <3>1, <3>2 DEF Execute
  <2>3. sent' \subseteq [stamp : admitted, key : IdemKey \cup {None}, at : Time, ok : BOOLEAN]
    <3>1. CASE UNCHANGED sent
      BY <1>0, <3>1 DEF StoresOK
    <3>2. CASE \E ok \in BOOLEAN : sent' = sent \cup
                 {[stamp |-> req[q].stamp, key |-> req[q].key, at |-> clock, ok |-> ok]}
      BY <1>0, <2>1, <3>2 DEF StoresOK
    <3> QED
      BY <1>6, <3>1, <3>2 DEF Execute
  <2> QED
    BY <1>0, <1>6, <2>2, <2>3 DEF Execute, StoresOK, windowVars
<1>7. CASE Record(q)
  <2>1. req[q].stamp \in admitted /\ req[q].answer \in Answer
    BY <1>0, <1>7 DEF Record, At, SlotsOK
  <2>2. SlotsOK(req', admitted)
    BY <1>0, <1>7, <2>1, MoveSlots DEF Record
  <2>3. <<clock, req[q].stamp[2]>> \in Stamp
    BY <1>0, <2>1 DEF StoresOK, Stamp
  <2> QED
    BY <1>0, <1>7, <2>1, <2>2, <2>3 DEF Record, StoresOK
<1>8. CASE Log(q)
  <2>1. req[q].answer \in Answer /\ (Return(q, req[q].answer) \/ Throw(q))
    BY <1>0, <1>8 DEF Log, At, SlotsOK
  <2>2. SlotsOK(req', admitted)
    BY <1>0, <2>1, ReturnSlots
  <2> QED
    BY <1>0, <1>8, <2>2 DEF Log, StoresOK, windowVars
<1>9. CASE Settle(q)
  <2>1. req[q].answer \in Answer /\ req[q].key \in IdemKey
    BY <1>0, <1>9 DEF Settle, At, SlotsOK
  <2>2. SlotsOK(req', admitted)
    BY <1>0, <1>9, <2>1, MoveSlots DEF Settle
  <2>3. cached' \in [IdemKey -> Answer \cup {None}]
    BY <1>0, <1>9, <2>1 DEF Settle, StoresOK, Outcome
  <2> QED
    BY <1>0, <1>9, <2>2, <2>3 DEF Settle, StoresOK, windowVars
<1>10. CASE Drop(q)
  <2>1. SlotsOK(req', admitted)
    BY <1>0, <1>10, ReturnSlots DEF Drop, Answer
  <2>2. idemLock' \in [IdemKey -> Req \cup {None}]
    BY <1>0, <1>10 DEF Drop, StoresOK
  <2> QED
    BY <1>0, <1>10, <2>1, <2>2 DEF Drop, StoresOK, windowVars
<1> QED
  BY <1>1, <1>2, <1>3, <1>4, <1>5, <1>6, <1>7, <1>8, <1>9, <1>10 DEF RequestStep

(* So does every other step. *)
LEMMA StepType == TypeOK /\ [Next]_vars => TypeOK'
<1> SUFFICES ASSUME TypeOK, [Next]_vars PROVE SlotsOK(req', admitted') /\ StoresOK'
  BY TypePartsNext
<1> USE TransferAssumption
<1>0. SlotsOK(req, admitted) /\ StoresOK
  BY TypeParts
<1>1. ASSUME NEW q \in Req, Crash(q) PROVE SlotsOK(req', admitted') /\ StoresOK'
  <2>1. SlotsOK(req', admitted)
    BY <1>0, <1>1, ReturnSlots DEF Crash, Answer
  <2>2. At(q, "record") => req[q].stamp \in admitted
    BY <1>0 DEF At, SlotsOK
  <2> QED
    BY <1>0, <1>1, <2>1, <2>2 DEF Crash, StoresOK
<1>2. ASSUME NEW q \in Req, NEW k \in IdemKey \cup {None}, Start(q, k)
      PROVE  SlotsOK(req', admitted') /\ StoresOK'
  <2>1. SlotsOK(req', admitted)
    BY <1>0, <1>2 DEF Start, IdleReq, SlotsOK, Bracket, Handling
  <2> QED
    BY <1>0, <1>2, <2>1 DEF Start, StoresOK, windowVars
<1>3. ASSUME NEW k \in IdemKey, Lapse(k) \/ Forget(k)
      PROVE  SlotsOK(req', admitted') /\ StoresOK'
  BY <1>0, <1>3 DEF Lapse, Forget, StoresOK, windowVars
<1>4. CASE Tick
  <2>1. clock' \in Time
    BY <1>0, <1>4 DEF Tick, StoresOK, Time
  <2> QED
    BY <1>0, <1>4, <2>1 DEF Tick, StoresOK
<1>5. CASE UNCHANGED vars
  BY <1>0, <1>5 DEF vars, windowVars, StoresOK
<1> QED
  BY <1>1, <1>2, <1>3, <1>4, <1>5, RequestStepType DEF Next

-------------------------------------------------------------------------------
(* Types. *)

(* The initial state has the declared shapes. *)
LEMMA InitType == Init => TypeOK
  BY TransferAssumption DEF Init, TypeOK, IdleReq, Bracket, Handling, Time

(* Every reachable state has the declared shapes: a handler past its       *)
(* admission has an entry, one past its transfer an answer, and so on.     *)
THEOREM TransferTypes == Spec => []TypeOK
  BY InitType, StepType, PTL DEF Spec

-------------------------------------------------------------------------------
(* The hourly limit. *)

WindowOf(A, t) == {s \in A : t - Hour < s[1] /\ s[1] <= t}

(* What makes HourlyLimit inductive: the entries that still count are in   *)
(* the set the script counts.                                              *)
HourlyInv == TypeOK /\ RecentKept /\ HourlyLimit /\ IsFiniteSet(admitted)

(* One more element is at most one more in number. *)
LEMMA OneMore ==
  ASSUME NEW S, IsFiniteSet(S), NEW x
  PROVE  Cardinality(S \cup {x}) <= Cardinality(S) + 1
<1>1. Cardinality(S) \in Nat
  BY FS_CardinalityType
<1>2. Cardinality(S \cup {x}) = IF x \in S THEN Cardinality(S) ELSE Cardinality(S) + 1
  BY FS_AddElement
<1> QED
  BY <1>1, <1>2, SMT

(* A step either admits one request, when the count of the entries of the  *)
(* last hour allows it, or drops at most entries that are older.           *)
LEMMA HourlySteps ==
  ASSUME TypeOK, [Next]_vars
  PROVE  \/ /\ Admits(hourly, Hour, HourMax) /\ clock' = clock
            /\ \E tok \in Token : /\ hourly' = Within(hourly, Hour) \cup {<<clock, tok>>}
                                  /\ admitted' = admitted \cup {<<clock, tok>>}
         \/ /\ UNCHANGED admitted /\ clock' \in {clock, clock + 1}
            /\ hourly' \in {hourly, Within(hourly, Hour)}
<1>1. ASSUME NEW q \in Req, Hourly(q)
      PROVE  \/ /\ Admits(hourly, Hour, HourMax) /\ clock' = clock
                /\ \E tok \in Token : /\ hourly' = Within(hourly, Hour) \cup {<<clock, tok>>}
                                      /\ admitted' = admitted \cup {<<clock, tok>>}
             \/ /\ UNCHANGED <<admitted, clock>>
                /\ hourly' \in {hourly, Within(hourly, Hour)}
  BY <1>1 DEF Hourly
<1>2. ASSUME NEW q \in Req, RequestStep(q) \/ Crash(q), ~Hourly(q)
      PROVE  UNCHANGED <<hourly, clock, admitted>>
  BY <1>2 DEF RequestStep, Crash, Lookup, Acquire, LoadSession, Daily, Execute, Record,
              Log, Settle, Drop, windowVars
<1>3. ASSUME NEW q \in Req, NEW k \in IdemKey \cup {None}, Start(q, k)
      PROVE  UNCHANGED <<hourly, clock, admitted>>
  BY <1>3 DEF Start, windowVars
<1>4. ASSUME NEW k \in IdemKey, Lapse(k) \/ Forget(k)
      PROVE  UNCHANGED <<hourly, clock, admitted>>
  BY <1>4 DEF Lapse, Forget, windowVars
<1>5. CASE Tick
  BY <1>5 DEF Tick
<1>6. CASE UNCHANGED vars
  BY <1>6 DEF vars, windowVars
<1> QED
  BY <1>1, <1>2, <1>3, <1>4, <1>5, <1>6 DEF Next

(* Entries that still count stay in the hourly set, and no window of an    *)
(* hour fills beyond the limit.                                            *)
LEMMA HourlyStep == HourlyInv /\ [Next]_vars => HourlyInv'
<1> SUFFICES ASSUME HourlyInv, [Next]_vars PROVE HourlyInv'
  OBVIOUS
<1> USE TransferAssumption
<1>0. TypeOK /\ TypeOK' /\ RecentKept /\ HourlyLimit /\ IsFiniteSet(admitted)
  BY StepType DEF HourlyInv
<1>1. clock \in Nat /\ \A s \in admitted : s[1] \in Nat
  BY <1>0 DEF TypeOK, Stamp, Time
<1>2. CASE /\ UNCHANGED admitted /\ clock' \in {clock, clock + 1}
           /\ hourly' \in {hourly, Within(hourly, Hour)}
  <2>1. RecentKept'
    BY <1>0, <1>1, <1>2 DEF RecentKept, Within
  <2>2. HourlyLimit'
    BY <1>0, <1>2 DEF HourlyLimit
  <2> QED
    BY <1>0, <1>2, <2>1, <2>2 DEF HourlyInv
<1>3. ASSUME NEW tok \in Token, clock' = clock, Admits(hourly, Hour, HourMax),
             hourly' = Within(hourly, Hour) \cup {<<clock, tok>>},
             admitted' = admitted \cup {<<clock, tok>>}
      PROVE  HourlyInv'
  <2> DEFINE new == <<clock, tok>>
  <2>1. RecentKept'
    BY <1>0, <1>1, <1>3 DEF RecentKept, Within
  <2>2. IsFiniteSet(admitted')
    BY <1>0, <1>3, FS_AddElement
  <2>3. ASSUME NEW t \in Time PROVE Cardinality(WindowOf(admitted', t)) <= HourMax
    <3> t \in Nat /\ Hour \in Nat /\ HourMax \in Nat
      BY DEF Time
    <3>1. CASE WindowOf(admitted', t) = WindowOf(admitted, t)
      BY <1>0, <3>1 DEF HourlyLimit, WindowOf
    <3>2. CASE t - Hour < clock /\ clock <= t
      <4>1. WindowOf(admitted, t) \subseteq Within(hourly, Hour)
        BY <1>0, <1>1, <3>2 DEF RecentKept, Within, WindowOf
      <4>2. IsFiniteSet(Within(hourly, Hour))
        <5>1. Within(hourly, Hour) \in SUBSET admitted
          BY <1>0 DEF TypeOK, Within
        <5> QED
          BY <1>0, <5>1, FS_Subset
      <4>3. /\ IsFiniteSet(WindowOf(admitted, t))
            /\ Cardinality(WindowOf(admitted, t)) <= Cardinality(Within(hourly, Hour))
        BY <4>1, <4>2, FS_Subset
      <4>4. WindowOf(admitted', t) = WindowOf(admitted, t) \cup {new}
        BY <1>1, <1>3, <3>2 DEF WindowOf
      <4>5. Cardinality(WindowOf(admitted', t)) <= Cardinality(WindowOf(admitted, t)) + 1
        BY <4>3, <4>4, OneMore
      <4>6. /\ Cardinality(WindowOf(admitted, t)) \in Nat
            /\ Cardinality(Within(hourly, Hour)) \in Nat
            /\ Cardinality(WindowOf(admitted', t)) \in Nat
        BY <4>2, <4>3, <4>4, FS_AddElement, FS_CardinalityType
      <4> QED
        BY <1>3, <4>3, <4>5, <4>6 DEF Admits
    <3>3. CASE ~(t - Hour < clock /\ clock <= t)
      <4>1. WindowOf(admitted', t) = WindowOf(admitted, t)
        BY <1>1, <1>3, <3>3 DEF WindowOf
      <4> QED
        BY <3>1, <4>1
    <3> QED
      BY <3>2, <3>3
  <2>4. HourlyLimit'
    BY <2>3 DEF HourlyLimit, WindowOf, Time
  <2> QED
    BY <1>0, <2>1, <2>2, <2>4 DEF HourlyInv
<1> QED
  BY <1>0, <1>2, <1>3, HourlySteps

(* Initially no window holds anything. *)
LEMMA InitHourly == Init => HourlyInv
<1>1. ASSUME Init, NEW t \in Time PROVE Cardinality(WindowOf(admitted, t)) <= HourMax
  <2>1. WindowOf(admitted, t) = {}
    BY <1>1 DEF Init, WindowOf
  <2>2. Cardinality({}) = 0 /\ HourMax \in Nat
    BY FS_EmptySet, TransferAssumption
  <2> QED
    BY <2>1, <2>2
<1>2. Init => HourlyLimit
  BY <1>1 DEF HourlyLimit, WindowOf
<1> QED
  BY <1>2, InitType, FS_EmptySet DEF HourlyInv, RecentKept, Init

(* However requests interleave, fail, crash or are retried, no window of   *)
(* an hour admits more than HourMax transfers (rate-limiter.ts:157-221).   *)
THEOREM HourlyLimitHolds == Spec => []HourlyLimit
  BY InitHourly, HourlyStep, PTL DEF Spec, HourlyInv

-------------------------------------------------------------------------------
(* One handler per key. *)

(* An assignment to one slot leaves the others alone, and its key too,     *)
(* unless the request is over.                                             *)
LEMMA SlotShape ==
  ASSUME NEW A, SlotsOK(req, A), NEW q \in Req, NEW p, NEW s, NEW a,
         Goto(q, p) \/ Proceed(q, p, s, a) \/ Return(q, a) \/ Throw(q) \/ Finish(q)
  PROVE  /\ \A x \in Req \ {q} : req'[x] = req[x]
         /\ req'[q] = IdleReq \/ req'[q].key = req[q].key
         /\ req'[q].answer \in {None, req[q].answer, a}
<1>1. CASE req' = [req EXCEPT ![q] = IdleReq]
  BY <1>1 DEF SlotsOK, IdleReq
<1>2. CASE Goto(q, p) \/ Goto(q, "drop")
  BY <1>2 DEF Goto, SlotsOK
<1>3. CASE req' = [req EXCEPT ![q].pc = "settle", ![q].answer = a]
  BY <1>3 DEF SlotsOK
<1>4. CASE Proceed(q, p, s, a)
  BY <1>4 DEF Proceed, SlotsOK
<1> QED
  BY <1>1, <1>2, <1>3, <1>4 DEF Return, Throw, Finish

(* A handler step: the request stays in its bracket, with its key, or is   *)
(* over, and the locks are as they were.                                   *)
HandlerStep(q) ==
  /\ req[q].pc \in Bracket
  /\ \A x \in Req \ {q} : req'[x] = req[x]
  /\ req'[q] = IdleReq \/ req'[q].key = req[q].key
  /\ UNCHANGED idemLock

(* The steps of a request between its Acquire and its Drop are of that     *)
(* kind, and only Execute makes the answer a success.                      *)
LEMMA HandlerSteps ==
  ASSUME TypeOK, NEW q \in Req,
         \/ LoadSession(q) \/ Hourly(q) \/ Daily(q) \/ Execute(q) \/ Record(q)
         \/ Log(q) \/ Settle(q)
  PROVE  /\ HandlerStep(q)
         /\ req'[q].answer = "success" => req[q].answer = "success" \/ Execute(q)
<1>0. SlotsOK(req, admitted)
  BY TypeParts
<1> USE TransferAssumption
<1>1. CASE LoadSession(q)
  <2>1. Goto(q, "hourly") \/ Return(q, "refused") \/ Throw(q)
    BY <1>1 DEF LoadSession
  <2>2. /\ \A x \in Req \ {q} : req'[x] = req[x]
        /\ req'[q] = IdleReq \/ req'[q].key = req[q].key
        /\ req'[q].answer \in {None, req[q].answer, "refused"}
    BY <1>0, <2>1, SlotShape
  <2> QED
    BY <1>1, <2>2 DEF LoadSession, At, HandlerStep, Bracket, Handling
<1>2. CASE Hourly(q)
  <2>1. (\E s : Proceed(q, "daily", s, None)) \/ Return(q, "refused")
    BY <1>2 DEF Hourly
  <2>2. /\ \A x \in Req \ {q} : req'[x] = req[x]
        /\ req'[q] = IdleReq \/ req'[q].key = req[q].key
        /\ req'[q].answer \in {None, req[q].answer, "refused"}
    BY <1>0, <2>1, SlotShape
  <2> QED
    BY <1>2, <2>2 DEF Hourly, At, HandlerStep, Bracket, Handling
<1>3. CASE Daily(q)
  <2>1. Return(q, "refused") \/ Goto(q, "execute")
    BY <1>3 DEF Daily
  <2>2. /\ \A x \in Req \ {q} : req'[x] = req[x]
        /\ req'[q] = IdleReq \/ req'[q].key = req[q].key
        /\ req'[q].answer \in {None, req[q].answer, "refused"}
    BY <1>0, <2>1, SlotShape
  <2> QED
    BY <1>3, <2>2 DEF Daily, At, HandlerStep, Bracket, Handling
<1>4. CASE Execute(q)
  <2>1. \E p, s, a : Proceed(q, p, s, a)
    BY <1>4 DEF Execute
  <2>2. /\ \A x \in Req \ {q} : req'[x] = req[x]
        /\ req'[q] = IdleReq \/ req'[q].key = req[q].key
    BY <1>0, <2>1, SlotShape
  <2> QED
    BY <1>4, <2>2 DEF Execute, At, HandlerStep, Bracket, Handling
<1>5. CASE Record(q) \/ Settle(q)
  <2>1. \E p : Goto(q, p)
    BY <1>5 DEF Record, Settle
  <2>2. /\ \A x \in Req \ {q} : req'[x] = req[x]
        /\ req'[q] = IdleReq \/ req'[q].key = req[q].key
        /\ req'[q].answer \in {None, req[q].answer, "refused"}
    BY <1>0, <2>1, SlotShape
  <2> QED
    BY <1>5, <2>2 DEF Record, Settle, At, HandlerStep, Bracket, Handling, windowVars
<1>6. CASE Log(q)
  <2>1. Return(q, req[q].answer) \/ Throw(q)
    BY <1>6 DEF Log
  <2>2. /\ \A x \in Req \ {q} : req'[x] = req[x]
        /\ req'[q] = IdleReq \/ req'[q].key = req[q].key
        /\ req'[q].answer \in {None, req[q].answer}
    BY <1>0, <2>1, SlotShape
  <2> QED
    BY <1>6, <2>2 DEF Log, At, HandlerStep, Bracket, Handling
<1> QED
  BY <1>1, <1>2, <1>3, <1>4, <1>5, <1>6

KeyInv == TypeOK /\ HandlerHoldsKey
busyWith == [k \in IdemKey |-> Busy(k)]

(* Steps that end the handling of some requests, or change nobody's.       *)
LEMMA FewerBusy ==
  ASSUME \A q \in Req : req'[q].pc \in Bracket /\ req'[q].key # None =>
           req[q].pc \in Bracket /\ req[q].key = req'[q].key,
         \E W \in SUBSET Req :
           /\ \A q \in W : req'[q].pc \notin Bracket
           /\ \A q \in Req \ W : req[q].pc \in Bracket =>
                req'[q].pc \in Bracket /\ req'[q].key = req[q].key
  PROVE  Mutex!Next
<1>1. PICK W \in SUBSET Req :
           /\ \A q \in W : req'[q].pc \notin Bracket
           /\ \A q \in Req \ W : req[q].pc \in Bracket =>
                req'[q].pc \in Bracket /\ req'[q].key = req[q].key
  OBVIOUS
<1>2. \A k \in IdemKey : Busy(k)' = Busy(k) \ W
  BY <1>1, TransferAssumption DEF Busy
<1>3. Mutex!Leave(W)
  BY <1>2 DEF Mutex!Leave
<1> QED
  BY <1>3 DEF Mutex!Next

(* Every step keeps the handlers and the locks together, and is a step of  *)
(* the abstract mutex or none.                                             *)
LEMMA KeyStep ==
  ASSUME "slow" \notin Fault, KeyInv, [Next]_vars
  PROVE  KeyInv' /\ [Mutex!Next]_busyWith
<1> USE TransferAssumption
<1>0. TypeOK /\ TypeOK' /\ HandlerHoldsKey /\ SlotsOK(req, admitted)
  BY StepType, TypeParts DEF KeyInv
<1>i. "idle" \notin Bracket /\ "lookup" \notin Bracket /\ "acquire" \notin Bracket
  BY DEF Bracket, Handling
<1>1. ASSUME NEW q \in Req, HandlerStep(q) PROVE KeyInv' /\ [Mutex!Next]_busyWith
  <2>1. HandlerHoldsKey'
    BY <1>0, <1>i, <1>1 DEF HandlerStep, HandlerHoldsKey, IdleReq
  <2>2. Mutex!Next
    <3>1. CASE req'[q].pc \in Bracket
      <4>1. \A x \in Req : req[x].pc \in Bracket =>
              req'[x].pc \in Bracket /\ req'[x].key = req[x].key
        BY <1>1, <1>i, <3>1 DEF HandlerStep, IdleReq
      <4>2. \A x \in Req : req'[x].pc \in Bracket =>
              req[x].pc \in Bracket /\ req'[x].key = req[x].key
        BY <1>1, <1>i, <3>1 DEF HandlerStep, IdleReq
      <4>3. {} \in SUBSET Req
        OBVIOUS
      <4> QED
        BY <4>1, <4>2, <4>3, FewerBusy
    <3>2. CASE req'[q].pc \notin Bracket
      <4>1. {q} \in SUBSET Req
        OBVIOUS
      <4> QED
        BY <1>1, <3>2, <4>1, FewerBusy DEF HandlerStep, IdleReq
    <3> QED
      BY <3>1, <3>2
  <2> QED
    BY <1>0, <2>1, <2>2 DEF KeyInv
<1>2. ASSUME NEW q \in Req, Lookup(q) PROVE KeyInv' /\ [Mutex!Next]_busyWith
  <2>1. /\ req[q].pc = "lookup" /\ UNCHANGED idemLock
        /\ req'[q].pc \in {"idle", "acquire"}
        /\ \A x \in Req \ {q} : req'[x] = req[x]
    BY <1>0, <1>2 DEF Lookup, At, Goto, Finish, IdleReq, SlotsOK
  <2>2. HandlerHoldsKey'
    BY <1>0, <1>i, <2>1 DEF HandlerHoldsKey
  <2>3. Mutex!Next
    <3>1. {} \in SUBSET Req
      OBVIOUS
    <3> QED
      BY <1>i, <2>1, <3>1, FewerBusy
  <2> QED
    BY <1>0, <2>2, <2>3 DEF KeyInv
<1>3. ASSUME NEW q \in Req, Acquire(q) PROVE KeyInv' /\ [Mutex!Next]_busyWith
  <2> DEFINE k == req[q].key
  <2>0. k \in IdemKey /\ k # None /\ req[q].pc = "acquire"
    BY <1>0, <1>3 DEF Acquire, At, SlotsOK
  <2>1. CASE Finish(q) /\ UNCHANGED idemLock
    <3>1. req'[q].pc = "idle" /\ \A x \in Req \ {q} : req'[x] = req[x]
      BY <1>0, <2>1 DEF Finish, IdleReq, SlotsOK
    <3>2. HandlerHoldsKey'
      BY <1>0, <1>i, <2>1, <3>1 DEF HandlerHoldsKey
    <3>3. Mutex!Next
      <4>1. {} \in SUBSET Req
        OBVIOUS
      <4> QED
        BY <1>i, <2>0, <3>1, <4>1, FewerBusy
    <3> QED
      BY <1>0, <3>2, <3>3 DEF KeyInv
  <2>2. CASE NotSet(k) /\ Goto(q, "session") /\ idemLock' = [idemLock EXCEPT ![k] = q]
    <3>1. /\ req'[q].pc = "session" /\ req'[q].key = k
          /\ \A x \in Req \ {q} : req'[x] = req[x]
      BY <1>0, <2>2 DEF Goto, SlotsOK
    <3>2. Busy(k) = {}
      BY <1>0, <2>0, <2>2 DEF HandlerHoldsKey, NotSet, Busy
    <3>3. /\ idemLock'[k] = q
          /\ \A j \in IdemKey \ {k} : idemLock'[j] = idemLock[j]
      BY <1>0, <2>0, <2>2 DEF TypeOK
    <3>4. HandlerHoldsKey'
      <4>1. ASSUME NEW x \in Req, req'[x].pc \in Bracket, req'[x].key # None
            PROVE  idemLock'[req'[x].key] = x
        <5>1. CASE x = q
          BY <3>1, <3>3, <5>1
        <5>2. CASE x # q
          <6>1. req[x].key \in IdemKey /\ req[x].key # k /\ idemLock[req[x].key] = x
            BY <1>0, <3>1, <3>2, <4>1, <5>2 DEF HandlerHoldsKey, Busy, SlotsOK
          <6> QED
            BY <3>1, <3>3, <5>2, <6>1
        <5> QED
          BY <5>1, <5>2
      <4> QED
        BY <4>1 DEF HandlerHoldsKey
    <3>5. Mutex!Enter(q, k)
      <4>1. busyWith[k] = {} /\ \A j \in IdemKey : q \notin busyWith[j]
        BY <1>i, <2>0, <3>2 DEF busyWith, Busy
      <4>2. \A j \in IdemKey : Busy(j)' = IF j = k THEN {q} ELSE Busy(j)
        <5>1. "session" \in Bracket
          BY DEF Bracket, Handling
        <5> QED
          BY <1>i, <2>0, <3>1, <3>2, <5>1 DEF Busy
      <4>3. busyWith' = [busyWith EXCEPT ![k] = {q}]
        BY <4>2 DEF busyWith
      <4> QED
        BY <2>0, <4>1, <4>3 DEF Mutex!Enter, busyWith
    <3> QED
      BY <1>0, <2>0, <3>4, <3>5 DEF KeyInv, Mutex!Next
  <2> QED
    BY <1>3, <2>1, <2>2 DEF Acquire
<1>4. ASSUME NEW q \in Req, Drop(q) PROVE KeyInv' /\ [Mutex!Next]_busyWith
  <2>1. /\ req[q].pc = "drop" /\ req[q].key \in IdemKey /\ req'[q].pc = "idle"
        /\ \A x \in Req \ {q} : req'[x] = req[x]
    BY <1>0, <1>4 DEF Drop, At, Finish, IdleReq, SlotsOK
  <2>2. "drop" \in Bracket
    BY DEF Bracket
  <2>3. idemLock[req[q].key] = q
    BY <1>0, <2>1, <2>2 DEF HandlerHoldsKey
  <2>4. \A j \in IdemKey \ {req[q].key} : idemLock'[j] = idemLock[j]
    BY <1>0, <1>4 DEF Drop, TypeOK
  <2>5. HandlerHoldsKey'
    <3>1. ASSUME NEW x \in Req, req'[x].pc \in Bracket, req'[x].key # None
          PROVE  idemLock'[req'[x].key] = x
      <4>1. x # q /\ req'[x] = req[x] /\ req[x].key \in IdemKey
        BY <1>0, <1>i, <2>1, <3>1 DEF SlotsOK
      <4>2. idemLock[req[x].key] = x /\ req[x].key # req[q].key
        BY <1>0, <2>3, <3>1, <4>1 DEF HandlerHoldsKey
      <4> QED
        BY <2>4, <4>1, <4>2
    <3> QED
      BY <3>1 DEF HandlerHoldsKey
  <2>6. Mutex!Next
    <3>1. {q} \in SUBSET Req
      OBVIOUS
    <3> QED
      BY <1>i, <2>1, <3>1, FewerBusy
  <2> QED
    BY <1>0, <2>5, <2>6 DEF KeyInv
<1>5. ASSUME NEW q \in Req, Crash(q) PROVE KeyInv' /\ [Mutex!Next]_busyWith
  <2>1. /\ req'[q].pc = "idle" /\ UNCHANGED idemLock
        /\ \A x \in Req \ {q} : req'[x] = req[x]
    BY <1>0, <1>5 DEF Crash, Finish, IdleReq, SlotsOK
  <2>2. HandlerHoldsKey'
    BY <1>0, <1>i, <2>1 DEF HandlerHoldsKey
  <2>3. Mutex!Next
    <3>1. {q} \in SUBSET Req
      OBVIOUS
    <3> QED
      BY <1>i, <2>1, <3>1, FewerBusy
  <2> QED
    BY <1>0, <2>2, <2>3 DEF KeyInv
<1>6. ASSUME NEW q \in Req, NEW k \in IdemKey \cup {None}, Start(q, k)
      PROVE  KeyInv' /\ [Mutex!Next]_busyWith
  <2>1. /\ req[q].pc = "idle" /\ UNCHANGED idemLock
        /\ req'[q].pc \notin Bracket \/ req'[q].key = None
        /\ \A x \in Req \ {q} : req'[x] = req[x]
    BY <1>0, <1>i, <1>6 DEF Start, At, IdleReq, SlotsOK
  <2>2. HandlerHoldsKey'
    BY <1>0, <1>i, <2>1 DEF HandlerHoldsKey
  <2>3. Mutex!Next
    <3>1. {} \in SUBSET Req
      OBVIOUS
    <3> QED
      BY <1>i, <2>1, <3>1, FewerBusy
  <2> QED
    BY <1>0, <2>2, <2>3 DEF KeyInv
<1>7. ASSUME NEW k \in IdemKey, Lapse(k) PROVE KeyInv' /\ [Mutex!Next]_busyWith
  <2>1. idemLock[k] \notin Busy(k) /\ UNCHANGED req
        /\ idemLock' = [idemLock EXCEPT ![k] = None]
    BY <1>7 DEF Lapse
  <2>2. HandlerHoldsKey'
    BY <1>0, <2>1 DEF HandlerHoldsKey, Busy, TypeOK
  <2>3. UNCHANGED busyWith
    BY <2>1 DEF busyWith, Busy
  <2> QED
    BY <1>0, <2>2, <2>3 DEF KeyInv
<1>8. ASSUME UNCHANGED <<req, idemLock>> PROVE KeyInv' /\ [Mutex!Next]_busyWith
  <2>1. HandlerHoldsKey' /\ UNCHANGED busyWith
    BY <1>0, <1>8 DEF HandlerHoldsKey, busyWith, Busy
  <2> QED
    BY <1>0, <2>1 DEF KeyInv
<1>9. ASSUME NEW k \in IdemKey, Forget(k) PROVE UNCHANGED <<req, idemLock>>
  BY <1>9 DEF Forget
<1>10. CASE Tick \/ UNCHANGED vars
  BY <1>8, <1>10 DEF Tick, vars
<1> QED
  BY <1>0, <1>1, <1>2, <1>3, <1>4, <1>5, <1>6, <1>7, <1>8, <1>9, <1>10, HandlerSteps
     DEF Next, RequestStep

(* While no handler outlives the 30 s of its lock, two requests with one   *)
(* key are never at work together (idempotency.ts:73-87), although the     *)
(* release deletes the lock whoever holds it.                              *)
THEOREM HandlersExclude == "slow" \notin Fault => (Spec => OneHandlerPerKey)
<1> SUFFICES ASSUME "slow" \notin Fault PROVE Spec => Mutex!Spec
  BY DEF OneHandlerPerKey
<1>1. Init => KeyInv
  BY InitType DEF Init, KeyInv, HandlerHoldsKey, IdleReq
<1>2. Init => Mutex!Init
  BY DEF Init, Mutex!Init, Busy, IdleReq, Bracket, Handling
<1>3. KeyInv /\ [Next]_vars => KeyInv' /\ [Mutex!Next]_busyWith
  BY KeyStep
<1> QED
  BY <1>1, <1>2, <1>3, PTL DEF Spec, Mutex!Spec, busyWith

(* The promise of the abstract mutex, carried over by the refinement: no two  *)
(* requests are at work for a key.                                            *)
LEMMA MutexExcludes == Mutex!Spec => []Mutex!Exclusive
<1> DEFINE b == [k \in IdemKey |-> Busy(k)]
<1>1. Mutex!Init => Mutex!Exclusive
  BY DEF Mutex!Init, Mutex!Exclusive
<1>2. ASSUME Mutex!Exclusive, [Mutex!Next]_b PROVE Mutex!Exclusive'
  <2>1. /\ \A u \in IdemKey : \A v, w \in Busy(u) : v = w
        /\ \A u, x \in IdemKey : u # x => Busy(u) \cap Busy(x) = {}
    BY <1>2 DEF Mutex!Exclusive
  <2> SUFFICES /\ \A u \in IdemKey : \A v, w \in Busy(u)' : v = w
               /\ \A u, x \in IdemKey : u # x => Busy(u)' \cap Busy(x)' = {}
    BY DEF Mutex!Exclusive
  <2>2. ASSUME NEW w, NEW u \in IdemKey, Mutex!Enter(w, u)
        PROVE  /\ \A v \in IdemKey : w \notin Busy(v)
               /\ \A v \in IdemKey : Busy(v)' = IF v = u THEN {w} ELSE Busy(v)
    <3>1. b' = [b EXCEPT ![u] = {w}] /\ \A v \in IdemKey : w \notin b[v]
      BY <2>2 DEF Mutex!Enter
    <3>2. \A v \in IdemKey : b'[v] = Busy(v)' /\ b[v] = Busy(v)
      OBVIOUS
    <3>3. \A v \in IdemKey : b'[v] = IF v = u THEN {w} ELSE b[v]
      BY <3>1
    <3> QED
      BY <3>1, <3>2, <3>3
  <2>3. ASSUME NEW W, Mutex!Leave(W) PROVE \A v \in IdemKey : Busy(v)' = Busy(v) \ W
    BY <2>3 DEF Mutex!Leave
  <2>4. CASE UNCHANGED b
    <3>1. \A v \in IdemKey : Busy(v)' = Busy(v)
      BY <2>4
    <3> QED
      BY <2>1, <3>1
  <2>5. ASSUME NEW w, NEW u \in IdemKey, Mutex!Enter(w, u)
        PROVE  /\ \A y \in IdemKey : \A v, x \in Busy(y)' : v = x
               /\ \A y, x \in IdemKey : y # x => Busy(y)' \cap Busy(x)' = {}
    BY <2>1, <2>2, <2>5
  <2>6. ASSUME NEW W, Mutex!Leave(W)
        PROVE  /\ \A y \in IdemKey : \A v, x \in Busy(y)' : v = x
               /\ \A y, x \in IdemKey : y # x => Busy(y)' \cap Busy(x)' = {}
    BY <2>1, <2>3, <2>6
  <2> QED
    BY <1>2, <2>4, <2>5, <2>6 DEF Mutex!Next
<1> QED
  BY <1>1, <1>2, PTL DEF Mutex!Spec

(* While no handler outlives its lock, one request at a time is at work for an *)
(* idempotency key (idempotency.ts:73-87), however often it is retried.        *)
THEOREM OneRequestPerKey == "slow" \notin Fault => (Spec => []Mutex!Exclusive)
  BY HandlersExclude, MutexExcludes DEF OneHandlerPerKey

-------------------------------------------------------------------------------
(* The cache. *)

AnswerInv == TypeOK /\ SuccessSent /\ CachedSuccessSent

(* A success in a slot is there already, or its transfer has just been     *)
(* submitted; nothing submitted is ever forgotten.                         *)
LEMMA SuccessSteps ==
  ASSUME TypeOK, [Next]_vars
  PROVE  /\ sent \subseteq sent'
         /\ \A x \in Req : req'[x].answer = "success" =>
              \/ req[x].answer = "success" /\ req'[x].key = req[x].key
              \/ \E s \in sent' : s.key = req'[x].key
<1> USE TransferAssumption
<1>0. SlotsOK(req, admitted)
  BY TypeParts
<1>1. ASSUME NEW q \in Req, Execute(q)
      PROVE  /\ sent \subseteq sent'
             /\ req'[q].answer = "success" => \E s \in sent' : s.key = req'[q].key
  <2>1. CASE Proceed(q, "log", req[q].stamp, "failed") /\ UNCHANGED sent
    BY <1>0, <2>1 DEF Proceed, SlotsOK
  <2>2. ASSUME NEW ok \in BOOLEAN,
               sent' = sent \cup
                 {[stamp |-> req[q].stamp, key |-> req[q].key, at |-> clock, ok |-> ok]},
               Proceed(q, IF ok THEN "record" ELSE "log", req[q].stamp,
                       IF ok THEN "success" ELSE "failed")
        PROVE  sent \subseteq sent' /\ \E s \in sent' : s.key = req'[q].key
    <3>1. req'[q].key = req[q].key
      BY <1>0, <2>2 DEF Proceed, SlotsOK
    <3>2. [stamp |-> req[q].stamp, key |-> req[q].key, at |-> clock, ok |-> ok] \in sent'
      BY <2>2
    <3>3. sent \subseteq sent'
      BY <2>2
    <3> QED
      BY <3>1, <3>2, <3>3
  <2> QED
    BY <1>1, <2>1, <2>2 DEF Execute
<1>2. ASSUME NEW q \in Req,
             \/ LoadSession(q) \/ Hourly(q) \/ Daily(q) \/ Record(q) \/ Log(q) \/ Settle(q)
      PROVE  UNCHANGED sent
  BY <1>2 DEF LoadSession, Hourly, Daily, Record, Log, Settle
<1>3. ASSUME NEW q \in Req, Lookup(q) \/ Acquire(q) \/ Drop(q) \/ Crash(q)
      PROVE  /\ UNCHANGED sent
             /\ \A x \in Req : req'[x].answer = "success" =>
                  req[x].answer = "success" /\ req'[x].key = req[x].key
  <2>1. Goto(q, "acquire") \/ Goto(q, "session") \/ Finish(q)
    BY <1>3 DEF Lookup, Acquire, Drop, Crash
  <2>2. /\ \A x \in Req \ {q} : req'[x] = req[x]
        /\ req'[q].answer = "success" =>
             req[q].answer = "success" /\ req'[q].key = req[q].key
    BY <1>0, <2>1 DEF Goto, Finish, IdleReq, SlotsOK
  <2> QED
    BY <1>3, <2>2 DEF Lookup, Acquire, Drop, Crash
<1>4. ASSUME NEW q \in Req, NEW k \in IdemKey \cup {None}, Start(q, k)
      PROVE  /\ UNCHANGED sent
             /\ \A x \in Req : req'[x].answer = "success" =>
                  req[x].answer = "success" /\ req'[x].key = req[x].key
  BY <1>0, <1>4 DEF Start, IdleReq, SlotsOK
<1>5. ASSUME NEW k \in IdemKey, Lapse(k) \/ Forget(k)
      PROVE  UNCHANGED <<req, sent>>
  BY <1>5 DEF Lapse, Forget
<1>6. CASE Tick \/ UNCHANGED vars
  BY <1>6 DEF Tick, vars
<1>7. ASSUME NEW q \in Req,
             \/ LoadSession(q) \/ Hourly(q) \/ Daily(q) \/ Execute(q) \/ Record(q)
             \/ Log(q) \/ Settle(q)
      PROVE  /\ sent \subseteq sent'
             /\ \A x \in Req : req'[x].answer = "success" =>
                  \/ req[x].answer = "success" /\ req'[x].key = req[x].key
                  \/ \E s \in sent' : s.key = req'[x].key
  <2>1. /\ \A x \in Req \ {q} : req'[x] = req[x]
        /\ req'[q].answer = "success" =>
             Execute(q) \/ (req[q].answer = "success"
                            /\ (req'[q] = IdleReq \/ req'[q].key = req[q].key))
    BY <1>7, HandlerSteps DEF HandlerStep
  <2> QED
    BY <1>1, <1>2, <1>7, <2>1 DEF IdleReq
<1> QED
  BY <1>3, <1>4, <1>5, <1>6, <1>7 DEF Next, RequestStep

(* Only Settle writes the cache, and it writes the answer of a slot.       *)
LEMMA CacheSteps ==
  ASSUME TypeOK, [Next]_vars
  PROVE  \A k \in IdemKey : cached'[k] = "success" =>
           \/ cached[k] = "success"
           \/ \E x \in Req : req[x].answer = "success" /\ req[x].key = k
<1>1. ASSUME NEW q \in Req, Settle(q)
      PROVE  \A k \in IdemKey : cached'[k] = "success" =>
               cached[k] = "success" \/ (req[q].answer = "success" /\ req[q].key = k)
  BY <1>1 DEF Settle, Outcome, TypeOK
<1>2. ASSUME NEW q \in Req, RequestStep(q) \/ Crash(q), ~Settle(q)
      PROVE  UNCHANGED cached
  BY <1>2 DEF RequestStep, Crash, Lookup, Acquire, LoadSession, Hourly, Daily, Execute,
              Record, Log, Drop
<1>3. ASSUME NEW q \in Req, NEW k \in IdemKey \cup {None}, Start(q, k)
      PROVE  UNCHANGED cached
  BY <1>3 DEF Start
<1>4. ASSUME NEW k \in IdemKey, Lapse(k) \/ Forget(k)
      PROVE  \A j \in IdemKey : cached'[j] = "success" => cached[j] = "success"
  BY <1>4, TransferAssumption DEF Lapse, Forget, TypeOK
<1>5. CASE Tick \/ UNCHANGED vars
  BY <1>5 DEF Tick, vars
<1> QED
  BY <1>1, <1>2, <1>3, <1>4, <1>5 DEF Next

(* Initially nothing is cached, and no slot has an answer. *)
LEMMA InitAnswer == Init => AnswerInv
  BY InitType, TransferAssumption
     DEF Init, AnswerInv, SuccessSent, CachedSuccessSent, IdleReq

(* A success in a slot or in the cache stays one that was submitted. *)
LEMMA AnswerStep == AnswerInv /\ [Next]_vars => AnswerInv'
<1> SUFFICES ASSUME AnswerInv, [Next]_vars PROVE AnswerInv'
  OBVIOUS
<1>1. TypeOK /\ TypeOK'
  BY StepType DEF AnswerInv
<1>2. SuccessSent'
  BY <1>1, SuccessSteps DEF AnswerInv, SuccessSent
<1>3. CachedSuccessSent'
  BY <1>1, CacheSteps, SuccessSteps DEF AnswerInv, SuccessSent, CachedSuccessSent
<1> QED
  BY <1>1, <1>2, <1>3 DEF AnswerInv

(* Whatever fails, a retry is never answered with a success that was not   *)
(* submitted (idempotency.ts:79-84, transfer-executor.ts:59-165).          *)
THEOREM CachedSuccessIsSent == Spec => []CachedSuccessSent
  BY InitAnswer, AnswerStep, PTL DEF Spec, AnswerInv

-------------------------------------------------------------------------------
(* The daily limit. *)

Elsewhere(q) == \A x \in Req \ {q} : req'[x] = req[x]
Past == {"daily", "execute", "record"}

(* A request is anywhere but past its admission, and a success it was about *)
(* to record is recorded or lost; the daily set may have been cleaned.      *)
Retires(q) ==
  /\ Elsewhere(q)
  /\ req'[q].pc \notin Past /\ req'[q].stamp \in {None, req[q].stamp}
  /\ req[q].pc = "record" =>
       req[q].stamp \in lost' \/ <<clock, req[q].stamp[2]>> \in daily'
  /\ lost \subseteq lost'
  /\ \A d \in daily : d \in daily' \/ clock - d[1] >= Day
  /\ UNCHANGED <<admitted, sent, clock>>

Admitted(q, tok) ==
  /\ Elsewhere(q) /\ Fresh(tok) /\ req[q].pc = "hourly"
  /\ req'[q].pc = "daily" /\ req'[q].stamp = <<clock, tok>>
  /\ admitted' = admitted \cup {<<clock, tok>>}
  /\ UNCHANGED <<sent, lost, daily, clock>>

Passes(q) ==
  /\ Elsewhere(q)
  /\ req[q].pc = "daily" /\ req'[q].pc = "execute" /\ req'[q].stamp = req[q].stamp
  /\ daily' = DayWindow(daily) /\ Cardinality(DayWindow(daily)) < DayMax
  /\ UNCHANGED <<admitted, sent, lost, clock>>

Submits(q, ok) ==
  /\ Elsewhere(q)
  /\ req[q].pc = "execute" /\ req'[q].stamp = req[q].stamp
  /\ req'[q].pc = IF ok THEN "record" ELSE "log"
  /\ sent' = sent \cup {[stamp |-> req[q].stamp, key |-> req[q].key, at |-> clock, ok |-> ok]}
  /\ UNCHANGED <<admitted, lost, daily, clock>>

Waits ==
  /\ UNCHANGED <<req, admitted, sent, lost, daily>>
  /\ \/ UNCHANGED clock
     \/ /\ clock' = clock + 1
        /\ \A q \in Req : req[q].stamp # None => clock - req[q].stamp[1] < HandlerMax

(* What a request does when it returns, throws or dies. *)
LEMMA ReturnLeaves ==
  ASSUME NEW A, SlotsOK(req, A), NEW q \in Req, NEW a,
         Return(q, a) \/ Throw(q) \/ Finish(q)
  PROVE  Elsewhere(q) /\ req'[q].pc \notin Past /\ req'[q].stamp \in {None, req[q].stamp}
<1>1. CASE req' = [req EXCEPT ![q] = IdleReq]
  BY <1>1 DEF SlotsOK, IdleReq, Past, Elsewhere
<1>2. CASE req' = [req EXCEPT ![q].pc = "settle", ![q].answer = a]
  BY <1>2 DEF SlotsOK, Past, Elsewhere
<1>3. CASE req' = [req EXCEPT ![q].pc = "drop"]
  BY <1>3 DEF SlotsOK, Past, Elsewhere
<1> QED
  BY <1>1, <1>2, <1>3 DEF Return, Throw, Finish, Goto

(* What a request does when it only moves on. *)
LEMMA MoveLeaves ==
  ASSUME NEW A, SlotsOK(req, A), NEW q \in Req, NEW p, Goto(q, p)
  PROVE  Elsewhere(q) /\ req'[q].pc = p /\ req'[q].stamp = req[q].stamp
  BY DEF Goto, SlotsOK, Elsewhere

(* And when it proceeds. *)
LEMMA ProceedLeaves ==
  ASSUME NEW A, SlotsOK(req, A), NEW q \in Req, NEW p, NEW s, NEW a, Proceed(q, p, s, a)
  PROVE  Elsewhere(q) /\ req'[q].pc = p /\ req'[q].stamp = s
  BY DEF Proceed, SlotsOK, Elsewhere

(* A step of a request is one of four kinds, as far as the daily limit is  *)
(* concerned.                                                              *)
LEMMA RequestKinds ==
  ASSUME TypeOK, NEW q \in Req, RequestStep(q) \/ Crash(q)
  PROVE  \/ Retires(q) \/ Passes(q)
         \/ \E tok \in Token : Admitted(q, tok)
         \/ \E ok \in BOOLEAN : Submits(q, ok)
<1>0. SlotsOK(req, admitted) /\ daily \subseteq Stamp
  BY TypeParts DEF StoresOK
<1>1. CASE \/ Lookup(q) \/ Acquire(q) \/ LoadSession(q) \/ Log(q) \/ Settle(q) \/ Drop(q)
  <2>1. UNCHANGED <<admitted, sent, clock, lost, daily>> /\ req[q].pc # "record"
    BY <1>1 DEF Lookup, Acquire, LoadSession, Log, Settle, Drop, windowVars, At
  <2>2. \/ \E a : Return(q, a) \/ Throw(q) \/ Finish(q)
        \/ \E p \in {"acquire", "session", "hourly", "drop"} : Goto(q, p)
    BY <1>1 DEF Lookup, Acquire, LoadSession, Log, Settle, Drop
  <2>3. Elsewhere(q) /\ req'[q].pc \notin Past /\ req'[q].stamp \in {None, req[q].stamp}
    BY <1>0, <2>2, ReturnLeaves, MoveLeaves DEF Past
  <2> QED
    BY <2>1, <2>3 DEF Retires
<1>2. CASE Hourly(q)
  <2>1. req[q].pc = "hourly" /\ UNCHANGED <<daily, clock, sent, lost>>
    BY <1>2 DEF Hourly, At
  <2>2. CASE Return(q, "refused") /\ UNCHANGED admitted
    BY <1>0, <2>1, <2>2, ReturnLeaves DEF Retires
  <2>3. ASSUME NEW tok \in Token, Fresh(tok), admitted' = admitted \cup {<<clock, tok>>},
               Proceed(q, "daily", <<clock, tok>>, None)
        PROVE  Admitted(q, tok)
    BY <1>0, <2>1, <2>3, ProceedLeaves DEF Admitted
  <2> QED
    BY <1>2, <2>2, <2>3 DEF Hourly
<1>3. CASE Daily(q)
  <2>1. req[q].pc = "daily" /\ UNCHANGED <<admitted, clock, sent, lost>>
    BY <1>3 DEF Daily, At
  <2>2. CASE Return(q, "refused") /\ daily' \in {daily, DayWindow(daily)}
    <3>1. \A d \in daily : d \in daily' \/ clock - d[1] >= Day
      <4>1. clock \in Nat /\ Day \in Nat /\ \A d \in daily : d[1] \in Nat
        BY <1>0, TransferAssumption DEF TypeOK, Time, Stamp
      <4> QED
        BY <2>2, <4>1 DEF DayWindow, Within
    <3> QED
      BY <1>0, <2>1, <2>2, <3>1, ReturnLeaves DEF Retires
  <2>3. CASE /\ Goto(q, "execute") /\ daily' = DayWindow(daily)
             /\ Cardinality(DayWindow(daily)) < DayMax
    BY <1>0, <2>1, <2>3, MoveLeaves DEF Passes
  <2> QED
    BY <1>3, <2>2, <2>3 DEF Daily
<1>4. CASE Execute(q)
  <2>1. req[q].pc = "execute" /\ UNCHANGED <<admitted, clock, lost, daily>>
    BY <1>4 DEF Execute, At, windowVars
  <2>2. CASE Proceed(q, "log", req[q].stamp, "failed") /\ UNCHANGED sent
    BY <1>0, <2>1, <2>2, ProceedLeaves DEF Retires, Past
  <2>3. ASSUME NEW ok \in BOOLEAN,
               sent' = sent \cup
                 {[stamp |-> req[q].stamp, key |-> req[q].key, at |-> clock, ok |-> ok]},
               Proceed(q, IF ok THEN "record" ELSE "log", req[q].stamp,
                       IF ok THEN "success" ELSE "failed")
        PROVE  Submits(q, ok)
    BY <1>0, <2>1, <2>3, ProceedLeaves DEF Submits
  <2> QED
    BY <1>4, <2>2, <2>3 DEF Execute
<1>5. CASE Record(q)
  <2>1. UNCHANGED <<admitted, sent, clock>> /\ Goto(q, "log")
    BY <1>5 DEF Record
  <2>2. /\ req[q].stamp \in lost' \/ <<clock, req[q].stamp[2]>> \in daily'
        /\ lost \subseteq lost' /\ daily \subseteq daily'
    BY <1>5 DEF Record
  <2> QED
    BY <1>0, <2>1, <2>2, MoveLeaves DEF Retires, Past
<1>6. CASE Crash(q)
  <2>1. /\ UNCHANGED <<admitted, sent, clock, daily>> /\ Finish(q)
        /\ lost \subseteq lost' /\ (req[q].pc = "record" => req[q].stamp \in lost')
    BY <1>6 DEF Crash, At
  <2> QED
    BY <1>0, <2>1, ReturnLeaves DEF Retires
<1> QED
  BY <1>1, <1>2, <1>3, <1>4, <1>5, <1>6 DEF RequestStep

(* Every step is of one of these kinds, or leaves the requests alone. *)
LEMMA DailyKinds ==
  ASSUME TypeOK, [Next]_vars
  PROVE  \/ \E q \in Req : \/ Retires(q) \/ Passes(q)
                           \/ \E tok \in Token : Admitted(q, tok)
                           \/ \E ok \in BOOLEAN : Submits(q, ok)
         \/ Waits
<1>0. SlotsOK(req, admitted)
  BY TypeParts
<1>1. ASSUME NEW q \in Req, NEW k \in IdemKey \cup {None}, Start(q, k) PROVE Retires(q)
  <2>1. /\ Elsewhere(q) /\ req'[q].pc \notin Past /\ req'[q].stamp = None
        /\ req[q].pc = "idle" /\ UNCHANGED <<admitted, sent, clock, lost, daily>>
    BY <1>0, <1>1 DEF Start, IdleReq, SlotsOK, Elsewhere, Past, At, windowVars
  <2> QED
    BY <2>1 DEF Retires
<1>2. ASSUME NEW k \in IdemKey, Lapse(k) \/ Forget(k) PROVE Waits
  BY <1>2 DEF Lapse, Forget, windowVars, Waits
<1>3. CASE Tick
  BY <1>3 DEF Tick, Waits
<1>4. CASE UNCHANGED vars
  BY <1>4 DEF vars, windowVars, Waits
<1> QED
  BY <1>1, <1>2, <1>3, <1>4, RequestKinds DEF Next

(* What the daily limit rests on.  The bound of a day that is over is part  *)
(* of it, that of the day at hand follows (LEMMA DayBound).                 *)
DaysOver ==
  \A t \in Time : t < clock =>
    IsFiniteSet(Successes(t)) /\ Cardinality(Successes(t)) <= DayMax + HourMax - 1

DailyInv == HourlyInv /\ OneSendEach /\ Timely /\ Recorded /\ DayHasRoom /\ DaysOver

(* The entries of live requests and of transfers are entries. *)
LEMMA StampFacts ==
  ASSUME TypeOK
  PROVE  /\ clock \in Nat /\ HandlerMax \in Nat /\ Hour \in Nat /\ Day \in Nat
         /\ HandlerMax < Hour /\ HourMax \in Nat /\ DayMax \in Nat
         /\ \A s \in admitted : s \in Stamp /\ s[1] \in Nat /\ s[2] \in Token /\ s # None
                                /\ s = <<s[1], s[2]>>
         /\ \A q \in Req : req[q].stamp \in admitted \cup {None}
         /\ \A q \in Req : req[q].pc \in Past => req[q].stamp \in admitted
         /\ \A s \in sent : s.stamp \in admitted /\ s.at \in Nat /\ s.ok \in BOOLEAN
         /\ \A d \in daily : d[1] \in Nat /\ d[2] \in Token
<1>1. Time \subseteq Nat /\ Stamp \subseteq Nat \X Token
  BY TransferAssumption DEF Time, Stamp
<1>2. admitted \subseteq Stamp /\ daily \subseteq Stamp /\ clock \in Nat
  BY <1>1 DEF TypeOK
<1>3. \A q \in Req : req[q].stamp \in admitted \cup {None}
                     /\ (req[q].pc \in Past => req[q].stamp \in admitted)
  BY DEF TypeOK, Past
<1>4. \A s \in sent : s.stamp \in admitted /\ s.at \in Nat /\ s.ok \in BOOLEAN
  BY <1>1 DEF TypeOK
<1> QED
  BY <1>1, <1>2, <1>3, <1>4, TransferAssumption

(* An admission stays one entry, one request and one transfer. *)
LEMMA OneSendStep ==
  ASSUME TypeOK, [Next]_vars, OneSendEach
  PROVE  OneSendEach'
<1>0. /\ \A s \in admitted : s \in Stamp /\ s # None
      /\ \A q \in Req : req[q].stamp \in admitted \cup {None}
      /\ \A q \in Req : req[q].pc \in Past => req[q].stamp \in admitted
      /\ \A s \in sent : s.stamp \in admitted
  BY StampFacts
<1>1. ASSUME NEW q \in Req, Retires(q) PROVE OneSendEach'
  BY <1>0, <1>1 DEF Retires, Elsewhere, Past, OneSendEach
<1>2. ASSUME NEW q \in Req, Passes(q) PROVE OneSendEach'
  BY <1>0, <1>2 DEF Passes, Elsewhere, Past, OneSendEach
<1>3. ASSUME NEW q \in Req, NEW tok \in Token, Admitted(q, tok) PROVE OneSendEach'
  <2> DEFINE new == <<clock, tok>>
  <2>1. new \notin admitted /\ \A a \in admitted : a[2] # new[2]
    BY <1>3 DEF Admitted, Fresh
  <2>2. \A a, b \in admitted' : a[2] = b[2] => a = b
    BY <1>3, <2>1 DEF Admitted, OneSendEach
  <2>3. new # None
    BY TransferAssumption, StampFacts
  <2> HIDE DEF new
  <2>4. /\ req'[q].stamp = new /\ \A x \in Req \ {q} : req'[x] = req[x] /\ req[x].stamp # new
        /\ \A s \in sent : s.stamp # new
    BY <1>0, <1>3, <2>1, <2>3 DEF Admitted, Elsewhere, new
  <2>5. \A x, y \in Req : req'[x].stamp # None /\ req'[x].stamp = req'[y].stamp => x = y
    BY <2>4 DEF OneSendEach
  <2>6. \A x \in Req, s \in sent :
          req'[x].pc \in {"daily", "execute"} => s.stamp # req'[x].stamp
    BY <2>4 DEF OneSendEach
  <2> QED
    BY <1>3, <2>2, <2>5, <2>6 DEF Admitted, OneSendEach
<1>4. ASSUME NEW q \in Req, NEW ok \in BOOLEAN, Submits(q, ok) PROVE OneSendEach'
  <2>1. req[q].stamp \in admitted /\ req[q].stamp # None
    BY <1>0, <1>4 DEF Submits, Past
  <2>2. \A x, y \in Req : req'[x].stamp # None /\ req'[x].stamp = req'[y].stamp => x = y
    BY <1>4 DEF Submits, Elsewhere, OneSendEach
  <2>3. \A s, r \in sent' : s.stamp = r.stamp => s = r
    BY <1>4 DEF Submits, OneSendEach
  <2>4. ASSUME NEW x \in Req, NEW s \in sent', req'[x].pc \in {"daily", "execute"}
        PROVE  s.stamp # req'[x].stamp
    <3>1. x # q /\ req'[x] = req[x]
      BY <1>4, <2>4 DEF Submits, Elsewhere
    <3>2. req[x].stamp # req[q].stamp
      BY <2>1, <3>1 DEF OneSendEach
    <3> QED
      BY <1>4, <2>4, <3>1, <3>2 DEF Submits, OneSendEach
  <2> QED
    BY <1>4, <2>2, <2>3, <2>4 DEF Submits, OneSendEach
<1>5. CASE Waits
  BY <1>5 DEF Waits, OneSendEach
<1> QED
  BY <1>1, <1>2, <1>3, <1>4, <1>5, DailyKinds

(* Admitted requests are over in time. *)
LEMMA TimelyStep ==
  ASSUME TypeOK, [Next]_vars, Timely
  PROVE  Timely'
<1>0. /\ clock \in Nat /\ HandlerMax \in Nat
      /\ \A q \in Req : req[q].stamp # None => req[q].stamp[1] \in Nat
      /\ \A s \in sent : s.at \in Nat
  BY StampFacts
<1>1. ASSUME NEW q \in Req, Retires(q) PROVE Timely'
  BY <1>0, <1>1 DEF Retires, Elsewhere, Timely
<1>2. ASSUME NEW q \in Req, Passes(q) PROVE Timely'
  BY <1>0, <1>2 DEF Passes, Elsewhere, Timely
<1>3. ASSUME NEW q \in Req, NEW tok \in Token, Admitted(q, tok) PROVE Timely'
  BY <1>0, <1>3 DEF Admitted, Elsewhere, Timely
<1>4. ASSUME NEW q \in Req, NEW ok \in BOOLEAN, Submits(q, ok) PROVE Timely'
  BY <1>0, <1>4 DEF Submits, Elsewhere, Timely
<1>5. CASE Waits
  BY <1>0, <1>5 DEF Waits, Timely
<1> QED
  BY <1>1, <1>2, <1>3, <1>4, <1>5, DailyKinds

(* A success is recorded, or will be, or is lost, or its day is over. *)
LEMMA RecordedStep ==
  ASSUME TypeOK, [Next]_vars, Timely, Recorded
  PROVE  Recorded'
<1>0. /\ clock \in Nat /\ Day \in Nat
      /\ \A q \in Req : req[q].pc \in Past => req[q].stamp \in admitted
      /\ \A s \in sent : s.stamp \in admitted /\ s.at \in Nat
      /\ \A d \in daily : d[1] \in Nat /\ d[2] \in Token
  BY StampFacts
<1>1. ASSUME NEW q \in Req, Retires(q) PROVE Recorded'
  <2> SUFFICES ASSUME NEW s \in sent, s.ok, s.stamp \notin lost'
               PROVE  \/ \E x \in Req : At(x, "record")' /\ req'[x].stamp = s.stamp
                      \/ \E d \in daily' : d[2] = s.stamp[2] /\ s.at <= d[1]
                      \/ clock - s.at >= Day
    BY <1>1 DEF Retires, Recorded
  <2>0. s.stamp \notin lost
    BY <1>1 DEF Retires
  <2>1. ASSUME NEW x \in Req, At(x, "record"), req[x].stamp = s.stamp
        PROVE  \/ \E y \in Req : At(y, "record")' /\ req'[y].stamp = s.stamp
               \/ \E d \in daily' : d[2] = s.stamp[2] /\ s.at <= d[1]
    <3>1. CASE x = q
      <4>1. <<clock, s.stamp[2]>> \in daily' /\ s.at <= clock
        BY <1>1, <2>1, <3>1 DEF Retires, At, Timely
      <4> QED
        BY <4>1
    <3>2. CASE x # q
      <4>1. req'[x] = req[x]
        BY <1>1, <3>2 DEF Retires, Elsewhere
      <4> QED
        BY <2>1, <4>1 DEF At
    <3> QED
      BY <3>1, <3>2
  <2>2. ASSUME NEW d \in daily, d[2] = s.stamp[2], s.at <= d[1]
        PROVE  \/ \E e \in daily' : e[2] = s.stamp[2] /\ s.at <= e[1]
               \/ clock - s.at >= Day
    <3>1. CASE d \in daily'
      BY <2>2, <3>1
    <3>2. CASE clock - d[1] >= Day
      BY <1>0, <2>2, <3>2
    <3> QED
      BY <1>1, <3>1, <3>2 DEF Retires
  <2> QED
    BY <2>0, <2>1, <2>2 DEF Recorded
<1>2. ASSUME NEW q \in Req, Passes(q) PROVE Recorded'
  <2>1. \A d \in daily : d \in daily' \/ clock - d[1] >= Day
    BY <1>0, <1>2 DEF Passes, DayWindow, Within
  <2> SUFFICES ASSUME NEW s \in sent, s.ok, s.stamp \notin lost
               PROVE  \/ \E x \in Req : At(x, "record")' /\ req'[x].stamp = s.stamp
                      \/ \E d \in daily' : d[2] = s.stamp[2] /\ s.at <= d[1]
                      \/ clock - s.at >= Day
    BY <1>2 DEF Passes, Recorded
  <2>2. ASSUME NEW x \in Req, At(x, "record"), req[x].stamp = s.stamp
        PROVE  At(x, "record")' /\ req'[x].stamp = s.stamp
    BY <1>2, <2>2 DEF Passes, Elsewhere, At
  <2>3. ASSUME NEW d \in daily, d[2] = s.stamp[2], s.at <= d[1]
        PROVE  \/ \E e \in daily' : e[2] = s.stamp[2] /\ s.at <= e[1]
               \/ clock - s.at >= Day
    <3>1. CASE d \in daily'
      BY <2>3, <3>1
    <3>2. CASE clock - d[1] >= Day
      BY <1>0, <2>3, <3>2
    <3> QED
      BY <2>1, <3>1, <3>2
  <2> QED
    BY <2>2, <2>3 DEF Recorded
<1>3. ASSUME NEW q \in Req, NEW tok \in Token, Admitted(q, tok) PROVE Recorded'
  BY <1>3 DEF Admitted, Elsewhere, Recorded, At
<1>4. ASSUME NEW q \in Req, NEW ok \in BOOLEAN, Submits(q, ok) PROVE Recorded'
  <2> SUFFICES ASSUME NEW s \in sent', s.ok, s.stamp \notin lost
               PROVE  \/ \E x \in Req : At(x, "record")' /\ req'[x].stamp = s.stamp
                      \/ \E d \in daily : d[2] = s.stamp[2] /\ s.at <= d[1]
                      \/ clock - s.at >= Day
    BY <1>4 DEF Submits, Recorded
  <2>1. CASE s \in sent
    <3>1. \A x \in Req : At(x, "record") => req'[x] = req[x]
      BY <1>4 DEF Submits, Elsewhere, At
    <3> QED
      BY <2>1, <3>1 DEF Recorded, At
  <2>2. CASE s \notin sent
    <3>0. s = [stamp |-> req[q].stamp, key |-> req[q].key, at |-> clock, ok |-> ok]
      BY <1>4, <2>2 DEF Submits
    <3>1. s.stamp = req[q].stamp /\ s.ok = ok
      BY <3>0
    <3>2. At(q, "record")' /\ req'[q].stamp = s.stamp
      BY <1>4, <3>1 DEF Submits, At
    <3> QED
      BY <3>2
  <2> QED
    BY <2>1, <2>2
<1>5. CASE Waits
  BY <1>0, <1>5 DEF Waits, Recorded, At
<1> QED
  BY <1>1, <1>2, <1>3, <1>4, <1>5, DailyKinds

(* The last components of the entries of a set. *)
Tokens(A) == {a[2] : a \in A}

(* There are no more of them than entries. *)
LEMMA TokenCount ==
  ASSUME NEW A, IsFiniteSet(A)
  PROVE  /\ IsFiniteSet(Tokens(A)) /\ Cardinality(Tokens(A)) \in Nat
         /\ Cardinality(A) \in Nat /\ Cardinality(Tokens(A)) <= Cardinality(A)
<1> DEFINE f == [a \in A |-> a[2]]
<1>1. f \in Surjection(A, Tokens(A))
  BY DEF Surjection, Tokens
<1> HIDE DEF f
<1>2. IsFiniteSet(Tokens(A)) /\ Cardinality(Tokens(A)) <= Cardinality(A)
  BY <1>1, FS_Surjection
<1> QED
  BY <1>2, FS_CardinalityType

(* A part of a union is no larger than its two sides together. *)
LEMMA UnionCount ==
  ASSUME NEW S, NEW A, NEW B, IsFiniteSet(A), IsFiniteSet(B), S \subseteq A \cup B
  PROVE  /\ IsFiniteSet(S) /\ Cardinality(S) \in Nat
         /\ Cardinality(A) \in Nat /\ Cardinality(B) \in Nat
         /\ Cardinality(S) <= Cardinality(A) + Cardinality(B)
<1>1. /\ IsFiniteSet(A \cup B)
      /\ Cardinality(A \cup B) = Cardinality(A) + Cardinality(B) - Cardinality(A \cap B)
  BY FS_Union
<1>2. IsFiniteSet(A \cap B)
  <2>1. A \cap B \in SUBSET A
    OBVIOUS
  <2> QED
    BY <2>1, FS_Subset
<1>3. Cardinality(A) \in Nat /\ Cardinality(B) \in Nat /\ Cardinality(A \cap B) \in Nat
  BY <1>2, FS_CardinalityType
<1>4. IsFiniteSet(S) /\ Cardinality(S) <= Cardinality(A \cup B)
  <2>1. S \in SUBSET (A \cup B)
    OBVIOUS
  <2> QED
    BY <1>1, <2>1, FS_Subset
<1>5. Cardinality(S) \in Nat /\ Cardinality(A \cup B) \in Nat
  BY <1>1, <1>4, FS_CardinalityType
<1> QED
  BY <1>1, <1>3, <1>4, <1>5

(* The successes of a day are no more than the tokens spent on them. *)
LEMMA SuccessCount ==
  ASSUME TypeOK, OneSendEach, NEW t
  PROVE  /\ IsFiniteSet(Successes(t)) /\ Cardinality(Successes(t)) \in Nat
         /\ IsFiniteSet(Spent(t)) /\ Cardinality(Spent(t)) \in Nat
         /\ Cardinality(Successes(t)) <= Cardinality(Spent(t))
<1> DEFINE f == [s \in Successes(t) |-> s.stamp[2]]
<1>1. \A s \in Successes(t) : s \in sent /\ s.stamp \in admitted /\ s.stamp[2] \in Token
  BY StampFacts DEF Successes
<1>2. ASSUME NEW s \in Successes(t), NEW r \in Successes(t), s.stamp[2] = r.stamp[2]
      PROVE  s = r
  BY <1>1, <1>2 DEF OneSendEach
<1>3. f \in Injection(Successes(t), Spent(t))
  BY <1>2 DEF Injection, IsInjective, Spent
<1>4. IsFiniteSet(Spent(t))
  <2>1. Spent(t) \in SUBSET Token
    BY <1>1 DEF Spent
  <2> QED
    BY <2>1, FS_Subset, TransferAssumption
<1> HIDE DEF f
<1>5. IsFiniteSet(Successes(t)) /\ Cardinality(Successes(t)) <= Cardinality(Spent(t))
  BY <1>3, <1>4, FS_Injection
<1> QED
  BY <1>4, <1>5, FS_CardinalityType

(* The requests under way are entries too, so all of them are finite. *)
LEMMA RoomFinite ==
  ASSUME TypeOK, NEW t
  PROVE  /\ IsFiniteSet(Spent(t) \cup Underway)
         /\ Cardinality(Spent(t) \cup Underway) \in Nat
<1>1. Spent(t) \cup Underway \in SUBSET Token
  BY StampFacts DEF Spent, Successes, Underway, At, Past
<1>2. IsFiniteSet(Spent(t) \cup Underway)
  BY <1>1, FS_Subset, TransferAssumption
<1> QED
  BY <1>2, FS_CardinalityType

(* The day at hand is within its bound. *)
LEMMA DayBound ==
  ASSUME TypeOK, OneSendEach, DayHasRoom, DaysOver
  PROVE  \A t \in Time : IsFiniteSet(Successes(t))
                         /\ Cardinality(Successes(t)) <= DayMax + HourMax - 1
<1> SUFFICES ASSUME NEW t \in Time, clock <= t
             PROVE  IsFiniteSet(Successes(t))
                    /\ Cardinality(Successes(t)) <= DayMax + HourMax - 1
  BY StampFacts DEF DaysOver, Time
<1>1. /\ IsFiniteSet(Successes(t)) /\ Cardinality(Successes(t)) \in Nat
      /\ IsFiniteSet(Spent(t)) /\ Cardinality(Spent(t)) \in Nat
      /\ Cardinality(Successes(t)) <= Cardinality(Spent(t))
  BY SuccessCount
<1>2. Cardinality(Spent(t) \cup Underway) \in Nat /\ IsFiniteSet(Spent(t) \cup Underway)
  BY RoomFinite
<1>3. Cardinality(Spent(t)) <= Cardinality(Spent(t) \cup Underway)
  <2>1. Spent(t) \in SUBSET (Spent(t) \cup Underway)
    OBVIOUS
  <2> QED
    BY <1>2, <2>1, FS_Subset
<1>4. Cardinality(Spent(t) \cup Underway) <= DayMax + HourMax - 1
  BY DEF DayHasRoom
<1> QED
  BY <1>1, <1>2, <1>3, <1>4, StampFacts

(* Whoever passes the check finds fewer than DayMax recorded, and all that  *)
(* is not recorded by then was admitted within the last hour.               *)
LEMMA PassedRoom ==
  ASSUME DailyInv, TypeOK', NEW q \in Req, Passes(q), NEW t \in Time, clock <= t
  PROVE  Cardinality(Spent(t)' \cup Underway') <= DayMax + HourMax - 1
<1> DEFINE recent == WindowOf(admitted, clock)
<1>0. TypeOK /\ RecentKept /\ HourlyLimit /\ IsFiniteSet(admitted) /\ Timely /\ Recorded
  BY DEF DailyInv, HourlyInv
<1>f. /\ clock \in Nat /\ HandlerMax \in Nat /\ Hour \in Nat /\ Day \in Nat
      /\ HandlerMax < Hour /\ HourMax \in Nat /\ DayMax \in Nat /\ t \in Nat
      /\ \A s \in admitted : s[1] \in Nat /\ s # None
      /\ \A x \in Req : req[x].pc \in Past => req[x].stamp \in admitted
      /\ \A s \in sent : s.stamp \in admitted /\ s.at \in Nat
      /\ \A d \in daily : d[1] \in Nat
  BY <1>0, StampFacts DEF Time
<1>1. ASSUME NEW x \in Req, req[x].pc \in Past PROVE req[x].stamp \in recent
  <2>1. /\ req[x].stamp \in admitted /\ req[x].stamp[1] \in Nat /\ req[x].stamp # None
        /\ req[x].stamp[1] <= clock /\ clock - req[x].stamp[1] <= HandlerMax
    BY <1>0, <1>f, <1>1 DEF Timely, RecentKept
  <2> QED
    BY <1>f, <2>1 DEF WindowOf
<1>2. ASSUME NEW s \in Successes(t), s.stamp[2] \notin Tokens(recent)
      PROVE  s.stamp[2] \in Tokens(DayWindow(daily))
  <2>1. s \in sent /\ s.ok /\ s.stamp \notin lost /\ t - Day < s.at
    BY DEF Successes
  <2>2. ~\E x \in Req : At(x, "record") /\ req[x].stamp = s.stamp
    BY <1>1, <1>2 DEF At, Past, Tokens
  <2>3. s.at \in Nat /\ ~(clock - s.at >= Day)
    BY <1>f, <2>1
  <2>4. PICK d \in daily : d[2] = s.stamp[2] /\ s.at <= d[1]
    BY <1>0, <2>1, <2>2, <2>3 DEF Recorded
  <2>5. d \in DayWindow(daily)
    BY <1>f, <2>3, <2>4 DEF DayWindow, Within
  <2> QED
    BY <2>4, <2>5 DEF Tokens
<1>3. Spent(t)' = Spent(t)
  BY DEF Passes, Spent, Successes
<1>4. Underway' \subseteq Tokens(recent)
  <2>1. ASSUME NEW x \in Req, At(x, "execute")' PROVE req'[x].stamp[2] \in Tokens(recent)
    <3>1. req[x].pc \in Past /\ req'[x].stamp = req[x].stamp
      BY <2>1 DEF Passes, Elsewhere, At, Past
    <3> QED
      BY <1>1, <3>1 DEF Tokens
  <2> QED
    BY <2>1 DEF Underway
<1>5. Spent(t)' \cup Underway' \subseteq Tokens(DayWindow(daily)) \cup Tokens(recent)
  BY <1>2, <1>3, <1>4 DEF Spent
<1>6. /\ IsFiniteSet(recent) /\ Cardinality(recent) <= HourMax
  <2>1. recent \in SUBSET admitted
    BY DEF WindowOf
  <2>2. clock \in Time
    BY <1>0 DEF TypeOK
  <2> QED
    BY <1>0, <2>1, <2>2, FS_Subset DEF HourlyLimit, WindowOf
<1>7. IsFiniteSet(DayWindow(daily))
  <2>1. DayWindow(daily) \in SUBSET (Time \X Token)
    BY <1>0 DEF TypeOK, Stamp, DayWindow, Within
  <2>2. IsFiniteSet(Time \X Token)
    <3>1. IsFiniteSet(Time)
      BY FS_Interval, TransferAssumption DEF Time
    <3> QED
      BY <3>1, FS_Product, TransferAssumption
  <2> QED
    BY <2>1, <2>2, FS_Subset
<1> HIDE DEF recent
<1>8. /\ IsFiniteSet(Tokens(recent)) /\ Cardinality(Tokens(recent)) \in Nat
      /\ Cardinality(recent) \in Nat /\ Cardinality(Tokens(recent)) <= Cardinality(recent)
  BY <1>6, TokenCount
<1>9. /\ IsFiniteSet(Tokens(DayWindow(daily))) /\ Cardinality(Tokens(DayWindow(daily))) \in Nat
      /\ Cardinality(DayWindow(daily)) \in Nat
      /\ Cardinality(Tokens(DayWindow(daily))) <= Cardinality(DayWindow(daily))
  BY <1>7, TokenCount
<1>10. /\ Cardinality(Spent(t)' \cup Underway') \in Nat
       /\ Cardinality(Spent(t)' \cup Underway')
            <= Cardinality(Tokens(DayWindow(daily))) + Cardinality(Tokens(recent))
  BY <1>5, <1>8, <1>9, UnionCount
<1>11. Cardinality(DayWindow(daily)) < DayMax
  BY DEF Passes
<1> QED
  BY <1>f, <1>6, <1>8, <1>9, <1>10, <1>11

(* A day of which nothing new is spent has the room it had. *)
LEMMA RoomKept ==
  ASSUME TypeOK, DayHasRoom, NEW t \in Time, clock <= t,
         Spent(t)' \cup Underway' \subseteq Spent(t) \cup Underway
  PROVE  Cardinality(Spent(t)' \cup Underway') <= DayMax + HourMax - 1
<1> DEFINE S == Spent(t) \cup Underway
           T == Spent(t)' \cup Underway'
<1>1. IsFiniteSet(S) /\ Cardinality(S) \in Nat /\ Cardinality(S) <= DayMax + HourMax - 1
  BY RoomFinite DEF DayHasRoom
<1>2. T \in SUBSET S
  OBVIOUS
<1> HIDE DEF S, T
<1>3. IsFiniteSet(T) /\ Cardinality(T) <= Cardinality(S)
  BY <1>1, <1>2, FS_Subset
<1>4. Cardinality(T) \in Nat
  BY <1>3, FS_CardinalityType
<1>5. Cardinality(T) <= DayMax + HourMax - 1
  BY <1>1, <1>3, <1>4, TransferAssumption
<1> QED
  BY <1>5 DEF T

(* Whatever the requests under way submit, the day stays within its bound. *)
LEMMA RoomStep ==
  ASSUME DailyInv, [Next]_vars
  PROVE  DayHasRoom'
<1>0. TypeOK /\ TypeOK' /\ DayHasRoom
  BY StepType DEF DailyInv, HourlyInv
<1>1. ASSUME NEW q \in Req, Retires(q) PROVE DayHasRoom'
  <2>1. \A t : Successes(t)' \subseteq Successes(t)
    BY <1>1 DEF Retires, Successes
  <2>2. Underway' \subseteq Underway
    BY <1>1 DEF Retires, Elsewhere, Underway, At, Past
  <2>3. \A t : Spent(t)' \cup Underway' \subseteq Spent(t) \cup Underway
    BY <2>1, <2>2 DEF Spent
  <2> QED
    BY <1>0, <1>1, <2>3, RoomKept DEF DayHasRoom, Retires
<1>2. ASSUME NEW q \in Req, Passes(q) PROVE DayHasRoom'
  BY <1>0, <1>2, PassedRoom DEF DayHasRoom, Passes
<1>3. ASSUME NEW q \in Req, NEW tok \in Token, Admitted(q, tok) PROVE DayHasRoom'
  <2>1. \A t : Spent(t)' = Spent(t)
    BY <1>3 DEF Admitted, Spent, Successes
  <2>2. Underway' \subseteq Underway
    BY <1>3 DEF Admitted, Elsewhere, Underway, At
  <2> QED
    BY <1>0, <1>3, <2>1, <2>2, RoomKept DEF DayHasRoom, Admitted
<1>4. ASSUME NEW q \in Req, NEW ok \in BOOLEAN, Submits(q, ok) PROVE DayHasRoom'
  <2>1. req[q].stamp[2] \in Underway
    BY <1>4 DEF Submits, Underway, At
  <2>2. \A t : Spent(t)' \subseteq Spent(t) \cup Underway
    <3>1. ASSUME NEW t, NEW s \in Successes(t)' PROVE s.stamp[2] \in Spent(t) \cup Underway
      <4>1. s \in sent' /\ (s \in sent => s \in Successes(t))
        BY <1>4, <3>1 DEF Submits, Successes
      <4>2. CASE s \in sent
        BY <4>1, <4>2 DEF Spent
      <4>3. CASE s \notin sent
        <5>1. s = [stamp |-> req[q].stamp, key |-> req[q].key, at |-> clock, ok |-> ok]
          BY <1>4, <4>1, <4>3 DEF Submits
        <5> QED
          BY <2>1, <5>1
      <4> QED
        BY <4>2, <4>3
    <3> QED
      BY <3>1 DEF Spent
  <2>3. Underway' \subseteq Underway
    BY <1>4 DEF Submits, Elsewhere, Underway, At
  <2> QED
    BY <1>0, <1>4, <2>2, <2>3, RoomKept DEF DayHasRoom, Submits
<1>5. CASE Waits
  <2>1. \A t : Spent(t)' = Spent(t)
    BY <1>5 DEF Waits, Spent, Successes
  <2>2. Underway' = Underway
    BY <1>5 DEF Waits, Underway, At
  <2>3. \A t \in Time : clock' <= t => clock <= t
    BY <1>0, <1>5, StampFacts DEF Waits, Time
  <2> QED
    BY <1>0, <2>1, <2>2, <2>3, RoomKept DEF DayHasRoom
<1> QED
  BY <1>0, <1>1, <1>2, <1>3, <1>4, <1>5, DailyKinds

(* A day that is over stays within its bound. *)
LEMMA OverStep ==
  ASSUME DailyInv, [Next]_vars
  PROVE  DaysOver'
<1>0. TypeOK /\ OneSendEach /\ DayHasRoom /\ DaysOver
  BY DEF DailyInv, HourlyInv
<1>f. clock \in Nat
  BY <1>0, StampFacts
<1> SUFFICES ASSUME NEW t \in Time, t < clock'
             PROVE  IsFiniteSet(Successes(t)')
                    /\ Cardinality(Successes(t)') <= DayMax + HourMax - 1
  BY DEF DaysOver
<1>1. IsFiniteSet(Successes(t)) /\ Cardinality(Successes(t)) <= DayMax + HourMax - 1
  BY <1>0, DayBound
<1>2. Successes(t)' \in SUBSET Successes(t)
  <2>1. ASSUME NEW q \in Req, Retires(q) \/ Passes(q) PROVE Successes(t)' \subseteq Successes(t)
    BY <2>1 DEF Retires, Passes, Successes
  <2>2. ASSUME NEW q \in Req, NEW tok \in Token, Admitted(q, tok)
        PROVE  Successes(t)' \subseteq Successes(t)
    BY <2>2 DEF Admitted, Successes
  <2>3. ASSUME NEW q \in Req, NEW ok \in BOOLEAN, Submits(q, ok)
        PROVE  Successes(t)' \subseteq Successes(t)
    <3>1. t \in Nat /\ t < clock
      BY <2>3 DEF Submits, Time
    <3>2. ASSUME NEW s \in Successes(t)' PROVE s \in Successes(t)
      <4>1. s \in sent' /\ s.ok /\ s.stamp \notin lost /\ t - Day < s.at /\ s.at <= t
        BY <2>3, <3>2 DEF Submits, Successes
      <4>2. s.at # clock
        BY <1>f, <3>1, <4>1
      <4>3. s \in sent
        BY <2>3, <4>1, <4>2 DEF Submits
      <4> QED
        BY <4>1, <4>3 DEF Successes
    <3> QED
      BY <3>2
  <2>4. CASE Waits
    BY <2>4 DEF Waits, Successes
  <2> QED
    BY <1>0, <2>1, <2>2, <2>3, <2>4, DailyKinds
<1> DEFINE S == Successes(t)
           T == Successes(t)'
<1>3. IsFiniteSet(S) /\ T \in SUBSET S /\ Cardinality(S) <= DayMax + HourMax - 1
  BY <1>1, <1>2
<1> HIDE DEF S, T
<1>4. IsFiniteSet(T) /\ Cardinality(T) <= Cardinality(S)
  BY <1>3, FS_Subset
<1>5. Cardinality(S) \in Nat /\ Cardinality(T) \in Nat
  BY <1>3, <1>4, FS_CardinalityType
<1>6. IsFiniteSet(T) /\ Cardinality(T) <= DayMax + HourMax - 1
  BY <1>3, <1>4, <1>5, TransferAssumption
<1> QED
  BY <1>6 DEF T

(* Initially nothing is admitted and nothing spent. *)
LEMMA InitDaily == Init => DailyInv
<1> SUFFICES ASSUME Init PROVE DailyInv
  OBVIOUS
<1>1. HourlyInv
  BY InitHourly
<1>2. OneSendEach /\ Timely /\ Recorded
  BY DEF Init, IdleReq, OneSendEach, Timely, Recorded
<1>3. \A t : Spent(t) \cup Underway = {}
  BY DEF Init, IdleReq, Spent, Successes, Underway, At
<1>4. DayHasRoom
  <2>1. Cardinality({}) = 0
    BY FS_EmptySet
  <2>2. 0 <= DayMax + HourMax - 1
    BY TransferAssumption
  <2> QED
    BY <1>3, <2>1, <2>2 DEF DayHasRoom
<1>5. DaysOver
  BY StampFacts, <1>1 DEF DaysOver, Init, Time, HourlyInv
<1> QED
  BY <1>1, <1>2, <1>4, <1>5 DEF DailyInv

(* Every step keeps what the daily limit rests on. *)
LEMMA DailyStep == DailyInv /\ [Next]_vars => DailyInv'
  BY HourlyStep, OneSendStep, TimelyStep, RecordedStep, RoomStep, OverStep
     DEF DailyInv, HourlyInv

(* However many requests pass the daily check before any of them records    *)
(* its transfer (route.ts:186-217), whatever fails besides: no day sees     *)
(* more than DayMax + HourMax - 1 successes that are not lost.              *)
THEOREM DailyOvershootIsBounded == Spec => []DailyOvershootBounded
<1>1. DailyInv => DailyOvershootBounded
  BY DayBound DEF DailyInv, HourlyInv, DailyOvershootBounded
<1> QED
  BY <1>1, InitDaily, DailyStep, PTL DEF Spec

(* The invariant the runs check, for any number of requests and whatever    *)
(* fails: shapes, locks, windows, entries, answers and the two limits.      *)
THEOREM TransferInvariant == Spec => []TransferInv
<1> DEFINE All == DailyInv /\ AnswerInv /\ HandlerHoldsKey
<1>1. Init => All
  <2>1. ASSUME Init PROVE HandlerHoldsKey
    BY <2>1 DEF Init, HandlerHoldsKey, IdleReq
  <2> QED
    BY <2>1, InitDaily, InitAnswer
<1>2. All /\ [Next]_vars => All'
  <2>1. ASSUME HandlerHoldsKey, TypeOK, [Next]_vars PROVE HandlerHoldsKey'
    <3>1. CASE "slow" \in Fault
      BY <3>1 DEF HandlerHoldsKey
    <3>2. CASE "slow" \notin Fault
      BY <2>1, <3>2, KeyStep DEF KeyInv
    <3> QED
      BY <3>1, <3>2
  <2> QED
    BY <2>1, DailyStep, AnswerStep DEF AnswerInv
<1>3. All => TransferInv
  BY DEF DailyInv, HourlyInv, AnswerInv, TransferInv
<1> QED
  BY <1>1, <1>2, <1>3, PTL DEF Spec

===============================================================================
