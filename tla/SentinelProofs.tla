---------------------------- MODULE SentinelProofs ----------------------------
(* Proofs about Sentinel, for any number of polls and users. *)
EXTENDS Sentinel, TLAPS

-------------------------------------------------------------------------------
(* Types. *)

(* The initial state has the declared shapes. *)
LEMMA InitType == Init => TypeOK
  BY SentinelAssumption DEF Init, TypeOK, ExitPc

(* The polls and their exits, apart from the stores. *)
PollsOK ==
  /\ pc \in [Poll -> {"idle", "trigger", "users", "exits", "status"}]
  /\ todo \in [Poll -> SUBSET (Signal \cap Exiting)]
  /\ \A p \in Poll : todo[p] = {} <=> pc[p] \in {"idle", "status"}
  /\ exit \in [Poll -> [User -> ExitPc]]
  /\ \A p \in Poll, u \in User : exit[p][u] # "none" => pc[p] = "exits"

EngineOK ==
  /\ confirm \in [Signal -> BOOLEAN] /\ breached \in [Signal -> BOOLEAN]
  /\ incident \in [Signal -> {"none", "open", "old"}]

UsersOK ==
  /\ lock \in [User -> Poll \cup {Cron, None}]
  /\ row \in [User -> BOOLEAN] /\ shares \in [User -> BOOLEAN]
  /\ mined \in [User -> BOOLEAN]

(* TypeOK is about the polls, the engine, the users and the restarts. *)
LEMMA TypeParts ==
  /\ TypeOK <=> PollsOK /\ EngineOK /\ UsersOK /\ restarts \in 0 .. MaxRestart
  /\ TypeOK' <=> PollsOK' /\ EngineOK' /\ UsersOK' /\ restarts' \in 0 .. MaxRestart
  BY DEF TypeOK, PollsOK, EngineOK, UsersOK

(* The steps of a poll keep the declared shapes. *)
LEMMA PollStepType ==
  ASSUME TypeOK, NEW p \in Poll, PollStep(p)
  PROVE  TypeOK'
<1>0. PollsOK /\ EngineOK /\ UsersOK /\ restarts \in 0 .. MaxRestart
  BY TypeParts
<1>1. UsersOK' /\ restarts' \in 0 .. MaxRestart
  BY <1>0 DEF PollStep, Evaluate, Trigger, FindUsers, ExitsDone, EndPoll, userVars, UsersOK
<1>2. CASE Evaluate(p)
  <2>1. EngineOK'
    BY <1>0, <1>2 DEF Evaluate, EngineOK, Confirm, engineVars
  <2>2. PollsOK'
    <3>1. PICK reading \in [Signal -> {"absent", "calm", "breach"}] :
            LET exits == Confirmed(reading) \cap Exiting IN
            /\ todo' = [todo EXCEPT ![p] = exits]
            /\ pc' = [pc EXCEPT ![p] = IF exits = {} THEN "status" ELSE "trigger"]
      BY <1>2 DEF Evaluate
    <3> DEFINE exits == Confirmed(reading) \cap Exiting
    <3>2. exits \in SUBSET (Signal \cap Exiting)
      BY DEF Confirmed, Judged
    <3>3. /\ todo' = [todo EXCEPT ![p] = exits]
          /\ pc' = [pc EXCEPT ![p] = IF exits = {} THEN "status" ELSE "trigger"]
      BY <3>1
    <3> HIDE DEF exits
    <3> QED
      BY <1>0, <1>2, <3>2, <3>3 DEF PollsOK, Evaluate
  <2> QED
    BY <1>1, <2>1, <2>2, TypeParts
<1>3. CASE Trigger(p)
  <2>1. incident' \in [Signal -> {"none", "open", "old"}]
    <3> DEFINE t == First(todo[p])
    <3>1. incident \in [Signal -> {"none", "open", "old"}]
      BY <1>0 DEF EngineOK
    <3>2. incident' = [incident EXCEPT ![t] = "open"]
      BY <1>3 DEF Trigger
    <3> HIDE DEF t
    <3> QED
      BY <3>1, <3>2
  <2>2. EngineOK'
    BY <1>0, <1>3, <2>1 DEF Trigger, EngineOK, engineVars
  <2>3. /\ pc[p] = "trigger" /\ pc' = [pc EXCEPT ![p] = "users"]
        /\ todo' = todo /\ exit' = exit
    BY <1>3 DEF Trigger
  <2>4. pc' \in [Poll -> {"idle", "trigger", "users", "exits", "status"}]
    BY <1>0, <2>3 DEF PollsOK
  <2>5. PollsOK'
    BY <1>0, <2>3, <2>4 DEF PollsOK
  <2> QED
    BY <1>1, <2>2, <2>5, TypeParts
<1>4. CASE FindUsers(p)
  <2>1. EngineOK'
    BY <1>0, <1>4 DEF FindUsers, EngineOK, engineVars
  <2>2. CASE /\ \E U \in [User -> BOOLEAN] : exit' = [exit EXCEPT ![p] = Batch(U)]
             /\ pc' = [pc EXCEPT ![p] = "exits"] /\ UNCHANGED todo
    <3>1. PICK B \in [User -> ExitPc] : exit' = [exit EXCEPT ![p] = B]
      BY <2>2 DEF Batch, ExitPc
    <3>2. exit' \in [Poll -> [User -> ExitPc]]
      BY <1>0, <3>1 DEF PollsOK
    <3>3. \A q \in Poll \ {p} : exit'[q] = exit[q] /\ pc'[q] = pc[q]
      BY <1>0, <2>2, <3>1 DEF PollsOK
    <3>4. pc'[p] = "exits" /\ pc[p] = "users"
      BY <1>0, <1>4, <2>2 DEF PollsOK, FindUsers
    <3>5. pc' \in [Poll -> {"idle", "trigger", "users", "exits", "status"}]
      BY <1>0, <2>2 DEF PollsOK
    <3>6. PollsOK'
      BY <1>0, <2>2, <3>2, <3>3, <3>4, <3>5 DEF PollsOK
    <3> QED
      BY <1>1, <2>1, <3>6, TypeParts
  <2>3. CASE /\ pc' = [pc EXCEPT ![p] = "idle"] /\ todo' = [todo EXCEPT ![p] = {}]
             /\ UNCHANGED exit
    <3>1. PollsOK'
      BY <1>0, <1>4, <2>3 DEF PollsOK, FindUsers
    <3> QED
      BY <1>1, <2>1, <3>1, TypeParts
  <2> QED
    BY <1>1, <1>4, <2>1, <2>2, <2>3, TypeParts DEF FindUsers
<1>5. CASE ExitsDone(p)
  <2>1. EngineOK'
    BY <1>0, <1>5 DEF ExitsDone, EngineOK, engineVars
  <2>2. PollsOK'
    <3> DEFINE rest == todo[p] \ {First(todo[p])}
    <3>1. /\ pc[p] = "exits" /\ \A u \in User : exit[p][u] = "none"
          /\ todo' = [todo EXCEPT ![p] = rest]
          /\ pc' = [pc EXCEPT ![p] = IF rest = {} THEN "status" ELSE "trigger"]
          /\ exit' = exit
      BY <1>5 DEF ExitsDone
    <3>2. rest \in SUBSET (Signal \cap Exiting)
      BY <1>0 DEF PollsOK
    <3> HIDE DEF rest
    <3> QED
      BY <1>0, <3>1, <3>2 DEF PollsOK
  <2> QED
    BY <1>1, <2>1, <2>2, TypeParts
<1>6. CASE EndPoll(p)
  <2>1. EngineOK'
    BY <1>0, <1>6 DEF EndPoll, EngineOK, CleanUp, engineVars
  <2>2. PollsOK'
    BY <1>0, <1>6 DEF EndPoll, PollsOK
  <2> QED
    BY <1>1, <2>1, <2>2, TypeParts
<1> QED
  BY <1>2, <1>3, <1>4, <1>5, <1>6 DEF PollStep

(* One exit of one poll moves: it was under way, and the others stay. *)
LEMMA ExitShape ==
  ASSUME PollsOK, NEW p \in Poll, NEW u \in User, exit[p][u] # "none", NEW x \in ExitPc,
         Goto(p, u, x), UNCHANGED <<pc, todo>>
  PROVE  /\ PollsOK'
         /\ exit'[p][u] = x
         /\ \A q \in Poll, v \in User : q # p \/ v # u => exit'[q][v] = exit[q][v]
<1>1. exit' \in [Poll -> [User -> ExitPc]]
  BY DEF PollsOK, Goto
<1>2. \A q \in Poll, v \in User : q # p \/ v # u => exit'[q][v] = exit[q][v]
  BY DEF PollsOK, Goto
<1>3. exit'[p][u] = x /\ pc[p] = "exits"
  BY DEF PollsOK, Goto
<1>4. PollsOK'
  BY <1>1, <1>2, <1>3 DEF PollsOK
<1> QED
  BY <1>2, <1>3, <1>4

(* The steps of an exit go to one of its places.                           *)
LEMMA ExitGoes ==
  ASSUME NEW p \in Poll, NEW u \in User, ExitStep(p, u)
  PROVE  /\ exit[p][u] # "none" /\ UNCHANGED <<pc, todo>>
         /\ \E x \in ExitPc : Goto(p, u, x)
<1>1. exit[p][u] # "none" /\ UNCHANGED pollVars
  BY DEF ExitStep, Check, Lock, Undecryptable, Redeem, Log, Release, At
<1>2. \E x \in ExitPc : Goto(p, u, x)
  BY DEF ExitStep, Check, Lock, Undecryptable, Redeem, Log, Release, GiveUp, ExitPc, Working
<1> QED
  BY <1>1, <1>2 DEF pollVars

(* The steps of an exit keep the declared shapes. *)
LEMMA ExitStepType ==
  ASSUME TypeOK, NEW p \in Poll, NEW u \in User, ExitStep(p, u)
  PROVE  TypeOK'
<1>0. PollsOK /\ EngineOK /\ UsersOK /\ restarts \in 0 .. MaxRestart
  BY TypeParts
<1>1. PollsOK'
  BY <1>0, ExitGoes, ExitShape
<1>2. EngineOK' /\ UNCHANGED restarts
  BY <1>0 DEF ExitStep, Check, Lock, Undecryptable, Redeem, Log, Release, pollVars,
              engineVars, EngineOK
<1>3. UsersOK'
  <2>1. CASE Check(p, u) \/ Undecryptable(p, u)
    BY <1>0, <2>1 DEF Check, Undecryptable, userVars, UsersOK
  <2>2. CASE Lock(p, u)
    BY <1>0, <2>2 DEF Lock, UsersOK
  <2>3. CASE Redeem(p, u)
    BY <1>0, <2>3 DEF Redeem, Redeemed, UsersOK
  <2>4. CASE Log(p, u)
    BY <1>0, <2>4 DEF Log, UsersOK
  <2>5. CASE Release(p, u)
    BY <1>0, <2>5 DEF Release, UsersOK
  <2> QED
    BY <2>1, <2>2, <2>3, <2>4, <2>5 DEF ExitStep
<1> QED
  BY <1>0, <1>1, <1>2, <1>3, TypeParts

(* Every step keeps the declared shapes. *)
LEMMA StepType == TypeOK /\ [Next]_vars => TypeOK'
<1> SUFFICES ASSUME TypeOK, [Next]_vars PROVE TypeOK'
  OBVIOUS
<1> USE SentinelAssumption
<1>0. PollsOK /\ EngineOK /\ UsersOK /\ restarts \in 0 .. MaxRestart
  BY TypeParts
<1>1. CASE Restart
  <2>1. PollsOK'
    BY <1>1 DEF Restart, PollsOK, ExitPc
  <2>2. EngineOK' /\ UsersOK'
    BY <1>0, <1>1 DEF Restart, EngineOK, UsersOK, userVars
  <2>3. restarts' \in 0 .. MaxRestart
    BY <1>0, <1>1 DEF Restart
  <2> QED
    BY <2>1, <2>2, <2>3, TypeParts
<1>2. ASSUME NEW t \in Signal, Age(t) PROVE TypeOK'
  BY <1>0, <1>2, TypeParts DEF Age, PollsOK, EngineOK, UsersOK, engineVars, userVars
<1>3. ASSUME NEW u \in User, Forget(u) \/ Lapse(u) \/ CronTakes(u) \/ CronReturns(u) \/ Move(u)
      PROVE  TypeOK'
  <2>1. PollsOK' /\ EngineOK' /\ UNCHANGED restarts
    BY <1>0, <1>3 DEF Forget, Lapse, CronTakes, CronReturns, Move, pollVars, engineVars,
                      PollsOK, EngineOK
  <2>2. UsersOK'
    BY <1>0, <1>3 DEF Forget, Lapse, CronTakes, CronReturns, Move, UsersOK
  <2> QED
    BY <1>0, <2>1, <2>2, TypeParts
<1>4. CASE UNCHANGED vars
  BY <1>0, <1>4, TypeParts DEF vars, engineVars, userVars, PollsOK, EngineOK, UsersOK
<1> QED
  BY <1>1, <1>2, <1>3, <1>4, PollStepType, ExitStepType DEF Next

(* Every reachable state has the declared shapes. *)
THEOREM SentinelTypes == Spec => []TypeOK
  BY InitType, StepType, PTL DEF Spec

-------------------------------------------------------------------------------
(* Locks. *)

busyWith == [u \in User |-> Acting(u)]

(* Nobody new acts for any user. *)
LEMMA FewerActing ==
  ASSUME NEW W \in SUBSET ((Poll \cup {Cron}) \X User),
         \A u \in User : Acting(u)' = Acting(u) \ W
  PROVE  [Mutex!Next]_busyWith
  BY DEF Mutex!Next, Mutex!Leave, busyWith

(* Locks and exits as they were, as far as anybody is at work. *)
LEMMA NobodyNew ==
  ASSUME SentinelInv, TypeOK', UNCHANGED lock,
         \A p \in Poll, u \in User : exit'[p][u] \in Working <=> exit[p][u] \in Working
  PROVE  SentinelInv' /\ [Mutex!Next]_busyWith
<1>1. SentinelInv'
  BY DEF SentinelInv, ExitHoldsLock
<1>2. UNCHANGED busyWith
  BY DEF busyWith, Acting, Busy
<1> QED
  BY <1>1, <1>2

(* Every step keeps the locks with those who act, and is a step of the     *)
(* abstract mutex or none.                                                 *)
LEMMA LockStep ==
  ASSUME {"store", "slow"} \cap Fault = {}, SentinelInv, [Next]_vars
  PROVE  SentinelInv' /\ [Mutex!Next]_busyWith
<1> USE SentinelAssumption
<1>0. TypeOK /\ TypeOK' /\ PollsOK /\ UsersOK
  BY StepType, TypeParts DEF SentinelInv
<1>h. \A p \in Poll, u \in User : exit[p][u] \in Working => lock[u] = p
  BY DEF SentinelInv, ExitHoldsLock
<1>i. "none" \notin Working /\ "check" \notin Working /\ "lock" \notin Working
  BY DEF Working
<1>1. ASSUME NEW p \in Poll, PollStep(p) PROVE SentinelInv' /\ [Mutex!Next]_busyWith
  <2>1. UNCHANGED lock
    BY <1>1 DEF PollStep, Evaluate, Trigger, FindUsers, ExitsDone, EndPoll, userVars
  <2>2. CASE UNCHANGED exit
    BY <1>0, <2>1, <2>2, NobodyNew
  <2>3. CASE FindUsers(p) /\ ~UNCHANGED exit
    <3>1. \E U \in [User -> BOOLEAN] : exit' = [exit EXCEPT ![p] = Batch(U)]
      BY <2>3 DEF FindUsers
    <3>2. \A u \in User : exit'[p][u] \notin Working
      BY <1>0, <1>i, <3>1 DEF Batch, PollsOK
    <3>3. \A u \in User : exit[p][u] \notin Working
      BY <1>0, <1>i, <2>3 DEF FindUsers, PollsOK
    <3>4. \A q \in Poll \ {p} : exit'[q] = exit[q]
      BY <1>0, <3>1 DEF PollsOK
    <3> QED
      BY <1>0, <2>1, <3>2, <3>3, <3>4, NobodyNew
  <2> QED
    BY <1>1, <2>2, <2>3 DEF PollStep, Evaluate, Trigger, FindUsers, ExitsDone, EndPoll
<1>2. ASSUME NEW p \in Poll, NEW u \in User, ExitStep(p, u)
      PROVE  SentinelInv' /\ [Mutex!Next]_busyWith
  <2>1. /\ exit[p][u] # "none" /\ UNCHANGED <<pc, todo>>
        /\ \E x \in ExitPc : Goto(p, u, x)
    BY <1>2, ExitGoes
  <2>2. \A q \in Poll, v \in User : q # p \/ v # u => exit'[q][v] = exit[q][v]
    BY <1>0, <2>1, ExitShape
  <2>x. \A x \in ExitPc : Goto(p, u, x) => exit'[p][u] = x
    BY <1>0, <2>1, ExitShape
  <2>3. CASE Check(p, u)
    <3>1. exit[p][u] = "check" /\ exit'[p][u] \in {"lock", "none"} /\ UNCHANGED lock
      BY <2>3, <2>x DEF Check, At, userVars, ExitPc
    <3> QED
      BY <1>0, <1>i, <2>2, <3>1, NobodyNew
  <2>4. CASE Undecryptable(p, u) \/ Redeem(p, u) \/ Log(p, u)
    <3>1. exit[p][u] \in Working /\ UNCHANGED lock
      BY <2>4 DEF Undecryptable, Redeem, Log, At, userVars, Working
    <3>2. exit'[p][u] \in Working
      BY <2>4, <2>x DEF Undecryptable, Redeem, Log, GiveUp, Working, ExitPc
    <3> QED
      BY <1>0, <2>2, <3>1, <3>2, NobodyNew
  <2>5. CASE Lock(p, u) /\ UNCHANGED lock
    <3>1. exit[p][u] = "lock" /\ exit'[p][u] = "none"
      BY <1>0, <2>5, <2>x DEF Lock, At, ExitPc, Free, UsersOK
    <3> QED
      BY <1>0, <1>i, <2>2, <2>5, <3>1, NobodyNew
  <2>6. CASE Lock(p, u) /\ ~UNCHANGED lock
    <3>1. /\ lock[u] = None /\ lock' = [lock EXCEPT ![u] = p]
          /\ exit[p][u] = "lock" /\ exit'[p][u] = "redeem"
      BY <2>6, <2>x DEF Lock, At, Free, ExitPc, Working
    <3>2. lock'[u] = p /\ \A v \in User \ {u} : lock'[v] = lock[v]
      BY <1>0, <3>1 DEF UsersOK
    <3>3. \A q \in Poll : exit[q][u] \notin Working
      BY <1>h, <3>1
    <3>4. SentinelInv'
      BY <1>0, <1>h, <1>i, <2>2, <3>2, <3>3 DEF SentinelInv, ExitHoldsLock
    <3>5. Acting(u) = {} /\ \A v \in User : <<p, u>> \notin Acting(v)
      BY <3>1, <3>3 DEF Acting, Busy
    <3>6. \A v \in User \ {u} : Acting(v)' = Acting(v)
      <4>1. ASSUME NEW v \in User \ {u} PROVE Busy(v)' = Busy(v)
        BY <2>2 DEF Busy
      <4> QED
        BY <3>2, <4>1 DEF Acting
    <3>7. Acting(u)' = {<<p, u>>}
      <4>1. Busy(u)' = {p}
        BY <2>2, <3>1, <3>3 DEF Busy, Working
      <4> QED
        BY <3>2, <4>1 DEF Acting
    <3>8. Mutex!Enter(<<p, u>>, u)
      BY <3>5, <3>6, <3>7 DEF Mutex!Enter
    <3> QED
      BY <3>4, <3>8 DEF Mutex!Next
  <2>7. CASE Release(p, u)
    <3>1. exit[p][u] \in Working /\ exit'[p][u] = "none" /\ lock[u] = p
      BY <1>h, <2>7, <2>x DEF Release, At, Working, ExitPc
    <3>2. \A v \in User \ {u} : lock'[v] = lock[v]
      BY <1>0, <2>7 DEF Release, UsersOK
    <3>3. lock'[u] = None
      BY <1>0, <2>7, <3>1 DEF Release, UsersOK
    <3>4. \A q \in Poll \ {p} : exit[q][u] \notin Working
      BY <1>h, <3>1
    <3>5. SentinelInv'
      BY <1>0, <1>h, <1>i, <2>2, <3>1, <3>2, <3>4 DEF SentinelInv, ExitHoldsLock
    <3>6. \A v \in User : Acting(v)' = Acting(v) \ {<<p, u>>}
      <4>1. ASSUME NEW v \in User \ {u} PROVE Busy(v)' = Busy(v)
        BY <2>2 DEF Busy
      <4>2. Busy(u)' = {} /\ Busy(u) = {p}
        BY <1>i, <2>2, <3>1, <3>4 DEF Busy
      <4>3. Acting(u)' = {} /\ Acting(u) = {<<p, u>>}
        BY <3>1, <3>3, <4>2 DEF Acting
      <4> QED
        BY <3>2, <4>1, <4>3 DEF Acting
    <3>7. {<<p, u>>} \in SUBSET ((Poll \cup {Cron}) \X User)
      OBVIOUS
    <3> QED
      BY <3>5, <3>6, <3>7, FewerActing
  <2> QED
    BY <1>2, <2>3, <2>4, <2>5, <2>6, <2>7 DEF ExitStep
<1>3. CASE Restart
  <2>1. \A p \in Poll, u \in User : exit'[p][u] \notin Working
    BY <1>3, <1>i DEF Restart
  <2>2. SentinelInv'
    BY <1>0, <2>1 DEF SentinelInv, ExitHoldsLock
  <2>3. \A u \in User : Acting(u)' = Acting(u) \ (Poll \X User)
    BY <1>3, <2>1 DEF Acting, Busy, Restart, userVars
  <2> QED
    BY <2>2, <2>3, FewerActing
<1>4. ASSUME NEW u \in User, Lapse(u) PROVE SentinelInv' /\ [Mutex!Next]_busyWith
  <2>1. /\ lock[u] \in Poll /\ lock[u] \notin Busy(u)
        /\ UNCHANGED exit /\ lock' = [lock EXCEPT ![u] = None]
    BY <1>4 DEF Lapse
  <2>2. Busy(u) = {}
    BY <1>h, <2>1 DEF Busy
  <2>3. SentinelInv'
    BY <1>0, <1>h, <2>1, <2>2 DEF SentinelInv, ExitHoldsLock, Busy, UsersOK
  <2>4. \A v \in User : Acting(v)' = Acting(v) \ {}
    BY <1>0, <2>1 DEF Acting, Busy, UsersOK
  <2> QED
    BY <2>3, <2>4, FewerActing
<1>5. ASSUME NEW u \in User, CronTakes(u) PROVE SentinelInv' /\ [Mutex!Next]_busyWith
  <2>1. lock[u] = None /\ UNCHANGED exit /\ lock' = [lock EXCEPT ![u] = Cron]
    BY <1>5 DEF CronTakes, Free
  <2>2. Busy(u) = {} /\ \A v \in User : Busy(v)' = Busy(v)
    BY <1>h, <2>1 DEF Busy
  <2>3. SentinelInv'
    BY <1>0, <1>h, <2>1, <2>2 DEF SentinelInv, ExitHoldsLock, Busy, UsersOK
  <2>4. lock'[u] = Cron /\ \A v \in User \ {u} : lock'[v] = lock[v]
    BY <1>0, <2>1 DEF UsersOK
  <2>5. Acting(u)' = {<<Cron, u>>} /\ \A v \in User \ {u} : Acting(v)' = Acting(v)
    BY <2>2, <2>4 DEF Acting
  <2>6. Acting(u) = {} /\ \A v \in User : <<Cron, u>> \notin Acting(v)
    BY <2>1, <2>2 DEF Acting, Busy
  <2>7. Mutex!Enter(<<Cron, u>>, u)
    BY <2>5, <2>6 DEF Mutex!Enter
  <2> QED
    BY <2>3, <2>7 DEF Mutex!Next
<1>6. ASSUME NEW u \in User, CronReturns(u) PROVE SentinelInv' /\ [Mutex!Next]_busyWith
  <2>1. lock[u] = Cron /\ UNCHANGED exit /\ lock' = [lock EXCEPT ![u] = None]
    BY <1>6 DEF CronReturns
  <2>2. Busy(u) = {} /\ \A v \in User : Busy(v)' = Busy(v)
    BY <1>h, <2>1 DEF Busy
  <2>3. SentinelInv'
    BY <1>0, <1>h, <2>1, <2>2 DEF SentinelInv, ExitHoldsLock, Busy, UsersOK
  <2>4. \A v \in User : Acting(v)' = Acting(v) \ {<<Cron, u>>}
    BY <1>0, <2>1, <2>2 DEF Acting, UsersOK
  <2>5. {<<Cron, u>>} \in SUBSET ((Poll \cup {Cron}) \X User)
    OBVIOUS
  <2> QED
    BY <2>3, <2>4, <2>5, FewerActing
<1>7. ASSUME UNCHANGED <<exit, lock>> PROVE SentinelInv' /\ [Mutex!Next]_busyWith
  BY <1>0, <1>7, NobodyNew
<1>8. ASSUME NEW t \in Signal, Age(t) PROVE UNCHANGED <<exit, lock>>
  BY <1>8 DEF Age, userVars
<1>9. ASSUME NEW u \in User, Forget(u) \/ Move(u) PROVE UNCHANGED <<exit, lock>>
  BY <1>9 DEF Forget, Move
<1>10. CASE UNCHANGED vars
  BY <1>7, <1>10 DEF vars, userVars
<1> QED
  BY <1>1, <1>2, <1>3, <1>4, <1>5, <1>6, <1>7, <1>8, <1>9, <1>10 DEF Next

(* However polls overlap and the process restarts, while Redis answers and *)
(* no exit outlives its lock, one actor at a time redeems for a user       *)
(* (exit-orchestrator.ts:184-301).                                         *)
THEOREM ExitsAreExclusive ==
  {"store", "slow"} \cap Fault = {} => (Spec => ExitsExclude)
<1> SUFFICES ASSUME {"store", "slow"} \cap Fault = {} PROVE Spec => Mutex!Spec
  BY DEF ExitsExclude
<1>1. Init => SentinelInv
  BY InitType DEF Init, SentinelInv, ExitHoldsLock, Working
<1>2. Init => Mutex!Init
  BY SentinelAssumption DEF Init, Mutex!Init, Acting, Busy, Working
<1>3. SentinelInv /\ [Next]_vars => SentinelInv' /\ [Mutex!Next]_busyWith
  BY LockStep
<1> QED
  BY <1>1, <1>2, <1>3, PTL DEF Spec, Mutex!Spec, busyWith

(* The promise of the abstract mutex, carried over by the refinement: no two  *)
(* exits are under way for a user, nor an exit and the cron.                  *)
LEMMA MutexExcludes == Mutex!Spec => []Mutex!Exclusive
<1> DEFINE b == [u \in User |-> Acting(u)]
<1>1. Mutex!Init => Mutex!Exclusive
  BY DEF Mutex!Init, Mutex!Exclusive
<1>2. ASSUME Mutex!Exclusive, [Mutex!Next]_b PROVE Mutex!Exclusive'
  <2>1. /\ \A u \in User : \A v, w \in Acting(u) : v = w
        /\ \A u, x \in User : u # x => Acting(u) \cap Acting(x) = {}
    BY <1>2 DEF Mutex!Exclusive
  <2> SUFFICES /\ \A u \in User : \A v, w \in Acting(u)' : v = w
               /\ \A u, x \in User : u # x => Acting(u)' \cap Acting(x)' = {}
    BY DEF Mutex!Exclusive
  <2>2. ASSUME NEW w, NEW u \in User, Mutex!Enter(w, u)
        PROVE  /\ \A v \in User : w \notin Acting(v)
               /\ \A v \in User : Acting(v)' = IF v = u THEN {w} ELSE Acting(v)
    <3>1. b' = [b EXCEPT ![u] = {w}] /\ \A v \in User : w \notin b[v]
      BY <2>2 DEF Mutex!Enter
    <3>2. \A v \in User : b'[v] = Acting(v)' /\ b[v] = Acting(v)
      OBVIOUS
    <3>3. \A v \in User : b'[v] = IF v = u THEN {w} ELSE b[v]
      BY <3>1
    <3> QED
      BY <3>1, <3>2, <3>3
  <2>3. ASSUME NEW W, Mutex!Leave(W) PROVE \A v \in User : Acting(v)' = Acting(v) \ W
    BY <2>3 DEF Mutex!Leave
  <2>4. CASE UNCHANGED b
    <3>1. \A v \in User : Acting(v)' = Acting(v)
      BY <2>4
    <3> QED
      BY <2>1, <3>1
  <2>5. ASSUME NEW w, NEW u \in User, Mutex!Enter(w, u)
        PROVE  /\ \A y \in User : \A v, x \in Acting(y)' : v = x
               /\ \A y, x \in User : y # x => Acting(y)' \cap Acting(x)' = {}
    BY <2>1, <2>2, <2>5
  <2>6. ASSUME NEW W, Mutex!Leave(W)
        PROVE  /\ \A y \in User : \A v, x \in Acting(y)' : v = x
               /\ \A y, x \in User : y # x => Acting(y)' \cap Acting(x)' = {}
    BY <2>1, <2>3, <2>6
  <2> QED
    BY <1>2, <2>4, <2>5, <2>6 DEF Mutex!Next
<1> QED
  BY <1>1, <1>2, PTL DEF Mutex!Spec

(* While Redis answers and no exit outlives its lock, no two exits, of one poll *)
(* or of two, and no exit and the cron move the funds of one user together      *)
(* (exit-orchestrator.ts:184-301).                                              *)
THEOREM OneExitPerUser == {"store", "slow"} \cap Fault = {} => (Spec => []Mutex!Exclusive)
  BY ExitsAreExclusive, MutexExcludes DEF ExitsExclude

(* Whatever the faults: the shapes hold, and unless Redis rejects the lock  *)
(* or an exit outlives it, whoever is past the lock of a user holds it      *)
(* (exit-orchestrator.ts:184-208, 286-302).                                 *)
THEOREM SentinelInvariant == Spec => []SentinelInv
<1>1. Init => SentinelInv
  BY InitType DEF Init, SentinelInv, ExitHoldsLock, Working
<1>2. ASSUME SentinelInv, [Next]_vars PROVE SentinelInv'
  <2>1. CASE {"store", "slow"} \cap Fault = {}
    BY <1>2, <2>1, LockStep
  <2>2. CASE {"store", "slow"} \cap Fault # {}
    BY <1>2, <2>2, StepType DEF SentinelInv, ExitHoldsLock
  <2> QED
    BY <2>1, <2>2
<1> QED
  BY <1>1, <1>2, PTL DEF Spec

-------------------------------------------------------------------------------
(* Rows. *)

(* An exit about to be logged has a mined redeem behind it. *)
LoggedMined == \A p \in Poll, u \in User : exit[p][u] = "log" => mined[u]

RowInv == TypeOK /\ LoggedMined /\ ExitRowsMined

(* A row that silences a user's exits for an hour is never the trace of an *)
(* exit that failed (exit-orchestrator.ts:252-288).                        *)
THEOREM ExitRowsAreMined == Spec => []ExitRowsMined
<1>1. Init => RowInv
  BY InitType DEF Init, RowInv, LoggedMined, ExitRowsMined
<1>2. ASSUME RowInv, [Next]_vars PROVE RowInv'
  <2>0. TypeOK /\ TypeOK' /\ PollsOK /\ UsersOK
    BY <1>2, StepType, TypeParts DEF RowInv
  <2>1. ASSUME NEW p \in Poll, PollStep(p) PROVE RowInv'
    <3>1. UNCHANGED <<row, mined>>
      BY <2>1 DEF PollStep, Evaluate, Trigger, FindUsers, ExitsDone, EndPoll, userVars
    <3>2. \A q \in Poll, u \in User : exit'[q][u] = "log" => exit[q][u] = "log"
      <4>1. CASE UNCHANGED exit
        BY <4>1
      <4>2. CASE \E U \in [User -> BOOLEAN] : exit' = [exit EXCEPT ![p] = Batch(U)]
        BY <2>0, <4>2 DEF Batch, PollsOK
      <4> QED
        BY <2>1, <4>1, <4>2 DEF PollStep, Evaluate, Trigger, FindUsers, ExitsDone, EndPoll
    <3> QED
      BY <1>2, <2>0, <3>1, <3>2 DEF RowInv, LoggedMined, ExitRowsMined
  <2>2. ASSUME NEW p \in Poll, NEW u \in User, ExitStep(p, u) PROVE RowInv'
    <3>1. /\ exit[p][u] # "none" /\ UNCHANGED <<pc, todo>>
          /\ \E x \in ExitPc : Goto(p, u, x)
      BY <2>2, ExitGoes
    <3>2. \A q \in Poll, v \in User : q # p \/ v # u => exit'[q][v] = exit[q][v]
      BY <2>0, <3>1, ExitShape
    <3>3. \A x \in ExitPc : Goto(p, u, x) => exit'[p][u] = x
      BY <2>0, <3>1, ExitShape
    <3>4. CASE Redeem(p, u)
      <4>1. UNCHANGED row /\ \A v \in User : mined[v] => mined'[v]
        BY <2>0, <3>4 DEF Redeem, UsersOK
      <4>2. exit'[p][u] = "log" => mined'[u]
        BY <2>0, <3>3, <3>4 DEF Redeem, GiveUp, UsersOK, ExitPc, Working
      <4> QED
        BY <1>2, <2>0, <3>2, <4>1, <4>2 DEF RowInv, LoggedMined, ExitRowsMined
    <3>5. CASE Log(p, u)
      <4>1. UNCHANGED mined /\ exit[p][u] = "log" /\ exit'[p][u] = "release"
        BY <3>3, <3>5 DEF Log, At, ExitPc, Working
      <4>2. \A v \in User : row'[v] => row[v] \/ v = u
        BY <2>0, <3>5 DEF Log, UsersOK
      <4> QED
        BY <1>2, <2>0, <3>2, <4>1, <4>2 DEF RowInv, LoggedMined, ExitRowsMined
    <3>6. CASE Check(p, u) \/ Lock(p, u) \/ Undecryptable(p, u) \/ Release(p, u)
      <4>1. UNCHANGED <<row, mined>>
        BY <3>6 DEF Check, Lock, Undecryptable, Release, userVars
      <4>2. exit'[p][u] # "log"
        BY <3>3, <3>6 DEF Check, Lock, Undecryptable, Release, ExitPc, Working
      <4> QED
        BY <1>2, <2>0, <3>2, <4>1, <4>2 DEF RowInv, LoggedMined, ExitRowsMined
    <3> QED
      BY <2>2, <3>4, <3>5, <3>6 DEF ExitStep
  <2>3. CASE Restart
    BY <1>2, <2>0, <2>3 DEF Restart, RowInv, LoggedMined, ExitRowsMined, userVars
  <2>4. ASSUME NEW u \in User, Forget(u) PROVE RowInv'
    <3>1. \A v \in User \ {u} : row'[v] = row[v] /\ mined'[v] = mined[v]
      BY <2>0, <2>4 DEF Forget, UsersOK
    <3>2. ~row'[u] /\ UNCHANGED exit /\ \A p \in Poll : exit[p][u] # "log"
      BY <2>0, <2>4 DEF Forget, UsersOK
    <3> QED
      BY <1>2, <2>0, <3>1, <3>2 DEF RowInv, LoggedMined, ExitRowsMined
  <2>5. ASSUME UNCHANGED <<exit, row, mined>> PROVE RowInv'
    BY <1>2, <2>0, <2>5 DEF RowInv, LoggedMined, ExitRowsMined
  <2>6. ASSUME NEW t \in Signal, Age(t) PROVE UNCHANGED <<exit, row, mined>>
    BY <2>6 DEF Age, userVars
  <2>7. ASSUME NEW u \in User, Lapse(u) \/ CronTakes(u) \/ CronReturns(u) \/ Move(u)
        PROVE  UNCHANGED <<exit, row, mined>>
    BY <2>7 DEF Lapse, CronTakes, CronReturns, Move
  <2>8. CASE UNCHANGED vars
    BY <2>5, <2>8 DEF vars, userVars
  <2> QED
    BY <1>2, <2>1, <2>2, <2>3, <2>4, <2>5, <2>6, <2>7, <2>8 DEF Next
<1> QED
  BY <1>1, <1>2, PTL DEF Spec, RowInv

===============================================================================
