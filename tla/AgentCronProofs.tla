---------------------------- MODULE AgentCronProofs ----------------------------
(* Theorems about AgentCron, for any number of users, runs, keys and       *)
(* requests, any concurrency and budget, simulated or not.                 *)
EXTENDS AgentCron, SessionRegistryProofs, TLAPS, FiniteSetTheorems

Pc == Bracket \cup {"over", "wait"}
TaskType == [Task -> [pc : Pc, key : Key \cup {None}, seen : Nat]]
CountType == [Run -> [Field -> Nat]]

RunType == [Run -> [phase : {"off", "rebalance", "claim", "done"},
                    users : SUBSET User, todo : SUBSET User, aborted : BOOLEAN]]
WorldOK ==
  /\ ops \in [User -> Nat] /\ sent \in [User -> Nat]
  /\ pos \in [User -> {"low", "high", "out"}]
  /\ moves \in [User -> Nat] /\ rows \in [User -> Nat]
  /\ claimRow \in [User -> BOOLEAN] /\ claimed \in [User -> BOOLEAN]

(* A run that starts nothing any more is a run. *)
LEMMA AbortedRun ==
  ASSUME run \in RunType, NEW r \in Run
  PROVE  [run EXCEPT ![r].aborted = TRUE] \in RunType
<1> DEFINE Record == [phase : {"off", "rebalance", "claim", "done"},
                      users : SUBSET User, todo : SUBSET User, aborted : BOOLEAN]
<1>1. run \in [Run -> Record]
  BY DEF RunType
<1>2. [run[r] EXCEPT !.aborted = TRUE] \in Record
  <2>1. run[r] \in Record
    BY <1>1
  <2> QED
    BY <2>1
<1> HIDE DEF Record
<1>3. [run EXCEPT ![r] = [run[r] EXCEPT !.aborted = TRUE]] \in [Run -> Record]
  BY <1>1, <1>2
<1> QED
  BY <1>3 DEF RunType, Record

(* A task belongs to a run and a user. *)
LEMMA TaskParts ==
  ASSUME NEW t \in Task
  PROVE  RunOf(t) \in Run /\ UserOf(t) \in User
BY DEF Task, RunOf, UserOf

(* Setting a flag. *)
LEMMA FlagSet ==
  ASSUME NEW f \in [User -> BOOLEAN], NEW u \in User
  PROVE  [f EXCEPT ![u] = TRUE] \in [User -> BOOLEAN]
OBVIOUS

(* Moving a task keeps the shape of the tasks. *)
LEMMA GotoType ==
  ASSUME TypeOK, NEW t \in Task, NEW p \in Pc, Goto(t, p)
  PROVE  task' \in TaskType
BY DEF TypeOK, Goto, TaskType, Pc

(* Adding to a summary keeps the shape of the summaries. *)
LEMMA AddType ==
  ASSUME TypeOK, NEW t \in Task, NEW f \in Field, Add(t, f)
  PROVE  count' \in CountType
BY TaskParts DEF TypeOK, Add, CountType

(* Every step of a task keeps the shape of the tasks and of the summaries. *)
LEMMA TaskStepType ==
  ASSUME TypeOK, NEW t \in Task, TaskStep(t)
  PROVE  task' \in TaskType /\ count' \in CountType
<1> USE DEF Pc, Bracket, Field
<1>1. UNCHANGED count => count' \in CountType
  BY DEF TypeOK, CountType
<1>2. ASSUME Lock(t) PROVE task' \in TaskType /\ count' \in CountType
  BY <1>2, GotoType, AddType DEF Lock
<1>3. ASSUME LockBusy(t) PROVE task' \in TaskType /\ count' \in CountType
  BY <1>3, GotoType, AddType DEF LockBusy
<1>4. ASSUME StoreRejects(t) PROVE task' \in TaskType /\ count' \in CountType
  BY <1>4, <1>1, GotoType DEF StoreRejects
<1>5. ASSUME Release(t) PROVE task' \in TaskType /\ count' \in CountType
  BY <1>5, <1>1, GotoType DEF Release
<1>6. Skip(t) => task' \in TaskType /\ count' \in CountType
  BY GotoType, AddType DEF Skip
<1>7. Error(t) => task' \in TaskType /\ count' \in CountType
  BY GotoType, AddType DEF Error
<1>8. \A p \in Pc : Proceed(t, p) => task' \in TaskType /\ count' \in CountType
  BY <1>1, GotoType DEF Proceed
<1>9. ASSUME Evaluate(t) PROVE task' \in TaskType /\ count' \in CountType
  BY <1>9, <1>6, <1>8 DEF Evaluate
<1>10. ASSUME Cooldown(t) PROVE task' \in TaskType /\ count' \in CountType
  BY <1>10, <1>6, <1>7, <1>8 DEF Cooldown
<1>11. ASSUME FetchKey(t) PROVE task' \in TaskType /\ count' \in CountType
  <2>1. CASE /\ Resolves(UserOf(t)) /\ UNCHANGED count
             /\ task' = [task EXCEPT ![t] = [pc |-> "fetched", key |-> row[UserOf(t)].key, seen |-> 0]]
    <3>1. row[UserOf(t)].key \in Key \cup {None}
      <4>1. row[UserOf(t)].key \in issued \cup {None} /\ issued \subseteq Key
        BY TaskParts DEF TypeOK, RegTypeOK
      <4> QED
        BY <4>1
    <3>2. task' \in TaskType
      BY <2>1, <3>1 DEF TypeOK, TaskType
    <3> QED
      BY <2>1, <3>2, <1>1
  <2> QED
    BY <1>11, <2>1, <1>6, <1>7 DEF FetchKey
<1>12. ASSUME CheckRevoked(t) PROVE task' \in TaskType /\ count' \in CountType
  BY <1>12, <1>6, <1>7, <1>8 DEF CheckRevoked
<1>13. ASSUME CheckBudget(t) PROVE task' \in TaskType /\ count' \in CountType
  BY <1>13, <1>6, <1>8 DEF CheckBudget
<1>14. ASSUME FetchRewards(t) PROVE task' \in TaskType /\ count' \in CountType
  BY <1>14, <1>6, <1>8 DEF FetchRewards
<1>15. ASSUME Simulate(t) PROVE task' \in TaskType /\ count' \in CountType
  BY <1>15, <1>6, <1>7 DEF Simulate
<1>16. ASSUME SendRebalance(t) PROVE task' \in TaskType /\ count' \in CountType
  BY <1>16, <1>1, GotoType DEF SendRebalance, Reports
<1>17. ASSUME SendClaim(t) PROVE task' \in TaskType /\ count' \in CountType
  BY <1>17, GotoType, AddType DEF SendClaim, Reports
<1>18. ASSUME LogSuccess(t) PROVE task' \in TaskType /\ count' \in CountType
  BY <1>18, <1>7, <1>8, GotoType, AddType DEF LogSuccess
<1>19. ASSUME LogFailure(t) PROVE task' \in TaskType /\ count' \in CountType
  BY <1>19, <1>7, <1>8 DEF LogFailure
<1>20. ASSUME CountRead(t) PROVE task' \in TaskType /\ count' \in CountType
  <2>1. CASE task' = [task EXCEPT ![t].pc = "counted", ![t].seen = ops[UserOf(t)]]
    <3>1. ops[UserOf(t)] \in Nat /\ task \in TaskType
      BY TaskParts DEF TypeOK, TaskType
    <3>2. task' \in TaskType
      BY <2>1, <3>1 DEF TaskType
    <3>3. UNCHANGED count
      BY <1>20 DEF CountRead
    <3> QED
      BY <3>2, <3>3, <1>1
  <2>2. CASE Goto(t, "release")
    BY <1>20, <2>2, <1>1, GotoType DEF CountRead
  <2> QED
    BY <1>20, <2>1, <2>2 DEF CountRead
<1>21. ASSUME CountWrite(t) PROVE task' \in TaskType /\ count' \in CountType
  BY <1>21, <1>1, GotoType DEF CountWrite
<1> QED
  BY <1>2, <1>3, <1>4, <1>5, <1>9, <1>10, <1>11, <1>12, <1>13, <1>14, <1>15, <1>16,
     <1>17, <1>18, <1>19, <1>20, <1>21 DEF TaskStep

(* Updating two fields of one request slot keeps the shape of the slots. *)
Slots(P, U, K) == [Req -> [pc : P, user : U, key : K, seen : Nat]]

LEMMA SlotKey ==
  ASSUME NEW P, NEW U, NEW K, NEW f \in Slots(P, U, K), NEW q \in Req, NEW p \in P, NEW k \in K
  PROVE  [f EXCEPT ![q].pc = p, ![q].key = k] \in Slots(P, U, K)
BY DEF Slots

LEMMA SlotSeen ==
  ASSUME NEW P, NEW U, NEW K, NEW f \in Slots(P, U, K), NEW q \in Req, NEW p \in P, NEW n \in Nat
  PROVE  [f EXCEPT ![q].pc = p, ![q].seen = n] \in Slots(P, U, K)
BY DEF Slots

(* Every step of a request keeps the shape of the request slots, and none *)
(* of these requests marks a key.                                         *)
LEMMA RequestStepReg ==
  ASSUME RegInv, TypeOK, NEW q \in Req,
         \/ RequestStep(q)
         \/ \E u \in User : ClaimLock(q, u)
         \/ \E u \in User, op \in {"redeem", "deposit"} : OperationResolve(q, u, op)
  PROVE  RegInv'
<1> DEFINE Moves(p) == /\ req' = [req EXCEPT ![q].pc = p] /\ UNCHANGED regButReq
<1> USE DEF RegInv, RegTypeOK, AckedKeysBlacklisted, MarkedKeysBlacklisted, ReqPc, regButReq
<1>1. ASSUME NEW p \in ReqPc \ {"marked"}, Moves(p), req[q].pc # "idle" PROVE RegInv'
  BY <1>1
<1>2. ASSUME Finish(q), UNCHANGED regButReq PROVE RegInv'
  BY <1>2 DEF Finish, IdleReq
<1>3. ASSUME OperationSend(q) PROVE RegInv'
  <2>1. req[q].pc # "idle" /\ UNCHANGED regButReq
    BY <1>3 DEF OperationSend, ReqAt
  <2>2. ReqGoto(q, "redeemOk") \/ Finish(q)
    BY <1>3 DEF OperationSend
  <2> QED
    BY <2>1, <2>2, <1>1, <1>2 DEF ReqGoto
<1>4. ASSUME ClaimResolve(q) PROVE RegInv'
  <2>1. req[q].pc = "claim" /\ UNCHANGED regButReq
    BY <1>4 DEF ClaimResolve, ReqAt
  <2>2. CASE req' = [req EXCEPT ![q].pc = "claimSend", ![q].key = row[req[q].user].key]
    <3>1. row[req[q].user].key \in issued \cup {None}
      BY <2>1
    <3>2. req' \in [Req -> [pc : ReqPc, user : User \cup {None}, key : issued \cup {None}, seen : Nat]]
      <4>1. req \in Slots(ReqPc, User \cup {None}, issued \cup {None}) /\ "claimSend" \in ReqPc
        BY DEF Slots
      <4> HIDE DEF ReqPc, RegInv, RegTypeOK
      <4>2. [req EXCEPT ![q].pc = "claimSend", ![q].key = row[req[q].user].key]
              \in Slots(ReqPc, User \cup {None}, issued \cup {None})
        BY <3>1, <4>1, SlotKey
      <4> QED
        BY <2>2, <4>2 DEF Slots
    <3>3. \A p \in Req : req'[p].pc # "idle" => req'[p].user \in User
      BY <2>1, <2>2
    <3>4. AckedKeysBlacklisted' /\ MarkedKeysBlacklisted'
      BY <2>1, <2>2
    <3> QED
      BY <2>1, <3>2, <3>3, <3>4
  <2>3. CASE ReqGoto(q, "unlock")
    BY <2>1, <2>3, <1>1 DEF ReqGoto
  <2> QED
    BY <1>4, <2>2, <2>3 DEF ClaimResolve
<1>5. ASSUME ClaimSend(q) PROVE RegInv'
  <2>1. req[q].pc # "idle" /\ UNCHANGED regButReq
    BY <1>5 DEF ClaimSend, ReqAt
  <2>2. ReqGoto(q, "claimOk") \/ ReqGoto(q, "unlock")
    BY <1>5 DEF ClaimSend
  <2> QED
    BY <2>1, <2>2, <1>1 DEF ReqGoto
<1>6. ASSUME RequestCountRead(q) PROVE RegInv'
  <2>1. req[q].pc \in {"redeemOk", "claimOk"} /\ UNCHANGED regButReq
    BY <1>6 DEF RequestCountRead, ReqAt
  <2>2. PICK p \in {"redeemCounted", "claimCounted"} :
          req' = [req EXCEPT ![q].pc = p, ![q].seen = ops[req[q].user]]
    BY <1>6 DEF RequestCountRead
  <2>3. ops[req[q].user] \in Nat
    BY <2>1 DEF TypeOK
  <2>4. req' \in [Req -> [pc : ReqPc, user : User \cup {None}, key : issued \cup {None}, seen : Nat]]
    <3>1. req \in Slots(ReqPc, User \cup {None}, issued \cup {None}) /\ p \in ReqPc
      BY DEF Slots
    <3> HIDE DEF ReqPc, RegInv, RegTypeOK
    <3>2. [req EXCEPT ![q].pc = p, ![q].seen = ops[req[q].user]]
            \in Slots(ReqPc, User \cup {None}, issued \cup {None})
      BY <2>3, <3>1, SlotSeen
    <3> QED
      BY <2>2, <3>2 DEF Slots
  <2>5. \A r \in Req : req'[r].pc # "idle" => req'[r].user \in User
    BY <2>1, <2>2
  <2>6. AckedKeysBlacklisted' /\ MarkedKeysBlacklisted'
    BY <2>1, <2>2
  <2> QED
    BY <2>1, <2>4, <2>5, <2>6
<1>7. ASSUME RequestCountWrite(q) PROVE RegInv'
  <2>1. req[q].pc # "idle" /\ UNCHANGED regButReq
    BY <1>7 DEF RequestCountWrite, ReqAt
  <2>2. Finish(q) \/ ReqGoto(q, "unlock")
    BY <1>7 DEF RequestCountWrite
  <2> QED
    BY <2>1, <2>2, <1>1, <1>2 DEF ReqGoto
<1>8. ASSUME ClaimRelease(q) PROVE RegInv'
  BY <1>8, <1>2 DEF ClaimRelease
<1>9. ASSUME NEW u \in User, ClaimLock(q, u) PROVE RegInv'
  BY <1>9 DEF ClaimLock, Begin
<1>10. ASSUME NEW u \in User, NEW op \in {"redeem", "deposit"}, OperationResolve(q, u, op)
       PROVE RegInv'
  BY <1>10 DEF OperationResolve, Begin
<1> QED
  BY <1>3, <1>4, <1>5, <1>6, <1>7, <1>8, <1>9, <1>10 DEF RequestStep

(* Every step of the system preserves what the registry's own proofs need. *)
LEMMA CronStepReg ==
  ASSUME RegInv, TypeOK, [Next]_vars
  PROVE  RegInv'
<1>1. UNCHANGED regVars => RegInv'
  BY DEF regVars, RegInv, RegTypeOK, AckedKeysBlacklisted, MarkedKeysBlacklisted
<1>2. ASSUME NEW r \in Run, StartRun(r) \/ BlockRun(r) \/ RunStep(r) \/ Crash(r)
      PROVE  UNCHANGED regVars
  BY <1>2 DEF StartRun, BlockRun, RunStep, StartChunk, EndPhase, Crash
<1>3. ASSUME NEW t \in Task, TaskStep(t) PROVE UNCHANGED regVars
  BY <1>3 DEF TaskStep, Lock, LockBusy, StoreRejects, Release, Evaluate, Cooldown,
     FetchKey, CheckRevoked, CheckBudget, FetchRewards, Simulate, SendRebalance,
     SendClaim, LogSuccess, LogFailure, CountRead, CountWrite
<1>4. ASSUME NEW u \in User, Lapse(u) \/ CooldownPasses(u) PROVE UNCHANGED regVars
  BY <1>4 DEF Lapse, CooldownPasses
<1> QED
  BY <1>1, <1>2, <1>3, <1>4, RegStepInv, RequestStepReg DEF Next, vars

(* The initial states satisfy the invariants. *)
LEMMA CronInitInv == Init => RegInv /\ TypeOK /\ HoldersHoldLocks
<1> SUFFICES ASSUME Init PROVE RegInv /\ TypeOK /\ HoldersHoldLocks
  OBVIOUS
<1>1. RegInv
  BY RegInitInv DEF Init
<1>2. HoldersHoldLocks
  BY DEF Init, RegInit, HoldersHoldLocks, Bracket, ClaimBracket, IdleTask, IdleReq
<1>3. RegTypeOK
  BY <1>1 DEF RegInv
<1>4. TypeOK
  BY <1>3 DEF Init, TypeOK, IdleTask, IdleRun, EmptySummary, Field
<1> QED
  BY <1>1, <1>2, <1>4

(* Every step keeps the shape of the state. *)
LEMMA CronStepType ==
  ASSUME RegInv, TypeOK, [Next]_vars
  PROVE  TypeOK'
<1>0. RegTypeOK'
  BY CronStepReg DEF RegInv
<1>1. ASSUME NEW t \in Task, TaskStep(t) PROVE TypeOK'
  <2>1. task' \in TaskType /\ count' \in CountType
    BY <1>1, TaskStepType
  <2>2. lock' \in [User -> Task \cup Req \cup {None}]
    BY <1>1, TaskParts DEF TypeOK, TaskStep, Lock, LockBusy, StoreRejects, Release, Evaluate,
       Cooldown, FetchKey, CheckRevoked, CheckBudget, FetchRewards, Simulate, SendRebalance,
       SendClaim, LogSuccess, LogFailure, CountRead, CountWrite
  <2>3. run' \in RunType
    <3>1. run' = run \/ run' = [run EXCEPT ![RunOf(t)].aborted = TRUE]
      BY <1>1 DEF TaskStep, Lock, LockBusy, StoreRejects, Release, Evaluate,
         Cooldown, FetchKey, CheckRevoked, CheckBudget, FetchRewards, Simulate, SendRebalance,
         SendClaim, LogSuccess, LogFailure, CountRead, CountWrite
    <3>2. run \in RunType /\ RunOf(t) \in Run
      BY TaskParts DEF TypeOK, RunType
    <3> QED
      BY <3>1, <3>2, AbortedRun
  <2>4. WorldOK'
    <3>1. WorldOK /\ UserOf(t) \in User /\ task[t].seen \in Nat
      BY TaskParts DEF TypeOK, WorldOK
    <3>2. CASE UNCHANGED worldVars
      BY <3>1, <3>2 DEF worldVars, WorldOK
    <3>3. CASE Simulate(t)
      <4>1. rows' \in [User -> Nat]
        BY <3>1, <3>3 DEF Simulate, WorldOK
      <4>2. claimRow' = claimRow \/ claimRow' = [claimRow EXCEPT ![UserOf(t)] = TRUE]
        BY <3>3 DEF Simulate
      <4>3. claimRow' \in [User -> BOOLEAN]
        BY <3>1, <4>2, FlagSet DEF WorldOK
      <4> QED
        BY <3>1, <3>3, <4>1, <4>3 DEF Simulate, WorldOK
    <3>4. CASE SendRebalance(t)
      BY <3>1, <3>4 DEF SendRebalance, WorldOK
    <3>5. CASE SendClaim(t)
      BY <3>1, <3>5 DEF SendClaim, WorldOK
    <3>6. CASE LogSuccess(t)
      <4>1. rows' \in [User -> Nat]
        BY <3>1, <3>6 DEF LogSuccess, WorldOK
      <4>2. claimRow' = claimRow \/ claimRow' = [claimRow EXCEPT ![UserOf(t)] = TRUE]
        BY <3>6 DEF LogSuccess
      <4>3. claimRow' \in [User -> BOOLEAN]
        BY <3>1, <4>2, FlagSet DEF WorldOK
      <4> QED
        BY <3>1, <3>6, <4>1, <4>3 DEF LogSuccess, WorldOK
    <3>7. CASE CountWrite(t)
      BY <3>1, <3>7 DEF CountWrite, Incremented, WorldOK
    <3> QED
      BY <1>1, <3>2, <3>3, <3>4, <3>5, <3>6, <3>7 DEF TaskStep, Lock, LockBusy, StoreRejects,
         Release, Evaluate, Cooldown, FetchKey, CheckRevoked, CheckBudget, FetchRewards,
         LogFailure, CountRead
  <2> QED
    BY <1>0, <2>1, <2>2, <2>3, <2>4 DEF TypeOK, TaskType, CountType, RunType, Pc, WorldOK
<1>2. ASSUME NEW r \in Run, StartRun(r) \/ BlockRun(r) \/ RunStep(r) \/ Crash(r) PROVE TypeOK'
  <2> USE <1>0 DEF TypeOK
  <2>1. CASE StartRun(r)
    BY <2>1 DEF StartRun, Active, worldVars
  <2>2. CASE BlockRun(r)
    BY <2>2 DEF BlockRun, worldVars
  <2>3. CASE StartChunk(r)
    <3>1. task' \in TaskType
      BY <2>3 DEF StartChunk, WaitingTask, TaskType, Pc
    <3>2. run' \in RunType
      <4>1. PICK C \in SUBSET run[r].todo : run' = [run EXCEPT ![r].todo = @ \ C]
        BY <2>3 DEF StartChunk
      <4>2. run[r].todo \ C \in SUBSET User
        OBVIOUS
      <4>3. run \in RunType
        BY DEF RunType
      <4> HIDE DEF TypeOK
      <4> QED
        BY <4>1, <4>2, <4>3 DEF RunType
    <3> QED
      BY <2>3, <3>1, <3>2 DEF StartChunk, TaskType, Pc, RunType, worldVars
  <2>4. CASE EndPhase(r)
    <3>1. count \in CountType /\ run \in RunType
      BY DEF CountType, RunType
    <3> HIDE DEF TypeOK
    <3>2. count' \in CountType
      BY <2>4, <3>1 DEF EndPhase, EmptySummary, CountType
    <3>3. run' \in RunType
      <4>1. \/ run' = [run EXCEPT ![r] = [phase |-> "claim", users |-> run[r].users,
                                         todo |-> run[r].users, aborted |-> FALSE]]
            \/ run' = [run EXCEPT ![r].phase = "done"]
        BY <2>4 DEF EndPhase
      <4>2. run[r].users \in SUBSET User
        BY <3>1 DEF RunType
      <4>3. [phase |-> "claim", users |-> run[r].users, todo |-> run[r].users, aborted |-> FALSE]
              \in [phase : {"off", "rebalance", "claim", "done"},
                   users : SUBSET User, todo : SUBSET User, aborted : BOOLEAN]
        BY <4>2
      <4>4. CASE run' = [run EXCEPT ![r].phase = "done"]
        BY <3>1, <4>4 DEF RunType
      <4>5. CASE run' = [run EXCEPT ![r] = [phase |-> "claim", users |-> run[r].users,
                                           todo |-> run[r].users, aborted |-> FALSE]]
        BY <3>1, <4>3, <4>5 DEF RunType
      <4> QED
        BY <4>1, <4>4, <4>5
    <3> QED
      BY <2>4, <3>2, <3>3 DEF EndPhase, CountType, RunType, worldVars, TypeOK
  <2>5. CASE Crash(r)
    <3>1. run' \in RunType
      BY <2>5, AbortedRun DEF Crash, TypeOK, RunType
    <3>2. task' \in [Task -> [pc : Bracket \cup {"over", "wait"},
                             key : Key \cup {None}, seen : Nat]]
      <4>1. IdleTask \in [pc : Bracket \cup {"over", "wait"}, key : Key \cup {None}, seen : Nat]
        BY DEF IdleTask
      <4> QED
        BY <2>5, <4>1 DEF Crash, TypeOK
    <3> QED
      BY <2>5, <3>1, <3>2, <1>0 DEF Crash, worldVars, TypeOK, RunType
  <2> QED
    BY <1>2, <2>1, <2>2, <2>3, <2>4, <2>5 DEF RunStep
<1>3. ASSUME NEW q \in Req,
             \/ RequestStep(q)
             \/ \E u \in User : ClaimLock(q, u)
             \/ \E u \in User, op \in {"redeem", "deposit"} : OperationResolve(q, u, op)
      PROVE  TypeOK'
  <2>1. req[q].pc # "idle" => req[q].user \in User /\ req[q].seen \in Nat
    BY DEF TypeOK, RegTypeOK
  <2> USE <1>0, <2>1 DEF TypeOK
  <2>2. CASE OperationSend(q)
    BY <2>2 DEF OperationSend, ReqAt
  <2>3. CASE ClaimResolve(q)
    BY <2>3 DEF ClaimResolve, worldVars
  <2>4. CASE ClaimSend(q)
    BY <2>4 DEF ClaimSend, ReqAt
  <2>5. CASE RequestCountRead(q)
    BY <2>5 DEF RequestCountRead, worldVars
  <2>6. CASE RequestCountWrite(q)
    <3>1. req[q].user \in User /\ req[q].seen \in Nat /\ WorldOK
      BY <2>6 DEF RequestCountWrite, ReqAt, WorldOK
    <3>2. WorldOK'
      <4> HIDE DEF TypeOK
      <4>1. ops' \in [User -> Nat]
        BY <2>6, <3>1 DEF RequestCountWrite, Incremented, WorldOK
      <4>2. claimRow' = claimRow \/ claimRow' = [claimRow EXCEPT ![req[q].user] = TRUE]
        BY <2>6 DEF RequestCountWrite
      <4>3. claimRow' \in [User -> BOOLEAN]
        BY <3>1, <4>2, FlagSet DEF WorldOK
      <4> QED
        BY <2>6, <3>1, <4>1, <4>3 DEF RequestCountWrite, WorldOK
    <3> QED
      BY <2>6, <3>2 DEF RequestCountWrite, WorldOK
  <2>7. CASE ClaimRelease(q)
    BY <2>7 DEF ClaimRelease, worldVars
  <2>8. CASE \E u \in User : ClaimLock(q, u)
    BY <2>8 DEF ClaimLock, worldVars
  <2>9. CASE \E u \in User, op \in {"redeem", "deposit"} : OperationResolve(q, u, op)
    BY <2>9 DEF OperationResolve, worldVars
  <2> QED
    BY <1>3, <2>2, <2>3, <2>4, <2>5, <2>6, <2>7, <2>8, <2>9 DEF RequestStep
<1>4. ASSUME NEW u \in User, Lapse(u) \/ CooldownPasses(u) PROVE TypeOK'
  BY <1>0, <1>4 DEF TypeOK, Lapse, CooldownPasses, worldVars
<1>5. CASE UNCHANGED <<lock, run, task, count, worldVars>>
  BY <1>0, <1>5 DEF TypeOK, worldVars
<1> QED
  BY <1>1, <1>2, <1>3, <1>4, <1>5 DEF Next, vars

(* Apart from the two acquires, no step puts a worker into its bracket. *)
Shrinks ==
  /\ \A t \in Task : task'[t].pc \in Bracket => task[t].pc \in Bracket
  /\ \A q \in Req : req'[q].pc \in ClaimBracket =>
       req[q].pc \in ClaimBracket /\ req'[q].user = req[q].user

(* A task's step leaves every other task alone. *)
LEMMA TaskStepLocal ==
  ASSUME TypeOK, NEW t \in Task, TaskStep(t), NEW s \in Task, s # t
  PROVE  task'[s] = task[s]
BY DEF TypeOK, TaskStep, Lock, LockBusy, StoreRejects, Release, Evaluate, Cooldown,
   FetchKey, CheckRevoked, CheckBudget, FetchRewards, Simulate, SendRebalance,
   SendClaim, LogSuccess, LogFailure, CountRead, CountWrite, Goto, Skip, Error, Proceed

(* A task that is not in its bracket enters it by Lock only. *)
LEMMA TaskStepShrinks ==
  ASSUME TypeOK, NEW t \in Task, TaskStep(t), ~Lock(t)
  PROVE  Shrinks
<1>1. UNCHANGED req
  BY DEF TaskStep, LockBusy, StoreRejects, Release, Evaluate, Cooldown,
     FetchKey, CheckRevoked, CheckBudget, FetchRewards, Simulate, SendRebalance,
     SendClaim, LogSuccess, LogFailure, CountRead, CountWrite, regVars
<1>2. ASSUME NEW s \in Task, s # t PROVE task'[s] = task[s]
  BY <1>2, TaskStepLocal
<1>3. task[t].pc \notin Bracket => task'[t].pc = "over"
  BY DEF TypeOK, TaskStep, LockBusy, StoreRejects, Release, Evaluate, Cooldown,
     FetchKey, CheckRevoked, CheckBudget, FetchRewards, Simulate, SendRebalance,
     SendClaim, LogSuccess, LogFailure, CountRead, CountWrite, Goto, At, Bracket
<1> QED
  BY <1>1, <1>2, <1>3 DEF Shrinks, Bracket

(* Nor does any other step but ClaimLock. *)
LEMMA RequestStepShrinks ==
  ASSUME RegInv, TypeOK, NEW q \in Req,
         \/ RequestStep(q)
         \/ \E u \in User, op \in {"redeem", "deposit"} : OperationResolve(q, u, op)
  PROVE  Shrinks
<1>1. UNCHANGED task
  BY DEF RequestStep, OperationSend, ClaimResolve, ClaimSend, RequestCountRead,
     RequestCountWrite, ClaimRelease, OperationResolve
<1>2. ASSUME NEW p \in Req, p # q PROVE req'[p] = req[p]
  BY <1>2 DEF TypeOK, RegTypeOK, RequestStep, OperationSend, ClaimResolve, ClaimSend,
     RequestCountRead, RequestCountWrite, ClaimRelease, OperationResolve, Begin, Finish, ReqGoto
<1>3. req'[q].pc \in ClaimBracket => req[q].pc \in ClaimBracket /\ req'[q].user = req[q].user
  <2> USE DEF TypeOK, RegTypeOK, ClaimBracket, ReqAt, ReqGoto, Finish, IdleReq
  <2>1. CASE OperationSend(q)
    BY <2>1 DEF OperationSend
  <2>2. CASE ClaimResolve(q)
    BY <2>2 DEF ClaimResolve
  <2>3. CASE ClaimSend(q)
    BY <2>3 DEF ClaimSend
  <2>4. CASE RequestCountRead(q)
    BY <2>4 DEF RequestCountRead
  <2>5. CASE RequestCountWrite(q)
    BY <2>5 DEF RequestCountWrite
  <2>6. CASE ClaimRelease(q)
    BY <2>6 DEF ClaimRelease
  <2>7. CASE \E u \in User, op \in {"redeem", "deposit"} : OperationResolve(q, u, op)
    BY <2>7 DEF OperationResolve, Begin
  <2> QED
    BY <2>1, <2>2, <2>3, <2>4, <2>5, <2>6, <2>7 DEF RequestStep
<1> QED
  BY <1>1, <1>2, <1>3 DEF Shrinks

(* A registration request neither takes nor gives back a lock. *)
LEMMA RegStepShrinks ==
  ASSUME RegInv, RegNext, UNCHANGED task
  PROVE  Shrinks
<1> USE DEF RegInv, RegTypeOK, ClaimBracket
<1>1. UNCHANGED req => Shrinks
  BY DEF Shrinks
<1>2. ASSUME NEW q \in Req, Finish(q) PROVE Shrinks
  BY <1>2 DEF Shrinks, Finish, IdleReq
<1>3. ASSUME NEW q \in Req, NEW p \in {"toggle", "revoke", "undelegate"}, NEW u \in User, NEW k,
             Begin(q, p, u, k)
      PROVE  Shrinks
  BY <1>3 DEF Shrinks, Begin
<1>4. ASSUME NEW q \in Req, RevokeMark(q) PROVE Shrinks
  BY <1>4 DEF Shrinks, RevokeMark
<1> QED
  BY <1>1, <1>2, <1>3, <1>4 DEF RegNext, RegisterKey, Upsert, Expire, ForgetRevocation, ToggleResolve,
     RevokeRead, UndelegateResolve, ToggleUpdate, RevokeClear, UndelegateReset, RequestFails

(* Every step of the system either lets nobody in or is an acquire. *)
LEMMA CronStepShrinks ==
  ASSUME RegInv, TypeOK, [Next]_vars
  PROVE  \/ Shrinks
         \/ \E t \in Task : Lock(t)
         \/ \E q \in Req, u \in User : ClaimLock(q, u)
<1>1. ASSUME NEW r \in Run, StartRun(r) \/ BlockRun(r) \/ RunStep(r) \/ Crash(r) PROVE Shrinks
  <2> USE DEF Shrinks, regVars, Bracket, ClaimBracket
  <2>1. CASE StartRun(r)
    BY <2>1 DEF StartRun
  <2>2. CASE BlockRun(r)
    BY <2>2 DEF BlockRun
  <2>3. CASE StartChunk(r)
    BY <2>3 DEF StartChunk, WaitingTask
  <2>4. CASE EndPhase(r)
    BY <2>4 DEF EndPhase
  <2>5. CASE Crash(r)
    BY <2>5 DEF Crash, IdleTask
  <2> QED
    BY <1>1, <2>1, <2>2, <2>3, <2>4, <2>5 DEF RunStep
<1>2. ASSUME UNCHANGED <<req, task>> PROVE Shrinks
  BY <1>2 DEF Shrinks
<1>3. ASSUME NEW u \in User, Lapse(u) \/ CooldownPasses(u) PROVE Shrinks
  BY <1>2, <1>3 DEF Lapse, CooldownPasses, regVars
<1>4. ASSUME UNCHANGED vars PROVE Shrinks
  BY <1>2, <1>4 DEF vars, regVars
<1> QED
  BY <1>1, <1>3, <1>4, TaskStepShrinks, RequestStepShrinks, RegStepShrinks DEF Next

(* Holders hold their locks as long as none lapses under them. *)
LEMMA CronStepHolders ==
  ASSUME "lapse" \notin Fault, RegInv, TypeOK, HoldersHoldLocks, [Next]_vars
  PROVE  HoldersHoldLocks'
<1> USE DEF HoldersHoldLocks
<1>1. None \notin Task \cup Req /\ Task \cap Req = {}
  BY CronAssumption DEF Task
<1>2. Shrinks /\ UNCHANGED lock => HoldersHoldLocks'
  BY DEF Shrinks
<1>3. ASSUME NEW t \in Task, Lock(t) PROVE HoldersHoldLocks'
  <2>1. /\ lock[UserOf(t)] = None
        /\ lock' = [lock EXCEPT ![UserOf(t)] = t]
        /\ task' = [task EXCEPT ![t].pc = "locked"]
        /\ UNCHANGED req
    BY <1>3 DEF Lock, Free, Goto, regVars
  <2>2. ASSUME NEW s \in Task, task'[s].pc \in Bracket PROVE lock'[UserOf(s)] = s
    BY <1>1, <2>1, <2>2, TaskParts DEF TypeOK
  <2>3. ASSUME NEW q \in Req, req'[q].pc \in ClaimBracket PROVE lock'[req'[q].user] = q
    BY <1>1, <2>1, <2>3, TaskParts DEF TypeOK
  <2> QED
    BY <2>2, <2>3
<1>4. ASSUME NEW q \in Req, NEW u \in User, ClaimLock(q, u) PROVE HoldersHoldLocks'
  <2>1. /\ lock[u] = None
        /\ lock' = [lock EXCEPT ![u] = q]
        /\ req' = [req EXCEPT ![q] = [pc |-> "claim", user |-> u, key |-> None, seen |-> 0]]
        /\ UNCHANGED task
    BY <1>4 DEF ClaimLock, Free, Begin
  <2>2. ASSUME NEW s \in Task, task'[s].pc \in Bracket PROVE lock'[UserOf(s)] = s
    BY <1>1, <2>1, <2>2, TaskParts DEF TypeOK
  <2>3. ASSUME NEW p \in Req, req'[p].pc \in ClaimBracket PROVE lock'[req'[p].user] = p
    BY <1>1, <2>1, <2>3 DEF TypeOK, RegTypeOK
  <2> QED
    BY <2>2, <2>3
<1>5. ASSUME NEW t \in Task, Release(t), Shrinks PROVE HoldersHoldLocks'
  <2>1. /\ task[t].pc = "release"
        /\ lock' = [lock EXCEPT ![UserOf(t)] = IF @ = t THEN None ELSE @]
        /\ task' = [task EXCEPT ![t].pc = "over"]
        /\ UNCHANGED req
    BY <1>5 DEF Release, At, Goto, regVars
  <2>2. lock[UserOf(t)] = t
    BY <2>1 DEF Bracket
  <2>3. ASSUME NEW s \in Task, task'[s].pc \in Bracket PROVE lock'[UserOf(s)] = s
    BY <1>1, <1>5, <2>1, <2>2, <2>3, TaskParts DEF TypeOK, Shrinks, Bracket
  <2>4. ASSUME NEW q \in Req, req'[q].pc \in ClaimBracket PROVE lock'[req'[q].user] = q
    BY <1>1, <2>1, <2>2, <2>4, TaskParts DEF TypeOK
  <2> QED
    BY <2>3, <2>4
<1>6. ASSUME NEW q \in Req, ClaimRelease(q), Shrinks PROVE HoldersHoldLocks'
  <2>1. /\ req[q].pc = "unlock"
        /\ \/ lock' = [lock EXCEPT ![req[q].user] = IF @ = q THEN None ELSE @]
           \/ lock' = lock
        /\ req' = [req EXCEPT ![q] = IdleReq]
        /\ UNCHANGED task
    BY <1>6 DEF ClaimRelease, ReqAt, Finish
  <2>2. lock[req[q].user] = q /\ req[q].user \in User
    BY <2>1 DEF ClaimBracket, TypeOK, RegTypeOK
  <2>3. ASSUME NEW s \in Task, task'[s].pc \in Bracket PROVE lock'[UserOf(s)] = s
    BY <1>1, <2>1, <2>2, <2>3, TaskParts DEF TypeOK
  <2>4. ASSUME NEW p \in Req, req'[p].pc \in ClaimBracket PROVE lock'[req'[p].user] = p
    <3>1. p # q /\ req'[p] = req[p]
      BY <2>1, <2>4 DEF TypeOK, RegTypeOK, IdleReq, ClaimBracket
    <3>2. req[p].user \in User /\ lock[req[p].user] = p
      BY <3>1, <2>4 DEF ClaimBracket, TypeOK, RegTypeOK
    <3> QED
      BY <2>1, <2>2, <3>1, <3>2 DEF TypeOK
  <2> QED
    BY <2>3, <2>4
<1>7. ASSUME NEW u \in User, Lapse(u) PROVE HoldersHoldLocks'
  <2>1. /\ lock[u] \notin BusyTasks(u) \cup BusyRequests(u)
        /\ lock' = [lock EXCEPT ![u] = None]
        /\ UNCHANGED <<task, req>>
    BY <1>7 DEF Lapse, Busy, regVars
  <2>2. ASSUME NEW s \in Task, task'[s].pc \in Bracket PROVE lock'[UserOf(s)] = s
    BY <2>1, <2>2, TaskParts DEF BusyTasks, TypeOK
  <2>3. ASSUME NEW q \in Req, req'[q].pc \in ClaimBracket PROVE lock'[req'[q].user] = q
    BY <2>1, <2>3 DEF BusyRequests, TypeOK
  <2> QED
    BY <2>2, <2>3
<1>8. \/ UNCHANGED lock
      \/ \E t \in Task : Lock(t) \/ Release(t)
      \/ \E q \in Req : ClaimRelease(q) \/ \E u \in User : ClaimLock(q, u)
      \/ \E u \in User : Lapse(u)
  BY DEF Next, vars, StartRun, BlockRun, RunStep, StartChunk, EndPhase, Crash, TaskStep, LockBusy,
     StoreRejects, Evaluate, Cooldown, FetchKey, CheckRevoked, CheckBudget, FetchRewards,
     Simulate, SendRebalance, SendClaim, LogSuccess, LogFailure, CountRead, CountWrite,
     RequestStep, OperationSend, ClaimResolve, ClaimSend, RequestCountRead, RequestCountWrite,
     OperationResolve, CooldownPasses
<1>9. \/ Shrinks
      \/ \E t \in Task : Lock(t)
      \/ \E q \in Req, u \in User : ClaimLock(q, u)
  BY CronStepShrinks
<1> HIDE DEF HoldersHoldLocks
<1>10. CASE \E t \in Task : Lock(t)
  BY <1>3, <1>10
<1>11. CASE \E q \in Req, u \in User : ClaimLock(q, u)
  BY <1>4, <1>11
<1>12. CASE Shrinks
  BY <1>2, <1>3, <1>4, <1>5, <1>6, <1>7, <1>8, <1>12
<1> QED
  BY <1>9, <1>10, <1>11, <1>12

-------------------------------------------------------------------------------
(* Sizes: one more, one fewer, no more. *)
LEMMA OneMore ==
  ASSUME NEW S, NEW T, NEW x, IsFiniteSet(S), T \subseteq S \cup {x}
  PROVE  IsFiniteSet(T) /\ Cardinality(S) \in Nat /\ Cardinality(T) \in Nat
         /\ Cardinality(T) <= Cardinality(S) + 1
<1>1. IsFiniteSet(S \cup {x}) /\ Cardinality(S \cup {x}) <= Cardinality(S) + 1
  <2>1. Cardinality(S) \in Nat
    BY FS_CardinalityType
  <2> QED
    BY <2>1, FS_AddElement
<1>2. IsFiniteSet(T) /\ Cardinality(T) <= Cardinality(S \cup {x})
  BY <1>1, FS_Subset
<1>3. Cardinality(S) \in Nat /\ Cardinality(T) \in Nat /\ Cardinality(S \cup {x}) \in Nat
  BY <1>1, <1>2, FS_CardinalityType
<1> QED
  BY <1>1, <1>2, <1>3

(* A part of a finite set is no larger.                                       *)
LEMMA NoMore ==
  ASSUME NEW S, NEW T, IsFiniteSet(S), T \subseteq S
  PROVE  IsFiniteSet(T) /\ Cardinality(S) \in Nat /\ Cardinality(T) \in Nat
         /\ Cardinality(T) <= Cardinality(S)
<1>1. IsFiniteSet(T) /\ Cardinality(T) <= Cardinality(S)
  BY FS_Subset
<1> QED
  BY <1>1, FS_CardinalityType

(* Without one of its members it is smaller.                                  *)
LEMMA OneFewer ==
  ASSUME NEW S, NEW T, NEW x \in S, IsFiniteSet(S), T \subseteq S \ {x}
  PROVE  IsFiniteSet(T) /\ Cardinality(S) \in Nat /\ Cardinality(T) \in Nat
         /\ Cardinality(T) + 1 <= Cardinality(S)
<1>1. IsFiniteSet(S \ {x}) /\ Cardinality(S \ {x}) = Cardinality(S) - 1
  BY FS_RemoveElement
<1>2. Cardinality(S) \in Nat
  BY FS_CardinalityType
<1>3. IsFiniteSet(T) /\ Cardinality(T) \in Nat /\ Cardinality(T) <= Cardinality(S \ {x})
  BY <1>1, NoMore
<1> QED
  BY <1>1, <1>2, <1>3

-------------------------------------------------------------------------------
(* What the steps do to the runs. *)

(* A step of a task leaves its run in its phase, and is one of a task that *)
(* is not over.                                                            *)
LEMMA TaskStepRun ==
  ASSUME TypeOK, NEW t \in Task, TaskStep(t)
  PROVE  /\ ~At(t, "over")
         /\ \A r \in Run : /\ run'[r].phase = run[r].phase /\ run'[r].todo = run[r].todo
                           /\ run'[r].users = run[r].users
                           /\ run[r].aborted => run'[r].aborted
         /\ \A r \in Run : r # RunOf(t) => count'[r] = count[r]
<1>1. ~At(t, "over")
  BY DEF TaskStep, Lock, LockBusy, StoreRejects, Release, Evaluate, Cooldown, FetchKey,
     CheckRevoked, CheckBudget, FetchRewards, Simulate, SendRebalance, SendClaim, LogSuccess,
     LogFailure, CountRead, CountWrite, At
<1>2. run' = run \/ run' = [run EXCEPT ![RunOf(t)].aborted = TRUE]
  BY DEF TaskStep, Lock, LockBusy, StoreRejects, Release, Evaluate, Cooldown, FetchKey,
     CheckRevoked, CheckBudget, FetchRewards, Simulate, SendRebalance, SendClaim, LogSuccess,
     LogFailure, CountRead, CountWrite
<1>3. count' = count \/ \E f \in Field : Add(t, f)
  BY DEF TaskStep, Lock, LockBusy, StoreRejects, Release, Evaluate, Cooldown, FetchKey,
     CheckRevoked, CheckBudget, FetchRewards, Simulate, SendRebalance, SendClaim, LogSuccess,
     LogFailure, CountRead, CountWrite, Skip, Error, Proceed, Field
<1>4. \A r \in Run : r # RunOf(t) => count'[r] = count[r]
  BY <1>3 DEF Add, TypeOK
<1>5. \A r \in Run : /\ run'[r].phase = run[r].phase /\ run'[r].todo = run[r].todo
                     /\ run'[r].users = run[r].users
                     /\ run[r].aborted => run'[r].aborted
  <2>1. ASSUME NEW r \in Run PROVE run'[r] = run[r] \/ run'[r] = [run[r] EXCEPT !.aborted = TRUE]
    BY <1>2 DEF TypeOK
  <2>2. ASSUME NEW r \in Run, run'[r] = [run[r] EXCEPT !.aborted = TRUE]
        PROVE  /\ run'[r].phase = run[r].phase /\ run'[r].todo = run[r].todo
               /\ run'[r].users = run[r].users /\ run'[r].aborted
    <3>1. run[r] \in [phase : {"off", "rebalance", "claim", "done"},
                      users : SUBSET User, todo : SUBSET User, aborted : BOOLEAN]
      BY DEF TypeOK
    <3> QED
      BY <2>2, <3>1
  <2> QED
    BY <2>1, <2>2
<1> QED
  BY <1>1, <1>4, <1>5

(* Only the steps of the cron change its runs, its tasks and its summaries. *)
LEMMA StepKinds ==
  ASSUME [Next]_vars
  PROVE  \/ \E t \in Task : TaskStep(t)
         \/ \E r \in Run : StartRun(r) \/ BlockRun(r) \/ StartChunk(r) \/ EndPhase(r) \/ Crash(r)
         \/ UNCHANGED <<run, task, count>>
BY DEF Next, vars, RunStep, RequestStep, OperationSend, ClaimResolve, ClaimSend,
   RequestCountRead, RequestCountWrite, ClaimRelease, OperationResolve, ClaimLock,
   Lapse, CooldownPasses

(* The steps of a run leave the other runs and their tasks alone. *)
LEMMA RunStepLocal ==
  ASSUME TypeOK, NEW r \in Run,
         StartRun(r) \/ BlockRun(r) \/ StartChunk(r) \/ EndPhase(r) \/ Crash(r)
  PROVE  /\ \A s \in Run \ {r} : run'[s] = run[s] /\ count'[s] = count[s]
         /\ \A t \in Task : RunOf(t) # r => task'[t] = task[t]
         /\ UNCHANGED <<worldVars, req>>
BY DEF StartRun, BlockRun, StartChunk, EndPhase, Crash, TypeOK, regVars

(* Outside its two phases a run has no task and nothing to start. *)
LEMMA StepIdle ==
  ASSUME TypeOK, RunsIdle, [Next]_vars
  PROVE  RunsIdle'
<1>1. ASSUME NEW t \in Task, TaskStep(t) PROVE RunsIdle'
  <2>1. /\ run'[RunOf(t)].phase \notin {"off", "done"}
    <3>1. t = <<RunOf(t), UserOf(t)>>
      BY DEF Task, RunOf, UserOf
    <3>2. ~Over(RunOf(t))
      BY <1>1, <3>1, TaskStepRun, TaskParts DEF Over
    <3> QED
      BY <1>1, <3>2, TaskStepRun, TaskParts DEF RunsIdle
  <2>2. ASSUME NEW r \in Run, r # RunOf(t), NEW u \in User PROVE task'[<<r, u>>] = task[<<r, u>>]
    <3>1. <<r, u>> \in Task /\ <<r, u>> # t
      BY <2>2 DEF Task, RunOf
    <3> QED
      BY <1>1, <3>1, TaskStepLocal
  <2> QED
    BY <1>1, <2>1, <2>2, TaskStepRun DEF RunsIdle, Over, At
<1>2. ASSUME NEW r \in Run,
             StartRun(r) \/ BlockRun(r) \/ StartChunk(r) \/ EndPhase(r) \/ Crash(r)
      PROVE  RunsIdle'
  <2>1. ASSUME NEW s \in Run, s # r
        PROVE  /\ run'[s] = run[s] /\ count'[s] = count[s]
               /\ \A u \in User : task'[<<s, u>>] = task[<<s, u>>]
    BY <1>2, <2>1, RunStepLocal DEF Task, RunOf
  <2>2. /\ run'[r].phase \in {"off", "done"} => Over(r)' /\ run'[r].todo = {}
        /\ run'[r].phase = "off" => count'[r] = EmptySummary
    <3> USE DEF TypeOK
    <3>1. CASE StartRun(r)
      BY <3>1 DEF StartRun
    <3>2. CASE BlockRun(r)
      BY <3>2 DEF BlockRun, RunsIdle, Over, At
    <3>3. CASE StartChunk(r)
      BY <3>3 DEF StartChunk, RunsIdle
    <3>4. CASE EndPhase(r)
      BY <3>4 DEF EndPhase, PhaseEnds, Over, At
    <3>5. CASE Crash(r)
      BY <3>5 DEF Crash
    <3> QED
      BY <1>2, <3>1, <3>2, <3>3, <3>4, <3>5
  <2> QED
    BY <2>1, <2>2 DEF RunsIdle, Over, At
<1>3. CASE UNCHANGED <<run, task, count>>
  BY <1>3 DEF RunsIdle, Over, At
<1> QED
  BY <1>1, <1>2, <1>3, StepKinds

-------------------------------------------------------------------------------
(* Rows of rebalances. *)

(* A task writes a row when it leaves "ok", and reaches "ok" in a rebalance *)
(* by a rebalance that took effect.                                         *)
LEMMA TaskStepRows ==
  ASSUME ~Simulation, TypeOK, NEW t \in Task, TaskStep(t)
  PROVE  \/ /\ At(t, "ok") /\ In(t, "rebalance") /\ task'[t].pc # "ok"
            /\ rows' = [rows EXCEPT ![UserOf(t)] = @ + 1] /\ moves' = moves
         \/ rows' = rows /\ moves' = [moves EXCEPT ![UserOf(t)] = @ + 1]
         \/ /\ rows' = rows /\ moves' = moves
            /\ task'[t].pc = "ok" => ~In(t, "rebalance")
<1>1. CASE SendRebalance(t)
  <2>1. PICK fate \in Fate :
          /\ \E p \in Reports(fate, ReceiptChecked("rebalance")) : Goto(t, p)
          /\ moves' = [moves EXCEPT ![UserOf(t)] = IF fate = "landed" THEN @ + 1 ELSE @]
    BY <1>1 DEF SendRebalance
  <2>2. rows' = rows
    BY <1>1 DEF SendRebalance
  <2>3. CASE fate = "landed"
    BY <2>1, <2>2, <2>3
  <2>4. CASE fate # "landed"
    <3>1. Goto(t, "failed")
      BY <2>1, <2>4 DEF Reports, ReceiptChecked
    <3>2. moves' = moves /\ task'[t].pc # "ok"
      BY <2>1, <2>4, <3>1 DEF Goto, TypeOK
    <3> QED
      BY <2>2, <3>2
  <2> QED
    BY <2>3, <2>4
<1>2. CASE SendClaim(t)
  BY <1>2 DEF SendClaim, In
<1>3. CASE LogSuccess(t)
  BY <1>3 DEF LogSuccess, Goto, Error, Proceed, TypeOK, At
<1>4. CASE Simulate(t)
  BY <1>4 DEF Simulate
<1>5. CASE \/ Lock(t) \/ LockBusy(t) \/ StoreRejects(t) \/ Release(t) \/ Evaluate(t)
           \/ Cooldown(t) \/ FetchKey(t) \/ CheckRevoked(t) \/ CheckBudget(t)
           \/ FetchRewards(t) \/ LogFailure(t) \/ CountRead(t)
  BY <1>5 DEF Lock, LockBusy, StoreRejects, Release, Evaluate, Cooldown, FetchKey, CheckRevoked,
     CheckBudget, FetchRewards, LogFailure, CountRead, Goto, Skip, Error, Proceed, TypeOK, worldVars
<1>6. CASE CountWrite(t)
  BY <1>6 DEF CountWrite, Goto, TypeOK
<1> QED
  BY <1>1, <1>2, <1>3, <1>4, <1>5, <1>6 DEF TaskStep

(* No other step writes a row, moves funds for the agent or brings a task   *)
(* to "ok" in a rebalance.                                                  *)
LEMMA OtherStepRows ==
  ASSUME TypeOK, RunsIdle, [Next]_vars, ~\E t \in Task : TaskStep(t)
  PROVE  /\ UNCHANGED <<rows, moves>>
         /\ \A u \in User : Unlogged(u)' \subseteq Unlogged(u)
<1>1. UNCHANGED <<rows, moves>>
  BY DEF Next, vars, worldVars, StartRun, BlockRun, RunStep, StartChunk, EndPhase, Crash,
     RequestStep, OperationSend, ClaimResolve, ClaimSend, RequestCountRead, RequestCountWrite,
     ClaimRelease, OperationResolve, ClaimLock, Lapse, CooldownPasses
<1>2. ASSUME NEW r \in Run,
             StartRun(r) \/ BlockRun(r) \/ StartChunk(r) \/ EndPhase(r) \/ Crash(r),
             NEW t \in Task, task'[t].pc = "ok", run'[RunOf(t)].phase = "rebalance"
      PROVE  task[t].pc = "ok" /\ run[RunOf(t)].phase = "rebalance"
  <2>1. CASE RunOf(t) # r
    BY <1>2, <2>1, RunStepLocal, TaskParts
  <2>2. CASE RunOf(t) = r
    <3>1. t = <<r, UserOf(t)>>
      BY <2>2 DEF Task, RunOf, UserOf
    <3>2. Over(r) => task[t].pc = "over"
      BY <3>1, TaskParts DEF Over, At
    <3>3. ~StartRun(r) /\ ~BlockRun(r)
      BY <1>2, <3>2 DEF StartRun, BlockRun, RunsIdle
    <3>4. ~EndPhase(r)
      BY <1>2, <3>2 DEF EndPhase, PhaseEnds
    <3>5. ~StartChunk(r)
      BY <1>2, <3>2 DEF StartChunk, WaitingTask
    <3>6. ~Crash(r)
      BY <1>2, <2>2 DEF Crash, IdleTask
    <3> QED
      BY <1>2, <3>3, <3>4, <3>5, <3>6
  <2> QED
    BY <2>1, <2>2
<1>3. CASE UNCHANGED <<run, task, count>>
  BY <1>1, <1>3 DEF Unlogged, At, In
<1>4. ASSUME NEW r \in Run,
             StartRun(r) \/ BlockRun(r) \/ StartChunk(r) \/ EndPhase(r) \/ Crash(r)
      PROVE  \A u \in User : Unlogged(u)' \subseteq Unlogged(u)
  BY <1>2, <1>4 DEF Unlogged, At, In
<1> QED
  BY <1>1, <1>3, <1>4, StepKinds

(* A row is written for a rebalance that was unlogged before.                 *)
LEMMA StepRows ==
  ASSUME TypeOK, RunsIdle, RowsBacked, [Next]_vars
  PROVE  RowsBacked'
<1> SUFFICES ASSUME ~Simulation, NEW u \in User
             PROVE  IsFiniteSet(Unlogged(u)') /\ rows'[u] + Cardinality(Unlogged(u)') <= moves'[u]
  BY DEF RowsBacked
<1>0. /\ IsFiniteSet(Unlogged(u)) /\ rows[u] + Cardinality(Unlogged(u)) <= moves[u]
      /\ Cardinality(Unlogged(u)) \in Nat
      /\ rows[u] \in Nat /\ moves[u] \in Nat
  BY FS_CardinalityType DEF RowsBacked, TypeOK
<1>1. ASSUME NEW t \in Task, TaskStep(t)
      PROVE  IsFiniteSet(Unlogged(u)') /\ rows'[u] + Cardinality(Unlogged(u)') <= moves'[u]
  <2>1. ASSUME NEW s \in Task, s # t PROVE s \in Unlogged(u)' <=> s \in Unlogged(u)
    BY <1>1, <2>1, TaskStepLocal, TaskStepRun, TaskParts DEF Unlogged, At, In
  <2>2. /\ Unlogged(u)' \subseteq Unlogged(u) \cup {t}
        /\ UserOf(t) # u => Unlogged(u)' \subseteq Unlogged(u)
        /\ task'[t].pc # "ok" \/ ~In(t, "rebalance") => Unlogged(u)' \subseteq Unlogged(u) \ {t}
    BY <1>1, <2>1, TaskStepRun, TaskParts DEF Unlogged, At, In
  <2>3. CASE UserOf(t) # u
    <3>1. rows'[u] = rows[u] /\ moves'[u] = moves[u]
      BY <1>1, <2>3, TaskStepRows DEF TypeOK
    <3> QED
      BY <1>0, <2>2, <2>3, <3>1, NoMore
  <2>4. CASE UserOf(t) = u
    <3>1. CASE /\ At(t, "ok") /\ In(t, "rebalance") /\ task'[t].pc # "ok"
               /\ rows' = [rows EXCEPT ![u] = @ + 1] /\ moves' = moves
      <4>1. t \in Unlogged(u) /\ Unlogged(u)' \subseteq Unlogged(u) \ {t}
        BY <2>2, <2>4, <3>1 DEF Unlogged
      <4>2. rows'[u] = rows[u] + 1 /\ moves'[u] = moves[u]
        BY <3>1 DEF TypeOK
      <4> HIDE DEF Unlogged
      <4>3. IsFiniteSet(Unlogged(u)') /\ Cardinality(Unlogged(u)') \in Nat
            /\ Cardinality(Unlogged(u)') + 1 <= Cardinality(Unlogged(u))
        BY <1>0, <4>1, OneFewer
      <4> QED
        BY <1>0, <4>2, <4>3
    <3>2. CASE rows' = rows /\ moves' = [moves EXCEPT ![u] = @ + 1]
      <4>1. rows'[u] = rows[u] /\ moves'[u] = moves[u] + 1
        BY <3>2 DEF TypeOK
      <4>2. IsFiniteSet(Unlogged(u)') /\ Cardinality(Unlogged(u)') \in Nat
            /\ Cardinality(Unlogged(u)') <= Cardinality(Unlogged(u)) + 1
        BY <1>0, <2>2, OneMore
      <4> QED
        BY <1>0, <4>1, <4>2
    <3>3. CASE rows' = rows /\ moves' = moves /\ (task'[t].pc = "ok" => ~In(t, "rebalance"))
      <4>1. Unlogged(u)' \subseteq Unlogged(u)
        BY <2>2, <3>3
      <4> QED
        BY <1>0, <3>3, <4>1, NoMore
    <3> QED
      BY <1>1, <2>4, <3>1, <3>2, <3>3, TaskStepRows
  <2> QED
    BY <2>3, <2>4
<1>2. CASE ~\E t \in Task : TaskStep(t)
  <2>1. Unlogged(u)' \subseteq Unlogged(u) /\ rows' = rows /\ moves' = moves
    BY <1>2, OtherStepRows
  <2> QED
    BY <1>0, <2>1, NoMore
<1> QED
  BY <1>1, <1>2

-------------------------------------------------------------------------------
(* The operation count. *)

(* What a step can do to the count of a user: read and forget; send; or     *)
(* write what one of those owing has read.                                  *)
CountStep(u) ==
  \/ /\ Owing(u)' \subseteq Owing(u) /\ Read(u)' \subseteq Read(u) \cup {ops[u]}
     /\ ops'[u] = ops[u] /\ sent'[u] = sent[u]
  \/ /\ \E w : Owing(u)' \subseteq Owing(u) \cup {w}
     /\ Read(u)' \subseteq Read(u)
     /\ ops'[u] = ops[u] /\ sent'[u] = sent[u] + 1
  \/ /\ \E w \in Owing(u) : Owing(u)' \subseteq Owing(u) \ {w}
     /\ Read(u)' \subseteq Read(u)
     /\ \E n \in Read(u) : ops'[u] = n + 1
     /\ sent'[u] = sent[u]

(* Such a step keeps the bound on the count.                                  *)
LEMMA CountStepBacked ==
  ASSUME TypeOK, NEW u \in User, CountStep(u), IsFiniteSet(Owing(u)),
         \A n \in {ops[u]} \cup Read(u) : n + Cardinality(Owing(u)) <= sent[u]
  PROVE  /\ IsFiniteSet(Owing(u)')
         /\ \A n \in {ops'[u]} \cup Read(u)' : n + Cardinality(Owing(u)') <= sent'[u]
<1> DEFINE C == Cardinality(Owing(u))
           D == Cardinality(Owing(u)')
<1>1. ops[u] \in Nat /\ sent[u] \in Nat /\ C \in Nat /\ Read(u) \subseteq Nat
  BY FS_CardinalityType DEF TypeOK, RegTypeOK, Read
<1> HIDE DEF C
<1>2. \A n \in {ops[u]} \cup Read(u) : n \in Nat /\ n + C <= sent[u]
  BY <1>1 DEF C
<1>3. CASE /\ Owing(u)' \subseteq Owing(u) /\ Read(u)' \subseteq Read(u) \cup {ops[u]}
           /\ ops'[u] = ops[u] /\ sent'[u] = sent[u]
  <2>1. IsFiniteSet(Owing(u)') /\ D \in Nat /\ D <= C
    BY <1>3, NoMore DEF C
  <2> HIDE DEF D
  <2>2. \A n \in {ops'[u]} \cup Read(u)' : n + D <= sent'[u]
    BY <1>1, <1>2, <1>3, <2>1
  <2> QED
    BY <2>1, <2>2 DEF D
<1>4. CASE /\ \E w : Owing(u)' \subseteq Owing(u) \cup {w}
           /\ Read(u)' \subseteq Read(u)
           /\ ops'[u] = ops[u] /\ sent'[u] = sent[u] + 1
  <2>1. IsFiniteSet(Owing(u)') /\ D \in Nat /\ D <= C + 1
    BY <1>4, OneMore DEF C
  <2> HIDE DEF D
  <2>2. \A n \in {ops'[u]} \cup Read(u)' : n + D <= sent'[u]
    BY <1>1, <1>2, <1>4, <2>1
  <2> QED
    BY <2>1, <2>2 DEF D
<1>5. CASE /\ \E w \in Owing(u) : Owing(u)' \subseteq Owing(u) \ {w}
           /\ Read(u)' \subseteq Read(u)
           /\ \E n \in Read(u) : ops'[u] = n + 1
           /\ sent'[u] = sent[u]
  <2>1. IsFiniteSet(Owing(u)') /\ D \in Nat /\ D + 1 <= C
    BY <1>5, OneFewer DEF C
  <2> HIDE DEF D
  <2>2. \A n \in {ops'[u]} \cup Read(u)' : n + D <= sent'[u]
    BY <1>1, <1>2, <1>5, <2>1
  <2> QED
    BY <2>1, <2>2 DEF D
<1> QED
  BY <1>3, <1>4, <1>5 DEF CountStep

(* How a step of a task moves the count of its user. *)
LEMMA TaskStepCounts ==
  ASSUME ~Simulation, TypeOK, NEW t \in Task, TaskStep(t)
  PROVE  \/ /\ ops' = ops /\ sent' = [sent EXCEPT ![UserOf(t)] = @ + 1]
            /\ task'[t].pc # "counted"
         \/ /\ At(t, "counted") /\ task'[t].pc = "release"
            /\ ops' = [ops EXCEPT ![UserOf(t)] = task[t].seen + 1] /\ sent' = sent
         \/ /\ ops' = ops /\ sent' = sent
            /\ OwingTask(t)' => OwingTask(t)
            /\ task'[t].pc = "counted" => task'[t].seen = ops[UserOf(t)]
<1> DEFINE u == UserOf(t)
           Sent(fate) == sent' = [sent EXCEPT ![u] = IF fate = "rejected" THEN @ ELSE @ + 1]
<1>0. u \in User
  BY TaskParts
<1>1. ASSUME NEW fate \in Fate, NEW c \in BOOLEAN, Sent(fate), NEW p \in Reports(fate, c),
             Goto(t, p), ops' = ops
      PROVE  \/ sent' = [sent EXCEPT ![u] = @ + 1] /\ task'[t].pc # "counted"
             \/ sent' = sent /\ ~OwingTask(t)'
  <2>1. task'[t].pc = p /\ p \in {"ok", "failed"} /\ (fate = "rejected" => p = "failed")
    BY <1>1 DEF Goto, TypeOK, Reports, Fate
  <2>2. CASE fate = "rejected"
    BY <1>0, <1>1, <2>1, <2>2 DEF OwingTask, TypeOK
  <2>3. CASE fate # "rejected"
    BY <1>1, <2>1, <2>3
  <2> QED
    BY <2>2, <2>3
<1>2. CASE SendRebalance(t)
  <2>1. PICK fate \in Fate : /\ \E p \in Reports(fate, ReceiptChecked("rebalance")) : Goto(t, p)
                             /\ Sent(fate)
    BY <1>2 DEF SendRebalance
  <2>2. ops' = ops /\ ReceiptChecked("rebalance") \in BOOLEAN
    BY <1>2 DEF SendRebalance, ReceiptChecked
  <2> HIDE DEF Sent
  <2> QED
    BY <1>1, <2>1, <2>2 DEF OwingTask
<1>3. CASE SendClaim(t)
  <2>1. PICK fate \in Fate : /\ \E p \in Reports(fate, ReceiptChecked("claim")) : Goto(t, p)
                             /\ Sent(fate)
    BY <1>3 DEF SendClaim
  <2>2. ops' = ops /\ ReceiptChecked("claim") \in BOOLEAN
    BY <1>3 DEF SendClaim, ReceiptChecked
  <2> HIDE DEF Sent
  <2> QED
    BY <1>1, <2>1, <2>2 DEF OwingTask
<1>4. CASE LogSuccess(t)
  BY <1>4 DEF LogSuccess, Goto, Error, Proceed, TypeOK, At, OwingTask
<1>5. CASE CountRead(t)
  BY <1>5 DEF CountRead, Goto, TypeOK, At, OwingTask, worldVars
<1>6. CASE CountWrite(t)
  BY <1>6 DEF CountWrite, Goto, TypeOK, At, OwingTask, Incremented
<1>7. CASE Simulate(t)
  BY <1>7 DEF Simulate
<1>8. CASE \/ Lock(t) \/ LockBusy(t) \/ StoreRejects(t) \/ Release(t) \/ Evaluate(t)
           \/ Cooldown(t) \/ FetchKey(t) \/ CheckRevoked(t) \/ CheckBudget(t)
           \/ FetchRewards(t) \/ LogFailure(t)
  BY <1>8 DEF Lock, LockBusy, StoreRejects, Release, Evaluate, Cooldown, FetchKey, CheckRevoked,
     CheckBudget, FetchRewards, LogFailure, Goto, Skip, Error, Proceed, TypeOK, worldVars,
     OwingTask
<1> QED
  BY <1>2, <1>3, <1>4, <1>5, <1>6, <1>7, <1>8 DEF TaskStep

(* Every step of a task is one.                                               *)
LEMMA TaskCountStep ==
  ASSUME ~Simulation, TypeOK, NEW t \in Task, TaskStep(t), NEW u \in User
  PROVE  CountStep(u)
<1>0. Task \cap Req = {} /\ UserOf(t) \in User
  BY CronAssumption, TaskParts DEF Task
<1>1. UNCHANGED req
  BY DEF TaskStep, Lock, LockBusy, StoreRejects, Release, Evaluate, Cooldown,
     FetchKey, CheckRevoked, CheckBudget, FetchRewards, Simulate, SendRebalance,
     SendClaim, LogSuccess, LogFailure, CountRead, CountWrite, regVars
<1>2. ASSUME NEW s \in Task, s # t PROVE task'[s] = task[s]
  BY <1>2, TaskStepLocal
<1>3. /\ Owing(u)' \subseteq Owing(u) \cup {t}
      /\ UserOf(t) # u => Owing(u)' \subseteq Owing(u)
      /\ (OwingTask(t)' => OwingTask(t)) => Owing(u)' \subseteq Owing(u)
      /\ ~OwingTask(t)' => Owing(u)' \subseteq Owing(u) \ {t}
  BY <1>0, <1>1, <1>2 DEF Owing, OwingTask, OwingRequest
<1>4. /\ UserOf(t) # u \/ task'[t].pc # "counted" => Read(u)' \subseteq Read(u)
      /\ Read(u)' \subseteq Read(u) \cup {task'[t].seen}
  BY <1>1, <1>2 DEF Read, At
<1>5. CASE UserOf(t) # u
  <2>1. ops'[u] = ops[u] /\ sent'[u] = sent[u]
    BY <1>0, <1>5, TaskStepCounts DEF TypeOK
  <2> QED
    BY <1>3, <1>4, <1>5, <2>1 DEF CountStep
<1>6. CASE UserOf(t) = u
  <2>1. CASE /\ ops' = ops /\ sent' = [sent EXCEPT ![UserOf(t)] = @ + 1]
             /\ task'[t].pc # "counted"
    <3>1. ops'[u] = ops[u] /\ sent'[u] = sent[u] + 1
      BY <1>6, <2>1 DEF TypeOK
    <3> QED
      BY <1>3, <1>4, <2>1, <3>1 DEF CountStep
  <2>2. CASE /\ At(t, "counted") /\ task'[t].pc = "release"
             /\ ops' = [ops EXCEPT ![UserOf(t)] = task[t].seen + 1] /\ sent' = sent
    <3>1. ops'[u] = task[t].seen + 1 /\ sent'[u] = sent[u]
      BY <1>6, <2>2 DEF TypeOK
    <3>2. t \in Owing(u) /\ task[t].seen \in Read(u)
      BY <1>6, <2>2 DEF Owing, OwingTask, Read, At
    <3>3. Owing(u)' \subseteq Owing(u) \ {t}
      BY <1>3, <2>2 DEF OwingTask
    <3> QED
      BY <1>4, <2>2, <3>1, <3>2, <3>3 DEF CountStep
  <2>3. CASE /\ ops' = ops /\ sent' = sent
             /\ OwingTask(t)' => OwingTask(t)
             /\ task'[t].pc = "counted" => task'[t].seen = ops[UserOf(t)]
    BY <1>3, <1>4, <1>6, <2>3 DEF CountStep
  <2> QED
    BY <2>1, <2>2, <2>3, TaskStepCounts
<1> QED
  BY <1>5, <1>6

(* How a request moves the count of its user. *)
HasRead(q) == req[q].pc \in {"redeemCounted", "claimCounted"}

LEMMA RequestStepCounts ==
  ASSUME ~Simulation, TypeOK, NEW q \in Req,
         \/ RequestStep(q)
         \/ \E u \in User : ClaimLock(q, u)
         \/ \E u \in User, op \in {"redeem", "deposit"} : OperationResolve(q, u, op)
  PROVE  /\ UNCHANGED task
         /\ \A p \in Req : p # q => req'[p] = req[p]
         /\ \/ /\ ops' = ops /\ sent' = [sent EXCEPT ![req[q].user] = @ + 1]
               /\ req[q].user \in User /\ ~HasRead(q)'
               /\ OwingRequest(q)' => req'[q].user = req[q].user
            \/ /\ HasRead(q) /\ ~OwingRequest(q)' /\ req[q].user \in User
               /\ ops' = [ops EXCEPT ![req[q].user] = req[q].seen + 1] /\ sent' = sent
            \/ /\ ops' = ops /\ sent' = sent
               /\ OwingRequest(q)' => OwingRequest(q) /\ req'[q].user = req[q].user
               /\ HasRead(q)' => req'[q].seen = ops[req[q].user]
<1> USE DEF OwingRequest, HasRead
<1>0. req[q].pc # "idle" => req[q].user \in User
  BY DEF TypeOK, RegTypeOK
<1>1. UNCHANGED task
  BY DEF RequestStep, OperationSend, ClaimResolve, ClaimSend, RequestCountRead,
     RequestCountWrite, ClaimRelease, OperationResolve, ClaimLock
<1>2. \A p \in Req : p # q => req'[p] = req[p]
  BY DEF TypeOK, RegTypeOK, RequestStep, OperationSend, ClaimResolve, ClaimSend,
     RequestCountRead, RequestCountWrite, ClaimRelease, OperationResolve, ClaimLock, Begin,
     Finish, ReqGoto
<1>3. ASSUME Finish(q) \/ \E p \in ReqPc : ReqGoto(q, p)
      PROVE  /\ Finish(q) => req'[q] = IdleReq
             /\ \A p \in ReqPc : ReqGoto(q, p) =>
                  req'[q].pc = p /\ req'[q].user = req[q].user /\ req'[q].seen = req[q].seen
  BY DEF Finish, ReqGoto, TypeOK, RegTypeOK
<1>4. CASE OperationSend(q) \/ ClaimSend(q)
  <2>1. PICK fate \in Fate, p \in {"ok", "failed"} :
          /\ Outcome(fate, p)
          /\ sent' = [sent EXCEPT ![req[q].user] = IF fate = "rejected" THEN @ ELSE @ + 1]
          /\ IF p = "ok" THEN Finish(q) \/ \E o \in {"redeemOk", "claimOk"} : ReqGoto(q, o)
                         ELSE Finish(q) \/ ReqGoto(q, "unlock")
    BY <1>4 DEF OperationSend, ClaimSend
  <2>2. fate = "rejected" => p = "failed"
    BY <2>1 DEF Outcome, Reports
  <2>3. ops' = ops /\ req[q].user \in User
    BY <1>0, <1>4 DEF OperationSend, ClaimSend, ReqAt
  <2>4. ~HasRead(q)' /\ (OwingRequest(q)' => req'[q].user = req[q].user)
    BY <1>3, <2>1 DEF IdleReq, ReqPc
  <2>5. CASE fate = "rejected"
    <3>1. ~OwingRequest(q)'
      BY <1>3, <2>1, <2>2, <2>5 DEF IdleReq, ReqPc
    <3>2. sent' = sent
      BY <2>1, <2>3, <2>5 DEF TypeOK
    <3> QED
      BY <1>1, <1>2, <2>3, <2>4, <3>1, <3>2
  <2>6. CASE fate # "rejected"
    <3>1. sent' = [sent EXCEPT ![req[q].user] = @ + 1]
      BY <2>1, <2>6
    <3> QED
      BY <1>1, <1>2, <2>3, <2>4, <3>1
  <2> QED
    BY <2>5, <2>6
<1>5. CASE RequestCountWrite(q)
  <2>1. HasRead(q) /\ req[q].user \in User /\ sent' = sent
    BY <1>0, <1>5 DEF RequestCountWrite, ReqAt
  <2>2. ~OwingRequest(q)'
    BY <1>3, <1>5 DEF RequestCountWrite, IdleReq, ReqPc
  <2>3. ops' = [ops EXCEPT ![req[q].user] = req[q].seen + 1] \/ ops' = ops
    BY <1>5 DEF RequestCountWrite, Incremented
  <2> QED
    BY <1>1, <1>2, <2>1, <2>2, <2>3
<1>6. CASE RequestCountRead(q)
  <2>1. /\ OwingRequest(q) /\ req'[q].user = req[q].user
        /\ req'[q].seen = ops[req[q].user]
    BY <1>6 DEF RequestCountRead, ReqAt, TypeOK, RegTypeOK
  <2>2. ops' = ops /\ sent' = sent
    BY <1>6 DEF RequestCountRead, worldVars
  <2> QED
    BY <1>1, <1>2, <2>1, <2>2
<1>7. CASE ClaimResolve(q) \/ ClaimRelease(q)
  <2>1. ops' = ops /\ sent' = sent
    BY <1>7 DEF ClaimResolve, ClaimRelease, worldVars
  <2>2. req'[q].pc \in {"claimSend", "unlock", "idle"}
    BY <1>7 DEF ClaimResolve, ClaimRelease, ReqGoto, Finish, IdleReq, TypeOK, RegTypeOK
  <2> QED
    BY <1>1, <1>2, <2>1, <2>2
<1>8. CASE \/ \E u \in User : ClaimLock(q, u)
           \/ \E u \in User, op \in {"redeem", "deposit"} : OperationResolve(q, u, op)
  <2>1. ops' = ops /\ sent' = sent
    BY <1>8 DEF ClaimLock, OperationResolve, worldVars
  <2>2. req'[q].pc \in {"claim", "redeem", "deposit"}
    BY <1>8 DEF ClaimLock, OperationResolve, Begin, TypeOK, RegTypeOK
  <2> QED
    BY <1>1, <1>2, <2>1, <2>2
<1> QED
  BY <1>4, <1>5, <1>6, <1>7, <1>8 DEF RequestStep

(* Every step of a request is one.                                            *)
LEMMA RequestCountStep ==
  ASSUME ~Simulation, TypeOK, NEW q \in Req, NEW u \in User,
         \/ RequestStep(q)
         \/ \E v \in User : ClaimLock(q, v)
         \/ \E v \in User, op \in {"redeem", "deposit"} : OperationResolve(q, v, op)
  PROVE  CountStep(u)
<1>0. Task \cap Req = {}
  BY CronAssumption DEF Task
<1>1. UNCHANGED task /\ \A p \in Req : p # q => req'[p] = req[p]
  BY RequestStepCounts
<1>2. /\ Owing(u)' \subseteq Owing(u) \cup {q}
      /\ (OwingRequest(q)' /\ req'[q].user = u) \/ Owing(u)' \subseteq Owing(u) \ {q}
  BY <1>0, <1>1 DEF Owing, OwingTask, OwingRequest
<1>3. /\ Read(u)' \subseteq Read(u) \/ HasRead(q)'
      /\ Read(u)' \subseteq Read(u) \cup {req'[q].seen}
      /\ Read(u)' \subseteq Read(u) \/ req'[q].user = u
  BY <1>1 DEF Read, At, HasRead
<1>4. HasRead(q)' => OwingRequest(q)'
  BY DEF HasRead, OwingRequest
<1>5. CASE /\ ops' = ops /\ sent' = [sent EXCEPT ![req[q].user] = @ + 1]
           /\ req[q].user \in User /\ ~HasRead(q)'
           /\ OwingRequest(q)' => req'[q].user = req[q].user
  <2>1. CASE req[q].user = u
    BY <1>2, <1>3, <1>5, <2>1 DEF CountStep, TypeOK
  <2>2. CASE req[q].user # u
    BY <1>2, <1>3, <1>5, <2>2 DEF CountStep, TypeOK
  <2> QED
    BY <2>1, <2>2
<1>6. CASE /\ HasRead(q) /\ ~OwingRequest(q)' /\ req[q].user \in User
           /\ ops' = [ops EXCEPT ![req[q].user] = req[q].seen + 1] /\ sent' = sent
  <2>1. Owing(u)' \subseteq Owing(u) \ {q} /\ Read(u)' \subseteq Read(u)
    BY <1>2, <1>3, <1>4, <1>6
  <2>2. CASE req[q].user = u
    <3>1. q \in Owing(u) /\ req[q].seen \in Read(u)
      BY <1>6, <2>2 DEF Owing, OwingRequest, Read, HasRead
    <3>2. ops'[u] = req[q].seen + 1 /\ sent'[u] = sent[u]
      BY <1>6, <2>2 DEF TypeOK
    <3> QED
      BY <2>1, <3>1, <3>2 DEF CountStep
  <2>3. CASE req[q].user # u
    BY <1>6, <2>1, <2>3 DEF CountStep, TypeOK
  <2> QED
    BY <2>2, <2>3
<1>7. CASE /\ ops' = ops /\ sent' = sent
           /\ OwingRequest(q)' => OwingRequest(q) /\ req'[q].user = req[q].user
           /\ HasRead(q)' => req'[q].seen = ops[req[q].user]
  <2>1. Owing(u)' \subseteq Owing(u)
    BY <1>2, <1>7 DEF Owing
  <2>2. Read(u)' \subseteq Read(u) \cup {ops[u]}
    BY <1>3, <1>4, <1>7
  <2> QED
    BY <1>7, <2>1, <2>2 DEF CountStep
<1> QED
  BY <1>5, <1>6, <1>7, RequestStepCounts

(* A registration request owes nothing, and what it fails owes no more. *)
LEMMA RegCountStep ==
  ASSUME RegInv, RegNext, UNCHANGED <<lock, run, task, count, worldVars>>, NEW u \in User
  PROVE  CountStep(u)
<1>0. ops' = ops /\ sent' = sent /\ UNCHANGED task
  BY DEF worldVars
<1>1. ASSUME \A q \in Req : OwingRequest(q)' => req'[q] = req[q]
      PROVE  CountStep(u)
  <2>1. Owing(u)' \subseteq Owing(u)
    BY <1>0, <1>1 DEF Owing, OwingTask, OwingRequest
  <2>2. Read(u)' \subseteq Read(u)
    BY <1>0, <1>1 DEF Read, At, OwingRequest
  <2> QED
    BY <1>0, <2>1, <2>2 DEF CountStep
<1> USE DEF RegInv, RegTypeOK, OwingRequest
<1>2. UNCHANGED req => CountStep(u)
  BY <1>1
<1>3. ASSUME NEW q \in Req, Finish(q) PROVE CountStep(u)
  BY <1>1, <1>3 DEF Finish, IdleReq
<1>4. ASSUME NEW q \in Req, NEW p \in {"toggle", "revoke", "undelegate"}, NEW v \in User, NEW k,
             Begin(q, p, v, k)
      PROVE  CountStep(u)
  BY <1>1, <1>4 DEF Begin
<1>5. ASSUME NEW q \in Req, RevokeMark(q) PROVE CountStep(u)
  BY <1>1, <1>5 DEF RevokeMark
<1> QED
  BY <1>2, <1>3, <1>4, <1>5 DEF RegNext, RegisterKey, Upsert, Expire, ForgetRevocation, ToggleResolve,
     RevokeRead, UndelegateResolve, ToggleUpdate, RevokeClear, UndelegateReset, RequestFails

(* A run starts tasks where there was none, and takes tasks away. *)
LEMMA RunCountStep ==
  ASSUME TypeOK, NEW r \in Run, NEW u \in User,
         StartRun(r) \/ BlockRun(r) \/ StartChunk(r) \/ EndPhase(r) \/ Crash(r)
  PROVE  CountStep(u)
<1>1. ops' = ops /\ sent' = sent /\ req' = req
  BY RunStepLocal DEF worldVars
<1>2. ASSUME NEW t \in Task, OwingTask(t)' PROVE task'[t] = task[t]
  BY <1>2 DEF StartRun, BlockRun, StartChunk, EndPhase, Crash, IdleTask, WaitingTask, OwingTask
<1>3. Owing(u)' \subseteq Owing(u)
  BY <1>1, <1>2 DEF Owing, OwingTask, OwingRequest
<1>4. Read(u)' \subseteq Read(u)
  BY <1>1, <1>2 DEF Read, At, OwingTask
<1> QED
  BY <1>1, <1>3, <1>4 DEF CountStep

(* So the count stays backed.                                                 *)
LEMMA StepCounts ==
  ASSUME RegInv, TypeOK, CountsBacked, [Next]_vars
  PROVE  CountsBacked'
<1> SUFFICES ASSUME ~Simulation, NEW u \in User PROVE CountStep(u)
  BY CountStepBacked DEF CountsBacked
<1>1. ASSUME UNCHANGED <<task, req, ops, sent>> PROVE CountStep(u)
  BY <1>1 DEF CountStep, Owing, OwingTask, OwingRequest, Read, At
<1>2. ASSUME NEW v \in User, Lapse(v) \/ CooldownPasses(v) PROVE CountStep(u)
  BY <1>1, <1>2 DEF Lapse, CooldownPasses, regVars, worldVars
<1>3. ASSUME NEW r \in Run, StartRun(r) \/ BlockRun(r) \/ RunStep(r) \/ Crash(r)
      PROVE  CountStep(u)
  BY <1>3, RunCountStep DEF RunStep
<1>4. CASE UNCHANGED vars
  BY <1>1, <1>4 DEF vars, worldVars, regVars
<1> QED
  BY <1>2, <1>3, <1>4, RegCountStep, TaskCountStep, RequestCountStep DEF Next

-------------------------------------------------------------------------------
(* The summary. *)

(* A task of the rebalance, or of a claim whose row can be written, reaches *)
(* the summary by exactly one of its steps, or aborts the run.              *)
LEMMA TaskStepSummary ==
  ASSUME TypeOK, NEW t \in Task, TaskStep(t), In(t, "rebalance") \/ In(t, "claim"),
         In(t, "rebalance") \/ "sql" \notin Fault
  PROVE  \/ /\ task[t].pc \in Pending(run[RunOf(t)].phase)
            /\ task'[t].pc \notin Pending(run[RunOf(t)].phase)
            /\ \E f \in {"done", "skipped", "errors"} : Add(t, f)
         \/ /\ task[t].pc \in Pending(run[RunOf(t)].phase)
                 <=> task'[t].pc \in Pending(run[RunOf(t)].phase)
            /\ UNCHANGED count \/ Add(t, "processed")
         \/ run'[RunOf(t)].aborted
<1> USE DEF Pending
<1>0. RunOf(t) \in Run
  BY TaskParts
<1>1. \A p : Goto(t, p) => task'[t].pc = p
  BY DEF Goto, TypeOK
<1>2. CASE Lock(t) \/ LockBusy(t)
  BY <1>1, <1>2 DEF Lock, LockBusy, At
<1>3. CASE StoreRejects(t)
  BY <1>0, <1>3 DEF StoreRejects, TypeOK
<1>4. CASE Release(t) \/ CountRead(t) \/ CountWrite(t)
  BY <1>1, <1>4 DEF Release, CountRead, CountWrite, At, TypeOK
<1>5. CASE Evaluate(t) \/ Cooldown(t) \/ CheckRevoked(t) \/ CheckBudget(t) \/ FetchRewards(t)
  BY <1>1, <1>5 DEF Evaluate, Cooldown, CheckRevoked, CheckBudget, FetchRewards, At, Skip,
     Error, Proceed
<1>6. CASE FetchKey(t)
  BY <1>1, <1>6 DEF FetchKey, At, Skip, Error, TypeOK
<1>7. CASE Simulate(t)
  BY <1>1, <1>7 DEF Simulate, At, Skip, Error
<1>8. CASE SendRebalance(t)
  <2>1. task'[t].pc \in {"ok", "failed"}
    BY <1>1, <1>8 DEF SendRebalance, Reports
  <2> QED
    BY <1>8, <2>1 DEF SendRebalance, At, In
<1>9. CASE SendClaim(t)
  <2>1. task'[t].pc \in {"ok", "failed"} /\ (Add(t, "done") \/ Add(t, "errors"))
    BY <1>1, <1>9 DEF SendClaim, Reports
  <2> QED
    BY <1>9, <2>1 DEF SendClaim, At, In
<1>10. CASE LogSuccess(t)
  BY <1>1, <1>10 DEF LogSuccess, At, In, Error, Proceed
<1>11. CASE LogFailure(t)
  BY <1>1, <1>11 DEF LogFailure, At, In, Error, Proceed
<1> QED
  BY <1>2, <1>3, <1>4, <1>5, <1>6, <1>7, <1>8, <1>9, <1>10, <1>11 DEF TaskStep

(* The sets of users that the sum is about are finite. *)
LEMMA UserSets ==
  ASSUME NEW S \in SUBSET User
  PROVE  IsFiniteSet(S) /\ Cardinality(S) \in Nat
BY CronAssumption, FS_Subset, FS_CardinalityType

(* A task leaves the uncounted when it enters the summary.                    *)
LEMMA TaskSummaryStep ==
  ASSUME TypeOK, SummaryAddsUp, NEW t \in Task, TaskStep(t)
  PROVE  SummaryAddsUp'
<1> SUFFICES ASSUME NEW r \in Run, ~run'[r].aborted, run'[r].phase \in {"rebalance", "claim"},
                    run'[r].phase = "rebalance" \/ "sql" \notin Fault
             PROVE  Summed(r)' + Cardinality(run'[r].todo) + Cardinality(Uncounted(r)')
                      = Cardinality(run'[r].users)
  BY DEF SummaryAddsUp
<1>1. /\ run'[r].phase = run[r].phase /\ run'[r].todo = run[r].todo
      /\ run'[r].users = run[r].users /\ ~run[r].aborted
  BY TaskStepRun DEF TypeOK
<1>2. Summed(r) + Cardinality(run[r].todo) + Cardinality(Uncounted(r)) = Cardinality(run[r].users)
  BY <1>1 DEF SummaryAddsUp
<1>3. /\ Summed(r) \in Nat /\ Cardinality(run[r].todo) \in Nat
      /\ IsFiniteSet(Uncounted(r)) /\ Cardinality(Uncounted(r)) \in Nat
  <2>1. run[r].todo \in SUBSET User /\ Uncounted(r) \in SUBSET User
    BY DEF TypeOK, Uncounted
  <2>2. \A f \in Field : count[r][f] \in Nat
    BY DEF TypeOK
  <2> QED
    BY <2>1, <2>2, UserSets DEF Summed, Field
<1>4. ASSUME NEW u \in User, <<r, u>> # t PROVE task'[<<r, u>>] = task[<<r, u>>]
  <2>1. <<r, u>> \in Task
    BY DEF Task
  <2> QED
    BY <1>4, <2>1, TaskStepLocal
<1>5. CASE RunOf(t) # r
  <2>1. Uncounted(r)' = Uncounted(r)
    BY <1>1, <1>4, <1>5 DEF Uncounted, RunOf
  <2>2. Summed(r)' = Summed(r)
    BY <1>5, TaskStepRun DEF Summed
  <2> QED
    BY <1>1, <1>2, <2>1, <2>2
<1>6. CASE RunOf(t) = r
  <2>0. t = <<r, UserOf(t)>> /\ UserOf(t) \in User
    BY <1>6, TaskParts DEF Task, RunOf, UserOf
  <2>1. CASE /\ task[t].pc \in Pending(run[r].phase)
             /\ task'[t].pc \notin Pending(run[r].phase)
             /\ \E f \in {"done", "skipped", "errors"} : Add(t, f)
    <3>1. Uncounted(r)' = Uncounted(r) \ {UserOf(t)} /\ UserOf(t) \in Uncounted(r)
      BY <1>1, <1>4, <2>0, <2>1 DEF Uncounted
    <3>2. Summed(r)' = Summed(r) + 1
      <4>1. PICK f \in {"done", "skipped", "errors"} : count' = [count EXCEPT ![r][f] = @ + 1]
        BY <1>6, <2>1 DEF Add
      <4>2. \A g \in Field : count[r][g] \in Nat
        BY DEF TypeOK
      <4>3. \A g \in Field : count'[r][g] = IF g = f THEN count[r][g] + 1 ELSE count[r][g]
        BY <4>1 DEF TypeOK, Field
      <4> QED
        BY <4>2, <4>3 DEF Summed, Field
    <3>3. Cardinality(Uncounted(r)') = Cardinality(Uncounted(r)) - 1
      BY <1>3, <3>1, FS_RemoveElement
    <3> QED
      BY <1>1, <1>2, <1>3, <3>2, <3>3
  <2>2. CASE /\ task[t].pc \in Pending(run[r].phase) <=> task'[t].pc \in Pending(run[r].phase)
             /\ UNCHANGED count \/ Add(t, "processed")
    <3>1. Uncounted(r)' = Uncounted(r)
      BY <1>1, <1>4, <2>0, <2>2 DEF Uncounted
    <3>2. Summed(r)' = Summed(r)
      BY <1>6, <2>2 DEF Add, Summed, TypeOK, Field
    <3> QED
      BY <1>1, <1>2, <3>1, <3>2
  <2>3. In(t, "rebalance") \/ In(t, "claim")
    BY <1>1, <1>6 DEF In
  <2>4. In(t, "rebalance") \/ "sql" \notin Fault
    BY <1>1, <1>6 DEF In
  <2> QED
    BY <1>6, <2>1, <2>2, <2>3, <2>4, TaskStepSummary
<1> QED
  BY <1>5, <1>6

(* A chunk moves users from the ones to do to the uncounted.                  *)
LEMMA RunSummaryStep ==
  ASSUME TypeOK, RunsIdle, SummaryAddsUp, NEW r \in Run,
         StartRun(r) \/ BlockRun(r) \/ StartChunk(r) \/ EndPhase(r) \/ Crash(r)
  PROVE  SummaryAddsUp'
<1>0. Over(r) => \A p : {u \in User : task[<<r, u>>].pc \in Pending(p)} = {}
  BY DEF Over, At, Pending
<1>1. ASSUME NEW s \in Run, s # r
      PROVE  run'[s] = run[s] /\ Summed(s)' = Summed(s) /\ Uncounted(s)' = Uncounted(s)
  <2>1. \A u \in User : task'[<<s, u>>] = task[<<s, u>>]
    BY <1>1, RunStepLocal DEF Task, RunOf
  <2> QED
    BY <1>1, <2>1, RunStepLocal DEF Summed, Uncounted
<1>2. ASSUME ~run'[r].aborted, run'[r].phase \in {"rebalance", "claim"},
             run'[r].phase = "rebalance" \/ "sql" \notin Fault
      PROVE  Summed(r)' + Cardinality(run'[r].todo) + Cardinality(Uncounted(r)')
               = Cardinality(run'[r].users)
  <2>1. ASSUME count'[r] = EmptySummary, UNCHANGED task, Over(r), run'[r].todo = run'[r].users,
               run'[r].users \in SUBSET User
        PROVE  Summed(r)' + Cardinality(run'[r].todo) + Cardinality(Uncounted(r)')
                 = Cardinality(run'[r].users)
    <3>1. Uncounted(r)' = {} /\ Summed(r)' = 0
      BY <1>0, <2>1 DEF Uncounted, Summed, EmptySummary, Field
    <3>2. Cardinality(run'[r].users) \in Nat
      BY <2>1, UserSets
    <3> QED
      BY <2>1, <3>1, <3>2, FS_EmptySet
  <2>2. CASE StartRun(r)
    <3>1. run'[r].todo = Active /\ run'[r].users = Active /\ Active \in SUBSET User
      BY <2>2 DEF StartRun, TypeOK, Active
    <3> QED
      BY <2>1, <2>2, <3>1 DEF StartRun, RunsIdle
  <2>3. CASE EndPhase(r)
    <3>1. run[r].users \in SUBSET User
      BY DEF TypeOK
    <3>2. /\ run'[r].todo = run[r].users /\ run'[r].users = run[r].users
          /\ count'[r] = EmptySummary
      BY <1>2, <2>3 DEF EndPhase, TypeOK
    <3> QED
      BY <2>1, <2>3, <3>1, <3>2 DEF EndPhase, PhaseEnds
  <2>4. CASE StartChunk(r)
    <3>1. PICK C \in SUBSET run[r].todo :
            /\ run' = [run EXCEPT ![r].todo = @ \ C]
            /\ task' = [t \in Task |-> IF RunOf(t) = r /\ UserOf(t) \in C
                                       THEN WaitingTask ELSE task[t]]
      BY <2>4 DEF StartChunk
    <3>2. /\ run'[r].todo = run[r].todo \ C /\ run'[r].users = run[r].users
          /\ run'[r].phase = run[r].phase /\ run'[r].aborted = run[r].aborted
      BY <3>1 DEF TypeOK
    <3>3. run[r].todo \in SUBSET User
      BY DEF TypeOK
    <3>4. Uncounted(r) = {}
      BY <1>0, <2>4 DEF StartChunk, Uncounted
    <3>5. Uncounted(r)' = C
      <4>1. ASSUME NEW u \in User
            PROVE  task'[<<r, u>>] = IF u \in C THEN WaitingTask ELSE task[<<r, u>>]
        BY <3>1 DEF Task, RunOf, UserOf
      <4> QED
        BY <3>2, <3>3, <3>4, <4>1 DEF Uncounted, WaitingTask, Pending
    <3>6. /\ IsFiniteSet(run[r].todo) /\ Cardinality(run[r].todo) \in Nat
          /\ Cardinality(C) \in Nat /\ Cardinality(run[r].todo \cap C) = Cardinality(C)
      <4>1. run[r].todo \cap C = C /\ C \in SUBSET User
        BY <3>3
      <4> QED
        BY <3>3, <4>1, UserSets
    <3>7. Cardinality(run[r].todo \ C) = Cardinality(run[r].todo) - Cardinality(C)
      <4>1. ASSUME NEW S, NEW T, IsFiniteSet(S)
            PROVE  Cardinality(S \ T) = Cardinality(S) - Cardinality(S \cap T)
        BY <4>1, FS_Difference
      <4>2. Cardinality(run[r].todo \ C)
              = Cardinality(run[r].todo) - Cardinality(run[r].todo \cap C)
        BY <3>6, <4>1
      <4> QED
        BY <3>6, <4>2
    <3>8. Summed(r)' = Summed(r) /\ Summed(r) \in Nat
      BY <2>4 DEF StartChunk, Summed, TypeOK, Field
    <3>9. Summed(r) + Cardinality(run[r].todo) = Cardinality(run[r].users)
      <4>1. Summed(r) + Cardinality(run[r].todo) + Cardinality(Uncounted(r))
              = Cardinality(run[r].users)
        BY <1>2, <3>2 DEF SummaryAddsUp
      <4> QED
        BY <3>4, <3>6, <3>8, <4>1, FS_EmptySet
    <3> QED
      BY <3>2, <3>5, <3>6, <3>7, <3>8, <3>9
  <2>5. ~BlockRun(r) /\ ~Crash(r)
    BY <1>2 DEF BlockRun, Crash, TypeOK
  <2> QED
    BY <2>2, <2>3, <2>4, <2>5
<1> QED
  BY <1>1, <1>2 DEF SummaryAddsUp

(* So the summary adds up.                                                    *)
LEMMA StepSummary ==
  ASSUME TypeOK, RunsIdle, SummaryAddsUp, [Next]_vars
  PROVE  SummaryAddsUp'
<1>1. CASE UNCHANGED <<run, task, count>>
  BY <1>1 DEF SummaryAddsUp, Summed, Uncounted
<1> QED
  BY <1>1, TaskSummaryStep, RunSummaryStep, StepKinds

-------------------------------------------------------------------------------
(* Claims. *)

(* A task past the cooldown check has seen no claim row; the one that claims *)
(* writes the row before it does anything else.                             *)
LEMMA TaskStepClaims ==
  ASSUME ClaimFault \cap Fault = {}, TypeOK, NEW t \in Task, TaskStep(t)
  PROVE  /\ \A v \in User : claimRow[v] => claimRow'[v]
         /\ \A v \in User : claimed'[v] =>
              \/ claimed[v]
              \/ v = UserOf(t) /\ At(t, "ready") /\ In(t, "claim") /\ task'[t].pc = "ok"
         /\ At(t, "ok") /\ In(t, "claim") => claimRow'[UserOf(t)]
         /\ In(t, "claim") /\ task'[t].pc \in PastCooldown =>
              /\ claimed' = claimed
              /\ task[t].pc \in PastCooldown \/ (At(t, "locked") /\ ~claimRow[UserOf(t)])
<1> USE DEF PastCooldown
<1>0. UserOf(t) \in User /\ \A p : Goto(t, p) => task'[t].pc = p
  BY TaskParts DEF Goto, TypeOK
<1>1. CASE SendClaim(t)
  <2>1. PICK fate \in Fate, p \in {"ok", "failed"} :
          /\ p \in Reports(fate, ReceiptChecked("claim")) /\ Goto(t, p)
          /\ claimed' = [claimed EXCEPT ![UserOf(t)] = @ \/ fate = "landed"]
    BY <1>1 DEF SendClaim, Reports
  <2>2. /\ At(t, "ready") /\ In(t, "claim") /\ claimRow' = claimRow
        /\ task'[t].pc = p /\ p \in {"ok", "failed"}
    BY <1>0, <1>1, <2>1 DEF SendClaim, Reports
  <2>3. fate = "landed" => p = "ok"
    BY <2>1 DEF Reports, ClaimFault
  <2>4. \A v \in User : claimed'[v] => claimed[v] \/ (v = UserOf(t) /\ p = "ok")
    BY <2>1, <2>3 DEF TypeOK
  <2> QED
    BY <2>2, <2>4 DEF At
<1>2. CASE SendRebalance(t)
  BY <1>2 DEF SendRebalance, In, At
<1>3. CASE LogSuccess(t)
  <2>1. \/ In(t, "rebalance") /\ UNCHANGED claimRow
        \/ claimRow' = [claimRow EXCEPT ![UserOf(t)] = TRUE]
    BY <1>3 DEF LogSuccess, ClaimFault
  <2>2. claimed' = claimed /\ task'[t].pc \in {"count", "release"}
    BY <1>0, <1>3 DEF LogSuccess, Error, Proceed
  <2> QED
    BY <1>0, <2>1, <2>2 DEF In, TypeOK
<1>4. CASE Simulate(t)
  <2>1. claimRow' = claimRow \/ claimRow' = [claimRow EXCEPT ![UserOf(t)] = TRUE]
    BY <1>4 DEF Simulate
  <2>2. claimed' = claimed /\ task'[t].pc = "release" /\ task[t].pc # "ok"
    BY <1>0, <1>4 DEF Simulate, Skip, Error, At
  <2> QED
    BY <1>0, <2>1, <2>2 DEF At, TypeOK
<1>5. CASE Cooldown(t)
  BY <1>0, <1>5 DEF Cooldown, Cooling, Skip, Error, Proceed, worldVars, At
<1>6. CASE Evaluate(t)
  BY <1>0, <1>6 DEF Evaluate, In, worldVars, At
<1>7. CASE FetchKey(t) \/ CheckRevoked(t) \/ CheckBudget(t) \/ FetchRewards(t)
  BY <1>7 DEF FetchKey, CheckRevoked, CheckBudget, FetchRewards, worldVars, At
<1>8. CASE Lock(t) \/ LockBusy(t) \/ StoreRejects(t) \/ Release(t) \/ LogFailure(t)
  BY <1>0, <1>8 DEF Lock, LockBusy, StoreRejects, Release, LogFailure, Error, Proceed, worldVars, At
<1>9. CASE CountRead(t) \/ CountWrite(t)
  BY <1>0, <1>9 DEF CountRead, CountWrite, worldVars, At, TypeOK
<1> QED
  BY <1>1, <1>2, <1>3, <1>4, <1>5, <1>6, <1>7, <1>8, <1>9 DEF TaskStep

(* The holder of the lock is the one task that may claim.                     *)
LEMMA TaskClaimsLogged ==
  ASSUME ClaimFault \cap Fault = {}, TypeOK, HoldersHoldLocks, ClaimsLogged,
         NEW t \in Task, TaskStep(t)
  PROVE  ClaimsLogged'
<1>1. ASSUME NEW s \in Task, s # t PROVE task'[s] = task[s]
  BY <1>1, TaskStepLocal
<1>2. ASSUME NEW s \in Task, NEW p \in {"rebalance", "claim"} PROVE In(s, p)' <=> In(s, p)
  BY TaskStepRun, TaskParts DEF In
<1>3. ASSUME NEW s \in Task, s # t, UserOf(s) = UserOf(t), task[s].pc \in Bracket
      PROVE  task[t].pc \notin Bracket
  BY <1>3 DEF HoldersHoldLocks
<1>4. ASSUME NEW v \in User, claimed'[v]
      PROVE  claimRow'[v] \/ \E s \in Task : UserOf(s) = v /\ At(s, "ok")' /\ In(s, "claim")'
  <2>1. CASE claimed[v]
    <3>1. CASE claimRow[v]
      BY <3>1, TaskStepClaims
    <3>2. CASE \E s \in Task : UserOf(s) = v /\ At(s, "ok") /\ In(s, "claim")
      BY <1>1, <1>2, <3>2, TaskStepClaims DEF At
    <3> QED
      BY <2>1, <3>1, <3>2 DEF ClaimsLogged
  <2>2. CASE v = UserOf(t) /\ In(t, "claim") /\ task'[t].pc = "ok"
    BY <1>2, <2>2 DEF At
  <2> QED
    BY <1>4, <2>1, <2>2, TaskStepClaims
<1>5. ASSUME NEW s \in Task, In(s, "claim")', task'[s].pc \in PastCooldown
      PROVE  ~claimed'[UserOf(s)]
  <2>1. CASE s = t
    <3>1. CASE task[t].pc \in PastCooldown
      BY <1>2, <1>5, <2>1, <3>1, TaskStepClaims DEF ClaimsLogged
    <3>2. CASE At(t, "locked") /\ ~claimRow[UserOf(t)]
      <4>1. ASSUME NEW x \in Task, UserOf(x) = UserOf(t), At(x, "ok") PROVE FALSE
        BY <1>3, <3>2, <4>1 DEF At, Bracket
      <4>2. ~claimed[UserOf(t)]
        BY <3>2, <4>1, TaskParts DEF ClaimsLogged
      <4> QED
        BY <1>2, <1>5, <2>1, <4>2, TaskStepClaims
    <3> QED
      BY <1>2, <1>5, <2>1, <3>1, <3>2, TaskStepClaims
  <2>2. CASE s # t
    <3>1. ~claimed[UserOf(s)] /\ task[s].pc \in Bracket
      BY <1>1, <1>2, <1>5, <2>2 DEF ClaimsLogged, PastCooldown, Bracket
    <3>2. At(t, "ready") => UserOf(s) # UserOf(t)
      BY <1>3, <2>2, <3>1 DEF At, Bracket
    <3> QED
      BY <3>1, <3>2, TaskStepClaims, TaskParts
  <2> QED
    BY <2>1, <2>2
<1> QED
  BY <1>4, <1>5 DEF ClaimsLogged

(* The others only let claims grow old.                                       *)
LEMMA StepClaims ==
  ASSUME RegInv, TypeOK, RunsIdle, HoldersHoldLocks, ClaimsLogged, [Next]_vars
  PROVE  ClaimsLogged'
<1> SUFFICES ASSUME ClaimFault \cap Fault = {}, ~\E t \in Task : TaskStep(t) PROVE ClaimsLogged'
  BY TaskClaimsLogged DEF ClaimsLogged
<1>1. \A v \in User : (claimed'[v] => claimed[v] /\ (claimRow[v] => claimRow'[v]))
  <2>1. UNCHANGED claimed => \A v \in User : (claimed'[v] => claimed[v])
    OBVIOUS
  <2>2. ASSUME NEW q \in Req, RequestCountWrite(q)
        PROVE  UNCHANGED claimed /\ \A v \in User : (claimRow[v] => claimRow'[v])
    BY <2>2 DEF RequestCountWrite, TypeOK
  <2>3. ASSUME NEW u \in User, CooldownPasses(u)
        PROVE  \A v \in User : (claimed'[v] => claimed[v] /\ (claimRow[v] => claimRow'[v]))
    BY <2>3 DEF CooldownPasses, TypeOK
  <2>4. ASSUME NEW u \in User, Lapse(u) PROVE UNCHANGED <<claimed, claimRow>>
    BY <2>4 DEF Lapse, worldVars
  <2>5. ASSUME NEW q \in Req,
               \/ RequestStep(q) /\ ~RequestCountWrite(q)
               \/ \E u \in User : ClaimLock(q, u)
               \/ \E u \in User, op \in {"redeem", "deposit"} : OperationResolve(q, u, op)
        PROVE  UNCHANGED <<claimed, claimRow>>
    BY <2>5 DEF RequestStep, OperationSend, ClaimResolve, ClaimSend, RequestCountRead,
       ClaimRelease, OperationResolve, ClaimLock, worldVars
  <2>6. ASSUME NEW r \in Run, StartRun(r) \/ BlockRun(r) \/ RunStep(r) \/ Crash(r)
        PROVE  UNCHANGED <<claimed, claimRow>>
    BY <2>6, RunStepLocal DEF RunStep, worldVars
  <2>7. UNCHANGED <<claimed, claimRow>> \/ (\E u \in User : CooldownPasses(u))
        \/ \E q \in Req : RequestCountWrite(q)
    BY <2>4, <2>5, <2>6 DEF Next, vars, worldVars
  <2> QED
    BY <2>2, <2>3, <2>7
<1>2. ASSUME NEW t \in Task
      PROVE  /\ task'[t].pc \notin {"over", "wait"} => task'[t] = task[t] /\ (In(t, "claim")' <=> In(t, "claim"))
             /\ At(t, "ok") => task'[t] = task[t] /\ (In(t, "claim")' <=> In(t, "claim"))
  <2>1. ASSUME NEW r \in Run, r = RunOf(t), StartRun(r) \/ BlockRun(r) \/ StartChunk(r) \/ EndPhase(r)
        PROVE  task[t].pc = "over" /\ task'[t].pc \in {"over", "wait"}
    <3>1. Over(r)
      BY <2>1 DEF StartRun, BlockRun, StartChunk, EndPhase, PhaseEnds, RunsIdle
    <3>2. task[t].pc = "over"
      BY <2>1, <3>1, TaskParts DEF Over, At, Task, RunOf, UserOf
    <3> QED
      BY <2>1, <3>2 DEF StartRun, BlockRun, StartChunk, EndPhase, WaitingTask
  <2>2. ASSUME NEW r \in Run, r # RunOf(t), StartRun(r) \/ BlockRun(r) \/ StartChunk(r) \/ EndPhase(r)
        PROVE  task'[t] = task[t] /\ (In(t, "claim")' <=> In(t, "claim"))
    BY <2>2, RunStepLocal, TaskParts DEF In
  <2>3. \A r \in Run : ~Crash(r)
    BY DEF Crash, ClaimFault
  <2>4. UNCHANGED <<run, task, count>> =>
          task'[t] = task[t] /\ (In(t, "claim")' <=> In(t, "claim"))
    BY DEF In
  <2> QED
    BY <2>1, <2>2, <2>3, <2>4, StepKinds DEF At
<1>3. ASSUME NEW u \in User, claimed'[u]
      PROVE  claimRow'[u] \/ \E t \in Task : UserOf(t) = u /\ At(t, "ok")' /\ In(t, "claim")'
  BY <1>1, <1>2, <1>3 DEF ClaimsLogged, At
<1>4. ASSUME NEW t \in Task, In(t, "claim")', task'[t].pc \in PastCooldown
      PROVE  ~claimed'[UserOf(t)]
  <2>1. In(t, "claim") /\ task[t].pc \in PastCooldown
    BY <1>2, <1>4 DEF PastCooldown
  <2> QED
    BY <1>1, <2>1, TaskParts DEF ClaimsLogged
<1> QED
  BY <1>3, <1>4 DEF ClaimsLogged

-------------------------------------------------------------------------------
(* What holds whatever lapses. *)
Books ==
  /\ RegInv /\ TypeOK
  /\ RunsIdle /\ SummaryAddsUp /\ RowsBacked /\ CountsBacked

(* At first there is nothing in the books.                                    *)
LEMMA InitBooks == Init => Books /\ HoldersHoldLocks /\ ClaimsLogged
<1> SUFFICES ASSUME Init PROVE Books /\ HoldersHoldLocks /\ ClaimsLogged
  OBVIOUS
<1>0. IsFiniteSet({}) /\ Cardinality({}) = 0
  BY FS_EmptySet
<1>1. RegInv /\ TypeOK /\ HoldersHoldLocks
  BY CronInitInv
<1>2. \A t \in Task : task[t].pc = "over"
  BY DEF Init, IdleTask
<1>3. \A q \in Req : req[q].pc = "idle"
  BY DEF Init, RegInit, IdleReq
<1>4. \A r \in Run : Over(r) /\ run[r].phase = "off" /\ run[r].todo = {} /\ count[r] = EmptySummary
  BY <1>2 DEF Init, Over, At, IdleRun, Task
<1>5. RunsIdle /\ SummaryAddsUp
  BY <1>4 DEF RunsIdle, SummaryAddsUp
<1>6. RowsBacked
  <2>1. \A u \in User : Unlogged(u) = {}
    BY <1>2 DEF Unlogged, At
  <2>2. \A u \in User : rows[u] = 0 /\ moves[u] = 0
    BY DEF Init
  <2>3. ASSUME NEW u \in User PROVE IsFiniteSet(Unlogged(u)) /\ Cardinality(Unlogged(u)) = 0
    <3>1. Unlogged(u) = {}
      BY <2>1
    <3> QED
      BY <1>0, <3>1, Zenon
  <2>4. ASSUME NEW u \in User PROVE rows[u] + Cardinality(Unlogged(u)) <= moves[u]
    <3>1. Cardinality(Unlogged(u)) = 0
      BY <2>3
    <3> QED
      BY <2>2, <3>1
  <2> QED
    BY <2>3, <2>4, Zenon DEF RowsBacked
<1>7. CountsBacked
  <2>1. \A u \in User : Owing(u) = {} /\ Read(u) = {}
    BY <1>2, <1>3 DEF Owing, OwingTask, OwingRequest, Read, At
  <2>2. \A u \in User : ops[u] = 0 /\ sent[u] = 0
    BY DEF Init
  <2>3. ASSUME NEW u \in User PROVE IsFiniteSet(Owing(u)) /\ Cardinality(Owing(u)) = 0
    <3>1. Owing(u) = {}
      BY <2>1
    <3> QED
      BY <1>0, <3>1, Zenon
  <2>4. ASSUME NEW u \in User, NEW n \in {ops[u]} \cup Read(u)
        PROVE  n + Cardinality(Owing(u)) <= sent[u]
    <3>1. Cardinality(Owing(u)) = 0 /\ n = 0
      BY <2>1, <2>2, <2>3
    <3> QED
      BY <2>2, <3>1
  <2> QED
    BY <2>3, <2>4, Zenon DEF CountsBacked
<1>8. ClaimsLogged
  BY <1>2 DEF ClaimsLogged, Init, PastCooldown
<1> QED
  BY <1>1, <1>5, <1>6, <1>7, <1>8 DEF Books

(* Every step keeps the books.                                                *)
LEMMA StepBooks == Books /\ [Next]_vars => Books'
BY CronStepReg, CronStepType, StepIdle, StepSummary, StepRows, StepCounts DEF Books

(* With keys that outlive their holders' work, every busy worker holds the *)
(* lock of the user it acts for; and the books are in order.               *)
THEOREM CronInvariant == "lapse" \notin Fault => (Spec => []CronInv)
<1> SUFFICES ASSUME "lapse" \notin Fault PROVE Spec => []CronInv
  OBVIOUS
<1> DEFINE IInv == Books /\ HoldersHoldLocks /\ ClaimsLogged
<1>1. Init => IInv
  BY InitBooks
<1>2. IInv /\ [Next]_vars => IInv'
  BY StepBooks, CronStepHolders, StepClaims DEF Books
<1>3. IInv => CronInv
  BY DEF Books, CronInv
<1> QED
  BY <1>1, <1>2, <1>3, PTL DEF Spec

(* Whatever reverts, lapses, crashes or gets lost, a user has no more       *)
(* 'success' rows of rebalances than rebalances that took effect            *)
(* (cron-orchestration-service.ts: processUserRebalance).                   *)
THEOREM RowsAreReal == Spec => []SuccessRowsReal
<1>1. Books => SuccessRowsReal
  <2> SUFFICES ASSUME Books, ~Simulation, NEW u \in User PROVE rows[u] <= moves[u]
    BY DEF SuccessRowsReal
  <2>1. /\ rows[u] + Cardinality(Unlogged(u)) <= moves[u]
        /\ Cardinality(Unlogged(u)) \in Nat /\ rows[u] \in Nat /\ moves[u] \in Nat
    BY FS_CardinalityType DEF Books, RowsBacked, TypeOK
  <2> QED
    BY <2>1
<1> QED
  BY <1>1, InitBooks, StepBooks, PTL DEF Spec

(* However the increments of the cron and of the requests interleave, and   *)
(* whichever of them fails, the daily count of a user never exceeds what was *)
(* sent for the user (rate-limiter.ts: incrementUserOpCount).               *)
THEOREM CountIsTrue == Spec => []CountNeverOverstates
<1>1. Books => CountNeverOverstates
  <2> SUFFICES ASSUME Books, ~Simulation, NEW u \in User PROVE ops[u] <= sent[u]
    BY DEF CountNeverOverstates
  <2>1. /\ ops[u] + Cardinality(Owing(u)) <= sent[u]
        /\ Cardinality(Owing(u)) \in Nat /\ ops[u] \in Nat /\ sent[u] \in Nat
    BY FS_CardinalityType DEF Books, CountsBacked, TypeOK
  <2> QED
    BY <2>1
<1> QED
  BY <1>1, InitBooks, StepBooks, PTL DEF Spec

(* For any number of users and any size of the chunks, the summary of a     *)
(* phase that ends accounts for every user of the snapshot exactly once     *)
(* (processUsersInParallel).                                                *)
THEOREM SummaryIsComplete == Spec => []SummaryAccounts
<1>1. Books => SummaryAccounts
  <2> SUFFICES ASSUME Books, NEW r \in Run, PhaseEnds(r),
                      run[r].phase = "rebalance" \/ "sql" \notin Fault
               PROVE  Summed(r) = Cardinality(run[r].users)
    BY DEF SummaryAccounts
  <2>1. Summed(r) + Cardinality(run[r].todo) + Cardinality(Uncounted(r)) = Cardinality(run[r].users)
    BY DEF Books, SummaryAddsUp, PhaseEnds
  <2>2. run[r].todo = {} /\ Uncounted(r) = {}
    BY DEF PhaseEnds, Over, At, Uncounted, Pending
  <2>3. Summed(r) \in Nat
    BY DEF Books, TypeOK, Summed, Field
  <2> QED
    BY <2>1, <2>2, <2>3, FS_EmptySet
<1> QED
  BY <1>1, InitBooks, StepBooks, PTL DEF Spec

(* While locks outlive their holders, and no claim goes unlogged for a       *)
(* rejected INSERT, a lost receipt or a crash, the cron claims for a user    *)
(* once in 24 hours, in however many runs (processUserRewardClaim).          *)
THEOREM ClaimsOnceADay == ClaimFault \cap Fault = {} => (Spec => ClaimOncePerDay)
<1> SUFFICES ASSUME ClaimFault \cap Fault = {} PROVE Spec => ClaimOncePerDay
  OBVIOUS
<1>0. "lapse" \notin Fault
  BY DEF ClaimFault
<1> DEFINE IInv == Books /\ HoldersHoldLocks /\ ClaimsLogged
<1>1. Init => IInv
  BY InitBooks
<1>2. IInv /\ [Next]_vars => IInv'
  BY <1>0, StepBooks, CronStepHolders, StepClaims DEF Books
<1>3. IInv => \A t \in Task : At(t, "ready") /\ In(t, "claim") /\ task'[t].pc \in {"ok", "failed"} =>
                ~claimed[UserOf(t)]
  BY DEF ClaimsLogged, At, PastCooldown
<1> QED
  BY <1>1, <1>2, <1>3, PTL DEF Spec, ClaimOncePerDay

(* Whatever the cron, its crashes and the other requests do, and lock lapses *)
(* included, a revoked key whose DELETE was answered stays blacklisted.      *)
THEOREM CronKeepsBlacklist == Spec => []AckedKeysBlacklisted
<1> DEFINE IInv == RegInv /\ TypeOK
<1>1. Init => IInv
  BY CronInitInv
<1>2. IInv /\ [Next]_vars => IInv'
  BY CronStepReg, CronStepType
<1>3. IInv => AckedKeysBlacklisted
  BY DEF RegInv
<1> QED
  BY <1>1, <1>2, <1>3, PTL DEF Spec

(* And no task of the cron gets past its revocation check with such a key. *)
THEOREM CronRevocationGate == Spec => RevocationGate
<1> DEFINE IInv == RegInv /\ TypeOK
<1>1. Init => IInv
  BY CronInitInv
<1>2. IInv /\ [Next]_vars => IInv'
  BY CronStepReg, CronStepType
<1>3. IInv /\ [Next]_vars =>
        [\A t \in Task : At(t, "fetched") /\ task'[t].pc = "checked" =>
           task[t].key \notin acked \ expired]_vars
  <2> SUFFICES ASSUME IInv, Next, NEW t \in Task, At(t, "fetched"), task'[t].pc = "checked"
               PROVE  task[t].key \notin acked \ expired
    BY DEF vars
  <2>1. TaskStep(t)
    <3>1. ASSUME NEW s \in Task, TaskStep(s) PROVE s = t
      BY <3>1, TaskStepLocal DEF At
    <3>2. ASSUME UNCHANGED task PROVE FALSE
      BY <3>2 DEF At
    <3>3. ASSUME NEW r \in Run, StartRun(r) \/ BlockRun(r) \/ RunStep(r) \/ Crash(r) PROVE FALSE
      BY <3>2, <3>3 DEF StartRun, BlockRun, RunStep, StartChunk, EndPhase, Crash,
         WaitingTask, IdleTask, At
    <3> QED
      BY <3>1, <3>2, <3>3 DEF Next, RequestStep, OperationSend, ClaimResolve, ClaimSend,
         RequestCountRead, RequestCountWrite, ClaimRelease, OperationResolve, ClaimLock,
         Lapse, CooldownPasses
  <2>2. CheckRevoked(t) /\ ~IsRevoked(t)
    BY <2>1 DEF TaskStep, Lock, LockBusy, StoreRejects, Release, Evaluate, Cooldown,
       FetchKey, CheckRevoked, CheckBudget, FetchRewards, Simulate, SendRebalance,
       SendClaim, LogSuccess, LogFailure, CountRead, CountWrite, At, Goto, Skip, Error,
       Proceed, TypeOK
  <2> QED
    BY <2>2 DEF IsRevoked, RegInv, AckedKeysBlacklisted
<1> QED
  BY <1>1, <1>2, <1>3, PTL DEF Spec, RevocationGate

(* The tasks and requests busy with a user do not change but by the acquires. *)
LEMMA ShrinkIsLeave ==
  ASSUME Shrinks
  PROVE  \E W \in SUBSET (Task \cup Req) :
           [u \in User |-> Busy(u)]' = [u \in User |-> [v \in User |-> Busy(v)][u] \ W]
<1> DEFINE W == {t \in Task : task'[t].pc \notin Bracket}
                  \cup {q \in Req : req'[q].pc \notin ClaimBracket}
<1>0. Task \cap Req = {}
  BY CronAssumption DEF Task
<1>1. ASSUME NEW u \in User PROVE Busy(u)' = Busy(u) \ W
  BY <1>0, <1>1 DEF Shrinks, Busy, BusyTasks, BusyRequests
<1> QED
  BY <1>1

(* The cron and the manual claims together implement the abstract mutex. *)
THEOREM CronRefinesMutex == "lapse" \notin Fault => (Spec => ImplementsMutex)
<1> SUFFICES ASSUME "lapse" \notin Fault PROVE Spec => ImplementsMutex
  OBVIOUS
<1> DEFINE busy == [u \in User |-> Busy(u)]
           IInv == RegInv /\ TypeOK /\ HoldersHoldLocks
<1>0. None \notin Task \cup Req /\ Task \cap Req = {}
  BY CronAssumption DEF Task
<1>1. Init => Mutex!Init
  BY DEF Init, RegInit, Mutex!Init, Busy, BusyTasks, BusyRequests, Bracket, ClaimBracket,
     IdleTask, IdleReq
<1>2. Init => IInv
  BY CronInitInv
<1>3. IInv /\ [Next]_vars => IInv'
  BY CronStepReg, CronStepType, CronStepHolders
<1>4. IInv /\ [Next]_vars => [Mutex!Next]_busy
  <2> SUFFICES ASSUME IInv, [Next]_vars PROVE Mutex!Next
    OBVIOUS
  <2>1. CASE Shrinks
    <3>1. PICK W \in SUBSET (Task \cup Req) : busy' = [u \in User |-> busy[u] \ W]
      BY <2>1, ShrinkIsLeave
    <3>2. Mutex!Leave(W)
      BY <3>1 DEF Mutex!Leave
    <3> QED
      BY <3>2 DEF Mutex!Next
  <2>2. CASE \E t \in Task : Lock(t)
    <3>1. PICK t \in Task : Lock(t)
      BY <2>2
    <3> DEFINE u == UserOf(t)
    <3>2. /\ u \in User /\ task[t].pc = "wait" /\ lock[u] = None
          /\ task' = [task EXCEPT ![t].pc = "locked"] /\ UNCHANGED req
      BY <3>1, TaskParts DEF Lock, At, Free, Goto, regVars
    <3>3. Busy(u) = {}
      BY <1>0, <3>2, TaskParts DEF Busy, BusyTasks, BusyRequests, HoldersHoldLocks
    <3>4. \A v \in User : t \notin Busy(v)
      BY <1>0, <3>2 DEF Busy, BusyTasks, BusyRequests, Bracket
    <3>5. Busy(u)' = {t}
      BY <1>0, <3>2, <3>3 DEF Busy, BusyTasks, BusyRequests, Bracket, TypeOK
    <3>6. ASSUME NEW v \in User, v # u PROVE Busy(v)' = Busy(v)
      BY <1>0, <3>2, <3>6 DEF Busy, BusyTasks, BusyRequests, Bracket, TypeOK
    <3>7. Mutex!Enter(t, u)
      BY <3>2, <3>3, <3>4, <3>5, <3>6 DEF Mutex!Enter
    <3> QED
      BY <3>2, <3>7 DEF Mutex!Next
  <2>3. CASE \E q \in Req, u \in User : ClaimLock(q, u)
    <3>1. PICK q \in Req, u \in User : ClaimLock(q, u)
      BY <2>3
    <3>2. /\ req[q].pc = "idle" /\ lock[u] = None /\ UNCHANGED task
          /\ req' = [req EXCEPT ![q] = [pc |-> "claim", user |-> u, key |-> None, seen |-> 0]]
      BY <3>1 DEF ClaimLock, Begin, Free
    <3>3. Busy(u) = {}
      BY <1>0, <3>2 DEF Busy, BusyTasks, BusyRequests, HoldersHoldLocks
    <3>4. \A v \in User : q \notin Busy(v)
      BY <1>0, <3>2 DEF Busy, BusyTasks, BusyRequests, ClaimBracket
    <3>5. Busy(u)' = {q}
      BY <1>0, <3>2, <3>3 DEF Busy, BusyTasks, BusyRequests, ClaimBracket, TypeOK, RegTypeOK
    <3>6. ASSUME NEW v \in User, v # u PROVE Busy(v)' = Busy(v)
      BY <1>0, <3>2, <3>6 DEF Busy, BusyTasks, BusyRequests, ClaimBracket, TypeOK, RegTypeOK
    <3>7. Mutex!Enter(q, u)
      BY <3>2, <3>3, <3>4, <3>5, <3>6 DEF Mutex!Enter
    <3> QED
      BY <3>7 DEF Mutex!Next
  <2> QED
    BY <2>1, <2>2, <2>3, CronStepShrinks
<1> QED
  BY <1>1, <1>2, <1>3, <1>4, PTL DEF Spec, ImplementsMutex, Mutex!Spec

(* The promise of the abstract mutex, carried over by the refinement: no two *)
(* workers are busy with a user.                                             *)
LEMMA MutexExcludes == Mutex!Spec => []Mutex!Exclusive
<1> DEFINE b == [u \in User |-> Busy(u)]
<1>1. Mutex!Init => Mutex!Exclusive
  BY DEF Mutex!Init, Mutex!Exclusive
<1>2. ASSUME Mutex!Exclusive, [Mutex!Next]_b PROVE Mutex!Exclusive'
  <2>1. /\ \A u \in User : \A v, w \in Busy(u) : v = w
        /\ \A u, x \in User : u # x => Busy(u) \cap Busy(x) = {}
    BY <1>2 DEF Mutex!Exclusive
  <2> SUFFICES /\ \A u \in User : \A v, w \in Busy(u)' : v = w
               /\ \A u, x \in User : u # x => Busy(u)' \cap Busy(x)' = {}
    BY DEF Mutex!Exclusive
  <2>2. ASSUME NEW w, NEW u \in User, Mutex!Enter(w, u)
        PROVE  /\ \A v \in User : w \notin Busy(v)
               /\ \A v \in User : Busy(v)' = IF v = u THEN {w} ELSE Busy(v)
    <3>1. b' = [b EXCEPT ![u] = {w}] /\ \A v \in User : w \notin b[v]
      BY <2>2 DEF Mutex!Enter
    <3>2. \A v \in User : b'[v] = Busy(v)' /\ b[v] = Busy(v)
      OBVIOUS
    <3>3. \A v \in User : b'[v] = IF v = u THEN {w} ELSE b[v]
      BY <3>1
    <3> QED
      BY <3>1, <3>2, <3>3
  <2>3. ASSUME NEW W, Mutex!Leave(W) PROVE \A v \in User : Busy(v)' = Busy(v) \ W
    BY <2>3 DEF Mutex!Leave
  <2>4. CASE UNCHANGED b
    <3>1. \A v \in User : Busy(v)' = Busy(v)
      BY <2>4
    <3> QED
      BY <2>1, <3>1
  <2>5. ASSUME NEW w, NEW u \in User, Mutex!Enter(w, u)
        PROVE  /\ \A y \in User : \A v, x \in Busy(y)' : v = x
               /\ \A y, x \in User : y # x => Busy(y)' \cap Busy(x)' = {}
    BY <2>1, <2>2, <2>5
  <2>6. ASSUME NEW W, Mutex!Leave(W)
        PROVE  /\ \A y \in User : \A v, x \in Busy(y)' : v = x
               /\ \A y, x \in User : y # x => Busy(y)' \cap Busy(x)' = {}
    BY <2>1, <2>3, <2>6
  <2> QED
    BY <1>2, <2>4, <2>5, <2>6 DEF Mutex!Next
<1> QED
  BY <1>1, <1>2, PTL DEF Mutex!Spec

(* Of overlapping runs and claim requests one at a time acts for a user, and  *)
(* for one user at a time, whatever fails, crashes or aborts                  *)
(* (cron-orchestration-service.ts:136-180).                                   *)
THEOREM OneWorkerPerUser == "lapse" \notin Fault => (Spec => []Mutex!Exclusive)
  BY CronRefinesMutex, MutexExcludes DEF ImplementsMutex

===============================================================================
