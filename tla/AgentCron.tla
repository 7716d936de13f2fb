------------------------------- MODULE AgentCron -------------------------------
(***************************************************************************)
(* The rebalancing cron (lib/agent/cron-orchestration-service.ts) against  *)
(* the requests its users send meanwhile: registration and revocation      *)
(* (SessionRegistry), manual redeems, deposits and reward claims.          *)
(*                                                                         *)
(* A run takes a snapshot of the active users and processes them chunk by  *)
(* chunk, first to rebalance and then to claim rewards; the users of a     *)
(* chunk are concurrent tasks <<r, u>>, one step per await.  Nothing but   *)
(* the per-user lock separates the daily run from one that is started with *)
(* targetedVaults.  The lock is abstracted to its holder (see UserLock).   *)
(***************************************************************************)
EXTENDS SessionRegistry

CONSTANTS
  Run,          \* calls of POST /api/agent/cron
  Concurrency,  \* users per chunk (CRON_CONCURRENCY)
  Budget,       \* USEROP_DAILY_LIMIT - CRON_USEROP_RESERVE
  MaxOps,       \* bound: a user with MaxOps operations sent requests no more
  Simulation    \* AGENT_SIMULATION_MODE

ASSUME CronAssumption ==
  /\ Concurrency \in Nat \ {0} /\ Budget \in Nat /\ MaxOps \in Nat
  /\ Simulation \in BOOLEAN
  /\ IsFiniteSet(User)   \* the rows of a table
  /\ None \notin (Run \X User) \cup Req /\ (Run \X User) \cap Req = {}

Task == Run \X User

VARIABLES
  lock,        \* lock[u]: the task or request that holds u's lock, or None
  run,         \* run[r]: phase, users (the snapshot), todo (not yet in a
               \*         chunk), aborted (starts nothing any more)
  task,        \* task[t]: pc, key, seen of the task of one user in one run
  count,       \* count[r]: the CronSummary of the current phase
  ops,         \* ops[u]: userop_budget:<address> in Redis
  sent,        \* sent[u]: operations that reached the chain for u
  pos,         \* pos[u]: u's funds are in a "low" or "high" APY vault or "out"
  moves,       \* moves[u]: rebalances that took effect on chain
  rows,        \* rows[u]: agent_actions rows (rebalance, success)
  claimRow,    \* claimRow[u]: a (merkl_claim, success) row is less than 24h old
  claimed      \* claimed[u]: the cron claimed on chain less than 24h ago

worldVars == <<ops, sent, pos, moves, rows, claimRow, claimed>>
vars == <<regVars, lock, run, task, count, worldVars>>

Field == {"processed", "done", "skipped", "errors"}
IdleTask == [pc |-> "over", key |-> None, seen |-> 0]
WaitingTask == [pc |-> "wait", key |-> None, seen |-> 0]
IdleRun == [phase |-> "off", users |-> {}, todo |-> {}, aborted |-> FALSE]
EmptySummary == [f \in Field |-> 0]

Bracket == {"locked", "decided", "fetched", "checked", "rewards", "ready",
            "ok", "failed", "count", "counted", "release"}
ClaimBracket == {"claim", "claimSend", "claimOk", "claimCounted", "unlock"}

TypeOK ==
  /\ RegTypeOK
  /\ lock \in [User -> Task \cup Req \cup {None}]
  /\ run \in [Run -> [phase : {"off", "rebalance", "claim", "done"},
                      users : SUBSET User, todo : SUBSET User, aborted : BOOLEAN]]
  /\ task \in [Task -> [pc : Bracket \cup {"over", "wait"},
                        key : Key \cup {None}, seen : Nat]]
  /\ count \in [Run -> [Field -> Nat]]
  /\ ops \in [User -> Nat] /\ sent \in [User -> Nat]
  /\ pos \in [User -> {"low", "high", "out"}]
  /\ moves \in [User -> Nat] /\ rows \in [User -> Nat]
  /\ claimRow \in [User -> BOOLEAN] /\ claimed \in [User -> BOOLEAN]

Init ==
  /\ RegInit
  /\ lock = [u \in User |-> None]
  /\ run = [r \in Run |-> IdleRun]
  /\ task = [t \in Task |-> IdleTask]
  /\ count = [r \in Run |-> EmptySummary]
  /\ ops = [u \in User |-> 0] /\ sent = [u \in User |-> 0]
  /\ pos = [u \in User |-> "low"]
  /\ moves = [u \in User |-> 0] /\ rows = [u \in User |-> 0]
  /\ claimRow = [u \in User |-> FALSE] /\ claimed = [u \in User |-> FALSE]

-------------------------------------------------------------------------------
(* Runs. *)

RunOf(t) == t[1]
UserOf(t) == t[2]
In(t, phase) == run[RunOf(t)].phase = phase
At(t, p) == task[t].pc = p
Over(r) == \A u \in User : At(<<r, u>>, "over")

Goto(t, p) == task' = [task EXCEPT ![t].pc = p]
Add(t, f) == count' = [count EXCEPT ![RunOf(t)][f] = @ + 1]

(* The active users: auto-optimize on, registered, with an authorization. *)
Active == {u \in User : row[u].auto /\ row[u].registered /\ row[u].key # None}

StartRun(r) ==
  /\ run[r].phase = "off"
  /\ run' = [run EXCEPT ![r] = [phase |-> "rebalance", users |-> Active,
                                todo |-> Active, aborted |-> FALSE]]
  /\ UNCHANGED <<regVars, lock, task, count, worldVars>>

(* The price feed is unhealthy or a query rejects: the run does nothing. *)
BlockRun(r) ==
  /\ run[r].phase = "off"
  /\ run' = [run EXCEPT ![r] = [phase |-> "done", users |-> {}, todo |-> {}, aborted |-> TRUE]]
  /\ UNCHANGED <<regVars, lock, task, count, worldVars>>

(* A chunk starts when the one before it is over; rows come in any order. *)
StartChunk(r) ==
  /\ ~run[r].aborted /\ run[r].todo # {} /\ Over(r)
  /\ \E C \in SUBSET run[r].todo :
       /\ \/ Cardinality(C) = Concurrency
          \/ C = run[r].todo /\ Cardinality(C) < Concurrency
       /\ run' = [run EXCEPT ![r].todo = @ \ C]
       /\ task' = [t \in Task |-> IF RunOf(t) = r /\ UserOf(t) \in C
                                  THEN WaitingTask ELSE task[t]]
  /\ UNCHANGED <<regVars, lock, count, worldVars>>

(* Faulty variant of PhaseEnds: the summary is taken for a barrier. *)
PhaseEndsByCount(r) ==
  /\ run[r].phase \in {"rebalance", "claim"} /\ ~run[r].aborted
  /\ count[r]["done"] + count[r]["skipped"] + count[r]["errors"] = Cardinality(run[r].users)

PhaseEnds(r) ==
  /\ run[r].phase \in {"rebalance", "claim"} /\ ~run[r].aborted
  /\ run[r].todo = {} /\ Over(r)

(* Both phases process the same snapshot. *)
EndPhase(r) ==
  /\ PhaseEnds(r)
  /\ \/ /\ run[r].phase = "rebalance"
        /\ run' = [run EXCEPT ![r] = [phase |-> "claim", users |-> run[r].users,
                                      todo |-> run[r].users, aborted |-> FALSE]]
        /\ count' = [count EXCEPT ![r] = EmptySummary]
     \/ /\ run[r].phase = "claim"
        /\ run' = [run EXCEPT ![r].phase = "done"]
        /\ UNCHANGED count
  /\ UNCHANGED <<regVars, lock, task, worldVars>>

(* The function instance dies with all its tasks; their locks stay. *)
Crash(r) ==
  /\ "crash" \in Fault
  /\ run[r].phase \in {"rebalance", "claim"} /\ ~run[r].aborted
  /\ run' = [run EXCEPT ![r].aborted = TRUE]
  /\ task' = [t \in Task |-> IF RunOf(t) = r THEN IdleTask ELSE task[t]]
  /\ UNCHANGED <<regVars, lock, count, worldVars>>

-------------------------------------------------------------------------------
(* One task: lock, work, release. *)

(* Faulty variant of Free: the lock is not NX. *)
FreeAnyway(u) == u \in User

Free(u) == lock[u] = None

Lock(t) ==
  /\ At(t, "wait") /\ Free(UserOf(t))
  /\ lock' = [lock EXCEPT ![UserOf(t)] = t]
  /\ Goto(t, "locked") /\ Add(t, "processed")
  /\ UNCHANGED <<regVars, run, worldVars>>

LockBusy(t) ==
  /\ At(t, "wait") /\ ~Free(UserOf(t))
  /\ Goto(t, "over") /\ Add(t, "skipped")
  /\ UNCHANGED <<regVars, lock, run, worldVars>>

(* Faulty variant of StoreRejects: the rejection is swallowed.              *)
StoreRejectsSwallowed(t) ==
  /\ "store" \in Fault
  /\ At(t, "wait") \/ At(t, "release")
  /\ Goto(t, "over")
  /\ UNCHANGED <<regVars, lock, run, count, worldVars>>

(* A rejected acquire or release rejects Promise.all: no further chunk or  *)
(* phase starts, while the other tasks of the chunk run on.                *)
StoreRejects(t) ==
  /\ "store" \in Fault
  /\ At(t, "wait") \/ At(t, "release")
  /\ Goto(t, "over")
  /\ run' = [run EXCEPT ![RunOf(t)].aborted = TRUE]
  /\ UNCHANGED <<regVars, lock, count, worldVars>>

Release(t) ==
  /\ At(t, "release")
  /\ lock' = [lock EXCEPT ![UserOf(t)] = IF @ = t THEN None ELSE @]
  /\ Goto(t, "over")
  /\ UNCHANGED <<regVars, run, count, worldVars>>

Skip(t) == Goto(t, "release") /\ Add(t, "skipped")
Error(t) == Goto(t, "release") /\ Add(t, "errors")
Proceed(t, p) == Goto(t, p) /\ UNCHANGED count

(* The decision engine finds a better vault, or not, or fails. *)
Evaluate(t) ==
  /\ At(t, "locked") /\ In(t, "rebalance")
  /\ \/ pos[UserOf(t)] = "low" /\ Proceed(t, "decided")
     \/ Skip(t)
  /\ UNCHANGED <<regVars, lock, run, worldVars>>

(* Faulty variant of Cooling: the row of an earlier claim is not looked up. *)
CoolingNever(u) == u \notin User

Cooling(u) == claimRow[u]

Cooldown(t) ==
  /\ At(t, "locked") /\ In(t, "claim")
  /\ \/ ~Cooling(UserOf(t)) /\ Proceed(t, "decided")
     \/ Cooling(UserOf(t)) /\ Skip(t)
     \/ "sql" \in Fault /\ Error(t)
  /\ UNCHANGED <<regVars, lock, run, worldVars>>

FetchKey(t) ==
  LET u == UserOf(t) IN
  /\ At(t, "decided")
  /\ \/ /\ Resolves(u)
        /\ task' = [task EXCEPT ![t] = [pc |-> "fetched", key |-> row[u].key, seen |-> 0]]
        /\ UNCHANGED count
     \/ row[u].key = None /\ In(t, "rebalance") /\ Error(t)
     \/ row[u].key = None /\ In(t, "claim") /\ Skip(t)
     \/ row[u].key \in expired /\ Skip(t)
     \/ "sql" \in Fault /\ Error(t)
  /\ UNCHANGED <<regVars, lock, run, worldVars>>

(* Faulty variant of IsRevoked: the key the row holds by now is looked up. *)
IsRevokedByRow(t) == row[UserOf(t)].key \in revoked

IsRevoked(t) == task[t].key \in revoked

CheckRevoked(t) ==
  /\ At(t, "fetched")
  /\ \/ ~IsRevoked(t) /\ Proceed(t, "checked")
     \/ IsRevoked(t) /\ Skip(t)
     \/ "store" \in Fault /\ Error(t)
  /\ UNCHANGED <<regVars, lock, run, worldVars>>

(* getUserOpCount answers the limit when Redis fails.  A rebalance has     *)
(* left for Simulate before.                                               *)
CheckBudget(t) ==
  /\ At(t, "checked") /\ (In(t, "claim") \/ ~Simulation)
  /\ \/ /\ ops[UserOf(t)] < Budget
        /\ Proceed(t, IF In(t, "claim") THEN "rewards" ELSE "ready")
     \/ (ops[UserOf(t)] >= Budget \/ "store" \in Fault) /\ Skip(t)
  /\ UNCHANGED <<regVars, lock, run, worldVars>>

(* Nothing to claim, too little, or a failing fetch.  A key that does not  *)
(* cover the distributor is skipped before, with the same effect.          *)
FetchRewards(t) ==
  /\ At(t, "rewards")
  /\ Proceed(t, "ready") \/ Skip(t)
  /\ UNCHANGED <<regVars, lock, run, worldVars>>

(* A simulated action leaves a 'success' row like a real one. *)
Simulate(t) ==
  LET u == UserOf(t) IN
  /\ Simulation
  /\ \/ At(t, "checked") /\ In(t, "rebalance")
     \/ At(t, "ready")
  /\ \/ "sql" \in Fault /\ Error(t) /\ UNCHANGED <<rows, claimRow>>
     \/ In(t, "rebalance") /\ rows' = [rows EXCEPT ![u] = @ + 1] /\ Skip(t) /\ UNCHANGED claimRow
     \/ In(t, "claim") /\ claimRow' = [claimRow EXCEPT ![u] = TRUE] /\ Skip(t) /\ UNCHANGED rows
  /\ UNCHANGED <<regVars, lock, run, ops, sent, pos, moves, claimed>>

(* What the executors report of an operation: fate is what the chain does  *)
(* with it, and a lost receipt reads as a failure.                         *)
Fate == {"rejected", "reverted", "landed"}
Reports(fate, checked) ==
  {IF fate = "landed" \/ (fate = "reverted" /\ ~checked) THEN "ok" ELSE "failed"}
    \cup (IF "receipt" \in Fault THEN {"failed"} ELSE {})

(* Faulty variant of ReceiptChecked: executeRebalance ignores the receipt. *)
ReceiptIgnored(phase) == phase = "none"

(* executeRebalance looks at receipt.success, executeYoRewardsClaim does not. *)
ReceiptChecked(phase) == phase = "rebalance"

SendRebalance(t) ==
  LET u == UserOf(t) IN
  /\ At(t, "ready") /\ In(t, "rebalance") /\ ~Simulation
  /\ \E fate \in Fate :
       /\ fate = "landed" => pos[u] = "low"
       /\ \E p \in Reports(fate, ReceiptChecked("rebalance")) : Goto(t, p)
       /\ sent' = [sent EXCEPT ![u] = IF fate = "rejected" THEN @ ELSE @ + 1]
       /\ pos' = [pos EXCEPT ![u] = IF fate = "landed" THEN "high" ELSE @]
       /\ moves' = [moves EXCEPT ![u] = IF fate = "landed" THEN @ + 1 ELSE @]
  /\ UNCHANGED <<regVars, lock, run, count, ops, rows, claimRow, claimed>>

SendClaim(t) ==
  LET u == UserOf(t) IN
  /\ At(t, "ready") /\ In(t, "claim") /\ ~Simulation
  /\ \E fate \in Fate :
       /\ \E p \in Reports(fate, ReceiptChecked("claim")) :
            Goto(t, p) /\ Add(t, IF p = "ok" THEN "done" ELSE "errors")
       /\ sent' = [sent EXCEPT ![u] = IF fate = "rejected" THEN @ ELSE @ + 1]
       /\ claimed' = [claimed EXCEPT ![u] = @ \/ fate = "landed"]
  /\ UNCHANGED <<regVars, lock, run, ops, pos, moves, rows, claimRow>>

(* The row of a success.  When its INSERT rejects, a rebalance is logged    *)
(* and counted as failed, and a claim counts as done and as an error.       *)
LogSuccess(t) ==
  LET u == UserOf(t) IN
  /\ At(t, "ok")
  /\ \/ /\ In(t, "rebalance")
        /\ rows' = [rows EXCEPT ![u] = @ + 1]
        /\ Goto(t, "count") /\ Add(t, "done")
        /\ UNCHANGED claimRow
     \/ /\ In(t, "claim")
        /\ claimRow' = [claimRow EXCEPT ![u] = TRUE]
        /\ Proceed(t, "count")
        /\ UNCHANGED rows
     \/ "sql" \in Fault /\ Error(t) /\ UNCHANGED <<rows, claimRow>>
  /\ UNCHANGED <<regVars, lock, run, ops, sent, pos, moves, claimed>>

LogFailure(t) ==
  /\ At(t, "failed")
  /\ \/ In(t, "rebalance") /\ Error(t)
     \/ In(t, "claim") /\ Proceed(t, "release")
     \/ In(t, "claim") /\ "sql" \in Fault /\ Error(t)
  /\ UNCHANGED <<regVars, lock, run, worldVars>>

(* incrementUserOpCount: a get, then a set; failures are swallowed. *)
CountRead(t) ==
  /\ At(t, "count")
  /\ \/ task' = [task EXCEPT ![t].pc = "counted", ![t].seen = ops[UserOf(t)]]
     \/ "store" \in Fault /\ Goto(t, "release")
  /\ UNCHANGED <<regVars, lock, run, count, worldVars>>

(* Faulty variant of Incremented: the counter is added to twice. *)
IncrementedTwice(n) == n + 2

Incremented(n) == n + 1

CountWrite(t) ==
  /\ At(t, "counted")
  /\ \/ ops' = [ops EXCEPT ![UserOf(t)] = Incremented(task[t].seen)]
     \/ "store" \in Fault /\ UNCHANGED ops
  /\ Goto(t, "release")
  /\ UNCHANGED <<regVars, lock, run, count, sent, pos, moves, rows, claimRow, claimed>>

-------------------------------------------------------------------------------
(* Requests of the user: one await per step. *)

ReqAt(q, p) == req[q].pc = p
ReqGoto(q, p) == req' = [req EXCEPT ![q].pc = p]
regButReq == <<row, issued, expired, revoked, acked, wiped>>

MayRequest(u) == sent[u] < MaxOps

(* In simulation mode the executors of requests send nothing and report a  *)
(* success, which is counted like a real one.                              *)
Outcome(fate, report) ==
  IF Simulation THEN fate = "rejected" /\ report = "ok"
  ELSE report \in Reports(fate, ReceiptChecked("request"))

(* POST /api/vault/redeem and /api/vault/deposit take no lock and look at  *)
(* no budget.                                                              *)
OperationResolve(q, u, op) ==
  /\ MayRequest(u) /\ Resolves(u)
  /\ op \in {"redeem", "deposit"}
  /\ Begin(q, op, u, row[u].key)
  /\ UNCHANGED <<regButReq, lock, run, task, count, worldVars>>

(* Only a redeem that is reported successful is counted. *)
OperationSend(q) ==
  LET u == req[q].user IN
  /\ ReqAt(q, "redeem") \/ ReqAt(q, "deposit")
  /\ \E fate \in Fate, p \in {"ok", "failed"} :
       /\ Outcome(fate, p)
       /\ sent' = [sent EXCEPT ![u] = IF fate = "rejected" THEN @ ELSE @ + 1]
       /\ pos' = [pos EXCEPT ![u] =
                    CASE fate # "landed" -> @
                      [] ReqAt(q, "redeem") -> "out"
                      [] OTHER -> "low"]
       /\ IF ReqAt(q, "redeem") /\ p = "ok" THEN ReqGoto(q, "redeemOk") ELSE Finish(q)
  /\ UNCHANGED <<regButReq, lock, run, task, count, ops, moves, rows, claimRow, claimed>>

(* POST /api/yo/rewards/claim; a busy lock is a 409, no step. *)
ClaimLock(q, u) ==
  /\ MayRequest(u) /\ Free(u)
  /\ Begin(q, "claim", u, None)
  /\ lock' = [lock EXCEPT ![u] = q]
  /\ UNCHANGED <<regButReq, run, task, count, worldVars>>

(* No registration, nothing to claim, or a rejected call. *)
ClaimResolve(q) ==
  /\ ReqAt(q, "claim")
  /\ \/ /\ Resolves(req[q].user)
        /\ req' = [req EXCEPT ![q].pc = "claimSend", ![q].key = row[req[q].user].key]
     \/ ReqGoto(q, "unlock")
  /\ UNCHANGED <<regButReq, lock, run, task, count, worldVars>>

ClaimSend(q) ==
  LET u == req[q].user IN
  /\ ReqAt(q, "claimSend")
  /\ \E fate \in Fate, p \in {"ok", "failed"} :
       /\ Outcome(fate, p)
       /\ sent' = [sent EXCEPT ![u] = IF fate = "rejected" THEN @ ELSE @ + 1]
       /\ ReqGoto(q, IF p = "ok" THEN "claimOk" ELSE "unlock")
  /\ UNCHANGED <<regButReq, lock, run, task, count, ops, pos, moves, rows, claimRow, claimed>>

RequestCountRead(q) ==
  /\ \/ ReqAt(q, "redeemOk")
        /\ req' = [req EXCEPT ![q].pc = "redeemCounted", ![q].seen = ops[req[q].user]]
     \/ ReqAt(q, "claimOk")
        /\ req' = [req EXCEPT ![q].pc = "claimCounted", ![q].seen = ops[req[q].user]]
  /\ UNCHANGED <<regButReq, lock, run, task, count, worldVars>>

(* A manual claim also leaves a merkl_claim row, unless that INSERT fails. *)
RequestCountWrite(q) ==
  LET u == req[q].user IN
  /\ ReqAt(q, "redeemCounted") \/ ReqAt(q, "claimCounted")
  /\ \/ ops' = [ops EXCEPT ![u] = Incremented(req[q].seen)]
     \/ "store" \in Fault /\ UNCHANGED ops
  /\ \/ ReqAt(q, "redeemCounted") /\ Finish(q) /\ UNCHANGED claimRow
     \/ /\ ReqAt(q, "claimCounted") /\ ReqGoto(q, "unlock")
        /\ \/ claimRow' = [claimRow EXCEPT ![u] = TRUE]
           \/ "sql" \in Fault /\ UNCHANGED claimRow
  /\ UNCHANGED <<regButReq, lock, run, task, count, sent, pos, moves, rows, claimed>>

ClaimRelease(q) ==
  LET u == req[q].user IN
  /\ ReqAt(q, "unlock")
  /\ \/ lock' = [lock EXCEPT ![u] = IF @ = q THEN None ELSE @]
     \/ "store" \in Fault /\ UNCHANGED lock
  /\ Finish(q)
  /\ UNCHANGED <<regButReq, run, task, count, worldVars>>

-------------------------------------------------------------------------------
(* Time. *)

(* Who is between its acquire and its release for user u. *)
BusyTasks(u) == {t \in Task : task[t].pc \in Bracket /\ UserOf(t) = u}
BusyRequests(u) == {q \in Req : req[q].pc \in ClaimBracket /\ req[q].user = u}
Busy(u) == BusyTasks(u) \cup BusyRequests(u)

(* Faulty variant of Lapse: the lock is set without a TTL. *)
LapseNever(u) == u \notin User /\ UNCHANGED vars

(* The lock expires: of a holder that died or could not release it, or,    *)
(* with "lapse", of one that is still at work.                             *)
Lapse(u) ==
  /\ lock[u] # None
  /\ lock[u] \notin Busy(u) \/ "lapse" \in Fault
  /\ lock' = [lock EXCEPT ![u] = None]
  /\ UNCHANGED <<regVars, run, task, count, worldVars>>

(* 24 hours without a claim of the cron and without a claim row.  A row is  *)
(* written after the claim it records, so it counts for longer.             *)
CooldownPasses(u) ==
  /\ claimRow[u] \/ claimed[u]
  /\ claimRow' = [claimRow EXCEPT ![u] = FALSE]
  /\ claimed' = [claimed EXCEPT ![u] = FALSE]
  /\ UNCHANGED <<regVars, lock, run, task, count, ops, sent, pos, moves, rows>>

TaskStep(t) ==
  \/ Lock(t) \/ LockBusy(t) \/ StoreRejects(t) \/ Release(t)
  \/ Evaluate(t) \/ Cooldown(t) \/ FetchKey(t) \/ CheckRevoked(t)
  \/ CheckBudget(t) \/ FetchRewards(t) \/ Simulate(t)
  \/ SendRebalance(t) \/ SendClaim(t) \/ LogSuccess(t) \/ LogFailure(t)
  \/ CountRead(t) \/ CountWrite(t)

RunStep(r) == StartChunk(r) \/ EndPhase(r)

RequestStep(q) ==
  \/ OperationSend(q) \/ ClaimResolve(q) \/ ClaimSend(q)
  \/ RequestCountRead(q) \/ RequestCountWrite(q) \/ ClaimRelease(q)

Next ==
  \/ RegNext /\ UNCHANGED <<lock, run, task, count, worldVars>>
  \/ \E r \in Run : StartRun(r) \/ BlockRun(r) \/ RunStep(r) \/ Crash(r)
  \/ \E t \in Task : TaskStep(t)
  \/ \E q \in Req, u \in User :
       ClaimLock(q, u) \/ \E op \in {"redeem", "deposit"} : OperationResolve(q, u, op)
  \/ \E q \in Req : RequestStep(q)
  \/ \E u \in User : Lapse(u) \/ CooldownPasses(u)

Spec == Init /\ [][Next]_vars

(* Awaits settle, a live run goes on, and an expired lock is gone. *)
FairSpec ==
  /\ Spec
  /\ \A t \in Task : WF_vars(TaskStep(t))
  /\ \A r \in Run : WF_vars(RunStep(r))
  /\ \A q \in Req : WF_vars(RequestStep(q))
  /\ \A u \in User : WF_vars(Lapse(u))

-------------------------------------------------------------------------------
(* Whoever works for a user inside a bracket holds the user's lock, as long *)
(* as no lock lapses.                                                       *)
HoldersHoldLocks ==
  /\ \A t \in Task : task[t].pc \in Bracket => lock[UserOf(t)] = t
  /\ \A q \in Req : req[q].pc \in ClaimBracket => lock[req[q].user] = q

(* Outside its two phases a run has no task and nothing to start. *)
RunsIdle ==
  \A r \in Run :
    /\ run[r].phase \in {"off", "done"} => Over(r) /\ run[r].todo = {}
    /\ run[r].phase = "off" => count[r] = EmptySummary

(* Where a task is before it reaches the summary; the claim phase counts    *)
(* before it logs.                                                          *)
Pending(phase) ==
  {"wait", "locked", "decided", "fetched", "checked", "rewards", "ready"}
    \cup (IF phase = "rebalance" THEN {"ok", "failed"} ELSE {})
Uncounted(r) == {u \in User : task[<<r, u>>].pc \in Pending(run[r].phase)}

Summed(r) == count[r]["done"] + count[r]["skipped"] + count[r]["errors"]

SummaryAddsUp ==
  \A r \in Run :
    /\ run[r].phase \in {"rebalance", "claim"} /\ ~run[r].aborted
    /\ run[r].phase = "rebalance" \/ "sql" \notin Fault
    => Summed(r) + Cardinality(run[r].todo) + Cardinality(Uncounted(r))
         = Cardinality(run[r].users)

(* Rebalances that took effect, or reverted unseen, and are not logged yet. *)
Unlogged(u) == {t \in Task : At(t, "ok") /\ In(t, "rebalance") /\ UserOf(t) = u}

RowsBacked ==
  ~Simulation => \A u \in User :
    IsFiniteSet(Unlogged(u)) /\ rows[u] + Cardinality(Unlogged(u)) <= moves[u]

(* Whoever still has to count an operation of u, and what it has read.      *)
OwingTask(t) == task[t].pc \in {"ok", "count", "counted"}
OwingRequest(q) == req[q].pc \in {"redeemOk", "claimOk", "redeemCounted", "claimCounted"}
Owing(u) ==
  {t \in Task : OwingTask(t) /\ UserOf(t) = u} \cup {q \in Req : OwingRequest(q) /\ req[q].user = u}

Read(u) ==
  {task[t].seen : t \in {s \in Task : At(s, "counted") /\ UserOf(s) = u}}
    \cup {req[q].seen : q \in {p \in Req : req[p].pc \in {"redeemCounted", "claimCounted"}
                                           /\ req[p].user = u}}

(* The count, and what will be written from a count read before, leave room *)
(* for every operation still to be counted.                                 *)
CountsBacked ==
  ~Simulation => \A u \in User :
    /\ IsFiniteSet(Owing(u))
    /\ \A n \in {ops[u]} \cup Read(u) : n + Cardinality(Owing(u)) <= sent[u]

(* What can let a claim go unlogged, or two tasks work for one user. *)
ClaimFault == {"sql", "receipt", "crash", "lapse"}

(* A recent claim has its row, or is about to get it, and whoever is past   *)
(* the cooldown check has no recent claim.                                  *)
PastCooldown == {"decided", "fetched", "checked", "rewards", "ready"}
ClaimsLogged ==
  ClaimFault \cap Fault = {} =>
    /\ \A u \in User : claimed[u] =>
         claimRow[u] \/ \E t \in Task : UserOf(t) = u /\ At(t, "ok") /\ In(t, "claim")
    /\ \A t \in Task : In(t, "claim") /\ task[t].pc \in PastCooldown => ~claimed[UserOf(t)]

(* The inductive invariants behind ImplementsMutex and the properties below. *)
CronInv ==
  /\ TypeOK /\ HoldersHoldLocks
  /\ RunsIdle /\ SummaryAddsUp /\ RowsBacked /\ CountsBacked /\ ClaimsLogged

(* The cron's tasks and the manual claims are workers of the abstract mutex: *)
(* of two overlapping runs and any claim request, one at a time acts for a   *)
(* user, whatever aborts, crashes or fails between acquire and release.      *)
Mutex == INSTANCE UserMutex WITH
  Worker <- Task \cup Req, busy <- [u \in User |-> Busy(u)]

ImplementsMutex == Mutex!Spec

(* The summary the cron reports accounts for every user of the snapshot     *)
(* exactly once when a phase ends, whatever path each task took: skipped,   *)
(* failed or done (the claim phase counts a claim whose row could not be    *)
(* written both as done and as an error).                                   *)
SummaryAccounts ==
  \A r \in Run : PhaseEnds(r) /\ (run[r].phase = "rebalance" \/ "sql" \notin Fault) =>
    Summed(r) = Cardinality(run[r].users)

(* A 'success' row of a rebalance is backed by a rebalance that took effect, *)
(* across runs, reverts and lost receipts (simulated rows aside).            *)
SuccessRowsReal ==
  ~Simulation => \A u \in User : rows[u] <= moves[u]

(* Lost updates between cron and requests only ever make the operation count *)
(* too low: no operation is refused because of one that was never sent.      *)
CountNeverOverstates == ~Simulation => \A u \in User : ops[u] <= sent[u]

(* No task gets past the revocation check with a key whose DELETE request   *)
(* has already been answered, even if it fetched the key before.            *)
RevocationGate ==
  [][\A t \in Task : At(t, "fetched") /\ task'[t].pc = "checked" =>
       task[t].key \notin acked \ expired]_vars

(* "Rate-limited (once per 24h)" (cron-orchestration-service.ts:409): the    *)
(* cron starts no claim for a user it claimed for less than 24 hours ago.    *)
ClaimOncePerDay ==
  [][\A t \in Task : At(t, "ready") /\ In(t, "claim") /\ task'[t].pc \in {"ok", "failed"} =>
       ~claimed[UserOf(t)]]_vars

(* A run that has started ends, one way or another: no lock, no other run   *)
(* and no request can make it wait for ever.                                *)
RunEnds ==
  \A r \in Run : run[r].phase \in {"rebalance", "claim"} ~>
    run[r].phase = "done" \/ (run[r].aborted /\ Over(r))

(* And no crash, rejected release or abort keeps a user locked out for ever. *)
LockComesFree == \A u \in User : []<>Free(u)

===============================================================================
