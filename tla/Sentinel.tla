------------------------------- MODULE Sentinel -------------------------------
(***************************************************************************)
(* The sentinel: a long-running process that polls one vault, confirms     *)
(* breaches (rules-engine.ts), opens incidents (worker.ts) and redeems the *)
(* positions of the users (exit-orchestrator.ts) under the same per-user   *)
(* lock as the cron.                                                       *)
(*                                                                         *)
(* setInterval starts a poll whether or not the last one is over, so       *)
(* several are under way; each is one step per await.  What a poll reads   *)
(* is a choice: the thresholds and the rolling windows are abstracted to   *)
(* "breach" or "calm" of a signal, a read that fails to "absent".          *)
(***************************************************************************)
EXTENDS Naturals

CONSTANTS
  Poll,        \* polls that may be under way together
  User,        \* users with auto-optimize and a registration
  Cron,        \* a cron task or a manual claim, as holder of a lock
  None,        \* nobody
  Signal,      \* the signals evaluated
  MaxRestart,  \* bound: restarts of the process
  Fault        \* "store", "sql", "receipt", "revert"; "slow": an exit outlives its lock

ASSUME SentinelAssumption ==
  /\ Signal \subseteq {"ORACLE_PRICE", "VAULT_FLOW", "SHARE_PRICE"}
  /\ MaxRestart \in Nat
  /\ Cron \notin Poll /\ None \notin Poll \cup {Cron}

VARIABLES
  pc,          \* pc[p]: where poll p is
  todo,        \* todo[p]: the signals it still has to exit for
  exit,        \* exit[p][u]: where its exit of user u is
  confirm,     \* confirm[t]: the confirmation buffer holds one breach of t
  incident,    \* incident[t]: activeIncidents, "old" past its TTL
  lock,        \* lock[u]: who holds lock:rebalance:<address>
  row,         \* row[u]: a row with action_taken 'exit' of the last hour
  restarts,
  shares,      \* chain: shares[u], u's position in the vault
  mined,       \* history: mined[u], a redeem of u was confirmed
  breached     \* history: breached[t], the last poll read a breach of t

engineVars == <<confirm, breached>>
userVars == <<lock, row, shares, mined>>
vars == <<pc, todo, exit, engineVars, incident, userVars, restarts>>

(* Signals that exit: a price has the underlying as its asset, so its      *)
(* breach always counts as toxic and only alerts.                          *)
Exiting == {"VAULT_FLOW", "SHARE_PRICE"}
Working == {"redeem", "retry", "log", "release"}
ExitPc == {"none", "check", "lock"} \cup Working

TypeOK ==
  /\ pc \in [Poll -> {"idle", "trigger", "users", "exits", "status"}]
  /\ todo \in [Poll -> SUBSET (Signal \cap Exiting)]
  /\ \A p \in Poll : todo[p] = {} <=> pc[p] \in {"idle", "status"}
  /\ exit \in [Poll -> [User -> ExitPc]]
  /\ \A p \in Poll, u \in User : exit[p][u] # "none" => pc[p] = "exits"
  /\ confirm \in [Signal -> BOOLEAN] /\ breached \in [Signal -> BOOLEAN]
  /\ incident \in [Signal -> {"none", "open", "old"}]
  /\ lock \in [User -> Poll \cup {Cron, None}]
  /\ row \in [User -> BOOLEAN] /\ shares \in [User -> BOOLEAN]
  /\ mined \in [User -> BOOLEAN]
  /\ restarts \in 0 .. MaxRestart

Init ==
  /\ pc = [p \in Poll |-> "idle"]
  /\ todo = [p \in Poll |-> {}]
  /\ exit = [p \in Poll |-> [u \in User |-> "none"]]
  /\ confirm = [t \in Signal |-> FALSE] /\ breached = [t \in Signal |-> FALSE]
  /\ incident = [t \in Signal |-> "none"]
  /\ lock = [u \in User |-> None]
  /\ row = [u \in User |-> FALSE] /\ mined = [u \in User |-> FALSE]
  /\ shares = [u \in User |-> TRUE]
  /\ restarts = 0

-------------------------------------------------------------------------------
(* A poll. *)

(* RulesEngine.evaluate skips signals with an incident and missing ones.   *)
Judged(reading) == {t \in Signal : incident[t] = "none" /\ reading[t] # "absent"}

(* confirmConsecutive; only the price rule clears the buffer when calm.    *)
Confirm(reading) ==
  [t \in Signal |->
     IF t \notin Judged(reading) THEN confirm[t]
     ELSE IF reading[t] = "breach" THEN ~confirm[t]
     ELSE t # "ORACLE_PRICE" /\ confirm[t]]

Confirmed(reading) == {t \in Judged(reading) : reading[t] = "breach" /\ confirm[t]}

Evaluate(p) ==
  /\ pc[p] = "idle"
  /\ \E reading \in [Signal -> {"absent", "calm", "breach"}] :
       LET exits == Confirmed(reading) \cap Exiting IN
       /\ confirm' = Confirm(reading)
       /\ breached' = [t \in Signal |-> reading[t] = "breach"]
       /\ todo' = [todo EXCEPT ![p] = exits]
       /\ pc' = [pc EXCEPT ![p] = IF exits = {} THEN "status" ELSE "trigger"]
  /\ UNCHANGED <<exit, incident, userVars, restarts>>

(* The signals of a vault are gathered, and so acted on, flow first. *)
First(T) == IF "VAULT_FLOW" \in T THEN "VAULT_FLOW" ELSE "SHARE_PRICE"

(* The incident is open before its exits are tried. *)
Trigger(p) ==
  /\ pc[p] = "trigger"
  /\ incident' = [incident EXCEPT ![First(todo[p])] = "open"]
  /\ pc' = [pc EXCEPT ![p] = "users"]
  /\ UNCHANGED <<todo, exit, engineVars, userVars, restarts>>

Batch(U) == [u \in User |-> IF U[u] THEN "check" ELSE "none"]

(* A rejected query ends the whole poll: its other exits, its status and   *)
(* its clean-up are dropped with it.  A user whose balance cannot be read  *)
(* is left out.                                                            *)
FindUsers(p) ==
  /\ pc[p] = "users"
  /\ \/ /\ \E U \in [User -> BOOLEAN] :
             /\ \A u \in User : U[u] => shares[u]
             /\ exit' = [exit EXCEPT ![p] = Batch(U)]
        /\ pc' = [pc EXCEPT ![p] = "exits"]
        /\ UNCHANGED todo
     \/ /\ "sql" \in Fault
        /\ pc' = [pc EXCEPT ![p] = "idle"]
        /\ todo' = [todo EXCEPT ![p] = {}]
        /\ UNCHANGED exit
  /\ UNCHANGED <<engineVars, incident, userVars, restarts>>

(* Promise.allSettled is through; the next signal, or the end of the poll. *)
ExitsDone(p) ==
  /\ pc[p] = "exits" /\ \A u \in User : exit[p][u] = "none"
  /\ LET rest == todo[p] \ {First(todo[p])} IN
     /\ todo' = [todo EXCEPT ![p] = rest]
     /\ pc' = [pc EXCEPT ![p] = IF rest = {} THEN "status" ELSE "trigger"]
  /\ UNCHANGED <<exit, engineVars, incident, userVars, restarts>>

(* Faulty variant of CleanUp: incidents are never closed. *)
CleanUpNever == [t \in Signal |-> incident[t]]

(* cleanupStaleIncidents. *)
CleanUp == [t \in Signal |-> IF incident[t] = "old" THEN "none" ELSE incident[t]]

(* After the status rows, which nothing here reads. *)
EndPoll(p) ==
  /\ pc[p] = "status"
  /\ incident' = CleanUp
  /\ pc' = [pc EXCEPT ![p] = "idle"]
  /\ UNCHANGED <<todo, exit, engineVars, userVars, restarts>>

-------------------------------------------------------------------------------
(* One exit of one poll. *)

At(p, u, x) == exit[p][u] = x
Goto(p, u, x) == exit' = [exit EXCEPT ![p][u] = x]
pollVars == <<pc, todo, engineVars, incident, restarts>>

Check(p, u) ==
  /\ At(p, u, "check")
  /\ \/ ~row[u] /\ Goto(p, u, "lock")
     \/ (row[u] \/ "sql" \in Fault) /\ Goto(p, u, "none")
  /\ UNCHANGED <<pollVars, userVars>>

(* Faulty variant of Free: any value passes the SET NX. *)
FreeAnyway(u) == u \in User

Free(u) == lock[u] = None

(* Without Redis an exit goes on without the lock. *)
Lock(p, u) ==
  /\ At(p, u, "lock")
  /\ \/ Free(u) /\ lock' = [lock EXCEPT ![u] = p] /\ Goto(p, u, "redeem")
     \/ ~Free(u) /\ Goto(p, u, "none") /\ UNCHANGED lock
     \/ "store" \in Fault /\ Goto(p, u, "redeem") /\ UNCHANGED lock
  /\ UNCHANGED <<pollVars, row, shares, mined>>

(* Faulty variant of GiveUp: a failed exit is logged like any other. *)
GiveUpLogged(p, u) == Goto(p, u, "log")

GiveUp(p, u) == Goto(p, u, "release")

(* A session that cannot be decrypted ends the exit without a retry. *)
Undecryptable(p, u) ==
  /\ At(p, u, "redeem")
  /\ Goto(p, u, "release")
  /\ UNCHANGED <<pollVars, userVars>>

Redeemed(u) == shares[u] /\ shares' = [shares EXCEPT ![u] = FALSE]

(* executor.redeem: one UserOp, tried again once when it is reported as    *)
(* failed, and reported as a success as soon as a receipt is there.        *)
Redeem(p, u) ==
  /\ At(p, u, "redeem") \/ At(p, u, "retry")
  /\ \/ /\ Redeemed(u) \/ ("revert" \in Fault /\ UNCHANGED shares)
        /\ mined' = [mined EXCEPT ![u] = TRUE]
        /\ Goto(p, u, "log")
     \/ /\ UNCHANGED shares \/ ("receipt" \in Fault /\ Redeemed(u))
        /\ IF At(p, u, "retry") THEN GiveUp(p, u) ELSE Goto(p, u, "retry")
        /\ UNCHANGED mined
  /\ UNCHANGED <<pollVars, lock, row>>

(* logIncident with 'exit' swallows its errors. *)
Log(p, u) ==
  /\ At(p, u, "log")
  /\ row' = [row EXCEPT ![u] = TRUE] \/ ("sql" \in Fault /\ UNCHANGED row)
  /\ Goto(p, u, "release")
  /\ UNCHANGED <<pollVars, lock, shares, mined>>

(* The finally block, for a lock it took; the release checks the owner. *)
Release(p, u) ==
  /\ At(p, u, "release")
  /\ \/ lock' = [lock EXCEPT ![u] = IF @ = p THEN None ELSE @]
     \/ "store" \in Fault /\ UNCHANGED lock
  /\ Goto(p, u, "none")
  /\ UNCHANGED <<pollVars, row, shares, mined>>

-------------------------------------------------------------------------------
(* The process, time, and everybody else. *)

(* The process dies and systemd starts it again with empty maps. *)
Restart ==
  /\ restarts < MaxRestart
  /\ restarts' = restarts + 1
  /\ pc' = [p \in Poll |-> "idle"] /\ todo' = [p \in Poll |-> {}]
  /\ exit' = [p \in Poll |-> [u \in User |-> "none"]]
  /\ confirm' = [t \in Signal |-> FALSE]
  /\ incident' = [t \in Signal |-> "none"]
  /\ UNCHANGED <<breached, userVars>>

Age(t) ==
  /\ incident[t] = "open" /\ incident' = [incident EXCEPT ![t] = "old"]
  /\ UNCHANGED <<pc, todo, exit, engineVars, userVars, restarts>>

(* An hour after the exit, its row no longer counts. *)
Forget(u) ==
  /\ row[u] /\ row' = [row EXCEPT ![u] = FALSE] /\ mined' = [mined EXCEPT ![u] = FALSE]
  /\ \A p \in Poll : exit[p][u] # "log"
  /\ UNCHANGED <<pollVars, exit, lock, shares>>

Busy(u) == {p \in Poll : exit[p][u] \in Working}

Lapse(u) ==
  /\ lock[u] \in Poll
  /\ lock[u] \notin Busy(u) \/ "slow" \in Fault
  /\ lock' = [lock EXCEPT ![u] = None]
  /\ UNCHANGED <<pollVars, exit, row, shares, mined>>

CronTakes(u) ==
  /\ Free(u) /\ lock' = [lock EXCEPT ![u] = Cron]
  /\ UNCHANGED <<pollVars, exit, row, shares, mined>>

CronReturns(u) ==
  /\ lock[u] = Cron /\ lock' = [lock EXCEPT ![u] = None]
  /\ UNCHANGED <<pollVars, exit, row, shares, mined>>

(* The cron moves the position, and so may the user, without any lock. *)
Move(u) ==
  /\ shares' = [shares EXCEPT ![u] = ~@]
  /\ UNCHANGED <<pollVars, exit, lock, row, mined>>

ExitStep(p, u) ==
  \/ Check(p, u) \/ Lock(p, u) \/ Undecryptable(p, u) \/ Redeem(p, u)
  \/ Log(p, u) \/ Release(p, u)

PollStep(p) ==
  \/ Evaluate(p) \/ Trigger(p) \/ FindUsers(p) \/ ExitsDone(p) \/ EndPoll(p)

Next ==
  \/ \E p \in Poll : PollStep(p) \/ \E u \in User : ExitStep(p, u)
  \/ Restart
  \/ \E t \in Signal : Age(t)
  \/ \E u \in User : Forget(u) \/ Lapse(u) \/ CronTakes(u) \/ CronReturns(u) \/ Move(u)

Spec == Init /\ [][Next]_vars

(* Promises settle, setInterval goes on firing, and time passes. *)
Fairness ==
  /\ \A p \in Poll : WF_vars(PollStep(p))
  /\ \A p \in Poll, u \in User : WF_vars(ExitStep(p, u))
  /\ \A t \in Signal : WF_vars(Age(t))

FairSpec == Spec /\ Fairness

-------------------------------------------------------------------------------
(* Unless Redis rejects the lock or an exit outlives it, whoever redeems a *)
(* user holds the user's lock.                                             *)
ExitHoldsLock ==
  {"store", "slow"} \cap Fault = {} =>
    \A p \in Poll, u \in User : exit[p][u] \in Working => lock[u] = p

(* The inductive invariant behind ExitsExclude. *)
SentinelInv == TypeOK /\ ExitHoldsLock

(* Overlapping polls decide the same exits again (the actions of a poll    *)
(* are evaluated before the incidents of the others open), and the cron    *)
(* works on the same users; all the same one of them at a time acts for a  *)
(* user.                                                                   *)
Acting(u) == {<<w, u>> : w \in Busy(u) \cup (IF lock[u] = Cron THEN {Cron} ELSE {})}
Mutex == INSTANCE UserMutex WITH
  User <- User, Worker <- (Poll \cup {Cron}) \X User, busy <- [u \in User |-> Acting(u)]
ExitsExclude == Mutex!Spec

(* A row that keeps a user from being exited for an hour is there because  *)
(* a redeem of the user was mined, whatever failed around it.              *)
ExitRowsMined == \A u \in User : row[u] => mined[u]

(* An incident whose exits failed, were skipped or never started silences  *)
(* its signal only until its TTL: while a breach lasts, exits are started  *)
(* again and again.                                                        *)
Executing == \E p \in Poll : pc[p] = "users"
BreachAnswered ==
  \A t \in Signal \cap Exiting :
    <>[](breached[t]) => []<>Executing

(* "Consecutive-poll confirmation" (rules-engine.ts:5): an exit is decided *)
(* only by a poll that follows one that read a breach too.                 *)
ConfirmedInARow ==
  [][\A p \in Poll : pc[p] = "idle" /\ pc'[p] = "trigger" =>
       \A t \in todo'[p] : breached[t]]_vars

===============================================================================
