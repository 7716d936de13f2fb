---------------------------- MODULE MCAgentProgress ----------------------------
(***************************************************************************)
(* What must come to an end in the agent and its dashboard, in four parts   *)
(* that no variable joins, checked side by side for TLC: overlapping runs   *)
(* of the cron, the Redis lock under callers that outlive their key, the    *)
(* choice of a vault, and the dialog of deposits and exits.  `part` says    *)
(* which of them a behaviour runs; the variables of the others keep their   *)
(* initial values, or have none.                                            *)
(***************************************************************************)
EXTENDS AgentCron, TLC

CONSTANTS m1, y1, usdc, cron, claim, exit, LockId, c1, c2

VARIABLES
  part,       \* the variables of the parts are explained in their modules
  stored, left, pc, user, id, since,
  apy, funds, listed, paused, feed, steady, pausedFor, arrived, list, held, pause,
  job, hidden, changes, faults,
  open, initialYield, step, activeTab, selectedYield, shut, amount, card, call,
  shares, seen, closed, agent, status, unheard

Worker == {cron, claim, exit}
LockTtl == (cron :> 5) @@ (claim :> 5) @@ (exit :> 2)
Late == INSTANCE UserLock WITH held <- since, Ttl <- LockTtl, MaxHold <- 5, Store <- "redis"

Market(a, b) == (m1 :> a) @@ (y1 :> b)
Healthy == [answered |-> TRUE, up |-> TRUE, upFor |-> 1, age |-> 24, off |-> 0]
Choice == INSTANCE YieldDecision WITH
  Morpho <- {m1}, Yo <- {y1}, Asset <- {usdc}, Usdc <- usdc, Underlying <- (y1 :> usdc),
  Markets <- {Market(30, 40), Market(34, 30)}, Deep <- {m1, y1}, Feeds <- {Healthy},
  Units <- 1, PosTtl <- 1, PauseTtl <- 1, ListTtl <- 2, MaxCall <- 1,
  MaxChanges <- 1, MaxFaults <- 1, pos <- funds

(* The dialog over one vault and two requests at once. *)
Modal == INSTANCE EarnModal WITH
  Vault <- {m1}, Call <- {c1, c2}, MaxShares <- 1, held <- shares, paused <- closed

lockVars == <<stored, left, pc, user, id, since>>
choiceVars == <<apy, funds, listed, paused, feed, steady, pausedFor, arrived, list, held,
                pause, job, hidden, changes, faults>>
modalVars == <<open, initialYield, step, activeTab, selectedYield, shut, amount, card, call,
               shares, seen, closed, agent, status, unheard>>

NoChoice ==
  /\ apy = None /\ funds = None /\ listed = None /\ paused = None /\ feed = None
  /\ steady = None /\ pausedFor = None /\ arrived = None /\ list = None /\ held = None
  /\ pause = None /\ job = None /\ hidden = None /\ changes = None /\ faults = None

PartsInit ==
  /\ part \in {"cron", "lock", "choice", "modal"}
  /\ Init /\ Late!Init /\ Modal!Init
  /\ IF part = "choice" THEN Choice!Init ELSE NoChoice
  /\ part # "cron" => issued = {}
  /\ part # "modal" => shares[m1] = 0 /\ closed = {} /\ agent = "on"

(* The choice without the dashboard, whose requests change nothing but caches. *)
Alone(A) ==
  A /\ \A u \in User : job'[u]["page"].pc = "idle" /\ hidden'[u] = FALSE

PartsNext ==
  \/ part = "cron" /\ Next /\ UNCHANGED <<part, lockVars, choiceVars, modalVars>>
  \/ part = "lock" /\ Late!Next /\ UNCHANGED <<part, vars, choiceVars, modalVars>>
  \/ part = "choice" /\ Alone(Choice!Next) /\ UNCHANGED <<part, vars, lockVars, modalVars>>
  \/ part = "modal" /\ Modal!Next /\ UNCHANGED <<part, vars, lockVars, choiceVars>>

(* The fairness of the parts, each where it runs. *)
Running(A) == part = "cron" /\ A
Locking(A) == part = "lock" /\ A
Choosing(A) == part = "choice" /\ Alone(A)
Asking(A) == part = "modal" /\ A
PartsSpec ==
  /\ PartsInit /\ [][PartsNext]_<<part, vars, lockVars, choiceVars, modalVars>>
  /\ \A t \in Task : WF_vars(Running(TaskStep(t)))
  /\ \A r \in Run : WF_vars(Running(RunStep(r)))
  /\ \A u \in User : WF_vars(Running(Lapse(u)))
  /\ WF_lockVars(Locking(Late!Tick)) /\ \A w \in Worker : WF_lockVars(Locking(Late!Release(w)))
  /\ WF_choiceVars(Choosing(Choice!Tick))
  /\ \A u \in User : /\ WF_choiceVars(Choosing(Choice!Prefetch(u, "cron")))
                     /\ WF_choiceVars(Choosing(Choice!Goes(u, "cron")))
                     /\ WF_choiceVars(Choosing(Choice!Execute(u)))
  /\ \A c \in {c1, c2} : WF_modalVars(Asking(Modal!Answer(c)))

(* On Redis a caller deletes no key but its own, however late it is: the      *)
(* compare and the delete of releaseUserLock are one script.                  *)
OwnerOnlyRelease == Late!OwnerOnlyRelease

(* A user's key always goes again, also behind callers that died or outlived  *)
(* it.                                                                        *)
KeyComesFree == Late!LockComesFree

(* Funds come to rest where no open vault gains the threshold, once nothing   *)
(* fails or changes any more.                                                 *)
Settles == \A u \in User : <>[](part = "choice" => Choice!Rests(u))

(* What the dialog shows as running comes to an end, and a position's card    *)
(* says so exactly while a redeem will report to it.                          *)
SpinnersEnd == Modal!SpinnersEnd
===============================================================================
