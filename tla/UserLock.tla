------------------------------- MODULE UserLock -------------------------------
(***************************************************************************)
(* The per-user lock of lib/redis/distributed-lock.ts, on the two stores   *)
(* of lib/redis/client.ts.                                                 *)
(*                                                                         *)
(* A worker is one call that brackets its work with acquireUserLock and    *)
(* releaseUserLock: a user task of the cron, a reward-claim request, an    *)
(* exit of the sentinel.  The key lock:rebalance:<address> holds the       *)
(* random lockId of the worker that set it and expires Ttl seconds after.  *)
(* Time is discrete: Tick ages every key and every worker that is inside   *)
(* its bracket.                                                            *)
(***************************************************************************)
EXTENDS Wallets, Naturals

CONSTANTS
  Worker,     \* concurrent callers
  LockId,     \* values of randomUUID()
  Ttl,        \* Ttl[w]: ttlSeconds worker w passes (300 cron, 120 sentinel)
  MaxHold,    \* no worker stays inside its bracket for longer than this
  Store       \* "redis", or "memory": the fallback without REDIS_URL

ASSUME NoneAssumption == None \notin LockId \cup User
ASSUME TtlAssumption == Ttl \in [Worker -> Nat \ {0}]
ASSUME MaxHoldAssumption == MaxHold \in Nat
ASSUME StoreAssumption == Store \in {"redis", "memory"}

VARIABLES
  stored,     \* stored[u]: value of user u's key, None once deleted or expired
  left,       \* left[u]: seconds before that key expires
  pc,         \* pc[w]: "idle", "holding", or "deleting" (between get and del)
  user,       \* user[w]: the user whose lock worker w acquired
  id,         \* id[w]: the lockId worker w keeps for the release
  held        \* held[w]: seconds since it acquired

keyVars == <<stored, left>>
workerVars == <<pc, user, id, held>>
vars == <<stored, left, pc, user, id, held>>

TypeOK ==
  /\ stored \in [User -> LockId \cup {None}]
  /\ left \in [User -> Nat]
  /\ pc \in [Worker -> {"idle", "holding", "deleting"}]
  /\ user \in [Worker -> User \cup {None}]
  /\ id \in [Worker -> LockId \cup {None}]
  /\ held \in [Worker -> 0 .. MaxHold]

Init ==
  /\ stored = [u \in User |-> None]
  /\ left = [u \in User |-> 0]
  /\ pc = [w \in Worker |-> "idle"]
  /\ user = [w \in Worker |-> None]
  /\ id = [w \in Worker |-> None]
  /\ held = [w \in Worker |-> 0]

Busy(w) == pc[w] # "idle"

(* A lockId nobody stores or remembers: UUIDs do not collide. *)
Fresh(i) ==
  /\ \A u \in User : stored[u] # i
  /\ \A w \in Worker : id[w] # i

(* Faulty variant of NotSet: a plain SET, without NX. *)
AlwaysSettable(u) == u \in User

(* The NX of SET key id NX EX ttl. *)
NotSet(u) == stored[u] = None

(* When the key exists the caller gets {acquired: false} and nothing *)
(* changes, which is no step of this module.                         *)
Acquire(w, u) ==
  /\ pc[w] = "idle"
  /\ NotSet(u)
  /\ \E i \in LockId :
       /\ Fresh(i)
       /\ stored' = [stored EXCEPT ![u] = i]
       /\ id' = [id EXCEPT ![w] = i]
  /\ left' = [left EXCEPT ![u] = Ttl[w]]
  /\ pc' = [pc EXCEPT ![w] = "holding"]
  /\ user' = [user EXCEPT ![w] = u]
  /\ held' = [held EXCEPT ![w] = 0]

Leave(w) ==
  /\ pc' = [pc EXCEPT ![w] = "idle"]
  /\ user' = [user EXCEPT ![w] = None]
  /\ id' = [id EXCEPT ![w] = None]
  /\ held' = [held EXCEPT ![w] = 0]

DeleteKey(u) ==
  /\ stored' = [stored EXCEPT ![u] = None]
  /\ left' = [left EXCEPT ![u] = 0]

(* Faulty variant of Owns: release without comparing the lockId. *)
OwnsAnyway(w) == w \in Worker

Owns(w) == stored[user[w]] = id[w]

(* The Lua script: compare and delete in one step. *)
EvalRelease(w) ==
  /\ Store = "redis"
  /\ pc[w] = "holding"
  /\ IF Owns(w) THEN DeleteKey(user[w]) ELSE UNCHANGED keyVars
  /\ Leave(w)

(* The in-memory store has no eval: a get, and in a later microtask a del. *)
MemoryGet(w) ==
  /\ Store = "memory"
  /\ pc[w] = "holding"
  /\ IF Owns(w)
       THEN /\ pc' = [pc EXCEPT ![w] = "deleting"]
            /\ UNCHANGED <<user, id, held>>
       ELSE Leave(w)
  /\ UNCHANGED keyVars

(* Faulty variant of MemoryDel: the key is deleted with the get, and the *)
(* worker only leaves afterwards.                                        *)
MemoryDelEarly(w) ==
  /\ Busy(w)
  /\ DeleteKey(user[w])
  /\ pc' = [pc EXCEPT ![w] = "deleting"]
  /\ UNCHANGED <<user, id, held>>

MemoryDel(w) ==
  /\ pc[w] = "deleting"
  /\ DeleteKey(user[w])
  /\ Leave(w)

Release(w) == EvalRelease(w) \/ MemoryGet(w) \/ MemoryDel(w)

(* On Redis the callers are processes of their own: one dies inside its *)
(* bracket, or its release rejects, and the key stays until it expires. *)
Abandon(w) ==
  /\ Store = "redis"
  /\ Busy(w)
  /\ Leave(w)
  /\ UNCHANGED keyVars

(* The in-memory store and all its callers are one process. *)
Restart ==
  /\ Store = "memory"
  /\ stored' = [u \in User |-> None]
  /\ left' = [u \in User |-> 0]
  /\ pc' = [w \in Worker |-> "idle"]
  /\ user' = [w \in Worker |-> None]
  /\ id' = [w \in Worker |-> None]
  /\ held' = [w \in Worker |-> 0]

(* Faulty variant of AfterSecond: a SET without EX. *)
AfterSecondForever(u) == stored[u]

(* The value of u's key one second later. *)
AfterSecond(u) == IF left[u] <= 1 THEN None ELSE stored[u]

Tick ==
  /\ \A w \in Worker : Busy(w) => held[w] < MaxHold
  /\ held' = [w \in Worker |-> IF Busy(w) THEN held[w] + 1 ELSE held[w]]
  /\ left' = [u \in User |-> IF left[u] = 0 THEN 0 ELSE left[u] - 1]
  /\ stored' = [u \in User |-> AfterSecond(u)]
  /\ UNCHANGED <<pc, user, id>>

Next ==
  \/ Tick
  \/ Restart
  \/ \E w \in Worker : EvalRelease(w) \/ MemoryGet(w) \/ MemoryDel(w) \/ Abandon(w)
  \/ \E w \in Worker, u \in User : Acquire(w, u)

Spec == Init /\ [][Next]_vars

(* Time passes, and a worker that is still alive reaches its release. *)
FairSpec == Spec /\ WF_vars(Tick) /\ \A w \in Worker : WF_vars(Release(w))

------------------------------------------------------------------------------
(* Every worker is done before its key expires.  Nothing in the code makes *)
(* this true: neither the cron nor the sentinel bounds or renews a lock.   *)
WorkFitsTtl == \A w \in Worker : MaxHold < Ttl[w]

(* "Prevents concurrent processing of the same user" (distributed-lock.ts:4): *)
(* two workers inside their brackets never act for the same user.             *)
MutualExclusion ==
  \A w1, w2 \in Worker :
    Busy(w1) /\ Busy(w2) /\ user[w1] = user[w2] => w1 = w2

(* A key exists exactly as long as it has time left: every key is written *)
(* with an expiry, so none outlives a dead worker.                         *)
KeyHasExpiry == \A u \in User : stored[u] # None <=> left[u] > 0

(* What a worker remembers, and that lockIds tell workers apart. *)
WorkersDistinct ==
  /\ \A w \in Worker : Busy(w) <=> id[w] # None
  /\ \A w \in Worker : Busy(w) <=> user[w] # None
  /\ \A w1, w2 \in Worker : Busy(w1) /\ Busy(w2) /\ id[w1] = id[w2] => w1 = w2

(* A busy worker's key is still there, under the worker's own lockId, with *)
(* exactly the time the worker has not used.                               *)
KeyBacksWorker ==
  \A w \in Worker : Busy(w) =>
    /\ stored[user[w]] = id[w]
    /\ left[user[w]] + held[w] = Ttl[w]

(* The inductive invariant behind MutualExclusion: while work fits its TTL, *)
(* the key in the store is the one of the only worker busy with the user.   *)
LockInv == TypeOK /\ KeyHasExpiry /\ WorkersDistinct /\ KeyBacksWorker

(* "Only releases if the lockId matches (prevents releasing another        *)
(* process's lock)" (distributed-lock.ts:63): a key disappears only when   *)
(* its time is up or when the worker whose lockId it holds releases it.    *)
OwnerOnlyRelease ==
  [][\A u \in User :
       stored[u] # None /\ stored'[u] # stored[u] =>
         \/ left[u] = 1 /\ stored'[u] = None
         \/ \E w \in Worker : Busy(w) /\ id[w] = stored[u] /\ pc'[w] = "idle"]_vars

(* "Lock auto-expires after ttlSeconds to prevent deadlocks": whatever dies *)
(* while holding it, each user's lock is free again and again.              *)
LockComesFree == \A u \in User : []<>(stored[u] = None)

(* The abstract promise: the busy workers of each user. *)
BusyWith == [u \in User |-> {w \in Worker : Busy(w) /\ user[w] = u}]

Mutex == INSTANCE UserMutex WITH busy <- BusyWith

(* The lock implements the mutex its callers count on: a worker enters   *)
(* only when nobody acts for the user (distributed-lock.ts:17-30).       *)
ImplementsMutex == Mutex!Spec

===============================================================================
