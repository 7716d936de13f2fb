---------------------------- MODULE UserLockProofs ----------------------------
EXTENDS UserLock, TLAPS

(* Initially every key is absent and every caller idle. *)
LEMMA TypeInit == Init => TypeOK
  BY NoneAssumption, MaxHoldAssumption DEF Init, TypeOK

(* Every step of a caller, of the store or of the clock keeps the shapes. *)
LEMMA TypeNext == TypeOK /\ [Next]_vars => TypeOK'
  <1> SUFFICES ASSUME TypeOK, [Next]_vars PROVE TypeOK'
    OBVIOUS
  <1> USE NoneAssumption, TtlAssumption, MaxHoldAssumption DEF TypeOK
  <1>1. CASE Tick
    BY <1>1 DEF Tick, AfterSecond, Busy
  <1>2. CASE Restart
    BY <1>2 DEF Restart
  <1>3. ASSUME NEW w \in Worker, EvalRelease(w) PROVE TypeOK'
    BY <1>3 DEF EvalRelease, DeleteKey, Leave, keyVars
  <1>4. ASSUME NEW w \in Worker, MemoryGet(w) PROVE TypeOK'
    BY <1>4 DEF MemoryGet, Leave, keyVars
  <1>5. ASSUME NEW w \in Worker, MemoryDel(w) PROVE TypeOK'
    <2>1. stored' = [stored EXCEPT ![user[w]] = None] /\ left' = [left EXCEPT ![user[w]] = 0]
      BY <1>5 DEF MemoryDel, DeleteKey
    <2>2. stored' \in [User -> LockId \cup {None}] /\ left' \in [User -> Nat]
      BY <2>1
    <2>3. QED
      BY <1>5, <2>2 DEF MemoryDel, Leave
  <1>6. ASSUME NEW w \in Worker, Abandon(w) PROVE TypeOK'
    BY <1>6 DEF Abandon, Leave, keyVars
  <1>7. ASSUME NEW w \in Worker, NEW u \in User, Acquire(w, u) PROVE TypeOK'
    BY <1>7 DEF Acquire
  <1>8. CASE UNCHANGED vars
    BY <1>8 DEF vars
  <1>9. QED
    BY <1>1, <1>2, <1>3, <1>4, <1>5, <1>6, <1>7, <1>8 DEF Next

(* Every reachable state has its declared shape: typeof the key, of its    *)
(* remaining life and of what each caller remembers of its bracket         *)
(* (distributed-lock.ts:31-91), for every set of users, callers and TTLs.  *)
THEOREM TypeCorrect == Spec => []TypeOK
  BY TypeInit, TypeNext, PTL DEF Spec

-------------------------------------------------------------------------------
(* With no key and no caller the strengthened invariant is vacuous. *)
LEMMA LockInvInit == Init => LockInv
  BY TypeInit, NoneAssumption DEF Init, LockInv, KeyHasExpiry, WorkersDistinct, KeyBacksWorker, Busy

(* Two workers busy with one user would be backed by one key. *)
LEMMA LockInvMutex == LockInv => MutualExclusion
  BY DEF LockInv, WorkersDistinct, KeyBacksWorker, MutualExclusion

(* A worker that leaves, with its key deleted, disturbs no other worker. *)
LEMMA LeaveKeepsInv ==
  ASSUME LockInv, TypeOK', NEW w \in Worker, Busy(w), Leave(w), DeleteKey(user[w])
  PROVE  LockInv'
  <1> DEFINE u == user[w]
  <1>1. u \in User /\ u # None
    BY NoneAssumption DEF LockInv, WorkersDistinct, TypeOK
  <1>2. \A x \in Worker : Busy(x)' <=> Busy(x) /\ x # w
    BY DEF Leave, Busy, LockInv, TypeOK
  <1>3. \A x \in Worker \ {w} : id'[x] = id[x] /\ user'[x] = user[x] /\ held'[x] = held[x]
    BY DEF Leave, LockInv, TypeOK
  <1>4. id'[w] = None /\ user'[w] = None
    BY DEF Leave, LockInv, TypeOK
  <1>5. \A v \in User : /\ stored'[v] = IF v = u THEN None ELSE stored[v]
                        /\ left'[v] = IF v = u THEN 0 ELSE left[v]
    BY DEF DeleteKey, LockInv, TypeOK
  <1>6. KeyHasExpiry'
    BY <1>5 DEF KeyHasExpiry, LockInv
  <1>7. WorkersDistinct'
    BY <1>2, <1>3, <1>4 DEF WorkersDistinct, LockInv
  <1>8. ASSUME NEW x \in Worker, Busy(x)'
        PROVE  stored'[user'[x]] = id'[x] /\ left'[user'[x]] + held'[x] = Ttl[x]
    <2>1. Busy(x) /\ x # w
      BY <1>2, <1>8
    <2>2. user[x] # u /\ user[x] \in User
      BY <2>1, LockInvMutex, NoneAssumption DEF MutualExclusion, LockInv, WorkersDistinct, TypeOK
    <2>3. QED
      BY <2>1, <2>2, <1>3, <1>5 DEF LockInv, KeyBacksWorker
  <1>9. QED
    BY <1>6, <1>7, <1>8 DEF LockInv, KeyBacksWorker

(* While work fits the TTL, a busy worker is backed by its own unexpired  *)
(* key, and every step keeps it so.                                        *)
LEMMA LockInvNext == WorkFitsTtl /\ LockInv /\ [Next]_vars => LockInv'
  <1> SUFFICES ASSUME WorkFitsTtl, LockInv, [Next]_vars PROVE LockInv'
    OBVIOUS
  <1>t. TypeOK /\ TypeOK'
    BY TypeNext DEF LockInv
  <1>1. CASE Tick
    <2>1. \A w \in Worker : Busy(w)' <=> Busy(w)
      BY <1>1 DEF Tick, Busy
    <2>2. WorkersDistinct'
      BY <1>1, <2>1 DEF Tick, WorkersDistinct, LockInv
    <2>3. KeyHasExpiry'
      BY <1>1, <1>t DEF Tick, AfterSecond, KeyHasExpiry, LockInv, TypeOK
    <2>4. ASSUME NEW w \in Worker, Busy(w)'
          PROVE  stored'[user'[w]] = id'[w] /\ left'[user'[w]] + held'[w] = Ttl[w]
      <3>1. Busy(w) /\ held[w] < MaxHold /\ held'[w] = held[w] + 1
        BY <2>1, <2>4, <1>1 DEF Tick
      <3>2. user[w] \in User /\ user'[w] = user[w] /\ id'[w] = id[w]
        BY <3>1, <1>1, <1>t DEF Tick, WorkersDistinct, LockInv, TypeOK
      <3>3. left[user[w]] > 1 /\ stored[user[w]] = id[w] /\ left[user[w]] + held[w] = Ttl[w]
        BY <3>1, <3>2, <1>t, MaxHoldAssumption, TtlAssumption
           DEF WorkFitsTtl, KeyBacksWorker, LockInv, TypeOK
      <3>4. stored'[user[w]] = stored[user[w]] /\ left'[user[w]] = left[user[w]] - 1
        BY <3>2, <3>3, <1>1, <1>t DEF Tick, AfterSecond, TypeOK
      <3>5. QED
        BY <3>1, <3>2, <3>3, <3>4, <1>t, TtlAssumption DEF TypeOK
    <2>5. QED
      BY <1>t, <2>2, <2>3, <2>4 DEF LockInv, KeyBacksWorker
  <1>2. CASE Restart
    BY <1>t, <1>2 DEF Restart, LockInv, KeyHasExpiry, WorkersDistinct, KeyBacksWorker, Busy
  <1>3. ASSUME NEW w \in Worker, EvalRelease(w) PROVE LockInv'
    <2>1. Busy(w) /\ Owns(w)
      BY <1>3 DEF EvalRelease, Busy, Owns, LockInv, KeyBacksWorker
    <2>2. DeleteKey(user[w]) /\ Leave(w)
      BY <2>1, <1>3 DEF EvalRelease
    <2>3. QED
      BY <1>t, <2>1, <2>2, LeaveKeepsInv
  <1>4. ASSUME NEW w \in Worker, MemoryGet(w) PROVE LockInv'
    <2>1. Busy(w) /\ Owns(w)
      BY <1>4 DEF MemoryGet, Busy, Owns, LockInv, KeyBacksWorker
    <2>2. UNCHANGED <<stored, left, user, id, held>> /\ pc' = [pc EXCEPT ![w] = "deleting"]
      BY <2>1, <1>4 DEF MemoryGet, keyVars
    <2>3. \A x \in Worker : Busy(x)' <=> Busy(x)
      BY <2>1, <2>2, <1>t DEF Busy, TypeOK
    <2>4. QED
      BY <1>t, <2>2, <2>3 DEF LockInv, KeyHasExpiry, WorkersDistinct, KeyBacksWorker
  <1>5. ASSUME NEW w \in Worker, MemoryDel(w) PROVE LockInv'
    <2>1. Busy(w) /\ DeleteKey(user[w]) /\ Leave(w)
      BY <1>5 DEF MemoryDel, Busy
    <2>2. QED
      BY <1>t, <2>1, LeaveKeepsInv
  <1>6. ASSUME NEW w \in Worker, Abandon(w) PROVE LockInv'
    <2>1. UNCHANGED <<stored, left>> /\ Leave(w)
      BY <1>6 DEF Abandon, keyVars
    <2>2. \A x \in Worker : Busy(x)' <=> Busy(x) /\ x # w
      BY <2>1, <1>t DEF Leave, Busy, TypeOK
    <2>3. \A x \in Worker \ {w} : id'[x] = id[x] /\ user'[x] = user[x] /\ held'[x] = held[x]
      BY <2>1, <1>t DEF Leave, TypeOK
    <2>4. id'[w] = None /\ user'[w] = None
      BY <2>1, <1>t DEF Leave, TypeOK
    <2>5. QED
      BY <1>t, <2>1, <2>2, <2>3, <2>4
         DEF LockInv, KeyHasExpiry, WorkersDistinct, KeyBacksWorker
  <1>7. ASSUME NEW w \in Worker, NEW u \in User, Acquire(w, u) PROVE LockInv'
    <2>1. PICK i \in LockId : /\ Fresh(i)
                             /\ stored' = [stored EXCEPT ![u] = i]
                             /\ id' = [id EXCEPT ![w] = i]
      BY <1>7 DEF Acquire
    <2>2. /\ ~Busy(w) /\ stored[u] = None
          /\ left' = [left EXCEPT ![u] = Ttl[w]]
          /\ pc' = [pc EXCEPT ![w] = "holding"]
          /\ user' = [user EXCEPT ![w] = u]
          /\ held' = [held EXCEPT ![w] = 0]
      BY <1>7 DEF Acquire, NotSet, Busy
    <2>3. i # None /\ u # None /\ Ttl[w] \in Nat /\ Ttl[w] > 0
      BY NoneAssumption, TtlAssumption
    <2>4. \A x \in Worker : Busy(x)' <=> Busy(x) \/ x = w
      BY <2>2, <1>t DEF Busy, TypeOK
    <2>5. \A x \in Worker \ {w} : id'[x] = id[x] /\ user'[x] = user[x] /\ held'[x] = held[x]
      BY <2>1, <2>2, <1>t DEF TypeOK
    <2>6. id'[w] = i /\ user'[w] = u /\ held'[w] = 0
      BY <2>1, <2>2, <1>t DEF TypeOK
    <2>7. KeyHasExpiry'
      BY <2>1, <2>2, <2>3, <1>t DEF KeyHasExpiry, LockInv, TypeOK
    <2>8. WorkersDistinct'
      BY <2>1, <2>3, <2>4, <2>5, <2>6 DEF Fresh, WorkersDistinct, LockInv
    <2>9. ASSUME NEW x \in Worker, Busy(x)'
          PROVE  stored'[user'[x]] = id'[x] /\ left'[user'[x]] + held'[x] = Ttl[x]
      <3>1. CASE x = w
        BY <3>1, <2>1, <2>2, <2>3, <2>6, <1>t DEF TypeOK
      <3>2. CASE x # w
        <4>1. Busy(x)
          BY <2>4, <2>9, <3>2
        <4>2. user[x] \in User /\ user[x] # u
          BY <4>1, <2>2, <1>t DEF LockInv, WorkersDistinct, KeyBacksWorker, TypeOK
        <4>3. QED
          BY <4>1, <4>2, <3>2, <2>1, <2>2, <2>5, <1>t DEF LockInv, KeyBacksWorker, TypeOK
      <3>3. QED
        BY <3>1, <3>2
    <2>10. QED
      BY <1>t, <2>7, <2>8, <2>9 DEF LockInv, KeyBacksWorker
  <1>8. CASE UNCHANGED vars
    BY <1>8 DEF vars, LockInv, TypeOK, KeyHasExpiry, WorkersDistinct, KeyBacksWorker, Busy
  <1>9. QED
    BY <1>1, <1>2, <1>3, <1>4, <1>5, <1>6, <1>7, <1>8 DEF Next

(* While every caller is done before its key expires, the lock keeps two   *)
(* callers from processing one user at a time (distributed-lock.ts:4), on  *)
(* either store, with callers that die and restarts.                       *)
THEOREM LockMutualExclusion == WorkFitsTtl => (Spec => []MutualExclusion)
  <1> SUFFICES ASSUME WorkFitsTtl PROVE Spec => []MutualExclusion
    OBVIOUS
  <1>1. LockInv /\ [Next]_vars => LockInv'
    BY LockInvNext
  <1>2. QED
    BY LockInvInit, LockInvMutex, <1>1, PTL DEF Spec

-------------------------------------------------------------------------------
(* Every step of the lock is a step of the abstract mutex, or a stutter. *)
LEMMA MutexStep == WorkFitsTtl /\ LockInv /\ [Next]_vars => [Mutex!Next]_BusyWith
  <1> SUFFICES ASSUME WorkFitsTtl, LockInv, [Next]_vars PROVE [Mutex!Next]_BusyWith
    OBVIOUS
  <1>t. TypeOK /\ LockInv'
    BY LockInvNext DEF LockInv
  <1>1. ASSUME NEW w \in Worker, NEW u \in User, Acquire(w, u)
        PROVE  Mutex!Enter(w, u)
    <2>1. ~Busy(w) /\ stored[u] = None
      BY <1>1 DEF Acquire, NotSet, Busy
    <2>2. \A x \in Worker : /\ Busy(x)' <=> Busy(x) \/ x = w
                           /\ user'[x] = IF x = w THEN u ELSE user[x]
      BY <1>1, <1>t DEF Acquire, Busy, TypeOK
    <2>3. \A x \in Worker : ~(Busy(x) /\ user[x] = u)
      BY <2>1, NoneAssumption DEF LockInv, WorkersDistinct, KeyBacksWorker, TypeOK
    <2>4. BusyWith[u] = {}
      BY <2>3 DEF BusyWith
    <2>5. \A v \in User : w \notin BusyWith[v]
      BY <2>1 DEF BusyWith
    <2>6. BusyWith' = [BusyWith EXCEPT ![u] = {w}]
      BY <2>1, <2>2, <2>3 DEF BusyWith
    <2>7. QED
      BY <2>4, <2>5, <2>6 DEF Mutex!Enter
  <1>2. ASSUME \A x \in Worker : Busy(x)' => Busy(x) /\ user'[x] = user[x]
        PROVE  Mutex!Next
    <2> DEFINE W == {x \in Worker : Busy(x) /\ ~Busy(x)'}
    <2>1. BusyWith' = [u \in User |-> BusyWith[u] \ W]
      BY <1>2 DEF BusyWith
    <2>2. Mutex!Leave(W)
      BY <2>1 DEF Mutex!Leave
    <2>3. W \in SUBSET Worker
      OBVIOUS
    <2>4. QED
      BY <2>2, <2>3 DEF Mutex!Next
  <1>3. CASE Tick \/ UNCHANGED vars
    BY <1>3 DEF Tick, vars, BusyWith, Busy
  <1>4. CASE Restart
    BY <1>2, <1>4 DEF Restart, Busy
  <1>5. ASSUME NEW w \in Worker, EvalRelease(w) \/ MemoryDel(w) \/ Abandon(w) \/ MemoryGet(w)
        PROVE  Mutex!Next
    <2>1. \/ Leave(w)
          \/ pc[w] = "holding" /\ pc' = [pc EXCEPT ![w] = "deleting"] /\ user' = user
      BY <1>5 DEF EvalRelease, MemoryDel, Abandon, MemoryGet
    <2>2. \A x \in Worker : Busy(x)' => Busy(x) /\ user'[x] = user[x]
      BY <2>1, <1>t DEF Leave, Busy, TypeOK
    <2>3. QED
      BY <1>2, <2>2
  <1>6. QED
    BY <1>1, <1>3, <1>4, <1>5 DEF Next, Mutex!Next

(* The lock, with its keys, lockIds, expiries, deaths and restarts,        *)
(* implements the abstract per-user mutex while work fits its TTL.         *)
THEOREM LockRefinesMutex == WorkFitsTtl => (Spec => ImplementsMutex)
  <1> SUFFICES ASSUME WorkFitsTtl PROVE Spec => Mutex!Spec
    BY DEF ImplementsMutex
  <1>1. Init => Mutex!Init
    BY DEF Init, Mutex!Init, BusyWith, Busy
  <1>2. LockInv /\ [Next]_vars => LockInv' /\ [Mutex!Next]_BusyWith
    BY LockInvNext, MutexStep
  <1>3. QED
    BY LockInvInit, <1>1, <1>2, PTL DEF Spec, Mutex!Spec

-------------------------------------------------------------------------------
(* What OwnerOnlyRelease rests on: no caller of Redis is between a get and *)
(* a del, and a stored key has time left.                                  *)
ReleaseInv ==
  /\ TypeOK
  /\ KeyHasExpiry
  /\ \A w \in Worker : pc[w] # "deleting"

(* On Redis no caller is ever between a get and a del of its release. *)
LEMMA ReleaseInvNext == Store = "redis" /\ ReleaseInv /\ [Next]_vars => ReleaseInv'
  <1> SUFFICES ASSUME Store = "redis", ReleaseInv, [Next]_vars PROVE ReleaseInv'
    OBVIOUS
  <1>t. TypeOK /\ TypeOK'
    BY TypeNext DEF ReleaseInv
  <1> USE NoneAssumption, TtlAssumption DEF ReleaseInv, TypeOK, KeyHasExpiry
  <1>1. CASE Tick
    BY <1>t, <1>1 DEF Tick, AfterSecond
  <1>2. ASSUME NEW w \in Worker, EvalRelease(w) \/ Abandon(w) PROVE ReleaseInv'
    <2>1. \/ UNCHANGED keyVars
          \/ DeleteKey(user[w])
      BY <1>2 DEF EvalRelease, Abandon
    <2>2. KeyHasExpiry'
      BY <2>1 DEF keyVars, DeleteKey
    <2>3. QED
      BY <1>t, <1>2, <2>2 DEF EvalRelease, Abandon, Leave
  <1>3. ASSUME NEW w \in Worker, NEW u \in User, Acquire(w, u) PROVE ReleaseInv'
    BY <1>t, <1>3 DEF Acquire
  <1>4. CASE UNCHANGED vars
    BY <1>t, <1>4 DEF vars
  <1>5. QED
    BY <1>1, <1>2, <1>3, <1>4 DEF Next, Restart, MemoryGet, MemoryDel

(* On Redis a caller never deletes a key whose lockId is not its own, even *)
(* one that has outlived its own key (distributed-lock.ts:63-67).          *)
THEOREM RedisOwnerOnlyRelease == Store = "redis" => (Spec => OwnerOnlyRelease)
  <1> DEFINE Kept ==
        \A u \in User :
          stored[u] # None /\ stored'[u] # stored[u] =>
            \/ left[u] = 1 /\ stored'[u] = None
            \/ \E w \in Worker : Busy(w) /\ id[w] = stored[u] /\ pc'[w] = "idle"
  <1> SUFFICES ASSUME Store = "redis" PROVE Spec => OwnerOnlyRelease
    OBVIOUS
  <1>1. Init => ReleaseInv
    BY TypeInit DEF Init, ReleaseInv, KeyHasExpiry
  <1>2. ASSUME ReleaseInv, [Next]_vars PROVE ReleaseInv' /\ [Kept]_vars
    <2>1. ReleaseInv'
      BY <1>2, ReleaseInvNext
    <2>2. ASSUME Tick PROVE Kept
      BY <1>2, <2>2 DEF Tick, AfterSecond, ReleaseInv, KeyHasExpiry, TypeOK
    <2>3. ASSUME NEW w \in Worker, EvalRelease(w), NEW u \in User,
                 stored[u] # None, stored'[u] # stored[u]
          PROVE  Busy(w) /\ id[w] = stored[u] /\ pc'[w] = "idle"
      <3>1. Owns(w) /\ DeleteKey(user[w]) /\ u = user[w]
        BY <2>3, <1>2 DEF EvalRelease, keyVars, DeleteKey, ReleaseInv, TypeOK
      <3>2. QED
        BY <2>3, <3>1, <1>2 DEF EvalRelease, Owns, Leave, Busy, ReleaseInv, TypeOK
    <2>4. ASSUME NEW w \in Worker, Abandon(w) PROVE Kept
      BY <2>4 DEF Abandon, keyVars
    <2>5. ASSUME NEW w \in Worker, NEW u \in User, Acquire(w, u) PROVE Kept
      BY <2>5, <1>2 DEF Acquire, NotSet, ReleaseInv, TypeOK
    <2>6. QED
      BY <1>2, <2>1, <2>2, <2>3, <2>4, <2>5
         DEF Next, Restart, MemoryGet, MemoryDel, ReleaseInv
  <1>3. QED
    BY <1>1, <1>2, PTL DEF Spec, OwnerOnlyRelease

===============================================================================
