------------------------------ MODULE UserMutex ------------------------------
(***************************************************************************)
(* What lib/redis/distributed-lock.ts promises its callers, without keys,  *)
(* identifiers or time: of all the workers (cron tasks, claim requests,    *)
(* sentinel exits) at most one at a time is busy with a given user.        *)
(***************************************************************************)
CONSTANTS User, Worker

VARIABLE busy      \* busy[u]: the workers acting for user u

TypeOK == busy \in [User -> SUBSET Worker]

Init == busy = [u \in User |-> {}]

Enter(w, u) ==
  /\ busy[u] = {}
  /\ \A v \in User : w \notin busy[v]
  /\ busy' = [busy EXCEPT ![u] = {w}]

(* Some workers are done, or die together with their process. *)
Leave(W) == busy' = [u \in User |-> busy[u] \ W]

Next ==
  \/ \E w \in Worker, u \in User : Enter(w, u)
  \/ \E W \in SUBSET Worker : Leave(W)

Spec == Init /\ [][Next]_busy

-------------------------------------------------------------------------------
(* What the callers take from it: nobody else acts for the user a worker is  *)
(* busy with, and no worker acts for two users.                              *)
Exclusive ==
  /\ \A u \in User : \A v, w \in busy[u] : v = w
  /\ \A u, x \in User : u # x => busy[u] \cap busy[x] = {}

==============================================================================
