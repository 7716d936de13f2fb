------------------------------ MODULE AgentAccess ------------------------------
(***************************************************************************)
(* Who may ask for which address (lib/auth/middleware.ts), at which address *)
(* the funds of a user are looked for (lib/agent/resolve-agent-address.ts), *)
(* and the routes that read behind both.                                    *)
(*                                                                         *)
(* Two caches are on the way: the users of Privy, in the memory of the      *)
(* process, and the agent addresses, in Redis.  Neither is told of a        *)
(* change.  A request is a slot of Req, one step per await.  Time is in     *)
(* ticks of 30 s; a process runs no request longer than HandlerMax ticks.   *)
(* A copy of a list or of an address carries `ago`, the ticks since it was  *)
(* last true.  Privy's accounts, the registrations and time are external.   *)
(***************************************************************************)
EXTENDS Naturals, Sequences, SequencesExt

CONSTANTS
  User, Wallet,       \* Privy users, and their EVM wallets
  Linked0, Rows0,     \* what is linked and registered at first
  Smart,              \* [Wallet -> smart account of an ERC-4337 registration]
  Req,                \* requests served at once
  Serves,             \* [Req -> the (user, route, address) a slot is used for]
  None,
  UserTtl, CacheMax,  \* USER_CACHE_TTL_MS, USER_CACHE_MAX_SIZE
  AddrTtl,            \* CACHE_TTL of the agent addresses
  HandlerMax,
  MaxChanges          \* bounds the changes outside

VARIABLES
  linked,    \* [User -> wallets in the order of linked_accounts]: Privy
  rows,      \* [Wallet -> None, "user" or the address its registration resolves to]
  cache,     \* userDetailsCache in its order: user, wallets, ticks left
  addr,      \* Redis, agent_addr:<wallet>: None, or the address and ticks left
  req,       \* [Req -> request]
  changes

vars == <<linked, rows, cache, addr, req, changes>>

Address == Wallet \cup {Smart[w] : w \in Wallet}
Lists == {q \in SeqOf(Wallet, 2) : IsInjective(q)}
Horizon == (IF UserTtl > AddrTtl THEN UserTtl ELSE AddrTtl) + 2 * HandlerMax

(* All but "optimize" serve the address they were asked for, "evaluate" (the  *)
(* POST of the optimizer) too; "health" and "status" any user.                *)
ForOwner == {"activity", "gains", "history", "sync", "withdraw", "optimize", "evaluate"}
Route == ForOwner \cup {"health", "status"}
Waiting == {"verify", "privy", "told", "resolve", "row", "put", "read"}
Answers == {"refused", "found", "nothing", "built", "advised", "failed", "healthy", "degraded", "down", "OK"}
Idle == [pc |-> "idle", route |-> "optimize", user |-> None, asked |-> None, lower |-> TRUE,
         again |-> FALSE, wallets |-> <<>>, ago |-> 0, via |-> None, at |-> None, atAgo |-> 0,
         age |-> 0]

Entry == [user : User, wallets : Lists, ago : 0..Horizon, left : 0..UserTtl]
Copy == [at : Address, ago : 0..Horizon, left : 1..AddrTtl]
Request ==
  [pc : Waiting \cup Answers \cup {"idle", "served"}, route : Route, user : User \cup {None},
   asked : Wallet \cup {None}, lower : BOOLEAN, again : BOOLEAN, wallets : Lists,
   ago : 0..Horizon, via : Wallet \cup {None}, at : Address \cup {None}, atAgo : 0..Horizon,
   age : 0..HandlerMax]

(* A wallet has one owner, a row the address of its registration.             *)
LinksOK(l) ==
  /\ l \in [User -> Lists]
  /\ \A u, v \in User : u # v => ToSet(l[u]) \cap ToSet(l[v]) = {}
RowsOK(a) ==
  /\ a \in [Wallet -> {None, "user"} \cup Address]
  /\ \A w \in Wallet : a[w] \in {None, "user", w, Smart[w]}

TypeOK ==
  /\ LinksOK(linked) /\ RowsOK(rows) /\ changes \in 0..MaxChanges
  /\ cache \in Seq(Entry) /\ Len(cache) <= CacheMax
  /\ \A i, j \in DOMAIN cache : cache[i].user = cache[j].user => i = j
  /\ addr \in [Wallet -> {None} \cup Copy]
  /\ req \in [Req -> Request]

Init ==
  /\ linked \in Linked0 /\ rows \in Rows0
  /\ cache = <<>> /\ addr = [w \in Wallet |-> None]
  /\ req = [r \in Req |-> Idle]
  /\ changes = 0

-------------------------------------------------------------------------------
(* The cache of users.  A Map keeps the order of insertion; a full one drops   *)
(* its oldest entry, even to refresh another.                                  *)
(* Faulty variant of EntryOf: an entry serves beyond its time, until it is      *)
(* dropped.                                                                    *)
EntryOfAnyAge(u) == {i \in DOMAIN cache : cache[i].user = u}

EntryOf(u) == {i \in DOMAIN cache : cache[i].user = u /\ cache[i].left > 0}

Put(u, q, ago) ==
  LET kept == IF Len(cache) >= CacheMax THEN Tail(cache) ELSE cache
      mine == [user |-> u, wallets |-> q, ago |-> ago, left |-> UserTtl]
  IN IF \E i \in DOMAIN kept : kept[i].user = u
     THEN [i \in DOMAIN kept |-> IF kept[i].user = u THEN mine ELSE kept[i]]
     ELSE Append(kept, mine)

(* requireAuthForAddress, once the user is known: any of the linked wallets    *)
(* will do.  /api/optimize authenticates again, by the token alone, for an     *)
(* address that is none of them.                                               *)
Answer(p) == [Idle EXCEPT !.pc = p]
Authorized(x, q, ago) ==
  LET known == [x EXCEPT !.wallets = q, !.ago = ago] IN
  IF x.route \notin ForOwner THEN [known EXCEPT !.pc = "read"]
  ELSE IF x.again THEN [known EXCEPT !.pc = "resolve"]
  ELSE IF q = <<>> THEN Answer("refused")
  ELSE IF x.asked \in ToSet(q) THEN [known EXCEPT !.pc = IF x.route = "optimize" THEN "resolve" ELSE "read"]
  ELSE IF x.route = "optimize" THEN [Answer("verify") EXCEPT !.user = x.user, !.asked = x.asked, !.again = TRUE, !.age = x.age]
  ELSE Answer("refused")

Become(r, x) == req' = [req EXCEPT ![r] = x]
At(r, p) == req[r].pc = p
outside == <<linked, rows, changes>>

(* A request arrives; its address may be written in upper case.                *)
Arrive(r, u, route, a, lower) ==
  /\ req[r].pc \notin Waiting
  /\ route \notin {"activity", "gains"} => lower
  /\ Become(r, [Idle EXCEPT !.pc = "verify", !.route = route, !.user = u, !.asked = a, !.lower = lower])
  /\ UNCHANGED <<outside, cache, addr>>

(* The secret of the cron asks for the health without a user. *)
CronAsks(r) ==
  /\ req[r].pc \notin Waiting
  /\ Become(r, [Idle EXCEPT !.pc = "read", !.route = "health"])
  /\ UNCHANGED <<outside, cache, addr>>

(* Behind the verified token: the cache, or a call of Privy.  A token that     *)
(* fails is refused.                                                           *)
LookUp(r) ==
  /\ At(r, "verify")
  /\ LET hits == EntryOf(req[r].user) IN
     IF hits = {} THEN Become(r, [req[r] EXCEPT !.pc = "privy"])
     ELSE \E i \in hits : Become(r, Authorized(req[r], cache[i].wallets, cache[i].ago))
  /\ UNCHANGED <<outside, cache, addr>>

Refuse(r) ==
  /\ req[r].pc \in {"verify", "privy"}
  /\ Become(r, Answer("refused"))
  /\ UNCHANGED <<outside, cache, addr>>

(* Privy reads the account at one moment; its answer arrives at another.       *)
ReadPrivy(r) ==
  /\ At(r, "privy")
  /\ Become(r, [req[r] EXCEPT !.pc = "told", !.wallets = linked[req[r].user]])
  /\ UNCHANGED <<outside, cache, addr>>

Told(r) ==
  /\ At(r, "told")
  /\ cache' = Put(req[r].user, req[r].wallets, req[r].ago)
  /\ Become(r, Authorized(req[r], req[r].wallets, req[r].ago))
  /\ UNCHANGED <<outside, addr>>

-------------------------------------------------------------------------------
(* resolveAgentAddress.  The keys are looked up one after the other, so that   *)
(* any one that is there may be the first to be found; Redis may not answer.   *)
ResolveCached(r) ==
  /\ At(r, "resolve")
  /\ \/ \E w \in ToSet(req[r].wallets) :
          /\ addr[w] # None
          /\ Become(r, [req[r] EXCEPT !.pc = "served", !.at = addr[w].at, !.atAgo = addr[w].ago])
     \/ Become(r, [req[r] EXCEPT !.pc = "row"])
  /\ UNCHANGED <<outside, cache, addr>>

(* Without a wallet left the optimizer takes the address it was asked for.     *)
First(x) == IF x.wallets = <<>> THEN x.asked ELSE x.wallets[1]
Registered(q) == {w \in ToSet(q) : rows[w] \in Address}

ReadRow(r) ==
  /\ At(r, "row")
  /\ \/ \E w \in Registered(req[r].wallets) :
          Become(r, [req[r] EXCEPT !.pc = "put", !.via = w, !.at = rows[w]])
     \/ /\ Registered(req[r].wallets) = {}
        /\ Become(r, [req[r] EXCEPT !.pc = "served", !.at = First(req[r])])
  /\ UNCHANGED <<outside, cache, addr>>

(* A failed query falls back on the first wallet, and keeps nothing. *)
ReadRowFails(r) ==
  /\ At(r, "row")
  /\ Become(r, [req[r] EXCEPT !.pc = "served", !.at = First(req[r])])
  /\ UNCHANGED <<outside, cache, addr>>

(* The write may fail, which changes nothing for the caller. *)
PutAddr(r) ==
  /\ At(r, "put")
  /\ \/ addr' = [addr EXCEPT ![req[r].via] = [at |-> req[r].at, ago |-> req[r].atAgo, left |-> AddrTtl]]
     \/ UNCHANGED addr
  /\ Become(r, [req[r] EXCEPT !.pc = "served"])
  /\ UNCHANGED <<outside, cache>>

-------------------------------------------------------------------------------
(* What the other routes read.  Rows are stored in lower case; two routes      *)
(* compare them with the address as it was written.                            *)
ActivityFinds(x) == rows[x.asked] # None /\ x.lower
GainsFinds(x) == rows[x.asked] # None /\ x.lower
HistoryFinds(x) == rows[x.asked] # None

(* A withdrawal is only built; the others answer 500 when their query fails.   *)
ReadOwn(r) ==
  /\ At(r, "read") /\ req[r].route \in {"activity", "gains", "history", "withdraw"}
  /\ LET x == req[r]
         finds == \/ x.route = "activity" /\ ActivityFinds(x)
                  \/ x.route = "gains" /\ GainsFinds(x)
                  \/ x.route = "history" /\ HistoryFinds(x)
     IN \/ Become(r, Answer(IF x.route = "withdraw" THEN "built" ELSE IF finds THEN "found" ELSE "nothing"))
        \/ x.route # "withdraw" /\ Become(r, Answer("failed"))
  /\ UNCHANGED <<outside, cache, addr>>

(* The POST evaluates the positions of the wallet itself, not of its agent,    *)
(* and executes nothing.                                                       *)
Evaluate(r) ==
  /\ At(r, "read") /\ req[r].route = "evaluate"
  /\ \E p \in {"advised", "nothing", "failed"} : Become(r, Answer(p))
  /\ UNCHANGED <<outside, cache, addr>>

(* A user who logs in has a row from then on; a registration stays.  The       *)
(* strategy is a second statement, which may fail on its own.                  *)
Sync(r) ==
  /\ At(r, "read") /\ req[r].route = "sync"
  /\ \/ UNCHANGED rows /\ Become(r, Answer("failed"))
     \/ /\ rows' = [rows EXCEPT ![req[r].asked] = IF @ = None THEN "user" ELSE @]
        /\ \E p \in {"found", "failed"} : Become(r, Answer(p))
  /\ UNCHANGED <<linked, cache, addr, changes>>

(* The health of three services, each "up" or "down"; without a project id     *)
(* the bundler is not asked, and whatever the database said is overwritten.    *)
Health(db, project, zerodev, morpho) ==
  LET ofDb == IF db = "up" THEN "healthy" ELSE "down"
      worse(s) == IF s = "down" THEN "down" ELSE "degraded"
      withZerodev == IF ~project THEN "degraded" ELSE IF zerodev = "up" THEN ofDb ELSE worse(ofDb)
  IN IF morpho = "up" THEN withZerodev ELSE worse(withZerodev)

ReadHealth(r) ==
  /\ At(r, "read") /\ req[r].route = "health"
  /\ \E db, zerodev, morpho \in {"up", "down"}, project \in BOOLEAN :
       Become(r, Answer(Health(db, project, zerodev, morpho)))
  /\ UNCHANGED <<outside, cache, addr>>

(* The dead-man switch: the sentinel is down unless every vault was checked in *)
(* the last five minutes; none checked, or a failed query, is down too.        *)
DeadMan(checks) == IF checks # {} /\ \A c \in checks : c = "recent" THEN "OK" ELSE "down"

ReadStatus(r) ==
  /\ At(r, "read") /\ req[r].route = "status"
  /\ \E checks \in SUBSET {"recent", "old", "never"} :
       Become(r, Answer(DeadMan(checks)))
  /\ UNCHANGED <<outside, cache, addr>>

-------------------------------------------------------------------------------
(* Outside: a wallet is linked or unlinked, a registration stored or cleared,  *)
(* the process restarts, time passes.                                          *)
Relink(u, q) ==
  /\ changes < MaxChanges /\ changes' = changes + 1
  /\ q # linked[u] /\ \A v \in User \ {u} : ToSet(q) \cap ToSet(linked[v]) = {}
  /\ linked' = [linked EXCEPT ![u] = q]
  /\ UNCHANGED <<rows, cache, addr, req>>

Reregister(w, a) ==
  /\ changes < MaxChanges /\ changes' = changes + 1
  /\ a \in {"user", w, Smart[w]} /\ a # rows[w]
  /\ rows' = [rows EXCEPT ![w] = a]
  /\ UNCHANGED <<linked, cache, addr, req>>

Restart ==
  /\ cache' = <<>>
  /\ req' = [r \in Req |-> IF req[r].pc \in Waiting THEN Idle ELSE req[r]]
  /\ UNCHANGED <<outside, addr>>

(* What is false now was true until this tick; what has become true again is   *)
(* 0 ticks old.                                                                *)
Older(n) == IF n < Horizon THEN n + 1 ELSE n
ListAgo(x) == IF x.wallets = linked[x.user] THEN 0 ELSE Older(x.ago)
Tick ==
  /\ \A r \in Req : req[r].pc \in Waiting => req[r].age < HandlerMax
  /\ req' = [r \in Req |->
       IF req[r].pc \notin Waiting THEN Idle
       ELSE [req[r] EXCEPT !.age = @ + 1,
               !.ago = IF req[r].pc \in {"verify", "privy"} \/ req[r].user = None THEN 0 ELSE ListAgo(req[r]),
               !.atAgo = IF req[r].via = None \/ req[r].at = rows[req[r].via] THEN 0 ELSE Older(@)]]
  /\ cache' = [i \in DOMAIN cache |->
       [cache[i] EXCEPT !.left = IF @ > 0 THEN @ - 1 ELSE 0, !.ago = ListAgo(cache[i])]]
  /\ addr' = [w \in Wallet |->
       IF addr[w] = None \/ addr[w].left = 1 THEN None
       ELSE [addr[w] EXCEPT !.left = @ - 1, !.ago = IF addr[w].at = rows[w] THEN 0 ELSE Older(@)]]
  /\ UNCHANGED outside

Next ==
  \/ \E r \in Req :
       \/ \E call \in Serves[r], lower \in BOOLEAN : Arrive(r, call[1], call[2], call[3], lower)
       \/ (\E call \in Serves[r] : call[2] = "health") /\ CronAsks(r)
       \/ LookUp(r) \/ Refuse(r) \/ ReadPrivy(r) \/ Told(r)
       \/ ResolveCached(r) \/ ReadRow(r) \/ ReadRowFails(r) \/ PutAddr(r)
       \/ ReadOwn(r) \/ Evaluate(r) \/ Sync(r) \/ ReadHealth(r) \/ ReadStatus(r)
  \/ \E u \in User, q \in Lists : Relink(u, q)
  \/ \E w \in Wallet, a \in Address \cup {"user"} : Reregister(w, a)
  \/ Restart \/ Tick

Spec == Init /\ [][Next]_vars

-------------------------------------------------------------------------------
(* What a request is granted or refused rests on the list of wallets the user  *)
(* had at one moment not long ago: "Cached entries may be up to 30s stale"     *)
(* (middleware.ts:19), to which the calls add that stored and use the entry.   *)
(* The address served in the end was where the agent of one of these wallets   *)
(* worked at one moment of the last minute, calls added, or it is the first    *)
(* wallet; and the cache of users never outgrows its bound.                    *)
Known(x) == x.pc \in {"told", "resolve", "row", "put", "read", "served"}
ListRecent(x) == Known(x) => x.ago <= UserTtl - 1 + HandlerMax + x.age
AddressRecent(x) ==
  x.pc = "served" => x.at = First(x) \/ x.atAgo <= AddrTtl - 1 + HandlerMax + x.age

GrantsRecent ==
  /\ \A r \in Req : ListRecent(req[r]) /\ AddressRecent(req[r])
  /\ Len(cache) <= CacheMax

(* Why it holds: what a request keeps of an answer of Privy or of a row is no  *)
(* older than the request, so that an entry may be stale by its age and that   *)
(* of the request that wrote it.                                               *)
RequestFresh(x) ==
  /\ x.pc \in {"verify", "privy", "told"} => x.user \in User
  /\ x.pc \in {"verify", "privy"} => x.ago = 0
  /\ x.pc = "told" => x.ago <= x.age
  /\ x.pc \in Waiting \ {"put"} => x.via = None /\ x.atAgo = 0
  /\ x.pc = "put" => x.via \in Wallet /\ x.at \in Address /\ x.atAgo <= x.age
  /\ ListRecent(x) /\ AddressRecent(x)

CopiesFresh ==
  /\ \A i \in DOMAIN cache :
       cache[i].left > 0 => cache[i].ago + cache[i].left <= UserTtl + HandlerMax
  /\ \A w \in Wallet : addr[w] # None => addr[w].ago + addr[w].left <= AddrTtl + HandlerMax

AccessInv == TypeOK /\ CopiesFresh /\ \A r \in Req : RequestFresh(req[r])
===============================================================================
