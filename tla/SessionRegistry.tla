---------------------------- MODULE SessionRegistry ----------------------------
(***************************************************************************)
(* The life of a user's agent session key: the users row, the Redis        *)
(* blacklist of revoked keys, and the requests that change them.  A        *)
(* request of several awaits is a slot of Req with a program counter, so   *)
(* two requests of one user interleave at every await.                     *)
(*                                                                         *)
(*   POST   /api/agent/generate-session-key, /api/agent/register  Register *)
(*   PATCH  /api/agent/register                                   Toggle*  *)
(*   DELETE /api/agent/generate-session-key                       Revoke*  *)
(*   POST   /api/agent/undelegate                                 Undeleg* *)
(*                                                                         *)
(* A key is a session key address; every registration creates a new one.   *)
(***************************************************************************)
EXTENDS Wallets, Naturals, FiniteSets

CONSTANTS
  Key,      \* session key addresses
  Req,      \* request slots
  Fault     \* failures that may happen: "store" Redis, "sql" database,
            \* "crash" a run or request dies, "receipt" a receipt is lost,
            \* "lapse" a lock expires under its holder

ASSUME NoneIsNoKey == None \notin Key \cup User
ASSUME FaultAssumption == Fault \subseteq {"store", "sql", "crash", "receipt", "lapse"}

VARIABLES
  row,       \* row[u]: key, registered, auto: columns authorization_7702,
             \*         agent_registered, auto_optimize_enabled
  issued,    \* keys registered so far
  expired,   \* keys past their expiry
  revoked,   \* the Redis blacklist session:revoked:<key>
  req,       \* req[q]: pc, user, key, seen of request slot q
  acked,     \* history: keys read by a DELETE whose UPDATE was done
  wiped      \* history: keys a DELETE removed from a row

regVars == <<row, issued, expired, revoked, req, acked, wiped>>

IdleReq == [pc |-> "idle", user |-> None, key |-> None, seen |-> 0]
EmptyRow == [key |-> None, registered |-> FALSE, auto |-> FALSE]

(* Where a slot is: in a registration request, or in one of those AgentCron *)
(* adds for vault operations and reward claims.                             *)
ReqPc == {"idle", "toggle", "revoke", "marked", "undelegate",
          "redeem", "deposit", "redeemOk", "redeemCounted",
          "claim", "claimSend", "claimOk", "claimCounted", "unlock"}

RegTypeOK ==
  /\ row \in [User -> [key : issued \cup {None}, registered : BOOLEAN, auto : BOOLEAN]]
  /\ issued \subseteq Key /\ expired \subseteq issued /\ revoked \subseteq issued
  /\ acked \subseteq issued /\ wiped \subseteq issued
  /\ req \in [Req -> [pc : ReqPc, user : User \cup {None},
                      key : issued \cup {None}, seen : Nat]]
  /\ \A q \in Req : req[q].pc # "idle" => req[q].user \in User

(* Some users have registered before, each with a key of his own, and have *)
(* switched auto-optimize on.                                              *)
RegInit ==
  /\ \E own \in [User -> Key \cup {None}] :
       /\ \A u, v \in User : own[u] = own[v] => u = v \/ own[u] = None
       /\ row = [u \in User |-> IF own[u] = None THEN EmptyRow
                   ELSE [key |-> own[u], registered |-> TRUE, auto |-> TRUE]]
       /\ issued = {own[u] : u \in User} \ {None}
  /\ expired = {} /\ revoked = {} /\ acked = {} /\ wiped = {}
  /\ req = [q \in Req |-> IdleReq]

(* resolveAgentRegistration: a stored authorization that has not expired. *)
Resolves(u) == row[u].key # None /\ row[u].key \notin expired

Begin(q, p, u, k) ==
  /\ req[q].pc = "idle"
  /\ req' = [req EXCEPT ![q] = [pc |-> p, user |-> u, key |-> k, seen |-> 0]]

Finish(q) == req' = [req EXCEPT ![q] = IdleReq]

(* The upsert of both registration routes, which then writes the strategy.  *)
(* auto_optimize_enabled keeps its value on a conflict.                      *)
Upsert(u, k) == row' = [row EXCEPT ![u].key = k, ![u].registered = TRUE]

(* The key is made and granted in the request, or by the client before it;  *)
(* the audit rows written after it change nothing here, failed or not.      *)
RegisterKey(u, k) ==
  /\ k \notin issued
  /\ issued' = issued \cup {k}
  /\ Upsert(u, k)
  /\ UNCHANGED <<expired, revoked, req, acked, wiped>>

Expire(k) ==
  /\ k \in issued \ expired
  /\ expired' = expired \cup {k}
  /\ UNCHANGED <<row, issued, revoked, req, acked, wiped>>

(* The blacklist entry lives as long as a session key, 7 days. *)
ForgetRevocation(k) ==
  /\ k \in revoked \cap expired
  /\ revoked' = revoked \ {k}
  /\ UNCHANGED <<row, issued, expired, req, acked, wiped>>

ToggleResolve(q, u) ==
  /\ Resolves(u)
  /\ Begin(q, "toggle", u, None)
  /\ UNCHANGED <<row, issued, expired, revoked, acked, wiped>>

(* UPDATE by address: the row is not resolved again. *)
ToggleUpdate(q) ==
  /\ req[q].pc = "toggle"
  /\ \E b \in BOOLEAN : row' = [row EXCEPT ![req[q].user].auto = b]
  /\ Finish(q)
  /\ UNCHANGED <<issued, expired, revoked, acked, wiped>>

RevokeRead(q, u) ==
  /\ Begin(q, "revoke", u, row[u].key)
  /\ UNCHANGED <<row, issued, expired, revoked, acked, wiped>>

(* Faulty variant of Blacklist: only keys still in use are blacklisted. *)
BlacklistStored(q) ==
  IF row[req[q].user].key = req[q].key THEN {req[q].key} \ {None} ELSE {}

(* What revokeSession adds: nothing when the row held no key. *)
Blacklist(q) == {req[q].key} \ {None}

RevokeMark(q) ==
  /\ req[q].pc = "revoke"
  /\ revoked' = revoked \cup Blacklist(q)
  /\ req' = [req EXCEPT ![q].pc = "marked"]
  /\ UNCHANGED <<row, issued, expired, acked, wiped>>

(* Redis or the database rejects before the UPDATE, or the instance dies: *)
(* the row stays.                                                         *)
RequestFails(q) ==
  /\ \/ req[q].pc = "revoke" /\ "store" \in Fault
     \/ req[q].pc \in {"toggle", "marked"} /\ "sql" \in Fault
     \/ req[q].pc = "undelegate"       \* the relayer transaction is rejected
     \/ req[q].pc # "idle" /\ "crash" \in Fault
  /\ Finish(q)
  /\ UNCHANGED <<row, issued, expired, revoked, acked, wiped>>

(* Faulty variant of ClearRow: agent_registered is forgotten. *)
ClearRowKeepRegistered(u) ==
  row' = [row EXCEPT ![u].key = None, ![u].auto = FALSE]

ClearRow(u) == row' = [row EXCEPT ![u] = EmptyRow]

RevokeClear(q) ==
  /\ req[q].pc = "marked"
  /\ ClearRow(req[q].user)
  /\ acked' = acked \cup ({req[q].key} \ {None})
  /\ wiped' = wiped \cup ({row[req[q].user].key} \ {None})
  /\ Finish(q)
  /\ UNCHANGED <<issued, expired, revoked>>

UndelegateResolve(q, u) ==
  /\ Resolves(u)
  /\ Begin(q, "undelegate", u, row[u].key)
  /\ UNCHANGED <<row, issued, expired, revoked, acked, wiped>>

(* resetAgentRegistration, after the receipt; the key is not blacklisted. *)
UndelegateReset(q) ==
  /\ req[q].pc = "undelegate"
  /\ ClearRow(req[q].user)
  /\ Finish(q)
  /\ UNCHANGED <<issued, expired, revoked, acked, wiped>>

RegNext ==
  \/ \E u \in User, k \in Key : RegisterKey(u, k)
  \/ \E k \in Key : Expire(k) \/ ForgetRevocation(k)
  \/ \E q \in Req, u \in User :
       ToggleResolve(q, u) \/ RevokeRead(q, u) \/ UndelegateResolve(q, u)
  \/ \E q \in Req :
       \/ ToggleUpdate(q) \/ RevokeMark(q) \/ RevokeClear(q)
       \/ UndelegateReset(q) \/ RequestFails(q)

RegSpec == RegInit /\ [][RegNext]_regVars

-------------------------------------------------------------------------------
(* A key a user revoked, and was told so, is on the blacklist for as long  *)
(* as it could sign anything, whatever else happened to the row meanwhile. *)
AckedKeysBlacklisted == acked \subseteq revoked \cup expired

(* So is the key of a DELETE that has not cleared the row yet. *)
MarkedKeysBlacklisted ==
  \A q \in Req : req[q].pc = "marked" => req[q].key \in revoked \cup expired \cup {None}

(* The inductive invariant behind AckedKeysBlacklisted. *)
RegInv == RegTypeOK /\ AckedKeysBlacklisted /\ MarkedKeysBlacklisted

(* The columns every reader of the table relies on agree after each of the *)
(* five writers: agent_registered iff there is an authorization.           *)
RegistrationConsistent == \A u \in User : row[u].registered <=> row[u].key # None

(* "When a user revokes their session key, we add it to a Redis blacklist"  *)
(* (session-revocation.ts:5): each key a DELETE takes out of the table is   *)
(* blacklisted.                                                             *)
WipedKeysBlacklisted == wiped \subseteq revoked \cup expired

===============================================================================
