------------------------ MODULE SessionRegistryProofs ------------------------
(* Theorems about SessionRegistry, for any number of users, keys, request *)
(* slots and any set of faults.                                           *)
EXTENDS SessionRegistry, TLAPS

(* The initial states satisfy the inductive invariant. *)
LEMMA RegInitInv == RegInit => RegInv
<1> SUFFICES ASSUME RegInit PROVE RegInv
  OBVIOUS
<1> USE DEF RegInit, IdleReq, EmptyRow, ReqPc
<1>1. PICK own \in [User -> Key \cup {None}] :
        /\ row = [u \in User |-> IF own[u] = None THEN [key |-> None, registered |-> FALSE, auto |-> FALSE]
                   ELSE [key |-> own[u], registered |-> TRUE, auto |-> TRUE]]
        /\ issued = {own[u] : u \in User} \ {None}
  OBVIOUS
<1>2. row \in [User -> [key : issued \cup {None}, registered : BOOLEAN, auto : BOOLEAN]]
  BY <1>1
<1>3. issued \subseteq Key
  BY <1>1
<1>4. /\ req \in [Req -> [pc : ReqPc, user : User \cup {None}, key : issued \cup {None}, seen : Nat]]
       /\ \A q \in Req : req[q].pc # "idle" => req[q].user \in User
  OBVIOUS
<1>5. AckedKeysBlacklisted /\ MarkedKeysBlacklisted
  BY DEF AckedKeysBlacklisted, MarkedKeysBlacklisted
<1> QED
  BY <1>2, <1>3, <1>4, <1>5 DEF RegInv, RegTypeOK

(* Every step of a registration request preserves the invariant. *)
LEMMA RegStepInv ==
  ASSUME RegInv, RegNext
  PROVE  RegInv'
<1> USE DEF RegInv, RegTypeOK, AckedKeysBlacklisted, MarkedKeysBlacklisted, IdleReq, EmptyRow,
            ReqPc
<1>1. ASSUME NEW u \in User, NEW k \in Key, RegisterKey(u, k) PROVE RegInv'
  <2>1. /\ issued' = issued \cup {k}
        /\ row' = [row EXCEPT ![u].key = k, ![u].registered = TRUE]
        /\ UNCHANGED <<expired, revoked, req, acked, wiped>>
    BY <1>1 DEF RegisterKey, Upsert
  <2>2. row' \in [User -> [key : issued' \cup {None}, registered : BOOLEAN, auto : BOOLEAN]]
    <3>1. \A v \in User \ {u} : row'[v] = row[v]
      BY <2>1
    <3>2. row'[u] = [key |-> k, registered |-> TRUE, auto |-> row[u].auto]
      BY <2>1
    <3>3. row' = [v \in User |-> row'[v]]
      BY <2>1
    <3> QED
      BY <2>1, <3>1, <3>2, <3>3
  <2>3. req' \in [Req -> [pc : ReqPc, user : User \cup {None},
                         key : issued' \cup {None}, seen : Nat]]
    BY <2>1
  <2> QED
    BY <2>1, <2>2, <2>3
<1>2. ASSUME NEW k \in Key, Expire(k) PROVE RegInv'
  BY <1>2 DEF Expire
<1>3. ASSUME NEW k \in Key, ForgetRevocation(k) PROVE RegInv'
  BY <1>3 DEF ForgetRevocation
<1>4. ASSUME NEW q \in Req, NEW u \in User, ToggleResolve(q, u) PROVE RegInv'
  BY <1>4 DEF ToggleResolve, Begin
<1>5. ASSUME NEW q \in Req, NEW u \in User, RevokeRead(q, u) PROVE RegInv'
  BY <1>5 DEF RevokeRead, Begin
<1>6. ASSUME NEW q \in Req, NEW u \in User, UndelegateResolve(q, u) PROVE RegInv'
  BY <1>6 DEF UndelegateResolve, Begin
<1>7. ASSUME NEW q \in Req, ToggleUpdate(q) PROVE RegInv'
  <2>1. PICK b \in BOOLEAN : row' = [row EXCEPT ![req[q].user].auto = b]
    BY <1>7 DEF ToggleUpdate
  <2>2. /\ req' = [req EXCEPT ![q] = IdleReq]
        /\ UNCHANGED <<issued, expired, revoked, acked, wiped>>
    BY <1>7 DEF ToggleUpdate, Finish
  <2>3. row' \in [User -> [key : issued \cup {None}, registered : BOOLEAN, auto : BOOLEAN]]
    BY <1>7, <2>1 DEF ToggleUpdate
  <2>4. RegTypeOK'
    BY <2>2, <2>3
  <2>5. AckedKeysBlacklisted' /\ MarkedKeysBlacklisted'
    BY <2>2
  <2> QED
    BY <2>4, <2>5
<1>8. ASSUME NEW q \in Req, RevokeMark(q) PROVE RegInv'
  <2>1. /\ req[q].pc = "revoke"
        /\ revoked' = revoked \cup ({req[q].key} \ {None})
        /\ req' = [req EXCEPT ![q].pc = "marked"]
        /\ UNCHANGED <<row, issued, expired, acked, wiped>>
    BY <1>8 DEF RevokeMark, Blacklist
  <2>2. req[q].key \in issued \cup {None}
    OBVIOUS
  <2>3. RegTypeOK'
    BY <2>1, <2>2
  <2>4. AckedKeysBlacklisted' /\ MarkedKeysBlacklisted'
    BY <2>1, <2>2
  <2> QED
    BY <2>3, <2>4
<1>9. ASSUME NEW q \in Req, RevokeClear(q) PROVE RegInv'
  <2>1. /\ row' = [row EXCEPT ![req[q].user] = EmptyRow]
        /\ acked' = acked \cup ({req[q].key} \ {None})
        /\ wiped' = wiped \cup ({row[req[q].user].key} \ {None})
        /\ req' = [req EXCEPT ![q] = IdleReq]
        /\ UNCHANGED <<issued, expired, revoked>>
    BY <1>9 DEF RevokeClear, ClearRow, Finish
  <2>2. req[q].key \in issued \cup {None}
    OBVIOUS
  <2>3. row[req[q].user].key \in issued \cup {None}
    BY <1>9 DEF RevokeClear
  <2>4. RegTypeOK'
    <3>1. row' \in [User -> [key : issued' \cup {None}, registered : BOOLEAN, auto : BOOLEAN]]
      BY <2>1
    <3>2. /\ issued' \subseteq Key /\ expired' \subseteq issued' /\ revoked' \subseteq issued'
          /\ acked' \subseteq issued' /\ wiped' \subseteq issued'
      BY <2>1, <2>2, <2>3
    <3>3. /\ req' \in [Req -> [pc : ReqPc, user : User \cup {None}, key : issued' \cup {None}, seen : Nat]]
          /\ \A p \in Req : req'[p].pc # "idle" => req'[p].user \in User
      BY <2>1
    <3> QED
      BY <3>1, <3>2, <3>3
  <2>5. AckedKeysBlacklisted' /\ MarkedKeysBlacklisted'
    BY <1>9, <2>1 DEF RevokeClear
  <2> QED
    BY <2>4, <2>5
<1>10. ASSUME NEW q \in Req, UndelegateReset(q) PROVE RegInv'
  <2>1. /\ row' = [row EXCEPT ![req[q].user] = EmptyRow]
        /\ req' = [req EXCEPT ![q] = IdleReq]
        /\ UNCHANGED <<issued, expired, revoked, acked, wiped>>
    BY <1>10 DEF UndelegateReset, ClearRow, Finish
  <2>2. RegTypeOK'
    BY <2>1
  <2>3. AckedKeysBlacklisted' /\ MarkedKeysBlacklisted'
    BY <2>1
  <2> QED
    BY <2>2, <2>3
<1>11. ASSUME NEW q \in Req, RequestFails(q) PROVE RegInv'
  BY <1>11 DEF RequestFails, Finish
<1> QED
  BY <1>1, <1>2, <1>3, <1>4, <1>5, <1>6, <1>7, <1>8, <1>9, <1>10, <1>11 DEF RegNext

(* The registry keeps its shape, and a key whose DELETE was answered is on *)
(* the blacklist until it expires, whatever interleaves.                   *)
THEOREM RegistryInvariant == RegSpec => []RegInv
<1>1. RegInv /\ [RegNext]_regVars => RegInv'
  <2> SUFFICES ASSUME RegInv, [RegNext]_regVars PROVE RegInv'
    OBVIOUS
  <2>1. CASE RegNext
    BY <2>1, RegStepInv
  <2>2. CASE UNCHANGED regVars
    BY <2>2 DEF regVars, RegInv, RegTypeOK, AckedKeysBlacklisted, MarkedKeysBlacklisted
  <2> QED
    BY <2>1, <2>2
<1> QED
  BY <1>1, RegInitInv, PTL DEF RegSpec

(* agent_registered and authorization_7702 are set and cleared together by *)
(* every writer of the row.                                                *)
THEOREM RowsStayConsistent == RegSpec => []RegistrationConsistent
<1>1. ASSUME RegInit PROVE RegistrationConsistent
  <2>1. PICK own \in [User -> Key \cup {None}] :
          row = [u \in User |-> IF own[u] = None THEN EmptyRow
                  ELSE [key |-> own[u], registered |-> TRUE, auto |-> TRUE]]
    BY <1>1 DEF RegInit
  <2>2. ASSUME NEW u \in User PROVE row[u].registered <=> row[u].key # None
    <3>1. CASE own[u] = None
      BY <2>1, <3>1 DEF EmptyRow
    <3>2. CASE own[u] # None
      BY <2>1, <3>2
    <3> QED
      BY <3>1, <3>2
  <2> QED
    BY <2>2 DEF RegistrationConsistent
<1>2. RegInv /\ RegistrationConsistent /\ [RegNext]_regVars => RegistrationConsistent'
  <2> SUFFICES ASSUME RegInv, RegistrationConsistent, [RegNext]_regVars
               PROVE  RegistrationConsistent'
    OBVIOUS
  <2> USE DEF RegistrationConsistent, RegInv, RegTypeOK
  <2>1. ASSUME NEW u \in User, NEW k \in Key, RegisterKey(u, k) PROVE RegistrationConsistent'
    BY <2>1, NoneIsNoKey DEF RegisterKey, Upsert
  <2>2. ASSUME NEW q \in Req, ToggleUpdate(q) PROVE RegistrationConsistent'
    BY <2>2 DEF ToggleUpdate
  <2>3. ASSUME NEW q \in Req, RevokeClear(q) PROVE RegistrationConsistent'
    BY <2>3 DEF RevokeClear, ClearRow, EmptyRow
  <2>4. ASSUME NEW q \in Req, UndelegateReset(q) PROVE RegistrationConsistent'
    BY <2>4 DEF UndelegateReset, ClearRow, EmptyRow
  <2>5. CASE UNCHANGED row
    BY <2>5
  <2> QED
    BY <2>1, <2>2, <2>3, <2>4, <2>5
    DEF RegNext, regVars, Expire, ForgetRevocation, ToggleResolve, RevokeRead,
        UndelegateResolve, RevokeMark, RequestFails
<1> QED
  BY <1>1, <1>2, RegistryInvariant, PTL DEF RegSpec

===============================================================================
