-------------------------- MODULE YieldDecisionProofs --------------------------
(***************************************************************************)
(* The pause gate, the gain of a move and the causes of a hidden position,  *)
(* for any number of users and vaults, any TTLs and any markets.            *)
(***************************************************************************)
EXTENDS YieldDecision, TLAPS

Answer == [what : BOOLEAN, ok : BOOLEAN, new : BOOLEAN]

(* The empty entries and the idle call have their shapes.                    *)
LEMMA EmptyTypes ==
  /\ SomeVault \in Vault /\ Vault = Morpho \cup Yo
  /\ NoFunds \in [Vault -> 0..Units] /\ NoFunds \in [Vault -> Nat]
  /\ NoList \in ListEntry /\ NoHeld \in HeldEntry /\ NoPause \in PauseEntry
  /\ Unseen \in [Vault -> Answer] /\ Idle \in Job
<1>1. SomeVault \in Vault
  BY VaultAssumption DEF SomeVault, Vault
<1>2. NoFunds \in [Vault -> 0..Units] /\ NoFunds \in [Vault -> Nat]
  BY BoundAssumption DEF NoFunds
<1>3. NoList \in ListEntry /\ NoHeld \in HeldEntry /\ NoPause \in PauseEntry
  BY <1>2, TtlAssumption DEF NoList, ListEntry, NoHeld, HeldEntry, NoPause, PauseEntry
<1>4. Unseen \in [Vault -> Answer]
  BY DEF Unseen, Answer
<1>5. Idle \in Job
  BY <1>1, <1>2, <1>4, BoundAssumption, TtlAssumption DEF Idle, Job, Thresholds, Answer
<1> QED
  BY <1>1, <1>2, <1>3, <1>4, <1>5 DEF Vault

(* A tick keeps the shape of an entry, and makes one that stays a tick older. *)
LEMMA OlderList == ASSUME NEW e \in ListEntry PROVE Older(e, ListTtl, NoList) \in ListEntry
BY EmptyTypes, TtlAssumption DEF Older, ListEntry
LEMMA OlderHeld == ASSUME NEW e \in HeldEntry PROVE Older(e, PosTtl, NoHeld) \in HeldEntry
BY EmptyTypes, TtlAssumption DEF Older, HeldEntry
LEMMA OlderPause == ASSUME NEW e \in PauseEntry PROVE Older(e, PauseTtl, NoPause) \in PauseEntry
BY EmptyTypes, TtlAssumption DEF Older, PauseEntry

(* Whatever the lists and the positions are read as has the shape of an entry. *)
LEMMA ReadTypes ==
  ASSUME TypeOK
  PROVE  /\ \A ml \in MorphoLists : ml \in ListEntry
         /\ \A yl \in YoLists : yl \in ListEntry
         /\ \A u \in User : /\ \A mp \in MorphoPositions(u) : mp \in HeldEntry
                            /\ \A yp \in YoPositions(u) : yp \in HeldEntry
<1>1. list["morpho"] \in ListEntry /\ list["yo"] \in ListEntry
  BY DEF TypeOK, Protocol
<1>2. ASSUME NEW S \in SUBSET Vault PROVE Quoted(S) \in ListEntry
  <2>1. [v \in Vault |-> IF v \in S THEN apy[v] ELSE 0] \in [Vault -> Nat]
    BY MarketAssumption DEF TypeOK
  <2> QED
    BY <2>1, TtlAssumption DEF Quoted, ListEntry
<1>3. listed \in SUBSET Vault /\ Morpho \in SUBSET Vault /\ \A out : Yo \ out \in SUBSET Vault
  BY DEF TypeOK, Vault
<1>4. \A ml \in MorphoLists : ml \in ListEntry
  BY <1>1, <1>2, <1>3 DEF MorphoLists
<1>5. \A yl \in YoLists : yl \in ListEntry
  BY <1>1, <1>2, <1>3, EmptyTypes DEF YoLists, YoEntry
<1>6. ASSUME NEW u \in User, NEW S, NEW out \in SUBSET Vault
      PROVE  Positions(u, S, out) \in HeldEntry
  <2>1. [v \in Vault |-> IF v \in S \ out THEN pos[u][v] ELSE 0] \in [Vault -> 0..Units]
    BY BoundAssumption DEF TypeOK
  <2> QED
    BY <2>1, TtlAssumption DEF Positions, HeldEntry
<1>7. ASSUME NEW u \in User PROVE held[u]["morpho"] \in HeldEntry /\ held[u]["yo"] \in HeldEntry
  BY DEF TypeOK, Protocol
<1>8. ASSUME NEW u \in User, NEW mp \in MorphoPositions(u) PROVE mp \in HeldEntry
  BY <1>6, <1>7, EmptyTypes DEF MorphoPositions
<1>9. ASSUME NEW u \in User, NEW yp \in YoPositions(u) PROVE yp \in HeldEntry
  <2>1. CASE Fresh(held[u]["yo"], PosTtl)
    BY <1>7, <2>1 DEF YoPositions
  <2>2. CASE ~Fresh(held[u]["yo"], PosTtl)
    BY <1>6, <2>2 DEF YoPositions, Vault
  <2> QED
    BY <2>1, <2>2
<1> QED
  BY <1>4, <1>5, <1>8, <1>9

(* What the lists are replaced by has the shape of the cache.                 *)
LEMMA ListsType ==
  ASSUME NEW ml \in ListEntry, NEW yl \in ListEntry,
         list' = [p \in Protocol |-> IF p = "morpho" THEN ml ELSE yl]
  PROVE  list' \in [Protocol -> ListEntry]
OBVIOUS

(* Reading the positions of one user keeps those of the others.               *)
LEMMA ReadsType ==
  ASSUME TypeOK, NEW u \in User, NEW mp \in HeldEntry, NEW yp \in HeldEntry, Reads(u, mp, yp)
  PROVE  /\ held' \in [User -> [Protocol -> HeldEntry]]
         /\ held'[u]["morpho"] = mp /\ held'[u]["yo"] = yp
         /\ \A x \in User \ {u} : held'[x] = held[x]
<1>1. held' = [held EXCEPT ![u] = [p \in Protocol |-> IF p = "morpho" THEN mp ELSE yp]]
  BY DEF Reads
<1>2. [p \in Protocol |-> IF p = "morpho" THEN mp ELSE yp] \in [Protocol -> HeldEntry]
  OBVIOUS
<1> QED
  BY <1>1, <1>2 DEF TypeOK, Protocol

(* Setting what one caller does for one user touches nothing else.            *)
LEMMA SetType ==
  ASSUME TypeOK, NEW u \in User, NEW c \in Caller, NEW j \in Job, Set(u, c, j)
  PROVE  /\ job' \in [User -> [Caller -> Job]] /\ job'[u][c] = j
         /\ \A x \in User, d \in Caller : x # u \/ d # c => job'[x][d] = job[x][d]
BY DEF TypeOK, Set

(* A payment keeps the count of failures within its bound, a change of the    *)
(* world that of the changes.                                                 *)
LEMMA PayType == ASSUME TypeOK, NEW ok \in BOOLEAN, Pay(ok) PROVE faults' \in 0..MaxFaults
BY BoundAssumption DEF TypeOK, Pay, Cost
LEMMA ChangeType == ASSUME TypeOK, Change PROVE changes' \in 0..MaxChanges
BY BoundAssumption DEF TypeOK, Change

(* The call that goes on to show the positions is a call.                     *)
LEMMA AfterType ==
  ASSUME TypeOK, NEW u \in User, NEW c \in Caller
  PROVE  After(u, c) \in Job /\ After(u, c).pc \in {"idle", "showing"} /\ After(u, c).vaults = {}
<1>1. job[u][c] \in Job
  BY DEF TypeOK
<1>2. Idle \in Job /\ Idle.vaults = {} /\ Idle.pc = "idle"
  BY EmptyTypes DEF Idle
<1>3. job[u][c].age \in 0..MaxCall
  BY <1>1 DEF Job
<1> QED
  BY <1>2, <1>3 DEF After, Job

(* The answers of a call and what is stored of them have their shapes.        *)
LEMMA AskedType == ASSUME TypeOK, NEW S, NEW lost PROVE Asked(S, lost) \in [Vault -> Answer]
<1>1. \A v \in Vault : Merge(v, lost) \in Answer /\ Known(v) \in Answer /\ Unseen[v] \in Answer
  BY EmptyTypes DEF TypeOK, Merge, Known, Answer, PauseEntry
<1> QED
  BY <1>1 DEF Asked
LEMMA StoredType ==
  ASSUME TypeOK, NEW seen \in [Vault -> Answer]
  PROVE  Stored(seen) \in [Vault -> PauseEntry]
<1>1. ASSUME NEW v \in Vault PROVE [what |-> seen[v].what, ok |-> seen[v].ok, age |-> 0] \in PauseEntry
  <2>1. seen[v] \in Answer
    OBVIOUS
  <2> QED
    BY <2>1, TtlAssumption DEF Answer, PauseEntry
<1> QED
  BY <1>1 DEF Stored, TypeOK

(* A proposal names a vault of the lists as its target and keeps the rest.    *)
LEMMA ProposedType ==
  ASSUME NEW j \in Job, NEW least \in Thresholds, NEW w \in Worth(j, least)
  PROVE  /\ w \in Eligible(j) /\ Gains(j, w, least) /\ ~j.seen[w].what /\ ~j.seen[j.from].what
         /\ w \in Vault /\ Proposed(j, w, least) \in Job
         /\ LET p == Proposed(j, w, least)
            IN /\ p.pc = "moving" /\ p.to = w /\ p.least = least /\ p.from = j.from
               /\ p.vaults = j.vaults /\ p.at = j.at /\ p.now = j.now /\ p.age = j.age
<1>1. w \in Eligible(j) /\ Gains(j, w, least) /\ ~j.seen[w].what /\ ~j.seen[j.from].what
  BY DEF Worth, Best
<1>2. w \in Vault
  BY <1>1 DEF Eligible, Job
<1>3. Proposed(j, w, least) \in Job
  BY <1>2, EmptyTypes DEF Proposed, Job, Answer
<1> QED
  BY <1>1, <1>2, <1>3 DEF Proposed, Job

(* The largest of the positions read is a vault.                              *)
LEMMA FundsType ==
  ASSUME NEW mp \in HeldEntry, NEW yp \in HeldEntry
  PROVE  Funds(mp, yp) \in [Vault -> 0..Units] /\ Largest(Funds(mp, yp)) \subseteq Vault
BY DEF Funds, HeldEntry, Largest

(* Every reachable state has its declared shape: the call of one user.        *)
LEMMA EvaluateType ==
  ASSUME TypeOK, NEW u \in User, NEW c \in Caller, Evaluate(u, c)
  PROVE  TypeOK'
<1> USE DEF world
<1>1. job[u][c] \in Job
  BY DEF TypeOK
<1>2. CASE Prefetch(u, c)
  <2>1. PICK ml \in MorphoLists, yl \in YoLists :
          /\ list' = [p \in Protocol |-> IF p = "morpho" THEN ml ELSE yl]
          /\ Pay(WholeList(yl))
          /\ Set(u, c, [Idle EXCEPT
               !.pc = IF c = "cron" THEN "ready" ELSE "listed",
               !.vaults = ml.what \cup yl.what,
               !.at = [v \in Vault |-> IF v \in Morpho THEN ml.at[v] ELSE yl.at[v]]])
    BY <1>2 DEF Prefetch
  <2>2. ml \in ListEntry /\ yl \in ListEntry
    BY <2>1, ReadTypes
  <2>3. /\ ml.what \cup yl.what \in SUBSET Vault
        /\ [v \in Vault |-> IF v \in Morpho THEN ml.at[v] ELSE yl.at[v]] \in [Vault -> Nat]
    BY <2>2 DEF ListEntry
  <2>4. [Idle EXCEPT !.pc = IF c = "cron" THEN "ready" ELSE "listed",
                     !.vaults = ml.what \cup yl.what,
                     !.at = [v \in Vault |-> IF v \in Morpho THEN ml.at[v] ELSE yl.at[v]]] \in Job
    BY <2>3, EmptyTypes DEF Job
  <2>5. job' \in [User -> [Caller -> Job]]
    BY <2>1, <2>4, SetType
  <2>6. faults' \in 0..MaxFaults
    BY <2>1, PayType DEF WholeList, Fresh
  <2> QED
    BY <1>2, <2>1, <2>2, <2>5, <2>6, ListsType DEF Prefetch, TypeOK
<1>3. CASE PrefetchThrows(u, c)
  <2>1. PICK ml \in MorphoLists \cup {list["morpho"]}, yl \in YoLists \cup {list["yo"]} :
          list' = [p \in Protocol |-> IF p = "morpho" THEN ml ELSE yl]
    BY <1>3 DEF PrefetchThrows
  <2>2. ml \in ListEntry /\ yl \in ListEntry
    BY <2>1, ReadTypes DEF TypeOK, Protocol
  <2>3. faults' \in 0..MaxFaults
    BY <1>3, PayType DEF PrefetchThrows
  <2> QED
    BY <1>3, <2>1, <2>2, <2>3, ListsType DEF PrefetchThrows, TypeOK
<1>4. CASE Fetch(u, c)
  <2>1. PICK mp \in MorphoPositions(u), yp \in YoPositions(u) :
          /\ Reads(u, mp, yp) /\ Pay(WholeHeld(u, yp))
          /\ \/ Set(u, c, After(u, c))
             \/ \E v \in Largest(Funds(mp, yp)) :
                  Set(u, c, [job[u][c] EXCEPT !.pc = "found", !.from = v, !.amount = Funds(mp, yp)[v]])
    BY <1>4 DEF Fetch
  <2>2. mp \in HeldEntry /\ yp \in HeldEntry
    BY ReadTypes
  <2>3. ASSUME NEW v \in Largest(Funds(mp, yp))
        PROVE  [job[u][c] EXCEPT !.pc = "found", !.from = v, !.amount = Funds(mp, yp)[v]] \in Job
    <3>1. v \in Vault /\ Funds(mp, yp)[v] \in 0..Units
      BY <2>2, FundsType
    <3> QED
      BY <1>1, <3>1 DEF Job
  <2>4. job' \in [User -> [Caller -> Job]]
    BY <2>1, <2>3, SetType, AfterType
  <2>5. faults' \in 0..MaxFaults
    BY <2>1, PayType DEF WholeHeld, Fresh
  <2>6. held' \in [User -> [Protocol -> HeldEntry]]
    BY <2>1, <2>2, ReadsType
  <2> QED
    BY <1>4, <2>4, <2>5, <2>6 DEF Fetch, TypeOK
<1>5. CASE FetchThrows(u, c)
  <2>1. PICK yp \in YoPositions(u) : Reads(u, held[u]["morpho"], yp)
    BY <1>5 DEF FetchThrows, Broken
  <2>2. held[u]["morpho"] \in HeldEntry /\ yp \in HeldEntry
    BY ReadTypes DEF TypeOK, Protocol
  <2>3. held' \in [User -> [Protocol -> HeldEntry]]
    BY <2>1, <2>2, ReadsType
  <2>4. faults' \in 0..MaxFaults /\ job' \in [User -> [Caller -> Job]]
    BY <1>5, PayType, SetType, AfterType DEF FetchThrows, Broken
  <2> QED
    BY <1>5, <2>3, <2>4 DEF FetchThrows, TypeOK
<1>6. CASE LookupFails(u, c)
  <2>1. faults' \in 0..MaxFaults /\ job' \in [User -> [Caller -> Job]]
    BY <1>6, PayType, SetType, AfterType DEF LookupFails
  <2> QED
    BY <1>6, <2>1 DEF LookupFails, TypeOK
<1>7. CASE Ask(u, c)
  <2>1. PICK lost : /\ Pay(lost = {})
                    /\ Set(u, c, [job[u][c] EXCEPT !.pc = "asked", !.now = CurrentApy(job[u][c]),
                                                   !.seen = Asked(AddrOf(job[u][c]), lost)])
    BY <1>7 DEF Ask
  <2>2. CurrentApy(job[u][c]) \in Nat
    BY <1>1, MarketAssumption DEF CurrentApy, Job, TypeOK
  <2>3. [job[u][c] EXCEPT !.pc = "asked", !.now = CurrentApy(job[u][c]),
                          !.seen = Asked(AddrOf(job[u][c]), lost)] \in Job
    BY <1>1, <2>2, AskedType DEF Job, Answer
  <2>4. faults' \in 0..MaxFaults /\ job' \in [User -> [Caller -> Job]]
    BY <2>1, <2>3, PayType, SetType
  <2> QED
    BY <1>7, <2>4 DEF Ask, TypeOK
<1>8. CASE Decide(u, c)
  <2>1. pause' \in [Vault -> PauseEntry]
    BY <1>1, <1>8, StoredType DEF Decide, Job, Answer
  <2>2. \/ Set(u, c, After(u, c))
        \/ \E least \in Thresholds : \E w \in Worth(job[u][c], least) :
             Set(u, c, Proposed(job[u][c], w, least))
    BY <1>8 DEF Decide
  <2>3. job' \in [User -> [Caller -> Job]]
    BY <1>1, <2>2, AfterType, ProposedType, SetType
  <2> QED
    BY <1>8, <2>1, <2>3 DEF Decide, TypeOK
<1>9. CASE Killed(u, c)
  <2>1. faults' \in 0..MaxFaults /\ job' \in [User -> [Caller -> Job]]
    BY <1>9, PayType, SetType, EmptyTypes DEF Killed
  <2> QED
    BY <1>9, <2>1 DEF Killed, TypeOK
<1> QED
  BY <1>2, <1>3, <1>4, <1>5, <1>6, <1>7, <1>8, <1>9 DEF Evaluate

(* The dashboard keeps the shapes. *)
LEMMA DashboardType == ASSUME TypeOK, NEW u \in User, Dashboard(u) PROVE TypeOK'
<1> USE DEF world
<1>1. job[u]["page"] \in Job /\ Idle \in Job /\ "page" \in Caller
  BY EmptyTypes DEF TypeOK, Caller
<1>2. CASE DashboardHides(u)
  <2>1. faults' \in 0..MaxFaults /\ job' \in [User -> [Caller -> Job]]
    BY <1>1, <1>2, PayType, SetType DEF DashboardHides
  <2> QED
    BY <1>2, <2>1 DEF DashboardHides, TypeOK
<1>3. CASE DashboardGoesOn(u)
  <2>1. [job[u]["page"] EXCEPT !.pc = "ready"] \in Job
    BY <1>1 DEF Job
  <2>2. faults' \in 0..MaxFaults /\ job' \in [User -> [Caller -> Job]]
    BY <1>1, <1>3, <2>1, PayType, SetType DEF DashboardGoesOn
  <2> QED
    BY <1>3, <2>2 DEF DashboardGoesOn, TypeOK
<1>4. CASE DashboardShows(u)
  <2>1. PICK mp \in MorphoPositions(u), yp \in YoPositions(u) :
          /\ Reads(u, mp, yp) /\ Pay(WholeHeld(u, yp))
          /\ hidden' = [hidden EXCEPT ![u] = Funds(mp, yp) = NoFunds]
    BY <1>4 DEF DashboardShows
  <2>2. mp \in HeldEntry /\ yp \in HeldEntry
    BY ReadTypes
  <2>3. held' \in [User -> [Protocol -> HeldEntry]]
    BY <2>1, <2>2, ReadsType
  <2>4. faults' \in 0..MaxFaults
    BY <2>1, PayType DEF WholeHeld, Fresh
  <2>5. job' \in [User -> [Caller -> Job]]
    BY <1>1, <1>4, SetType DEF DashboardShows
  <2>6. hidden' \in [User -> BOOLEAN]
    <3>1. (Funds(mp, yp) = NoFunds) \in BOOLEAN
      OBVIOUS
    <3> QED
      BY <2>1, <3>1, Zenon DEF TypeOK
  <2> QED
    BY <1>4, <2>3, <2>4, <2>5, <2>6 DEF DashboardShows, TypeOK
<1>5. CASE DashboardFails(u)
  <2>1. PICK mp \in MorphoPositions(u) \cup {held[u]["morpho"]}, yp \in YoPositions(u) : Reads(u, mp, yp)
    BY <1>5 DEF DashboardFails
  <2>2. mp \in HeldEntry /\ yp \in HeldEntry
    BY ReadTypes DEF TypeOK, Protocol
  <2>3. held' \in [User -> [Protocol -> HeldEntry]]
    BY <2>1, <2>2, ReadsType
  <2>4. faults' \in 0..MaxFaults /\ job' \in [User -> [Caller -> Job]]
    BY <1>1, <1>5, PayType, SetType DEF DashboardFails
  <2> QED
    BY <1>5, <2>3, <2>4 DEF DashboardFails, TypeOK
<1> QED
  BY <1>2, <1>3, <1>4, <1>5 DEF Dashboard

(* The batch of the agent and the user's own moves keep the positions.        *)
LEMMA ExecuteType == ASSUME TypeOK, NEW u \in User, Execute(u) PROVE TypeOK'
<1> DEFINE j == job[u]["cron"]
<1>1. j \in Job /\ "cron" \in Caller
  BY DEF TypeOK, Caller
<1>2. Accepts(u, j) => Moved(u, j) \in [Vault -> 0..Units]
  <2>1. /\ j.from \in Vault /\ j.to \in Vault /\ j.amount \in 0..Units
        /\ pos[u] \in [Vault -> 0..Units]
    BY <1>1 DEF TypeOK, Job
  <2>2. Accepts(u, j) => pos[u][j.from] - j.amount \in 0..Units
    BY <2>1, BoundAssumption DEF Accepts
  <2>3. \A a \in 0..Units, b \in 0..Units : Min2(a + b, Units) \in 0..Units
    BY BoundAssumption DEF Min2
  <2> QED
    BY <2>1, <2>2, <2>3 DEF Moved
<1>3. pos' \in [User -> [Vault -> 0..Units]]
  BY <1>2 DEF Execute, TypeOK
<1>4. faults' \in 0..MaxFaults
  BY PayType DEF Execute
<1>5. job' \in [User -> [Caller -> Job]]
  BY <1>1, EmptyTypes, SetType DEF Execute
<1>6. arrived' \in [User -> [Vault -> 0..PosTtl]]
  BY TtlAssumption DEF Execute, Arrivals, TypeOK
<1> QED
  BY <1>3, <1>4, <1>5, <1>6 DEF Execute, TypeOK

(* Time keeps the shapes. *)
LEMMA TickType == ASSUME TypeOK, Tick PROVE TypeOK'
<1>1. list' \in [Protocol -> ListEntry]
  BY OlderList DEF Tick, TypeOK
<1>2. held' \in [User -> [Protocol -> HeldEntry]]
  BY OlderHeld DEF Tick, TypeOK
<1>3. pause' \in [Vault -> PauseEntry]
  BY OlderPause DEF Tick, TypeOK
<1>4. /\ steady' \in [Vault -> 0..SteadyMax] /\ pausedFor' \in [Vault -> 0..PausedMax]
      /\ arrived' \in [User -> [Vault -> 0..PosTtl]]
  BY TtlAssumption DEF Tick, TypeOK, Min2, SteadyMax, PausedMax
<1>5. ASSUME NEW u \in User, NEW c \in Caller, job[u][c].pc # "idle"
      PROVE  [job[u][c] EXCEPT !.age = @ + 1] \in Job
  <2>1. job[u][c] \in Job /\ job[u][c].age < MaxCall
    BY <1>5 DEF Tick, TypeOK
  <2> QED
    BY <2>1, TtlAssumption DEF Job
<1>6. job' \in [User -> [Caller -> Job]]
  BY <1>5 DEF Tick, TypeOK
<1> QED
  BY <1>1, <1>2, <1>3, <1>4, <1>6 DEF Tick, TypeOK

(* Every reachable state has its declared shape. *)
LEMMA TypeStep == TypeOK /\ [Next]_vars => TypeOK'
<1> SUFFICES ASSUME TypeOK, [Next]_vars PROVE TypeOK'
  OBVIOUS
<1> USE DEF world
<1>1. ASSUME NEW u \in User, UserMoves(u) PROVE TypeOK'
  <2>1. PICK v \in Vault, n \in 0..Units : pos' = [pos EXCEPT ![u][v] = n]
    BY <1>1 DEF UserMoves
  <2>2. pos' \in [User -> [Vault -> 0..Units]]
    BY <2>1 DEF TypeOK
  <2>3. arrived' \in [User -> [Vault -> 0..PosTtl]]
    BY <1>1, TtlAssumption DEF UserMoves, Arrivals, TypeOK
  <2> QED
    BY <1>1, <2>2, <2>3, ChangeType DEF UserMoves, TypeOK
<1>2. ASSUME NEW v \in Vault, FlipPause(v) PROVE TypeOK'
  <2>1. pausedFor' \in [Vault -> 0..PausedMax]
    BY <1>2, TtlAssumption DEF FlipPause, TypeOK, PausedMax
  <2> QED
    BY <1>2, <2>1, ChangeType DEF FlipPause, TypeOK
<1>3. ASSUME NEW v \in Morpho, Relist(v) PROVE TypeOK'
  BY <1>3, ChangeType DEF Relist, TypeOK
<1>4. CASE ApyMoves
  <2>1. steady' \in [Vault -> 0..SteadyMax]
    BY <1>4, TtlAssumption DEF ApyMoves, TypeOK, SteadyMax
  <2> QED
    BY <1>4, <2>1, ChangeType DEF ApyMoves, TypeOK
<1>5. CASE FeedMoves
  BY <1>5, ChangeType DEF FeedMoves, TypeOK
<1>6. CASE UNCHANGED vars
  BY <1>6 DEF vars, TypeOK
<1> QED
  BY <1>1, <1>2, <1>3, <1>4, <1>5, <1>6, EvaluateType, DashboardType, ExecuteType, TickType
  DEF Next

-----------------------------------------------------------------------------
(* What a cached list says of the world: read or kept, its APYs are those of  *)
(* the moment or changed within its age.                                      *)
LEMMA ListsKnown ==
  ASSUME TypeOK, ListKnown
  PROVE  /\ \A ml \in MorphoLists : \A v \in ml.what :
              /\ v \in Morpho /\ Fresh(ml, ListTtl)
              /\ ml.at[v] = apy[v] \/ steady[v] <= ml.age
         /\ \A yl \in YoLists : \A v \in yl.what :
              /\ v \in Yo /\ Fresh(yl, ListTtl)
              /\ yl.at[v] = apy[v] \/ steady[v] <= yl.age
<1>1. ASSUME NEW S \in SUBSET Vault, NEW v \in S
      PROVE  Fresh(Quoted(S), ListTtl) /\ Quoted(S).what = S /\ Quoted(S).at[v] = apy[v]
  BY <1>1, TtlAssumption DEF Quoted, Fresh
<1>2. listed \in SUBSET Vault /\ listed \subseteq Morpho /\ \A out : Yo \ out \in SUBSET Vault
  BY DEF TypeOK, Vault
<1>3. ASSUME NEW ml \in MorphoLists, NEW v \in ml.what
      PROVE  /\ v \in Morpho /\ Fresh(ml, ListTtl)
             /\ ml.at[v] = apy[v] \/ steady[v] <= ml.age
  <2>1. CASE Fresh(list["morpho"], ListTtl)
    <3>1. ml = list["morpho"] /\ ml \in ListEntry
      BY <2>1 DEF MorphoLists, TypeOK, Protocol
    <3> QED
      BY <2>1, <3>1 DEF ListKnown, Protocol, Of, ListEntry
  <2>2. CASE ~Fresh(list["morpho"], ListTtl)
    <3>1. ml = Quoted(listed)
      BY <2>2 DEF MorphoLists
    <3>2. v \in listed
      BY <3>1 DEF Quoted
    <3> QED
      BY <1>1, <1>2, <3>1, <3>2
  <2> QED
    BY <2>1, <2>2
<1>4. ASSUME NEW yl \in YoLists, NEW v \in yl.what
      PROVE  /\ v \in Yo /\ Fresh(yl, ListTtl)
             /\ yl.at[v] = apy[v] \/ steady[v] <= yl.age
  <2>1. CASE Fresh(list["yo"], ListTtl)
    <3>1. yl = list["yo"] /\ yl \in ListEntry
      BY <2>1 DEF YoLists, TypeOK, Protocol
    <3> QED
      BY <2>1, <3>1 DEF ListKnown, Protocol, Of, ListEntry
  <2>2. CASE ~Fresh(list["yo"], ListTtl)
    <3>1. PICK out : yl = YoEntry(Yo \ out)
      BY <2>2 DEF YoLists
    <3>2. yl = Quoted(Yo \ out) /\ v \in Yo \ out
      BY <3>1 DEF YoEntry, NoList, Quoted
    <3> QED
      BY <1>1, <1>2, <3>2
  <2> QED
    BY <2>1, <2>2
<1> QED
  BY <1>3, <1>4

(* The cached lists stay what they say.                                       *)
LEMMA ListStep == TypeOK /\ ListKnown /\ [Next]_vars => ListKnown'
<1> SUFFICES ASSUME TypeOK, ListKnown, [Next]_vars PROVE ListKnown'
  OBVIOUS
<1> USE DEF world
<1>1. ASSUME UNCHANGED <<list, apy, steady>> PROVE ListKnown'
  BY <1>1 DEF ListKnown
<1>2. ASSUME NEW ml \in MorphoLists \cup {list["morpho"]}, NEW yl \in YoLists \cup {list["yo"]},
             list' = [p \in Protocol |-> IF p = "morpho" THEN ml ELSE yl], UNCHANGED <<apy, steady>>
      PROVE  ListKnown'
  <2>1. list'["morpho"] = ml /\ list'["yo"] = yl
    BY <1>2 DEF Protocol
  <2>2. \A v \in ml.what : Fresh(ml, ListTtl) =>
          v \in Morpho /\ (ml.at[v] = apy[v] \/ steady[v] <= ml.age)
    BY ListsKnown DEF ListKnown, Protocol, Of, TypeOK, ListEntry
  <2>3. \A v \in yl.what : Fresh(yl, ListTtl) =>
          v \in Yo /\ (yl.at[v] = apy[v] \/ steady[v] <= yl.age)
    BY ListsKnown DEF ListKnown, Protocol, Of, TypeOK, ListEntry
  <2> QED
    BY <1>2, <2>1, <2>2, <2>3 DEF ListKnown, Protocol, Of
<1>3. ASSUME NEW u \in User, NEW c \in Caller, Evaluate(u, c) PROVE ListKnown'
  <2>1. CASE Prefetch(u, c) \/ PrefetchThrows(u, c)
    BY <1>2, <2>1 DEF Prefetch, PrefetchThrows
  <2>2. CASE \/ Fetch(u, c) \/ FetchThrows(u, c) \/ LookupFails(u, c) \/ Ask(u, c)
             \/ Decide(u, c) \/ Killed(u, c)
    BY <1>1, <2>2 DEF Fetch, FetchThrows, LookupFails, Ask, Decide, Killed
  <2> QED
    BY <1>3, <2>1, <2>2 DEF Evaluate
<1>4. ASSUME NEW u \in User, Execute(u) \/ Dashboard(u) \/ UserMoves(u) PROVE ListKnown'
  BY <1>1, <1>4
  DEF Execute, Dashboard, DashboardHides, DashboardGoesOn, DashboardShows, DashboardFails, UserMoves
<1>5. ASSUME (\E v \in Vault : FlipPause(v)) \/ (\E v \in Morpho : Relist(v)) \/ FeedMoves
      PROVE  ListKnown'
  BY <1>1, <1>5 DEF FlipPause, Relist, FeedMoves
<1>6. CASE ApyMoves
  <2>1. \A v \in Vault : steady'[v] = IF apy'[v] = apy[v] THEN steady[v] ELSE 0
    BY <1>6 DEF ApyMoves
  <2>2. \A p \in Protocol : list[p].what \subseteq Vault /\ list[p].age \in Nat
    BY TtlAssumption DEF TypeOK, ListEntry
  <2>3. UNCHANGED list
    BY <1>6 DEF ApyMoves
  <2> QED
    BY <2>1, <2>2, <2>3 DEF ListKnown, Fresh
<1>7. CASE Tick
  <2> SUFFICES ASSUME NEW p \in Protocol, NEW v \in Vault, v \in list'[p].what,
                      Fresh(list'[p], ListTtl)
               PROVE  v \in Of(p) /\ (list'[p].at[v] = apy[v] \/ steady'[v] <= list'[p].age)
    BY <1>7 DEF Tick, ListKnown
  <2>1. list'[p] = Older(list[p], ListTtl, NoList) /\ list[p] \in ListEntry
    BY <1>7 DEF Tick, TypeOK
  <2>2. list[p].age + 1 < ListTtl /\ list'[p] = [list[p] EXCEPT !.age = @ + 1]
    BY <2>1 DEF Older, NoList
  <2>3. /\ list'[p].what = list[p].what /\ list'[p].at = list[p].at
        /\ list'[p].age = list[p].age + 1 /\ list[p].age \in Nat /\ Fresh(list[p], ListTtl)
    BY <2>1, <2>2, TtlAssumption DEF ListEntry, Fresh
  <2>4. v \in Of(p) /\ (list[p].at[v] = apy[v] \/ steady[v] <= list[p].age)
    BY <2>3 DEF ListKnown
  <2>5. steady'[v] <= steady[v] + 1 /\ steady[v] \in Nat /\ steady'[v] \in Int
    BY <1>7, TtlAssumption DEF Tick, TypeOK, Min2, SteadyMax
  <2> QED
    BY <2>3, <2>4, <2>5
<1>8. CASE UNCHANGED vars
  BY <1>1, <1>8 DEF vars
<1> QED
  BY <1>3, <1>4, <1>5, <1>6, <1>7, <1>8 DEF Next

(* A Morpho answer is whole.                                                  *)
LEMMA MorphoWhole ==
  ASSUME TypeOK, HeldKnown, NEW u \in User, NEW mp \in MorphoPositions(u)
  PROVE  mp.lost = {}
BY DEF MorphoPositions, HeldKnown, Positions, NoHeld

(* Positions that the cache says are none: read or kept, they are those that  *)
(* could not be read or arrived within the age of the entry.                  *)
LEMMA PositionsKnown ==
  ASSUME TypeOK, HeldKnown, NEW u \in User, NEW v \in Vault, pos[u][v] > 0
  PROVE  /\ \A mp \in MorphoPositions(u) : v \in Morpho /\ mp.what[v] = 0 =>
              Fresh(mp, PosTtl) /\ arrived[u][v] <= mp.age
         /\ \A yp \in YoPositions(u) : v \in Yo /\ yp.what[v] = 0 =>
              Fresh(yp, PosTtl) /\ (v \in yp.lost \/ arrived[u][v] <= yp.age)
<1>1. \A S, out : /\ Positions(u, S, out).what[v] = IF v \in S \ out THEN pos[u][v] ELSE 0
                  /\ Positions(u, S, out).lost = {w \in out : pos[u][w] > 0}
                  /\ Fresh(Positions(u, S, out), PosTtl)
  BY TtlAssumption DEF Positions, Fresh
<1>2. ASSUME NEW mp \in MorphoPositions(u)
      PROVE  v \in Morpho /\ mp.what[v] = 0 => Fresh(mp, PosTtl) /\ arrived[u][v] <= mp.age
  <2>1. CASE Fresh(held[u]["morpho"], PosTtl)
    <3>1. mp = held[u]["morpho"]
      BY <2>1 DEF MorphoPositions
    <3> QED
      BY <2>1, <3>1 DEF HeldKnown, Protocol, Of
  <2>2. CASE ~Fresh(held[u]["morpho"], PosTtl)
    <3>1. CASE mp = Positions(u, Morpho, {})
      BY <1>1, <3>1
    <3>2. CASE mp = NoHeld /\ \A w \in Morpho : pos[u][w] = 0
      BY <3>2 DEF NoHeld
    <3> QED
      BY <2>2, <3>1, <3>2 DEF MorphoPositions
  <2> QED
    BY <2>1, <2>2
<1>3. ASSUME NEW yp \in YoPositions(u), v \in Yo, yp.what[v] = 0
      PROVE  Fresh(yp, PosTtl) /\ (v \in yp.lost \/ arrived[u][v] <= yp.age)
  <2>1. CASE Fresh(held[u]["yo"], PosTtl)
    <3>1. yp = held[u]["yo"]
      BY <2>1 DEF YoPositions
    <3> QED
      BY <1>3, <2>1, <3>1 DEF HeldKnown, Protocol, Of
  <2>2. CASE ~Fresh(held[u]["yo"], PosTtl)
    <3>1. PICK out : yp = Positions(u, Yo, out)
      BY <2>2 DEF YoPositions
    <3>2. v \in out
      BY <1>1, <1>3, <3>1
    <3> QED
      BY <1>1, <3>1, <3>2
  <2> QED
    BY <2>1, <2>2
<1> QED
  BY <1>2, <1>3

(* The cached positions stay what they say.                                   *)
LEMMA HeldStep == TypeOK /\ HeldKnown /\ [Next]_vars => HeldKnown'
<1> SUFFICES ASSUME TypeOK, HeldKnown, [Next]_vars PROVE HeldKnown'
  OBVIOUS
<1> USE DEF world
<1>1. ASSUME UNCHANGED <<held, pos, arrived>> PROVE HeldKnown'
  BY <1>1 DEF HeldKnown
<1>2. ASSUME NEW u \in User, NEW mp \in MorphoPositions(u) \cup {held[u]["morpho"]},
             NEW yp \in YoPositions(u), Reads(u, mp, yp), UNCHANGED <<pos, arrived>>
      PROVE  HeldKnown'
  <2>1. mp \in HeldEntry /\ yp \in HeldEntry
    BY ReadTypes DEF TypeOK, Protocol
  <2>2. held'[u]["morpho"] = mp /\ held'[u]["yo"] = yp /\ \A x \in User \ {u} : held'[x] = held[x]
    BY <1>2, <2>1, ReadsType
  <2>3. mp.lost = {}
    BY MorphoWhole DEF HeldKnown
  <2>4. ASSUME NEW v \in Vault, pos[u][v] > 0
        PROVE  /\ v \in Morpho /\ mp.what[v] = 0 /\ Fresh(mp, PosTtl) =>
                    v \in mp.lost \/ arrived[u][v] <= mp.age
               /\ v \in Yo /\ yp.what[v] = 0 => v \in yp.lost \/ arrived[u][v] <= yp.age
    BY <2>4, PositionsKnown DEF HeldKnown, Protocol, Of
  <2>5. ASSUME NEW x \in User, NEW p \in Protocol, NEW v \in Of(p), Fresh(held'[x][p], PosTtl),
               pos[x][v] > 0, held'[x][p].what[v] = 0
        PROVE  v \in held'[x][p].lost \/ arrived[x][v] <= held'[x][p].age
    <3>1. CASE x = u
      BY <2>2, <2>4, <2>5, <3>1 DEF Protocol, Of, Vault
    <3>2. CASE x # u
      BY <2>2, <2>5, <3>2 DEF HeldKnown
    <3> QED
      BY <3>1, <3>2
  <2>6. \A x \in User : held'[x]["morpho"].lost = {}
    BY <2>2, <2>3 DEF HeldKnown
  <2> QED
    BY <1>2, <2>5, <2>6 DEF HeldKnown
<1>3. ASSUME NEW u \in User, NEW c \in Caller, Evaluate(u, c) PROVE HeldKnown'
  <2>1. CASE Fetch(u, c) \/ FetchThrows(u, c)
    BY <1>2, <2>1 DEF Fetch, FetchThrows, Broken
  <2>2. CASE \/ Prefetch(u, c) \/ PrefetchThrows(u, c) \/ LookupFails(u, c) \/ Ask(u, c)
             \/ Decide(u, c) \/ Killed(u, c)
    BY <1>1, <2>2 DEF Prefetch, PrefetchThrows, LookupFails, Ask, Decide, Killed
  <2> QED
    BY <1>3, <2>1, <2>2 DEF Evaluate
<1>4. ASSUME NEW u \in User, Dashboard(u) PROVE HeldKnown'
  <2>1. CASE DashboardShows(u) \/ DashboardFails(u)
    BY <1>2, <2>1 DEF DashboardShows, DashboardFails
  <2>2. CASE DashboardHides(u) \/ DashboardGoesOn(u)
    BY <1>1, <2>2 DEF DashboardHides, DashboardGoesOn
  <2> QED
    BY <1>4, <2>1, <2>2 DEF Dashboard
<1>5. ASSUME NEW u \in User, Execute(u) \/ UserMoves(u) PROVE HeldKnown'
  <2>1. UNCHANGED held /\ arrived' = Arrivals
    BY <1>5 DEF Execute, UserMoves
  <2>2. \A x \in User, v \in Vault :
          /\ arrived'[x][v] = IF pos[x][v] = 0 /\ pos'[x][v] > 0 THEN 0 ELSE arrived[x][v]
          /\ pos[x][v] \in Nat
    BY <2>1, BoundAssumption DEF Arrivals, TypeOK
  <2>3. \A x \in User, p \in Protocol : Of(p) \subseteq Vault /\ held[x][p].age \in Nat
    BY TtlAssumption DEF Of, Vault, TypeOK, HeldEntry
  <2>4. ASSUME NEW x \in User, NEW p \in Protocol, NEW v \in Of(p), Fresh(held[x][p], PosTtl),
               pos'[x][v] > 0, held[x][p].what[v] = 0
        PROVE  v \in held[x][p].lost \/ arrived'[x][v] <= held[x][p].age
    <3>1. CASE pos[x][v] = 0
      BY <2>2, <2>3, <2>4, <3>1
    <3>2. CASE pos[x][v] > 0
      <4>1. v \in held[x][p].lost \/ arrived[x][v] <= held[x][p].age
        BY <2>4, <3>2 DEF HeldKnown
      <4> QED
        BY <2>2, <2>3, <3>2, <4>1
    <3> QED
      BY <2>2, <2>3, <3>1, <3>2
  <2> QED
    BY <2>1, <2>4 DEF HeldKnown
<1>6. ASSUME (\E v \in Vault : FlipPause(v)) \/ (\E v \in Morpho : Relist(v)) \/ ApyMoves \/ FeedMoves
      PROVE  HeldKnown'
  BY <1>1, <1>6 DEF FlipPause, Relist, ApyMoves, FeedMoves
<1>7. CASE Tick
  <2>1. ASSUME NEW u \in User, NEW p \in Protocol
        PROVE  /\ held'[u][p] = Older(held[u][p], PosTtl, NoHeld) /\ held[u][p] \in HeldEntry
               /\ Fresh(held'[u][p], PosTtl) =>
                    /\ Fresh(held[u][p], PosTtl) /\ held[u][p].age \in Nat
                    /\ held'[u][p].what = held[u][p].what /\ held'[u][p].lost = held[u][p].lost
                    /\ held'[u][p].age = held[u][p].age + 1
    <3>1. held'[u][p] = Older(held[u][p], PosTtl, NoHeld) /\ held[u][p] \in HeldEntry
      BY <1>7 DEF Tick, TypeOK
    <3> QED
      BY <3>1, TtlAssumption DEF Older, NoHeld, Fresh, HeldEntry
  <2>2. \A u \in User : held'[u]["morpho"].lost = {}
    <3> SUFFICES ASSUME NEW u \in User PROVE held'[u]["morpho"].lost = {}
      OBVIOUS
    <3>1. held'[u]["morpho"] = Older(held[u]["morpho"], PosTtl, NoHeld) /\ held[u]["morpho"].lost = {}
      BY <2>1 DEF Protocol, HeldKnown
    <3>2. held[u]["morpho"] \in HeldEntry
      BY <2>1 DEF Protocol
    <3> QED
      BY <3>1, <3>2 DEF Older, NoHeld, HeldEntry
  <2>3. ASSUME NEW u \in User, NEW p \in Protocol, NEW v \in Of(p), Fresh(held'[u][p], PosTtl),
               pos[u][v] > 0, held'[u][p].what[v] = 0
        PROVE  v \in held'[u][p].lost \/ arrived'[u][v] <= held'[u][p].age
    <3>1. v \in held[u][p].lost \/ arrived[u][v] <= held[u][p].age
      BY <2>1, <2>3 DEF HeldKnown
    <3>2. v \in Vault
      BY DEF Of, Vault
    <3>3. arrived'[u][v] <= arrived[u][v] + 1 /\ arrived[u][v] \in Nat /\ arrived'[u][v] \in Int
      BY <1>7, <3>2, TtlAssumption DEF Tick, TypeOK, Min2
    <3> QED
      BY <2>1, <2>3, <3>1, <3>3
  <2> QED
    BY <1>7, <2>2, <2>3 DEF HeldKnown, Tick
<1>8. CASE UNCHANGED vars
  BY <1>1, <1>8 DEF vars
<1> QED
  BY <1>3, <1>4, <1>5, <1>6, <1>7, <1>8 DEF Next

(* The cached pause states stay what they say: what a call stores is no older *)
(* than the call.                                                             *)
LEMMA PauseStep == TypeOK /\ PauseKnown /\ JobsKnown /\ [Next]_vars => PauseKnown'
<1> SUFFICES ASSUME TypeOK, PauseKnown, JobsKnown, [Next]_vars PROVE PauseKnown'
  OBVIOUS
<1> USE DEF world
<1>1. ASSUME UNCHANGED <<paused, pausedFor, pause>> PROVE PauseKnown'
  BY <1>1 DEF PauseKnown
<1>2. ASSUME NEW u \in User, NEW c \in Caller, Decide(u, c) PROVE PauseKnown'
  <2>1. UNCHANGED <<paused, pausedFor>> /\ job[u][c].pc = "asked"
    BY <1>2 DEF Decide
  <2> SUFFICES ASSUME NEW v \in paused, pause'[v].ok, ~pause'[v].what, Fresh(pause'[v], PauseTtl)
               PROVE  pausedFor[v] <= pause'[v].age + MaxCall
    BY <2>1 DEF PauseKnown
  <2>2. v \in Vault /\ job[u][c] \in Job
    BY DEF TypeOK
  <2>3. pause'[v] = IF job[u][c].seen[v].new
                    THEN [what |-> job[u][c].seen[v].what, ok |-> job[u][c].seen[v].ok, age |-> 0]
                    ELSE pause[v]
    BY <1>2, <2>2 DEF Decide, Stored
  <2>4. CASE job[u][c].seen[v].new
    <3>1. pausedFor[v] <= job[u][c].age
      BY <2>1, <2>2, <2>3, <2>4, TtlAssumption DEF JobsKnown, AnswersKnown, Job, TypeOK
    <3> QED
      BY <2>2, <2>3, <2>4, <3>1, TtlAssumption DEF Job, TypeOK
  <2>5. CASE ~job[u][c].seen[v].new
    BY <2>3, <2>5 DEF PauseKnown
  <2> QED
    BY <2>4, <2>5
<1>3. ASSUME NEW u \in User, NEW c \in Caller, Evaluate(u, c) PROVE PauseKnown'
  <2>1. CASE \/ Prefetch(u, c) \/ PrefetchThrows(u, c) \/ Fetch(u, c) \/ FetchThrows(u, c)
             \/ LookupFails(u, c) \/ Ask(u, c) \/ Killed(u, c)
    BY <1>1, <2>1 DEF Prefetch, PrefetchThrows, Fetch, FetchThrows, LookupFails, Ask, Killed
  <2> QED
    BY <1>2, <1>3, <2>1 DEF Evaluate
<1>4. ASSUME NEW u \in User, Execute(u) \/ Dashboard(u) \/ UserMoves(u) PROVE PauseKnown'
  BY <1>1, <1>4
  DEF Execute, Dashboard, DashboardHides, DashboardGoesOn, DashboardShows, DashboardFails, UserMoves
<1>5. ASSUME NEW v \in Vault, FlipPause(v) PROVE PauseKnown'
  <2>1. /\ paused' = (paused \ {v}) \cup ({v} \ paused) /\ UNCHANGED pause
        /\ pausedFor' = [pausedFor EXCEPT ![v] = 0]
    BY <1>5 DEF FlipPause
  <2>2. \A w \in Vault : pause[w].age \in Nat /\ pausedFor'[w] = IF w = v THEN 0 ELSE pausedFor[w]
    BY <2>1, TtlAssumption DEF TypeOK, PauseEntry
  <2>3. paused' \subseteq Vault /\ MaxCall \in Nat
    BY <2>1, TtlAssumption DEF TypeOK
  <2> QED
    BY <2>1, <2>2, <2>3 DEF PauseKnown
<1>6. ASSUME (\E v \in Morpho : Relist(v)) \/ ApyMoves \/ FeedMoves PROVE PauseKnown'
  BY <1>1, <1>6 DEF Relist, ApyMoves, FeedMoves
<1>7. CASE Tick
  <2> SUFFICES ASSUME NEW v \in paused, pause'[v].ok, ~pause'[v].what, Fresh(pause'[v], PauseTtl)
               PROVE  pausedFor'[v] <= pause'[v].age + MaxCall
    BY <1>7 DEF Tick, PauseKnown
  <2>1. v \in Vault /\ pause[v] \in PauseEntry
    BY DEF TypeOK
  <2>2. pause'[v] = Older(pause[v], PauseTtl, NoPause)
    BY <1>7, <2>1 DEF Tick
  <2>3. /\ pause[v].ok /\ ~pause[v].what /\ Fresh(pause[v], PauseTtl)
        /\ pause'[v].age = pause[v].age + 1
    BY <2>1, <2>2, TtlAssumption DEF Older, NoPause, PauseEntry, Fresh
  <2>4. pausedFor[v] <= pause[v].age + MaxCall
    BY <2>3 DEF PauseKnown
  <2>5. pausedFor'[v] <= pausedFor[v] + 1 /\ pausedFor[v] \in Nat /\ pausedFor'[v] \in Int
    BY <1>7, <2>1, TtlAssumption DEF Tick, TypeOK, Min2, PausedMax
  <2> QED
    BY <2>1, <2>3, <2>4, <2>5, TtlAssumption DEF PauseEntry
<1>8. CASE UNCHANGED vars
  BY <1>1, <1>8 DEF vars
<1> QED
  BY <1>3, <1>4, <1>5, <1>6, <1>7, <1>8 DEF Next

(* A call set while the markets and the pauses stand still is known, if it is *)
(* known by itself; an idle call is.                                          *)
LEMMA SetKnown ==
  ASSUME TypeOK, JobsKnown, UNCHANGED <<apy, paused, steady, pausedFor>>,
         NEW u \in User, NEW c \in Caller, NEW j \in Job, Set(u, c, j),
         ApysKnown(j), AnswersKnown(j), MoveGains(j)
  PROVE  JobsKnown'
<1> SUFFICES ASSUME NEW x \in User, NEW d \in Caller
             PROVE  ApysKnown(job[x][d])' /\ AnswersKnown(job[x][d])' /\ MoveGains(job[x][d])'
  BY DEF JobsKnown
<1>1. CASE x = u /\ d = c
  <2>1. job'[x][d] = j
    BY <1>1, SetType
  <2> QED
    BY <2>1 DEF ApysKnown, AnswersKnown, MoveGains, Eligible, Gains
<1>2. CASE x # u \/ d # c
  <2>1. job'[x][d] = job[x][d]
    BY <1>2, SetType
  <2>2. ApysKnown(job[x][d]) /\ AnswersKnown(job[x][d]) /\ MoveGains(job[x][d])
    BY DEF JobsKnown
  <2> QED
    BY <2>1, <2>2 DEF ApysKnown, AnswersKnown, MoveGains, Eligible, Gains
<1> QED
  BY <1>1, <1>2
LEMMA EmptyKnown ==
  ASSUME NEW j \in Job, j.pc \in {"idle", "showing"}, j.vaults = {}
  PROVE  ApysKnown(j) /\ AnswersKnown(j) /\ MoveGains(j)
BY DEF ApysKnown, AnswersKnown, MoveGains

(* What the calls under way know stays true through their own steps.          *)
LEMMA EvaluateKnown ==
  ASSUME TypeOK, ListKnown, PauseKnown, JobsKnown, NEW u \in User, NEW c \in Caller, Evaluate(u, c)
  PROVE  JobsKnown'
<1> USE DEF world
<1> DEFINE j == job[u][c]
<1>1. j \in Job /\ ApysKnown(j) /\ AnswersKnown(j) /\ MoveGains(j)
  BY DEF TypeOK, JobsKnown
<1> HIDE DEF j
<1>2. CASE Prefetch(u, c)
  <2>1. PICK ml \in MorphoLists, yl \in YoLists :
          Set(u, c, [Idle EXCEPT
               !.pc = IF c = "cron" THEN "ready" ELSE "listed",
               !.vaults = ml.what \cup yl.what,
               !.at = [v \in Vault |-> IF v \in Morpho THEN ml.at[v] ELSE yl.at[v]]])
    BY <1>2 DEF Prefetch
  <2> DEFINE at == [v \in Vault |-> IF v \in Morpho THEN ml.at[v] ELSE yl.at[v]]
             k == [Idle EXCEPT !.pc = IF c = "cron" THEN "ready" ELSE "listed",
                               !.vaults = ml.what \cup yl.what, !.at = at]
  <2>2. ml \in ListEntry /\ yl \in ListEntry
    BY ReadTypes
  <2>3. k \in Job
    BY <2>2, EmptyTypes DEF Job, ListEntry
  <2>4. /\ k.pc \in {"ready", "listed"} /\ k.vaults = ml.what \cup yl.what /\ k.age = 0
        /\ \A v \in Vault : k.at[v] = IF v \in Morpho THEN ml.at[v] ELSE yl.at[v]
    BY DEF Idle
  <2>5. ASSUME NEW v \in k.vaults PROVE k.at[v] = apy[v] \/ steady[v] < ListTtl + k.age
    <3>1. v \in Vault /\ steady[v] \in Nat
      BY <2>2, <2>4, TtlAssumption DEF ListEntry, TypeOK, SteadyMax
    <3>2. CASE v \in ml.what
      <4>1. v \in Morpho /\ Fresh(ml, ListTtl) /\ (ml.at[v] = apy[v] \/ steady[v] <= ml.age)
        BY <3>2, ListsKnown
      <4> QED
        BY <2>2, <2>4, <3>1, <4>1, TtlAssumption DEF ListEntry, Fresh
    <3>3. CASE v \in yl.what
      <4>1. v \in Yo /\ Fresh(yl, ListTtl) /\ (yl.at[v] = apy[v] \/ steady[v] <= yl.age)
        BY <3>3, ListsKnown
      <4> QED
        BY <2>2, <2>4, <3>1, <4>1, TtlAssumption, VaultAssumption DEF ListEntry, Fresh
    <3> QED
      BY <2>4, <3>2, <3>3
  <2>6. ApysKnown(k) /\ AnswersKnown(k) /\ MoveGains(k)
    BY <2>4, <2>5 DEF ApysKnown, AnswersKnown, MoveGains
  <2>7. Set(u, c, k)
    BY <2>1
  <2> HIDE DEF k
  <2> QED
    BY <1>2, <2>3, <2>6, <2>7, SetKnown DEF Prefetch
<1>3. CASE PrefetchThrows(u, c)
  BY <1>3 DEF PrefetchThrows, JobsKnown, ApysKnown, AnswersKnown, MoveGains, Eligible, Gains
<1>4. ASSUME Set(u, c, After(u, c)), UNCHANGED <<apy, paused, steady, pausedFor>> PROVE JobsKnown'
  BY <1>4, AfterType, EmptyKnown, SetKnown
<1>5. CASE Fetch(u, c)
  <2>1. PICK mp \in MorphoPositions(u), yp \in YoPositions(u) :
          \/ Set(u, c, After(u, c))
          \/ \E v \in Largest(Funds(mp, yp)) :
               Set(u, c, [j EXCEPT !.pc = "found", !.from = v, !.amount = Funds(mp, yp)[v]])
    BY <1>5 DEF Fetch, j
  <2>2. ASSUME NEW v \in Largest(Funds(mp, yp))
        PROVE  LET k == [j EXCEPT !.pc = "found", !.from = v, !.amount = Funds(mp, yp)[v]]
               IN k \in Job /\ ApysKnown(k) /\ AnswersKnown(k) /\ MoveGains(k)
    <3> DEFINE k == [j EXCEPT !.pc = "found", !.from = v, !.amount = Funds(mp, yp)[v]]
    <3>1. v \in Vault /\ Funds(mp, yp)[v] \in 0..Units
      BY ReadTypes, FundsType
    <3>2. /\ k \in Job /\ k.pc = "found" /\ k.vaults = j.vaults /\ k.at = j.at /\ k.age = j.age
      BY <1>1, <3>1 DEF Job
    <3>3. j.pc # "idle"
      BY <1>5 DEF Fetch, j
    <3> HIDE DEF k
    <3>4. ApysKnown(k) /\ AnswersKnown(k) /\ MoveGains(k)
      BY <1>1, <3>2, <3>3 DEF ApysKnown, AnswersKnown, MoveGains
    <3> QED
      BY <3>2, <3>4 DEF k
  <2> QED
    BY <1>4, <1>5, <2>1, <2>2, SetKnown DEF Fetch
<1>6. CASE FetchThrows(u, c) \/ LookupFails(u, c)
  BY <1>4, <1>6 DEF FetchThrows, LookupFails
<1>7. CASE Ask(u, c)
  <2>1. PICK lost : Set(u, c, [j EXCEPT !.pc = "asked", !.now = CurrentApy(j),
                                        !.seen = Asked(AddrOf(j), lost)])
    BY <1>7 DEF Ask, j
  <2> DEFINE k == [j EXCEPT !.pc = "asked", !.now = CurrentApy(j), !.seen = Asked(AddrOf(j), lost)]
  <2>2. CurrentApy(j) \in Nat
    BY <1>1, MarketAssumption DEF CurrentApy, Job, TypeOK
  <2>3. k \in Job
    BY <1>1, <2>2, AskedType DEF Job, Answer
  <2>4. /\ k.pc = "asked" /\ k.vaults = j.vaults /\ k.at = j.at /\ k.age = j.age
        /\ k.from = j.from /\ k.now = CurrentApy(j) /\ k.seen = Asked(AddrOf(j), lost)
    BY <1>1 DEF Job
  <2>5. j.pc = "found" /\ j.from \in Vault /\ j.age \in Nat
    BY <1>1, <1>7, TtlAssumption DEF Ask, Job, j
  <2>6. Set(u, c, k)
    BY <2>1
  <2> HIDE DEF k
  <2>7. ApysKnown(k)
    <3>1. \A v \in j.vaults : j.at[v] = apy[v] \/ steady[v] < ListTtl + j.age
      BY <1>1, <2>5 DEF ApysKnown
    <3>2. \/ CurrentApy(j) = apy[j.from] \/ steady[j.from] < ListTtl + j.age
          \/ j.from \in Yo \ j.vaults
      BY <2>5, <3>1 DEF CurrentApy, Vault
    <3> QED
      BY <2>4, <3>1, <3>2 DEF ApysKnown
  <2>8. ASSUME NEW v \in paused, k.seen[v].ok, ~k.seen[v].what
        PROVE  pausedFor[v] <= k.age + (IF k.seen[v].new THEN 0 ELSE PauseTtl - 1 + MaxCall)
    <3>1. v \in Vault /\ pause[v] \in PauseEntry /\ pausedFor[v] \in Nat
      BY TtlAssumption DEF TypeOK, PausedMax
    <3>2. k.seen[v] = IF v \in Stale(AddrOf(j)) THEN Merge(v, lost)
                      ELSE IF v \in AddrOf(j) THEN Known(v) ELSE Unseen[v]
      BY <2>4, <3>1 DEF Asked
    <3>3. v \notin Stale(AddrOf(j))
      BY <2>8, <3>2 DEF Merge
    <3>4. v \in AddrOf(j)
      BY <2>8, <3>1, <3>2, <3>3 DEF Unseen
    <3>5. Fresh(pause[v], PauseTtl) /\ pause[v].ok /\ ~pause[v].what /\ ~k.seen[v].new
      BY <2>8, <3>2, <3>3, <3>4 DEF Stale, Known
    <3>6. pausedFor[v] <= pause[v].age + MaxCall /\ pause[v].age < PauseTtl
      BY <3>5 DEF PauseKnown, Fresh
    <3> QED
      BY <2>4, <2>5, <3>1, <3>5, <3>6, TtlAssumption DEF PauseEntry
  <2>9. AnswersKnown(k) /\ MoveGains(k)
    BY <2>4, <2>8 DEF AnswersKnown, MoveGains
  <2> QED
    BY <1>7, <2>3, <2>6, <2>7, <2>9, SetKnown DEF Ask
<1>8. CASE Decide(u, c)
  <2>1. \/ Set(u, c, After(u, c))
        \/ \E least \in Thresholds : \E w \in Worth(j, least) : Set(u, c, Proposed(j, w, least))
    BY <1>8 DEF Decide, j
  <2>2. ASSUME NEW least \in Thresholds, NEW w \in Worth(j, least)
        PROVE  /\ Proposed(j, w, least) \in Job /\ ApysKnown(Proposed(j, w, least))
               /\ AnswersKnown(Proposed(j, w, least)) /\ MoveGains(Proposed(j, w, least))
    <3>1. /\ w \in Eligible(j) /\ Gains(j, w, least) /\ Proposed(j, w, least) \in Job
          /\ LET p == Proposed(j, w, least)
             IN /\ p.pc = "moving" /\ p.to = w /\ p.least = least /\ p.from = j.from
                /\ p.vaults = j.vaults /\ p.at = j.at /\ p.now = j.now /\ p.age = j.age
      BY <1>1, ProposedType
    <3>2. j.pc = "asked"
      BY <1>8 DEF Decide, j
    <3> QED
      BY <1>1, <3>1, <3>2 DEF ApysKnown, AnswersKnown, MoveGains, Eligible, Gains
  <2> QED
    BY <1>4, <1>8, <2>1, <2>2, SetKnown DEF Decide
<1>9. CASE Killed(u, c)
  <2>1. Idle.pc = "idle" /\ Idle.vaults = {}
    BY DEF Idle
  <2> QED
    BY <1>9, <2>1, EmptyTypes, EmptyKnown, SetKnown DEF Killed
<1> QED
  BY <1>2, <1>3, <1>5, <1>6, <1>7, <1>8, <1>9 DEF Evaluate

(* And through those of the world.                                            *)
LEMMA JobsStep == TypeOK /\ ListKnown /\ PauseKnown /\ JobsKnown /\ [Next]_vars => JobsKnown'
<1> SUFFICES ASSUME TypeOK, ListKnown, PauseKnown, JobsKnown, [Next]_vars PROVE JobsKnown'
  OBVIOUS
<1> USE DEF world
<1>1. ASSUME UNCHANGED <<apy, paused, steady, pausedFor, job>> PROVE JobsKnown'
  BY <1>1 DEF JobsKnown, ApysKnown, AnswersKnown, MoveGains, Eligible, Gains
<1>2. Idle \in Job /\ Idle.pc = "idle" /\ Idle.vaults = {} /\ Caller = {"cron", "page"}
  BY EmptyTypes DEF Idle, Caller
<1>3. ASSUME NEW u \in User, Execute(u) PROVE JobsKnown'
  BY <1>2, <1>3, EmptyKnown, SetKnown DEF Execute
<1>4. ASSUME NEW u \in User, Dashboard(u) PROVE JobsKnown'
  <2>1. CASE DashboardHides(u) \/ DashboardShows(u) \/ DashboardFails(u)
    BY <1>2, <2>1, EmptyKnown, SetKnown DEF DashboardHides, DashboardShows, DashboardFails
  <2>2. CASE DashboardGoesOn(u)
    <3> DEFINE j == job[u]["page"]
               k == [j EXCEPT !.pc = "ready"]
    <3>1. j \in Job /\ ApysKnown(j) /\ j.pc = "listed"
      BY <1>2, <2>2 DEF TypeOK, JobsKnown, DashboardGoesOn
    <3>2. k \in Job /\ k.pc = "ready" /\ k.vaults = j.vaults /\ k.at = j.at /\ k.age = j.age
      BY <3>1 DEF Job
    <3>3. Set(u, "page", k)
      BY <2>2 DEF DashboardGoesOn
    <3> HIDE DEF j, k
    <3>4. ApysKnown(k) /\ AnswersKnown(k) /\ MoveGains(k)
      BY <3>1, <3>2 DEF ApysKnown, AnswersKnown, MoveGains
    <3> QED
      BY <1>2, <2>2, <3>2, <3>3, <3>4, SetKnown DEF DashboardGoesOn
  <2> QED
    BY <1>4, <2>1, <2>2 DEF Dashboard
<1>5. ASSUME NEW u \in User, UserMoves(u) PROVE JobsKnown'
  BY <1>1, <1>5 DEF UserMoves
<1>6. ASSUME (\E v \in Morpho : Relist(v)) \/ FeedMoves PROVE JobsKnown'
  BY <1>1, <1>6 DEF Relist, FeedMoves
<1>7. ASSUME NEW v \in Vault, FlipPause(v) PROVE JobsKnown'
  <2>1. /\ paused' = (paused \ {v}) \cup ({v} \ paused)
        /\ pausedFor' = [pausedFor EXCEPT ![v] = 0] /\ UNCHANGED <<apy, steady, job>>
    BY <1>7 DEF FlipPause
  <2> SUFFICES ASSUME NEW u \in User, NEW c \in Caller PROVE AnswersKnown(job[u][c])'
    BY <2>1 DEF JobsKnown, ApysKnown, MoveGains, Eligible, Gains
  <2>2. /\ AnswersKnown(job[u][c]) /\ job[u][c].age \in Nat
    BY TtlAssumption DEF JobsKnown, TypeOK, Job
  <2>3. \A w \in Vault : pausedFor'[w] = IF w = v THEN 0 ELSE pausedFor[w]
    BY <2>1 DEF TypeOK
  <2>4. paused' \subseteq Vault /\ MaxCall \in Nat /\ PauseTtl \in Nat \ {0}
    BY <2>1, TtlAssumption DEF TypeOK
  <2> QED
    BY <2>1, <2>2, <2>3, <2>4 DEF AnswersKnown
<1>8. CASE ApyMoves
  <2>1. /\ UNCHANGED <<paused, pausedFor, job>>
        /\ \A v \in Vault : steady'[v] = IF apy'[v] = apy[v] THEN steady[v] ELSE 0
    BY <1>8 DEF ApyMoves
  <2> SUFFICES ASSUME NEW u \in User, NEW c \in Caller PROVE ApysKnown(job[u][c])'
    BY <2>1 DEF JobsKnown, AnswersKnown, MoveGains, Eligible, Gains
  <2>2. /\ ApysKnown(job[u][c]) /\ job[u][c].age \in Nat /\ job[u][c].from \in Vault
        /\ job[u][c].vaults \subseteq Vault
    BY TtlAssumption DEF JobsKnown, TypeOK, Job
  <2> QED
    BY <2>1, <2>2, TtlAssumption DEF ApysKnown
<1>9. CASE Tick
  <2> SUFFICES ASSUME NEW u \in User, NEW c \in Caller
               PROVE  ApysKnown(job[u][c])' /\ AnswersKnown(job[u][c])' /\ MoveGains(job[u][c])'
    BY DEF JobsKnown
  <2> DEFINE j == job[u][c]
             k == job'[u][c]
  <2>1. j \in Job /\ ApysKnown(j) /\ AnswersKnown(j) /\ MoveGains(j)
    BY DEF TypeOK, JobsKnown
  <2>2. k = IF j.pc = "idle" THEN j ELSE [j EXCEPT !.age = @ + 1]
    BY <1>9 DEF Tick
  <2>3. UNCHANGED <<apy, paused>>
    BY <1>9 DEF Tick
  <2>4. CASE j.pc = "idle"
    BY <2>1, <2>2, <2>4 DEF ApysKnown, AnswersKnown, MoveGains
  <2>5. CASE j.pc # "idle"
    <3>1. /\ k.pc = j.pc /\ k.vaults = j.vaults /\ k.at = j.at /\ k.age = j.age + 1 /\ k.now = j.now
          /\ k.from = j.from /\ k.to = j.to /\ k.least = j.least /\ k.seen = j.seen
      BY <2>1, <2>2, <2>5 DEF Job
    <3>2. j.age \in Nat /\ j.from \in Vault /\ j.vaults \subseteq Vault /\ paused \subseteq Vault
      BY <2>1, TtlAssumption DEF Job, TypeOK
    <3>3. \A v \in Vault :
            /\ steady'[v] <= steady[v] + 1 /\ steady[v] \in Nat /\ steady'[v] \in Int
            /\ pausedFor'[v] <= pausedFor[v] + 1 /\ pausedFor[v] \in Nat /\ pausedFor'[v] \in Int
      BY <1>9, TtlAssumption DEF Tick, TypeOK, Min2, SteadyMax, PausedMax
    <3> HIDE DEF j, k
    <3>4. \A v \in Vault : steady[v] < ListTtl + j.age => steady'[v] < ListTtl + k.age
      BY <3>1, <3>2, <3>3, TtlAssumption
    <3>5. ApysKnown(job[u][c])'
      BY <2>1, <2>3, <3>1, <3>2, <3>4 DEF ApysKnown, k
    <3>6. AnswersKnown(job[u][c])'
      <4> SUFFICES ASSUME k.pc = "asked", NEW v \in paused, k.seen[v].ok, ~k.seen[v].what
                   PROVE  pausedFor'[v] <= k.age + (IF k.seen[v].new THEN 0 ELSE PauseTtl - 1 + MaxCall)
        BY <2>3 DEF AnswersKnown, k
      <4>1. pausedFor[v] <= j.age + (IF j.seen[v].new THEN 0 ELSE PauseTtl - 1 + MaxCall)
        BY <2>1, <3>1 DEF AnswersKnown
      <4> QED
        BY <3>1, <3>2, <3>3, <4>1, TtlAssumption
    <3>7. MoveGains(job[u][c])'
      BY <2>1, <3>1 DEF MoveGains, Eligible, Gains, k
    <3> QED
      BY <3>5, <3>6, <3>7 DEF k
  <2> QED
    BY <2>4, <2>5
<1>10. CASE UNCHANGED vars
  BY <1>1, <1>10 DEF vars
<1> QED
  BY <1>3, <1>4, <1>5, <1>6, <1>7, <1>8, <1>9, <1>10, EvaluateKnown DEF Next

-----------------------------------------------------------------------------
(* The caches start out empty and no call is under way.                      *)
LEMMA InitInv == Init => DecisionInv
<1> SUFFICES ASSUME Init PROVE DecisionInv
  OBVIOUS
<1>1. pos \in [User -> [Vault -> 0..Units]]
  <2>1. PICK v \in Vault : pos = [u \in User |-> [NoFunds EXCEPT ![v] = Units]]
    BY DEF Init
  <2>2. [NoFunds EXCEPT ![v] = Units] \in [Vault -> 0..Units]
    BY EmptyTypes, BoundAssumption
  <2> QED
    BY <2>1, <2>2
<1>2. TypeOK
  BY <1>1, EmptyTypes, TtlAssumption, BoundAssumption DEF Init, TypeOK, SteadyMax, PausedMax
<1>3. ListKnown
  BY DEF Init, ListKnown, NoList
<1>4. HeldKnown
  BY TtlAssumption DEF Init, HeldKnown, NoHeld, Protocol, Fresh
<1>5. PauseKnown
  BY DEF Init, PauseKnown
<1>6. JobsKnown
  BY DEF Init, JobsKnown, ApysKnown, AnswersKnown, MoveGains, Idle
<1> QED
  BY <1>2, <1>3, <1>4, <1>5, <1>6 DEF DecisionInv

(* The invariant of the run decision: the shapes, and what the caches and   *)
(* the calls of the decision engine under way still say of the world.         *)
THEOREM DecisionInvariant == Spec => []DecisionInv
<1>1. DecisionInv /\ [Next]_vars => DecisionInv'
  BY TypeStep, ListStep, HeldStep, PauseStep, JobsStep DEF DecisionInv
<1> QED
  BY InitInv, <1>1, PTL DEF Spec

(* Only a decision turns what the cron has asked into a move.                 *)
LEMMA OnlyDecide ==
  ASSUME TypeOK, [Next]_vars, NEW u \in User, job[u]["cron"].pc = "asked", job'[u]["cron"].pc = "moving"
  PROVE  Decide(u, "cron")
<1> USE DEF world
<1>1. job'[u]["cron"] # job[u]["cron"]
  OBVIOUS
<1>2. ASSUME NEW x \in User, NEW c \in Caller, NEW j, Set(x, c, j), j.pc # "moving" PROVE FALSE
  <2>1. \A d \in Caller : job'[u][d] = IF x = u /\ c = d THEN j ELSE job[u][d]
    BY <1>2 DEF Set, TypeOK
  <2>2. "cron" \in Caller
    BY DEF Caller
  <2> QED
    BY <1>1, <1>2, <2>1, <2>2
<1>3. Idle \in Job /\ Idle.pc # "moving" /\ Caller = {"cron", "page"}
  BY EmptyTypes DEF Idle, Caller
<1>4. ASSUME NEW x \in User, NEW c \in Caller, Set(x, c, After(x, c)) PROVE FALSE
  BY <1>2, <1>4, AfterType
<1>5. ASSUME NEW x \in User, NEW c \in Caller, Decide(x, c) PROVE Decide(u, "cron")
  <2>1. job[x][c] \in Job
    BY DEF TypeOK
  <2>2. \E j \in Job : Set(x, c, j)
    BY <1>5, <2>1, AfterType, ProposedType DEF Decide
  <2>3. x = u /\ c = "cron"
    BY <1>1, <1>3, <2>2, SetType
  <2> QED
    BY <1>5, <2>3
<1>6. ASSUME NEW x \in User, NEW c \in Caller, Prefetch(x, c) \/ PrefetchThrows(x, c) PROVE FALSE
  <2>1. CASE Prefetch(x, c)
    <3> DEFINE pc == IF c = "cron" THEN "ready" ELSE "listed"
               k(vs, at) == [Idle EXCEPT !.pc = pc, !.vaults = vs, !.at = at]
    <3>1. PICK vs, at : Set(x, c, k(vs, at))
      BY <2>1 DEF Prefetch
    <3>2. k(vs, at).pc = pc /\ pc # "moving"
      BY DEF Idle
    <3> HIDE DEF k, pc
    <3> QED
      BY <1>2, <3>1, <3>2
  <2>2. CASE PrefetchThrows(x, c)
    BY <1>1, <2>2 DEF PrefetchThrows
  <2> QED
    BY <1>6, <2>1, <2>2
<1>7. ASSUME NEW x \in User, NEW c \in Caller, Fetch(x, c) \/ Ask(x, c) PROVE FALSE
  <2>1. job[x][c] \in Job
    BY DEF TypeOK
  <2>2. CASE Fetch(x, c)
    <3>1. PICK mp, yp :
            \/ Set(x, c, After(x, c))
            \/ \E v \in Largest(Funds(mp, yp)) :
                 Set(x, c, [job[x][c] EXCEPT !.pc = "found", !.from = v, !.amount = Funds(mp, yp)[v]])
      BY <2>2 DEF Fetch
    <3>2. \A v, n : [job[x][c] EXCEPT !.pc = "found", !.from = v, !.amount = n].pc = "found"
      BY <2>1 DEF Job
    <3> QED
      BY <1>2, <1>4, <3>1, <3>2
  <2>3. CASE Ask(x, c)
    <3>1. PICK lost : Set(x, c, [job[x][c] EXCEPT !.pc = "asked", !.now = CurrentApy(job[x][c]),
                                                  !.seen = Asked(AddrOf(job[x][c]), lost)])
      BY <2>3 DEF Ask
    <3>2. \A n, seen : [job[x][c] EXCEPT !.pc = "asked", !.now = n, !.seen = seen].pc = "asked"
      BY <2>1 DEF Job
    <3> QED
      BY <1>2, <3>1, <3>2
  <2> QED
    BY <1>7, <2>2, <2>3
<1>8. ASSUME NEW x \in User, NEW c \in Caller, FetchThrows(x, c) \/ LookupFails(x, c) \/ Killed(x, c)
      PROVE  FALSE
  BY <1>2, <1>3, <1>4, <1>8 DEF FetchThrows, LookupFails, Killed
<1>9. ASSUME NEW x \in User, Execute(x) \/ UserMoves(x) PROVE FALSE
  BY <1>1, <1>2, <1>3, <1>9 DEF Execute, UserMoves
<1>10. ASSUME NEW x \in User, Dashboard(x) PROVE FALSE
  <2>1. CASE DashboardGoesOn(x)
    <3>1. job'[u]["cron"] = job[u]["cron"]
      BY <2>1 DEF DashboardGoesOn, Set, TypeOK, Caller
    <3> QED
      BY <1>1, <3>1
  <2> QED
    BY <1>2, <1>3, <1>10, <2>1 DEF Dashboard, DashboardHides, DashboardShows, DashboardFails
<1>11. ASSUME (\E v \in Vault : FlipPause(v)) \/ (\E v \in Morpho : Relist(v)) \/ ApyMoves \/ FeedMoves
       PROVE  FALSE
  BY <1>1, <1>11 DEF FlipPause, Relist, ApyMoves, FeedMoves
<1>12. CASE Tick
  <2>1. job'[u]["cron"] = [job[u]["cron"] EXCEPT !.age = @ + 1] /\ job[u]["cron"] \in Job
    BY <1>3, <1>12 DEF Tick, TypeOK
  <2> QED
    BY <2>1 DEF Job
<1>13. CASE UNCHANGED vars
  BY <1>1, <1>13 DEF vars
<1> QED
  BY <1>5, <1>6, <1>7, <1>8, <1>9, <1>10, <1>11, <1>12, <1>13 DEF Next, Evaluate

(* The pause gate, whatever the TTLs, the number of users, the callers that   *)
(* share the cache and what fails: no proposal leaves or enters a vault       *)
(* paused for as long as a cached state can survive, unless the read of its   *)
(* state failed.                                                              *)
THEOREM PauseGate == Spec => PauseHonoured
<1> DEFINE Kept == \A u \in User : job[u]["cron"].pc = "asked" /\ job'[u]["cron"].pc = "moving" =>
       \A v \in {job'[u]["cron"].from, job'[u]["cron"].to} :
         v \in paused /\ pausedFor[v] >= PauseTtl + 2 * MaxCall => ~job[u]["cron"].seen[v].ok
<1>1. ASSUME DecisionInv, [Next]_vars PROVE Kept
  <2> SUFFICES ASSUME NEW u \in User, job[u]["cron"].pc = "asked", job'[u]["cron"].pc = "moving",
                      NEW v \in {job'[u]["cron"].from, job'[u]["cron"].to}, v \in paused,
                      pausedFor[v] >= PauseTtl + 2 * MaxCall, job[u]["cron"].seen[v].ok
               PROVE  FALSE
    OBVIOUS
  <2> DEFINE j == job[u]["cron"]
  <2>1. "cron" \in Caller /\ j \in Job /\ TypeOK /\ AnswersKnown(j)
    BY <1>1 DEF Caller, DecisionInv, TypeOK, JobsKnown
  <2>2. Decide(u, "cron")
    BY <1>1, OnlyDecide DEF DecisionInv
  <2>3. PICK least \in Thresholds : \E w \in Worth(j, least) : job'[u]["cron"] = Proposed(j, w, least)
    <3>1. After(u, "cron") \in Job /\ After(u, "cron").pc # "moving"
      BY <2>1, AfterType
    <3>2. PICK least \in Thresholds :
            \/ Set(u, "cron", After(u, "cron"))
            \/ \E w \in Worth(j, least) : Set(u, "cron", Proposed(j, w, least))
      BY <2>2 DEF Decide
    <3>3. PICK w \in Worth(j, least) : Set(u, "cron", Proposed(j, w, least))
      BY <2>1, <3>1, <3>2, SetType
    <3> QED
      BY <2>1, <3>3, ProposedType, SetType
  <2>4. ~j.seen[v].what /\ v \in Vault
    <3>1. PICK w \in Worth(j, least) : job'[u]["cron"] = Proposed(j, w, least)
      BY <2>3
    <3>2. /\ ~j.seen[w].what /\ ~j.seen[j.from].what
          /\ Proposed(j, w, least).to = w /\ Proposed(j, w, least).from = j.from
      BY <2>1, ProposedType
    <3>3. v \in {j.from, w}
      BY <3>1, <3>2
    <3> QED
      BY <2>1, <3>2, <3>3 DEF TypeOK
  <2>5. pausedFor[v] <= j.age + (IF j.seen[v].new THEN 0 ELSE PauseTtl - 1 + MaxCall)
    BY <2>1, <2>4 DEF AnswersKnown
  <2>6. j.age \in 0..MaxCall /\ pausedFor[v] \in Nat
    BY <2>1, <2>4, TtlAssumption DEF Job, TypeOK, PausedMax
  <2> HIDE DEF j
  <2> QED
    BY <2>5, <2>6, TtlAssumption
<1> QED
  BY <1>1, DecisionInvariant, PTL DEF Spec, PauseHonoured

(* A move that loses yield can only do so on an APY that changed within the   *)
(* life of a cached list and of the run, for any TTLs and markets and whatever *)
(* reads fail, except out of a YO vault that was missing from the list.       *)
THEOREM MovesAreWorth == Spec => MovesGain
<1> DEFINE Paid == \A u \in User :
       LET j == job[u]["cron"]
       IN j.pc = "moving" /\ job'[u]["cron"].pc = "idle" /\ pos'[u] # pos[u] =>
            \/ apy[j.to] - apy[j.from] >= j.least
            \/ j.from \in Yo \ j.vaults
            \/ \E v \in {j.from, j.to} : steady[v] < ListTtl + j.age
<1>1. ASSUME DecisionInv PROVE Paid
  <2> SUFFICES ASSUME NEW u \in User, job[u]["cron"].pc = "moving"
               PROVE  LET j == job[u]["cron"]
                      IN \/ apy[j.to] - apy[j.from] >= j.least
                         \/ j.from \in Yo \ j.vaults
                         \/ \E v \in {j.from, j.to} : steady[v] < ListTtl + j.age
    OBVIOUS
  <2> DEFINE j == job[u]["cron"]
  <2>1. ApysKnown(j) /\ MoveGains(j)
    BY <1>1 DEF DecisionInv, JobsKnown, Caller
  <2>2. j.to \in j.vaults /\ j.at[j.to] - j.now >= j.least
    BY <2>1 DEF MoveGains, Eligible, Gains
  <2>3. j.at[j.to] = apy[j.to] \/ steady[j.to] < ListTtl + j.age
    BY <2>1, <2>2 DEF ApysKnown
  <2>4. \/ j.now = apy[j.from] \/ steady[j.from] < ListTtl + j.age
        \/ j.from \in Yo \ j.vaults
    BY <2>1 DEF ApysKnown
  <2> QED
    BY <2>2, <2>3, <2>4
<1> QED
  BY <1>1, DecisionInvariant, PTL DEF Spec, MovesGain

(* Only the dashboard's two answers of no position hide a user.               *)
LEMMA OnlyHides ==
  ASSUME TypeOK, [Next]_vars, NEW u \in User, ~hidden[u], hidden'[u]
  PROVE  DashboardHides(u) \/ DashboardShows(u)
<1> USE DEF world
<1>1. hidden' # hidden
  OBVIOUS
<1>2. ASSUME NEW x \in User, NEW c \in Caller, Evaluate(x, c) PROVE FALSE
  BY <1>1, <1>2
  DEF Evaluate, Prefetch, PrefetchThrows, Fetch, FetchThrows, LookupFails, Ask, Decide, Killed
<1>3. ASSUME NEW x \in User, Execute(x) \/ UserMoves(x) PROVE FALSE
  BY <1>1, <1>3 DEF Execute, UserMoves
<1>4. ASSUME NEW x \in User, Dashboard(x) PROVE DashboardHides(u) \/ DashboardShows(u)
  <2>1. DashboardHides(x) \/ DashboardShows(x)
    BY <1>1, <1>4 DEF Dashboard, DashboardGoesOn, DashboardFails
  <2>2. \E b : hidden' = [hidden EXCEPT ![x] = b]
    BY <2>1 DEF DashboardHides, DashboardShows
  <2>3. x = u
    BY <2>2 DEF TypeOK
  <2> QED
    BY <2>1, <2>3
<1>5. ASSUME \/ \E v \in Vault : FlipPause(v)
             \/ \E v \in Morpho : Relist(v)
             \/ ApyMoves \/ FeedMoves \/ Tick
      PROVE  FALSE
  BY <1>1, <1>5 DEF FlipPause, Relist, ApyMoves, FeedMoves, Tick
<1>6. CASE UNCHANGED vars
  BY <1>1, <1>6 DEF vars
<1> QED
  BY <1>2, <1>3, <1>4, <1>5, <1>6 DEF Next

(* Whatever fails and for any TTLs: the dashboard (api/optimize) tells a user *)
(* that he has no position only when no vault of the lists it answers from    *)
(* has shares of his on the chain, or when each of his vaults had its read    *)
(* fail or came to hold shares within the life of the cache of positions.     *)
THEOREM FundsStayVisible == Spec => HiddenForCause
<1> DEFINE Caused == \A u \in User : ~hidden[u] /\ hidden'[u] =>
       \A v \in Vault : pos[u][v] > 0 =>
         IF job[u]["page"].pc = "listed" THEN v \notin job[u]["page"].vaults
         ELSE v \in held'[u]["yo"].lost \/ arrived[u][v] < PosTtl
<1>1. ASSUME DecisionInv, [Next]_vars PROVE Caused
  <2> SUFFICES ASSUME NEW u \in User, ~hidden[u], hidden'[u], NEW v \in Vault, pos[u][v] > 0
               PROVE  IF job[u]["page"].pc = "listed" THEN v \notin job[u]["page"].vaults
                      ELSE v \in held'[u]["yo"].lost \/ arrived[u][v] < PosTtl
    OBVIOUS
  <2>1. DashboardHides(u) \/ DashboardShows(u)
    BY <1>1, OnlyHides DEF DecisionInv
  <2>2. CASE DashboardHides(u)
    BY <2>2 DEF DashboardHides, HasActive
  <2>3. CASE DashboardShows(u)
    <3>1. PICK mp \in MorphoPositions(u), yp \in YoPositions(u) :
            Reads(u, mp, yp) /\ hidden' = [hidden EXCEPT ![u] = Funds(mp, yp) = NoFunds]
      BY <2>3 DEF DashboardShows
    <3>2. Funds(mp, yp) = NoFunds
      BY <1>1, <3>1 DEF DecisionInv, TypeOK
    <3>3. IF v \in Morpho THEN mp.what[v] = 0 ELSE yp.what[v] = 0
      <4>1. Funds(mp, yp)[v] = 0
        BY <3>2 DEF NoFunds
      <4> QED
        BY <4>1 DEF Funds
    <3>4. mp \in HeldEntry /\ yp \in HeldEntry /\ held'[u]["yo"] = yp
      BY <1>1, <3>1, ReadTypes, ReadsType DEF DecisionInv
    <3>5. \/ Fresh(mp, PosTtl) /\ arrived[u][v] <= mp.age
          \/ Fresh(yp, PosTtl) /\ (v \in yp.lost \/ arrived[u][v] <= yp.age)
      BY <1>1, <3>3, PositionsKnown DEF DecisionInv, Vault
    <3>6. arrived[u][v] \in Nat
      BY <1>1, TtlAssumption DEF DecisionInv, TypeOK
    <3>7. job[u]["page"].pc # "listed"
      BY <2>3 DEF DashboardShows
    <3> QED
      BY <3>4, <3>5, <3>6, <3>7, TtlAssumption DEF Fresh, HeldEntry
  <2> QED
    BY <2>1, <2>2, <2>3
<1> QED
  BY <1>1, DecisionInvariant, PTL DEF Spec, HiddenForCause
================================================================================
