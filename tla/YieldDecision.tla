----------------------------- MODULE YieldDecision -----------------------------
(***************************************************************************)
(* How the agent chooses a better vault: the decision engine on the lists   *)
(* and positions of the Morpho and YO clients, each behind its Redis cache, *)
(* its pause service with the cache in the process, the Chainlink gate in   *)
(* front of a run, and the dashboard route that evaluates through the same  *)
(* engine and caches.                                                       *)
(*                                                                         *)
(* A cache entry is what was read and its age in ticks; an entry as old as  *)
(* its TTL is gone.  A list carries the APYs it was read with.  A call under *)
(* way has an age as well: time does not pass MaxCall, by when it has        *)
(* answered or the platform has ended it.  A read that fails is a choice,   *)
(* paid for from `faults`, and a change of the world from `changes`.        *)
(***************************************************************************)
EXTENDS Integers, FiniteSets

CONSTANTS
  User, Morpho, Yo,      \* agent addresses; the vaults of the two protocols
  Asset, Usdc,           \* underlying tokens, and the one of every Morpho vault
  Underlying,            \* Underlying[v] of a YO vault
  Markets,               \* possible APYs, in tenths of a percent
  Deep,                  \* the vaults above minLiquidityUsd
  Feeds,                 \* answers of the Chainlink price and sequencer feeds
  Units,                 \* the largest position
  PosTtl, PauseTtl, ListTtl,  \* 30 s, 60 s and 300 s, in ticks
  MaxCall,               \* ticks a run or a request of the dashboard lives
  MaxChanges, MaxFaults  \* bounds on changes of the world, and on failures

Vault == Morpho \cup Yo

ASSUME VaultAssumption == Morpho \cap Yo = {} /\ Morpho # {}
ASSUME TtlAssumption == /\ PosTtl \in Nat \ {0} /\ PauseTtl \in Nat \ {0}
                        /\ ListTtl \in Nat \ {0} /\ MaxCall \in Nat
ASSUME TokenAssumption == Usdc \in Asset /\ Underlying \in [Yo -> Asset]
ASSUME MarketAssumption == Markets \subseteq [Vault -> Nat] /\ Deep \subseteq Vault
ASSUME BoundAssumption == Units \in Nat /\ MaxChanges \in Nat /\ MaxFaults \in Nat

VARIABLES
  apy, pos,              \* APYs; pos[u][v]: shares of u in v, on the chain
  listed, paused, feed,  \* Morpho vaults in the API's list; paused vaults; oracle
  steady, pausedFor, arrived,  \* histories: ticks since the APY of v changed, since v
                         \* was paused, since u came to have shares in v
  list,                  \* cached vault lists by protocol
  held,                  \* cached positions by user and protocol
  pause,                 \* cached pause states of the engine; ok: the read did not fail
  job,                   \* what the cron and the dashboard do for u
  hidden,                \* the dashboard told u last that he has no position
  changes, faults

world == <<apy, pos, listed, paused, feed, steady, pausedFor, arrived>>
vars == <<world, list, held, pause, job, hidden, changes, faults>>

Protocol == {"morpho", "yo"}
Caller == {"cron", "page"}
Of(p) == IF p = "morpho" THEN Morpho ELSE Yo
Min2(a, b) == IF a < b THEN a ELSE b

(* How far back the histories must tell. *)
SteadyMax == ListTtl + MaxCall
PausedMax == PauseTtl + 2 * MaxCall

NoFunds == [v \in Vault |-> 0]
ListEntry == [what : SUBSET Vault, at : [Vault -> Nat], age : 0..ListTtl]
(* lost: the vaults with shares whose balance could not be read. *)
HeldEntry == [what : [Vault -> 0..Units], lost : SUBSET Vault, age : 0..PosTtl]
PauseEntry == [what : BOOLEAN, ok : BOOLEAN, age : 0..PauseTtl]
NoList == [what |-> {}, at |-> NoFunds, age |-> ListTtl]
NoHeld == [what |-> NoFunds, lost |-> {}, age |-> PosTtl]
NoPause == [what |-> FALSE, ok |-> FALSE, age |-> PauseTtl]

Fresh(e, ttl) == e.age < ttl
(* Faulty variant of Older: the entry is set without its TTL. *)
OlderStuck(e, ttl, gone) == e

(* A tick of an entry that was set with a TTL. *)
Older(e, ttl, gone) == IF e.age + 1 < ttl THEN [e EXCEPT !.age = @ + 1] ELSE gone

(* minApyImprovement, and targetedApyImprovement for a vault the APY monitor flagged. *)
Thresholds == {5, 1}
SomeVault == CHOOSE v \in Vault : TRUE
Unseen == [v \in Vault |-> [what |-> FALSE, ok |-> FALSE, new |-> FALSE]]
Idle == [pc |-> "idle", vaults |-> {}, at |-> NoFunds, from |-> SomeVault, to |-> SomeVault,
         amount |-> 0, now |-> 0, least |-> 5, seen |-> Unseen, age |-> 0]
(* vaults, at: the lists of the run or request; from, amount: the position to leave;  *)
(* now: its APY; seen: the answers on pauses, new if the chain gave them.             *)
Job == [pc : {"idle", "listed", "ready", "found", "asked", "moving", "showing"},
        vaults : SUBSET Vault, at : [Vault -> Nat], from : Vault, to : Vault,
        amount : 0..Units, now : Nat, least : Thresholds,
        seen : [Vault -> [what : BOOLEAN, ok : BOOLEAN, new : BOOLEAN]], age : 0..MaxCall]

TypeOK ==
  /\ apy \in Markets /\ pos \in [User -> [Vault -> 0..Units]]
  /\ listed \subseteq Morpho /\ paused \subseteq Vault /\ feed \in Feeds
  /\ steady \in [Vault -> 0..SteadyMax] /\ pausedFor \in [Vault -> 0..PausedMax]
  /\ arrived \in [User -> [Vault -> 0..PosTtl]]
  /\ list \in [Protocol -> ListEntry]
  /\ held \in [User -> [Protocol -> HeldEntry]]
  /\ pause \in [Vault -> PauseEntry]
  /\ job \in [User -> [Caller -> Job]]
  /\ hidden \in [User -> BOOLEAN]
  /\ changes \in 0..MaxChanges /\ faults \in 0..MaxFaults

Init ==
  /\ apy \in Markets /\ listed = Morpho /\ paused = {} /\ feed \in Feeds
  /\ \E v \in Vault : pos = [u \in User |-> [NoFunds EXCEPT ![v] = Units]]
  /\ steady = [v \in Vault |-> SteadyMax] /\ pausedFor = [v \in Vault |-> 0]
  /\ arrived = [u \in User |-> [v \in Vault |-> PosTtl]]
  /\ list = [p \in Protocol |-> NoList]
  /\ held = [u \in User |-> [p \in Protocol |-> NoHeld]]
  /\ pause = [v \in Vault |-> NoPause]
  /\ job = [u \in User |-> [c \in Caller |-> Idle]] /\ hidden = [u \in User |-> FALSE]
  /\ changes = 0 /\ faults = 0

Cost(ok) == IF ok THEN 0 ELSE 1
Pay(ok) == faults + Cost(ok) <= MaxFaults /\ faults' = faults + Cost(ok)
Set(u, c, j) == job' = [job EXCEPT ![u][c] = j]

-----------------------------------------------------------------------------
(* The reads, each as the set of entries it may answer with, which are also  *)
(* what it leaves in its cache.  A call that throws is an action of its own.  *)
Quoted(S) ==
  [what |-> S, at |-> [v \in Vault |-> IF v \in S THEN apy[v] ELSE 0], age |-> 0]

(* fetchVaults of the Morpho client: the API's filter and the risk gate, cached *)
(* also when empty.                                                             *)
MorphoLists ==
  IF Fresh(list["morpho"], ListTtl) THEN {list["morpho"]} ELSE {Quoted(listed)}

(* fetchVaults of the YO client: a vault whose snapshot or multicall fails is  *)
(* left out, whatever remains is cached, but never the empty list.             *)
YoEntry(S) == IF S = {} THEN NoList ELSE Quoted(S)
YoLists ==
  IF Fresh(list["yo"], ListTtl) THEN {list["yo"]} ELSE {YoEntry(Yo \ out) : out \in SUBSET Yo}

(* The positions of u as the clients see them.  Morpho: all or nothing, and   *)
(* its answer that there are none may be a NOT_FOUND, which is not cached.    *)
(* YO: without the vaults whose read failed.                                  *)
Positions(u, S, out) ==
  [what |-> [v \in Vault |-> IF v \in S \ out THEN pos[u][v] ELSE 0],
   lost |-> {v \in out : pos[u][v] > 0}, age |-> 0]
MorphoPositions(u) ==
  IF Fresh(held[u]["morpho"], PosTtl) THEN {held[u]["morpho"]}
  ELSE {Positions(u, Morpho, {})} \cup {e \in {NoHeld} : \A v \in Morpho : pos[u][v] = 0}
YoPositions(u) ==
  IF Fresh(held[u]["yo"], PosTtl) THEN {held[u]["yo"]}
  ELSE {Positions(u, Yo, out) : out \in SUBSET Yo}

(* An answer that nothing is missing from, or that the cache gave. *)
WholeList(yl) == Fresh(list["yo"], ListTtl) \/ yl.what = Yo
WholeHeld(u, yp) == Fresh(held[u]["yo"], PosTtl) \/ yp.lost = {}

Funds(mp, yp) == [v \in Vault |-> IF v \in Morpho THEN mp.what[v] ELSE yp.what[v]]

-----------------------------------------------------------------------------
(* The decision.  A YO position whose vault is not in the list is taken for   *)
(* USDC at an APY of 0; a Morpho one is looked up by itself.  All other APYs  *)
(* are those of the lists.                                                    *)
TokenOf(v) == IF v \in Yo THEN Underlying[v] ELSE Usdc
AssetOf(v, L) == IF v \in Yo /\ v \in L THEN Underlying[v] ELSE Usdc
(* Faulty variant of CurrentApy: no lookup of a Morpho vault outside the list. *)
ListedApy(j) == j.at[j.from]
CurrentApy(j) == IF j.from \in Morpho \ j.vaults THEN apy[j.from] ELSE j.at[j.from]

(* allPositions.reduce: the largest, and Morpho's among equals; which of one   *)
(* protocol comes first is the order its answers came in.                      *)
Largest(f) ==
  {v \in Vault : /\ f[v] > 0 /\ \A w \in Vault : f[w] <= f[v]
                 /\ v \in Yo => \A w \in Morpho : f[w] < f[v]}

Eligible(j) ==
  {w \in j.vaults \cap Deep : w # j.from /\ AssetOf(w, j.vaults) = AssetOf(j.from, j.vaults)}
AddrOf(j) == Eligible(j) \cup {j.from}
Best(j, S) == {w \in S : \A x \in S : j.at[x] <= j.at[w]}
Gains(j, w, least) == j.at[w] - j.now >= least

(* isSequencerUp and getUsdcPrice: no answer, a sequencer that is down or came *)
(* back within the hour, a price older than a day or 0.5 % off close the gate. *)
(* Hours and tenths of a percent.                                             *)
Safe(f) == f.answered /\ f.up /\ f.upFor >= 1 /\ f.age <= 24 /\ f.off \in -5..5

-----------------------------------------------------------------------------
(* A run of the cron, behind the gate, and a request of the dashboard take the *)
(* vault lists first.                                                          *)
Begins(u, c) == job[u][c].pc = "idle" /\ (c = "cron" => Safe(feed))

Prefetch(u, c) ==
  /\ Begins(u, c)
  /\ \E ml \in MorphoLists, yl \in YoLists :
       /\ list' = [p \in Protocol |-> IF p = "morpho" THEN ml ELSE yl]
       /\ Pay(WholeList(yl))
       /\ Set(u, c, [Idle EXCEPT
            !.pc = IF c = "cron" THEN "ready" ELSE "listed",
            !.vaults = ml.what \cup yl.what,
            !.at = [v \in Vault |-> IF v \in Morpho THEN ml.at[v] ELSE yl.at[v]]])
  /\ UNCHANGED <<world, held, pause, hidden, changes>>

(* One client throws, which ends the run or request; the other one's answer    *)
(* is cached all the same.                                                     *)
PrefetchThrows(u, c) ==
  /\ Begins(u, c) /\ Pay(FALSE)
  /\ \E ml \in MorphoLists \cup {list["morpho"]}, yl \in YoLists \cup {list["yo"]} :
       list' = [p \in Protocol |-> IF p = "morpho" THEN ml ELSE yl]
  /\ UNCHANGED <<world, held, pause, job, hidden, changes>>

(* Faulty variant of HasActive: a balance that cannot be read counts as none.  *)
HasActiveRead(u, L, lost) == \E v \in L \ lost : pos[u][v] > 0

(* hasActivePositions: a balance that cannot be read counts as one.          *)
HasActive(u, L, lost) == \E v \in L : v \in lost \/ pos[u][v] > 0

(* The dashboard asks the chain for shares in the listed vaults.  Without any *)
(* it answers "No active positions"; otherwise it goes on to evaluate.        *)
DashboardHides(u) ==
  /\ job[u]["page"].pc = "listed"
  /\ \E lost \in SUBSET job[u]["page"].vaults :
       ~HasActive(u, job[u]["page"].vaults, lost) /\ Pay(lost = {})
  /\ Set(u, "page", Idle)
  /\ hidden' = [hidden EXCEPT ![u] = TRUE]
  /\ UNCHANGED <<world, list, held, pause, changes>>

DashboardGoesOn(u) ==
  /\ job[u]["page"].pc = "listed"
  /\ \E lost \in SUBSET job[u]["page"].vaults :
       HasActive(u, job[u]["page"].vaults, lost) /\ Pay(lost = {})
  /\ Set(u, "page", [job[u]["page"] EXCEPT !.pc = "ready"])
  /\ UNCHANGED <<world, list, held, pause, hidden, changes>>

-----------------------------------------------------------------------------
(* evaluateRebalancing on those lists.  The cron stops at an evaluation        *)
(* without a proposal, also at one that threw; the dashboard shows positions   *)
(* after any.                                                                  *)
After(u, c) ==
  IF c = "cron" THEN Idle ELSE [Idle EXCEPT !.pc = "showing", !.age = job[u][c].age]

Reads(u, mp, yp) ==
  held' = [held EXCEPT ![u] = [p \in Protocol |-> IF p = "morpho" THEN mp ELSE yp]]

Fetch(u, c) ==
  /\ job[u][c].pc = "ready"
  /\ \E mp \in MorphoPositions(u), yp \in YoPositions(u) :
       LET f == Funds(mp, yp)
       IN /\ Reads(u, mp, yp) /\ Pay(WholeHeld(u, yp))
          /\ IF Largest(f) = {} THEN Set(u, c, After(u, c))
             ELSE \E v \in Largest(f) :
               Set(u, c, [job[u][c] EXCEPT !.pc = "found", !.from = v, !.amount = f[v]])
  /\ UNCHANGED <<world, list, pause, hidden, changes>>

(* The Morpho read throws; the YO read finishes and is cached.               *)
Broken(u) ==
  /\ \E yp \in YoPositions(u) : Reads(u, held[u]["morpho"], yp)
  /\ Pay(FALSE)
FetchThrows(u, c) ==
  /\ job[u][c].pc = "ready" /\ Broken(u) /\ Set(u, c, After(u, c))
  /\ UNCHANGED <<world, list, pause, hidden, changes>>

(* A Morpho vault outside the list whose details cannot be had.              *)
LookupFails(u, c) ==
  /\ job[u][c].pc = "found" /\ job[u][c].from \in Morpho \ job[u][c].vaults
  /\ Pay(FALSE) /\ Set(u, c, After(u, c))
  /\ UNCHANGED <<world, list, held, pause, hidden, changes>>

(* Faulty variant of Merge: a failed read keeps the look of a good one. *)
MergeSilent(v, lost) == [what |-> v \in paused /\ v \notin lost, ok |-> TRUE, new |-> TRUE]

(* checkVaultPauseStates: what the cache does not have is asked of the chain.  *)
(* Both checkers read paused() of every address, the YO one first, and the     *)
(* later answer overwrites the earlier one: `lost` are the reads of the Morpho *)
(* checker that failed, which count as not paused whatever the YO checker saw. *)
Stale(S) == {v \in S : ~Fresh(pause[v], PauseTtl)}
Merge(v, lost) == [what |-> v \in paused /\ v \notin lost, ok |-> v \notin lost, new |-> TRUE]
Known(v) == [what |-> pause[v].what, ok |-> pause[v].ok, new |-> FALSE]
Asked(S, lost) ==
  [v \in Vault |-> IF v \in Stale(S) THEN Merge(v, lost) ELSE IF v \in S THEN Known(v)
                   ELSE Unseen[v]]

Ask(u, c) ==
  /\ job[u][c].pc = "found"
  /\ \E lost \in SUBSET Stale(AddrOf(job[u][c])) :
       /\ Pay(lost = {})
       /\ Set(u, c, [job[u][c] EXCEPT !.pc = "asked", !.now = CurrentApy(job[u][c]),
                                      !.seen = Asked(AddrOf(job[u][c]), lost)])
  /\ UNCHANGED <<world, list, held, pause, hidden, changes>>

(* Faulty variant of Stored: what the cache gave is stored again, with a new stamp. *)
StoredAgain(seen) ==
  [v \in Vault |-> IF seen[v].new \/ seen[v].ok
                   THEN [what |-> seen[v].what, ok |-> seen[v].ok, age |-> 0] ELSE pause[v]]

(* The answers are back: they are stamped and stored, whatever others have stored *)
(* meanwhile.                                                                     *)
Stored(seen) ==
  [v \in Vault |-> IF seen[v].new THEN [what |-> seen[v].what, ok |-> seen[v].ok, age |-> 0]
                   ELSE pause[v]]

(* The rest of the evaluation: a paused source blocks, paused targets are      *)
(* dropped, and the best of what remains must gain the threshold.              *)
Proposed(j, w, least) == [j EXCEPT !.pc = "moving", !.to = w, !.least = least, !.seen = Unseen]
Worth(j, least) ==
  LET open == {w \in Eligible(j) : ~j.seen[w].what}
  IN {w \in Best(j, open) : ~j.seen[j.from].what /\ Gains(j, w, least)}
Decide(u, c) ==
  /\ job[u][c].pc = "asked"
  /\ pause' = Stored(job[u][c].seen)
  /\ \E least \in Thresholds :
       IF c = "page" \/ Worth(job[u][c], least) = {} THEN Set(u, c, After(u, c))
       ELSE \E w \in Worth(job[u][c], least) : Set(u, c, Proposed(job[u][c], w, least))
  /\ UNCHANGED <<world, list, held, hidden, changes, faults>>

(* The rebalance: one batch that redeems the shares the evaluation saw and    *)
(* deposits what it gets.  The chain refuses it when the shares are gone, a   *)
(* vault is paused or the target takes another token; otherwise it may still  *)
(* fail.  No cache is told.                                                   *)
Accepts(u, j) ==
  /\ j.from \notin paused /\ j.to \notin paused /\ pos[u][j.from] >= j.amount
  /\ TokenOf(j.from) = TokenOf(j.to)
Moved(u, j) == [pos[u] EXCEPT ![j.from] = @ - j.amount, ![j.to] = Min2(@ + j.amount, Units)]
Arrivals == [u \in User |-> [v \in Vault |->
               IF pos[u][v] = 0 /\ pos'[u][v] > 0 THEN 0 ELSE arrived[u][v]]]
Execute(u) ==
  LET j == job[u]["cron"]
  IN /\ j.pc = "moving"
     /\ \/ Accepts(u, j) /\ pos' = [pos EXCEPT ![u] = Moved(u, j)] /\ Pay(TRUE)
        \/ ~Accepts(u, j) /\ UNCHANGED pos /\ Pay(TRUE)
        \/ UNCHANGED pos /\ Pay(FALSE)
     /\ arrived' = Arrivals
     /\ Set(u, "cron", Idle)
     /\ UNCHANGED <<apy, listed, paused, feed, steady, pausedFor, list, held, pause, hidden, changes>>

(* The dashboard reads the positions once more and shows what it gets, which  *)
(* may be nothing.                                                            *)
DashboardShows(u) ==
  /\ job[u]["page"].pc = "showing"
  /\ \E mp \in MorphoPositions(u), yp \in YoPositions(u) :
       /\ Reads(u, mp, yp) /\ Pay(WholeHeld(u, yp))
       /\ hidden' = [hidden EXCEPT ![u] = Funds(mp, yp) = NoFunds]
  /\ Set(u, "page", Idle)
  /\ UNCHANGED <<world, list, pause, changes>>

(* The Morpho read throws, or the lookup of an unlisted vault after it: an     *)
(* error page.                                                                *)
DashboardFails(u) ==
  /\ job[u]["page"].pc = "showing" /\ Pay(FALSE) /\ Set(u, "page", Idle)
  /\ \E mp \in MorphoPositions(u) \cup {held[u]["morpho"]}, yp \in YoPositions(u) : Reads(u, mp, yp)
  /\ UNCHANGED <<world, list, pause, hidden, changes>>

(* The platform ends a run or a request.                                      *)
Killed(u, c) ==
  /\ job[u][c].pc # "idle" /\ Pay(FALSE) /\ Set(u, c, Idle)
  /\ UNCHANGED <<world, list, held, pause, hidden, changes>>

-----------------------------------------------------------------------------
(* The world: markets, guardians, the API's quality gates, the feeds, the user, *)
(* time.                                                                        *)
Change == changes < MaxChanges /\ changes' = changes + 1

ApyMoves ==
  /\ Change /\ apy' \in Markets
  /\ steady' = [v \in Vault |-> IF apy'[v] = apy[v] THEN steady[v] ELSE 0]
  /\ UNCHANGED <<pos, listed, paused, feed, pausedFor, arrived, list, held, pause, job, hidden, faults>>

FlipPause(v) ==
  /\ Change
  /\ paused' = (paused \ {v}) \cup ({v} \ paused)
  /\ pausedFor' = [pausedFor EXCEPT ![v] = 0]
  /\ UNCHANGED <<apy, pos, listed, feed, steady, arrived, list, held, pause, job, hidden, faults>>

Relist(v) ==
  /\ Change
  /\ listed' = (listed \ {v}) \cup ({v} \ listed)
  /\ UNCHANGED <<apy, pos, paused, feed, steady, pausedFor, arrived, list, held, pause, job, hidden, faults>>

FeedMoves ==
  /\ Change /\ feed' \in Feeds
  /\ UNCHANGED <<apy, pos, listed, paused, steady, pausedFor, arrived, list, held, pause, job, hidden, faults>>

UserMoves(u) ==
  /\ Change
  /\ \E v \in Vault, n \in 0..Units : pos' = [pos EXCEPT ![u][v] = n]
  /\ arrived' = Arrivals
  /\ UNCHANGED <<apy, listed, paused, feed, steady, pausedFor, list, held, pause, job, hidden, faults>>

Tick ==
  /\ \A u \in User, c \in Caller : job[u][c].pc # "idle" => job[u][c].age < MaxCall
  /\ list' = [p \in Protocol |-> Older(list[p], ListTtl, NoList)]
  /\ held' = [u \in User |-> [p \in Protocol |-> Older(held[u][p], PosTtl, NoHeld)]]
  /\ pause' = [v \in Vault |-> Older(pause[v], PauseTtl, NoPause)]
  /\ steady' = [v \in Vault |-> Min2(steady[v] + 1, SteadyMax)]
  /\ pausedFor' = [v \in Vault |-> IF v \in paused THEN Min2(pausedFor[v] + 1, PausedMax) ELSE 0]
  /\ arrived' = [u \in User |-> [v \in Vault |-> Min2(arrived[u][v] + 1, PosTtl)]]
  /\ job' = [u \in User |-> [c \in Caller |->
       IF job[u][c].pc = "idle" THEN job[u][c] ELSE [job[u][c] EXCEPT !.age = @ + 1]]]
  /\ UNCHANGED <<apy, pos, listed, paused, feed, hidden, changes, faults>>

Evaluate(u, c) ==
  \/ Prefetch(u, c) \/ PrefetchThrows(u, c) \/ Fetch(u, c) \/ FetchThrows(u, c)
  \/ LookupFails(u, c) \/ Ask(u, c) \/ Decide(u, c) \/ Killed(u, c)
Dashboard(u) ==
  DashboardHides(u) \/ DashboardGoesOn(u) \/ DashboardShows(u) \/ DashboardFails(u)

Next ==
  \/ \E u \in User :
       (\E c \in Caller : Evaluate(u, c)) \/ Execute(u) \/ Dashboard(u) \/ UserMoves(u)
  \/ \E v \in Vault : FlipPause(v)
  \/ \E v \in Morpho : Relist(v)
  \/ ApyMoves \/ FeedMoves \/ Tick

Spec == Init /\ [][Next]_vars

(* The cron comes back to every user, what is under way goes on or is ended,  *)
(* and time passes.                                                           *)
Goes(u, c) == Fetch(u, c) \/ Ask(u, c) \/ Decide(u, c)
Ends(u) == DashboardHides(u) \/ DashboardGoesOn(u) \/ DashboardShows(u)
FairSpec ==
  /\ Spec /\ WF_vars(Tick)
  /\ \A u \in User : /\ WF_vars(Prefetch(u, "cron")) /\ WF_vars(Execute(u)) /\ WF_vars(Ends(u))
                     /\ \A c \in Caller : WF_vars(Goes(u, c))

-----------------------------------------------------------------------------
(* What the caches and the calls under way say of the world.  A list has the   *)
(* APYs of now, or of no more than its age ago; positions leave out only what  *)
(* arrived since or could not be read; a "not paused" that was really read is  *)
(* younger than its entry and the call that stored it, since the answer may    *)
(* have been stored late, over a newer one.                                    *)
ListKnown ==
  \A p \in Protocol, v \in Vault :
    v \in list[p].what /\ Fresh(list[p], ListTtl) =>
      v \in Of(p) /\ (list[p].at[v] = apy[v] \/ steady[v] <= list[p].age)
HeldKnown ==
  \A u \in User :
    /\ held[u]["morpho"].lost = {}
    /\ \A p \in Protocol : Fresh(held[u][p], PosTtl) =>
         \A v \in Of(p) : pos[u][v] > 0 /\ held[u][p].what[v] = 0 =>
           v \in held[u][p].lost \/ arrived[u][v] <= held[u][p].age
PauseKnown ==
  \A v \in paused :
    Fresh(pause[v], PauseTtl) /\ pause[v].ok /\ ~pause[v].what =>
      pausedFor[v] <= pause[v].age + MaxCall

(* The APYs a call decides on, those of its lists and the one it looked up,    *)
ApysKnown(j) ==
  LET old(v) == steady[v] < ListTtl + j.age
  IN /\ j.pc # "idle" => \A v \in j.vaults : j.at[v] = apy[v] \/ old(v)
     /\ j.pc \in {"asked", "moving"} =>
          j.now = apy[j.from] \/ old(j.from) \/ j.from \in Yo \ j.vaults
(* the answers on pauses that it has not decided on yet,                       *)
AnswersKnown(j) ==
  j.pc = "asked" => \A v \in paused : j.seen[v].ok /\ ~j.seen[v].what =>
    pausedFor[v] <= j.age + (IF j.seen[v].new THEN 0 ELSE PauseTtl - 1 + MaxCall)
(* and the move it has decided on.                                             *)
MoveGains(j) == j.pc = "moving" => j.to \in Eligible(j) /\ Gains(j, j.to, j.least)

JobsKnown ==
  \A u \in User, c \in Caller :
    ApysKnown(job[u][c]) /\ AnswersKnown(job[u][c]) /\ MoveGains(job[u][c])
DecisionInv == TypeOK /\ ListKnown /\ HeldKnown /\ PauseKnown /\ JobsKnown

(* The pause gate: a vault that has been paused for as long as the pause      *)
(* cache lives, and the call that stored the state and the one that decides   *)
(* take, is neither left nor entered by a new proposal, unless the read of    *)
(* its state failed, which the service takes for not paused.                  *)
PauseHonoured ==
  [][\A u \in User : job[u]["cron"].pc = "asked" /\ job'[u]["cron"].pc = "moving" =>
       \A v \in {job'[u]["cron"].from, job'[u]["cron"].to} :
         v \in paused /\ pausedFor[v] >= PauseTtl + 2 * MaxCall =>
           ~job[u]["cron"].seen[v].ok]_vars

(* A move of the agent loses yield only on an APY that changed within the     *)
(* life of a cached list and of the run: otherwise it gains the threshold at  *)
(* the APYs of the moment it is made, whatever reads failed, or leaves a YO   *)
(* vault that was missing from the list the decision was made on.             *)
MovesGain ==
  [][\A u \in User :
       LET j == job[u]["cron"]
       IN j.pc = "moving" /\ job'[u]["cron"].pc = "idle" /\ pos'[u] # pos[u] =>
            \/ apy[j.to] - apy[j.from] >= j.least
            \/ j.from \in Yo \ j.vaults
            \/ \E v \in {j.from, j.to} : steady[v] < ListTtl + j.age]_vars

(* The dashboard hides the positions of a user for two causes.  The chain      *)
(* showed no shares in any vault of its lists; or it read the positions and    *)
(* every vault with shares had its read fail, or has had them for less than    *)
(* the cache of positions lives.                                               *)
HiddenForCause ==
  [][\A u \in User : ~hidden[u] /\ hidden'[u] =>
       \A v \in Vault : pos[u][v] > 0 =>
         IF job[u]["page"].pc = "listed" THEN v \notin job[u]["page"].vaults
         ELSE v \in held'[u]["yo"].lost \/ arrived[u][v] < PosTtl]_vars

(* The engine moves funds between vaults of one underlying token only        *)
(* (decision-engine.ts:207).                                                 *)
SameAssetOnly ==
  \A u \in User : LET j == job[u]["cron"]
                  IN j.pc = "moving" => TokenOf(j.from) = TokenOf(j.to)

(* When nothing fails or changes any more, the largest position of a user, if *)
(* it is larger than all others, comes to rest where no open vault of its     *)
(* token gains the threshold: the caches delay the agent, they do not keep it *)
(* from the better vault or send it back and forth.                           *)
Improvable(u) ==
  \E v \in Vault : Largest(pos[u]) = {v} /\ v \notin paused /\
    \E w \in (Deep \cap (listed \cup Yo)) \ paused :
      w # v /\ TokenOf(w) = TokenOf(v) /\ apy[w] - apy[v] >= 5
Rests(u) == Safe(feed) => ~Improvable(u)
Settles == \A u \in User : <>[]Rests(u)
================================================================================
