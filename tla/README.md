# A formal model of Tapioca's agent

Tapioca lets users hand a restricted session key to an agent that moves their
USDC between yield vaults, claims rewards, redeems in an emergency and sends
user-paid transfers. The parts that must not go wrong run concurrently, on
serverless functions, in a long-running sentinel and in browsers, against Redis,
Postgres, Privy and a bundler, each of which may fail by itself. The modules here
model those parts from the source under `src/`; TLC checks them on small
instances and TLAPS proves every safety property of them for every instance.

```
cd tla
tlc -workers 2 -config cron_requests.cfg MCAgentCron    # one run
tlapm AgentCronProofs.tla                               # one module's proofs
```

## 1. The system

| Component | State it keeps | Operations | Meets the others through |
|---|---|---|---|
| User lock, `lib/redis/distributed-lock.ts` | one key per user with a TTL | acquire, release | cron, reward claims and sentinel bracket their work with it |
| Session registry, `app/api/agent/{register,generate-session-key,undelegate}` | the `users` row; the Redis blacklist | register, toggle, revoke, undelegate | the cron reads row and blacklist, requests resolve the row |
| Rebalancing cron, `lib/agent/cron-orchestration-service.ts` | a snapshot and a summary per run; `agent_actions` rows | run: rebalance phase, then claim phase, in chunks | lock, registry, operation counter, executors |
| Decision engine, pause service, oracle, market data, `lib/agent/decision-engine.ts`, `lib/shared`, `lib/{morpho,yo}/api-client.ts` | caches of lists, positions and pause states | evaluate, read through, refresh | the cron and the dashboard share the caches |
| Kernel account, `lib/zerodev`, `lib/agent/rebalance-executor.ts` | the account's delegation and permissions on chain, the stored session | sign, register, execute a batch, undelegate | the executors of cron, requests and sentinel |
| Vault operations and claims, `lib/agent/vault-operation-service.ts`, `app/api/vault`, `app/api/yo/rewards/claim` | none of their own | redeem, deposit, claim | registry, counter; only the claim takes the lock |
| Rate limits, `lib/redis/rate-limiter.ts` | sorted sets of time stamps, a daily operation counter | check, record, check-and-record, count | transfers, cron, requests |
| Idempotency keys, `lib/redis/idempotency.ts` | a lock and a cached answer per key | run a handler once | transfers |
| Transfers, `app/api/transfer/send` | `agent_actions` and `transfer_history` rows | send | idempotency, both limits, the executor |
| Send dialog, `components/send-funds`, `hooks/useWallet.ts` | reducer, timers, calls under way | type, confirm, cancel, retry, close | name resolution, `/api/transfer/*` |
| Wallet selection, `hooks/useWalletSelection.ts` | React state, a ref, localStorage | choose, restore, fall back | every request of the browser names the wallet |
| Earn dialog, `components/earn-yield`, `hooks/useOptimizer.ts` | reducer, per-position state, query caches | deposit, exit, register, toggle | vault and agent routes |
| Authentication, agent address, the routes that read | a cache of Privy users in memory, agent addresses in Redis | authenticate, resolve, read | in front of every route |
| Session storage, `lib/security`, `scripts/migrate-encrypt-keys.ts` | the two authorization columns | encrypt, decrypt, migrate | registry, transfers |
| Sentinel, `sentinel/` | confirmation buffer, rolling windows, incidents (in memory); `sentinel_incidents` rows | poll, exit | the user lock, the users table |
| Indexer, alerts, relay routes, error tracking, the rest of the UI, scripts | caches and reads | | section 5 |

What is hard here: two cron runs (the daily one and one with target vaults)
and the requests of their users interleave at every `await`; a lock, a cached
answer, a cached user and a blacklist entry each end by a TTL, whoever still
relies on it; a function may die between any two steps; a UserOp may be mined
while its receipt is lost; Redis and Postgres reject separately; the sentinel's
`setInterval` does not wait for the last poll; in the browser answers arrive at
components that are gone, and effects run with the values of an older render.
`PROJECT.json` lists each such hazard at its line.

What makes each part correct: one worker at a time acts for a user (lock, cron,
sentinel); no one is locked out or waits for ever (lock, cron, dialogs); an
acknowledged revocation holds (registry, cron); rows, counters and summaries say
what happened (cron); no window admits too many transfers and no retry is lied to
(transfers); what the user is shown is what was done (dialogs); a move gains and
respects a pause, as far as the age of the caches lets it, and positions are hidden
for a cause only (decision); an execution is sent once, paid by whom it should be,
and never refused by its own call policy (Kernel account); no grant rests on wallets
lost long ago (access); no stored session is lost (migration); a lasting breach is
answered (sentinel).

## 2. The modules

| Module | Models | Checked by | Proofs |
|---|---|---|---|
| `UserMutex` | the abstract promise of a lock: at most one worker busy per user | refined by four | |
| `Wallets` | the addresses and the null value that the next two modules share | | |
| `UserLock` | the lock on both stores, with TTLs and time | `MCServices` (memory), `MCAgentProgress` (Redis) | `UserLockProofs` |
| `SessionRegistry` | the row, the blacklist, the five requests that write them | `MCServices`, `MCSessionRegistry` | `SessionRegistryProofs` |
| `AgentCron` | runs, tasks and requests; extends `SessionRegistry` | `MCAgentCron`, `MCAgentProgress` | `AgentCronProofs` |
| `TransferSend` | `POST /api/transfer/send` with idempotency and limits | `MCTransfers`, `MCTransferSend` | `TransferSendProofs` |
| `Sentinel` | polls, incidents and exits of one vault | `MCSentinel` | `SentinelProofs` |
| `YieldDecision` | the choice of a vault over cached lists, positions and pause states, and the dashboard route beside it | `MCYieldDecision`, `MCAgentProgress` | `YieldDecisionProofs` |
| `KernelAccount` | sessions, policies, batches, executions, undelegation | `MCServices`, `MCKernelAccount` | `KernelAccountProofs` |
| `KeyMigration` | the script that encrypts the stored sessions | `MCTransfers` | `TransferSuiteProofs` |
| `SendForm` | the dialog that sends, its lookups and calls | `MCTransfers`, by itself | `TransferSuiteProofs` |
| `WalletSelection` | which wallet the browser acts with | `MCTransfers` | `TransferSuiteProofs` |
| `AgentAccess` | authentication, agent addresses, the routes that read | `MCTransfers` | `TransferSuiteProofs` |
| `TransferSuite` | `TransferSend` and the four modules above side by side | `MCTransfers` | `TransferSuiteProofs` |
| `EarnModal` | the dialog of deposits and exits | `MCAgentProgress` | |

`UserMutex` is the abstract specification of four components. `UserLock` shows
that the key with its `lockId` and TTL implements it; `AgentCron`, `Sentinel`
and `TransferSend` abstract a lock to its holder and show that *their* brackets,
with their early returns, failures and crashes, implement it too. What they take
from it is `Exclusive`: nobody else acts for the user, and no worker for two.

`MCServices`, `MCAgentCron`, `MCAgentProgress` and `TransferSuite` (which
`MCTransfers` gives its values) put several parts side by side: `part` is chosen
at the start and only that part moves. Nothing is composed by this; it is one TLC run for several state
spaces, and a theorem of the suite is one of the part it names.

### How state and actions correspond to the code

The state of a request, task, poll, execution or exit is a program counter with
one value per `await`: everything between two awaits is one action, since Node
runs it without interruption. A rejected promise is a disjunct of the action whose
await it is; in the back end it is enabled by a member of `Fault` (`Failure` in
`KernelAccount`):

| Member | What may happen |
|---|---|
| `"store"` | a Redis call rejects |
| `"sql"` | a Postgres query rejects |
| `"crash"` | a function instance dies |
| `"receipt"`, `"lost"` | an operation is mined but its answer is lost |
| `"revert"` | (sentinel) an operation is mined and reverts |
| `"rpc"`, `"sponsor"` | (Kernel account) a read of the chain fails; the paymaster declines |
| `"lapse"`, `"slow"` | a lock expires under a holder still at work |
| `"forget"` | (transfers) the TTL of a cached answer ends |

* **UserLock.** `stored[u]`, `left[u]` are the Redis key and its TTL; `id[w]` is
  the `lockId` a caller keeps. `EvalRelease` is the Lua script; `MemoryGet` and
  `MemoryDel` are the two steps of the in-memory release. `Tick` ages keys and
  callers together. `Abandon` is a caller that dies, `Restart` the process that
  holds the in-memory store.
* **SessionRegistry.** `row[u]` has the three columns every reader uses. A key
  stands for its encrypted authorization. `RegisterKey` is the two POST routes,
  `Upsert` their statement; `Revoke*` are the SELECT, the blacklisting and the UPDATE of DELETE;
  `Toggle*` is PATCH, `Undelegate*` the relayed undelegation. `acked` and `wiped`
  are history.
* **AgentCron.** `run[r]` has the snapshot (`users`), what no chunk has taken
  yet (`todo`) and whether `Promise.all` has rejected (`aborted`); `task[<<r, u>>]`
  is the callback of one user. `Lock`, `LockBusy`, `StoreRejects` and `Release`
  are the bracket; `Evaluate` to `CountWrite` its body for either phase.
  `count[r]` is the `CronSummary`. The chain is `pos` (where the funds are) and
  the histories `sent`, `moves`, `claimed`. What a decision, a reward query or the
  chain answers is a choice.
* **YieldDecision.** A cache entry is what was read and its age; an entry as old as
  its TTL is gone. A list carries the APYs it was read with, and a decision compares
  those. An evaluation is `Prefetch` (the lists), `Fetch` (the positions), `Ask` (the
  pause states, from the cache or the chain), `Decide` (the answers are stamped and
  stored, a vault is chosen) and, for the cron, `Execute`. The route of the dashboard
  goes the same way through the same caches: `DashboardHides` and `DashboardGoesOn`
  are its short cut for users without positions, `DashboardShows` its last read. A
  call under way has an `age`; what it has read may be stored over something newer.
  The pause checkers answer for all vaults they are given, so the last one to answer
  wins. `steady`, `pausedFor` and `arrived` are histories. APYs are tenths of a percent.
* **KernelAccount.** An execution is a slot of `Op`. The chain is `code` (what an
  account is delegated to), its EIP-7702 `nonce` and the `installed` permissions;
  `session` the stored one and `draft` one the browser has signed but not stored.
  A batch is a set of calls (target, function, amount, spender), which the policy a
  session was signed with admits or not.
* **TransferSend.** One sender. `hourly` and `daily` are the sorted sets,
  `<<time, random part>>` an entry; `idemLock` and `cached` the two idempotency
  keys. `Lookup`, `Acquire`, `Settle`, `Drop` are `withIdempotencyKey`; `LoadSession`
  to `Log` the handler. `lost` collects successes that neither Redis nor the
  request records.
* **SendForm.** The reducer's fields, the debounce `timer`, the lookup whose
  sequence number is current (`awaited`) and those nothing discards any more
  (`orphans`). A call of `sendUsdc` goes on whatever the dialog shows.
* **WalletSelection.** Effects see the values of their commit and what they set is
  seen by the next one only: `selected` is the committed state, `queued` the last
  write of the batch, `due` the effects that have not run.
* **EarnModal.** `Answer` takes the choices of `app/api/vault` and the agent routes.
  State that React drops with a component is dropped by `Unmount`;
  a call remembers whether its component is still `attached`. `seen` and `status`
  are query results, `held` and `agent` the server's truth.
* **AgentAccess.** A request is a slot; `cache` is the Map of Privy users in its
  insertion order, `addr` the Redis keys. A copy of a list or an address carries
  `ago`, the ticks since it was last true, and a request its own `age`.
* **KeyMigration.** A column is a secret and its form (plain, or the key it is
  encrypted under). The script reads all rows first (`seen`) and writes each once;
  an UPDATE may commit although its answer is lost.
* **Sentinel.** One vault; what a poll reads is a choice of breach, calm or absent
  per signal. `Evaluate` is `RulesEngine.evaluate` with its buffer, `Trigger` opens
  the incident, `FindUsers` is the query with the balance reads, `Check` to
  `Release` are `executeUserExit`. `Cron` is everybody else who may hold the lock.

## 3. What the runs check

| Run | Instance | What it shows |
|---|---|---|
| `agent_progress` | the cron (2 runs, 1 user, crashes, failing stores and queries, lost receipts); the Redis lock with callers that outlive their key; the decision (1 user, 2 vaults, 2 markets); the earn dialog (1 vault, 2 requests) | `CronInv`, `ImplementsMutex`, `SuccessRowsReal`, and under fairness `RunEnds`, `LockComesFree`; `OwnerOnlyRelease`, `KeyComesFree`; `Settles`; `SpinnersEnd` |
| `cron_requests` | 2 runs and a request slot, failing Redis; a simulated run (3 users in chunks of 2, crashes, failing Redis) | `CountNeverOverstates`, `RevocationGate`, `ClaimOncePerDay`; `ChunksAccounted`: `SummaryAccounts` in both phases, also with a rejection in the middle of a chunk |
| `decision` | the decision with the dashboard (1 user, 2 vaults, 2 markets, 2 oracle answers) | `DecisionInv`, `PauseHonoured`, `MovesGain`, `HiddenForCause` |
| `services` | the in-memory lock (3 callers, 2 users); the registry (2 users, 3 keys, 2 requests); the Kernel account (2 executions, 5 kinds of task) | `ImplementsMutex`; `RegInv`, `RegistrationConsistent`; `KernelInv`, `SubmittedOnce`, `EnableNeverBlocks`, `PolicyCoversBatches`, `PayerKept` |
| `transfer` | the endpoint (2 request slots, 3 admissions, 1 key, a clock of 4 ticks, everything fails but the lock's TTL); the send dialog (1 name, 2 addresses, 2 calls); the migration (1 user, 3 secrets, 2 keys); the wallets (2 people, 4 wallets); the access (2 users, 2 wallets, 2 requests) | `TransferInv`, `HourlyLimit`, `DailyOvershootBounded`, `CachedSuccessSent`, `OneHandlerPerKey`; `SuccessNamesPayee`; `MigrationSound`; `SelectionSettles`; `GrantsRecent` |
| `sentinel` | 2 overlapping polls, 2 signals, 1 user, a restart, failing queries, lost receipts, reverts | `SentinelInv`, `ExitsExclude`, `ExitRowsMined`, and under fairness `BreachAnswered` |
| `registry_wiped` | the registry | violated: a key registered during a DELETE disappears without a blacklist entry |
| `transfer_twice` | 2 requests with one key, nothing fails, time stands still | violated: both transfer |
| `stale_lookup` | the send dialog (1 name, 2 addresses, 1 call) | violated: an emptied field takes the answer of the text it had |
| `sentinel_confirm` | 1 signal, nothing fails | violated: a breach, a calm poll and a breach confirm an exit |
| `decision_asset` | the decision | violated: a WETH position is proposed for a USDC vault |
| `undelegate_race` | 1 account, 2 executions | violated: an undelegation the chain skipped clears the row |

The violated runs are disagreements between the code and its own words;
`findings` in `PROJECT.json` quotes them:

* `lib/redis/idempotency.ts:4` promises at most one execution per key; a request
  that looked the answer up before it was cached, and takes the lock after it was
  released, executes again.
* `lib/security/session-revocation.ts:5`: a DELETE blacklists the key it read and
  clears the one it finds later.
* `sentinel/rules-engine.ts:5` promises consecutive-poll confirmation; only the
  price rule forgets a breach when a calm reading follows.
* `lib/agent/decision-engine.ts:207` promises same-asset moves; a YO vault missing
  from a partial list counts as a USDC vault.
* `components/send-funds/RecipientInput.tsx:34` says that the sequence tag discards
  stale responses; an emptied field leaves the effect before it counts up, and a
  field that was unmounted has a counter nobody counts, so that answers to another
  text are taken by the field, or by the one mounted next.
* `faq.md:40` says the undelegation removes the delegation; neither the receipt nor
  the code of the account is looked at before the row is cleared.

What the models also showed, without a sentence in the repository to hold against it:

* a move may lose yield: lists are up to 300 s old, and `MovesGain` promises the
  threshold only if neither APY has changed for as long as a list and the run live;
* the dashboard tells a user with funds "No active positions" if his vaults are not
  listed, if the YO balance reads fail after the short cut let him through, or from
  positions cached before his deposit (`HiddenForCause` lists exactly these);
* the choice restored on login (`hooks/useWalletSelection.ts:94`) loses to the
  fallback effect of the same commit when the wallets are already connected
  (`SelectionSettles` asks for the chosen wallet only after a click);
* a failed deposit is reported to a form that its own start unmounted, so that the
  dialog spins for ever (`SpinnersEnd` excludes this case by `unheard`);
* a transfer call that outlives its preview, or a lookup its field, may set the
  success screen of another recipient (`SuccessNamesPayee` excludes it by `strayed`);
* the migration may put back a session that was replaced while it ran
  (`MigrationSound` excludes the rows in `raced`);
* two of the reading routes compare addresses as they were written with rows in
  lower case.

### Bounds

* `MaxOps` (cron) caps the operations a user's *requests* add, `MaxTime` the clock
  and `Token` the admissions of a sender, `MaxRestart` the restarts of the
  sentinel, `MaxHold` how long a caller of the lock stays in its bracket,
  `MaxNonce` the authorizations an account consumes. Key, request, run and poll
  sets are as small as an overlap allows: two of each actor that races with its own
  kind, one of each that races with others.
* `MaxChanges` and `MaxFaults` bound what happens outside: one change (of the APYs, a
  pause, a listing, the oracle or the user's shares) and one failed read in the
  decision (its proof has no bound). A list lives two ticks there, the other entries
  one, and `MaxCall` lets a call live one. Three changes
  of wallets or login in the selection, one change of links or registrations in the
  access. One stale copy, one of its refresh and a later reader already meet there.
* `MaxShares = 1` in the earn dialog: one deposit fills a vault, so a part of it is
  always too little to redeem, and the 25, 50 and 75 % buttons always fail. The vault
  may be paused and opened while the dialog is open.
* `transfer` has `Hour = 2`, `Day = 3`, `HourMax = 2` and three admissions, so that
  windows slide past one another and the limits are reached: a fourth tick lets
  entries leave both windows.
* TTLs are counted in ticks (a minute for the lock, 30 s for the access). In the
  access a cached user lives one tick, a cached address two, and a request one at
  most: an entry written late adds the tick of its writer.
* `agent_progress` leaves the requests out of the cron and `cron_requests` the
  crashes beside them, because each is about half the interleavings. The chunks of
  `cron_requests` have the third user without whom there is no second chunk, and no
  failing database, since the claim phase may then count a user twice.
* `agent_progress` runs the decision without the dashboard, whose requests only read
  caches and refresh them; `decision` runs both.
* `sentinel` has one user: with two the state space passes two million states
  before half of it is seen. Exits of different users share nothing but the poll
  that waits for them, and the proofs cover any number. `"store"` and `"slow"`
  are off there since `ExitsExclude` assumes so; the proof of `ExitRowsMined` does
  not.
* Runs that check only safety use symmetry of their model values; runs with
  liveness do not.
* Deadlock is checked except where the system rests by design: all runs of the
  cron are over and no request comes, the transfer model has used its tokens
  and its clock, a dialog is closed and no call is left.

### Fairness

* Cron: weak fairness of every task, run and request step and of `Lapse`. An
  await settles, the event loop goes on, and Redis expires keys. Not of `Crash`,
  of faults, or of requests being made.
* Lock: weak fairness of `Tick` and of the release of a living caller.
* Decision: weak fairness of time, of the cron's coming back (`Prefetch`) and of the
  steps of an evaluation under way (`Goes`, `Execute`). `Settles` then says that funds
  come to rest once the world does, if one position is the largest: which of two
  equal ones an evaluation looks at is the order the answers came in.
* Earn dialog: every request is answered, by whatever answer; nothing is assumed of
  the user.
* Sentinel: weak fairness of the steps of polls and exits (setInterval goes on
  firing) and of the ageing of an incident. A restart may only happen finitely
  often, which is a bound of the model.

Each choice between a success and a fault within one await is left unfair: a
property that needs Redis to answer eventually does not hold and is not claimed.

## 4. What is proved

`tlapm` proves every theorem below from nothing, for any sets and any values the
module's ASSUMEs allow. An invariant that the runs check is the inductive one, or
follows from it, so that TLC has seen each conjunct hold before it was proved.

| Theorem | Says | Argument |
|---|---|---|
| `UserLockProofs!TypeCorrect` | `[]TypeOK` | inductive by itself |
| `LockMutualExclusion`, `LockRefinesMutex` | under `WorkFitsTtl`, `MutualExclusion` and `ImplementsMutex` | `LockInv`: the stored key is the one of the only busy caller, and time left plus time used is its TTL. `MutualExclusion` by itself says nothing of the key, so it is not inductive |
| `RedisOwnerOnlyRelease` | on Redis, `OwnerOnlyRelease`, with no assumption on time | distinct lockIds |
| `SessionRegistryProofs!RegistryInvariant` | `[]RegInv` | the key of a DELETE in flight is blacklisted before it is acknowledged |
| `RowsStayConsistent` | `[]RegistrationConsistent` | every writer sets the columns together |
| `AgentCronProofs!CronInvariant` | without `"lapse"`, `[]CronInv` | locks, runs, rows, counts and claims at once; see below |
| `CronRefinesMutex`, `OneWorkerPerUser` | without `"lapse"`, `ImplementsMutex`, and `[]Exclusive` of the abstract mutex | `HoldersHoldLocks`; every step shrinks the busy sets or is an `Enter` |
| `RowsAreReal`, `CountIsTrue`, `SummaryIsComplete` | whatever fails or lapses, `SuccessRowsReal`, `CountNeverOverstates`, `SummaryAccounts` | the books below, without the locks |
| `ClaimsOnceADay` | without the faults in `ClaimFault`, `ClaimOncePerDay` | a recent claim has its row or is about to, and its task still has the lock |
| `CronKeepsBlacklist`, `CronRevocationGate` | composed with the cron: an acknowledged revocation stays on the blacklist, and no task passes the check with such a key | cron and request steps leave the registry's stores alone, so `RegInv` carries over |
| `TransferSendProofs!TransferTypes`, `TransferInvariant` | `[]TypeOK`, `[]TransferInv` | the types are inductive by themselves; the invariant below |
| `HourlyLimitHolds` | `[]HourlyLimit`, whatever fails | `RecentKept`: nothing younger than an hour has left the sorted set, so the script's count is no less than the window's |
| `DailyOvershootIsBounded` | `[]DailyOvershootBounded`, whatever fails | `DayHasRoom`; see below |
| `HandlersExclude`, `OneRequestPerKey` | without `"slow"`, `OneHandlerPerKey` and `[]Exclusive`, although the release deletes unconditionally | `HandlerHoldsKey` |
| `CachedSuccessIsSent` | `[]CachedSuccessSent` | the answer a request carries was submitted (`SuccessSent`) |
| `SentinelProofs!SentinelTypes`, `SentinelInvariant` | `[]TypeOK`, `[]SentinelInv` | inductive; `ExitHoldsLock` claims something only without `"store"` and `"slow"` |
| `ExitsAreExclusive`, `OneExitPerUser` | without `"store"` and `"slow"`, `ExitsExclude` and `[]Exclusive` | `SentinelInv` |
| `ExitRowsAreMined` | `[]ExitRowsMined`, whatever fails | an exit on its way to its row has been mined |
| `YieldDecisionProofs!DecisionInvariant` | `[]DecisionInv` | what was read is compared with the histories `steady`, `pausedFor` and `arrived`, which age with the entry and the call that hold it; see below |
| `PauseGate`, `MovesAreWorth` | `PauseHonoured`, `MovesGain` | from `DecisionInv`, step by step: a proposal gains at the APYs it was decided on (`MoveGains`), and those are the APYs of now unless one has changed since the list was read |
| `FundsStayVisible` | `HiddenForCause` | an unreadable balance counts as one in the short cut; afterwards positions leave out what could not be read or arrived since (`HeldKnown`) |
| `KernelAccountProofs!KernelInvariant` | `[]KernelInv` | what an execution may still do fixes what it has sent; installed permissions stay |
| `PolicyIsComplete` | `[]PolicyCoversBatches` | call by call: every target of a batch is one the permission builder lists for the vaults of the session; the reason `"policy"` is given for nothing else (`RefusedForCause`) |
| `ExecutionsSubmitOnce`, `InstallationNeverBlocks`, `PayerIsKept` | `SubmittedOnce`, `EnableNeverBlocks`, `PayerKept` | from `KernelInv` |
| `TransferSuiteProofs!MigrationKeepsSessions` | `[]MigrationSound` | a row not yet processed and not raced is the one the script has read; a processed one has the secrets last written |
| `PayeeIsNamed` | `[]SuccessNamesPayee` | `FormInv` |
| `SelectionAlwaysSettles` | `[]SelectionSettles` | `SelectionInv` |
| `GrantsStayRecent` | `[]GrantsRecent` | `AccessInv` |

### The inductive invariants

* **`CronInv`.** None of the three book-keeping properties is inductive: each
  compares two counters, and between two awaits the difference is in the program
  counters. The invariant counts it there. `RowsBacked`: the rows of a user and the
  rebalances not logged yet together are no more than the rebalances that landed.
  `CountsBacked`: the counter, *and every value that somebody has read and will
  write back plus one*, leave room for every operation still to be counted; this is
  why a lost update loses counts and never invents one. `SummaryAddsUp`: counted,
  uncounted and untaken users are the snapshot, as long as the phase has not
  aborted. `RunsIdle` lets a phase start from nothing. Each is a statement on
  cardinalities of sets of tasks; the users must be finitely many (they are the
  rows of a table), the runs and requests need not be.
* **`TransferInv`.** The daily limit is checked and recorded apart. `DayHasRoom`
  bounds the successes of a day together with the requests past the check
  (`Underway`): a request that passes the check found fewer than `DayMax` entries
  in the sorted set, all requests under way were admitted by the hourly script
  within the hour before (`Timely`), so at most `HourMax` of them join. It needs
  `Recorded` (a success not lost is in the sorted set, or about to be, no earlier
  than it was submitted) and `OneSendEach` (stamps identify admissions, requests and
  transfers, so that sets may be counted by their stamps).
* **`DecisionInv`.** Nothing is exact about a cache, so each conjunct bounds by how
  much it may be off: an APY of a list is the one of now, or `steady` is no more than
  the age of the list (`ListKnown`); positions leave out only what arrived within
  their age or could not be read (`HeldKnown`); a "not paused" that was read was true
  when its call asked, and the call may have stored it late (`PauseKnown`).
  `JobsKnown` says the same of what a call under way has taken from them.
* **`FormInv`.** A lookup under way is that of the field's text, or of one before the
  field was emptied (`LookupCurrent`). `SuccessNamesPayee` speaks of the screen after a
  call; `HashBacked` says what is known of the hash, and `CallsAttended` that as
  long as nothing strayed every call under way has the recipient of the preview it
  was confirmed in.
* **`SelectionInv`.** What is true between two renders speaks of the next commit
  (`Upcoming`) and of the effects still due: `RendersFollow`, and `ClickStands` for
  a wallet that was clicked.
* **`AccessInv`.** An entry that still serves has staleness plus time left within
  TTL and the longest request (`CopiesFresh`), because what a request has read is no
  staler than the request is old (`RequestFresh`) and a tick adds one to the former
  as it takes one from the latter.

### Assumptions

`WorkFitsTtl` and the absence of `"lapse"` and `"slow"` say that work ends before
its lock does; the code neither bounds nor renews a lock (300 s for the cron and
claims, 120 s for the sentinel, 30 s for an idempotency key), so these theorems say
exactly what holds until then. The sentinel deliberately goes on without the lock
when Redis rejects. `ClaimFault` (a rejected statement, a lost receipt, a crash, a
lapse) lists what leaves a claim without its row; the 24 hours rest on that row
alone, so `ClaimsOnceADay` holds up to there, whatever Redis does.

The ASSUMEs on constants keep values apart that the code keeps apart (`None` is no
worker, request, key, time stamp or stored copy; runs and requests differ), bound
numbers (`HandlerMax < Hour <= Day` says that a function dies before its hour is over;
TTLs and cache sizes are at least 1) and give inputs their shape: `KernelAssumption`
that a stored agent session is no transfer session (they have a column of their
own) and that a task has the vaults of its kind, `SuiteAssumption` that wallets are linked to one user at first.

### Only model-checked

`RunEnds`, `LockComesFree`, `KeyComesFree`, `Settles`, `SpinnersEnd` and `BreachAnswered`, because
TLAPS reasons about neither liveness under fairness nor ENABLED; with them all of
`EarnModal`, whose one property is `SpinnersEnd`. The six violated
properties are counterexamples of TLC.

## 5. What the models leave out

* Amounts, gas and fees, ABI encoding, the bytes of AES-GCM, tokens, the shape
  checks of request bodies. An operation is refused, reverted or landed, and its
  receipt is seen or not; in `KernelAccount` a call is target, function, amount and
  spender.
* One address per user in `AgentCron`. The claim route locks the wallet of the token
  and the cron the address of the row, which differ for a user with several wallets.
* The sentinel's thresholds and rolling windows (breach or calm is a choice), its
  signals, indexer, alerts and status rows, and the rules that only alert.
* A Redis client that falls back to memory on one server while another uses Redis:
  `UserLock` has each store by itself.
* The decision: the lists and positions of one call are read and stored in one step
  (only the pause states are not); a cache that cannot be read makes a call read anew;
  YO's risk gate is one of the causes for which a vault is missing from a list. The
  pause service of the dashboard route itself (`app/api/optimize/route.ts:17`) has a
  cache of its own and only labels the page; `POST /api/optimize` only recommends.
* What a reader of `AgentAccess` may wonder about: health check, dead-man switch, sync
  and activity are there so that whole routes are modelled; no property depends on them.
* Registrations no caller reaches: a transfer session cannot be built from a JSON
  body, an external wallet's registration has no caller; `KernelAccount` has their
  stored rows as initial states.
* Generated types (`lib/morpho/graphql-types.ts`), error tracking, connection
  set-up, the deployment scripts, rendering, and routes that relay one query.
* SQL is modelled by what it reads and writes. That `execute` selects a column
  `users.session_type` which no schema or migration declares
  (`sentinel/exit-orchestrator.ts:67`) is listed as a hazard: the model lets that
  query fail or succeed.

## 6. Mutants

Each checked property has a mutant in `PROJECT.json`: a definition of the model
and a faulty variant of it (named next to it, "Faulty variant of ...") under which
the run finds the property violated: a SET without NX, a release that does not
compare, a window cut in half, a failed read that counts as a good one, a cache
entry that serves beyond its time.

## 7. Plan

Done, in this order: `UserMutex`, `UserLock`, `SessionRegistry`, `AgentCron`,
`TransferSend`, `Sentinel`, `YieldDecision`, `KernelAccount`, `SendForm`,
`KeyMigration`, `WalletSelection`, `EarnModal`, `AgentAccess`, each with its run;
`TransferSuite`, and the theorems of section 4.

Next:

1. `EarnModal` and `SendForm` over the server's models instead of choices: the
   dialog's redeem as a request of `AgentCron`, its transfer as one of `TransferSend`.
2. Sentinel: the rolling windows and thresholds as a refinement of the choices
   `Evaluate` makes; two vaults; the status rows and their dead-man switch.
3. `AgentCron` with several addresses per user, so that the lock of the claim route
   and the lock of the cron can differ.
4. Redis and the in-memory fallback at once, seen by two processes.
5. Proofs: the transfer suite composed instead of side by side, so that the
   endpoint's requests come from `SendForm` and its sessions are those that
   `KeyMigration` converts; and a refinement of the summary of `AgentCron` to an
   abstract run that only counts.
