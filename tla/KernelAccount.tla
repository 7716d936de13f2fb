----------------------------- MODULE KernelAccount -----------------------------
(***************************************************************************)
(* A user's Kernel account, as the agent operates it: the registration in  *)
(* the browser that signs a session (hooks/useOptimizer.ts and             *)
(* lib/zerodev/client-secure.ts), the call policy the session carries, the *)
(* executors that send batches with it (lib/agent/rebalance-executor.ts,   *)
(* lib/zerodev), and the relayed undelegation.                             *)
(*                                                                         *)
(* An execution is a slot of Op, one step per await.  The chain, the       *)
(* bundler and its paymasters are external.  Amounts are shares of one     *)
(* unit each; AGENT_SIMULATION_MODE is off.                                *)
(***************************************************************************)
EXTENDS Integers

CONSTANTS
  Account, Op,
  Nil,                 \* no vault, key, session or answer
  SessionKey,          \* session keys of the agent
  SendKey,             \* the key of the stored transfer session
  Morpho, Yo,          \* vaults
  Token, Usdc,
  TokenOf,             \* the underlying of each vault
  Gateway, Merkl, Paymaster,
  MaxPerCall,          \* per token, lib/config.ts
  Job,                 \* what executions are asked to do
  Stored,              \* sessions of earlier versions, found in the database
  MaxNonce,            \* bound on the authorizations an account consumes
  Failure              \* "lost": an answer is lost; "rpc": a read fails;
                       \* "sponsor": the paymaster declines

Vault == Morpho \cup Yo

(* What a task names exists, and no stored session of an agent is one of     *)
(* the transfer sessions, which have a table column of their own.            *)
ASSUME KernelAssumption ==
  /\ TokenOf \in [Vault -> Token] /\ Usdc \in Token /\ Nil # "policy"
  /\ \A s \in Stored : s.path # "transfer"
  /\ \A t \in Job :
       /\ t.kind \in {"rebalance", "deposit", "redeem", "claim", "send"}
       /\ t.kind \in {"rebalance", "redeem"} => t.from \in Vault
       /\ t.kind \in {"rebalance", "deposit"} => t.to \in Vault

VARIABLES
  code,       \* an EOA's: none, or delegated to kernel or foreign; a smart
              \* wallet's: undeployed or contract
  nonce,      \* the account's EIP-7702 nonce
  installed,  \* the keys whose permission validator is installed
  listed,     \* vaults /api/optimize lists
  session,    \* the session stored for the account
  draft,      \* the session the browser has signed and not stored
  op,         \* the executions
  undel       \* the undelegation request: pc, and the nonce it is signed for

kernelVars == <<code, nonce, installed, listed, session, draft, op, undel>>
chain == <<code, nonce, installed>>
saved == <<listed, session, draft>>

Smart(a) == code[a] \in {"undeployed", "contract"}

Idle == [pc |-> "idle", a |-> Nil, task |-> Nil, s |-> Nil, payer |-> Nil,
         sent |-> 0, mined |-> "no", result |-> Nil, why |-> Nil]
NoUndel == [pc |-> "idle", nonce |-> 0]

KernelInit ==
  /\ code \in [Account -> {"none", "kernel", "undeployed", "contract"}]
  /\ nonce = [a \in Account |-> 0] /\ installed = [a \in Account |-> {}]
  /\ listed = Vault
  /\ session \in [Account -> Stored \cup {Nil}]
  /\ \A a \in Account : Smart(a) <=> session[a] # Nil /\ session[a].path = "erc4337"
  /\ draft = [a \in Account |-> Nil]
  /\ op = [x \in Op |-> Idle]
  /\ undel = [a \in Account |-> NoUndel]

-------------------------------------------------------------------------------
(* What a batch contains and what the policies permit. *)

Call(to, fn, amount, who) == [to |-> to, fn |-> fn, amount |-> amount, who |-> who]

(* The batches of the executors, one operator each; what an executor does    *)
(* around its batch is the same for all of them, and in the actions below.   *)
MorphoRedeem(v, n) == {Call(v, "redeem", n, Nil)}

YoRedeem(v, n) == {Call(v, "approve", n, Gateway), Call(Gateway, "gateway.redeem", n, v)}

MorphoDeposit(v, t, n) == {Call(t, "approve", n, v), Call(v, "deposit", n, Nil)}

YoDeposit(v, t, n) == {Call(t, "approve", n, Gateway), Call(Gateway, "gateway.deposit", n, v)}

Claim == {Call(Merkl, "claim", 0, Nil)}

(* The approval is skipped while an earlier one is large enough. *)
UserPaid(n) == {Call(Usdc, "approve", 1, Paymaster), Call(Usdc, "transfer", n, Nil)}

(* Half a percent is kept back, rounding down. *)
Slip(n) == (n * 995) \div 1000

Withdraw(v, n) == IF v \in Morpho THEN MorphoRedeem(v, n) ELSE YoRedeem(v, n)
Enter(v, t, n) == IF v \in Morpho THEN MorphoDeposit(v, t, n) ELSE YoDeposit(v, t, n)

Rebalance(t) == Withdraw(t.from, t.amount) \cup Enter(t.to, TokenOf[t.from], Slip(t.amount))

(* A deposit into a Morpho vault approves USDC whatever the vault holds. *)
Deposit(t) == Enter(t.to, IF t.to \in Morpho THEN Usdc ELSE TokenOf[t.to], t.amount)

Batch(t) ==
  CASE t.kind = "rebalance" -> Rebalance(t)
    [] t.kind = "deposit" -> Deposit(t)
    [] t.kind = "redeem" -> Withdraw(t.from, t.amount)
    [] t.kind = "claim" -> Claim
    [] t.kind = "send" -> UserPaid(t.amount)

(* Which of them ask the chain for a quote, a simulation or an allowance. *)
Quotes(t) == t.kind \in {"rebalance", "redeem", "send"} \/ (t.kind = "deposit" /\ t.to \in Yo)

(* Faulty variant of ShareApproval: the approval of shares is forgotten. *)
NoShareApproval(c) == c.fn = "approve" /\ c.who = Merkl

ShareApproval(c) == c.fn = "approve" /\ c.who = Gateway

(* The deposit cap is the largest of all tokens' caps, in raw units. *)
Deposits(c) == c.fn = "deposit" /\ \E t \in Token : c.amount <= MaxPerCall[t]

AgentPermits(vaults, c) ==
  \/ c.to \in Token /\ c.fn \in {"approve", "transfer"} /\ c.amount <= MaxPerCall[c.to]
  \/ c.to \in vaults /\ (Deposits(c) \/ ShareApproval(c) \/ c.fn \in {"redeem", "withdraw"})
  \/ c.to = Gateway /\ c.fn \in {"gateway.deposit", "gateway.redeem"}
  \/ c.to = Merkl /\ c.fn = "claim"

(* Targets and selectors only; nothing on the Gateway. *)
LegacyPermits(vaults, c) ==
  \/ c.to \in vaults /\ c.fn \in {"redeem", "deposit", "withdraw"}
  \/ c.to \in Token /\ c.fn \in {"approve", "transfer"}

(* Transfers, and the approval of the paymaster. *)
SendPermits(c) ==
  /\ c.to = Usdc /\ c.amount <= MaxPerCall[Usdc]
  /\ c.fn = "transfer" \/ (c.fn = "approve" /\ c.who = Paymaster)

Permits(s, c) ==
  CASE s.path = "legacy" -> LegacyPermits(s.vaults, c)
    [] s.path = "transfer" -> SendPermits(c)
    [] OTHER -> AgentPermits(s.vaults, c)

-------------------------------------------------------------------------------
(* Registration in the browser, with the embedded wallet: vaults, signature, *)
(* store.  A wallet without one gets no further: the ERC-4337 fallback looks *)
(* for the embedded wallet whose absence led there.                          *)
Sessions ==
  ({session[a] : a \in Account} \cup {draft[a] : a \in Account} \cup {op[x].s : x \in Op}) \ {Nil}

Register(a, k) ==
  /\ ~Smart(a) /\ draft[a] = Nil /\ k \notin installed[a] /\ \A s \in Sessions : s.key # k
  /\ draft' = [draft EXCEPT ![a] = [key |-> k, path |-> "eip7702", nonce |-> nonce[a],
                                    vaults |-> listed \cup {Gateway, Merkl}]]
  /\ UNCHANGED <<chain, listed, session, op, undel>>

StoreSession(a) ==
  /\ draft[a] # Nil
  /\ session' = [session EXCEPT ![a] = draft[a]] \/ UNCHANGED session
  /\ draft' = [draft EXCEPT ![a] = Nil]
  /\ UNCHANGED <<chain, listed, op, undel>>

-------------------------------------------------------------------------------
(* Executions. *)

Goto(x, p) == op' = [op EXCEPT ![x].pc = p]
Fail(x, w) == op' = [op EXCEPT ![x].pc = "done", ![x].result = "failed", ![x].why = w]
Succeed(x) == op' = [op EXCEPT ![x].pc = "done", ![x].result = "success"]
External == UNCHANGED <<chain, saved, undel>>

SendSession == [key |-> SendKey, path |-> "transfer", nonce |-> 0, vaults |-> {}]
SessionOf(a, t) == IF t.kind = "send" THEN SendSession ELSE session[a]

(* verifyVaultApproval: a YO vault passes with the Gateway. *)
Approved(s, v) ==
  \/ s.vaults = {}
  \/ v \in Morpho /\ v \in s.vaults
  \/ v \in Yo /\ Gateway \in s.vaults
  \/ v = Merkl /\ Merkl \in s.vaults

(* The routes refuse a legacy session; the cron still rebalances with it, and *)
(* the sentinel exits from Morpho vaults.  Neither asks for an approval.     *)
Takes(s, t) ==
  \/ t.kind \in {"rebalance", "send"}
  \/ t.kind = "redeem" /\ (s.path # "legacy" \/ t.from \in Morpho)
  \/ t.kind = "deposit" /\ s.path # "legacy" /\ Approved(s, t.to)
  \/ t.kind = "claim" /\ s.path # "legacy" /\ Approved(s, Merkl)

Start(x, a, t) ==
  /\ op[x].pc = "idle" /\ SessionOf(a, t) # Nil /\ Takes(SessionOf(a, t), t)
  /\ op' = [op EXCEPT ![x] =
       [pc |-> IF t.kind = "rebalance" THEN "check" ELSE "client",
        a |-> a, task |-> t, s |-> SessionOf(a, t),
        payer |-> IF t.kind = "send" THEN "usdc" ELSE "sponsor",
        sent |-> 0, mined |-> "no", result |-> Nil, why |-> Nil]]
  /\ External

(* The rebalance alone asks for the delegation first; a read that fails      *)
(* counts as no delegation.                                                  *)
CheckDelegation(x) ==
  LET c == code[op[x].a] IN
  /\ op[x].pc = "check"
  /\ \/ c \in {"kernel", "contract"} /\ Goto(x, "client")
     \/ c \in {"none", "undeployed"} /\ Fail(x, "inactive")
     \/ "rpc" \in Failure /\ Fail(x, "inactive")
     \/ c = "foreign" /\ Fail(x, "mismatch")
  /\ External

(* An undeployed smart wallet cannot be operated: its factory would make     *)
(* another address.                                                          *)
DeserializeThrows(x) == op[x].s.path = "erc4337" /\ code[op[x].a] = "undeployed"

(* The deprecated client: no permissions, a wrong or missing delegation.     *)
LegacyThrows(x) ==
  op[x].s.path = "legacy" /\ (op[x].s.vaults = {} \/ code[op[x].a] # "kernel")

BuildClient(x) ==
  /\ op[x].pc = "client"
  /\ \/ DeserializeThrows(x) /\ Fail(x, "undeployed")
     \/ LegacyThrows(x) /\ Fail(x, "legacy")
     \/ "rpc" \in Failure /\ Fail(x, "rpc")
     \/ ~DeserializeThrows(x) /\ ~LegacyThrows(x) /\ Goto(x, "build")
  /\ External

BuildCalls(x) ==
  LET zero == op[x].task.kind = "rebalance" /\ Slip(op[x].task.amount) = 0 IN
  /\ op[x].pc = "build"
  /\ \/ zero /\ Fail(x, "zero")
     \/ Quotes(op[x].task) /\ "rpc" \in Failure /\ Fail(x, "rpc")
     \/ ~zero /\ Goto(x, "send")
  /\ External

(* The chain runs an account that is delegated or deployed; the session's    *)
(* own authorization delegates it on the way, while its nonce is current.    *)
Operable(a, s) ==
  \/ code[a] \in {"kernel", "contract"}
  \/ code[a] = "none" /\ s.path = "eip7702" /\ s.nonce = nonce[a]

(* Why the bundler turns a user operation down; pre: without the signature   *)
(* that installs the permission.                                             *)
Installed(o) == o.s.key \in installed[o.a]
Refusals(o, pre) ==
  {w \in {"policy", "account", "duplicate", "missing", "sponsor"} :
     CASE w = "policy" -> \E c \in Batch(o.task) : ~Permits(o.s, c)
       [] w = "account" -> ~Operable(o.a, o.s)
       [] w = "duplicate" -> ~pre /\ o.s.path # "legacy" /\ Installed(o)
       [] w = "missing" -> (pre \/ o.s.path = "legacy") /\ ~Installed(o)
       [] w = "sponsor" -> "sponsor" \in Failure}

(* Faulty variant of Retries: a request that timed out is sent again.        *)
RetriesLost(x, w) == w \in {"duplicate", "lost"}

(* Faulty variant of Retries: the first answer stands.                       *)
RetriesNever(x, w) == FALSE

Retries(x, w) == w = "duplicate" /\ op[x].s.path # "legacy"

(* The operation is in a block, executed or reverted as a whole, and the     *)
(* answer comes back or does not.  A permission stays installed whatever     *)
(* becomes of the delegation: the account keeps its storage.                 *)
Include(x, payer) ==
  LET o == op[x]
      after(m) == [o EXCEPT !.pc = "receipt", !.sent = @ + 1, !.mined = m, !.payer = payer]
      lost(m) == IF o.pc = "send" /\ Retries(x, "lost")
                 THEN [after(m) EXCEPT !.pc = "resend"]
                 ELSE [after(m) EXCEPT !.pc = "done", !.result = "failed", !.why = "lost"]
  IN
  /\ code[o.a] = "none" => nonce[o.a] < MaxNonce
  /\ code' = [code EXCEPT ![o.a] = IF @ = "none" THEN "kernel" ELSE @]
  /\ nonce' = [nonce EXCEPT ![o.a] = IF code[o.a] = "none" THEN @ + 1 ELSE @]
  /\ installed' = [installed EXCEPT ![o.a] = @ \cup {o.s.key}]
  /\ \E m \in {"ok", "reverted"} :
       \/ op' = [op EXCEPT ![x] = after(m)]
       \/ "lost" \in Failure /\ op' = [op EXCEPT ![x] = lost(m)]
  /\ UNCHANGED <<saved, undel>>

Send(x) ==
  /\ op[x].pc = "send"
  /\ \/ Refusals(op[x], FALSE) \ {"sponsor"} = {} /\ Include(x, op[x].payer)
     \/ \E w \in Refusals(op[x], FALSE) :
          /\ IF Retries(x, w) THEN Goto(x, "resend") ELSE Fail(x, w)
          /\ External

(* Faulty variant of RetryPayer: the retry's client is built without it.     *)
RetryPayerDropped(x) == "sponsor"

RetryPayer(x) == op[x].payer

Resend(x) ==
  /\ op[x].pc = "resend"
  /\ \/ Refusals(op[x], TRUE) \ {"sponsor"} = {} /\ Include(x, RetryPayer(x))
     \/ \E w \in Refusals(op[x], TRUE) : Fail(x, w) /\ External
     \/ "rpc" \in Failure /\ Fail(x, "rpc") /\ External

(* Only the rebalance reads the receipt's status; a YO redeem asks for its   *)
(* pending assets, and fails with that read.                                 *)
Receipt(x) ==
  LET k == op[x].task.kind IN
  /\ op[x].pc = "receipt"
  /\ \/ "lost" \in Failure /\ Fail(x, "lost")
     \/ k = "rebalance" /\ op[x].mined = "reverted" /\ Fail(x, "reverted")
     \/ k = "rebalance" /\ op[x].mined = "ok" /\ Goto(x, "verify")
     \/ k = "redeem" /\ op[x].task.from \in Yo /\ "rpc" \in Failure /\ Fail(x, "rpc")
     \/ k # "rebalance" /\ Succeed(x)
  /\ External

(* A delegation that is gone only warns. *)
VerifyDelegation(x) ==
  /\ op[x].pc = "verify"
  /\ Succeed(x) \/ ("rpc" \in Failure /\ Fail(x, "rpc"))
  /\ External

-------------------------------------------------------------------------------
(* The relayed undelegation: the user signs in the browser, the relayer      *)
(* sends, the row is cleared.  The chain skips an authorization whose nonce  *)
(* is not current.                                                           *)
SignUndelegation(a) ==
  /\ undel[a].pc = "idle"
  /\ undel' = [undel EXCEPT ![a] = [pc |-> "signed", nonce |-> nonce[a]]]
  /\ UNCHANGED <<chain, saved, op>>

RelayUndelegation(a) ==
  /\ undel[a].pc = "signed"
  /\ \/ /\ session[a] # Nil /\ undel' = [undel EXCEPT ![a].pc = "mined"]
        /\ IF undel[a].nonce = nonce[a] /\ ~Smart(a)
           THEN /\ nonce[a] < MaxNonce
                /\ nonce' = [nonce EXCEPT ![a] = @ + 1]
                /\ code' = [code EXCEPT ![a] = "none"]
           ELSE UNCHANGED <<nonce, code>>
     \/ undel' = [undel EXCEPT ![a] = NoUndel] /\ UNCHANGED <<nonce, code>>
  /\ UNCHANGED <<installed, saved, op>>

ClearRegistration(a) ==
  /\ undel[a].pc = "mined"
  /\ undel' = [undel EXCEPT ![a] = NoUndel]
  /\ session' = [session EXCEPT ![a] = Nil]
  /\ UNCHANGED <<chain, listed, draft, op>>

-------------------------------------------------------------------------------
(* The world: the user deploys the smart wallet or delegates elsewhere with  *)
(* another wallet, and vaults leave the list.                                *)
Deploy(a) ==
  /\ code[a] = "undeployed"
  /\ code' = [code EXCEPT ![a] = "contract"]
  /\ UNCHANGED <<nonce, installed, saved, op, undel>>

DelegateElsewhere(a) ==
  /\ code[a] \in {"none", "kernel"} /\ nonce[a] < MaxNonce
  /\ code' = [code EXCEPT ![a] = "foreign"]
  /\ nonce' = [nonce EXCEPT ![a] = @ + 1]
  /\ UNCHANGED <<installed, saved, op, undel>>

Delist(v) ==
  /\ v \in listed /\ listed = Vault
  /\ listed' = listed \ {v}
  /\ UNCHANGED <<chain, session, draft, op, undel>>

OpStep(x) ==
  \/ CheckDelegation(x) \/ BuildClient(x) \/ BuildCalls(x)
  \/ Send(x) \/ Resend(x) \/ Receipt(x) \/ VerifyDelegation(x)

KernelNext ==
  \/ \E x \in Op : OpStep(x) \/ \E a \in Account, t \in Job : Start(x, a, t)
  \/ \E a \in Account :
       \/ \E k \in SessionKey : Register(a, k)
       \/ StoreSession(a) \/ SignUndelegation(a) \/ RelayUndelegation(a) \/ ClearRegistration(a)
       \/ Deploy(a) \/ DelegateElsewhere(a)
  \/ \E v \in Vault : Delist(v)

KernelSpec == KernelInit /\ [][KernelNext]_kernelVars

-------------------------------------------------------------------------------
(* An execution that has not got an answer has sent nothing, pays with what  *)
(* its task says, and sends without the enable signature only a permission   *)
(* that is installed.                                                        *)
Shape(o) == o = [pc |-> o.pc, a |-> o.a, task |-> o.task, s |-> o.s, payer |-> o.payer,
                 sent |-> o.sent, mined |-> o.mined, result |-> o.result, why |-> o.why]
Before == {"check", "client", "build", "send", "resend"}
Stuck(o) == o.pc = "done" /\ o.result = "failed" /\ o.why \in {"duplicate", "missing"}
ExecutionOK(o, inst) ==
  /\ Shape(o)
  /\ o.pc \in Before \cup {"idle", "receipt", "verify", "done"}
  /\ o.pc \in Before \cup {"idle"} => o.sent = 0
  /\ o.pc # "done" => o.why = Nil
  /\ o.sent \in {0, 1}
  /\ o.pc # "idle" => o.a \in Account /\ (o.payer = "usdc" <=> o.task.kind = "send")
  /\ o.pc = "resend" => o.s.path # "legacy" /\ o.s.key \in inst[o.a]
  /\ Stuck(o) => o.s.path = "legacy"
ExecutionsOK ==
  /\ op = [x \in Op |-> op[x]] /\ installed = [a \in Account |-> installed[a]]
  /\ \A x \in Op : ExecutionOK(op[x], installed)

(* Sessions keep to their columns, also in executions. *)
Sends(s) == s.path = "transfer"
SessionsKept ==
  /\ session = [a \in Account |-> session[a]] /\ draft = [a \in Account |-> draft[a]]
  /\ \A a \in Account : session[a] # Nil => ~Sends(session[a])
  /\ \A a \in Account : draft[a] # Nil => ~Sends(draft[a])
  /\ \A x \in Op : op[x].pc # "idle" =>
       op[x].task \in Job /\ (op[x].task.kind # "send" => ~Sends(op[x].s))

(* The policy is the reason given only where it refuses a call. *)
RefusedForCause ==
  \A x \in Op : op[x].why = "policy" =>
    op[x].pc # "idle" /\ \E c \in Batch(op[x].task) : ~Permits(op[x].s, c)

KernelInv == ExecutionsOK /\ SessionsKept /\ RefusedForCause

(* One execution, one operation: what is sent again after "duplicate         *)
(* permissionHash" was refused the first time (createDeserializedKernelClient). *)
SubmittedOnce == \A x \in Op : op[x].sent <= 1

(* Whether the session's permission is installed yet or not never stops an   *)
(* execution, also when another one installs it in between.                  *)
EnableNeverBlocks == \A x \in Op : Stuck(op[x]) => op[x].s.path = "legacy"

(* A batch that touches only vaults the session was signed for, and of no    *)
(* token more than its cap, is never refused by the call policy: what the    *)
(* executors build is what the permission builder permits.                   *)
Covered(o) ==
  /\ {o.task.from, o.task.to} \cap Vault \subseteq o.s.vaults
  /\ \A c \in Batch(o.task) : c.to \in Token => c.amount <= MaxPerCall[c.to]

PolicyCoversBatches ==
  \A x \in Op : op[x].why = "policy" /\ op[x].s.path # "legacy" /\ op[x].task.kind # "send"
                  => ~Covered(op[x])

(* A user-paid send is never sponsored, retried or not: "the retry path MUST *)
(* re-pass paymaster" (kernel-client.ts:71).                                 *)
PayerKept == \A x \in Op : op[x].sent > 0 => (op[x].payer = "usdc" <=> op[x].task.kind = "send")

(* "this removes the on-chain delegation entirely" (faq.md:40): when the     *)
(* row of an EIP-7702 session is cleared, the account is no longer the       *)
(* agent's.                                                                  *)
UndelegatedMeansOff ==
  [][\A a \in Account :
       /\ undel[a].pc = "mined" /\ undel'[a].pc = "idle"
       /\ session[a] # Nil /\ session[a].path = "eip7702"
         => code[a] # "kernel"]_kernelVars

===============================================================================
