-------------------------- MODULE KernelAccountProofs --------------------------
(***************************************************************************)
(* Proofs about KernelAccount, for any accounts, keys, tasks and failures. *)
(***************************************************************************)
EXTENDS KernelAccount, TLAPS

(* A fresh slot, and the record an execution starts with. *)
LEMMA IdleOK == \A inst : ExecutionOK(Idle, inst)
  BY DEF ExecutionOK, Shape, Idle, Before, Stuck

(* An execution that moves on without an answer. *)
LEMMA GotoOK ==
  ASSUME NEW o, NEW inst, ExecutionOK(o, inst), NEW p \in Before \cup {"verify"},
         o.pc \in Before \cup {"receipt"},
         p \in Before => o.pc \in Before,
         p = "resend" => o.s.path # "legacy" /\ o.s.key \in inst[o.a]
  PROVE  ExecutionOK([o EXCEPT !.pc = p], inst)
<1> DEFINE e == [o EXCEPT !.pc = p]
<1>1. e = [pc |-> p, a |-> o.a, task |-> o.task, s |-> o.s, payer |-> o.payer,
           sent |-> o.sent, mined |-> o.mined, result |-> o.result, why |-> o.why]
  BY DEF ExecutionOK, Shape
<1>2. /\ e.pc = p /\ e.a = o.a /\ e.task = o.task /\ e.s = o.s /\ e.payer = o.payer
      /\ e.sent = o.sent /\ e.mined = o.mined /\ e.result = o.result /\ e.why = o.why
  BY <1>1
<1>3. Shape(e)
  BY <1>1, <1>2 DEF Shape
<1> HIDE DEF e
<1>4. o.sent = 0 \/ p = "verify"
  BY DEF ExecutionOK
<1>5. o.why = Nil /\ o.pc # "idle"
  BY DEF ExecutionOK, Stuck, Before
<1> QED
  BY <1>2, <1>3, <1>4, <1>5 DEF ExecutionOK, Stuck, Before, e

(* What an update of two or three fields leaves. *)
Failed(o, r, w) == [o EXCEPT !.pc = "done", !.result = r, !.why = w]
Done(o, r) == [o EXCEPT !.pc = "done", !.result = r]

LEMMA EndRecord ==
  ASSUME NEW o, Shape(o), NEW r, NEW w, NEW e, NEW f, e = Failed(o, r, w), f = Done(o, r)
  PROVE  /\ Shape(e) /\ e.pc = "done" /\ e.a = o.a /\ e.task = o.task /\ e.s = o.s
         /\ e.payer = o.payer /\ e.sent = o.sent /\ e.why = w
         /\ Shape(f) /\ f.pc = "done" /\ f.a = o.a /\ f.task = o.task /\ f.s = o.s
         /\ f.payer = o.payer /\ f.sent = o.sent /\ f.result = r /\ f.why = o.why
<1> DEFINE S == {o.pc, o.a, o.task, o.s, o.payer, o.sent, o.mined, o.result, o.why, "done", r, w}
           R == [pc : S, a : S, task : S, s : S, payer : S, sent : S, mined : S, result : S, why : S]
<1>1. o \in R
  BY DEF Shape
<1>2. \A v \in R : Shape(v)
  BY DEF Shape
<1>3. "done" \in S /\ r \in S /\ w \in S
  OBVIOUS
<1> HIDE DEF S
<1>4. /\ e \in R /\ e.pc = "done" /\ e.a = o.a /\ e.task = o.task /\ e.s = o.s
      /\ e.payer = o.payer /\ e.sent = o.sent /\ e.why = w
  BY <1>1, <1>3 DEF Failed
<1>5. /\ f \in R /\ f.pc = "done" /\ f.a = o.a /\ f.task = o.task /\ f.s = o.s
      /\ f.payer = o.payer /\ f.sent = o.sent /\ f.result = r /\ f.why = o.why
  BY <1>1, <1>3 DEF Done
<1> QED
  BY <1>2, <1>4, <1>5

(* An execution that ends. *)
LEMMA EndOK ==
  ASSUME NEW o, NEW inst, ExecutionOK(o, inst), o.pc # "idle", NEW r, NEW w
  PROVE  /\ (o.s.path # "legacy" => w \notin {"duplicate", "missing"})
               => ExecutionOK(Failed(o, r, w), inst)
         /\ r = "success" => ExecutionOK(Done(o, r), inst)
<1>1. PICK e, f : e = Failed(o, r, w) /\ f = Done(o, r)
  OBVIOUS
<1>2. /\ Shape(e) /\ e.pc = "done" /\ e.a = o.a /\ e.task = o.task /\ e.s = o.s
      /\ e.payer = o.payer /\ e.sent = o.sent /\ e.why = w
      /\ Shape(f) /\ f.pc = "done" /\ f.a = o.a /\ f.task = o.task /\ f.s = o.s
      /\ f.payer = o.payer /\ f.sent = o.sent /\ f.result = r
  BY <1>1, EndRecord DEF ExecutionOK
<1>3. (o.s.path # "legacy" => w \notin {"duplicate", "missing"}) => ExecutionOK(e, inst)
  BY <1>2 DEF ExecutionOK, Stuck, Before
<1>4. r = "success" => ExecutionOK(f, inst)
  BY <1>2 DEF ExecutionOK, Stuck, Before
<1> QED
  BY <1>1, <1>3, <1>4

(* One slot changes, permissions are only added. *)
LEMMA ReplaceKeeps ==
  ASSUME ExecutionsOK, NEW x \in Op, NEW e, op' = [op EXCEPT ![x] = e],
         installed' = [a \in Account |-> installed'[a]],
         \A a \in Account : installed[a] \subseteq installed'[a],
         ExecutionOK(e, installed')
  PROVE  ExecutionsOK'
<1>1. op' = [y \in Op |-> op'[y]] /\ op'[x] = e /\ \A y \in Op \ {x} : op'[y] = op[y]
  BY DEF ExecutionsOK
<1>2. ASSUME NEW y \in Op PROVE ExecutionOK(op'[y], installed')
  <2>1. CASE y = x
    BY <1>1, <2>1
  <2>2. CASE y # x
    <3>1. ExecutionOK(op[y], installed) /\ op'[y] = op[y]
      BY <1>1, <2>2 DEF ExecutionsOK
    <3> QED
      BY <3>1 DEF ExecutionOK, Stuck, Before
  <2> QED
    BY <2>1, <2>2
<1> QED
  BY <1>1, <1>2 DEF ExecutionsOK

(* The three ways an execution changes without the chain. *)
LEMMA StepKeeps ==
  ASSUME ExecutionsOK, NEW x \in Op, UNCHANGED installed, op[x].pc # "idle",
         \/ \E p \in Before \cup {"verify"} :
              /\ Goto(x, p) /\ op[x].pc \in Before \cup {"receipt"}
              /\ p \in Before => op[x].pc \in Before
              /\ p = "resend" => op[x].s.path # "legacy" /\ Installed(op[x])
         \/ \E w : Fail(x, w) /\ (op[x].s.path # "legacy" => w \notin {"duplicate", "missing"})
         \/ Succeed(x) /\ op[x].pc \in {"receipt", "verify"}
  PROVE  ExecutionsOK'
<1> DEFINE o == op[x]
<1>1. ExecutionOK(o, installed) /\ installed' = [a \in Account |-> installed'[a]]
  BY DEF ExecutionsOK
<1>2. ASSUME NEW p \in Before \cup {"verify"}, Goto(x, p), op[x].pc \in Before \cup {"receipt"},
             p \in Before => op[x].pc \in Before,
             p = "resend" => op[x].s.path # "legacy" /\ Installed(op[x])
      PROVE  ExecutionsOK'
  <2>1. ExecutionOK([o EXCEPT !.pc = p], installed)
    BY <1>1, <1>2, GotoOK DEF Installed
  <2>2. op' = [op EXCEPT ![x] = [o EXCEPT !.pc = p]]
    BY <1>2 DEF Goto
  <2> QED
    BY <1>1, <2>1, <2>2, ReplaceKeeps
<1>3. ASSUME NEW w, Fail(x, w), op[x].s.path # "legacy" => w \notin {"duplicate", "missing"}
      PROVE  ExecutionsOK'
  <2>1. ExecutionOK(Failed(o, "failed", w), installed)
    BY <1>1, <1>3, EndOK
  <2>2. op' = [op EXCEPT ![x] = Failed(o, "failed", w)]
    BY <1>3 DEF Fail, Failed
  <2> QED
    BY <1>1, <2>1, <2>2, ReplaceKeeps
<1>4. CASE Succeed(x) /\ op[x].pc \in {"receipt", "verify"}
  <2>1. ExecutionOK(Done(o, "success"), installed)
    BY <1>1, <1>4, EndOK
  <2>2. op' = [op EXCEPT ![x] = Done(o, "success")]
    BY <1>4 DEF Succeed, Done
  <2> QED
    BY <1>1, <2>1, <2>2, ReplaceKeeps
<1> QED
  BY <1>2, <1>3, <1>4

-------------------------------------------------------------------------------
(* The actions. *)

(* A new execution. *)
LEMMA StartKeeps ==
  ASSUME ExecutionsOK, NEW x \in Op, NEW a \in Account, NEW t \in Job, Start(x, a, t)
  PROVE  ExecutionsOK'
<1> DEFINE s == SessionOf(a, t)
           p == IF t.kind = "rebalance" THEN "check" ELSE "client"
           y == IF t.kind = "send" THEN "usdc" ELSE "sponsor"
           e == [pc |-> p, a |-> a, task |-> t, s |-> s, payer |-> y,
                 sent |-> 0, mined |-> "no", result |-> Nil, why |-> Nil]
<1>1. op' = [op EXCEPT ![x] = e] /\ installed' = installed
  BY DEF Start, External, chain
<1>2. ExecutionOK(e, installed')
  BY DEF ExecutionOK, Shape, Before, Stuck
<1> QED
  BY <1>1, <1>2, ReplaceKeeps DEF ExecutionsOK

(* What the inclusion of an operation leaves. *)
Included(o, m, y) == [o EXCEPT !.pc = "receipt", !.sent = @ + 1, !.mined = m, !.payer = y]

LEMMA IncludedRecord ==
  ASSUME NEW o, Shape(o), o.sent = 0, NEW m, NEW e, e = Included(o, m, o.payer)
  PROVE  /\ Shape(e) /\ e.pc = "receipt" /\ e.a = o.a /\ e.task = o.task /\ e.s = o.s
         /\ e.payer = o.payer /\ e.sent = 1 /\ e.why = o.why
<1> DEFINE S == {o.pc, o.a, o.task, o.s, o.payer, o.sent, o.mined, o.result, o.why, "receipt", m, 1}
           R == [pc : S, a : S, task : S, s : S, payer : S, sent : S, mined : S, result : S, why : S]
<1>1. o \in R
  BY DEF Shape
<1>2. \A v \in R : Shape(v)
  BY DEF Shape
<1>3. "receipt" \in S /\ m \in S /\ o.sent + 1 \in S /\ o.payer \in S /\ o.sent + 1 = 1
  OBVIOUS
<1> HIDE DEF S
<1>4. /\ e \in R /\ e.pc = "receipt" /\ e.a = o.a /\ e.task = o.task /\ e.s = o.s
      /\ e.payer = o.payer /\ e.sent = 1 /\ e.why = o.why
  BY <1>1, <1>3 DEF Included
<1> QED
  BY <1>2, <1>4

(* An execution whose operation is in a block awaits its receipt. *)
LEMMA IncludedOK ==
  ASSUME NEW o, NEW inst, ExecutionOK(o, inst), o.pc \in {"send", "resend"}, NEW m
  PROVE  /\ ExecutionOK(Included(o, m, o.payer), inst)
         /\ Included(o, m, o.payer).pc # "idle"
<1>1. Shape(o) /\ o.sent = 0 /\ o.why = Nil
  BY DEF ExecutionOK, Before
<1>2. PICK e : e = Included(o, m, o.payer)
  OBVIOUS
<1>3. /\ Shape(e) /\ e.pc = "receipt" /\ e.a = o.a /\ e.task = o.task /\ e.s = o.s
      /\ e.payer = o.payer /\ e.sent = 1 /\ e.why = o.why
  BY <1>1, <1>2, IncludedRecord
<1>4. ExecutionOK(e, inst)
  BY <1>1, <1>3 DEF ExecutionOK, Stuck, Before
<1> QED
  BY <1>2, <1>3, <1>4

(* The operation is in a block: the permission is installed, and what the     *)
(* answer says ends the execution or awaits its receipt.                      *)
LEMMA IncludeKeeps ==
  ASSUME ExecutionsOK, NEW x \in Op, op[x].pc \in {"send", "resend"}, Include(x, op[x].payer)
  PROVE  ExecutionsOK'
<1> DEFINE o == op[x]
           after(m) == Included(o, m, o.payer)
<1>1. /\ ExecutionOK(o, installed) /\ installed' = [a \in Account |-> installed'[a]]
      /\ \A a \in Account : installed[a] \subseteq installed'[a]
  BY DEF ExecutionsOK, Include
<1>2. ~Retries(x, "lost")
  BY DEF Retries
<1>3. PICK m : \/ op' = [op EXCEPT ![x] = after(m)]
               \/ op' = [op EXCEPT ![x] = Failed(after(m), "failed", "lost")]
  BY <1>2 DEF Include, Included, Failed
<1>4. ExecutionOK(o, installed')
  BY <1>1 DEF ExecutionOK, Before
<1>5. ExecutionOK(after(m), installed') /\ after(m).pc # "idle"
  BY <1>4, IncludedOK
<1>6. ExecutionOK(Failed(after(m), "failed", "lost"), installed')
  <2> HIDE DEF after
  <2> QED
    BY <1>5, EndOK
<1> HIDE DEF after
<1> QED
  BY <1>1, <1>3, <1>5, <1>6, ReplaceKeeps

(* No step of an execution breaks the invariant. *)
LEMMA OpKeeps ==
  ASSUME ExecutionsOK, NEW x \in Op, OpStep(x)
  PROVE  ExecutionsOK'
<1>1. CASE CheckDelegation(x)
  BY <1>1, StepKeeps DEF CheckDelegation, External, chain, Before
<1>2. CASE BuildClient(x)
  BY <1>2, StepKeeps DEF BuildClient, External, chain, Before
<1>3. CASE BuildCalls(x)
  BY <1>3, StepKeeps DEF BuildCalls, External, chain, Before
<1>4. CASE Send(x)
  <2>1. CASE Include(x, op[x].payer)
    BY <1>4, <2>1, IncludeKeeps DEF Send
  <2>2. CASE \E w \in Refusals(op[x], FALSE) :
               (IF Retries(x, w) THEN Goto(x, "resend") ELSE Fail(x, w)) /\ External
    <3>1. PICK w \in Refusals(op[x], FALSE) :
            (IF Retries(x, w) THEN Goto(x, "resend") ELSE Fail(x, w)) /\ External
      BY <2>2
    <3>2. CASE Retries(x, w)
      <4>1. op[x].s.path # "legacy" /\ Installed(op[x])
        BY <3>1, <3>2 DEF Retries, Refusals
      <4> QED
        BY <1>4, <3>1, <3>2, <4>1, StepKeeps DEF Send, External, chain, Before
    <3>3. CASE ~Retries(x, w)
      <4>1. op[x].s.path # "legacy" => w \notin {"duplicate", "missing"}
        BY <3>1, <3>3 DEF Retries, Refusals
      <4> QED
        BY <1>4, <3>1, <3>3, <4>1, StepKeeps DEF Send, External, chain, Before
    <3> QED
      BY <3>2, <3>3
  <2> QED
    BY <1>4, <2>1, <2>2 DEF Send
<1>5. CASE Resend(x)
  <2>1. CASE Include(x, RetryPayer(x))
    BY <1>5, <2>1, IncludeKeeps DEF Resend, RetryPayer
  <2>2. CASE \E w \in Refusals(op[x], TRUE) : Fail(x, w) /\ External
    <3>1. PICK w \in Refusals(op[x], TRUE) : Fail(x, w) /\ External
      BY <2>2
    <3>2. op[x].pc = "resend" /\ op[x].s.path # "legacy" /\ Installed(op[x])
      BY <1>5 DEF Resend, ExecutionsOK, ExecutionOK, Installed
    <3>3. w \notin {"duplicate", "missing"}
      BY <3>1, <3>2 DEF Refusals
    <3> QED
      BY <3>1, <3>2, <3>3, StepKeeps DEF External, chain, Before
  <2>3. CASE Fail(x, "rpc") /\ External
    BY <1>5, <2>3, StepKeeps DEF Resend, External, chain, Before
  <2> QED
    BY <1>5, <2>1, <2>2, <2>3 DEF Resend
<1>6. CASE Receipt(x)
  BY <1>6, StepKeeps DEF Receipt, External, chain, Before
<1>7. CASE VerifyDelegation(x)
  BY <1>7, StepKeeps DEF VerifyDelegation, External, chain, Before
<1> QED
  BY <1>1, <1>2, <1>3, <1>4, <1>5, <1>6, <1>7 DEF OpStep

(* Nor does anything else. *)
LEMMA OtherKeeps ==
  ASSUME ExecutionsOK, UNCHANGED <<op, installed>>
  PROVE  ExecutionsOK'
  BY DEF ExecutionsOK

(* Every step keeps the executions in order.                                  *)
LEMMA NextKeeps ==
  ASSUME ExecutionsOK, [KernelNext]_kernelVars
  PROVE  ExecutionsOK'
<1>1. ASSUME NEW x \in Op, OpStep(x) PROVE ExecutionsOK'
  BY <1>1, OpKeeps
<1>2. ASSUME NEW x \in Op, NEW a \in Account, NEW t \in Job, Start(x, a, t) PROVE ExecutionsOK'
  BY <1>2, StartKeeps
<1>3. ASSUME NEW a \in Account,
             \/ \E k \in SessionKey : Register(a, k)
             \/ StoreSession(a) \/ SignUndelegation(a) \/ RelayUndelegation(a)
             \/ ClearRegistration(a) \/ Deploy(a) \/ DelegateElsewhere(a)
      PROVE  UNCHANGED <<op, installed>>
  BY <1>3 DEF Register, StoreSession, SignUndelegation, RelayUndelegation, ClearRegistration,
              Deploy, DelegateElsewhere, chain, saved
<1>4. ASSUME NEW v \in Vault, Delist(v) PROVE UNCHANGED <<op, installed>>
  BY <1>4 DEF Delist, chain
<1>5. CASE UNCHANGED kernelVars
  BY <1>5, OtherKeeps DEF kernelVars
<1> QED
  BY <1>1, <1>2, <1>3, <1>4, <1>5, OtherKeeps DEF KernelNext

-------------------------------------------------------------------------------
(* The policy. *)

(* Why a call policy turns an execution down. *)
Refused(o) == \E c \in Batch(o.task) : ~Permits(o.s, c)

(* An execution changes its progress, never its task or its session, and     *)
(* blames the policy only for a call that is refused.                        *)
Evolves(x) ==
  /\ op[x].pc # "idle"
  /\ \A y \in Op \ {x} : op'[y] = op[y]
  /\ op'[x].pc # "idle" /\ op'[x].task = op[x].task /\ op'[x].s = op[x].s
  /\ op'[x].why = "policy" => op[x].why = "policy" \/ Refused(op[x])
  /\ UNCHANGED saved

(* The ways an execution changes without the chain. *)
LEMMA LocalEvolves ==
  ASSUME ExecutionsOK, NEW x \in Op, op[x].pc # "idle", UNCHANGED saved,
         \/ \E p : Goto(x, p) /\ p # "idle"
         \/ \E w : Fail(x, w) /\ (w = "policy" => Refused(op[x]))
         \/ Succeed(x)
  PROVE  Evolves(x)
<1> DEFINE o == op[x]
<1>0. Shape(o) /\ op = [y \in Op |-> op[y]]
  BY DEF ExecutionsOK, ExecutionOK
<1>1. ASSUME NEW e, op' = [op EXCEPT ![x] = e],
             e.pc # "idle", e.task = o.task, e.s = o.s,
             e.why = "policy" => o.why = "policy" \/ Refused(o)
      PROVE  Evolves(x)
  <2>1. op'[x] = e /\ \A y \in Op \ {x} : op'[y] = op[y]
    BY <1>0, <1>1
  <2> QED
    BY <1>1, <2>1 DEF Evolves
<1>2. ASSUME NEW p, Goto(x, p), p # "idle" PROVE Evolves(x)
  <2>1. PICK e : e = [o EXCEPT !.pc = p]
    OBVIOUS
  <2>2. e = [pc |-> p, a |-> o.a, task |-> o.task, s |-> o.s, payer |-> o.payer,
             sent |-> o.sent, mined |-> o.mined, result |-> o.result, why |-> o.why]
    BY <1>0, <2>1 DEF Shape
  <2>3. e.pc = p /\ e.task = o.task /\ e.s = o.s /\ e.why = o.why
    BY <2>2
  <2>4. op' = [op EXCEPT ![x] = e]
    BY <1>2, <2>1 DEF Goto
  <2> QED
    BY <1>1, <1>2, <2>3, <2>4
<1>3. ASSUME NEW w, Fail(x, w), w = "policy" => Refused(op[x]) PROVE Evolves(x)
  <2>1. PICK e, f : e = Failed(o, "failed", w) /\ f = Done(o, "failed")
    OBVIOUS
  <2>2. e.pc = "done" /\ e.task = o.task /\ e.s = o.s /\ e.why = w
    BY <1>0, <2>1, EndRecord
  <2>3. op' = [op EXCEPT ![x] = e]
    BY <1>3, <2>1 DEF Fail, Failed
  <2> QED
    BY <1>1, <1>3, <2>2, <2>3
<1>4. CASE Succeed(x)
  <2>1. PICK e, f : e = Failed(o, "success", Nil) /\ f = Done(o, "success")
    OBVIOUS
  <2>2. f.pc = "done" /\ f.task = o.task /\ f.s = o.s /\ f.why = o.why
    BY <1>0, <2>1, EndRecord
  <2>3. op' = [op EXCEPT ![x] = f]
    BY <1>4, <2>1 DEF Succeed, Done
  <2> QED
    BY <1>1, <2>2, <2>3
<1> QED
  BY <1>2, <1>3, <1>4

(* And with it. *)
LEMMA IncludeEvolves ==
  ASSUME ExecutionsOK, NEW x \in Op, op[x].pc \in {"send", "resend"}, Include(x, op[x].payer)
  PROVE  Evolves(x)
<1> DEFINE o == op[x]
<1>0. Shape(o) /\ o.sent = 0 /\ op = [y \in Op |-> op[y]]
  BY DEF ExecutionsOK, ExecutionOK, Before
<1>1. ~Retries(x, "lost") /\ UNCHANGED saved
  BY DEF Retries, Include
<1>2. PICK m : \/ op' = [op EXCEPT ![x] = Included(o, m, o.payer)]
               \/ op' = [op EXCEPT ![x] = Failed(Included(o, m, o.payer), "failed", "lost")]
  BY <1>1 DEF Include, Included, Failed
<1>3. PICK e : e = Included(o, m, o.payer)
  OBVIOUS
<1>4. Shape(e) /\ e.pc = "receipt" /\ e.task = o.task /\ e.s = o.s /\ e.why = o.why
  BY <1>0, <1>3, IncludedRecord
<1>5. PICK f, g : f = Failed(e, "failed", "lost") /\ g = Done(e, "failed")
  OBVIOUS
<1>6. f.pc = "done" /\ f.task = e.task /\ f.s = e.s /\ f.why = "lost"
  BY <1>4, <1>5, EndRecord
<1>7. op' = [op EXCEPT ![x] = e] \/ op' = [op EXCEPT ![x] = f]
  BY <1>2, <1>3, <1>5
<1>8. (op'[x] = e \/ op'[x] = f) /\ \A y \in Op \ {x} : op'[y] = op[y]
  BY <1>0, <1>7
<1> QED
  BY <1>1, <1>4, <1>6, <1>8 DEF Evolves

(* Every step of an execution is of that kind. *)
LEMMA OpEvolves ==
  ASSUME ExecutionsOK, NEW x \in Op, OpStep(x)
  PROVE  Evolves(x)
<1>1. CASE CheckDelegation(x)
  BY <1>1, LocalEvolves DEF CheckDelegation, External
<1>2. CASE BuildClient(x)
  BY <1>2, LocalEvolves DEF BuildClient, External
<1>3. CASE BuildCalls(x)
  BY <1>3, LocalEvolves DEF BuildCalls, External
<1>4. CASE Send(x)
  <2>1. CASE Include(x, op[x].payer)
    BY <1>4, <2>1, IncludeEvolves DEF Send
  <2>2. ASSUME NEW w \in Refusals(op[x], FALSE),
               IF Retries(x, w) THEN Goto(x, "resend") ELSE Fail(x, w), External
        PROVE  Evolves(x)
    <3>1. w = "policy" => Refused(op[x])
      BY DEF Refusals, Refused
    <3> QED
      BY <1>4, <2>2, <3>1, LocalEvolves DEF Send, External
  <2> QED
    BY <1>4, <2>1, <2>2 DEF Send
<1>5. CASE Resend(x)
  <2>1. CASE Include(x, RetryPayer(x))
    BY <1>5, <2>1, IncludeEvolves DEF Resend, RetryPayer
  <2>2. ASSUME NEW w \in Refusals(op[x], TRUE), Fail(x, w), External
        PROVE  Evolves(x)
    <3>1. w = "policy" => Refused(op[x])
      BY DEF Refusals, Refused
    <3> QED
      BY <1>5, <2>2, <3>1, LocalEvolves DEF Resend, External
  <2>3. CASE Fail(x, "rpc") /\ External
    BY <1>5, <2>3, LocalEvolves DEF Resend, External
  <2> QED
    BY <1>5, <2>1, <2>2, <2>3 DEF Resend
<1>6. CASE Receipt(x)
  BY <1>6, LocalEvolves DEF Receipt, External
<1>7. CASE VerifyDelegation(x)
  BY <1>7, LocalEvolves DEF VerifyDelegation, External
<1> QED
  BY <1>1, <1>2, <1>3, <1>4, <1>5, <1>6, <1>7 DEF OpStep

(* What the policy rests on stays true. *)
LEMMA PolicyKeeps ==
  ASSUME KernelInv, [KernelNext]_kernelVars
  PROVE  SessionsKept' /\ RefusedForCause'
<1>0. ExecutionsOK /\ SessionsKept /\ RefusedForCause
  BY DEF KernelInv
<1>1. ASSUME NEW x \in Op, OpStep(x) PROVE SessionsKept' /\ RefusedForCause'
  <2>1. Evolves(x)
    BY <1>0, <1>1, OpEvolves
  <2>2. SessionsKept'
    BY <1>0, <2>1 DEF Evolves, SessionsKept, Sends, saved
  <2>3. RefusedForCause'
    <3>1. ASSUME NEW y \in Op, op'[y].why = "policy" PROVE op'[y].pc # "idle" /\ Refused(op'[y])
      <4>1. CASE y = x
        <5>1. Refused(op[x])
          BY <1>0, <2>1, <3>1, <4>1 DEF Evolves, RefusedForCause, Refused
        <5> QED
          BY <2>1, <4>1, <5>1 DEF Evolves, Refused
      <4>2. CASE y # x
        BY <1>0, <2>1, <3>1, <4>2 DEF Evolves, RefusedForCause, Refused
      <4> QED
        BY <4>1, <4>2
    <3> QED
      BY <3>1 DEF RefusedForCause, Refused
  <2> QED
    BY <2>2, <2>3
<1>2. ASSUME NEW x \in Op, NEW a \in Account, NEW t \in Job, Start(x, a, t)
      PROVE  SessionsKept' /\ RefusedForCause'
  <2>1. /\ op'[x].task = t /\ op'[x].s = SessionOf(a, t) /\ op'[x].why = Nil
        /\ \A y \in Op \ {x} : op'[y] = op[y]
        /\ UNCHANGED saved
    BY <1>0, <1>2 DEF Start, External, ExecutionsOK
  <2>2. t.kind # "send" => ~Sends(op'[x].s)
    BY <1>0, <1>2, <2>1 DEF Start, SessionOf, SessionsKept
  <2>3. SessionsKept'
    BY <1>0, <2>1, <2>2 DEF SessionsKept, saved, Sends
  <2>4. RefusedForCause'
    BY <1>0, <2>1, KernelAssumption DEF RefusedForCause
  <2> QED
    BY <2>3, <2>4
<1>3. ASSUME UNCHANGED op, SessionsKept' PROVE SessionsKept' /\ RefusedForCause'
  BY <1>0, <1>3 DEF RefusedForCause
<1>4. ASSUME NEW a \in Account, NEW k \in SessionKey, Register(a, k)
      PROVE  UNCHANGED op /\ SessionsKept'
  <2> DEFINE new == [key |-> k, path |-> "eip7702", nonce |-> nonce[a],
                     vaults |-> listed \cup {Gateway, Merkl}]
  <2>1. draft' = [draft EXCEPT ![a] = new] /\ UNCHANGED <<session, op>> /\ new.path = "eip7702"
    BY <1>4 DEF Register
  <2> HIDE DEF new
  <2> QED
    BY <1>0, <2>1 DEF SessionsKept, Sends
<1>5. ASSUME NEW a \in Account, StoreSession(a) PROVE UNCHANGED op /\ SessionsKept'
  BY <1>0, <1>5 DEF StoreSession, SessionsKept, Sends
<1>6. ASSUME NEW a \in Account, ClearRegistration(a) PROVE UNCHANGED op /\ SessionsKept'
  BY <1>0, <1>6 DEF ClearRegistration, SessionsKept, Sends
<1>7. ASSUME NEW a \in Account,
             \/ SignUndelegation(a) \/ RelayUndelegation(a) \/ Deploy(a) \/ DelegateElsewhere(a)
      PROVE  UNCHANGED op /\ SessionsKept'
  BY <1>0, <1>7 DEF SignUndelegation, RelayUndelegation, Deploy, DelegateElsewhere, saved,
                    SessionsKept, Sends
<1>8. ASSUME NEW v \in Vault, Delist(v) PROVE UNCHANGED op /\ SessionsKept'
  BY <1>0, <1>8 DEF Delist, SessionsKept, Sends
<1>9. CASE UNCHANGED kernelVars
  BY <1>0, <1>9 DEF kernelVars, SessionsKept, RefusedForCause, Sends
<1> QED
  BY <1>1, <1>2, <1>3, <1>4, <1>5, <1>6, <1>7, <1>8, <1>9 DEF KernelNext

(* The agent's policy permits every call of a batch that touches only vaults *)
(* the session was signed for, and of no token more than its cap.            *)
LEMMA CoveredPermitted ==
  ASSUME NEW t \in Job, t.kind # "send", NEW s, s.path # "legacy", ~Sends(s),
         {t.from, t.to} \cap Vault \subseteq s.vaults,
         \A c \in Batch(t) : c.to \in Token => c.amount <= MaxPerCall[c.to],
         NEW c \in Batch(t)
  PROVE  Permits(s, c)
<1> SUFFICES AgentPermits(s.vaults, c)
  BY DEF Permits, Sends
<1>1. /\ t.kind \in {"rebalance", "redeem"} => t.from \in s.vaults
      /\ t.kind \in {"rebalance", "deposit"} => t.to \in s.vaults
  BY KernelAssumption
<1>2. /\ Usdc \in Token
      /\ t.kind = "rebalance" => TokenOf[t.from] \in Token
      /\ t.kind = "deposit" => TokenOf[t.to] \in Token
  BY KernelAssumption
<1>3. ASSUME NEW v \in s.vaults, NEW n, c \in Withdraw(v, n) PROVE AgentPermits(s.vaults, c)
  BY <1>3 DEF Withdraw, MorphoRedeem, YoRedeem, Call, AgentPermits, ShareApproval
<1>4. ASSUME NEW v \in s.vaults, NEW k \in Token, NEW n, c \in Enter(v, k, n),
             Enter(v, k, n) \subseteq Batch(t)
      PROVE  AgentPermits(s.vaults, c)
  <2>1. n <= MaxPerCall[k]
    <3>1. \E d \in Enter(v, k, n) : d.to = k /\ d.amount = n
      BY DEF Enter, MorphoDeposit, YoDeposit, Call
    <3> QED
      BY <1>4, <3>1
  <2> QED
    BY <1>4, <2>1 DEF Enter, MorphoDeposit, YoDeposit, Call, AgentPermits, Deposits
<1>5. CASE t.kind = "rebalance"
  <2>1. Batch(t) = Withdraw(t.from, t.amount)
                     \cup Enter(t.to, TokenOf[t.from], Slip(t.amount))
    BY <1>5 DEF Batch, Rebalance
  <2> QED
    BY <1>1, <1>2, <1>3, <1>4, <1>5, <2>1
<1>6. CASE t.kind = "deposit"
  <2>1. Batch(t) = Enter(t.to, IF t.to \in Morpho THEN Usdc ELSE TokenOf[t.to], t.amount)
    BY <1>6 DEF Batch, Deposit
  <2> QED
    BY <1>1, <1>2, <1>4, <1>6, <2>1
<1>7. CASE t.kind = "redeem"
  BY <1>1, <1>3, <1>7 DEF Batch
<1>8. CASE t.kind = "claim"
  BY <1>8 DEF Batch, Claim, Call, AgentPermits
<1> QED
  BY <1>5, <1>6, <1>7, <1>8, KernelAssumption

-------------------------------------------------------------------------------
(* An execution that has no answer has sent nothing, whatever interleaves and *)
(* whatever answers are lost.                                                 *)
THEOREM KernelInvariant == KernelSpec => []KernelInv
<1>1. KernelInit => KernelInv
  <2>1. KernelInit => ExecutionsOK
    BY IdleOK DEF KernelInit, ExecutionsOK
  <2>2. KernelInit => SessionsKept
    BY KernelAssumption DEF KernelInit, SessionsKept, Sends, Idle
  <2>3. KernelInit => RefusedForCause
    BY KernelAssumption DEF KernelInit, RefusedForCause, Idle
  <2> QED
    BY <2>1, <2>2, <2>3 DEF KernelInv
<1>2. KernelInv /\ [KernelNext]_kernelVars => KernelInv'
  BY NextKeeps, PolicyKeeps DEF KernelInv
<1> QED
  BY <1>1, <1>2, PTL DEF KernelSpec

(* One execution submits at most one operation, also when a refused           *)
(* "duplicate permissionHash" is sent again.                                  *)
THEOREM ExecutionsSubmitOnce == KernelSpec => []SubmittedOnce
<1>1. KernelInv => SubmittedOnce
  <2>1. KernelInv => \A x \in Op : op[x].sent \in {0, 1}
    BY DEF KernelInv, ExecutionsOK, ExecutionOK
  <2> QED
    BY <2>1 DEF SubmittedOnce
<1> QED
  BY <1>1, KernelInvariant, PTL

(* A session's permission, installed or not yet, stops no execution.          *)
THEOREM InstallationNeverBlocks == KernelSpec => []EnableNeverBlocks
<1>1. KernelInv => EnableNeverBlocks
  BY DEF KernelInv, ExecutionsOK, ExecutionOK, EnableNeverBlocks
<1> QED
  BY <1>1, KernelInvariant, PTL

(* The payer of an operation is the one its task asks for, retried or not.    *)
THEOREM PayerIsKept == KernelSpec => []PayerKept
<1>1. KernelInv => PayerKept
  <2>1. ASSUME KernelInv, NEW x \in Op
        PROVE  /\ op[x].sent \in {0, 1} /\ (op[x].pc = "idle" => op[x].sent = 0)
               /\ op[x].pc # "idle" => (op[x].payer = "usdc" <=> op[x].task.kind = "send")
    BY <2>1 DEF KernelInv, ExecutionsOK, ExecutionOK
  <2>2. ASSUME KernelInv, NEW x \in Op, op[x].sent > 0
        PROVE  op[x].payer = "usdc" <=> op[x].task.kind = "send"
    <3>1. op[x].pc # "idle"
      BY <2>1, <2>2
    <3> QED
      BY <2>1, <2>2, <3>1
  <2> QED
    BY <2>2 DEF PayerKept
<1> QED
  BY <1>1, KernelInvariant, PTL

(* A batch of the agent that touches only vaults its session was signed for,  *)
(* and of no token more than its cap, is never refused by the call policy     *)
(* (permission-builder.ts:32-183 against the executors), whichever vaults are *)
(* delisted and whatever is registered again meanwhile.                       *)
THEOREM PolicyIsComplete == KernelSpec => []PolicyCoversBatches
<1>1. KernelInv => PolicyCoversBatches
  <2> SUFFICES ASSUME KernelInv, NEW x \in Op, op[x].why = "policy", op[x].s.path # "legacy",
                      op[x].task.kind # "send", Covered(op[x])
               PROVE  FALSE
    BY DEF PolicyCoversBatches
  <2>1. op[x].pc # "idle" /\ \E c \in Batch(op[x].task) : ~Permits(op[x].s, c)
    BY DEF KernelInv, RefusedForCause
  <2>2. op[x].task \in Job /\ ~Sends(op[x].s)
    BY <2>1 DEF KernelInv, SessionsKept
  <2>3. \A c \in Batch(op[x].task) : Permits(op[x].s, c)
    BY <2>2, CoveredPermitted DEF Covered
  <2> QED
    BY <2>1, <2>3
<1> QED
  BY <1>1, KernelInvariant, PTL

===============================================================================
