------------------------------- MODULE MCServices -------------------------------
(***************************************************************************)
(* Parts of the system that no variable joins in these instances, checked   *)
(* side by side for TLC: the in-memory lock, the session registry, and the  *)
(* Kernel account.  `part` says which of them a behaviour runs; the         *)
(* variables of the others keep their initial values.                       *)
(***************************************************************************)
EXTENDS UserLock, SessionRegistry, MCKernelAccount

CONSTANTS cron, claim, exit, a1

VARIABLE part

(* The claim route and the cron pass 300 s, the sentinel 120 s: 5 and 2 units of a minute. *)
MCTtl == (cron :> 5) @@ (claim :> 5) @@ (exit :> 2)

SuiteInit ==
  /\ part \in {"lock", "registry", "kernel"}
  /\ Init /\ RegInit /\ KernelInit
  /\ part # "registry" => issued = {}
  /\ part # "kernel" => code[a1] = "none" /\ session[a1] = Nil

SuiteNext ==
  \/ part = "lock" /\ Next /\ UNCHANGED <<part, regVars, kernelVars>>
  \/ part = "registry" /\ RegNext /\ UNCHANGED <<part, vars, kernelVars>>
  \/ part = "kernel" /\ KernelNext /\ UNCHANGED <<part, vars, regVars>>

SuiteSpec == SuiteInit /\ [][SuiteNext]_<<part, vars, regVars, kernelVars>>

Symmetry == Permutations(User) \cup Permutations(Key) \cup Permutations(Req) \cup Permutations(Op)
===============================================================================
