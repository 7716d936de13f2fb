---------------------------- MODULE MCKernelAccount ----------------------------
(* KernelAccount alone, for TLC. *)
EXTENDS KernelAccount, TLC

CONSTANTS m1, y1, usdc, weth

MCTokenOf == (m1 :> usdc) @@ (y1 :> usdc)
MCMaxPerCall == (usdc :> 4) @@ (weth :> 9)
T(kind, from, to, n) == [kind |-> kind, from |-> from, to |-> to, amount |-> n]
MCJobs ==
  {T("rebalance", m1, y1, 4), T("rebalance", y1, m1, 1), T("deposit", Nil, m1, 4),
   T("redeem", y1, Nil, 9), T("send", Nil, Nil, 4)}
Sym == Permutations(Op)
MCStored ==
  {[key |-> "old", path |-> p, nonce |-> 0, vaults |-> {m1, y1}] : p \in {"erc4337", "legacy"}}
===============================================================================
