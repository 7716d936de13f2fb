---------------------------- MODULE MCYieldDecision ----------------------------
(* YieldDecision for TLC. *)
EXTENDS YieldDecision, TLC

CONSTANTS m1, y1, y2, usdc, weth

MCUnderlying == [v \in Yo |-> IF v = y2 THEN weth ELSE usdc]

(* APYs of the Morpho vault and of the YO vaults, in tenths of a percent. *)
Market(a, b, c) == [v \in Vault |-> IF v = m1 THEN a ELSE IF v = y1 THEN b ELSE c]
MCMarkets == {Market(30, 40, 20), Market(34, 30, 50)}
Feed(h, s) == [answered |-> TRUE, up |-> TRUE, upFor |-> h, age |-> s, off |-> 0]
MCFeeds == {Feed(1, 24), Feed(0, 1)}
===============================================================================
