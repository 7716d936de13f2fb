------------------------------- MODULE MCTransfers -------------------------------
(* TransferSuite for TLC. *)
EXTENDS TransferSuite, TLC

CONSTANTS a1, a2, u1, u2, s1, s2, s3, k1, k2, w1, w2, p1, b1, h1, h2

(* A row of before the encryption beside one of after it, and a row of another *)
(* key beside a plain one.                                                     *)
Stored(s, f) == [secret |-> s, form |-> f]
Row(a, t) == ("agent" :> a) @@ ("transfer" :> t)
MCTables ==
  {u1 :> r :
    r \in {Row(Stored(s1, k1), Stored(s2, "plain")), Row(Stored(s1, "plain"), Stored(s2, k2))}}

(* Two people of one browser, two wallets of their own, an embedded one and   *)
(* one of Solana.                                                             *)
MCKind == (w1 :> "external") @@ (w2 :> "external") @@ (p1 :> "embedded") @@ (b1 :> "solana")

(* A user of two wallets, whose agent works at w1, and one of none.  Beside    *)
(* the calls of both runs a withdrawal of the first.                           *)
MCSmart == (w1 :> a1) @@ (w2 :> a2)
MCLinked == {(u1 :> <<w1, w2>>) @@ (u2 :> <<>>)}
MCRows == {(w1 :> w1) @@ (w2 :> None)}
AllRoutes ==
  {"activity", "gains", "history", "sync", "withdraw", "optimize", "evaluate", "health", "status"}
MCServes ==
  (h1 :> ({u1} \X AllRoutes \X {w2}) \cup {<<u1, "optimize", w1>>, <<u2, "optimize", w2>>})
  @@ (h2 :> {<<u1, "withdraw", w1>>})

Symmetry == Permutations(Req) \cup Permutations(Token)
===============================================================================
