--------------------------- MODULE MCSessionRegistry ---------------------------
(* SessionRegistry alone, for TLC. *)
EXTENDS SessionRegistry, TLC

Symmetry == Permutations(User) \cup Permutations(Key) \cup Permutations(Req)
===============================================================================
