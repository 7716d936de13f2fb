---------------------------- MODULE MCTransferSend ----------------------------
(* TransferSend for TLC. *)
EXTENDS TransferSend, TLC

Symmetry == Permutations(Req) \cup Permutations(Token)
===============================================================================
