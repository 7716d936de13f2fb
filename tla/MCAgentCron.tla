------------------------------ MODULE MCAgentCron ------------------------------
(***************************************************************************)
(* AgentCron for TLC, in two instances checked side by side: overlapping    *)
(* runs against the requests of a user, and the work of one simulated run   *)
(* through several chunks of users.  `part` says which of them a behaviour  *)
(* runs; the variables of the other keep their initial values.              *)
(***************************************************************************)
EXTENDS AgentCron, TLC

CONSTANTS j1, j2, j3, l1, l2, l3, nightly    \* users of the chunks, their keys, their run

VARIABLES
  part,       \* the variables of the chunks are those of AgentCron
  crow, cissued, cexpired, crevoked, creq, cacked, cwiped, clock, crun, ctask, ccount,
  cops, csent, cpos, cmoves, crows, cclaimRow, cclaimed

Chunk == INSTANCE AgentCron WITH
  User <- {j1, j2, j3}, Key <- {l1, l2, l3}, Req <- {}, Run <- {nightly},
  Fault <- {"store", "crash"}, Concurrency <- 2, Budget <- 2, MaxOps <- 2, Simulation <- TRUE,
  row <- crow, issued <- cissued, expired <- cexpired, revoked <- crevoked, req <- creq,
  acked <- cacked, wiped <- cwiped, lock <- clock, run <- crun, task <- ctask, count <- ccount,
  ops <- cops, sent <- csent, pos <- cpos, moves <- cmoves, rows <- crows,
  claimRow <- cclaimRow, claimed <- cclaimed

chunkVars == <<crow, cissued, cexpired, crevoked, creq, cacked, cwiped, clock, crun, ctask, ccount,
               cops, csent, cpos, cmoves, crows, cclaimRow, cclaimed>>

PartsInit ==
  /\ part \in {"requests", "chunks"} /\ Init /\ Chunk!Init
  /\ crow[j1].key = l1 /\ crow[j2].key = l2 /\ crow[j3].key = l3
  /\ part # "requests" => issued = {}

PartsNext ==
  \/ part = "requests" /\ Next /\ UNCHANGED <<part, chunkVars>>
  \/ part = "chunks" /\ Chunk!Next /\ UNCHANGED <<part, vars>>

PartsSpec == PartsInit /\ [][PartsNext]_<<part, vars, chunkVars>>

Symmetry ==
  Permutations(User) \cup Permutations(Run) \cup Permutations(Key) \cup Permutations(Req)

(* The summary of a run over several chunks accounts for every user of the    *)
(* snapshot, also when one task of a chunk has rejected (AgentCron).          *)
ChunksAccounted == Chunk!SummaryAccounts
===============================================================================
