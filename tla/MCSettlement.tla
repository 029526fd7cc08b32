---------------------------- MODULE MCSettlement ----------------------------
(***************************************************************************)
(* Settlement on small instances.                                          *)
(***************************************************************************)
EXTENDS Settlement, TLC

\* Remittances, workers and requests are interchangeable; used by the runs
\* that check no liveness.
Symmetric ==
  Permutations(Remittances) \cup Permutations(Workers) \cup Permutations(Requests)
=============================================================================
