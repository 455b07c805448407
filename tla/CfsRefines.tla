------------------------------ MODULE CfsRefines ------------------------------
(***************************************************************************)
(* "Equal weights accrue equally (CFS degenerates to fair round-robin)",   *)
(* task.rs:935.  With one weight and nobody asleep, the scan for the       *)
(* smallest vruntime implements the policy of RoundRobin.                  *)
(***************************************************************************)
EXTENDS Cfs

Verdict ==
  CASE run # 0 /\ state[run] = "Ready" -> "alive"
    [] run # 0 /\ state[run] = "Finished" -> "finished"
    [] OTHER -> "none"

Policy == INSTANCE RoundRobin WITH
  Tasks <- Ids,
  line <- ready,
  turn <- run,
  verdict <- Verdict,
  asleep <- {i \in Queued : state[i] = "Sleeping"},
  done <- {i \in Ids : state[i] = "Dropped"}

\* Whoever has waited longest runs next, saturated accounts included: Cfs with
\* equal weights takes the head of the queue and never passes over anybody.
EqualWeightsAreRoundRobin == Policy!Spec

\* Bound: the ledger is exact.
LedgerExact == \A i \in Ids : runs[i] < MaxRuns
=============================================================================
