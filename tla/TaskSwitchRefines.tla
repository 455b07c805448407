-------------------------- MODULE TaskSwitchRefines --------------------------
(***************************************************************************)
(* The switch path implements the round-robin promise: between two calls   *)
(* of schedule_once the queue is the line; inside the pass the skipped     *)
(* sleepers, already pushed back, still stand where they stood.            *)
(***************************************************************************)
EXTENDS TaskSwitch, TLC

InPolicy == pc \notin {"set_bit", "set_bounds", "spawn"}

\* The queue with the tasks this pass has skipped put back at its front.
Line == SubSeq(ready, left + 1, Len(ready)) \o SubSeq(ready, 1, left)

Turn == IF InPolicy THEN run ELSE 0

Verdict ==
  CASE Turn # 0 /\ state[run] = "Ready" -> "alive"
    [] Turn # 0 /\ state[run] = "Finished" -> "finished"
    [] OTHER -> "none"

Policy == INSTANCE RoundRobin WITH
  Tasks <- Ids,
  line <- Line,
  turn <- Turn,
  verdict <- Verdict,
  asleep <- {i \in {ready[n] : n \in DOMAIN ready} : state[i] = "Sleeping"},
  done <- {i \in Ids : state[i] = "Dropped"}

\* Every behaviour of the switch path, ticks at every instruction included, is
\* a behaviour of the round-robin policy: schedule_once never skips an awake
\* task, gives each turn exactly one step, and loses or repeats nobody.
ImplementsRoundRobin == Policy!Spec

\* Stack windows are interchangeable heap blocks.
WindowSymmetry == Permutations(Windows)
=============================================================================
