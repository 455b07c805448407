------------------------------ MODULE RoundRobin ------------------------------
(***************************************************************************)
(* What the round-robin Scheduler of kernel/src/task.rs promises, without  *)
(* stacks, slots or interrupts: tasks stand in line, whoever has waited    *)
(* longest runs next, sleepers may be passed over, a turn is exactly one   *)
(* step, and a task that is not finished goes to the end of the line.      *)
(* TaskSwitch implements this specification (module TaskSwitchRefines).    *)
(***************************************************************************)
EXTENDS Naturals, Sequences

CONSTANT Tasks       \* positive task ids

VARIABLES
  line,     \* the waiting tasks, longest waiting first
  turn,     \* the task whose turn it is; 0: nobody's
  verdict,  \* what its step returned: "none" until it did
  asleep,   \* waiting tasks that have not woken yet
  runs,     \* steps each task has run
  done      \* tasks that finished

vars == <<line, turn, verdict, asleep, runs, done>>

Init ==
  /\ line = <<>> /\ turn = 0 /\ verdict = "none"
  /\ asleep = {} /\ runs = [i \in Tasks |-> 0] /\ done = {}

Waiting == {line[n] : n \in DOMAIN line}

\* spawn: a new task, awake or asleep, joins the end of the line.
Join(i) ==
  /\ i \notin Waiting \cup done \cup {turn} /\ runs[i] = 0
  /\ line' = Append(line, i)
  /\ asleep' \in {asleep, asleep \cup {i}}
  /\ UNCHANGED <<turn, verdict, runs, done>>

\* schedule_once picks: only sleepers may stand before the task that gets the
\* turn, and they move behind everyone who stood after it.
Grant(n) ==
  /\ turn = 0
  /\ \A m \in 1..n - 1 : line[m] \in asleep
  /\ turn' = line[n] /\ asleep' = asleep \ {line[n]}
  /\ line' = SubSeq(line, n + 1, Len(line)) \o SubSeq(line, 1, n - 1)
  /\ UNCHANGED <<verdict, runs, done>>

\* The trampoline runs one step of the task whose turn it is.
Step ==
  /\ turn # 0 /\ verdict = "none"
  /\ verdict' \in {"alive", "finished"}
  /\ runs' = [runs EXCEPT ![turn] = @ + 1]
  /\ UNCHANGED <<line, turn, asleep, done>>

\* The turn ends: back to the end of the line, or out of it for good.
EndTurn ==
  /\ verdict # "none"
  /\ turn' = 0 /\ verdict' = "none"
  /\ line' = IF verdict = "alive" THEN Append(line, turn) ELSE line
  /\ done' = IF verdict = "alive" THEN done ELSE done \cup {turn}
  /\ UNCHANGED <<asleep, runs>>

Next ==
  \/ \E i \in Tasks : Join(i)
  \/ \E n \in DOMAIN line : Grant(n)
  \/ Step
  \/ EndTurn

Spec == Init /\ [][Next]_vars
=============================================================================
