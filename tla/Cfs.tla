---------------------------------- MODULE Cfs ----------------------------------
(***************************************************************************)
(* The other policy of kernel/src/task.rs behind the Scheduler trait: the  *)
(* awake task with the smallest vruntime runs next, and one step costs it  *)
(* CFS_BASE_SLICE * 1024 / weight.  The switch into the task and back is   *)
(* that of TaskSwitch; here a turn is three steps: pick, the task's own    *)
(* step, and the accounting once the driver is back on the boot stack.     *)
(* The driver is main's: it spawns all its tasks, then only schedules.     *)
(***************************************************************************)
EXTENDS Integers, FiniteSets, Sequences, SequencesExt

CONSTANTS
  Quantum,      \* CFS_BASE_SLICE * 1024 (102400 in the code)
  VMax,         \* u64::MAX, where vruntime saturates
  Weights,      \* the weights tasks are spawned with
  MaxId,        \* bound: tasks spawned
  MaxSleepers,  \* bound: tasks spawned asleep (main spawns one, the napper)
  MaxTick,      \* bound: LAPIC ticks in a behaviour
  MaxRuns       \* bound: where the ledger stops counting

\* with_weight refuses 0.  A weight above Quantum makes a step free: nobody who has
\* been charged would run beside it, so the runs' weights stay below.
ASSUME WeightsAssumption == Weights \subseteq Nat \ {0}
ASSUME CfsBoundsAssumption ==
  /\ Quantum \in Nat /\ VMax \in Nat /\ MaxId \in Nat
  /\ MaxSleepers \in Nat /\ MaxTick \in Nat /\ MaxRuns \in Nat

VARIABLES
  ready,     \* Cfs.ready
  run,       \* the task taken out of it (0: none)
  started,   \* main has entered its scheduling loop
  nextId,    \* Cfs.next_id
  ticks,     \* APIC_TICKS
  state,     \* Task.state; "Unborn" before spawn, "Dropped" once in finished_runs
  until,     \* until_tick (0: the task was spawned awake)
  weight,    \* Task.weight
  vruntime,  \* Task.vruntime
  runs       \* Task.runs, up to MaxRuns

vars == <<ready, run, started, nextId, ticks, state, until, weight, vruntime, runs>>

Ids == 1..MaxId
Queued == {ready[n] : n \in DOMAIN ready}

Init ==
  /\ ready = <<>> /\ run = 0 /\ started = FALSE /\ nextId = 1 /\ ticks = 0
  /\ state = [i \in Ids |-> "Unborn"] /\ until = [i \in Ids |-> 0]
  /\ weight = [i \in Ids |-> 0] /\ vruntime = [i \in Ids |-> 0]
  /\ runs = [i \in Ids |-> 0]

\* The LAPIC stub bumps APIC_TICKS whatever the CPU is doing.
Tick ==
  /\ ticks < MaxTick /\ ticks' = ticks + 1
  /\ UNCHANGED <<ready, run, started, nextId, state, until, weight, vruntime, runs>>

\* Task::new or Task::sleeping, with_weight, spawn.
spawn(w, u) ==
  /\ ~started /\ nextId <= MaxId
  /\ u > 0 => Cardinality({i \in Ids : until[i] > 0}) < MaxSleepers
  /\ nextId' = nextId + 1 /\ ready' = Append(ready, nextId)
  /\ state' = [state EXCEPT ![nextId] = IF u = 0 THEN "Ready" ELSE "Sleeping"]
  /\ until' = [until EXCEPT ![nextId] = u]
  /\ weight' = [weight EXCEPT ![nextId] = w]
  /\ UNCHANGED <<run, started, ticks, vruntime, runs>>

-----------------------------------------------------------------------------
(* schedule_once.                                                           *)

Awake(i) == ~(state[i] = "Sleeping" /\ ticks < until[i])

\* Mutant: <= instead of < in the scan, the last of the minimal tasks.
PickLastMin(n) ==
  /\ Awake(ready[n])
  /\ \A m \in DOMAIN ready : Awake(ready[m]) =>
       \/ vruntime[ready[n]] < vruntime[ready[m]]
       \/ vruntime[ready[n]] = vruntime[ready[m]] /\ n >= m

\* The index of the first awake task with the smallest vruntime.
pick_min(n) ==
  /\ Awake(ready[n])
  /\ \A m \in DOMAIN ready : Awake(ready[m]) =>
       \/ vruntime[ready[n]] < vruntime[ready[m]]
       \/ vruntime[ready[n]] = vruntime[ready[m]] /\ n <= m

\* Over the tasks that stay queued, parked sleepers included.
min_vruntime(queue) ==
  IF queue = {} THEN 0
  ELSE CHOOSE v \in {vruntime[i] : i \in queue} : \A i \in queue : v <= vruntime[i]

\* Mutant: the woken sleeper keeps the vruntime it fell asleep with.
NapBanked(i) == vruntime[i]

\* What a task runs with: a woken sleeper is raised to the floor.
Clamped(i) ==
  LET floor == min_vruntime(Queued \ {i})
  IN  IF state[i] = "Sleeping" /\ vruntime[i] < floor THEN floor ELSE vruntime[i]

\* pick_min, remove, clamp, Running.
schedule_once(n) ==
  /\ run = 0 /\ pick_min(n)
  /\ started' = TRUE
  /\ run' = ready[n] /\ ready' = RemoveAt(ready, n)
  /\ vruntime' = [vruntime EXCEPT ![ready[n]] = Clamped(ready[n])]
  /\ state' = [state EXCEPT ![ready[n]] = "Running"]
  /\ UNCHANGED <<nextId, ticks, until, weight, runs>>

\* Nobody queued, or everybody asleep: schedule_once returns false.
NobodyAwake ==
  /\ run = 0 /\ \A i \in Queued : ~Awake(i)
  /\ started' = TRUE
  /\ UNCHANGED <<ready, run, nextId, ticks, state, until, weight, vruntime, runs>>

\* The trampoline runs one step.
StepReturns(alive) ==
  /\ run # 0 /\ state[run] = "Running"
  /\ state' = [state EXCEPT ![run] = IF alive THEN "Ready" ELSE "Finished"]
  /\ runs' = [runs EXCEPT ![run] = IF @ < MaxRuns THEN @ + 1 ELSE @]
  /\ UNCHANGED <<ready, run, started, nextId, ticks, until, weight, vruntime>>

Slice(i) == Quantum \div weight[i]

\* Mutants: no saturation, a wrapping add, the weight as a factor.
UnboundedAccrual(i) == vruntime[i] + Slice(i)
WrappingAccrual(i) == (vruntime[i] + Slice(i)) % (VMax + 1)
WeightMultiplies(i) ==
  IF vruntime[i] + weight[i] < VMax THEN vruntime[i] + weight[i] ELSE VMax

\* vruntime.saturating_add(CFS_BASE_SLICE * 1024 / weight).
Accrued(i) == IF vruntime[i] + Slice(i) < VMax THEN vruntime[i] + Slice(i) ELSE VMax

\* Back on the boot stack: accrue, then push_back or drop.
EndTurn ==
  /\ run # 0 /\ state[run] \in {"Ready", "Finished"}
  /\ vruntime' = [vruntime EXCEPT ![run] = Accrued(run)]
  /\ IF state[run] = "Ready"
     THEN ready' = Append(ready, run) /\ UNCHANGED state
     ELSE state' = [state EXCEPT ![run] = "Dropped"] /\ UNCHANGED ready
  /\ run' = 0
  /\ UNCHANGED <<started, nextId, ticks, until, weight, runs>>

Driver ==
  \/ \E w \in Weights, u \in 0..MaxTick : spawn(w, u)
  \/ \E n \in DOMAIN ready : schedule_once(n)
  \/ NobodyAwake
  \/ \E alive \in BOOLEAN : StepReturns(alive)
  \/ EndTurn

Next == Tick \/ Driver

Spec == Init /\ [][Next]_vars

\* The CPU executes, main keeps calling schedule_once (main.rs:368), steps
\* return and the timer ticks.
FairSpec == Spec /\ WF_vars(Driver) /\ WF_vars(Tick)
-----------------------------------------------------------------------------
\* The type of every variable; vruntime stays a u64.
TypeOK ==
  /\ ready \in Seq(Ids) /\ run \in 0..MaxId /\ started \in BOOLEAN
  /\ nextId \in 1..MaxId + 1 /\ ticks \in 0..MaxTick
  /\ state \in [Ids -> {"Unborn", "Ready", "Running", "Sleeping", "Finished", "Dropped"}]
  /\ until \in [Ids -> 0..MaxTick] /\ weight \in [Ids -> Weights \cup {0}]
  /\ vruntime \in [Ids -> 0..VMax] /\ runs \in [Ids -> 0..MaxRuns]

\* No task that competes for the CPU is ahead of another by more than one of
\* its own steps: pick-next, accrual and the sleeper's clamp together keep
\* every queued task within reach (task.rs:929, "always run the lowest-vruntime
\* task", and task.rs:939, "a long nap must not bank an unbeatable deficit").
LagBounded ==
  \A i, j \in Queued : state[i] = "Ready" /\ state[j] = "Ready" =>
    vruntime[i] <= vruntime[j] + Slice(i)

\* Of two tasks that never slept the one that accrues slower is never behind
\* in steps, from its second step on: "heavier weights accrue slower and get
\* picked more often" (task.rs:936).
HeavierRunsMore ==
  \A i, j \in Queued :
    /\ until[i] = 0 /\ until[j] = 0 /\ Slice(i) < Slice(j) /\ vruntime[j] < VMax
    => runs[j] <= 1 \/ runs[j] <= runs[i]

\* Every queued task gets to run, however long the others stay alive, saturated
\* accounts included: the scan takes the first of the minimal tasks.
EveryTaskRuns ==
  \A i \in Ids : state[i] \in {"Ready", "Sleeping"} ~> state[i] = "Running"

\* task.rs:1027, "A woken sleeper rejoins at worst at the current minimum -
\* never ahead of everyone by a banked nap": when it first runs, some awake
\* task of the queue is behind it by no more than its own last step.
NeverAheadByANap ==
  LET others == {i \in Queued : state[i] = "Ready"}
  IN  run # 0 /\ until[run] > 0 /\ runs[run] = 0 /\ others # {} =>
        \E i \in others : vruntime[i] <= vruntime[run] + Slice(i)
=============================================================================
