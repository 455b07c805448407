---------------------------------- MODULE Demo ----------------------------------
(***************************************************************************)
(* The rest of kernel_main: the proof block, the four demo tasks, the      *)
(* driver loop that paces itself on LAPIC ticks, and the three verdicts    *)
(* (main.rs:241-453), under either scheduling policy.  A turn of           *)
(* schedule_once is here what TaskSwitch, RoundRobin and Cfs promise of    *)
(* it; what is new is the driver around it.                                *)
(***************************************************************************)
EXTENDS BringUp

CONSTANTS
  FairRuns,   \* SCHED_FAIR_RUNS (5 in the code)
  SchedGuard  \* SCHED_RUNAWAY_GUARD (100)

ASSUME DemoAssumption ==
  /\ FairRuns \in Nat \ {0} /\ SchedGuard \in Nat
  /\ SchedGuard >= 3 * FairRuns + 1 /\ SchedGuard >= NapTicks

VARIABLES
  policy,     \* the Cargo feature "rr" or "cfs", once a scheduler is made
  ready,      \* the ready queue
  task,       \* the task switched to
  runs,       \* Task.runs, in the queue and in finished_runs
  vruntime,   \* Task.vruntime (cfs)
  passes,     \* asleep_passes
  schedules,  \* schedules
  preempts    \* preempts > 0

demo == <<policy, ready, task, runs, vruntime, passes, schedules, preempts>>

Workers == {"alpha", "beta", "gamma"}
Names == Workers \cup {"napper"}
DemoPcs == {"proof", "spawn", "drive", "wait", "hlt", "schedule", "enter", "before",
            "witness", "step", "return", "verdict"}

DemoInit ==
  /\ policy = "none" /\ ready = <<>> /\ task = "none"
  /\ runs = [t \in Names |-> 0] /\ vruntime = [t \in Names |-> 0]
  /\ passes = 0 /\ schedules = 0 /\ preempts = FALSE

\* The proof block: fence down, EOI base published.
ProofBlock ==
  /\ Goto("proof", IF fence \/ ~window THEN "panic" ELSE "spawn")
  /\ UNCHANGED <<clocks, bring, why, demo>>

\* The scheduler, three workers, then the napper with wake_at = APIC_TICKS + 20.
Spawn ==
  /\ Goto("spawn", "drive")
  /\ policy' \in {"rr", "cfs"}
  /\ ready' = <<"alpha", "beta", "gamma", "napper">>
  /\ apicSince' = [apicSince EXCEPT !.nap = 0]
  /\ UNCHANGED <<iflag, asleep, serving, lock, masks, irr, isr, window, lvt, tirr, tisr,
                 pit, lapic, fence, yanked, pitSince, bring, why, task, runs, vruntime,
                 passes, schedules, preempts>>

\* last_switches and last_tick are read.
Drive ==
  /\ Goto("drive", "wait")
  /\ yanked' = FALSE /\ apicSince' = [apicSince EXCEPT !.driver = 0]
  /\ UNCHANGED <<iflag, asleep, serving, lock, masks, irr, isr, window, lvt, tirr, tisr,
                 pit, lapic, fence, pitSince, bring, why, demo>>

\* alive() > 0, then one look at APIC_TICKS: a fresh tick, or hlt.
Wait ==
  /\ \/ Goto("wait", "verdict") /\ ready = <<>> /\ UNCHANGED apicSince
     \/ /\ Goto("wait", "schedule") /\ ready # <<>> /\ apicSince.driver >= 1
        /\ apicSince' = [apicSince EXCEPT !.driver = 0]
     \/ Goto("wait", "hlt") /\ ready # <<>> /\ apicSince.driver = 0 /\ UNCHANGED apicSince
  /\ UNCHANGED <<iflag, asleep, serving, lock, masks, irr, isr, window, lvt, tirr, tisr,
                 pit, lapic, fence, yanked, pitSince, bring, why, demo>>

\* Mutant: cli around the look and the hlt, and hlt comes before sti.
HltWithIrqsOff ==
  /\ Goto("hlt", "wait") /\ asleep' = TRUE /\ iflag' = FALSE
  /\ UNCHANGED <<serving, lock, masks, irr, isr, window, lvt, tirr, tisr, pit, lapic,
                 fence, yanked, pitSince, apicSince, bring, why, demo>>

\* A tick between the look and the hlt is already counted: hlt waits for the next
\* interrupt all the same.
Hlt ==
  /\ Goto("hlt", "wait") /\ asleep' = TRUE
  /\ UNCHANGED <<iflag, serving, lock, masks, irr, isr, window, lvt, tirr, tisr, pit,
                 lapic, fence, yanked, pitSince, apicSince, bring, why, demo>>

-----------------------------------------------------------------------------
(* schedule_once.                                                           *)

Awake(t) == t = "napper" => apicSince.nap >= NapTicks
AwakeAt == {n \in DOMAIN ready : Awake(ready[n])}

\* RoundRobin takes the first awake task, Cfs the first of those with the smallest
\* vruntime.
Picked(n) ==
  /\ n \in AwakeAt
  /\ \A m \in AwakeAt :
       IF policy = "rr" THEN n <= m
       ELSE \/ vruntime[ready[n]] < vruntime[ready[m]]
            \/ vruntime[ready[n]] = vruntime[ready[m]] /\ n <= m

\* Round-robin pops the head and pushes sleepers back; Cfs removes in place.
Without(n) ==
  LET before == SubSeq(ready, 1, n - 1)
      after == SubSeq(ready, n + 1, Len(ready))
  IN  IF policy = "rr" THEN after \o before ELSE before \o after

\* A woken sleeper's vruntime is raised to the least one that stays queued.
min_vruntime(others) ==
  IF others = {} THEN 0
  ELSE CHOOSE v \in {vruntime[o] : o \in others} : \A o \in others : v <= vruntime[o]

Clamped(t, others) ==
  IF policy = "cfs" /\ t = "napper"
  THEN [vruntime EXCEPT ![t] = Most(@, min_vruntime(others))]
  ELSE vruntime

schedule_once ==
  /\ Goto("schedule", "enter")
  /\ \E n \in DOMAIN ready :
       /\ Picked(n)
       /\ task' = ready[n] /\ ready' = Without(n)
       /\ vruntime' = Clamped(ready[n], {ready[m] : m \in DOMAIN ready \ {n}})
  /\ UNCHANGED <<clocks, bring, why, policy, runs, passes, schedules, preempts>>

\* Everyone is asleep.
NobodyAwake ==
  /\ AwakeAt = {} /\ passes' = passes + 1
  /\ IF passes + 1 > SchedGuard THEN Halt("schedule", "asleep forever")
     ELSE Goto("schedule", "wait") /\ UNCHANGED why
  /\ UNCHANGED <<clocks, bring, policy, ready, task, runs, vruntime, schedules, preempts>>

\* Mutant: the trampoline forgets to raise the fence.
EnterUnfenced ==
  /\ Goto("enter", IF task \in Workers /\ runs[task] = 0 THEN "before" ELSE "step")
  /\ UNCHANGED <<clocks, bring, why, demo>>

\* On the task's stack: sti, fence up.
Enter ==
  /\ Goto("enter", IF task \in Workers /\ runs[task] = 0 THEN "before" ELSE "step")
  /\ fence' = TRUE
  /\ UNCHANGED <<iflag, asleep, serving, lock, masks, irr, isr, window, lvt, tirr, tisr,
                 pit, lapic, yanked, pitSince, apicSince, bring, why, demo>>

\* The first step of a worker reads APIC_TICKS ...
Before ==
  /\ Goto("before", "witness")
  /\ apicSince' = [apicSince EXCEPT !.step = 0]
  /\ UNCHANGED <<iflag, asleep, serving, lock, masks, irr, isr, window, lvt, tirr, tisr,
                 pit, lapic, fence, yanked, pitSince, bring, why, demo>>

\* ... and spins, with no guard, until it has moved.
Witness ==
  /\ Goto("witness", "step") /\ apicSince.step >= 1
  /\ UNCHANGED <<clocks, bring, why, demo>>

\* The step returns; runs; fence down, cli, back to the driver.
Step ==
  /\ Goto("step", "return")
  /\ runs' = [runs EXCEPT ![task] = @ + 1] /\ fence' = FALSE
  /\ UNCHANGED <<iflag, asleep, serving, lock, masks, irr, isr, window, lvt, tirr, tisr,
                 pit, lapic, yanked, pitSince, apicSince, bring, why, policy, ready, task,
                 vruntime, passes, schedules, preempts>>

-----------------------------------------------------------------------------
\* Mutant: the weight is a factor.
WeightMultiplies(t) == IF t = "gamma" THEN 2 ELSE 1

\* CFS_BASE_SLICE * 1024 / weight, in units of gamma's.
Slice(t) == IF t = "gamma" THEN 1 ELSE 2

\* Mutant: <= for <, a step too many.
OneStepMore(t) == t \in Workers /\ runs[t] <= FairRuns

\* What the step returned: n < SCHED_FAIR_RUNS for a worker, false for the napper.
Alive(t) == t \in Workers /\ runs[t] < FairRuns

\* Back in schedule_once and the driver: accrue, requeue or retire, count the
\* schedule and the yank.
Return ==
  /\ IF schedules + 1 > SchedGuard THEN Halt("return", "runaway")
     ELSE Goto("return", "wait") /\ UNCHANGED why
  /\ ready' = IF Alive(task) THEN Append(ready, task) ELSE ready
  /\ vruntime' = IF policy = "cfs" THEN [vruntime EXCEPT ![task] = @ + Slice(task)]
                 ELSE vruntime
  /\ task' = "none" /\ passes' = 0 /\ schedules' = schedules + 1
  /\ preempts' = (preempts \/ yanked) /\ yanked' = FALSE
  /\ UNCHANGED <<iflag, asleep, serving, lock, masks, irr, isr, window, lvt, tirr, tisr,
                 pit, lapic, fence, pitSince, apicSince, bring, policy, runs>>

\* No yank; a ledger that is not 5, 5, 5 and 1; online.
Verdict ==
  /\ Halt("verdict",
          CASE ~preempts -> "silent"
            [] preempts /\ runs # [t \in Names |-> IF t = "napper" THEN 1 ELSE FairRuns]
                 -> "unfair"
            [] OTHER -> "online")
  /\ UNCHANGED <<clocks, bring, demo>>

DemoSteps ==
  \/ ProofBlock \/ Spawn \/ Drive \/ Wait \/ Hlt
  \/ schedule_once \/ NobodyAwake \/ Enter \/ Before \/ Witness \/ Step
  \/ Return \/ Verdict
=============================================================================
