------------------------------ MODULE DemoProofs ------------------------------
(***************************************************************************)
(* The demo for every number of steps, every nap, gate and guard: none of  *)
(* its failure verdicts is ever a false alarm, and under CFS gamma is the  *)
(* first to finish.                                                        *)
(***************************************************************************)
EXTENDS KernelMain, QueueTheorems

Early == BringUpPcs \cup {"proof", "spawn"}
OnTask == {"enter", "before", "witness", "step"}
Running == OnTask \cup {"return"}
Demoing == {"drive", "wait", "hlt", "schedule", "verdict"} \cup Running

Queued(t) == Holds(ready, t)

\* How many steps a task is to run.
Share(t) == IF t = "napper" THEN 1 ELSE FairRuns

ApicCounts == [boot : 0..Gate, watch : 0..Gate, nap : 0..NapTicks, driver : 0..1, step : 0..1]

\* The types the argument needs.
Typed ==
  /\ ready \in Seq(Names) /\ task \in Names \cup {"none"}
  /\ runs \in [Names -> Nat] /\ vruntime = [t \in Names |-> vruntime[t]]
  /\ passes \in Nat /\ schedules \in Nat /\ policy \in {"none", "rr", "cfs"}
  /\ preempts \in BOOLEAN /\ yanked \in BOOLEAN /\ fence \in BOOLEAN
  /\ apicSince \in ApicCounts

\* Before the spawns nothing has happened.
Fresh ==
  /\ ready = <<>> /\ task = "none" /\ policy = "none"
  /\ runs = [t \in Names |-> 0] /\ vruntime = [t \in Names |-> 0]
  /\ passes = 0 /\ schedules = 0 /\ preempts = FALSE

\* Everybody is queued once, is the running task, or has done its share.
Queue ==
  /\ task # "none" <=> pc \in Running
  /\ Distinct(ready) /\ ~Queued(task)
  /\ pc = "schedule" => ready # <<>>
  /\ pc = "verdict" => ready = <<>>
  /\ \A t \in Names : Queued(t) \/ task = t \/ runs[t] = Share(t)
  /\ \A t \in Names : Queued(t) \/ (task = t /\ pc # "return") => runs[t] < Share(t)
  /\ pc = "return" => runs[task] >= 1 /\ runs[task] <= Share(task)

\* A schedule is a step.
Ledger ==
  schedules + (IF pc = "return" THEN 1 ELSE 0)
    = runs["alpha"] + runs["beta"] + runs["gamma"] + runs["napper"]

\* A pass that finds everybody asleep has had a tick of the nap to itself.
Naps ==
  /\ pc = "drive" => passes = 0
  /\ pc # "drive" =>
       \/ apicSince.nap = NapTicks
       \/ passes + apicSince.driver + (IF pc = "schedule" THEN 1 ELSE 0) <= apicSince.nap

\* A worker's first step does not end without a yank.
Yanks ==
  /\ \A w \in Workers : runs[w] >= 1 => preempts \/ (pc = "return" /\ task = w /\ yanked)
  /\ pc \in {"before", "witness", "step"} => fence
  /\ pc = "witness" => apicSince.step = 0 \/ yanked
  /\ pc = "step" /\ task \in Workers /\ runs[task] = 0 => yanked

IInv ==
  /\ Typed /\ NoFalseAlarm
  /\ pc \in Early => Fresh
  /\ pc \in Demoing => Queue /\ Ledger /\ Naps /\ Yanks

-----------------------------------------------------------------------------
\* A tick moves each saved reading by at most one, up to its horizon.
LEMMA Ticked ==
  ASSUME NEW a \in ApicCounts
  PROVE  /\ Bump(a, ApicHorizon) \in ApicCounts
         /\ Bump(a, ApicHorizon).nap = Least(a.nap + 1, NapTicks)
         /\ Bump(a, ApicHorizon).driver = 1
<1>1. DOMAIN a = {"boot", "watch", "nap", "driver", "step"}
  BY DEF ApicCounts
<1> DEFINE b == Bump(a, ApicHorizon)
<1>2. b = [boot |-> Least(a.boot + 1, Gate), watch |-> Least(a.watch + 1, Gate),
           nap |-> Least(a.nap + 1, NapTicks), driver |-> Least(a.driver + 1, 1),
           step |-> Least(a.step + 1, 1)]
  BY <1>1 DEF Bump, ApicHorizon
<1>3. Least(a.boot + 1, Gate) \in 0..Gate /\ Least(a.watch + 1, Gate) \in 0..Gate
  BY TicksAssumption DEF ApicCounts, Least
<1>4. Least(a.nap + 1, NapTicks) \in 0..NapTicks
  BY TicksAssumption DEF ApicCounts, Least
<1>5. Least(a.driver + 1, 1) = 1 /\ Least(a.step + 1, 1) = 1
  BY DEF ApicCounts, Least
<1> HIDE DEF b
<1>6. b \in ApicCounts
  BY <1>2, <1>3, <1>4, <1>5 DEF ApicCounts
<1> QED
  BY <1>2, <1>5, <1>6 DEF b

\* What runs beside main leaves the demo's own variables and the fence alone: it
\* counts a tick, and a yank if the fence is up, or neither.
LEMMA Aside ==
  ASSUME Typed, Beside(Hardware) \/ Beside(Handlers)
  PROVE  /\ UNCHANGED <<pc, why, demo, fence>>
         /\ \/ UNCHANGED <<apicSince, yanked>>
            \/ apicSince' = Bump(apicSince, ApicHorizon) /\ yanked' = (yanked \/ fence)
BY DEF Beside, Hardware, Handlers, PitFires, LapicFires, OtherLine, ClockDies, IrqEntry,
       IrqExit, lapic_preempt_stub, spurious_handler, spurious_pic_master_handler

\* Ticks and interrupts preserve the invariant: a tick of the driver is one of the
\* nap, and one under the fence is a yank.
LEMMA AsideInv ==
  ASSUME IInv, Beside(Hardware) \/ Beside(Handlers)
  PROVE  IInv'
<1>1. /\ UNCHANGED <<pc, why, demo, fence>>
      /\ \/ UNCHANGED <<apicSince, yanked>>
         \/ apicSince' = Bump(apicSince, ApicHorizon) /\ yanked' = (yanked \/ fence)
  BY Aside DEF IInv
<1>2. /\ Typed' /\ NoFalseAlarm' /\ (pc \in Early => Fresh)'
      /\ (pc \in Demoing => Queue /\ Ledger)'
  BY <1>1, Ticked, Zenon DEF IInv, Typed, NoFalseAlarm, Fresh, Queue, Queued, Ledger, demo
<1>3. (pc \in Demoing => Naps)'
  <2>1. /\ apicSince.nap \in 0..NapTicks /\ apicSince.driver \in 0..1 /\ passes \in Nat
        /\ pc' = pc /\ passes' = passes
    BY <1>1 DEF IInv, Typed, ApicCounts, demo
  <2>2. CASE UNCHANGED <<apicSince, yanked>>
    BY <2>1, <2>2 DEF IInv, Naps
  <2>3. CASE apicSince' = Bump(apicSince, ApicHorizon)
    <3>1. apicSince'.nap = Least(apicSince.nap + 1, NapTicks) /\ apicSince'.driver = 1
      BY <2>3, Ticked DEF IInv, Typed
    <3>2. apicSince'.nap = NapTicks \/ apicSince'.nap = apicSince.nap + 1
      BY <3>1 DEF Least
    <3>3. apicSince.nap = NapTicks => apicSince'.nap = NapTicks
      BY <2>1, <3>1, TicksAssumption DEF Least
    <3> QED
      BY <2>1, <3>1, <3>2, <3>3, TicksAssumption DEF IInv, Naps
  <2> QED
    BY <1>1, <2>2, <2>3
<1>4. (pc \in Demoing => Yanks)'
  BY <1>1 DEF IInv, Typed, Yanks, demo
<1> QED
  BY <1>2, <1>3, <1>4 DEF IInv

\* The bring-up stays in the bring-up, goes on to the proof block or stops; the
\* panic handler only ends.
LEMMA BootPc ==
  ASSUME Boot
  PROVE  /\ pc \in BringUpPcs \cup {"panic"}
         /\ pc' \in BringUpPcs \cup {"proof", "panic", "halt", "dead"}
         /\ pc = "panic" => pc' = "dead"
<1>1. CASE panic
  BY <1>1 DEF panic, Goto
<1>2. CASE BringUpSteps
  <2>1. pc \in BringUpPcs
    BY <1>2, Zenon DEF BringUpSteps, Goto, Halt, BringUpPcs, interrupts_init, probe, apic_init,
       timer_init, Sti, CalibRound, CalibSpin, CalibRead, CalibStore, Breakpoint,
       syscall_stub_handler, HitsAsserted, start_periodic, WriteIcr, ReadPic, SoakAgain,
       SoakStalled, SoakDone, PromotionCheck, WithoutInterrupts, LockPics, WriteMasks,
       UnlockPics, WatchBase, Watch
  <2>2. pc' \in BringUpPcs \cup {"proof", "panic", "halt", "dead"}
    BY <1>2, Zenon DEF BringUpSteps, Goto, Halt, BringUpPcs, interrupts_init, probe, apic_init,
       timer_init, Sti, CalibRound, CalibSpin, CalibRead, CalibStore, Breakpoint,
       syscall_stub_handler, HitsAsserted, start_periodic, WriteIcr, ReadPic, SoakAgain,
       SoakStalled, SoakDone, PromotionCheck, WithoutInterrupts, LockPics, WriteMasks,
       UnlockPics, WatchBase, Watch
  <2> QED
    BY <2>1, <2>2 DEF BringUpPcs
<1> QED
  BY <1>1, <1>2 DEF Boot

\* The bring-up does not touch the demo, and stops with messages of its own.
LEMMA BootInv ==
  ASSUME IInv, Boot /\ UNCHANGED demo
  PROVE  IInv'
<1>1. /\ pc \in BringUpPcs \cup {"panic"}
      /\ pc' \in BringUpPcs \cup {"proof", "panic", "halt", "dead"}
  BY BootPc
<1>2. /\ why' \in {why, "clocks stalled", "promotion skipped"}
      /\ yanked' = yanked /\ fence' \in {fence, FALSE}
      /\ apicSince' \in {apicSince, [apicSince EXCEPT !.watch = 0]}
  BY Zenon DEF Boot, BringUpSteps, panic, Goto, Halt, interrupts_init, probe, apic_init, timer_init,
         Sti, CalibRound, CalibSpin, CalibRead, CalibStore, Breakpoint, syscall_stub_handler,
         HitsAsserted, start_periodic, WriteIcr, ReadPic, SoakAgain, SoakStalled, SoakDone,
         PromotionCheck, WithoutInterrupts, LockPics, WriteMasks, UnlockPics, WatchBase,
         Watch, clocks
<1>3. apicSince' \in ApicCounts
  <2>1. apicSince \in ApicCounts /\ 0 \in 0..Gate
    BY TicksAssumption DEF IInv, Typed
  <2>2. [apicSince EXCEPT !.watch = 0] \in ApicCounts
    BY <2>1 DEF ApicCounts
  <2> QED
    BY <1>2, <2>1, <2>2, Zenon
<1>4. Typed'
  BY <1>2, <1>3, Zenon DEF IInv, Typed, demo
<1>5. NoFalseAlarm'
  BY <1>2, Zenon DEF IInv, NoFalseAlarm
<1>6. pc' \notin Demoing
  BY <1>1 DEF Demoing, Running, OnTask, BringUpPcs
<1>7. pc' \in Early => Fresh'
  <2>1. CASE pc = "panic"
    <3>1. pc' = "dead"
      BY <2>1, BootPc
    <3> QED
      BY <3>1 DEF Early, BringUpPcs
  <2>2. CASE pc \in BringUpPcs
    BY <2>2 DEF IInv, Early, Fresh, demo
  <2> QED
    BY <1>1, <2>1, <2>2
<1> QED
  BY <1>4, <1>5, <1>6, <1>7 DEF IInv

-----------------------------------------------------------------------------
\* One lemma for each kind of step of the demo.  From the proof block to hlt.
LEMMA SpawnInv ==
  ASSUME IInv, ProofBlock \/ Spawn
  PROVE  IInv'
<1>1. CASE ProofBlock
  <2>1. pc = "proof" /\ pc' \in {"panic", "spawn"} /\ UNCHANGED <<clocks, why, demo>>
    BY <1>1 DEF ProofBlock, Goto
  <2>2. Fresh /\ Fresh' /\ Typed' /\ NoFalseAlarm'
    BY <2>1, Zenon DEF IInv, Early, Fresh, Typed, NoFalseAlarm, clocks, demo
  <2> QED
    BY <2>1, <2>2 DEF IInv, Demoing, Running, OnTask
<1>2. CASE Spawn
  <2>1. /\ pc = "spawn" /\ pc' = "drive" /\ policy' \in {"rr", "cfs"}
        /\ ready' = <<"alpha", "beta", "gamma", "napper">>
        /\ apicSince' = [apicSince EXCEPT !.nap = 0]
        /\ UNCHANGED <<fence, yanked, why, task, runs, vruntime, passes, schedules, preempts>>
    BY <1>2 DEF Spawn, Goto
  <2>2. Fresh
    BY <2>1 DEF IInv, Early
  <2>3. apicSince' \in ApicCounts
    <3>1. apicSince \in ApicCounts /\ 0 \in 0..NapTicks
      BY TicksAssumption DEF IInv, Typed
    <3> QED
      BY <2>1, <3>1 DEF ApicCounts
  <2>4. Typed' /\ NoFalseAlarm'
    <3>1. <<"alpha", "beta", "gamma", "napper">> \in Seq(Names)
      BY DEF Names, Workers
    <3> QED
      BY <2>1, <2>3, <3>1, Zenon DEF IInv, Typed, NoFalseAlarm
  <2>5. /\ DOMAIN ready' = 1..4 /\ ready'[1] = "alpha" /\ ready'[2] = "beta"
        /\ ready'[3] = "gamma" /\ ready'[4] = "napper"
    BY <2>1
  <2>6. \A t \in Names : Queued(t)'
    <3>1. 1 \in 1..4 /\ 2 \in 1..4 /\ 3 \in 1..4 /\ 4 \in 1..4
      OBVIOUS
    <3> QED
      BY <2>5, <3>1 DEF Queued, Holds, Names, Workers
  <2>7. Distinct(ready)' /\ ~Queued(task)'
    <3>1. \A n \in DOMAIN ready' : n = 1 \/ n = 2 \/ n = 3 \/ n = 4
      BY <2>5
    <3>2. task' = "none"
      BY <2>1, <2>2 DEF Fresh
    <3> QED
      BY <2>5, <3>1, <3>2 DEF Distinct, Queued, Holds
  <2>8. Queue' /\ Ledger' /\ Naps' /\ Yanks'
    <3>1. \A t \in Names : runs'[t] = 0 /\ 0 < Share(t)
      BY <2>1, <2>2, DemoAssumption DEF Fresh, Share
    <3>2. Queue'
      BY <2>1, <2>2, <2>6, <2>7, <3>1 DEF Queue, Fresh, Running, OnTask
    <3>3. Ledger'
      BY <2>1, <2>2, <3>1 DEF Ledger, Fresh, Names, Workers
    <3>4. Naps' /\ Yanks'
      BY <2>1, <2>2, <3>1 DEF Naps, Yanks, Fresh, Names, Workers
    <3> QED
      BY <3>2, <3>3, <3>4
  <2> QED
    BY <2>1, <2>4, <2>8 DEF IInv, Early, BringUpPcs
<1> QED
  BY <1>1, <1>2

\* The driver's pacing: a pass is paid for with a fresh tick.
LEMMA WaitInv ==
  ASSUME IInv, Drive \/ Wait \/ Hlt
  PROVE  IInv'
<1>1. /\ pc \in {"drive", "wait", "hlt"} /\ pc' \in {"wait", "verdict", "schedule", "hlt"}
      /\ pc' = "verdict" => ready = <<>>
      /\ pc' = "schedule" => pc = "wait" /\ ready # <<>> /\ apicSince.driver >= 1
                             /\ apicSince' = [apicSince EXCEPT !.driver = 0]
      /\ yanked' \in {yanked, FALSE}
      /\ apicSince' \in {apicSince, [apicSince EXCEPT !.driver = 0]}
      /\ pc = "drive" => apicSince' = [apicSince EXCEPT !.driver = 0]
      /\ UNCHANGED <<fence, why, demo>>
  BY Zenon DEF Drive, Wait, Hlt, Goto
<1>2. apicSince' \in ApicCounts
  <2>1. apicSince \in ApicCounts /\ 0 \in 0..1
    BY DEF IInv, Typed
  <2>2. [apicSince EXCEPT !.driver = 0] \in ApicCounts
    BY <2>1 DEF ApicCounts
  <2> QED
    BY <1>1, <2>1, <2>2
<1>3. Typed' /\ NoFalseAlarm'
  BY <1>1, <1>2, Zenon DEF IInv, Typed, NoFalseAlarm, demo
<1>4. Queue /\ Ledger /\ Naps /\ Yanks
  BY <1>1 DEF IInv, Demoing
<1>5. Queue'
  BY <1>1, <1>4 DEF Queue, Queued, Running, OnTask, demo
<1>6. Ledger'
  BY <1>1, <1>4 DEF Ledger, demo
<1>7. Naps'
  <2>1. /\ apicSince.nap \in 0..NapTicks /\ apicSince.driver \in 0..1 /\ passes \in Nat
        /\ passes' = passes
    BY <1>1 DEF IInv, Typed, ApicCounts, demo
  <2>2. /\ apicSince'.nap = apicSince.nap
        /\ apicSince'.driver = apicSince.driver \/ apicSince'.driver = 0
        /\ pc \in {"drive"} \/ pc' = "schedule" => apicSince'.driver = 0
    BY <1>1 DEF IInv, Typed, ApicCounts
  <2>3. CASE pc = "drive"
    BY <1>1, <1>4, <2>1, <2>2, <2>3 DEF Naps
  <2>4. CASE pc # "drive"
    BY <1>1, <1>4, <2>1, <2>2, <2>4 DEF Naps
  <2> QED
    BY <2>3, <2>4
<1>8. Yanks'
  BY <1>1, <1>4 DEF Yanks, demo
<1> QED
  BY <1>1, <1>3, <1>5, <1>6, <1>7, <1>8 DEF IInv, Early, BringUpPcs

\* schedule_once takes somebody out of the queue ...
LEMMA PickInv ==
  ASSUME IInv, schedule_once
  PROVE  IInv'
<1>1. PICK n \in DOMAIN ready :
        /\ Picked(n) /\ task' = ready[n] /\ ready' = Without(n)
        /\ vruntime' = Clamped(ready[n], {ready[m] : m \in DOMAIN ready \ {n}})
  BY Zenon DEF schedule_once
<1>2. /\ pc = "schedule" /\ pc' = "enter"
      /\ UNCHANGED <<fence, yanked, apicSince, why, policy, runs, passes, schedules, preempts>>
  BY DEF schedule_once, Goto, clocks
<1>3. Queue /\ Ledger /\ Naps /\ Yanks /\ Typed
  BY <1>2 DEF IInv, Demoing
<1>4. ready \in Seq(Names) /\ n \in 1..Len(ready) /\ ready[n] \in Names /\ Distinct(ready)
  BY <1>3, ElementOfSeq DEF Typed, Queue
<1>5. /\ ready' \in Seq(Names) /\ Distinct(ready') /\ ~Holds(ready', ready[n])
      /\ \A t \in Names : t # ready[n] => (Holds(ready', t) <=> Holds(ready, t))
  <2>1. CASE ready' = SubSeq(ready, n + 1, Len(ready)) \o SubSeq(ready, 1, n - 1)
    BY <1>4, <2>1, TurnedOut
  <2>2. CASE ready' = SubSeq(ready, 1, n - 1) \o SubSeq(ready, n + 1, Len(ready))
    <3>1. ready' = RemoveAt(ready, n)
      BY <2>2 DEF RemoveAt
    <3> QED
      BY <1>4, <3>1, TakenOut
  <2> QED
    BY <1>1, <2>1, <2>2, Zenon DEF Without
<1>6. vruntime' = [t \in Names |-> vruntime'[t]]
  BY <1>1, <1>3, Zenon DEF Clamped, Typed
<1>7. Typed' /\ NoFalseAlarm'
  BY <1>1, <1>2, <1>3, <1>4, <1>5, <1>6, Zenon DEF IInv, Typed, NoFalseAlarm
<1>8. task = "none" /\ Queued(ready[n]) /\ "none" \notin Names
  BY <1>2, <1>3 DEF Queue, Queued, Holds, Running, OnTask, Names, Workers
<1>9. Queue'
  <2>1. task' # "none" /\ pc' \in Running /\ Distinct(ready)' /\ ~Queued(task)'
    BY <1>1, <1>2, <1>4, <1>5, <1>8 DEF Queued, Running, OnTask
  <2>2. ASSUME NEW t \in Names PROVE Queued(t)' \/ task' = t \/ runs'[t] = Share(t)
    BY <1>1, <1>2, <1>3, <1>5, <1>8 DEF Queue, Queued
  <2>3. ASSUME NEW t \in Names, Queued(t)' \/ task' = t PROVE runs'[t] < Share(t)
    BY <1>1, <1>2, <1>3, <1>5, <1>8, <2>3 DEF Queue, Queued
  <2> QED
    BY <1>2, <2>1, <2>2, <2>3 DEF Queue
<1>10. Ledger' /\ Naps' /\ Yanks'
  <2>1. Ledger'
    BY <1>2, <1>3 DEF Ledger
  <2>2. Naps'
    BY <1>2, <1>3 DEF Naps, Typed, ApicCounts
  <2>3. Yanks'
    BY <1>2, <1>3 DEF Yanks
  <2> QED
    BY <2>1, <2>2, <2>3
<1> QED
  BY <1>2, <1>7, <1>9, <1>10 DEF IInv, Early, BringUpPcs

\* ... unless only the napper is left and still asleep: then its nap is not over
\* and has had more ticks than there were such passes.
LEMMA AsleepInv ==
  ASSUME IInv, NobodyAwake
  PROVE  IInv'
<1>1. /\ AwakeAt = {} /\ passes' = passes + 1 /\ pc = "schedule"
      /\ passes + 1 > SchedGuard => pc' = "halt"
      /\ ~(passes + 1 > SchedGuard) => pc' = "wait" /\ why' = why
      /\ UNCHANGED <<fence, yanked, apicSince, policy, ready, task, runs, vruntime, schedules,
                     preempts>>
  BY Zenon DEF NobodyAwake, Goto, Halt, clocks
<1>2. Queue /\ Ledger /\ Naps /\ Yanks /\ Typed
  BY <1>1 DEF IInv, Demoing
<1>3. apicSince.nap \in 0..NapTicks /\ apicSince.driver \in 0..1 /\ passes \in Nat
  BY <1>2 DEF Typed, ApicCounts
<1>4. apicSince.nap < NapTicks
  <2>1. 1 \in DOMAIN ready
    <3>1. ready # <<>> /\ ready \in Seq(Names)
      BY <1>1, <1>2 DEF Queue, Typed
    <3> QED
      BY <3>1, EmptySeq
  <2>2. ~Awake(ready[1])
    BY <1>1, <2>1 DEF AwakeAt
  <2> QED
    BY <1>3, <2>2, TicksAssumption DEF Awake
<1>5. passes + 1 + apicSince.driver <= apicSince.nap
  BY <1>1, <1>2, <1>3, <1>4, TicksAssumption DEF Naps
<1>6. ~(passes + 1 > SchedGuard)
  BY <1>3, <1>4, <1>5, TicksAssumption, DemoAssumption
<1>7. Typed' /\ NoFalseAlarm'
  <2>1. passes' \in Nat
    BY <1>1, <1>3
  <2> QED
    BY <1>1, <1>2, <1>6, <2>1, Zenon DEF IInv, Typed, NoFalseAlarm
<1>8. Queue'
  BY <1>1, <1>2, <1>6 DEF Queue, Queued, Running, OnTask
<1>9. Ledger' /\ Yanks'
  BY <1>1, <1>2, <1>6 DEF Ledger, Yanks
<1>10. Naps'
  BY <1>1, <1>3, <1>5, <1>6 DEF Naps
<1> QED
  BY <1>1, <1>6, <1>7, <1>8, <1>9, <1>10 DEF IInv, Early, BringUpPcs

\* The task's side of a turn.
LEMMA TaskInv ==
  ASSUME IInv, Enter \/ Before \/ Witness
  PROVE  IInv'
<1>1. /\ pc \in {"enter", "before", "witness"} /\ pc' \in {"before", "witness", "step"}
      /\ fence' = TRUE \/ (fence' = fence /\ pc # "enter")
      /\ pc' = "witness" => pc = "before" /\ apicSince' = [apicSince EXCEPT !.step = 0]
      /\ pc' = "step" => \/ pc = "enter" /\ ~(task \in Workers /\ runs[task] = 0)
                         \/ pc = "witness" /\ apicSince.step >= 1
      /\ apicSince' \in {apicSince, [apicSince EXCEPT !.step = 0]}
      /\ UNCHANGED <<yanked, why, demo>>
  BY DEF Enter, Before, Witness, Goto, clocks
<1>2. Queue /\ Ledger /\ Naps /\ Yanks /\ Typed
  BY <1>1 DEF IInv, Demoing, Running, OnTask
<1>3. /\ apicSince' \in ApicCounts /\ apicSince'.nap = apicSince.nap
      /\ apicSince'.driver = apicSince.driver /\ (pc' = "witness" => apicSince'.step = 0)
  <2>1. apicSince \in ApicCounts /\ 0 \in 0..1
    BY <1>2 DEF Typed
  <2>2. /\ [apicSince EXCEPT !.step = 0] \in ApicCounts
        /\ [apicSince EXCEPT !.step = 0].nap = apicSince.nap
        /\ [apicSince EXCEPT !.step = 0].driver = apicSince.driver
        /\ [apicSince EXCEPT !.step = 0].step = 0
    BY <2>1 DEF ApicCounts
  <2> QED
    BY <1>1, <2>1, <2>2, Zenon
<1>4. Typed' /\ NoFalseAlarm'
  BY <1>1, <1>2, <1>3, Zenon DEF IInv, Typed, NoFalseAlarm, demo
<1>5. Queue'
  BY <1>1, <1>2 DEF Queue, Queued, Running, OnTask, demo
<1>6. Ledger'
  BY <1>1, <1>2 DEF Ledger, demo
<1>7. Naps'
  BY <1>1, <1>2, <1>3 DEF Naps, demo
<1>8. Yanks'
  <2>1. apicSince.step \in 0..1
    BY <1>2 DEF Typed, ApicCounts
  <2>2. pc' = "step" /\ task \in Workers /\ runs[task] = 0 => yanked
    BY <1>1, <1>2, <2>1 DEF Yanks
  <2> QED
    BY <1>1, <1>2, <1>3, <2>2 DEF Yanks, demo
<1> QED
  BY <1>1, <1>4, <1>5, <1>6, <1>7, <1>8 DEF IInv, Early, BringUpPcs

\* The step: one more run; a worker's first one ends with the yank it waited for.
LEMMA StepInv ==
  ASSUME IInv, Step
  PROVE  IInv'
<1>1. /\ pc = "step" /\ pc' = "return" /\ fence' = FALSE
      /\ runs' = [runs EXCEPT ![task] = @ + 1]
      /\ UNCHANGED <<yanked, apicSince, why, policy, ready, task, vruntime, passes, schedules,
                     preempts>>
  BY DEF Step, Goto
<1>2. Queue /\ Ledger /\ Naps /\ Yanks /\ Typed
  BY <1>1 DEF IInv, Demoing, Running, OnTask
<1>3. task \in Names
  BY <1>1, <1>2 DEF Queue, Typed, Running, OnTask
<1>4. /\ runs' \in [Names -> Nat] /\ runs'[task] = runs[task] + 1 /\ runs[task] \in Nat
      /\ \A t \in Names : t # task => runs'[t] = runs[t]
  BY <1>1, <1>2, <1>3 DEF Typed
<1>5. Typed' /\ NoFalseAlarm'
  BY <1>1, <1>2, <1>4, Zenon DEF IInv, Typed, NoFalseAlarm
<1>6. Queue'
  <2>1. runs[task] < Share(task) /\ Share(task) \in Nat
    BY <1>1, <1>2, <1>3, DemoAssumption DEF Queue, Share
  <2>2. runs'[task] >= 1 /\ runs'[task] <= Share(task)
    BY <1>4, <2>1
  <2>3. \A t \in Names : Queued(t)' => t # task /\ Queued(t)
    BY <1>1, <1>2 DEF Queue, Queued
  <2>4. \A t \in Names : Queued(t) => Queued(t)'
    BY <1>1 DEF Queued
  <2>5. pc' \in Running /\ task' # "none" /\ Distinct(ready)' /\ ~Queued(task)'
    BY <1>1, <1>2 DEF Queue, Queued, Running, OnTask
  <2> QED
    BY <1>1, <1>2, <1>4, <2>2, <2>3, <2>4, <2>5 DEF Queue
<1>7. Ledger'
  <2>1. "alpha" \in Names /\ "beta" \in Names /\ "gamma" \in Names /\ "napper" \in Names
    BY DEF Names, Workers
  <2>2. task \in {"alpha", "beta", "gamma", "napper"}
    BY <1>3 DEF Names, Workers
  <2>3. schedules \in Nat /\ \A t \in Names : runs[t] \in Nat
    BY <1>2 DEF Typed
  <2> QED
    BY <1>1, <1>2, <1>4, <2>1, <2>2, <2>3 DEF Ledger
<1>8. Naps'
  BY <1>1, <1>2 DEF Naps
<1>9. Yanks'
  <2>1. ASSUME NEW w \in Workers, runs'[w] >= 1
        PROVE  preempts' \/ (pc' = "return" /\ task' = w /\ yanked')
    <3>1. CASE w = task /\ runs[task] = 0
      BY <1>1, <1>2, <3>1 DEF Yanks
    <3>2. CASE w = task /\ runs[task] # 0
      BY <1>1, <1>2, <1>4, <3>2 DEF Yanks
    <3>3. CASE w # task
      BY <1>1, <1>2, <1>4, <2>1, <3>3 DEF Yanks, Names
    <3> QED
      BY <3>1, <3>2, <3>3
  <2> QED
    BY <1>1, <2>1 DEF Yanks
<1> QED
  BY <1>1, <1>5, <1>6, <1>7, <1>8, <1>9 DEF IInv, Early, BringUpPcs

\* Nobody ever runs more than its share.
LEMMA Shares ==
  ASSUME Typed, Queue
  PROVE  \A t \in Names : runs[t] \in Nat /\ runs[t] <= Share(t) /\ Share(t) \in Nat
<1> SUFFICES ASSUME NEW t \in Names
             PROVE  runs[t] \in Nat /\ runs[t] <= Share(t) /\ Share(t) \in Nat
  OBVIOUS
<1>1. runs[t] \in Nat /\ Share(t) \in Nat
  BY DemoAssumption DEF Typed, Share
<1>2. runs[t] < Share(t) \/ runs[t] = Share(t) \/ runs[t] <= Share(t)
  BY DEF Queue
<1> QED
  BY <1>1, <1>2

\* Back in the driver: a schedule per step, so the guard is out of reach.
LEMMA ReturnInv ==
  ASSUME IInv, Return
  PROVE  IInv'
<1>1. /\ pc = "return"
      /\ schedules + 1 > SchedGuard => pc' = "halt"
      /\ ~(schedules + 1 > SchedGuard) => pc' = "wait" /\ why' = why
      /\ ready' = (IF Alive(task) THEN Append(ready, task) ELSE ready)
      /\ vruntime' = (IF policy = "cfs" THEN [vruntime EXCEPT ![task] = @ + Slice(task)]
                      ELSE vruntime)
      /\ task' = "none" /\ passes' = 0 /\ schedules' = schedules + 1
      /\ preempts' = (preempts \/ yanked) /\ yanked' = FALSE
      /\ UNCHANGED <<fence, apicSince, policy, runs>>
  BY DEF Return, Goto, Halt
<1>2. Queue /\ Ledger /\ Naps /\ Yanks /\ Typed
  BY <1>1 DEF IInv, Demoing, Running, OnTask
<1>3. task \in Names /\ "none" \notin Names
  BY <1>1, <1>2 DEF Queue, Typed, Running, OnTask, Names, Workers
<1>4. ~(schedules + 1 > SchedGuard)
  <2>1. /\ runs["alpha"] \in Nat /\ runs["alpha"] <= FairRuns
        /\ runs["beta"] \in Nat /\ runs["beta"] <= FairRuns
        /\ runs["gamma"] \in Nat /\ runs["gamma"] <= FairRuns
        /\ runs["napper"] \in Nat /\ runs["napper"] <= 1
    BY <1>2, Shares DEF Names, Workers, Share
  <2>2. schedules \in Nat
    BY <1>2 DEF Typed
  <2> QED
    BY <1>1, <1>2, <2>1, <2>2, DemoAssumption DEF Ledger
<1>5. /\ ready' \in Seq(Names) /\ Distinct(ready')
      /\ \A t \in Names : Holds(ready', t) <=> Holds(ready, t) \/ (t = task /\ Alive(task))
  <2>1. ready \in Seq(Names) /\ Distinct(ready) /\ ~Holds(ready, task)
    BY <1>2 DEF Typed, Queue, Queued
  <2>2. CASE Alive(task)
    BY <1>1, <1>3, <2>1, <2>2, Pushed
  <2>3. CASE ~Alive(task)
    BY <1>1, <2>1, <2>3
  <2> QED
    BY <2>2, <2>3
<1>6. Typed' /\ NoFalseAlarm'
  <2>1. vruntime' = [t \in Names |-> vruntime'[t]]
    BY <1>1, <1>2, Zenon DEF Typed
  <2>2. schedules' \in Nat /\ passes' \in Nat
    BY <1>1, <1>2 DEF Typed
  <2>3. preempts' \in BOOLEAN /\ yanked' \in BOOLEAN
    BY Zenon, <1>1
  <2> QED
    BY <1>1, <1>2, <1>4, <1>5, <2>1, <2>2, <2>3, Zenon DEF IInv, Typed, NoFalseAlarm
<1>7. Queue'
  <2>1. ~Queued(task)'
    <3>1. DOMAIN ready' = 1..Len(ready') /\ \A n \in 1..Len(ready') : ready'[n] \in Names
      BY <1>5, ElementOfSeq
    <3> QED
      BY <1>1, <1>3, <3>1 DEF Queued, Holds
  <2>2. Alive(task) => runs[task] < Share(task)
    BY DEF Alive, Share, Workers
  <2>3. ~Alive(task) => runs[task] = Share(task)
    <3>1. runs[task] \in Nat /\ runs[task] >= 1 /\ runs[task] <= Share(task)
      BY <1>1, <1>2, <1>3 DEF Queue, Typed
    <3> QED
      BY <1>3, <3>1, DemoAssumption DEF Alive, Share, Names
  <2>4. ASSUME NEW t \in Names PROVE Queued(t)' \/ task' = t \/ runs'[t] = Share(t)
    BY <1>1, <1>2, <1>5, <2>3 DEF Queue, Queued
  <2>5. ASSUME NEW t \in Names, Queued(t)' \/ task' = t PROVE runs'[t] < Share(t)
    BY <1>1, <1>2, <1>3, <1>5, <2>2, <2>5 DEF Queue, Queued
  <2>6. pc' = "wait" /\ task' = "none" /\ Distinct(ready)'
    BY <1>1, <1>4, <1>5
  <2> QED
    BY <2>1, <2>4, <2>5, <2>6 DEF Queue, Running, OnTask
<1>8. Ledger'
  BY <1>1, <1>2, <1>4 DEF Ledger, Typed
<1>9. Naps'
  <2>1. apicSince.nap \in 0..NapTicks /\ apicSince.driver \in 0..1 /\ passes \in Nat
    BY <1>2 DEF Typed, ApicCounts
  <2> QED
    BY <1>1, <1>2, <1>4, <2>1 DEF Naps
<1>10. Yanks'
  BY <1>1, <1>2, <1>4, Zenon DEF Yanks
<1> QED
  BY <1>1, <1>4, <1>6, <1>7, <1>8, <1>9, <1>10 DEF IInv, Early, BringUpPcs

\* An empty queue means that everybody has done its share, so a worker has been
\* yanked and the ledger is what it should be.
LEMMA VerdictInv ==
  ASSUME IInv, Verdict
  PROVE  IInv'
<1>1. pc = "verdict" /\ pc' = "halt" /\ UNCHANGED <<clocks, demo>>
  BY DEF Verdict, Halt, Goto
<1>2. Queue /\ Yanks /\ Typed
  BY <1>1 DEF IInv, Demoing
<1>3. \A t \in Names : runs[t] = Share(t)
  <2>1. ready = <<>> /\ task = "none"
    BY <1>1, <1>2 DEF Queue, Running, OnTask
  <2>2. \A t : ~Queued(t)
    BY <2>1 DEF Queued, Holds
  <2> QED
    BY <1>2, <2>1, <2>2 DEF Queue, Names, Workers
<1>4. preempts
  BY <1>1, <1>2, <1>3, DemoAssumption DEF Yanks, Share, Names, Workers
<1>5. runs = [t \in Names |-> IF t = "napper" THEN 1 ELSE FairRuns]
  BY <1>2, <1>3 DEF Typed, Share
<1>6. why' = "online"
  BY <1>4, <1>5 DEF Verdict, Halt
<1>7. Typed' /\ NoFalseAlarm'
  BY <1>1, <1>2, <1>6 DEF Typed, NoFalseAlarm, clocks, demo
<1> QED
  BY <1>1, <1>7 DEF IInv, Early, BringUpPcs, Demoing, Running, OnTask

-----------------------------------------------------------------------------
\* The kernel starts with nothing of the demo done.
LEMMA IInvInit == Init => IInv
<1> SUFFICES ASSUME Init PROVE IInv
  OBVIOUS
<1>1. pc = "pics" /\ why = "none" /\ Fresh /\ fence = FALSE /\ yanked = FALSE
  BY DEF Init, BringUpInit, DemoInit, ClocksInit, Fresh
<1>2. apicSince \in ApicCounts
  <2>1. apicSince = [ApicHorizon EXCEPT !.boot = 0]
    BY DEF Init, ClocksInit
  <2> QED
    BY <2>1, TicksAssumption DEF ApicCounts, ApicHorizon
<1>3. Typed
  <2>1. ready \in Seq(Names) /\ task \in Names \cup {"none"} /\ policy \in {"none", "rr", "cfs"}
    BY <1>1, EmptySeq DEF Fresh
  <2>2. runs \in [Names -> Nat] /\ passes \in Nat /\ schedules \in Nat
    BY <1>1 DEF Fresh
  <2>3. vruntime = [t \in Names |-> vruntime[t]]
    BY <1>1 DEF Fresh
  <2>4. preempts \in BOOLEAN /\ yanked \in BOOLEAN /\ fence \in BOOLEAN
    BY <1>1, Zenon DEF Fresh
  <2> QED
    BY <1>2, <2>1, <2>2, <2>3, <2>4 DEF Typed
<1> QED
  BY <1>1, <1>3 DEF IInv, NoFalseAlarm, Demoing, Running, OnTask

\* The inductive invariant: queue, ledger, naps and yanks, for every behaviour of
\* kernel_main, the clocks and the handlers.
THEOREM DemoInvariant == Spec => []IInv
<1>1. IInv /\ [Next]_vars => IInv'
  <2> SUFFICES ASSUME IInv, [Next]_vars PROVE IInv'
    OBVIOUS
  <2>1. CASE Beside(Hardware) \/ Beside(Handlers)
    BY <2>1, AsideInv
  <2>2. CASE Boot /\ UNCHANGED demo
    BY <2>2, BootInv
  <2>3. CASE DemoSteps
    BY <2>3, SpawnInv, WaitInv, PickInv, AsleepInv, TaskInv, StepInv, ReturnInv, VerdictInv
       DEF DemoSteps
  <2>4. CASE UNCHANGED vars
    <3>1. UNCHANGED <<pc, why, demo, fence, yanked, apicSince>>
      BY <2>4 DEF vars, clocks
    <3>2. (Typed <=> Typed') /\ (NoFalseAlarm <=> NoFalseAlarm') /\ (Fresh <=> Fresh')
      BY <3>1 DEF Typed, NoFalseAlarm, Fresh, demo
    <3>3. (Queue <=> Queue') /\ (Ledger <=> Ledger')
      BY <3>1 DEF Queue, Queued, Ledger, demo
    <3>4. (Naps <=> Naps') /\ (Yanks <=> Yanks')
      BY <3>1 DEF Naps, Yanks, demo
    <3> QED
      BY <3>1, <3>2, <3>3, <3>4 DEF IInv
  <2> QED
    BY <2>1, <2>2, <2>3, <2>4 DEF Next, Main, Stopped
<1> QED
  BY <1>1, IInvInit, PTL DEF Spec

\* For every FairRuns, nap, gate and guard with SchedGuard >= 3 * FairRuns + 1 and
\* SchedGuard >= NapTicks, under both policies: none of the four "sched FAILED"
\* verdicts of main.rs is ever printed.
THEOREM NeverAFalseAlarm == Spec => []NoFalseAlarm
<1>1. IInv => NoFalseAlarm
  BY DEF IInv
<1> QED
  BY <1>1, DemoInvariant, PTL

-----------------------------------------------------------------------------
(* Gamma first.                                                             *)

\* Under CFS a worker's vruntime is its steps times its slice, the step it comes
\* back from not yet accrued; and alpha or beta is running while gamma is not done
\* only if it has run at most half as often as gamma.
Owed(w) == IF pc = "return" /\ task = w THEN Slice(w) ELSE 0
Weights ==
  policy = "cfs" /\ pc \in Demoing =>
    /\ \A w \in Workers : vruntime[w] \in Nat
    /\ vruntime["alpha"] + Owed("alpha") = 2 * runs["alpha"]
    /\ vruntime["beta"] + Owed("beta") = 2 * runs["beta"]
    /\ vruntime["gamma"] + Owed("gamma") = runs["gamma"]
    /\ pc \in OnTask /\ task \in {"alpha", "beta"} /\ runs["gamma"] < FairRuns =>
         2 * runs[task] <= runs["gamma"]

\* A step that leaves the queue's accounts alone leaves Weights alone.
LEMMA WeightsAside ==
  ASSUME Weights, GammaFirst, UNCHANGED <<policy, task, runs, vruntime>>,
         pc' \in Demoing => pc \in Demoing,
         pc' \in OnTask => pc \in OnTask,
         pc = "return" <=> pc' = "return"
  PROVE  Weights' /\ GammaFirst'
BY DEF Weights, GammaFirst, Owed

\* Gamma waits in the queue and is awake, so whoever is picked before it has the
\* smaller vruntime.
LEMMA WeightsPick ==
  ASSUME IInv, Weights, GammaFirst, schedule_once
  PROVE  Weights' /\ GammaFirst'
<1>1. PICK n \in DOMAIN ready :
        /\ Picked(n) /\ task' = ready[n]
        /\ vruntime' = Clamped(ready[n], {ready[m] : m \in DOMAIN ready \ {n}})
  BY Zenon DEF schedule_once
<1>2. pc = "schedule" /\ pc' = "enter" /\ UNCHANGED <<apicSince, policy, runs>>
  BY DEF schedule_once, Goto, clocks
<1>3. Queue /\ Typed
  BY <1>2 DEF IInv, Demoing
<1>4. \A w \in Workers : vruntime'[w] = vruntime[w]
  BY <1>1, <1>3 DEF Clamped, Typed, Names, Workers
<1>5. ASSUME policy = "cfs", task' \in {"alpha", "beta"}, runs["gamma"] < FairRuns
      PROVE  2 * runs[task'] <= runs["gamma"]
  <2>1. Queued("gamma")
    <3>1. task = "none" /\ "gamma" \in Names /\ Share("gamma") = FairRuns
      BY <1>2, <1>3 DEF Queue, Share, Names, Workers, Running, OnTask
    <3>2. runs["gamma"] # FairRuns
      BY <1>3, <1>5, <3>1, DemoAssumption DEF Typed
    <3> QED
      BY <1>3, <3>1, <3>2 DEF Queue
  <2>2. PICK m \in DOMAIN ready : ready[m] = "gamma"
    BY <2>1 DEF Queued, Holds
  <2>3. m \in AwakeAt
    BY <2>2 DEF AwakeAt, Awake
  <2>4. \/ vruntime[task'] < vruntime["gamma"]
        \/ vruntime[task'] = vruntime["gamma"]
    BY <1>1, <1>5, <2>2, <2>3 DEF Picked
  <2>5. /\ vruntime["alpha"] = 2 * runs["alpha"] /\ vruntime["beta"] = 2 * runs["beta"]
        /\ vruntime["gamma"] = runs["gamma"]
        /\ runs["alpha"] \in Nat /\ runs["beta"] \in Nat /\ runs["gamma"] \in Nat
    BY <1>2, <1>3, <1>5 DEF Weights, Owed, Demoing, Workers, Names, Typed
  <2> QED
    BY <1>5, <2>4, <2>5
<1> QED
  BY <1>2, <1>4, <1>5 DEF Weights, GammaFirst, Owed, Workers, Demoing

\* So the step of alpha or beta is not its last while gamma has one to go.
LEMMA WeightsStep ==
  ASSUME FairRuns >= 2, IInv, Weights, GammaFirst, Step
  PROVE  Weights' /\ GammaFirst'
<1>1. /\ pc = "step" /\ pc' = "return" /\ runs' = [runs EXCEPT ![task] = @ + 1]
      /\ UNCHANGED <<policy, task, vruntime>>
  BY DEF Step, Goto
<1>2. Queue /\ Typed
  BY <1>1 DEF IInv, Demoing, Running, OnTask
<1>3. /\ task \in {"alpha", "beta", "gamma", "napper"}
      /\ \A t \in {"alpha", "beta", "gamma", "napper"} :
           /\ runs[t] \in Nat
           /\ runs'[t] = IF t = task THEN runs[t] + 1 ELSE runs[t]
  BY <1>1, <1>2 DEF Queue, Typed, Running, OnTask, Names, Workers
<1>4. SUFFICES ASSUME policy = "cfs" PROVE Weights' /\ GammaFirst'
  BY <1>1 DEF Weights, GammaFirst
<1>5. /\ \A w \in Workers : vruntime[w] \in Nat
      /\ vruntime["alpha"] = 2 * runs["alpha"] /\ vruntime["beta"] = 2 * runs["beta"]
      /\ vruntime["gamma"] = runs["gamma"]
      /\ task \in {"alpha", "beta"} /\ runs["gamma"] < FairRuns =>
           2 * runs[task] <= runs["gamma"]
  BY <1>1, <1>4 DEF Weights, Owed, Demoing, Running, OnTask, Workers
<1>6. /\ Owed("alpha")' = IF task = "alpha" THEN 2 ELSE 0
      /\ Owed("beta")' = IF task = "beta" THEN 2 ELSE 0
      /\ Owed("gamma")' = IF task = "gamma" THEN 1 ELSE 0
  BY <1>1 DEF Owed, Slice
<1>7. Weights'
  <2>1. pc' \notin OnTask
    BY <1>1 DEF OnTask
  <2>2. vruntime'["alpha"] + Owed("alpha")' = 2 * runs'["alpha"]
    BY <1>1, <1>3, <1>5, <1>6
  <2>3. vruntime'["beta"] + Owed("beta")' = 2 * runs'["beta"]
    BY <1>1, <1>3, <1>5, <1>6
  <2>4. vruntime'["gamma"] + Owed("gamma")' = runs'["gamma"]
    BY <1>1, <1>3, <1>5, <1>6 DEF Workers
  <2> QED
    BY <1>1, <1>5, <2>1, <2>2, <2>3, <2>4 DEF Weights
<1>8. GammaFirst'
  BY <1>1, <1>3, <1>4, <1>5, DemoAssumption DEF GammaFirst
<1> QED
  BY <1>7, <1>8

\* The step is accrued.
LEMMA WeightsReturn ==
  ASSUME IInv, Weights, GammaFirst, Return
  PROVE  Weights' /\ GammaFirst'
<1>1. /\ pc = "return" /\ pc' \in {"halt", "wait"}
      /\ vruntime' = (IF policy = "cfs" THEN [vruntime EXCEPT ![task] = @ + Slice(task)]
                      ELSE vruntime)
      /\ UNCHANGED <<policy, runs>>
  BY DEF Return, Goto, Halt
<1>2. Typed
  BY DEF IInv
<1>3. SUFFICES ASSUME policy = "cfs" PROVE Weights' /\ GammaFirst'
  BY <1>1 DEF Weights, GammaFirst
<1>4. \A w \in Workers : vruntime'[w] = IF w = task THEN vruntime[w] + Slice(w) ELSE vruntime[w]
  BY <1>1, <1>2, <1>3 DEF Typed, Names
<1>5. \A w \in Workers : vruntime[w] \in Nat /\ Slice(w) \in Nat
  BY <1>1, <1>3 DEF Weights, Slice, Demoing, Running
<1>6. \A w \in Workers : vruntime'[w] \in Nat /\ vruntime'[w] = vruntime[w] + Owed(w)
  BY <1>1, <1>4, <1>5 DEF Owed
<1>7. \A w \in Workers : Owed(w)' = 0
  BY <1>1 DEF Owed
<1>8. Weights'
  <2>1. pc' \notin OnTask /\ pc \in Demoing
    BY <1>1 DEF OnTask, Demoing, Running
  <2>2. "alpha" \in Workers /\ "beta" \in Workers /\ "gamma" \in Workers
    BY DEF Workers
  <2> QED
    BY <1>1, <1>3, <1>6, <1>7, <2>1, <2>2 DEF Weights
<1>9. GammaFirst'
  BY <1>1 DEF GammaFirst
<1> QED
  BY <1>8, <1>9

\* Spawn is the only step that chooses a policy, with everybody at zero.
LEMMA WeightsSpawn ==
  ASSUME IInv, Spawn
  PROVE  Weights' /\ GammaFirst'
<1>1. pc = "spawn" /\ pc' = "drive" /\ UNCHANGED <<task, runs, vruntime>>
  BY DEF Spawn, Goto
<1>2. Fresh
  BY <1>1 DEF IInv, Early
<1>3. \A w \in Workers : vruntime'[w] = 0 /\ runs'[w] = 0 /\ Owed(w)' = 0
  BY <1>1, <1>2 DEF Fresh, Owed, Names
<1> QED
  BY <1>1, <1>3, DemoAssumption DEF Weights, GammaFirst, Workers, OnTask

\* For every FairRuns >= 2, under CFS: neither alpha nor beta ever finishes before
\* gamma, however the ticks fall ("gamma first by weight", main.rs:447).
THEOREM GammaIsFirst == ASSUME FairRuns >= 2 PROVE Spec => []GammaFirst
<1>1. Init => Weights /\ GammaFirst
  BY DEF Init, DemoInit, Weights, GammaFirst
<1>2. IInv /\ Weights /\ GammaFirst /\ [Next]_vars => Weights' /\ GammaFirst'
  <2> SUFFICES ASSUME IInv, Weights, GammaFirst, [Next]_vars PROVE Weights' /\ GammaFirst'
    OBVIOUS
  <2>1. CASE (Beside(Hardware) \/ Beside(Handlers)) \/ UNCHANGED vars
    <3>1. UNCHANGED <<pc, policy, task, runs, vruntime>>
      BY <2>1 DEF Beside, demo, vars
    <3> QED
      BY <3>1, WeightsAside
  <2>2. CASE Boot /\ UNCHANGED demo
    <3>1. /\ pc \in BringUpPcs \cup {"panic"}
          /\ pc' \in BringUpPcs \cup {"proof", "panic", "halt", "dead"}
      BY <2>2, BootPc
    <3>2. /\ pc' \notin Demoing /\ pc' \notin OnTask /\ pc # "return" /\ pc' # "return"
          /\ UNCHANGED <<policy, task, runs, vruntime>>
      BY <2>2, <3>1 DEF BringUpPcs, Demoing, Running, OnTask, demo
    <3> QED
      BY <3>2, WeightsAside
  <2>3. CASE ProofBlock \/ Drive \/ Wait \/ Hlt \/ NobodyAwake \/ Enter \/ Before \/ Witness
             \/ Verdict
    <3>1. /\ UNCHANGED <<policy, task, runs, vruntime>> /\ pc # "return" /\ pc' # "return"
          /\ pc' \in Demoing => pc \in Demoing
          /\ pc' \in OnTask => pc \in OnTask
      BY <2>3, Zenon DEF ProofBlock, Drive, Wait, Hlt, NobodyAwake, Enter, Before, Witness, Verdict,
         Goto, Halt, demo, Demoing, Running, OnTask
    <3> QED
      BY <3>1, WeightsAside
  <2>4. CASE Spawn
    BY <2>4, WeightsSpawn
  <2>5. CASE schedule_once
    BY <2>5, WeightsPick
  <2>6. CASE Step
    BY <2>6, WeightsStep
  <2>7. CASE Return
    BY <2>7, WeightsReturn
  <2> QED
    BY <2>1, <2>2, <2>3, <2>4, <2>5, <2>6, <2>7 DEF Next, Main, Stopped, DemoSteps
<1> QED
  BY <1>1, <1>2, DemoInvariant, PTL DEF Spec

-----------------------------------------------------------------------------
\* The slice of a step that has run and is not charged yet, at most.
Pending(t) == IF pc = "return" /\ task = t THEN 2 ELSE 0

\* No task is charged more than its steps are worth: a worker for those it ran, the
\* napper for its one step on top of what it was raised to when it woke.
Accounts ==
  /\ vruntime \in [Names -> Nat]
  /\ \A w \in Workers : vruntime[w] + Pending(w) <= 2 * runs[w]
  /\ vruntime["napper"] + Pending("napper")
       <= 2 * FairRuns - (IF runs["napper"] = 0 THEN 2 ELSE 0)

\* The counts of the driver and the places it may be at.
Bounds ==
  /\ pc \in BringUpPcs \cup DemoPcs \cup {"panic", "halt", "dead"}
  /\ \A t \in Names : runs[t] <= FairRuns
  /\ passes <= SchedGuard + 1 /\ schedules <= SchedGuard + 1
  /\ pc \notin {"halt", "dead"} => passes <= SchedGuard /\ schedules <= SchedGuard

\* The smallest account of some workers is the account of one of them.
LEMMA LeastAccount ==
  ASSUME NEW others \in SUBSET Workers, others # {}, vruntime \in [Names -> Nat]
  PROVE  \E o \in others : min_vruntime(others) = vruntime[o]
<1> DEFINE T == {vruntime[o] : o \in others}
<1>1. T \subseteq Nat /\ T # {}
  BY DEF Names
<1> HIDE DEF T
<1>2. \E v \in T : \A w \in T : v <= w
  BY <1>1, Smallest, Zenon
<1>3. \E v \in T : \A o \in others : v <= vruntime[o]
  BY <1>2 DEF T
<1>4. min_vruntime(others) = CHOOSE v \in T : \A o \in others : v <= vruntime[o]
  BY DEF min_vruntime, T
<1>5. min_vruntime(others) \in T
  BY <1>3, <1>4
<1> QED
  BY <1>5 DEF T

\* A woken napper is raised to the account of a worker with a step to go.
LEMMA AccountsPick ==
  ASSUME IInv, Accounts, schedule_once
  PROVE  Accounts'
<1>1. PICK n \in DOMAIN ready :
        /\ task' = ready[n]
        /\ vruntime' = Clamped(ready[n], {ready[m] : m \in DOMAIN ready \ {n}})
  BY Zenon DEF schedule_once
<1>2. pc = "schedule" /\ pc' = "enter" /\ runs' = runs
  BY DEF schedule_once, Goto
<1>3. Queue /\ Typed
  BY <1>2 DEF IInv, Demoing
<1>4. ready \in Seq(Names) /\ \A m \in DOMAIN ready : ready[m] \in Names /\ Queued(ready[m])
  BY <1>3, ElementOfSeq DEF Typed, Queued, Holds
<1>5. \A t \in Names : runs[t] \in Nat /\ (Queued(t) => runs[t] < Share(t))
  BY <1>3 DEF Queue, Typed
<1>6. \A t : Pending(t) = 0 /\ Pending(t)' = 0
  BY <1>2 DEF Pending
<1>7. CASE vruntime' = vruntime
  BY <1>2, <1>6, <1>7 DEF Accounts
<1>8. CASE vruntime' # vruntime
  <2> DEFINE others == {ready[m] : m \in DOMAIN ready \ {n}}
             raised == min_vruntime(others)
  <2>1. ready[n] = "napper" /\ vruntime' = [vruntime EXCEPT !["napper"] = Most(@, raised)]
    BY <1>1, <1>8, Zenon DEF Clamped
  <2>2. others \subseteq Workers
    <3>1. \A m \in DOMAIN ready \ {n} : ready[m] \in Names /\ ready[m] # "napper"
      BY <1>3, <1>4, <2>1 DEF Queue, Distinct
    <3> QED
      BY <3>1 DEF Names
  <2>3. \A o \in others : Queued(o)
    BY <1>4
  <2> HIDE DEF others, raised
  <2>4. vruntime \in [Names -> Nat] /\ FairRuns \in Nat /\ FairRuns >= 1
    BY DemoAssumption DEF Accounts
  <2>5. raised \in Nat /\ raised <= 2 * FairRuns - 2
    <3>1. CASE others = {}
      BY <2>4, <3>1 DEF raised, min_vruntime
    <3>2. CASE others # {}
      <4>1. PICK o \in others : raised = vruntime[o]
        BY <2>2, <2>4, <3>2, LeastAccount DEF raised
      <4>2. o \in Workers /\ o \in Names /\ Share(o) = FairRuns
        BY <2>2 DEF Names, Workers, Share
      <4>3. runs[o] \in Nat /\ runs[o] < FairRuns
        BY <1>5, <2>3, <4>2
      <4>4. vruntime[o] \in Nat /\ vruntime[o] <= 2 * runs[o]
        BY <1>6, <2>4, <4>2 DEF Accounts
      <4> QED
        BY <2>4, <4>1, <4>3, <4>4
    <3> QED
      BY <3>1, <3>2
  <2>6. runs["napper"] = 0 /\ "napper" \in Names /\ "napper" \notin Workers
    BY <1>4, <1>5, <2>1 DEF Share, Names, Workers
  <2>7. vruntime["napper"] \in Nat /\ vruntime["napper"] <= 2 * FairRuns - 2
    BY <1>6, <2>4, <2>6 DEF Accounts
  <2>8. Most(vruntime["napper"], raised) \in Nat /\ Most(vruntime["napper"], raised) <= 2 * FairRuns - 2
    BY <2>4, <2>5, <2>7 DEF Most
  <2>9. vruntime' \in [Names -> Nat] /\ vruntime'["napper"] = Most(vruntime["napper"], raised)
    BY <2>1, <2>4, <2>6, <2>8
  <2>10. \A w \in Workers : vruntime'[w] = vruntime[w]
    BY <2>1, <2>4, <2>6 DEF Names
  <2>11. \A w \in Workers : vruntime'[w] + Pending(w)' <= 2 * runs'[w]
    BY <1>2, <1>6, <2>10 DEF Accounts
  <2>12. vruntime'["napper"] + Pending("napper")'
           <= 2 * FairRuns - (IF runs'["napper"] = 0 THEN 2 ELSE 0)
    BY <1>2, <1>6, <2>4, <2>6, <2>8, <2>9
  <2> QED
    BY <2>9, <2>11, <2>12 DEF Accounts
<1> QED
  BY <1>7, <1>8

\* A step is worth at most two slices, which Return then charges.
LEMMA AccountsStep ==
  ASSUME IInv, Accounts, Step
  PROVE  Accounts'
<1>1. /\ pc = "step" /\ pc' = "return" /\ runs' = [runs EXCEPT ![task] = @ + 1]
      /\ UNCHANGED <<task, vruntime>>
  BY DEF Step, Goto
<1>2. Queue /\ Typed
  BY <1>1 DEF IInv, Demoing, Running, OnTask
<1>3. /\ task \in Names /\ runs \in [Names -> Nat] /\ vruntime \in [Names -> Nat]
      /\ runs[task] < Share(task) /\ FairRuns \in Nat
  BY <1>1, <1>2, DemoAssumption DEF Accounts, Queue, Typed, Running, OnTask
<1>4. \A t \in Names : /\ runs'[t] = IF t = task THEN runs[t] + 1 ELSE runs[t]
                       /\ Pending(t) = 0 /\ Pending(t)' = IF t = task THEN 2 ELSE 0
  BY <1>1, <1>3 DEF Pending
<1>5. ASSUME NEW w \in Workers PROVE vruntime'[w] + Pending(w)' <= 2 * runs'[w]
  <2>1. w \in Names /\ vruntime[w] \in Nat /\ runs[w] \in Nat /\ vruntime[w] <= 2 * runs[w]
    BY <1>3, <1>4 DEF Accounts, Names
  <2> QED
    BY <1>1, <1>4, <2>1
<1>6. vruntime'["napper"] + Pending("napper")'
        <= 2 * FairRuns - (IF runs'["napper"] = 0 THEN 2 ELSE 0)
  <2>1. /\ "napper" \in Names /\ vruntime["napper"] \in Nat /\ runs["napper"] \in Nat
        /\ vruntime["napper"] <= 2 * FairRuns - (IF runs["napper"] = 0 THEN 2 ELSE 0)
    BY <1>3, <1>4 DEF Accounts, Names
  <2>2. task = "napper" => runs["napper"] = 0
    BY <1>3, <2>1 DEF Share
  <2> QED
    BY <1>1, <1>3, <1>4, <2>1, <2>2
<1> QED
  BY <1>1, <1>3, <1>5, <1>6 DEF Accounts

\* Return charges what was pending, or less.
LEMMA AccountsReturn ==
  ASSUME IInv, Accounts, Return
  PROVE  Accounts'
<1>1. /\ pc = "return" /\ pc' # "return" /\ runs' = runs
      /\ vruntime' = (IF policy = "cfs" THEN [vruntime EXCEPT ![task] = @ + Slice(task)]
                      ELSE vruntime)
  BY DEF Return, Goto, Halt
<1>2. Queue /\ Typed
  BY <1>1 DEF IInv, Demoing, Running, OnTask
<1>3. task \in Names /\ vruntime \in [Names -> Nat] /\ runs \in [Names -> Nat] /\ FairRuns \in Nat
  BY <1>1, <1>2, DemoAssumption, Zenon DEF Accounts, Queue, Typed, Running, OnTask
<1>4. \A t \in Names : /\ Pending(t) = (IF t = task THEN 2 ELSE 0) /\ Pending(t)' = 0
                       /\ Slice(t) \in {1, 2}
  BY <1>1 DEF Pending, Slice
<1>5. vruntime' \in [Names -> Nat]
  BY <1>1, <1>3, <1>4
<1>6. ASSUME NEW t \in Names PROVE vruntime'[t] + Pending(t)' <= vruntime[t] + Pending(t)
  <2>1. vruntime[t] \in Nat
    BY <1>3
  <2>2. \/ vruntime'[t] = vruntime[t]
        \/ t = task /\ vruntime'[t] = vruntime[t] + Slice(t)
    BY <1>1, <1>3
  <2> QED
    BY <1>4, <2>1, <2>2
<1>7. \A t \in Names : /\ vruntime[t] \in Nat /\ vruntime'[t] \in Nat
                       /\ Pending(t) \in Nat /\ Pending(t)' \in Nat /\ runs[t] \in Nat
  BY <1>3, <1>4, <1>5
<1>8. ASSUME NEW w \in Workers PROVE vruntime'[w] + Pending(w)' <= 2 * runs'[w]
  <2>1. w \in Names /\ vruntime[w] + Pending(w) <= 2 * runs[w]
    BY DEF Accounts, Names
  <2> QED
    BY <1>1, <1>6, <1>7, <2>1
<1>9. vruntime'["napper"] + Pending("napper")'
        <= 2 * FairRuns - (IF runs'["napper"] = 0 THEN 2 ELSE 0)
  <2>1. /\ "napper" \in Names
        /\ vruntime["napper"] + Pending("napper")
             <= 2 * FairRuns - (IF runs["napper"] = 0 THEN 2 ELSE 0)
    BY DEF Accounts, Names
  <2> QED
    BY <1>1, <1>3, <1>6, <1>7, <2>1
<1> QED
  BY <1>5, <1>8, <1>9 DEF Accounts

\* The counts of the driver: the loop is left as soon as one passes its guard.
LEMMA StepBounds ==
  ASSUME IInv, Bounds, [Next]_vars
  PROVE  Bounds'
<1>1. passes \in Nat /\ schedules \in Nat /\ SchedGuard \in Nat /\ runs \in [Names -> Nat]
  BY DemoAssumption DEF IInv, Typed
<1>2. CASE (Beside(Hardware) \/ Beside(Handlers)) \/ UNCHANGED vars
  BY <1>2 DEF Beside, demo, vars, Bounds
<1>3. CASE Boot /\ UNCHANGED demo
  <2>1. /\ pc \in BringUpPcs \cup {"panic"}
        /\ pc' \in BringUpPcs \cup {"proof", "panic", "halt", "dead"}
    BY <1>3, BootPc
  <2>2. pc \notin {"halt", "dead"} /\ "proof" \in DemoPcs
    BY <2>1 DEF BringUpPcs, DemoPcs
  <2> QED
    BY <1>3, <2>1, <2>2 DEF demo, Bounds
<1>4. CASE ProofBlock \/ Spawn \/ Drive \/ Wait \/ Hlt \/ schedule_once \/ Enter \/ Before
           \/ Witness \/ Verdict
  <2>1. /\ UNCHANGED <<runs, passes, schedules>> /\ pc \notin {"halt", "dead"}
        /\ pc' \in DemoPcs \cup {"panic", "halt"}
    BY <1>4, Zenon DEF ProofBlock, Spawn, Drive, Wait, Hlt, schedule_once, Enter, Before, Witness,
       Verdict, Goto, Halt, demo, DemoPcs
  <2> QED
    BY <2>1 DEF Bounds
<1>5. CASE NobodyAwake
  <2>1. /\ UNCHANGED <<runs, schedules>> /\ pc = "schedule" /\ passes' = passes + 1
        /\ IF passes + 1 > SchedGuard THEN pc' = "halt" ELSE pc' = "wait"
    BY <1>5, Zenon DEF NobodyAwake, Goto, Halt
  <2> QED
    BY <1>1, <2>1 DEF Bounds, DemoPcs
<1>6. CASE Step
  <2>1. /\ pc = "step" /\ pc' = "return" /\ runs' = [runs EXCEPT ![task] = @ + 1]
        /\ UNCHANGED <<passes, schedules>>
    BY <1>6 DEF Step, Goto
  <2>2. Queue /\ Typed
    BY <2>1 DEF IInv, Demoing, Running, OnTask
  <2>3. task \in Names /\ runs[task] < Share(task)
    BY <2>1, <2>2 DEF Queue, Typed, Running, OnTask
  <2>4. runs[task] + 1 <= FairRuns
    BY <1>1, <2>3, DemoAssumption DEF Share
  <2> QED
    BY <1>1, <2>1, <2>3, <2>4 DEF Bounds, DemoPcs
<1>7. CASE Return
  <2>1. /\ runs' = runs /\ pc = "return" /\ passes' = 0 /\ schedules' = schedules + 1
        /\ IF schedules + 1 > SchedGuard THEN pc' = "halt" ELSE pc' = "wait"
    BY <1>7 DEF Return, Goto, Halt
  <2> QED
    BY <1>1, <2>1 DEF Bounds, DemoPcs
<1> QED
  BY <1>2, <1>3, <1>4, <1>5, <1>6, <1>7 DEF Next, Main, Stopped, DemoSteps

\* Every count of the driver stays within its bound, for every share, nap and
\* guard: no task runs a step more than its share allows, no account exceeds what
\* its steps are worth, and a guarded counter passes its guard at most once.
THEOREM DemoTypeSafe == Spec => []TypeOK
<1>1. Init => Accounts /\ Bounds
  BY DemoAssumption DEF Init, BringUpInit, DemoInit, Accounts, Bounds, Pending, BringUpPcs, Names,
     Workers
<1>2. IInv /\ Accounts /\ [Next]_vars => Accounts'
  <2> SUFFICES ASSUME IInv, Accounts, [Next]_vars PROVE Accounts'
    OBVIOUS
  <2>1. ASSUME UNCHANGED <<runs, vruntime>>, pc # "return", pc' # "return" PROVE Accounts'
    BY <2>1 DEF Accounts, Pending
  <2>2. CASE (Beside(Hardware) \/ Beside(Handlers)) \/ UNCHANGED vars
    BY <2>2 DEF Beside, demo, vars, Accounts, Pending
  <2>3. CASE Boot /\ UNCHANGED demo
    <3>1. /\ pc \in BringUpPcs \cup {"panic"}
          /\ pc' \in BringUpPcs \cup {"proof", "panic", "halt", "dead"}
      BY <2>3, BootPc
    <3>2. pc # "return" /\ pc' # "return" /\ UNCHANGED <<runs, vruntime>>
      BY <2>3, <3>1 DEF BringUpPcs, demo
    <3> QED
      BY <2>1, <3>2
  <2>4. CASE ProofBlock \/ Spawn \/ Drive \/ Wait \/ Hlt \/ NobodyAwake \/ Enter \/ Before
             \/ Witness \/ Verdict
    BY <2>1, <2>4, Zenon DEF ProofBlock, Spawn, Drive, Wait, Hlt, NobodyAwake, Enter, Before,
       Witness, Verdict, Goto, Halt, demo
  <2> QED
    BY <2>2, <2>3, <2>4, AccountsPick, AccountsStep, AccountsReturn
    DEF Next, Main, Stopped, DemoSteps
<1>3. IInv /\ Bounds /\ [Next]_vars => Bounds'
  BY StepBounds
<1>4. IInv /\ Accounts /\ Bounds => TypeOK
  <2> SUFFICES ASSUME IInv, Accounts, Bounds PROVE TypeOK
    OBVIOUS
  <2>1. /\ Typed /\ FairRuns \in Nat /\ SchedGuard \in Nat /\ runs \in [Names -> Nat]
        /\ vruntime \in [Names -> Nat]
    BY DemoAssumption DEF IInv, Typed, Accounts
  <2>2. runs \in [Names -> 0..FairRuns]
    BY <2>1 DEF Bounds
  <2>3. ASSUME NEW t \in Names PROVE vruntime[t] \in 0..2 * FairRuns + 1
    <3>1. Pending(t) \in {0, 2} /\ vruntime[t] \in Nat /\ runs[t] \in 0..FairRuns
      BY <2>1, <2>2 DEF Pending
    <3>2. CASE t \in Workers
      BY <2>1, <3>1, <3>2 DEF Accounts
    <3>3. CASE t = "napper"
      BY <2>1, <3>1, <3>3 DEF Accounts
    <3> QED
      BY <3>2, <3>3 DEF Names
  <2>4. vruntime \in [Names -> 0..2 * FairRuns + 1]
    BY <2>1, <2>3
  <2>5. passes \in 0..SchedGuard + 1 /\ schedules \in 0..SchedGuard + 1
    BY <2>1 DEF Typed, Bounds
  <2> QED
    BY <2>1, <2>2, <2>4, <2>5 DEF Typed, Bounds, TypeOK
<1> QED
  BY <1>1, <1>2, <1>3, <1>4, DemoInvariant, PTL DEF Spec
=============================================================================
