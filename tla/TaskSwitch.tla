------------------------------ MODULE TaskSwitch ------------------------------
(***************************************************************************)
(* The switch path of kernel/src/task.rs and kernel/src/preempt.rs on the  *)
(* one CPU of the machine: Task::new and spawn, the round-robin            *)
(* schedule_once, switch_to_task, the trampoline that runs one step on the *)
(* task's own stack, the retirement of a finished task, the panic handler, *)
(* and the LAPIC stub (vector 0xEF), which may run between any two of      *)
(* these steps while interrupts are enabled.                               *)
(*                                                                         *)
(* A step of this model is the code between two writes that the stub could *)
(* tell apart.  Registers and addresses are abstracted to "which stack":   *)
(* a saved rsp is the window (heap block) it points into.                  *)
(***************************************************************************)
EXTENDS Integers, Sequences

CONSTANTS
  MaxTasks,  \* preempt::MAX_TASKS, the number of slots (7 in the code)
  Windows,   \* heap blocks a TaskStack may occupy; a freed one is reused
  Boot,      \* the boot stack, on which the driver runs
  None,      \* FullFrame::ZERO, bounds (0, 0), no stack
  Below,     \* a stashed rsp that lies below its stack's window
  MaxId,     \* bound: tasks created in a behaviour
  MaxTick,   \* bound: LAPIC ticks in a behaviour
  MaxRuns    \* bound: steps a task runs before its step returns false

ASSUME MaxTasksAssumption == MaxTasks \in Nat
ASSUME StacksAssumption ==
  /\ Boot \notin Windows /\ None \notin Windows /\ Below \notin Windows
  /\ Boot # None /\ Boot # Below /\ None # Below
ASSUME BoundsAssumption == MaxId \in Nat /\ MaxTick \in Nat /\ MaxRuns \in Nat

VARIABLES
  pc,        \* the next step of the single control flow
  iflag,     \* the CPU's interrupt flag
  sp,        \* the stack RSP points into
  fence,     \* PREEMPTIBLE
  current,   \* CURRENT_IDX (MaxTasks: the driver is on the boot stack)
  used,      \* SLOT_USED, the set of slots whose bit is set
  frames,    \* TASK_FRAMES: the stack each frame's rsp points into
  bounds,    \* SLOT_BOUNDS: the stack window recorded for each slot
  switches,  \* PREEMPT_SWITCHES
  ticks,     \* APIC_TICKS
  rsp0,      \* TSS.rsp0, as the stack whose top it holds
  ptrs,      \* TASK_PTRS (0: null)
  schedCtx,  \* SCHED_CTX
  ready,     \* RoundRobin.ready
  left,      \* schedule_once: passes of its for loop still to do (0 outside it)
  run,       \* the driver's task: the box being spawned, run or retired (0: none)
  me,        \* the trampoline's task: what current_task() returned (0: none)
  cause,     \* why the kernel panicked or halted
  nextId,    \* RoundRobin.next_id
  state,     \* Task.state; "Unborn" before Task::new, "Dropped" once the box
             \* is freed and (id, runs) is in finished_runs
  until,     \* until_tick of a sleeping task
  slot,      \* Task.slot
  stack,     \* Task.stack
  ctx,       \* Task.ctx: the stack its saved rsp points into
  runs,      \* Task.runs
  canary     \* Task.stack.canary_ok()

stub == <<fence, current, used, frames, bounds, switches>>
irq == <<stub, ticks>>
queue == <<ready, left>>
made == <<nextId, until, slot, stack>>
tcb == <<made, state, ctx, runs, canary>>
vars == <<pc, iflag, sp, irq, rsp0, ptrs, schedCtx, queue, run, me, cause, tcb>>

Ids == 1..MaxId
Slots == 0..MaxTasks - 1
TaskStates == {"Ready", "Running", "Sleeping", "Finished"}

BootPcs == {"driver", "set_bit", "set_bounds", "spawn", "pick", "publish",
            "set_rsp0", "cli", "switch_in", "unpublish", "sti", "validate",
            "clear_ptr", "wipe", "clear_bit", "drop"}
TaskPcs == {"tramp", "fence_up", "step", "fence_down", "task_cli", "switch_out"}
PanicPcs == {"panic", "panic_cli", "halt"}

\* The boxes that exist: a task owns its slot and its stack until it is dropped.
Live(i) == state[i] \in TaskStates

(***************************************************************************)
(* FullFrame::valid_for: magic intact (not the ZERO frame) and rsp inside  *)
(* the window; frame_ok checks a slot's frame against SLOT_BOUNDS.         *)
(***************************************************************************)
valid_for(frame, window) == frame \in Windows /\ frame = window

frame_ok(s) == bounds[s] # None /\ valid_for(frames[s], bounds[s])

-----------------------------------------------------------------------------
(* The state main leaves when the demo block starts: interrupts enabled    *)
(* (main.rs:73), the fence down (asserted at main.rs:244), no task.        *)
Init ==
  /\ pc = "driver" /\ iflag = TRUE /\ sp = Boot
  /\ fence = FALSE /\ current = MaxTasks /\ used = {}
  /\ frames = [s \in Slots |-> None] /\ bounds = [s \in Slots |-> None]
  /\ switches = 0 /\ ticks = 0 /\ rsp0 = None
  /\ ptrs = [s \in Slots |-> 0] /\ schedCtx = None
  /\ ready = <<>> /\ left = 0 /\ run = 0 /\ me = 0 /\ cause = "none" /\ nextId = 1
  /\ state = [i \in Ids |-> "Unborn"] /\ until = [i \in Ids |-> 0]
  /\ slot = [i \in Ids |-> MaxTasks] /\ stack = [i \in Ids |-> None]
  /\ ctx = [i \in Ids |-> None] /\ runs = [i \in Ids |-> 0]
  /\ canary = [i \in Ids |-> FALSE]

Goto(a, b) == pc = a /\ pc' = b

\* panic!, a failed assert!, or a halt loop, from step a.
Panic(a, why) == Goto(a, "panic") /\ cause' = why

-----------------------------------------------------------------------------
(* The LAPIC stub.  An interrupt gate: it runs with IF = 0, hence in one    *)
(* step, and only when IF = 1.  A yank of a task whose canary is already    *)
(* gone may find rsp below the window.                                      *)
lapic_preempt_stub ==
  /\ iflag /\ ticks < MaxTick
  /\ ticks' = ticks + 1
  /\ IF fence /\ current < MaxTasks /\ current \in used
     THEN /\ switches' = switches + 1
          /\ \E f \in {sp} \cup (IF pc = "step" /\ ~canary[me] THEN {Below} ELSE {}) :
               frames' = [frames EXCEPT ![current] = f]
     ELSE UNCHANGED <<switches, frames>>
  /\ UNCHANGED <<pc, iflag, sp, fence, current, used, bounds, rsp0, ptrs, schedCtx,
                 queue, run, me, cause, tcb>>

-----------------------------------------------------------------------------
(* Task::new / Task::sleeping, then spawn.                                  *)

\* A heap block that no task's stack occupies.
Free(w) == \A i \in Ids : Live(i) => stack[i] # w

\* Mutant: a counter that wraps instead of the occupancy bitmap.
SlotByCounter(s) == s = (nextId - 1) % MaxTasks

\* The lowest slot whose bit is clear.
alloc_slot(s) == s \notin used /\ \A r \in Slots : r < s => r \in used

\* TaskStack::new, init_task_context, FullFrame::fresh, alloc_slot and the frame
\* write of register_task.
NewTask(w, st, u, s) ==
  /\ Goto("driver", "set_bit") /\ nextId <= MaxId
  /\ Free(w)
  /\ alloc_slot(s)
  /\ run' = nextId /\ nextId' = nextId + 1
  /\ state' = [state EXCEPT ![nextId] = st]
  /\ until' = [until EXCEPT ![nextId] = u]
  /\ slot' = [slot EXCEPT ![nextId] = s]
  /\ stack' = [stack EXCEPT ![nextId] = w]
  /\ ctx' = [ctx EXCEPT ![nextId] = w]
  /\ canary' = [canary EXCEPT ![nextId] = TRUE]
  /\ frames' = [frames EXCEPT ![s] = w]
  /\ UNCHANGED <<iflag, sp, fence, current, used, bounds, switches, ticks, rsp0, ptrs,
                 schedCtx, queue, me, cause, runs>>

\* alloc_slot finds no clear bit, or the heap has no room for the stack.
RefuseTask ==
  /\ nextId <= MaxId
  /\ \/ Panic("driver", "table full") /\ Slots \subseteq used /\ \E w \in Windows : Free(w)
     \/ Panic("driver", "out of memory")
  /\ UNCHANGED <<iflag, sp, irq, rsp0, ptrs, schedCtx, queue, run, me, tcb>>

\* register_task asserted the bit clear (alloc_slot saw it clear); fetch_or.
SetBit ==
  /\ Goto("set_bit", "set_bounds")
  /\ used' = used \cup {slot[run]}
  /\ UNCHANGED <<iflag, sp, fence, current, frames, bounds, switches, ticks, rsp0, ptrs,
                 schedCtx, queue, run, me, cause, tcb>>

set_slot_bounds ==
  /\ Goto("set_bounds", "spawn")
  /\ bounds' = [bounds EXCEPT ![slot[run]] = stack[run]]
  /\ UNCHANGED <<iflag, sp, fence, current, used, frames, switches, ticks, rsp0, ptrs,
                 schedCtx, queue, run, me, cause, tcb>>

\* Mutant: the slot's task pointer is not recorded.
SpawnWithoutPointer ==
  /\ Goto("spawn", "driver")
  /\ ready' = Append(ready, run) /\ run' = 0
  /\ UNCHANGED <<iflag, sp, irq, rsp0, ptrs, schedCtx, left, me, cause, tcb>>

\* Box the task, set_task_ptr, push_back.
spawn ==
  /\ Goto("spawn", "driver")
  /\ ptrs' = [ptrs EXCEPT ![slot[run]] = run]
  /\ ready' = Append(ready, run) /\ run' = 0
  /\ UNCHANGED <<iflag, sp, irq, rsp0, schedCtx, left, me, cause, tcb>>

-----------------------------------------------------------------------------
(* RoundRobin::schedule_once.                                               *)

\* Mutant: one pass too many, 0..=len.
PassTooMany ==
  /\ Goto("driver", "pick") /\ ready # <<>>
  /\ left' = Len(ready) + 1
  /\ UNCHANGED <<iflag, sp, irq, rsp0, ptrs, schedCtx, ready, run, me, cause, tcb>>

schedule_once ==
  /\ Goto("driver", "pick") /\ ready # <<>>
  /\ left' = Len(ready)
  /\ UNCHANGED <<iflag, sp, irq, rsp0, ptrs, schedCtx, ready, run, me, cause, tcb>>

\* No task at all: schedule_once returns false.
NothingQueued == pc = "driver" /\ ready = <<>> /\ UNCHANGED vars

\* A whole pass found nobody awake: schedule_once returns false.
AllAsleep ==
  /\ Goto("pick", "driver") /\ left = 0
  /\ UNCHANGED <<iflag, sp, irq, rsp0, ptrs, schedCtx, queue, run, me, cause, tcb>>

Asleep(i) == state[i] = "Sleeping" /\ ticks < until[i]

\* Mutant: the sleeper is popped and not pushed back.
SleeperForgotten ==
  /\ pc = "pick" /\ left > 0 /\ Asleep(Head(ready))
  /\ ready' = Tail(ready) /\ left' = left - 1
  /\ UNCHANGED <<pc, iflag, sp, irq, rsp0, ptrs, schedCtx, run, me, cause, tcb>>

\* pop_front, and push_back of a task whose tick has not come.
SkipSleeper ==
  /\ pc = "pick" /\ left > 0 /\ Asleep(Head(ready))
  /\ ready' = Append(Tail(ready), Head(ready)) /\ left' = left - 1
  /\ UNCHANGED <<pc, iflag, sp, irq, rsp0, ptrs, schedCtx, run, me, cause, tcb>>

\* Mutant: the picked task is not marked Running.
PickUnmarked ==
  /\ Goto("pick", "publish") /\ left > 0 /\ ~Asleep(Head(ready))
  /\ run' = Head(ready) /\ ready' = Tail(ready) /\ left' = 0
  /\ UNCHANGED <<iflag, sp, irq, rsp0, ptrs, schedCtx, me, cause, tcb>>

\* pop_front of a task that is awake: it becomes Running.
PickTask ==
  /\ Goto("pick", "publish") /\ left > 0 /\ ~Asleep(Head(ready))
  /\ run' = Head(ready) /\ ready' = Tail(ready) /\ left' = 0
  /\ state' = [state EXCEPT ![Head(ready)] = "Running"]
  /\ UNCHANGED <<iflag, sp, irq, rsp0, ptrs, schedCtx, me, cause, made, ctx, runs, canary>>

-----------------------------------------------------------------------------
(* switch_to_task.  set_current and set_rsp0 execute with IF = 1: no caller *)
(* disables interrupts before the cli inside it.                            *)

set_current ==
  /\ \/ Goto("publish", "set_rsp0") /\ current' = slot[run]
     \/ Goto("unpublish", "sti") /\ current' = MaxTasks
  /\ UNCHANGED <<iflag, sp, fence, used, frames, bounds, switches, ticks, rsp0, ptrs,
                 schedCtx, queue, run, me, cause, tcb>>

\* Mutant: rsp0 keeps the stack of an earlier task.
Rsp0NotWritten ==
  /\ Goto("set_rsp0", "cli")
  /\ UNCHANGED <<iflag, sp, irq, rsp0, ptrs, schedCtx, queue, run, me, cause, tcb>>

set_rsp0 ==
  /\ Goto("set_rsp0", "cli")
  /\ rsp0' = stack[run]
  /\ UNCHANGED <<iflag, sp, irq, ptrs, schedCtx, queue, run, me, cause, tcb>>

\* interrupts::disable before the switch in, and before the switch out.
Cli ==
  /\ Goto("cli", "switch_in") \/ Goto("task_cli", "switch_out")
  /\ iflag' = FALSE
  /\ UNCHANGED <<sp, irq, rsp0, ptrs, schedCtx, queue, run, me, cause, tcb>>

\* interrupts::enable once the driver is back on the boot stack.
DriverSti ==
  /\ Goto("sti", "validate")
  /\ iflag' = TRUE
  /\ UNCHANGED <<sp, irq, rsp0, ptrs, schedCtx, queue, run, me, cause, tcb>>

\* context_switch(SCHED_CTX, task.ctx): a first resume (the bootstrap frame)
\* and a later one both land at the top of the trampoline's loop.
SwitchIn ==
  /\ Goto("switch_in", "tramp")
  /\ schedCtx' = sp /\ sp' = ctx[run]
  /\ UNCHANGED <<iflag, irq, rsp0, ptrs, queue, run, me, cause, tcb>>

\* context_switch(task.ctx, SCHED_CTX).
SwitchOut ==
  /\ Goto("switch_out", "unpublish")
  /\ ctx' = [ctx EXCEPT ![me] = sp] /\ sp' = schedCtx /\ me' = 0
  /\ UNCHANGED <<iflag, irq, rsp0, ptrs, schedCtx, queue, run, cause, made, state, runs,
                 canary>>

-----------------------------------------------------------------------------
(* task_trampoline_body.                                                    *)

\* current_task(): the slot in CURRENT_IDX resolved through TASK_PTRS.
task_at(s) == IF s < MaxTasks THEN ptrs[s] ELSE 0

current_task ==
  /\ Goto("tramp", "fence_up")
  /\ task_at(current) # 0 /\ canary[task_at(current)]
  /\ me' = task_at(current) /\ iflag' = TRUE
  /\ UNCHANGED <<sp, irq, rsp0, ptrs, schedCtx, queue, run, cause, tcb>>

CurrentTaskPanics ==
  /\ Panic("tramp", "unregistered slot") /\ task_at(current) = 0
  /\ UNCHANGED <<iflag, sp, irq, rsp0, ptrs, schedCtx, queue, run, me, tcb>>

CanaryTrashed ==
  /\ Goto("tramp", "halt")
  /\ task_at(current) # 0 /\ ~canary[task_at(current)]
  /\ cause' = "canary" /\ iflag' = FALSE
  /\ UNCHANGED <<sp, irq, rsp0, ptrs, schedCtx, queue, run, me, tcb>>

\* current_task() panics when the slot in CURRENT_IDX has no task.
ResolveTask ==
  /\ pc = "tramp"
  /\ IF task_at(current) = 0 THEN CurrentTaskPanics ELSE current_task

\* Mutants: the yield, or the panic handler, leaves the fence up.
YieldKeepsFence ==
  /\ \/ Goto("fence_up", "step") /\ fence' = TRUE
     \/ Goto("fence_down", "task_cli") /\ fence' = fence
     \/ Goto("panic", "panic_cli") /\ fence' = FALSE
  /\ UNCHANGED <<iflag, sp, current, used, frames, bounds, switches, ticks, rsp0, ptrs,
                 schedCtx, queue, run, me, cause, tcb>>

PanicKeepsFence ==
  /\ \/ Goto("fence_up", "step") /\ fence' = TRUE
     \/ Goto("fence_down", "task_cli") /\ fence' = FALSE
     \/ Goto("panic", "panic_cli") /\ fence' = fence
  /\ UNCHANGED <<iflag, sp, current, used, frames, bounds, switches, ticks, rsp0, ptrs,
                 schedCtx, queue, run, me, cause, tcb>>

set_preemptible ==
  /\ \/ Goto("fence_up", "step") /\ fence' = TRUE
     \/ Goto("fence_down", "task_cli") /\ fence' = FALSE
     \/ Goto("panic", "panic_cli") /\ fence' = FALSE
  /\ UNCHANGED <<iflag, sp, current, used, frames, bounds, switches, ticks, rsp0, ptrs,
                 schedCtx, queue, run, me, cause, tcb>>

\* The closure returns; runs and state are written through the cached pointer.
StepReturns(alive) ==
  /\ Goto("step", "fence_down")
  /\ alive => runs[me] + 1 < MaxRuns
  /\ runs' = [runs EXCEPT ![me] = @ + 1]
  /\ state' = [state EXCEPT ![me] = IF alive THEN "Ready" ELSE "Finished"]
  /\ UNCHANGED <<iflag, sp, irq, rsp0, ptrs, schedCtx, queue, run, me, cause, made, ctx,
                 canary>>

\* The closure's frames grow past the bottom of the stack.
StepOverflows ==
  /\ pc = "step" /\ canary[me]
  /\ canary' = [canary EXCEPT ![me] = FALSE]
  /\ UNCHANGED <<pc, iflag, sp, irq, rsp0, ptrs, schedCtx, queue, run, me, cause, made,
                 state, ctx, runs>>

StepPanics ==
  /\ Panic("step", "step")
  /\ UNCHANGED <<iflag, sp, irq, rsp0, ptrs, schedCtx, queue, run, me, tcb>>

-----------------------------------------------------------------------------
(* schedule_once after the switch: the table-side check, then requeue or    *)
(* retire.  The template in Task.preempt is never written after Task::new.  *)

\* Mutants: the task is pushed to the front, or not at all.
RequeueInFront ==
  /\ Goto("validate", "driver") /\ frame_ok(slot[run]) /\ state[run] = "Ready"
  /\ ready' = <<run>> \o ready /\ run' = 0
  /\ UNCHANGED <<iflag, sp, irq, rsp0, ptrs, schedCtx, left, me, cause, tcb>>

RequeueForgotten ==
  /\ Goto("validate", "driver") /\ frame_ok(slot[run]) /\ state[run] = "Ready"
  /\ run' = 0
  /\ UNCHANGED <<iflag, sp, irq, rsp0, ptrs, schedCtx, queue, me, cause, tcb>>

Requeue ==
  /\ Goto("validate", "driver") /\ frame_ok(slot[run]) /\ state[run] = "Ready"
  /\ ready' = Append(ready, run) /\ run' = 0
  /\ UNCHANGED <<iflag, sp, irq, rsp0, ptrs, schedCtx, left, me, cause, tcb>>

Retire ==
  /\ Goto("validate", "clear_ptr") /\ frame_ok(slot[run]) /\ state[run] # "Ready"
  /\ UNCHANGED <<iflag, sp, irq, rsp0, ptrs, schedCtx, queue, run, me, cause, tcb>>

FrameInvalid ==
  /\ Panic("validate", "frame") /\ ~frame_ok(slot[run])
  /\ UNCHANGED <<iflag, sp, irq, rsp0, ptrs, schedCtx, queue, run, me, tcb>>

\* Mutant: the pointer survives the box.
PointerKept ==
  /\ Goto("clear_ptr", "wipe")
  /\ UNCHANGED <<iflag, sp, irq, rsp0, ptrs, schedCtx, queue, run, me, cause, tcb>>

clear_task_ptr ==
  /\ Goto("clear_ptr", "wipe")
  /\ ptrs' = [ptrs EXCEPT ![slot[run]] = 0]
  /\ UNCHANGED <<iflag, sp, irq, rsp0, schedCtx, queue, run, me, cause, tcb>>

\* Mutant: the frame of the retired task is left in the table.
FrameKept ==
  /\ Goto("wipe", "clear_bit") /\ slot[run] \in used
  /\ UNCHANGED <<iflag, sp, irq, rsp0, ptrs, schedCtx, queue, run, me, cause, tcb>>

\* unregister_task: assert the bit set, wipe the frame, then clear the bit.
WipeFrame ==
  /\ Goto("wipe", "clear_bit") /\ slot[run] \in used
  /\ frames' = [frames EXCEPT ![slot[run]] = None]
  /\ UNCHANGED <<iflag, sp, fence, current, used, bounds, switches, ticks, rsp0, ptrs,
                 schedCtx, queue, run, me, cause, tcb>>

NeverRegistered ==
  /\ Panic("wipe", "never registered") /\ slot[run] \notin used
  /\ UNCHANGED <<iflag, sp, irq, rsp0, ptrs, schedCtx, queue, run, me, tcb>>

unregister_task ==
  /\ pc = "wipe"
  /\ IF slot[run] \in used THEN WipeFrame ELSE NeverRegistered

ClearBit ==
  /\ Goto("clear_bit", "drop")
  /\ used' = used \ {slot[run]}
  /\ UNCHANGED <<iflag, sp, fence, current, frames, bounds, switches, ticks, rsp0, ptrs,
                 schedCtx, queue, run, me, cause, tcb>>

\* finished_runs.push; the box, and with it the stack, is freed on return.
DropTask ==
  /\ Goto("drop", "driver")
  /\ state' = [state EXCEPT ![run] = "Dropped"] /\ run' = 0
  /\ UNCHANGED <<iflag, sp, irq, rsp0, ptrs, schedCtx, queue, me, cause, made, ctx, runs,
                 canary>>

-----------------------------------------------------------------------------
(* The panic handler prints with IF and the fence as they were, lowers the  *)
(* fence (set_preemptible above), disables interrupts and halts.            *)

PanicCli ==
  /\ Goto("panic_cli", "halt")
  /\ iflag' = FALSE
  /\ UNCHANGED <<sp, irq, rsp0, ptrs, schedCtx, queue, run, me, cause, tcb>>

\* loop { hlt }, with interrupts off.
Halted == pc = "halt" /\ UNCHANGED vars

Create == \E w \in Windows, s \in Slots :
            \/ NewTask(w, "Ready", 0, s)
            \/ \E u \in 1..MaxTick : NewTask(w, "Sleeping", u, s)

Cpu ==
  \/ Create \/ RefuseTask \/ SetBit \/ set_slot_bounds \/ spawn
  \/ schedule_once \/ NothingQueued \/ AllAsleep \/ SkipSleeper \/ PickTask
  \/ set_current \/ set_rsp0 \/ Cli \/ SwitchIn
  \/ ResolveTask \/ CanaryTrashed \/ set_preemptible
  \/ (\E alive \in BOOLEAN : StepReturns(alive)) \/ StepOverflows \/ StepPanics
  \/ SwitchOut \/ DriverSti
  \/ Requeue \/ Retire \/ FrameInvalid
  \/ clear_task_ptr \/ unregister_task \/ ClearBit \/ DropTask
  \/ PanicCli \/ Halted

Next == lapic_preempt_stub \/ Cpu

Spec == Init /\ [][Next]_vars

(***************************************************************************)
(* Fairness.  The CPU executes; the driver calls schedule_once while a     *)
(* task is alive (main.rs:368); a step returns.  The LAPIC latches a tick  *)
(* that arrives with interrupts off, so one that is infinitely often       *)
(* deliverable is delivered: strong fairness.                              *)
(***************************************************************************)
FairSpec == Spec /\ WF_vars(Cpu) /\ SF_vars(lapic_preempt_stub)

-----------------------------------------------------------------------------
ControlType ==
  /\ pc \in BootPcs \cup TaskPcs \cup PanicPcs
  /\ iflag \in BOOLEAN /\ fence \in BOOLEAN
  /\ sp \in Windows \cup {Boot} /\ schedCtx \in {Boot, None}
  /\ rsp0 \in Windows \cup {None} /\ current \in 0..MaxTasks
  /\ switches \in Nat /\ ticks \in 0..MaxTick /\ switches <= ticks
  /\ run \in 0..MaxId /\ me \in 0..MaxId /\ nextId \in 1..MaxId + 1
  /\ cause \in {"none", "table full", "out of memory", "unregistered slot", "canary",
                "step", "frame", "never registered"}

TableType ==
  /\ used \subseteq Slots /\ ptrs \in [Slots -> 0..MaxId]
  /\ frames \in [Slots -> Windows \cup {None, Below}]
  /\ bounds \in [Slots -> Windows \cup {None}]

QueueType == ready \in Seq(Ids) /\ left \in 0..Len(ready)

TaskType ==
  /\ state \in [Ids -> TaskStates \cup {"Unborn", "Dropped"}]
  /\ until \in [Ids -> 0..MaxTick] /\ slot \in [Ids -> 0..MaxTasks]
  /\ stack \in [Ids -> Windows \cup {None}] /\ ctx \in [Ids -> Windows \cup {None}]
  /\ runs \in [Ids -> Nat] /\ canary \in [Ids -> BOOLEAN]

\* The type of every variable; a yank is a tick, so PREEMPT_SWITCHES never
\* overtakes APIC_TICKS, and schedule_once's loop stays within the queue.
TypeOK == ControlType /\ TableType /\ QueueType /\ TaskType

\* While the fence is up, whatever tick arrives finds the CPU on the stack of
\* the task that CURRENT_IDX names: the stub stashes every yanked frame into
\* the slot of the stack under its feet, and never a frame of the boot stack.
YankHitsOwnStack ==
  fence => /\ sp \in Windows /\ current \in used
           /\ bounds[current] = sp
           /\ ptrs[current] # 0 /\ stack[ptrs[current]] = sp

\* TASK_PTRS never dangles: an entry names a box that is not yet dropped, in
\* the slot that task owns (clear_task_ptr runs before the box is freed).
NoDanglingPointer ==
  \A s \in Slots : ptrs[s] # 0 =>
    Live(ptrs[s]) /\ slot[ptrs[s]] = s /\ s \in used

\* A frame in TASK_FRAMES that is not the ZERO template belongs to the live
\* task of that slot: no rip into a freed stack survives a retirement, not
\* even when the slot or the heap block is reused.
FramesNameLiveStacks ==
  \A s \in Slots : frames[s] # None =>
    \E i \in Ids : Live(i) /\ slot[i] = s /\ frames[s] \in {stack[i], Below}

\* alloc_slot and the heap never give one slot or one stack to two tasks.
SlotsAndStacksExclusive ==
  \A i, j \in Ids : Live(i) /\ Live(j) /\ i # j =>
    slot[i] # slot[j] /\ stack[i] # stack[j]

\* No task is lost or queued twice: every live task is in the ready queue once,
\* except the one the driver holds, and only that one can be Running.
QueueHoldsEveryTask ==
  /\ \A m, n \in DOMAIN ready : ready[m] = ready[n] => m = n
  /\ \A i \in Ids : (Live(i) /\ i # run) <=> (\E n \in DOMAIN ready : ready[n] = i)
  /\ \A i \in Ids : state[i] = "Running" => i = run

\* Between the resume and the yield the trampoline works on the very task the
\* driver popped, on its stack, and TSS.rsp0 holds that stack's top.
TrampolineRunsPickedTask ==
  pc \in TaskPcs \ {"tramp"} => me = run /\ sp = stack[run] /\ rsp0 = sp

\* The run-time assertions of the switch path never fire, whatever tick comes
\* when: current_task() finds a task, unregister_task finds its bit set, and
\* frame_ok fails only for a task that overflowed its stack.
AssertionsHold ==
  /\ cause \notin {"unregistered slot", "never registered"}
  /\ cause = "frame" => run # 0 /\ ~canary[run]

\* Once the panic handler has lowered the fence, or the canary check halted,
\* no tick changes a frame: a post-mortem snapshot reads what was there.
DeadKernelKeepsFrames ==
  [][(pc \in {"panic_cli", "halt"}) => UNCHANGED <<frames, switches>>]_vars

\* Every step is charged once, to the task the driver picked: runs[i] grows by
\* one, in a step of the Running task, which stops Running by it.
StepsChargedOnce ==
  [][\A i \in Ids : runs'[i] # runs[i] =>
       /\ runs'[i] = runs[i] + 1 /\ i = run
       /\ state[i] = "Running" /\ state'[i] # "Running"]_vars

\* Every task that waits in the queue, asleep or not, gets to run, unless the
\* kernel stops: schedule_once starves nobody.
EveryTaskRuns ==
  \A i \in Ids : state[i] \in {"Ready", "Sleeping"} ~> (state[i] = "Running" \/ pc = "halt")

-----------------------------------------------------------------------------
(***************************************************************************)
(* The inductive invariant.  The properties above say nothing of the       *)
(* half-done states of a spawn, a switch or a retirement; these conjuncts  *)
(* say, for each step of them, which of the five facts about a slot        *)
(* (occupancy bit, frame, bounds, pointer, owner) are already, or still,   *)
(* in place.                                                               *)
(***************************************************************************)
Spawning == {"set_bit", "set_bounds", "spawn"}
Retiring == {"clear_ptr", "wipe", "clear_bit", "drop"}

\* The CPU executes on the stack of the task the driver holds.
OnTaskStack == pc \in TaskPcs \/ cause = "step"

\* Where the CPU is, which task it serves, and when the fence may be up.
ControlInv ==
  /\ cause = "none" <=> pc \notin PanicPcs
  /\ pc \in {"driver", "pick"} => run = 0
  /\ pc \notin {"driver", "pick"} \cup PanicPcs => run \in Ids /\ Live(run)
  /\ pc \in BootPcs => sp = Boot
  /\ OnTaskStack => /\ run \in Ids /\ Live(run) /\ sp = stack[run]
                    /\ current = slot[run]
  /\ pc \in TaskPcs => schedCtx = Boot /\ rsp0 = stack[run]
  /\ pc \in TaskPcs \ {"tramp"} => me = run
  /\ pc \in {"set_rsp0", "cli", "switch_in"} => current = slot[run]
  /\ pc \in {"cli", "switch_in"} => rsp0 = stack[run]
  /\ fence => pc \in {"step", "fence_down"} \/ (pc = "panic" /\ cause = "step")

\* The life of a task: which state the held task is in at each step.
LifeInv ==
  /\ \A i \in Ids : state[i] = "Unborn" <=> i >= nextId
  /\ \A i \in Ids : state[i] \in {"Running", "Finished"} => i = run
  /\ pc \in Spawning => state[run] \in {"Ready", "Sleeping"}
  /\ pc \in {"publish", "set_rsp0", "cli", "switch_in", "tramp", "fence_up", "step"} =>
       state[run] = "Running"
  /\ pc \in {"fence_down", "task_cli", "switch_out", "unpublish", "sti", "validate"} =>
       state[run] \in {"Ready", "Finished"}
  /\ pc \in Retiring => state[run] = "Finished"

\* What a live task owns, up to the part of a spawn not yet done and the part
\* of a retirement already done.
OwnInv ==
  \A i \in Ids : Live(i) =>
    /\ slot[i] \in Slots /\ stack[i] \in Windows /\ ctx[i] = stack[i]
    /\ slot[i] \in used \/ (i = run /\ pc \in {"set_bit", "drop"})
    /\ frames[slot[i]] \in {stack[i], Below} \/ (i = run /\ pc \in {"clear_bit", "drop"})
    /\ frames[slot[i]] = Below => ~canary[i]
    /\ bounds[slot[i]] = stack[i] \/ (i = run /\ pc \in {"set_bit", "set_bounds"})
    /\ ptrs[slot[i]] = i
         \/ (i = run /\ pc \in Spawning \cup (Retiring \ {"clear_ptr"}))

\* What a retirement has already undone.
RetireInv ==
  /\ pc \in Retiring \ {"clear_ptr"} => ptrs[slot[run]] = 0
  /\ pc \in {"clear_bit", "drop"} => frames[slot[run]] = None

IInv ==
  /\ TypeOK /\ ControlInv /\ LifeInv /\ OwnInv /\ RetireInv
  /\ NoDanglingPointer /\ FramesNameLiveStacks /\ SlotsAndStacksExclusive
  /\ QueueHoldsEveryTask /\ AssertionsHold
=============================================================================
