# RustyCore in TLA+

A verification development of the RustyCore kernel (`src/kernel/src`): TLA+
models of the parts whose correctness depends on interleavings, ordering or
long call sequences, TLC runs that check them on small instances, and TLAPS
proofs of the core's safety properties for every value of the constants.

## The system

RustyCore is a single-CPU x86_64 kernel. `main.rs` brings up descriptor
tables, memory, the local APIC and its timer, and then drives a few kernel
tasks. Its parts, and what this project does with them:

| part | source | module | status |
|------|--------|--------|--------|
| task switch path, task stacks | `task.rs` | `TaskSwitch` | modelled, proved |
| preempt stub and slot table | `preempt.rs` | `TaskSwitch` | modelled, proved |
| round-robin policy | `task.rs` | `TaskSwitch`, `RoundRobin` | modelled, proved, refines |
| panic handler | `main.rs` | `TaskSwitch` | modelled, proved |
| CFS policy | `task.rs` | `Cfs` | modelled |
| buddy and bump frame allocators | `memory/` | `BuddyAllocator`, `FramePool` | modelled, refines |
| memory init, heap and MMIO mapping | `memory.rs`, `heap.rs` | `MemoryInit` | as clients of the allocator |
| clocks, PIC handlers, PICS lock | `idt.rs`, `interrupts.rs`, `timer.rs` | `Clocks` | modelled, proved |
| clock bring-up: calibrate, soak, promote, rollback | `apic.rs`, `main.rs` | `BringUp` | modelled, proved |
| demo driver, its guards and verdicts | `main.rs` | `Demo`, `KernelMain` | modelled, proved |
| frame layout, bootstrap frame, naked switch and stub | `preempt.rs`, `task.rs` | `StubFrame` | modelled |
| syscall stub and its self-test | `syscall.rs` | `BringUp` | modelled |
| GDT set-up, serial, build script, xtask | | | not modelled |

Interaction: the driver (boot stack) spawns tasks and calls `schedule_once`;
that publishes a slot, switches to the task's stack, where the trampoline runs
one step and switches back. The LAPIC timer interrupts any of this while
IF = 1; its stub reads the fence (`PREEMPTIBLE`), the index (`CURRENT_IDX`) and
the occupancy bitmap (`SLOT_USED`) and, if all agree, writes the interrupted
frame into the table. Task stacks come from a heap whose pages come from the
frame allocator. Before any of this, bring-up measures the LAPIC timer against
the PIT, lets both run side by side, and hands the master role from the PIT to
the LAPIC; the PIC handlers and the hand-over share the `PICS` spinlock.

## Modules

**TaskSwitch** is the core. One step of the model is the code between two
writes the stub could tell apart; `pc` names the next one. `iflag`, `sp`,
`fence`, `current`, `used`, `frames`, `bounds`, `ptrs`, `rsp0`, `schedCtx` are
the CPU's and the statics' state; `ready`, `left`, `run` belong to
`RoundRobin::schedule_once`, `me` to the trampoline; `state`, `slot`, `stack`,
`ctx`, `runs`, `canary`, `until` are the fields of a `Task`. Registers are
abstracted to the stack that rsp points into. Actions carry the names of the
functions they model (`spawn`, `schedule_once`, `set_current`, `set_rsp0`,
`current_task`, `set_preemptible`, `clear_task_ptr`, `unregister_task`,
`lapic_preempt_stub`); the instructions of `switch_to_task` and of
`task_trampoline_body` are actions of their own, because a tick may fall
between any two of them. A step may return, overflow its stack or panic. Addresses
and register contents are StubFrame's.

**RoundRobin** is the abstract policy: a line, a turn, one step per turn.
**TaskSwitchRefines** maps the switch path to it. The interesting part of the
mapping is `Line`: inside a pass the skipped sleepers, already pushed back,
still count as standing in front.

**Cfs** is the other policy behind the `Scheduler` trait. A turn is pick, step
and accounting; the switch in between is the one TaskSwitch models. The driver
is main's: all spawns come before the first `schedule_once`. `Quantum` stands
for `CFS_BASE_SLICE * 1024`, `VMax` for `u64::MAX`. **CfsRefines** maps it to
RoundRobin for equal weights.

**BuddyAllocator** holds the operations of both frame allocators: the cursor
(`bump_one`), `activate`, `take_block`, merge on free. **MemoryInit** composes
them with their clients: `map_heap`, page tables, `activate`, the reclaim
self-test, the LAPIC window, then arbitrary use. **FramePool** is the promise
of a frame allocator, which MemoryInit implements. Free lists are sequences
with the code's `pop` and `swap_remove`. Address overflow is left out: physical
addresses have at most 52 bits. Memory maps are in address order and do not
overlap, as the bootloader delivers them.

**Clocks** is the hardware and the handlers below everything else: the PIT behind
the 8259 with its pending, in-service and mask registers, the LAPIC timer behind
the stub, a keyboard line, spurious vectors, and the PICS lock. A line's handler
is two steps, entry (count) and exit (take PICS, EOI, iretq), because the lock
lies between them. Either clock may die at any time. The code compares
`TIMER_TICKS` and `APIC_TICKS` only with 0 or with an earlier reading of its own,
so `pitSince` and `apicSince` hold the ticks since each reading, saturated where
the code stops telling values apart: ticks need no bound.

**BringUp** is `kernel_main` up to the demo. One action is one call with IF = 0
or, from the first `sti` on, the code between two reads or writes a handler
could disturb; the two reads of the soak and of the promotion check are separate
steps, as are locking, writing and unlocking in `promote` and `rollback_to_pit`.
An `Err` that main `expect`s is a panic. The calibration measurements are
arbitrary members of `Deltas`.

**Demo** goes on from there: proof block, spawns, the tick-paced driver with its
look at `APIC_TICKS` and its `hlt` as two steps, `schedule_once` under either
policy, the unguarded witness spin of a first step, the counters and the four
verdicts. A turn of the scheduler is one pick, one step and one return here;
TaskSwitch, RoundRobin and Cfs say what happens inside. **KernelMain** composes
Clocks, BringUp and Demo into the whole boot.

**StubFrame** is what TaskSwitch abstracts: all fifteen registers, rip, cs,
rflags, rsp, and the words on every stack, through `TaskStack::new`,
`init_task_context`, `context_switch`, the trampoline, and the stub's spill,
stash, restore and `iretq`, at the code's offsets. A word is a triple (owner,
what, generation), so a register restored from the wrong slot, order or stack is
a different word. What the CPU pushes on an interrupt is hardware; both readings
are checked: the three words of the code's comments, and the aligned five words
of 64-bit mode. A popped word is dead, as the kernel is built without a red
zone.

Definitions under a comment "Mutant" are deliberately wrong variants of the
definition that follows; they are used only to show that each property can fail.

## Runs

| run | what it shows |
|-----|----------------|
| `switch_path` | two slots, three stacks, three tasks (so slots and stacks are reused), two ticks, two steps each: all safety properties of the switch path; 2.7 million states |
| `switch_liveness` | every queued task runs or the kernel halts |
| `policy_refinement` | the switch path implements RoundRobin, with three tasks of which any may sleep |
| `cfs` | bounded lag, heavier tasks not behind, no starvation; tasks may run for ever, accounts saturate at a small `VMax` |
| `cfs_equal_weights` | CFS with equal weights implements RoundRobin |
| `memory` | 96 memory maps, both allocators: one owner per frame, no frame lost, exact ledger, honest self-test, merging heals |
| `bring_up` | bring-up with both clocks, noise and clock deaths at any step: nobody spins on PICS, every interrupt is acknowledged, promotion only for proven clocks, some clock is always left, the rate is the median's, every wait ends, a rollback revives the PIT |
| `kernel_main` | the whole boot under either policy: no verdict is a false alarm, gamma finishes first under CFS, the demo comes online unless the LAPIC dies |
| `stub_frame` | two tasks and the driver, stacks off alignment or not, both readings of the push: no assertion fires, all registers, stack pointers and locals survive switches and interrupts, frames belong to their tasks |
| `cfs_two_nappers`, `dead_ticks`, `stash_rsp` | disagreements between a comment and the code, below |

Bounds. The hazards of the switch path need a task that retires while another
lives and a third that reuses its slot and stack, a tick before and one after
any given step, and a task that is requeued once: three tasks, two ticks, two
steps. Windows are symmetric. In `cfs` one tick is enough, because a nap may
be arbitrarily long in steps; `VMax = 9` lets accounts saturate within a few
steps and `MaxRuns` only caps the ledger. The memory maps put region bounds on
and off the frame grid, the zero page inside and outside a region, an empty
region, two that touch, and a block of the highest order.

Fairness. `WF(Cpu)` and `WF(Driver)`: the CPU executes, steps return (a step
that does not return is outside the contract of a cooperative step), and main
calls `schedule_once` as long as a task is alive. `SF(lapic_preempt_stub)`: the
LAPIC keeps a tick pending while IF = 0, so a tick that can be delivered again
and again is delivered. In TaskSwitch the driver need not wait for a tick
between calls; main does, and KernelMain has that wait. There a clock that has
not died keeps firing (WF), a deliverable interrupt is delivered (SF on the
timer's line and on the stub), and main still gets on between interrupts (SF): a
handler is far shorter than the 10 ms between two ticks. Nothing forces a clock
to die or noise to come.

## Where comments and code disagree

- `cfs_two_nappers`: `min_vruntime` includes parked sleepers, so with two
  sleepers the clamp of `task.rs:1027` does not bound a nap's credit. The demo
  has one sleeper, for which `LagBounded` holds.
- `dead_ticks`: `main.rs:352` promises that a guard trips if ticks die during the
  demo. The counter it means is behind the wait for a fresh tick, so with dead
  ticks the driver sleeps in `hlt` for ever (or a first step spins for ever at
  `main.rs:306`). After a rollback this needs no further fault: `main.rs:227`
  prints "Halting.", and the `break` after it leads on to the demo.
- `stash_rsp`: the stub stashes `rsp + 0x90` as the interrupted stack pointer,
  which is right if the CPU pushes three words. In 64-bit mode it aligns rsp and
  pushes five, so the stashed address is that of the pushed rsp. Harmless today,
  since `iretq` reloads the real one and nothing reads the stashed one except
  `valid_for`; it matters for the cross-task resume planned in
  `docs/preemption.md`. The layout table there also swaps rip and rflags.

Three smaller ones are not runs. `unregister_task` leaves `SLOT_BOUNDS` behind,
although `preempt.rs:243` says a free slot has `(0, 0)`; `FramesNameLiveStacks`
shows why that is harmless, the frame is wiped. `switch_to_task` publishes the
index and rsp0 before its `cli`, although `gdt.rs:51` says IF = 0; the proofs
never use the interrupt flag there, the fence alone protects the table. A panic
inside a step reaches the handler with IF = 1, although `main.rs:474` says IF is
off; until the fence write a tick may still be stashed, afterwards none is
(`DeadKernelKeepsFrames`).

## Proofs

`TaskSwitchProofs` proves, for any number of slots, stacks, tasks, ticks and
steps, every safety property of the `switch_path` run. The assumptions are the
three ASSUMEs of TaskSwitch: `MaxTasks`, `MaxId`, `MaxTick`, `MaxRuns` are
naturals, and the boot stack, the zero frame and the out-of-window marker are
distinct and not stack windows.

The properties are not inductive: they do not say what is true half-way
through a spawn, a switch or a retirement. `IInv` adds `ControlInv` (where the
CPU is, which task it serves, and that the fence is up only while the step runs
or a step's panic prints), `LifeInv` (the held task's state at each step),
`OwnInv` (which of bit, frame, bounds and pointer a live task has, up to the
part of a spawn not yet done and of a retirement already done) and `RetireInv`
(what a retirement has already undone). There is one lemma per phase, with one
case per action; frame lemmas (`QueueKept`, `OwnKept`, ...) carry the conjuncts
an action cannot disturb, and `Enqueued`, `Rotated`, `Dequeued` hold the
reasoning about the ready queue. `Invariance` combines them; the properties
follow from it, the two action properties with one more case split.

`TaskSwitchRefinesProofs` proves, from the same assumptions, that the switch path
implements RoundRobin (`ImplementsRoundRobin`). `IInv` does not mention the pass
of `schedule_once`; `PassInv` adds that what a pass has pushed back is asleep,
that outside a pass none is under way, and that a task which has not run has no
step on its account. `Turned(s, k)` is a queue with its last entries put back in
front, which is what `Line` undoes inside a pass; `TurnedWhole`, `TurnedSkip` and
`TurnedPick` say what beginning a pass, skipping a sleeper and picking do to it.
`StepKinds` separates the steps that the policy cannot see, `PolicyStep` maps the
others to `Join`, `Grant`, `Step` and `EndTurn`, one case per action.

`CfsProofs` proves the safety properties of the `cfs` run for every quantum,
every set of weights `with_weight` accepts, every saturation point and any
number of tasks. None is inductive. `LagInv` strengthens `LagBounded` by the
running task: nobody who waits is behind it, because it was the smallest when it
was picked, and none is ahead by more than a step. `AccountInv` says what an
account is: the saturated price of the steps its task was charged for.
`HeavierRunsMore` follows by comparing two prices (`CheaperStepsAreMore`).
`QueueInv` and `TaskInv` say who is queued and what a task carries before its
spawn. The clamp of a woken sleeper is `ClampedFacts`. `LagBounded` and
`NeverAheadByANap` are proved for at most one sleeper, which is what main spawns;
with two TLC refutes both (the `cfs_two_nappers` run is about the second).

`CfsRefinesProofs` proves that Cfs with equal weights and nobody asleep
implements RoundRobin (`EqualWeightsAreRoundRobin`). Beside `IInv` it needs that
the queue stays sorted by vruntime: then the scan stops at the head
(`HeadIsPicked`), and a charged task goes to the end with an account nobody
exceeds, saturated or not (`SortedStep`). The ledger `runs` stops counting at
`MaxRuns`, and RoundRobin's does not; so the theorem is about behaviours in
which no task has used up the ledger (`LedgerExact`, the constraint of the
`cfs_equal_weights` run), for every `MaxRuns`.

`QueueTheorems` holds what the proofs about either policy and the demo share:
what pushing to a queue, popping its head and removing from its middle do to its
members, their number and their order, and that a non-empty set of naturals has a
smallest member, which the `CHOOSE` of `min_vruntime` needs.

`BringUpProofs` proves the safety properties of the `bring_up` run, for every
gate, guard, nap and set of measurements. The assumptions are
`TicksAssumption` (tick constants are positive naturals) and
`BringUpAssumption` (guards are naturals, measurements fit in a u32). Here too
the properties are not inductive. `IInv` adds `Exclusion` (PICS is held at
exactly four steps, all with IF = 0 and no handler running; a handler runs only
with IF = 0 and for an unmasked line), `Published` (interrupts come on only once
the LAPIC window is mapped, so every EOI reaches its controller) and `Stages`:
at each step which of rate, LVT entry and quantum are in place (`Programmed`),
from the promotion check on that both counts are past the gate, which stays true
because counts only grow (`Proven`), and where the PIT is masked.
`StepIInv` has one case per action. For the rate, `DivMonotone`,
`CalibrateMonotone` and `MedianBetween` are lemmas about the operators;
`RateInv` says that no rate is stored before the third window. The bounds of
`BootTypeOK` are `Counts` and `Flags`: where a spin counter is still below its
guard, how often the syscall gate was hit, and that a window is measured only
while fewer than three are stored.

`DemoProofs` proves the safety properties of the `kernel_main` run, over the
whole of `KernelMain` and for both policies: `DemoTypeSafe`, `NeverAFalseAlarm`
and, for `FairRuns >= 2`, `GammaIsFirst` (with one step each
the claim is false: whoever is first in the queue finishes first). The added
assumption is `DemoAssumption`: the runaway guard is at least the steps of all
four tasks and at least the nap, as 100 is for 16 and 20. `IInv` consists of
`Queue` (everybody is queued once, is the running task, or has done its share),
`Ledger` (a schedule is a step, so the runaway guard bounds the shares),
`Naps` (a pass that finds only the napper, asleep, had a tick of the nap to
itself, so passes never outnumber the nap's ticks) and `Yanks` (the fence is up
from before a worker's first reading of APIC_TICKS until its step ends, so the
tick it waits for is a yank). For gamma, `Weights` says that a vruntime is steps
times slice; while gamma is not done it stands in the queue, awake, so alpha or
beta is picked only with at most half of gamma's steps. For the types,
`Accounts` bounds a worker's vruntime by the price of its steps and the napper's by
the account of a worker that still has a step to go, which is what the clamp
raises it to; `Bounds` says that the loop is left as soon as a counter passes its
guard.

What stays with TLC: everything that is to happen eventually (`EveryTaskRuns`,
`BringUpEnds`, `RollbackRevivesPit`, `DemoFinishes`), because TLAPS
does neither fairness nor ENABLED; the frame allocators and their
refinement of FramePool, whose split and merge recurse over data, since TLAPS
can neither use RECURSIVE operators nor do induction over data; and `StubFrame`,
which has no proofs yet.

## Not modelled

- Serial output: polled port writes, no state and no lock.
- GDT and TSS set-up: static tables, loaded once; `set_rsp0` is in TaskSwitch.
- The exception handlers of `idt.rs` only panic, and no modelled code faults. The
  LVT error entry is never unmasked and a slave line cannot get past the masked
  cascade, so `apic_error_handler` and `spurious_pic_slave_handler` never run.
- `memory::usable_summary`, the heap self-test and the const parser of
  `memory.rs`: sums, prints and compile-time parsing of configuration strings.
- The canonical-address test of `valid_for`: the window test before it implies
  it for a window of canonical addresses.
- The build script and xtask are host tools; the heap allocator, `pic8259` and the
  page-table mapper are external crates, present by what the kernel uses of them.
