------------------------------- MODULE StubFrame -------------------------------
(***************************************************************************)
(* The register and stack traffic under TaskSwitch: the bootstrap frame    *)
(* and the naked context_switch of task.rs, the spill, stash, restore and  *)
(* iretq of the preempt stub of preempt.rs, at the byte offsets of the     *)
(* code.  A word is a triple <<owner, what, generation>>, so that a word   *)
(* in the wrong register, slot or stack is told from the right one.        *)
(*                                                                         *)
(* What the CPU pushes is not in the source; the model has both readings:  *)
(* "short" is that of the code's comments (rip, cs, rflags), "long" that   *)
(* of 64-bit mode (rsp aligned to 16, then ss, rsp, rflags, cs, rip).      *)
(***************************************************************************)
EXTENDS Integers, Sequences

CONSTANTS
  MAX_TASKS,   \* (7 in the code)
  StackSize,   \* STACK_SIZE_BYTES
  RawOffsets,  \* how far off alignment the heap may return a stack
  Pushed       \* the readings of the CPU's push to consider

\* A stack holds its canary, a call, a local, an interrupt and the stub's spill.
ASSUME StubFrameAssumption ==
  /\ MAX_TASKS \in Nat \ {0}
  /\ StackSize % 16 = 0 /\ StackSize >= 208 /\ RawOffsets \subseteq 0..15
  /\ Pushed \subseteq {"short", "long"}

VARIABLES
  cpu,     \* whose code runs: a slot, or Boot
  at,      \* "code", a stage of the stub or of a switch, or "panic"
  rsp,     \* the stack pointer
  regs,    \* the 15 general registers, rip, cs and rflags
  mem,     \* the stacks
  table,   \* TASK_FRAMES, flat
  stack,   \* per slot its window; <<>> before the spawn and after the task's end
  ctx,     \* the saved Context.rsp of each task; ctx[Boot] is SCHED_CTX
  cur,     \* CURRENT_IDX (Boot: MAX_TASKS, nobody)
  fence,   \* PREEMPTIBLE
  own,     \* per owner: where its code left rsp, its locals there, its generation,
           \* and whether its step is done
  reading  \* which words this CPU pushes

vars == <<cpu, at, rsp, regs, mem, table, stack, ctx, cur, fence, own, reading>>

Slots == 0..MAX_TASKS - 1
Boot == MAX_TASKS
Owners == Slots \cup {Boot}

\* push r15 .. push rax; the fields of FullFrame.
SpillOrder == <<"r15", "r14", "r13", "r12", "r11", "r10", "r9", "r8", "rdi", "rsi", "rbp",
                "rbx", "rdx", "rcx", "rax">>
PopOrder == <<"rax", "rcx", "rdx", "rbx", "rbp", "rsi", "rdi", "r8", "r9", "r10", "r11",
              "r12", "r13", "r14", "r15">>
FullFrame == SpillOrder \o <<"rsp", "rip", "cs", "rflags", "magic">>
FRAME_STRIDE == 8 * Len(FullFrame)

\* What context_switch pushes and, in the reverse order, pops.
SavedOrder == <<"rbp", "rbx", "r12", "r13", "r14", "r15">>

\* Mutant: the pops are in the order of the pushes.
PopsAsPushed == SavedOrder

LoadOrder == <<"r15", "r14", "r13", "r12", "rbx", "rbp">>

GPRs == {SpillOrder[n] : n \in DOMAIN SpillOrder}
CalleeSaved == {SavedOrder[n] : n \in DOMAIN SavedOrder}
Regs == GPRs \cup {"rip", "cs", "rflags"}

Zero == <<-1, "zero", 0>>
Magic == <<-1, "magic", 0>>
Canary == <<-1, "canary", 0>>
KernelCS == <<-1, "cs", 0>>
Trampoline == <<-1, "trampoline", 0>>
Address(a) == <<-1, "address", a>>

\* What register r holds while o's code runs; its return address; its locals.
Live(o) ==
  [r \in Regs |-> IF r = "cs" THEN KernelCS ELSE <<o, r, own[o].gen>>]
Caller(o) == <<o, "return", 0>>
Local(o) == <<o, "local", 0>>

\* Each owner's part of memory: a stack and the slack of its alignment.
Region(o) == (StackSize + 16) * o
Words == {8 * n : n \in 0..((StackSize + 16) * (Boot + 1)) \div 8}

-----------------------------------------------------------------------------
(* The stack.  Popped words are dead (the kernel has no red zone).          *)

Store(m, sp, words) ==
  [a \in DOMAIN m |-> IF a < sp /\ a >= sp - 8 * Len(words)
                      THEN words[(sp - a) \div 8] ELSE m[a]]
Drop(m, sp, n) == [a \in DOMAIN m |-> IF a >= sp /\ a < sp + 8 * n THEN Zero ELSE m[a]]
Load(m, sp, n) == m[sp + 8 * (n - 1)]

Nth(order, r) == CHOOSE n \in DOMAIN order : order[n] = r
Values(order) == [n \in DOMAIN order |-> regs[order[n]]]

Init ==
  /\ cpu = Boot /\ at = "code" /\ cur = Boot /\ fence = FALSE
  /\ rsp = Region(Boot) + StackSize
  /\ own = [o \in Owners |-> [sp |-> Region(o) + StackSize, depth |-> 0, gen |-> 0,
                           done |-> FALSE]]
  /\ regs = [r \in Regs |-> IF r = "cs" THEN KernelCS ELSE <<Boot, r, 0>>]
  /\ mem = [a \in Words |-> Zero]
  /\ table = [a \in {8 * n : n \in 0..(FRAME_STRIDE * Boot) \div 8 - 1} |-> Zero]
  /\ stack = [i \in Slots |-> <<>>] /\ ctx = [o \in Owners |-> 0]
  /\ reading \in Pushed

-----------------------------------------------------------------------------
(* spawn: TaskStack::new, init_task_context, FullFrame::fresh, register_task. *)

next_multiple_of(n, m) == ((n + m - 1) \div m) * m

\* Mutants: a pad of half a word; the old bootstrap frame without its pad.
HalfPad(top) ==
  [rsp |-> top - 60,
   words |-> <<Zero, Trampoline, Zero, Zero, Zero, Zero, Zero, Zero>>]

NoPad(top) == [rsp |-> top - 56, words |-> <<Trampoline, Zero, Zero, Zero, Zero, Zero, Zero>>]

\* From the top down: the pad, the fake return address, six zeroed registers.
init_task_context(top) ==
  [rsp |-> top - 64,
   words |-> <<Zero, Trampoline, Zero, Zero, Zero, Zero, Zero, Zero>>]

fresh(top) ==
  [n \in DOMAIN FullFrame |->
     CASE FullFrame[n] = "rsp" -> Address(top - 8)
       [] FullFrame[n] = "rip" -> Trampoline
       [] FullFrame[n] = "cs" -> KernelCS
       [] FullFrame[n] = "rflags" -> <<-1, "rflags", 0>>
       [] FullFrame[n] = "magic" -> Magic
       [] OTHER -> Zero]

ZERO == [n \in DOMAIN FullFrame |-> Zero]

\* A frame in its slot of the table.
Write(i, frame) ==
  [a \in DOMAIN table |->
     IF a >= i * FRAME_STRIDE /\ a < i * FRAME_STRIDE + 8 * Len(frame)
     THEN frame[(a - i * FRAME_STRIDE) \div 8 + 1] ELSE table[a]]

spawn(i, off) ==
  LET bottom == next_multiple_of(Region(i) + off, 16)
      top == bottom + StackSize
      boot == init_task_context(top)
  IN  /\ cpu = Boot /\ at = "code" /\ stack[i] = <<>>
      /\ at' = IF /\ top % 16 = 0 /\ top <= Region(i) + off + StackSize + 16
                  /\ boot.rsp % 16 = 0 /\ (boot.rsp + 56) % 16 = 8
               THEN "code" ELSE "panic"
      /\ stack' = [stack EXCEPT ![i] = <<bottom, top>>]
      /\ mem' = [Store(mem, top, boot.words) EXCEPT ![bottom] = Canary]
      /\ ctx' = [ctx EXCEPT ![i] = boot.rsp]
      /\ table' = Write(i, fresh(top))
      /\ UNCHANGED <<cpu, rsp, regs, cur, fence, own, reading>>

-----------------------------------------------------------------------------
(* context_switch, from both sides, with IF = 0.                            *)

\* push the return address and the saved registers, exchange rsp, pop, ret.
context_switch(old, new) ==
  LET m == Store(mem, rsp, <<Caller(old)>> \o Values(SavedOrder))
      sp == ctx[new]
      back == m[sp + 48]
  IN  /\ ctx' = [ctx EXCEPT ![old] = rsp - 56]
      /\ regs' = [r \in Regs |-> IF r \in CalleeSaved
                                 THEN Load(m, sp, Nth(LoadOrder, r)) ELSE regs[r]]
      /\ rsp' = sp + 56 /\ mem' = Drop(m, sp, 7) /\ cpu' = new
      /\ at' = IF back = Trampoline THEN "entry"
               ELSE IF back = Caller(new) THEN "resumed" ELSE "panic"

\* The driver's side; the fence is down.
switch_to_task(i) ==
  /\ cpu = Boot /\ at = "code" /\ stack[i] # <<>>
  /\ cur' = i /\ context_switch(Boot, i)
  /\ UNCHANGED <<table, stack, fence, own, reading>>

\* The trampoline: the entry parity is asserted, the canary is read; then the
\* body's own code runs, in registers of its own.
task_trampoline ==
  /\ cpu # Boot /\ at = "entry"
  /\ at' = IF rsp % 16 = 8 /\ mem[stack[cpu][1]] = Canary THEN "code" ELSE "panic"
  /\ own' = [own EXCEPT ![cpu] = [sp |-> rsp, depth |-> 0, gen |-> 0, done |-> FALSE]]
  /\ regs' = [r \in Regs |-> IF r = "cs" THEN KernelCS ELSE <<cpu, r, 0>>]
  /\ UNCHANGED <<cpu, rsp, mem, table, stack, ctx, cur, fence, reading>>

\* After a later switch in: the code reloads what a call may clobber; the loop
\* reads the canary again.
TaskResumes ==
  /\ cpu # Boot /\ at = "resumed"
  /\ at' = IF mem[stack[cpu][1]] = Canary THEN "code" ELSE "panic"
  /\ regs' = [r \in Regs |-> IF r \in CalleeSaved THEN regs[r] ELSE Live(cpu)[r]]
  /\ own' = [own EXCEPT ![cpu].done = FALSE]
  /\ UNCHANGED <<cpu, rsp, mem, table, stack, ctx, cur, fence, reading>>

\* The task's side.
Yield ==
  /\ cpu # Boot /\ at = "code" /\ own[cpu].done
  /\ context_switch(cpu, Boot)
  /\ UNCHANGED <<table, stack, cur, fence, own, reading>>

snapshot(i) == [n \in DOMAIN FullFrame |-> table[i * FRAME_STRIDE + 8 * (n - 1)]]

\* The driver is back on its stack: its two assertions on the frames, then the task
\* is queued again or retired, its slot wiped and its stack dropped.
valid_for(i) ==
  LET frame == snapshot(i)
      sp == frame[Nth(FullFrame, "rsp")][3]
  IN  /\ frame[Nth(FullFrame, "magic")] = Magic
      /\ sp >= stack[i][1] /\ sp <= stack[i][2]

DriverResumes(alive) ==
  /\ cpu = Boot /\ at = "resumed"
  /\ at' = IF valid_for(cur) THEN "code" ELSE "panic"
  /\ regs' = [r \in Regs |-> IF r \in CalleeSaved THEN regs[r] ELSE Live(Boot)[r]]
  /\ IF alive THEN UNCHANGED <<table, stack, mem, ctx, own>>
     ELSE /\ table' = Write(cur, ZERO)
          /\ stack' = [stack EXCEPT ![cur] = <<>>]
          /\ mem' = [a \in Words |-> IF a >= Region(cur) /\ a < Region(cur + 1) THEN Zero
                                     ELSE mem[a]]
          /\ ctx' = [ctx EXCEPT ![cur] = 0]
          /\ own' = [own EXCEPT ![cur] = [sp |-> Region(cur) + StackSize, depth |-> 0,
                                          gen |-> 0, done |-> FALSE]]
  /\ cur' = Boot
  /\ UNCHANGED <<cpu, rsp, fence, reading>>

-----------------------------------------------------------------------------
(* Whoever's code runs: it computes, moves its stack pointer; a task raises *)
(* and lowers the fence around its step.                                    *)

Compute ==
  /\ at = "code"
  /\ own' = [own EXCEPT ![cpu].gen = 1 - @]
  /\ regs' = [r \in Regs |-> IF r = "cs" THEN KernelCS ELSE <<cpu, r, 1 - own[cpu].gen>>]
  /\ UNCHANGED <<cpu, at, rsp, mem, table, stack, ctx, cur, fence, reading>>

\* Bound: the locals a stack holds at a time; one moves rsp off 16-byte alignment.
MaxLocals == 1

PushLocal ==
  /\ at = "code" /\ own[cpu].depth < MaxLocals
  /\ mem' = Store(mem, rsp, <<Local(cpu)>>) /\ rsp' = rsp - 8
  /\ own' = [own EXCEPT ![cpu].sp = rsp - 8, ![cpu].depth = @ + 1]
  /\ UNCHANGED <<cpu, at, regs, table, stack, ctx, cur, fence, reading>>

PopLocal ==
  /\ at = "code" /\ own[cpu].depth > 0
  /\ mem' = Drop(mem, rsp, 1) /\ rsp' = rsp + 8
  /\ own' = [own EXCEPT ![cpu].sp = rsp + 8, ![cpu].depth = @ - 1]
  /\ UNCHANGED <<cpu, at, regs, table, stack, ctx, cur, fence, reading>>

\* Up when the step begins, down when it is done.
set_preemptible ==
  /\ at = "code" /\ cpu # Boot
  /\ \/ ~fence /\ ~own[cpu].done /\ fence' = TRUE /\ UNCHANGED own
     \/ fence /\ fence' = FALSE /\ own' = [own EXCEPT ![cpu].done = TRUE]
  /\ UNCHANGED <<cpu, at, rsp, regs, mem, table, stack, ctx, cur, reading>>

-----------------------------------------------------------------------------
(* The interrupt and lapic_preempt_stub, with IF = 0.                       *)

\* What the CPU pushes, and where.
Interrupt ==
  LET long == reading = "long"
      base == IF long THEN rsp - (rsp % 16) ELSE rsp
      words == (IF long THEN <<Zero, Address(rsp)>> ELSE <<>>)
               \o <<regs["rflags"], regs["cs"], regs["rip"]>>
  IN  /\ at = "code" /\ at' = "irq"
      /\ mem' = Store(mem, base, words) /\ rsp' = base - 8 * Len(words)
      /\ regs' = [regs EXCEPT !["rip"] = Zero, !["rflags"] = Zero]
      /\ UNCHANGED <<cpu, table, stack, ctx, cur, fence, own, reading>>

Spill ==
  /\ at = "irq" /\ at' = "spilled"
  /\ mem' = Store(mem, rsp, Values(SpillOrder)) /\ rsp' = rsp - 8 * Len(SpillOrder)
  /\ UNCHANGED <<cpu, regs, table, stack, ctx, cur, fence, own, reading>>

\* Mutant: the spill is copied in its own order.
StashForward ==
  [n \in DOMAIN FullFrame |->
     CASE n <= 15 -> mem[rsp + 8 * (n - 1)]
       [] FullFrame[n] = "rsp" -> Address(rsp + 144)
       [] FullFrame[n] = "rip" -> mem[rsp + 120]
       [] FullFrame[n] = "cs" -> mem[rsp + 128]
       [] FullFrame[n] = "rflags" -> mem[rsp + 136]
       [] OTHER -> Magic]

\* [rsp + 0x70] is r15, [rsp] rax; the CPU's words follow at 0x78, 0x80 and 0x88,
\* and 0x90 is taken for the interrupted stack pointer.
Stashed ==
  [n \in DOMAIN FullFrame |->
     CASE n <= 15 -> mem[rsp + 112 - 8 * (n - 1)]
       [] FullFrame[n] = "rsp" -> Address(rsp + 144)
       [] FullFrame[n] = "rip" -> mem[rsp + 120]
       [] FullFrame[n] = "cs" -> mem[rsp + 128]
       [] FullFrame[n] = "rflags" -> mem[rsp + 136]
       [] OTHER -> Magic]

\* Fence up, an index in range, an occupied slot: stash; then EOI.  rax, rcx and
\* rdi are scratch.
Stash ==
  /\ at = "spilled" /\ at' = "stashed"
  /\ table' = IF fence /\ cur \in Slots /\ stack[cur] # <<>> THEN Write(cur, Stashed)
              ELSE table
  /\ regs' = [r \in Regs |-> IF r \in {"rax", "rcx", "rdi"} THEN Zero ELSE regs[r]]
  /\ UNCHANGED <<cpu, rsp, mem, stack, ctx, cur, fence, own, reading>>

Restore ==
  /\ at = "stashed" /\ at' = "iretq"
  /\ regs' = [r \in Regs |-> IF r \in GPRs THEN Load(mem, rsp, Nth(PopOrder, r)) ELSE regs[r]]
  /\ rsp' = rsp + 8 * Len(PopOrder) /\ mem' = Drop(mem, rsp, Len(PopOrder))
  /\ UNCHANGED <<cpu, table, stack, ctx, cur, fence, own, reading>>

iretq ==
  LET long == reading = "long"
  IN  /\ at = "iretq" /\ at' = "code"
      /\ regs' = [regs EXCEPT !["rip"] = Load(mem, rsp, 1), !["cs"] = Load(mem, rsp, 2),
                              !["rflags"] = Load(mem, rsp, 3)]
      /\ rsp' = IF long THEN Load(mem, rsp, 4)[3] ELSE rsp + 24
      /\ mem' = Drop(mem, rsp, IF long THEN 5 ELSE 3)
      /\ UNCHANGED <<cpu, table, stack, ctx, cur, fence, own, reading>>

Next ==
  \/ \E i \in Slots, off \in RawOffsets : spawn(i, off)
  \/ \E i \in Slots : switch_to_task(i)
  \/ task_trampoline \/ TaskResumes \/ Yield
  \/ \E alive \in BOOLEAN : DriverResumes(alive)
  \/ Compute \/ PushLocal \/ PopLocal \/ set_preemptible
  \/ Interrupt \/ Spill \/ Stash \/ Restore \/ iretq

Spec == Init /\ [][Next]_vars
-----------------------------------------------------------------------------
\* The type of every variable; rsp stays within the stack of whoever's code runs.
TypeOK ==
  /\ cpu \in Owners /\ cur \in Owners /\ fence \in BOOLEAN /\ reading \in Pushed
  /\ at \in {"code", "entry", "resumed", "irq", "spilled", "stashed", "iretq", "panic"}
  /\ rsp > Region(cpu) /\ rsp < Region(cpu + 1)
  /\ DOMAIN regs = Regs /\ DOMAIN mem = Words
  /\ \A i \in Slots : stack[i] # <<>> => ctx[i] \in Words

\* No assertion of the switch path fires and no switch returns to a word that is not
\* a return address: the bootstrap frame enters the trampoline at rsp % 16 = 8
\* (task.rs:296), canaries stay, every frame the stub wrote passes valid_for.
NoAssertFires == at # "panic"

\* Code that was interrupted, or that called context_switch, goes on as if nothing
\* had happened: its stack pointer, its registers (after a call those it may count
\* on) and its stack are what it left, on whichever stack the others ran meanwhile.
CodeUndisturbed ==
  /\ at = "code" => regs = Live(cpu)
  /\ at = "resumed" => \A r \in CalleeSaved : regs[r] = Live(cpu)[r]
  /\ at \in {"code", "resumed"} => rsp = own[cpu].sp
  /\ \A o \in Owners : own[o].depth = 1 => mem[own[o].sp] = Local(o)

\* Every word of a task's frame is a fresh one or was that task's, in the field that
\* FullFrame gives it: no frame is torn, shifted or written to a neighbour's slot.
FramesBelong ==
  \A i \in Slots, n \in DOMAIN FullFrame :
    LET word == snapshot(i)[n]
    IN  stack[i] # <<>> =>
          \/ word = fresh(stack[i][2])[n]
          \/ FullFrame[n] = "rsp" /\ word[2] = "address"
          \/ word[1] = i /\ word[2] = FullFrame[n]

\* docs/preemption.md:70, "frames stashed by the stub ... record the interrupted rsp
\* exactly as it was, alignment and all".
StashedRspIsInterrupted ==
  at = "stashed" /\ fence =>
    snapshot(cur)[Nth(FullFrame, "rsp")] = Address(own[cpu].sp)
=============================================================================
