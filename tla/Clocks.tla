-------------------------------- MODULE Clocks --------------------------------
(***************************************************************************)
(* The two tick sources and the interrupt path of the one CPU: the PIT     *)
(* behind the 8259 (interrupts.rs, the handlers of idt.rs), the LAPIC      *)
(* timer behind the preempt stub (preempt.rs), hardware noise, and the     *)
(* PICS spinlock, which is not interrupt-safe.  Either clock may die at    *)
(* any time.                                                               *)
(*                                                                         *)
(* TIMER_TICKS and APIC_TICKS are only ever compared with an earlier       *)
(* reading (or with 0, at boot), so the model keeps for each such reading  *)
(* the ticks since it was taken, saturated where the code stops telling    *)
(* values apart: no bound on the ticks of a behaviour is needed.           *)
(***************************************************************************)
EXTENDS Integers

CONSTANTS
  Gate,        \* SOAK_TICKS_EACH (100 in the code)
  CalibTicks,  \* CALIB_PIT_TICKS (10)
  NapTicks     \* ticks the napper asks to sleep (20, main.rs:327)

ASSUME TicksAssumption ==
  Gate \in Nat \ {0} /\ CalibTicks \in Nat \ {0} /\ NapTicks \in Nat \ {0}

VARIABLES
  iflag,      \* the CPU's interrupt flag
  asleep,     \* the CPU waits in hlt
  serving,    \* the PIC line whose handler runs ({}: no handler)
  lock,       \* PICS is held by main
  masks,      \* the lines masked at the PICs
  irr,        \* lines pending at the PICs
  isr,        \* lines in service at the master PIC
  window,     \* LAPIC_VIRT and EOI_BASE are published
  lvt,        \* the LVT timer entry: "masked" or "periodic"
  tirr, tisr, \* the LAPIC timer vector is pending, in service
  pit, lapic, \* the clock still runs
  fence,      \* PREEMPTIBLE
  yanked,     \* PREEMPT_SWITCHES moved since the driver read it
  pitSince,   \* TIMER_TICKS since boot and since a calibration window began
  apicSince   \* APIC_TICKS since boot and since each saved reading

clocks == <<iflag, asleep, serving, lock, masks, irr, isr, window, lvt, tirr, tisr,
            pit, lapic, fence, yanked, pitSince, apicSince>>

\* The timer, and the keyboard for the lines that nobody unmasks (a line of the
\* slave PIC only arrives through the cascade, which is one of them).
Lines == {0, 1}

\* Where the code stops telling counts apart.
PitHorizon == [boot |-> 2 * Gate, window |-> CalibTicks]
ApicHorizon == [boot |-> Gate, watch |-> Gate, nap |-> NapTicks, driver |-> 1, step |-> 1]

Least(m, n) == IF m < n THEN m ELSE n
Bump(since, horizon) == [r \in DOMAIN since |-> Least(since[r] + 1, horizon[r])]

\* The firmware's state at the kernel's entry; no saved reading is live.
ClocksInit ==
  /\ iflag = FALSE /\ asleep = FALSE /\ serving = {} /\ lock = FALSE
  /\ masks = {} /\ irr = {} /\ isr = {}
  /\ window = FALSE /\ lvt = "masked" /\ tirr = FALSE /\ tisr = FALSE
  /\ pit = TRUE /\ lapic = TRUE /\ fence = FALSE /\ yanked = FALSE
  /\ pitSince = [PitHorizon EXCEPT !.boot = 0]
  /\ apicSince = [ApicHorizon EXCEPT !.boot = 0]

-----------------------------------------------------------------------------
(* Hardware.  A second edge on a pending line is lost.                      *)

PitFires ==
  /\ pit /\ irr' = irr \cup {0}
  /\ UNCHANGED <<iflag, asleep, serving, lock, masks, isr, window, lvt, tirr, tisr, pit,
                 lapic, fence, yanked, pitSince, apicSince>>

LapicFires ==
  /\ lapic /\ lvt = "periodic" /\ tirr' = TRUE
  /\ UNCHANGED <<iflag, asleep, serving, lock, masks, irr, isr, window, lvt, tisr, pit,
                 lapic, fence, yanked, pitSince, apicSince>>

\* A key.
OtherLine ==
  /\ irr' = irr \cup {1}
  /\ UNCHANGED <<iflag, asleep, serving, lock, masks, isr, window, lvt, tirr, tisr, pit,
                 lapic, fence, yanked, pitSince, apicSince>>

ClockDies ==
  /\ \/ pit /\ pit' = FALSE /\ UNCHANGED lapic
     \/ lapic /\ lapic' = FALSE /\ UNCHANGED pit
  /\ UNCHANGED <<iflag, asleep, serving, lock, masks, irr, isr, window, lvt, tirr, tisr,
                 fence, yanked, pitSince, apicSince>>

-----------------------------------------------------------------------------
(* Handlers.  Every gate is an interrupt gate: IF = 0 until iretq.          *)

Interruptible == iflag /\ serving = {}

\* The handler of a line begins: timer_handler counts, the others only drain or
\* count what nobody reads.  The 8259 holds back a line while one of its own or
\* a higher priority is in service.
IrqEntry(l) ==
  /\ Interruptible /\ l \in irr \ masks /\ \A k \in isr : l < k
  /\ irr' = irr \ {l} /\ isr' = isr \cup {l} /\ serving' = {l}
  /\ iflag' = FALSE /\ asleep' = FALSE
  /\ pitSince' = IF l = 0 THEN Bump(pitSince, PitHorizon) ELSE pitSince
  /\ UNCHANGED <<lock, masks, window, lvt, tirr, tisr, pit, lapic, fence, yanked,
                 apicSince>>

\* Mutant: the handler returns without its EOI.
IrqExitNoEoi ==
  /\ serving # {} /\ ~lock
  /\ serving' = {} /\ iflag' = TRUE
  /\ UNCHANGED <<asleep, lock, masks, irr, isr, window, lvt, tirr, tisr, pit, lapic,
                 fence, yanked, pitSince, apicSince>>

\* PICS.lock() spins until the lock is free; then a non-specific EOI to the
\* master (whatever the handler, no slave line is ever in service) and iretq.
IrqExit ==
  /\ serving # {} /\ ~lock
  /\ isr' = {k \in isr : \E j \in isr : j < k}
  /\ serving' = {} /\ iflag' = TRUE
  /\ UNCHANGED <<asleep, lock, masks, irr, window, lvt, tirr, tisr, pit, lapic, fence,
                 yanked, pitSince, apicSince>>

\* The whole stub at once (IF = 0, no lock): count the tick and, with the fence
\* up, the yank (TaskSwitch shows that the slot is then a task's); EOI unless the
\* window is unpublished; iretq.
lapic_preempt_stub ==
  /\ Interruptible /\ tirr /\ ~tisr
  /\ tirr' = FALSE /\ tisr' = ~window /\ asleep' = FALSE
  /\ apicSince' = Bump(apicSince, ApicHorizon)
  /\ yanked' = (yanked \/ fence)
  /\ UNCHANGED <<iflag, serving, lock, masks, irr, isr, window, lvt, pit, lapic, fence,
                 pitSince>>

\* apic::eoi acknowledges whatever the LAPIC has in service, once it is mapped.
eoi == tisr' = (tisr /\ ~window)

\* Vector 0xFF.
spurious_handler ==
  /\ Interruptible /\ asleep' = FALSE /\ eoi
  /\ UNCHANGED <<iflag, serving, lock, masks, irr, isr, window, lvt, tirr, pit, lapic,
                 fence, yanked, pitSince, apicSince>>

\* The phantom IRQ7, which the PIC does not hold in service: no EOI.
spurious_pic_master_handler ==
  /\ Interruptible /\ asleep' = FALSE
  /\ UNCHANGED <<iflag, serving, lock, masks, irr, isr, window, lvt, tirr, tisr, pit,
                 lapic, fence, yanked, pitSince, apicSince>>

Hardware == PitFires \/ LapicFires \/ OtherLine \/ ClockDies
Handlers == (\E l \in Lines : IrqEntry(l)) \/ IrqExit \/ lapic_preempt_stub
            \/ spurious_handler \/ spurious_pic_master_handler
=============================================================================
