-------------------------------- MODULE BringUp --------------------------------
(***************************************************************************)
(* kernel_main from its first instruction to the end of the promotion      *)
(* watch (main.rs), with interrupts::init, timer::init and the operations  *)
(* of apic.rs: probe, init, calibrate, start_periodic, promote and         *)
(* rollback_to_pit.  An Err that main expect()s is a panic.  What runs     *)
(* with IF = 0 before the first sti is one step per call.                  *)
(***************************************************************************)
EXTENDS Clocks, Sequences

CONSTANTS
  SpinGuard,  \* SPIN_GUARD (10 000 000 in the code)
  SoakGuard,  \* SOAK_SPIN_GUARD (100 000 000)
  Deltas,     \* what 0xFFFFFFFF - CCR may be after a calibration window
  U32Max      \* u32::MAX

ASSUME BringUpAssumption ==
  SpinGuard \in Nat /\ SoakGuard \in Nat /\ U32Max \in Nat /\ Deltas \subseteq 0..U32Max

VARIABLES
  pc,      \* where kernel_main is
  spins,   \* the spin counter of the current loop
  deltas,  \* the calibration windows measured so far
  rate,    \* TICKS_PER_10MS
  icr,     \* the LAPIC's initial count, as start_periodic left it (0: not yet)
  hits,    \* SYSCALL_HITS
  pic,     \* main's local copy of TIMER_TICKS in the soak and the promotion check
  why      \* the message kernel_main stops with

bring == <<spins, deltas, rate, icr, hits, pic>>

BringUpPcs == {"pics", "probe", "memory", "apic_init", "timer_init", "sti", "round",
               "spin", "ccr", "int3", "int80", "int80_again", "hits", "start", "icr",
               "soak", "soak_apic", "check", "check_apic", "promote", "p_lock", "p_write", "p_unlock",
               "watch_base", "watch", "rollback", "r_lock", "r_write", "r_unlock"}

BringUpInit ==
  /\ pc = "pics" /\ spins = 0 /\ deltas = <<>> /\ rate = 0 /\ icr = 0 /\ hits = 0 /\ pic = 0
  /\ why = "none"

\* Main executes only outside handlers and outside hlt.
Goto(a, b) == serving = {} /\ ~asleep /\ pc = a /\ pc' = b
Halt(a, message) == Goto(a, "halt") /\ why' = message

-----------------------------------------------------------------------------
(* Before the first sti (main.rs:34-73).                                    *)

\* interrupts::init: remap, which clears the PICs' state, and mask every line.
interrupts_init ==
  /\ Goto("pics", "probe")
  /\ masks' = Lines /\ irr' = {} /\ isr' = {}
  /\ UNCHANGED <<iflag, asleep, serving, lock, window, lvt, tirr, tisr, pit, lapic, fence,
                 yanked, pitSince, apicSince, bring, why>>

\* apic::probe and the assertion that a LAPIC is present; then memory::init, which
\* MemoryInit models and which may panic.
probe ==
  /\ \/ Goto("probe", "memory") \/ Goto("probe", "panic")
     \/ Goto("memory", "apic_init") \/ Goto("memory", "panic")
  /\ UNCHANGED <<clocks, bring, why>>

\* apic::init: window and EOI base published, LVT timer masked; or an Err (soft-
\* disabled APIC, or the window cannot be mapped).
apic_init ==
  /\ \/ Goto("apic_init", "timer_init") /\ window' = TRUE /\ lvt' = "masked"
     \/ Goto("apic_init", "panic") /\ UNCHANGED <<window, lvt>>
  /\ UNCHANGED <<iflag, asleep, serving, lock, masks, irr, isr, tirr, tisr, pit, lapic,
                 fence, yanked, pitSince, apicSince, bring, why>>

\* timer::init: unmask IRQ0 (the lock is taken and released with IF = 0).
timer_init ==
  /\ Goto("timer_init", IF iflag THEN "panic" ELSE "sti")
  /\ masks' = masks \ {0}
  /\ UNCHANGED <<iflag, asleep, serving, lock, irr, isr, window, lvt, tirr, tisr, pit,
                 lapic, fence, yanked, pitSince, apicSince, bring, why>>

Sti ==
  /\ Goto("sti", "round") /\ iflag' = TRUE
  /\ UNCHANGED <<asleep, serving, lock, masks, irr, isr, window, lvt, tirr, tisr, pit,
                 lapic, fence, yanked, pitSince, apicSince, bring, why>>

-----------------------------------------------------------------------------
(* apic::calibrate.                                                         *)

\* A window begins: ICR = 0xFFFFFFFF, then TIMER_TICKS is read.
CalibRound ==
  /\ window /\ Len(deltas) < 3
  /\ Goto("round", "spin")
  /\ pitSince' = [pitSince EXCEPT !.window = 0] /\ spins' = 0
  /\ UNCHANGED <<iflag, asleep, serving, lock, masks, irr, isr, window, lvt, tirr, tisr,
                 pit, lapic, fence, yanked, apicSince, deltas, rate, icr, hits, pic, why>>

\* Mutant: the busy-wait sleeps in hlt, past its own guard if the PIT is dead.
CalibHlt ==
  /\ \/ Goto("spin", "ccr") /\ pitSince.window >= CalibTicks /\ UNCHANGED <<asleep, spins>>
     \/ /\ pitSince.window < CalibTicks
        /\ Goto("spin", IF spins + 1 > SpinGuard THEN "panic" ELSE "spin")
        /\ spins' = spins + 1 /\ asleep' = TRUE
  /\ UNCHANGED <<iflag, serving, lock, masks, irr, isr, window, lvt, tirr, tisr, pit, lapic,
                 fence, yanked, pitSince, apicSince, deltas, rate, icr, hits, pic, why>>

\* Mutant: the busy-wait has no guard.
CalibUnguarded ==
  /\ \/ Goto("spin", "ccr") /\ pitSince.window >= CalibTicks /\ UNCHANGED spins
     \/ pitSince.window < CalibTicks /\ Goto("spin", "spin") /\ spins' = spins + 1
  /\ UNCHANGED <<clocks, deltas, rate, icr, hits, pic, why>>

\* One pass of the busy-wait for CALIB_PIT_TICKS.
CalibSpin ==
  /\ \/ Goto("spin", "ccr") /\ pitSince.window >= CalibTicks /\ UNCHANGED spins
     \/ /\ pitSince.window < CalibTicks
        /\ Goto("spin", IF spins + 1 > SpinGuard THEN "panic" ELSE "spin")
        /\ spins' = spins + 1
  /\ UNCHANGED <<clocks, deltas, rate, icr, hits, pic, why>>

\* The window ends: CCR is read; a zero delta is an Err.
CalibRead ==
  /\ \/ \E d \in Deltas \ {0} : Goto("ccr", "round") /\ deltas' = Append(deltas, d)
     \/ 0 \in Deltas /\ Goto("ccr", "panic") /\ UNCHANGED deltas
  /\ UNCHANGED <<clocks, spins, rate, icr, hits, pic, why>>

\* (u64 products of two u32 do not saturate; pit_hz is 100.)
calibrate_ticks(delta, pit_hz, pit_ticks) ==
  IF pit_hz = 0 \/ pit_ticks = 0 THEN 0 ELSE (delta * (pit_hz \div 100)) \div pit_ticks

Most(m, n) == IF m < n THEN n ELSE m

\* Mutant: max and min swapped in one place.
MaxOfThree(a, b, c) == Most(Least(a, b), Most(c, Most(a, b)))

\* a.min(b).max(c.min(a.max(b)))
median(a, b, c) == Most(Least(a, b), Least(c, Most(a, b)))

\* Three windows: store the rate of their median; a zero rate is an Err.
CalibStore ==
  /\ Len(deltas) = 3
  /\ LET r == calibrate_ticks(median(deltas[1], deltas[2], deltas[3]), 100, CalibTicks)
     IN  IF r = 0 THEN Goto("round", "panic") /\ UNCHANGED rate
         ELSE Goto("round", "int3") /\ rate' = r
  /\ UNCHANGED <<clocks, spins, deltas, icr, hits, pic, why>>

\* int3, whose handler returns.
Breakpoint ==
  /\ Goto("int3", "int80")
  /\ UNCHANGED <<clocks, bring, why>>

\* syscall::self_test: int 0x80 twice, then the count is asserted.
syscall_stub_handler ==
  /\ Goto("int80", "int80_again") \/ Goto("int80_again", "hits")
  /\ hits' = hits + 1
  /\ UNCHANGED <<clocks, spins, deltas, rate, icr, pic, why>>

HitsAsserted ==
  /\ Goto("hits", IF hits = 2 THEN "start" ELSE "panic")
  /\ UNCHANGED <<clocks, bring, why>>

-----------------------------------------------------------------------------
(* apic::start_periodic, then the dual-clock soak (main.rs:94-155).         *)

CanStart == window /\ rate # 0 /\ rate <= U32Max

\* LVT unmasked and periodic ...
start_periodic ==
  /\ Goto("start", IF CanStart THEN "icr" ELSE "panic")
  /\ lvt' = IF CanStart THEN "periodic" ELSE lvt
  /\ UNCHANGED <<iflag, asleep, serving, lock, masks, irr, isr, window, tirr, tisr, pit,
                 lapic, fence, yanked, pitSince, apicSince, bring, why>>

\* ... then the quantum.
WriteIcr ==
  /\ Goto("icr", "soak") /\ icr' = rate /\ spins' = 0 /\ deltas' = <<>>
  /\ UNCHANGED <<clocks, rate, hits, pic, why>>

\* TIMER_TICKS is read first, in the soak and again in the promotion check.
ReadPic ==
  /\ Goto("soak", "soak_apic") \/ Goto("check", "check_apic")
  /\ pic' = pitSince.boot
  /\ UNCHANGED <<clocks, spins, deltas, rate, icr, hits, why>>

\* Both clocks at the gate; the LAPIC silent; the LAPIC lapped.
SoakOver ==
  \/ pic >= Gate /\ apicSince.boot >= Gate
  \/ pic >= Gate /\ apicSince.boot = 0
  \/ pic >= 2 * Gate /\ apicSince.boot < Gate

SoakAgain ==
  /\ Goto("soak_apic", "soak") /\ ~SoakOver /\ spins + 1 <= SoakGuard
  /\ spins' = spins + 1 /\ pic' = 0
  /\ UNCHANGED <<clocks, deltas, rate, icr, hits, why>>

SoakStalled ==
  /\ Halt("soak_apic", "clocks stalled") /\ ~SoakOver /\ spins + 1 > SoakGuard
  /\ spins' = 0 /\ pic' = 0
  /\ UNCHANGED <<clocks, deltas, rate, icr, hits>>

SoakDone ==
  /\ Goto("soak_apic", "check") /\ SoakOver
  /\ spins' = 0 /\ pic' = 0
  /\ UNCHANGED <<clocks, deltas, rate, icr, hits, why>>

-----------------------------------------------------------------------------
(* Promotion, its watch and the rollback (main.rs:162-232).                 *)

\* Mutant: && for ||, one proven clock is enough.
EitherProven == pic >= Gate \/ apicSince.boot >= Gate

BothProven == pic >= Gate /\ apicSince.boot >= Gate

PromotionCheck ==
  /\ \/ Goto("check_apic", "promote") /\ BothProven /\ UNCHANGED why
     \/ Halt("check_apic", "promotion skipped") /\ ~BothProven
  /\ pic' = 0
  /\ UNCHANGED <<clocks, spins, deltas, rate, icr, hits>>

\* Mutant: the read-modify-write of the masks runs with interrupts enabled.
InterruptsStayOn ==
  /\ \/ Goto("promote", IF window /\ rate # 0 THEN "p_lock" ELSE "panic")
     \/ Goto("rollback", "r_lock")
  /\ UNCHANGED <<clocks, bring, why>>

\* promote refuses without a window or a rate; without_interrupts in both.
WithoutInterrupts ==
  /\ \/ Goto("promote", IF window /\ rate # 0 THEN "p_lock" ELSE "panic")
     \/ Goto("rollback", "r_lock")
  /\ iflag' = FALSE
  /\ UNCHANGED <<asleep, serving, lock, masks, irr, isr, window, lvt, tirr, tisr, pit,
                 lapic, fence, yanked, pitSince, apicSince, bring, why>>

LockPics ==
  /\ Goto("p_lock", "p_write") \/ Goto("r_lock", "r_write")
  /\ ~lock /\ lock' = TRUE
  /\ UNCHANGED <<iflag, asleep, serving, masks, irr, isr, window, lvt, tirr, tisr, pit,
                 lapic, fence, yanked, pitSince, apicSince, bring, why>>

\* Mutant: rollback sets the bit again.
RollbackMasks ==
  /\ Goto("p_write", "p_unlock") \/ Goto("r_write", "r_unlock")
  /\ masks' = masks \cup {0}
  /\ UNCHANGED <<iflag, asleep, serving, lock, irr, isr, window, lvt, tirr, tisr, pit,
                 lapic, fence, yanked, pitSince, apicSince, bring, why>>

\* read_masks, then write_masks with bit 0 of the master set or cleared.
WriteMasks ==
  /\ \/ Goto("p_write", "p_unlock") /\ masks' = masks \cup {0}
     \/ Goto("r_write", "r_unlock") /\ masks' = masks \ {0}
  /\ UNCHANGED <<iflag, asleep, serving, lock, irr, isr, window, lvt, tirr, tisr, pit,
                 lapic, fence, yanked, pitSince, apicSince, bring, why>>

\* Mutant: the interrupt flag does not come back.
UnlockLeavesCli ==
  /\ Goto("p_unlock", "watch_base") \/ Goto("r_unlock", "proof")
  /\ lock' = FALSE
  /\ UNCHANGED <<iflag, asleep, serving, masks, irr, isr, window, lvt, tirr, tisr, pit,
                 lapic, fence, yanked, pitSince, apicSince, bring, why>>

\* The guard drops, the interrupt flag comes back; main goes on.
UnlockPics ==
  /\ Goto("p_unlock", "watch_base") \/ Goto("r_unlock", "proof")
  /\ lock' = FALSE /\ iflag' = TRUE
  /\ UNCHANGED <<asleep, serving, masks, irr, isr, window, lvt, tirr, tisr, pit, lapic,
                 fence, yanked, pitSince, apicSince, bring, why>>

\* apic_base = APIC_TICKS.
WatchBase ==
  /\ Goto("watch_base", "watch")
  /\ apicSince' = [apicSince EXCEPT !.watch = 0] /\ spins' = 0
  /\ UNCHANGED <<iflag, asleep, serving, lock, masks, irr, isr, window, lvt, tirr, tisr,
                 pit, lapic, fence, yanked, pitSince, deltas, rate, icr, hits, pic, why>>

\* A look at APIC_TICKS: the gate is reached, another spin, or spun out.
Watch ==
  /\ \/ Goto("watch", "proof") /\ apicSince.watch >= Gate /\ spins' = 0
     \/ /\ apicSince.watch < Gate /\ spins + 1 <= SoakGuard
        /\ Goto("watch", "watch") /\ spins' = spins + 1
     \/ /\ apicSince.watch < Gate /\ spins + 1 > SoakGuard
        /\ Goto("watch", "rollback") /\ spins' = 0
  /\ UNCHANGED <<clocks, deltas, rate, icr, hits, pic, why>>

BringUpSteps ==
  \/ interrupts_init \/ probe \/ apic_init \/ timer_init \/ Sti
  \/ CalibRound \/ CalibSpin \/ CalibRead \/ CalibStore
  \/ Breakpoint \/ syscall_stub_handler \/ HitsAsserted
  \/ start_periodic \/ WriteIcr
  \/ ReadPic \/ SoakAgain \/ SoakStalled \/ SoakDone
  \/ PromotionCheck \/ WithoutInterrupts \/ LockPics \/ WriteMasks \/ UnlockPics
  \/ WatchBase \/ Watch

\* The panic handler: fence down, cli, hlt for good.
panic ==
  /\ Goto("panic", "dead")
  /\ fence' = FALSE /\ iflag' = FALSE
  /\ UNCHANGED <<asleep, serving, lock, masks, irr, isr, window, lvt, tirr, tisr, pit,
                 lapic, yanked, pitSince, apicSince, bring, why>>

-----------------------------------------------------------------------------
(* Bring-up with the clocks, the handlers and the panic handler; the demo   *)
(* takes over at "proof".                                                    *)

bootVars == <<clocks, bring, pc, why>>

BootInit == ClocksInit /\ BringUpInit

\* What happens beside main.
BesideBoot(A) == A /\ UNCHANGED <<bring, pc, why>>

Boot == BringUpSteps \/ panic

\* hlt in an endless loop, woken or not; or on to the demo.
Booted == pc \in {"halt", "dead", "proof"} /\ UNCHANGED bootVars

BootNext == BesideBoot(Hardware) \/ BesideBoot(Handlers) \/ Boot \/ Booted

BootSpec == BootInit /\ [][BootNext]_bootVars

\* A clock that has not died keeps firing (WF); an interrupt that is again and
\* again deliverable is delivered, and the code it interrupts still gets on: a
\* handler is far shorter than the 10 ms between two ticks (SF).  Nothing makes a
\* clock die or a noise interrupt come.
BootFairSpec ==
  /\ BootSpec
  /\ SF_bootVars(Boot)
  /\ WF_bootVars(BesideBoot(IrqExit))
  /\ WF_bootVars(BesideBoot(PitFires)) /\ WF_bootVars(BesideBoot(LapicFires))
  /\ SF_bootVars(BesideBoot(IrqEntry(0))) /\ SF_bootVars(BesideBoot(lapic_preempt_stub))
-----------------------------------------------------------------------------
\* The type of every variable; a spin counter passes its guard at most once.
BootTypeOK ==
  /\ iflag \in BOOLEAN /\ asleep \in BOOLEAN /\ lock \in BOOLEAN
  /\ serving \in SUBSET Lines /\ masks \in SUBSET Lines
  /\ irr \in SUBSET Lines /\ isr \in SUBSET Lines
  /\ window \in BOOLEAN /\ lvt \in {"masked", "periodic"}
  /\ tirr \in BOOLEAN /\ tisr \in BOOLEAN /\ pit \in BOOLEAN /\ lapic \in BOOLEAN
  /\ fence \in BOOLEAN /\ yanked \in BOOLEAN
  /\ pitSince \in [boot : 0..2 * Gate, window : 0..CalibTicks]
  /\ apicSince \in [boot : 0..Gate, watch : 0..Gate, nap : 0..NapTicks,
                    driver : 0..1, step : 0..1]
  /\ pc \in BringUpPcs \cup {"proof", "panic", "halt", "dead"}
  /\ spins \in 0..Most(SpinGuard, SoakGuard) + 1
  /\ deltas \in Seq(1..U32Max) /\ Len(deltas) <= 3
  /\ rate \in 0..U32Max /\ icr \in 0..U32Max /\ hits \in 0..2 /\ pic \in 0..2 * Gate

\* PICS is a plain spinlock that every PIC handler takes for its EOI: while main
\* holds it no handler may run, or the one CPU spins for good (apic.rs:431); and
\* no handler runs for a line that is masked ("pic frozen", main.rs:210).
HandlersNeverSpin == serving # {} => ~lock /\ serving \cap masks = {}

\* Every interrupt is acknowledged, exactly once and to its own controller: the
\* only line in service is that of the handler that runs, and the LAPIC timer is
\* never left in service, so no clock is ever wedged behind a missing EOI.
EoiDiscipline == isr = serving /\ ~tisr

\* The PIT is given up only when both clocks have reached the gate and the LAPIC
\* counts down a calibrated quantum ("promoting trades a working PIT for a silent
\* box", main.rs:165).
PromotedOnlyProven ==
  0 \in masks /\ iflag =>
    /\ pitSince.boot >= Gate /\ apicSince.boot >= Gate
    /\ lvt = "periodic" /\ rate > 0 /\ icr = rate

\* When bring-up is done some clock is left: the PIT unmasked, or the LAPIC proven
\* by a full gate of ticks after the promotion.
NoSilentBox == pc = "proof" => 0 \notin masks \/ apicSince.watch >= Gate

\* The median: one wild window cannot move the rate past both of the others
\* (apic.rs:305).
RateBetweenWindows ==
  rate # 0 /\ Len(deltas) = 3 =>
    \A m, n \in 1..3 : m # n =>
      /\ rate >= calibrate_ticks(Least(deltas[m], deltas[n]), 100, CalibTicks)
      /\ rate <= calibrate_ticks(Most(deltas[m], deltas[n]), 100, CalibTicks)

\* Whatever the clocks do, bring-up ends: in the demo, or in a halt or a panic that
\* says why.  No wait of calibration, soak or watch outlives dead clocks
\* (main.rs:139, "a guard that can never fire is dead code").
BringUpEnds == <>(pc \notin BringUpPcs)

\* After a rollback PIT interrupts are served again, unless the PIT is dead too.
RollbackRevivesPit == pc = "r_unlock" ~> (0 \in serving \/ ~pit)
=============================================================================
