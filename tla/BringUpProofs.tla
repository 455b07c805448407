----------------------------- MODULE BringUpProofs -----------------------------
(***************************************************************************)
(* Bring-up for every gate, guard and calibration: no handler ever spins   *)
(* on PICS, every interrupt is acknowledged, and the PIT is given up only  *)
(* for a proven LAPIC.                                                     *)
(***************************************************************************)
EXTENDS BringUp, SequenceTheorems, TLAPS

\* Where main is relative to the steps that matter.
Unmapped == {"pics", "probe", "memory", "apic_init"}
Masked == Unmapped \cup {"timer_init"}
Ticking == {"soak", "soak_apic", "check", "check_apic"}
Promoting == {"promote", "p_lock", "p_write", "p_unlock", "watch_base", "watch",
              "rollback", "r_lock", "r_write", "r_unlock"}
Locked == {"p_write", "p_unlock", "r_write", "r_unlock"}

\* The types the argument needs.
Typed ==
  /\ iflag \in BOOLEAN /\ lock \in BOOLEAN /\ tisr \in BOOLEAN /\ window \in BOOLEAN
  /\ masks \subseteq Lines /\ isr \subseteq Lines
  /\ pitSince \in [boot : 0..2 * Gate, window : 0..CalibTicks]
  /\ apicSince \in [boot : 0..Gate, watch : 0..Gate, nap : 0..NapTicks,
                    driver : 0..1, step : 0..1]
  /\ deltas \in Seq(Nat) /\ rate \in Nat /\ pic \in Nat

\* Handlers and main exclude each other around the lock.
Exclusion ==
  /\ serving = {} \/ \E l \in Lines : serving = {l}
  /\ serving # {} => ~iflag /\ window /\ pc \notin Masked
  /\ serving \cap masks = {}
  /\ lock <=> pc \in Locked
  /\ pc \in Locked \cup {"p_lock", "r_lock"} => ~iflag /\ serving = {}

\* EOIs reach a LAPIC: interrupts come on only once its window is published.
Published ==
  /\ isr = serving /\ ~tisr
  /\ iflag => window /\ pc \notin Masked
  /\ pc \notin Unmapped \cup {"panic", "dead"} => window

\* What each stage of the bring-up has established.
Programmed == lvt = "periodic" /\ rate > 0 /\ icr = rate
Proven == pitSince.boot >= Gate /\ apicSince.boot >= Gate /\ Programmed

Stages ==
  /\ pic <= pitSince.boot
  /\ pc = "icr" => lvt = "periodic" /\ rate > 0
  /\ pc \in Ticking => Programmed
  /\ pc \in Promoting => Proven
  /\ pc \notin Promoting \cup Masked \cup {"proof", "panic", "dead"} => 0 \notin masks
  /\ pc \in {"promote", "p_lock", "p_write", "r_unlock"} => 0 \notin masks
  /\ 0 \in masks /\ (iflag \/ serving # {}) => Proven
  /\ pc = "proof" => 0 \notin masks \/ apicSince.watch >= Gate

IInv == Typed /\ Exclusion /\ Published /\ Stages

-----------------------------------------------------------------------------
\* A tick moves every count up, to its horizon and no further.
LEMMA PitBump ==
  ASSUME Typed
  PROVE  LET b == Bump(pitSince, PitHorizon)
         IN  /\ b \in [boot : 0..2 * Gate, window : 0..CalibTicks]
             /\ b.boot >= pitSince.boot
BY SMTT(30), TicksAssumption DEF Typed, Bump, PitHorizon, Least

\* The same of the LAPIC's counts.
LEMMA ApicBump ==
  ASSUME Typed
  PROVE  LET b == Bump(apicSince, ApicHorizon)
         IN  /\ b \in [boot : 0..Gate, watch : 0..Gate, nap : 0..NapTicks,
                       driver : 0..1, step : 0..1]
             /\ b.boot >= apicSince.boot /\ b.watch >= apicSince.watch
<1> DEFINE b == Bump(apicSince, ApicHorizon)
<1>1. /\ apicSince.boot \in 0..Gate /\ apicSince.watch \in 0..Gate
      /\ apicSince.nap \in 0..NapTicks /\ apicSince.driver \in 0..1
      /\ apicSince.step \in 0..1
      /\ DOMAIN apicSince = {"boot", "watch", "nap", "driver", "step"}
  BY DEF Typed
<1>2. b = [r \in {"boot", "watch", "nap", "driver", "step"} |->
             Least(apicSince[r] + 1, ApicHorizon[r])]
  BY <1>1 DEF Bump
<1>3. /\ b.boot = Least(apicSince.boot + 1, Gate)
      /\ b.watch = Least(apicSince.watch + 1, Gate)
      /\ b.nap = Least(apicSince.nap + 1, NapTicks)
      /\ b.driver = Least(apicSince.driver + 1, 1) /\ b.step = Least(apicSince.step + 1, 1)
  BY <1>2 DEF ApicHorizon
<1>4. b = [boot |-> b.boot, watch |-> b.watch, nap |-> b.nap, driver |-> b.driver,
           step |-> b.step]
  BY <1>2
<1>5. /\ b.boot \in 0..Gate /\ b.watch \in 0..Gate /\ b.nap \in 0..NapTicks
      /\ b.driver \in 0..1 /\ b.step \in 0..1
      /\ b.boot >= apicSince.boot /\ b.watch >= apicSince.watch
  BY <1>1, <1>3, TicksAssumption DEF Least
<1> QED
  BY <1>4, <1>5

\* The initial state: nothing is enabled, nothing is held.
LEMMA InitIInv == BootInit => IInv
<1> SUFFICES ASSUME BootInit PROVE IInv
  OBVIOUS
<1> USE DEF BootInit, ClocksInit, BringUpInit
<1>1. pitSince = [boot |-> 0, window |-> CalibTicks]
  BY DEF PitHorizon
<1>2. apicSince = [boot |-> 0, watch |-> Gate, nap |-> NapTicks, driver |-> 1, step |-> 1]
  BY DEF ApicHorizon
<1>3. Typed
  <2>1. /\ iflag \in BOOLEAN /\ lock \in BOOLEAN /\ tisr \in BOOLEAN /\ window \in BOOLEAN
        /\ masks \subseteq Lines /\ isr \subseteq Lines
    BY Zenon
  <2>2. pitSince \in [boot : 0..2 * Gate, window : 0..CalibTicks]
    <3>1. 0 \in 0..2 * Gate /\ CalibTicks \in 0..CalibTicks
      BY TicksAssumption
    <3> HIDE DEF BootInit
    <3> QED
      BY <1>1, <3>1
  <2>3. apicSince \in [boot : 0..Gate, watch : 0..Gate, nap : 0..NapTicks,
                      driver : 0..1, step : 0..1]
    <3>1. /\ 0 \in 0..Gate /\ Gate \in 0..Gate /\ NapTicks \in 0..NapTicks /\ 1 \in 0..1
      BY TicksAssumption
    <3> HIDE DEF BootInit
    <3> QED
      BY <1>2, <3>1
  <2> QED
    BY <2>1, <2>2, <2>3 DEF Typed
<1>4. Exclusion /\ Published
  BY DEF Exclusion, Published, Unmapped, Masked, Locked
<1>5. Stages
  BY <1>1 DEF Stages, Unmapped, Masked, Ticking, Promoting, Proven, Programmed
<1> QED
  BY <1>3, <1>4, <1>5 DEF IInv

\* Three windows are three numbers.
LEMMA ThreeNats ==
  ASSUME NEW s \in Seq(Nat), Len(s) = 3
  PROVE  s[1] \in Nat /\ s[2] \in Nat /\ s[3] \in Nat
<1>1. \A n \in 1..Len(s) : s[n] \in Nat
  BY ElementOfSeq, Zenon
<1>2. 1 \in 1..Len(s) /\ 2 \in 1..Len(s) /\ 3 \in 1..Len(s)
  OBVIOUS
<1> QED
  BY <1>1, <1>2

\* A calibrated rate is a natural number.
LEMMA RateNat ==
  ASSUME NEW a \in Nat, NEW b \in Nat, NEW c \in Nat
  PROVE  calibrate_ticks(median(a, b, c), 100, CalibTicks) \in Nat
<1>1. median(a, b, c) \in Nat
  BY DEF median, Most, Least
<1>2. ASSUME NEW d \in Nat PROVE calibrate_ticks(d, 100, CalibTicks) \in Nat
  <2>1. 100 \div 100 = 1
    OBVIOUS
  <2> QED
    BY <2>1, TicksAssumption DEF calibrate_ticks
<1> QED
  BY <1>1, <1>2

\* Every step preserves the invariant: a handler starts only with IF = 1, which main
\* never has around the lock; a tick only moves counts up.
LEMMA StepIInv == IInv /\ [BootNext]_bootVars => IInv'
<1> SUFFICES ASSUME IInv, [BootNext]_bootVars PROVE IInv'
  OBVIOUS
<1> USE DEF IInv, Exclusion, Published, Stages, Unmapped, Masked, Ticking, Promoting, Locked,
            Programmed, Proven, Goto, Halt, Interruptible, clocks, bring, Lines
<1>1. CASE BesideBoot(PitFires)
  BY <1>1 DEF Typed, PitFires, BesideBoot
<1>2. CASE BesideBoot(LapicFires)
  BY <1>2 DEF Typed, LapicFires, BesideBoot
<1>3. CASE BesideBoot(OtherLine)
  BY <1>3 DEF Typed, OtherLine, BesideBoot
<1>4. CASE BesideBoot(ClockDies)
  BY <1>4 DEF Typed, ClockDies, BesideBoot
<1>5. CASE BesideBoot(\E l \in Lines : IrqEntry(l))
  <2> PICK l \in Lines : BesideBoot(IrqEntry(l))
    BY <1>5 DEF BesideBoot
  <2> USE DEF IrqEntry, BesideBoot
  <2>1. Typed'
    BY PitBump, Zenon DEF Typed
  <2>2. serving = {} /\ isr = {} /\ iflag /\ window /\ l \notin masks /\ ~lock
    BY DEF Typed
  <2>3. Exclusion'
    BY <2>2 DEF Typed
  <2>4. Published'
    BY <2>2 DEF Typed
  <2>5. pitSince'.boot >= pitSince.boot /\ pitSince.boot \in Int /\ pitSince'.boot \in Int
    BY PitBump, TicksAssumption DEF Typed
  <2>6. Stages'
    BY SMTT(30), <2>2, <2>5, TicksAssumption DEF Typed
  <2> QED
    BY <2>1, <2>3, <2>4, <2>6, Zenon
<1>6. CASE BesideBoot(IrqExit)
  <2> USE DEF IrqExit, BesideBoot
  <2>1. PICK l \in Lines : serving = {l} /\ isr = {l} /\ l \in Int
    BY <1>6
  <2>2. isr' = {}
    BY <1>6, <2>1
  <2> QED
    BY <1>6, <2>1, <2>2 DEF Typed
<1>7. CASE BesideBoot(lapic_preempt_stub)
  <2> USE DEF lapic_preempt_stub, BesideBoot
  <2>1. window /\ tisr' = FALSE
    BY <1>7, Zenon
  <2>2. Typed'
    BY <1>7, <2>1, ApicBump DEF Typed
  <2>3. Exclusion' /\ Published'
    BY <1>7, <2>1
  <2>4. /\ apicSince'.boot >= apicSince.boot /\ apicSince'.watch >= apicSince.watch
        /\ {apicSince.boot, apicSince'.boot, apicSince.watch, apicSince'.watch} \subseteq Int
    BY <1>7, <2>2, ApicBump, TicksAssumption DEF Typed
  <2>5. Stages'
    BY <1>7, <2>4, TicksAssumption
  <2> QED
    BY <2>2, <2>3, <2>5
<1>8. CASE BesideBoot(spurious_handler)
  BY <1>8 DEF Typed, spurious_handler, eoi, BesideBoot
<1>9. CASE BesideBoot(spurious_pic_master_handler)
  BY <1>9 DEF Typed, spurious_pic_master_handler, BesideBoot
<1>10. CASE interrupts_init
  BY <1>10 DEF Typed, interrupts_init
<1>11. CASE probe
  BY <1>11 DEF Typed, probe
<1>12. CASE apic_init
  BY <1>12, Zenon DEF Typed, apic_init
<1>13. CASE timer_init
  BY <1>13 DEF Typed, timer_init
<1>14. CASE Sti
  BY <1>14 DEF Typed, Sti
<1>15. CASE CalibRound
  <2>1. pitSince' \in [boot : 0..2 * Gate, window : 0..CalibTicks]
        /\ pitSince'.boot = pitSince.boot
    <3>1. pitSince' = [pitSince EXCEPT !.window = 0]
      BY <1>15 DEF CalibRound
    <3>2. pitSince \in [boot : 0..2 * Gate, window : 0..CalibTicks]
      BY DEF Typed
    <3>3. 0 \in 0..CalibTicks
      BY TicksAssumption
    <3> QED
      BY <3>1, <3>2, <3>3
  <2>2. /\ pc = "round" /\ pc' = "spin" /\ serving = {} /\ spins' = 0
        /\ UNCHANGED <<iflag, asleep, serving, lock, masks, irr, isr, window, lvt, tirr,
                       tisr, pit, lapic, fence, yanked, apicSince, deltas, rate, icr,
                       hits, pic, why>>
    BY <1>15 DEF CalibRound
  <2> QED
    BY <2>1, <2>2 DEF Typed
<1>16. CASE CalibSpin
  BY <1>16, Zenon DEF Typed, CalibSpin
<1>17. CASE CalibRead
  <2>1. \A d \in Deltas : d \in Nat
    BY BringUpAssumption
  <2>2. deltas' \in Seq(Nat)
    <3>1. deltas \in Seq(Nat)
      BY DEF Typed
    <3>2. deltas' = deltas \/ \E d \in Nat : deltas' = Append(deltas, d)
      BY <1>17, <2>1 DEF CalibRead
    <3> QED
      BY <3>1, <3>2
  <2> QED
    BY <1>17, <2>2, Zenon DEF CalibRead, Typed
<1>18. CASE CalibStore
  <2>1. rate' \in Nat
    <3>1. deltas \in Seq(Nat) /\ Len(deltas) = 3
      BY <1>18 DEF CalibStore, Typed
    <3>2. deltas[1] \in Nat /\ deltas[2] \in Nat /\ deltas[3] \in Nat
      BY <3>1, ThreeNats
    <3> DEFINE r == calibrate_ticks(median(deltas[1], deltas[2], deltas[3]), 100, CalibTicks)
    <3>3. r \in Nat
      BY <3>2, RateNat, Zenon
    <3>4. rate' = rate \/ rate' = r
      BY <1>18 DEF CalibStore
    <3> HIDE DEF r
    <3> QED
      BY <3>3, <3>4 DEF Typed
  <2> QED
    BY SMTT(30), <1>18, <2>1 DEF CalibStore, Typed
<1>19. CASE Breakpoint
  BY <1>19 DEF Typed, Breakpoint
<1>20. CASE syscall_stub_handler
  BY <1>20, Zenon DEF Typed, syscall_stub_handler
<1>21. CASE HitsAsserted
  BY <1>21 DEF Typed, HitsAsserted
<1>22. CASE start_periodic
  BY <1>22, TicksAssumption DEF Typed, start_periodic, CanStart
<1>23. CASE WriteIcr
  BY <1>23, TicksAssumption DEF Typed, WriteIcr
<1>24. CASE ReadPic
  BY SMTT(30), <1>24, TicksAssumption DEF Typed, ReadPic
<1>25. CASE SoakAgain
  BY <1>25, TicksAssumption DEF Typed, SoakAgain
<1>26. CASE SoakStalled
  <2> USE DEF SoakStalled
  <2>1. pc = "soak_apic" /\ pc' = "halt" /\ pic' = 0 /\ UNCHANGED <<clocks, rate, icr, deltas>>
    BY <1>26, Zenon
  <2>2. pitSince.boot \in Nat
    BY TicksAssumption DEF Typed
  <2>3. Typed' /\ Exclusion' /\ Published'
    BY <2>1 DEF Typed
  <2>4. Stages'
    BY <2>1, <2>2
  <2> QED
    BY <2>3, <2>4
<1>27. CASE SoakDone
  BY <1>27, TicksAssumption DEF Typed, SoakDone
<1>28. CASE PromotionCheck
  <2> USE DEF PromotionCheck, BothProven
  <2>1. /\ pc = "check_apic" /\ pic' = 0 /\ UNCHANGED <<clocks, rate, icr, deltas>>
        /\ \/ pc' = "promote" /\ pic >= Gate /\ apicSince.boot >= Gate
           \/ pc' = "halt"
    BY <1>28, Zenon
  <2>2. pitSince.boot \in Nat /\ apicSince.boot \in Nat
    BY TicksAssumption DEF Typed
  <2>3. Typed' /\ Exclusion' /\ Published'
    BY <2>1, Zenon DEF Typed
  <2>4. pc' = "promote" => Proven'
    BY <2>1, <2>2, TicksAssumption DEF Typed
  <2>5. Stages'
    BY <2>1, <2>2, <2>4
  <2> QED
    BY <2>3, <2>5
<1>29. CASE WithoutInterrupts
  BY <1>29, Zenon DEF Typed, WithoutInterrupts
<1>30. CASE LockPics
  BY <1>30, Zenon DEF Typed, LockPics
<1>31. CASE WriteMasks
  BY <1>31, Zenon DEF Typed, WriteMasks
<1>32. CASE UnlockPics
  BY <1>32, Zenon DEF Typed, UnlockPics
<1>33. CASE WatchBase
  <2> USE DEF WatchBase
  <2>1. 0 \in 0..Gate
    BY TicksAssumption
  <2>2. Typed'
    BY <1>33, <2>1 DEF Typed
  <2>3. apicSince'.boot = apicSince.boot
    BY <1>33 DEF Typed
  <2> QED
    BY <1>33, <2>2, <2>3
<1>34. CASE Watch
  BY <1>34, TicksAssumption, Zenon DEF Typed, Watch
<1>35. CASE panic
  BY <1>35, Zenon DEF Typed, panic
<1>36. CASE UNCHANGED bootVars
  BY SMTT(30), <1>36 DEF bootVars, Typed
<1> QED
  BY <1>1, <1>2, <1>3, <1>4, <1>5, <1>6, <1>7, <1>8, <1>9, <1>10, <1>11, <1>12,
     <1>13, <1>14, <1>15, <1>16, <1>17, <1>18, <1>19, <1>20, <1>21, <1>22, <1>23,
     <1>24, <1>25, <1>26, <1>27, <1>28, <1>29, <1>30, <1>31, <1>32, <1>33, <1>34,
     <1>35, <1>36, Zenon
  DEF BootNext, Hardware, Handlers, Boot, BringUpSteps, Booted, BesideBoot

\* The invariant the theorems below rest on: who may hold PICS, what has been programmed
\* and what has been proven at every point of the bring-up.
THEOREM BootInvariant == BootSpec => []IInv
BY InitIInv, StepIInv, PTL DEF BootSpec

\* No handler runs while main holds PICS, nor for a masked line: for every gate and
\* guard, the EOI of a handler never spins on the lock of the code it interrupted.
THEOREM NeverSpinning == BootSpec => []HandlersNeverSpin
<1>1. IInv => HandlersNeverSpin
  BY DEF IInv, Exclusion, HandlersNeverSpin, Locked
<1> QED
  BY <1>1, BootInvariant, PTL

\* Every interrupt is acknowledged before the code it interrupted goes on.
THEOREM Acknowledged == BootSpec => []EoiDiscipline
<1>1. IInv => EoiDiscipline
  BY DEF IInv, Published, EoiDiscipline
<1> QED
  BY <1>1, BootInvariant, PTL

\* The PIT is masked only when both clocks have proven themselves and the LAPIC is
\* programmed with a calibrated quantum, whatever the gate.
THEOREM PromotionProven == BootSpec => []PromotedOnlyProven
<1>1. IInv => PromotedOnlyProven
  BY DEF IInv, Stages, Proven, Programmed, PromotedOnlyProven
<1> QED
  BY <1>1, BootInvariant, PTL

\* The demo never starts with the PIT masked and the LAPIC unproven.
THEOREM SomeClockLeft == BootSpec => []NoSilentBox
<1>1. IInv => NoSilentBox
  BY DEF IInv, Stages, NoSilentBox
<1> QED
  BY <1>1, BootInvariant, PTL

-----------------------------------------------------------------------------
\* Division keeps the order of what it divides.
LEMMA DivMonotone ==
  ASSUME NEW x \in Nat, NEW y \in Nat, NEW k \in Nat \ {0}, x <= y
  PROVE  x \div k <= y \div k
<1> DEFINE p == x \div k
           q == y \div k
<1>1. p \in Int /\ q \in Int /\ k * p <= x /\ x < k * p + k /\ k * q <= y /\ y < k * q + k
  OBVIOUS
<1> HIDE DEF p, q
<1>2. SUFFICES ASSUME p >= q + 1 PROVE FALSE
  BY <1>1 DEF p, q
<1>3. k * p >= k * (q + 1)
  BY <1>1, <1>2
<1>4. k * (q + 1) = k * q + k
  BY <1>1
<1> QED
  BY <1>1, <1>3, <1>4

\* A longer window gives a rate at least as high.
LEMMA CalibrateMonotone ==
  ASSUME NEW x \in Nat, NEW y \in Nat, x <= y
  PROVE  calibrate_ticks(x, 100, CalibTicks) <= calibrate_ticks(y, 100, CalibTicks)
<1>1. x * (100 \div 100) = x /\ y * (100 \div 100) = y
  OBVIOUS
<1> QED
  BY <1>1, DivMonotone, TicksAssumption DEF calibrate_ticks

\* The rate of the median lies between the rates of any two of the three windows.
LEMMA MedianBetween ==
  ASSUME NEW s \in Seq(Nat), Len(s) = 3, NEW m \in 1..3, NEW n \in 1..3, m # n
  PROVE  LET r == calibrate_ticks(median(s[1], s[2], s[3]), 100, CalibTicks)
         IN  /\ r >= calibrate_ticks(Least(s[m], s[n]), 100, CalibTicks)
             /\ r <= calibrate_ticks(Most(s[m], s[n]), 100, CalibTicks)
<1> DEFINE a == s[1]
           b == s[2]
           c == s[3]
<1>1. a \in Nat /\ b \in Nat /\ c \in Nat
  BY ThreeNats
<1>2. \/ (s[m] = a /\ s[n] = b) \/ (s[m] = b /\ s[n] = a)
      \/ (s[m] = a /\ s[n] = c) \/ (s[m] = c /\ s[n] = a)
      \/ (s[m] = b /\ s[n] = c) \/ (s[m] = c /\ s[n] = b)
  <2>1. (m = 1 \/ m = 2 \/ m = 3) /\ (n = 1 \/ n = 2 \/ n = 3)
    OBVIOUS
  <2>2. CASE m = 1
    BY <2>1, <2>2
  <2>3. CASE m = 2
    BY <2>1, <2>3
  <2>4. CASE m = 3
    BY <2>1, <2>4
  <2> QED
    BY <2>1, <2>2, <2>3, <2>4
<1>3. s[m] \in Nat /\ s[n] \in Nat
  BY <1>1, <1>2
<1> HIDE DEF a, b, c
<1>4. Least(s[m], s[n]) <= median(a, b, c) /\ median(a, b, c) <= Most(s[m], s[n])
  BY <1>1, <1>2 DEF median, Least, Most
<1>5. Least(s[m], s[n]) \in Nat /\ Most(s[m], s[n]) \in Nat /\ median(a, b, c) \in Nat
  BY <1>1, <1>3 DEF median, Least, Most
<1>6. /\ calibrate_ticks(Least(s[m], s[n]), 100, CalibTicks)
           <= calibrate_ticks(median(a, b, c), 100, CalibTicks)
      /\ calibrate_ticks(median(a, b, c), 100, CalibTicks)
           <= calibrate_ticks(Most(s[m], s[n]), 100, CalibTicks)
  BY <1>4, <1>5, CalibrateMonotone
<1>7. ASSUME NEW d \in Nat PROVE calibrate_ticks(d, 100, CalibTicks) \in Int
  BY TicksAssumption DEF calibrate_ticks
<1> QED
  BY <1>5, <1>6, <1>7 DEF a, b, c

\* No rate is stored before the third window.
RateInv ==
  /\ pc \in Masked \cup {"sti", "round", "spin", "ccr"} => rate = 0
  /\ RateBetweenWindows

\* Every step preserves it: CalibStore is the only step that stores a rate.
LEMMA StepRate == IInv /\ RateInv /\ [BootNext]_bootVars => RateInv'
<1> SUFFICES ASSUME IInv, RateInv, [BootNext]_bootVars PROVE RateInv'
  OBVIOUS
<1> USE DEF RateInv, Masked, Unmapped, Goto, Halt
<1>1. CASE CalibRead
  BY <1>1 DEF CalibRead, RateBetweenWindows
<1>2. CASE CalibStore
  <2>1. deltas' = deltas /\ Len(deltas) = 3 /\ deltas \in Seq(Nat)
    BY <1>2 DEF CalibStore, IInv, Typed
  <2>2. CASE pc' = "panic"
    BY <1>2, <2>2 DEF CalibStore, RateBetweenWindows
  <2>3. CASE pc' # "panic"
    <3>1. /\ pc' = "int3"
          /\ rate' = calibrate_ticks(median(deltas[1], deltas[2], deltas[3]), 100, CalibTicks)
      BY <1>2, <2>3 DEF CalibStore
    <3> QED
      BY <2>1, <3>1, MedianBetween DEF RateBetweenWindows
  <2> QED
    BY <2>2, <2>3
<1>3. CASE WriteIcr
  BY <1>3 DEF WriteIcr, RateBetweenWindows
<1>4. CASE /\ UNCHANGED <<rate, deltas>>
           /\ pc' \in Masked \cup {"sti", "round", "spin", "ccr"}
                => pc \in Masked \cup {"sti", "round", "spin", "ccr"}
  BY <1>4 DEF RateBetweenWindows
<1> QED
  <2>1. CASE UNCHANGED <<bring, pc, why>> \/ UNCHANGED bootVars
    BY <1>4, <2>1 DEF bring, bootVars
  <2>2. CASE BringUpSteps \/ panic
    BY <1>1, <1>2, <1>3, <1>4, <2>2, Zenon
    DEF BringUpSteps, bring, panic, interrupts_init, probe, apic_init, timer_init, Sti,
        CalibRound, CalibSpin, Breakpoint, syscall_stub_handler, HitsAsserted,
        start_periodic, ReadPic, SoakAgain, SoakStalled, SoakDone, PromotionCheck,
        WithoutInterrupts, LockPics, WriteMasks, UnlockPics, WatchBase, Watch
  <2> QED
    BY <2>1, <2>2 DEF BootNext, BesideBoot, Boot, Booted

\* One wild window never moves the rate past both of the others, for every window
\* length and every measurement.
THEOREM RateRobust == BootSpec => []RateBetweenWindows
<1>1. BootInit => RateInv
  BY DEF BootInit, BringUpInit, RateInv, RateBetweenWindows
<1>2. RateInv => RateBetweenWindows
  BY DEF RateInv
<1> QED
  BY <1>1, <1>2, StepRate, BootInvariant, PTL DEF BootSpec

-----------------------------------------------------------------------------
\* The stages before the syscall self-test.
BeforeSelfTest == Masked \cup {"sti", "round", "spin", "ccr", "int3", "int80"}

\* The counters of the bring-up and where they stand.
Counts ==
  /\ spins \in 0..Most(SpinGuard, SoakGuard) + 1
  /\ pc = "spin" => spins <= SpinGuard
  /\ pc \in {"soak", "soak_apic", "watch"} => spins <= SoakGuard
  /\ hits \in 0..2
  /\ pc \in BeforeSelfTest => hits = 0
  /\ pc = "int80_again" => hits = 1
  /\ deltas \in Seq(1..U32Max) /\ Len(deltas) <= 3
  /\ pc \in {"spin", "ccr"} => Len(deltas) < 3
  /\ rate \in 0..U32Max /\ icr \in 0..U32Max

\* The flags, the lines and the program counter.
Flags ==
  /\ asleep \in BOOLEAN /\ tirr \in BOOLEAN /\ pit \in BOOLEAN /\ lapic \in BOOLEAN
  /\ fence \in BOOLEAN /\ yanked \in BOOLEAN
  /\ lvt \in {"masked", "periodic"} /\ irr \subseteq Lines
  /\ pc \in BringUpPcs \cup {"proof", "panic", "halt", "dead"}

\* The rate of three windows fits where they fit.
LEMMA RateFits ==
  ASSUME NEW s \in Seq(1..U32Max), Len(s) = 3
  PROVE  calibrate_ticks(median(s[1], s[2], s[3]), 100, CalibTicks) \in 0..U32Max
<1>1. s[1] \in 1..U32Max /\ s[2] \in 1..U32Max /\ s[3] \in 1..U32Max
  <2>1. \A n \in 1..Len(s) : s[n] \in 1..U32Max
    BY ElementOfSeq, Zenon
  <2>2. 1 \in 1..Len(s) /\ 2 \in 1..Len(s) /\ 3 \in 1..Len(s)
    OBVIOUS
  <2> QED
    BY <2>1, <2>2
<1> DEFINE d == median(s[1], s[2], s[3])
           q == d \div CalibTicks
<1>2. U32Max \in Nat /\ CalibTicks \in Nat \ {0}
  BY BringUpAssumption, TicksAssumption
<1>3. d \in Nat /\ d <= U32Max
  BY <1>1, <1>2 DEF median, Most, Least
<1> HIDE DEF d
<1>4. q \in Int /\ CalibTicks * q <= d /\ d < CalibTicks * q + CalibTicks
  BY <1>2, <1>3
<1>5. calibrate_ticks(d, 100, CalibTicks) = q
  <2>1. d * (100 \div 100) = d
    BY <1>3
  <2> QED
    BY <1>2, <2>1 DEF calibrate_ticks
<1> HIDE DEF q
<1>6. q >= 0
  <2>1. SUFFICES ASSUME q <= -1 PROVE FALSE
    BY <1>4
  <2>2. CalibTicks * q <= CalibTicks * (-1)
    BY <1>2, <1>4, <2>1
  <2> QED
    BY <1>2, <1>3, <1>4, <2>2
<1>7. q <= CalibTicks * q
  BY <1>2, <1>4, <1>6
<1>8. q \in 0..U32Max
  <2>1. CalibTicks * q \in Int
    BY <1>2, <1>4
  <2> QED
    BY <1>2, <1>3, <1>4, <1>6, <1>7, <2>1
<1> QED
  BY <1>5, <1>8 DEF d

\* Every step keeps the counters where they stand: a spin loop that has reached
\* its guard is left, and calibration appends at most three windows.
LEMMA StepCounts == Counts /\ [BootNext]_bootVars => Counts'
<1> SUFFICES ASSUME Counts, [BootNext]_bootVars PROVE Counts'
  OBVIOUS
<1> USE DEF Goto, Halt, BeforeSelfTest, Masked, Unmapped
<1> DEFINE top == Most(SpinGuard, SoakGuard) + 1
<1>1. /\ SpinGuard \in Nat /\ SoakGuard \in Nat /\ U32Max \in Nat /\ top \in Nat
      /\ SpinGuard + 1 <= top /\ SoakGuard + 1 <= top
  BY BringUpAssumption DEF Most
<1> HIDE DEF top
<1>2. spins \in 0..top
  BY DEF Counts, top
<1>3. CASE CalibRound
  BY <1>1, <1>3 DEF CalibRound, Counts, top
<1>4. CASE CalibSpin
  <2>1. UNCHANGED <<hits, deltas, rate, icr>> /\ pc = "spin" /\ pc' \in {"ccr", "panic", "spin"}
    BY <1>4 DEF CalibSpin
  <2>2. /\ spins' = spins \/ spins' = spins + 1
        /\ pc' = "spin" => spins' <= SpinGuard
    BY <1>1, <1>2, <1>4 DEF CalibSpin, Counts
  <2>3. spins' \in 0..top
    BY <1>1, <1>2, <2>1, <2>2 DEF Counts
  <2> QED
    BY <2>1, <2>2, <2>3 DEF Counts, top
<1>5. CASE CalibRead
  <2>1. /\ UNCHANGED <<spins, hits, rate, icr>> /\ pc = "ccr" /\ pc' \in {"round", "panic"}
        /\ \/ deltas' = deltas
           \/ \E d \in Deltas \ {0} : deltas' = Append(deltas, d)
    BY <1>5 DEF CalibRead
  <2>2. deltas \in Seq(1..U32Max) /\ Len(deltas) < 3 /\ Len(deltas) \in Nat
    BY <2>1 DEF Counts
  <2>3. \A d \in Deltas \ {0} : d \in 1..U32Max
    BY BringUpAssumption
  <2>4. deltas' \in Seq(1..U32Max) /\ Len(deltas') <= 3
    <3>1. CASE deltas' = deltas
      BY <2>2, <3>1
    <3>2. ASSUME NEW d \in 1..U32Max, deltas' = Append(deltas, d)
          PROVE  deltas' \in Seq(1..U32Max) /\ Len(deltas') = Len(deltas) + 1
      BY <2>2, <3>2
    <3> QED
      BY <2>1, <2>2, <2>3, <3>1, <3>2
  <2> QED
    BY <2>1, <2>4 DEF Counts
<1>6. CASE CalibStore
  <2> DEFINE r == calibrate_ticks(median(deltas[1], deltas[2], deltas[3]), 100, CalibTicks)
  <2>1. r \in 0..U32Max
    BY <1>6, RateFits DEF CalibStore, Counts
  <2>2. /\ UNCHANGED <<spins, deltas, icr, hits>> /\ pc = "round" /\ pc' \in {"panic", "int3"}
        /\ rate' = rate \/ rate' = r
    BY <1>6 DEF CalibStore
  <2> HIDE DEF r
  <2> QED
    BY <2>1, <2>2 DEF Counts
<1>7. CASE syscall_stub_handler
  BY <1>7 DEF syscall_stub_handler, Counts
<1>8. CASE WriteIcr
  BY <1>1, <1>8 DEF WriteIcr, Counts, top
<1>9. CASE SoakAgain
  BY <1>1, <1>2, <1>9 DEF SoakAgain, Counts, top
<1>10. CASE SoakStalled \/ SoakDone
  <2>1. /\ UNCHANGED <<deltas, rate, icr, hits>> /\ pc = "soak_apic" /\ pc' \in {"halt", "check"}
        /\ spins' = 0
    BY <1>10, Zenon DEF SoakStalled, SoakDone
  <2>2. spins' \in 0..top
    BY <1>1, <2>1
  <2> QED
    BY <2>1, <2>2 DEF Counts, top
<1>11. CASE WatchBase
  BY <1>1, <1>11 DEF WatchBase, Counts, top
<1>12. CASE Watch
  <2>1. /\ UNCHANGED <<deltas, rate, icr, hits>> /\ pc = "watch" /\ pc' \in {"proof", "watch", "rollback"}
        /\ spins' = 0 \/ (spins' = spins + 1 /\ spins + 1 <= SoakGuard)
    BY <1>12 DEF Watch
  <2>2. spins' \in 0..top /\ spins' <= SoakGuard
    BY <1>1, <1>2, <2>1
  <2> QED
    BY <2>1, <2>2 DEF Counts, top
<1>13. CASE /\ UNCHANGED <<spins, deltas, rate, icr, hits>>
            /\ pc' = pc \/ pc' \notin {"spin", "ccr", "soak", "watch", "int80_again"}
            /\ pc' = "soak_apic" => pc \in {"soak", "soak_apic"}
            /\ pc' \in BeforeSelfTest => pc \in BeforeSelfTest
  BY <1>13 DEF Counts
<1>14. CASE interrupts_init \/ probe \/ apic_init \/ timer_init \/ Sti \/ Breakpoint
            \/ HitsAsserted \/ start_periodic \/ panic
  BY <1>13, <1>14, Zenon DEF interrupts_init, probe, apic_init, timer_init, Sti, Breakpoint,
     HitsAsserted, start_periodic, panic, bring
<1>15. CASE ReadPic \/ PromotionCheck \/ WithoutInterrupts \/ LockPics \/ WriteMasks
            \/ UnlockPics
  BY <1>13, <1>15, Zenon DEF ReadPic, PromotionCheck, WithoutInterrupts, LockPics, WriteMasks,
     UnlockPics, bring
<1>16. CASE UNCHANGED <<bring, pc, why>>
  BY <1>13, <1>16 DEF bring
<1> QED
  BY <1>3, <1>4, <1>5, <1>6, <1>7, <1>8, <1>9, <1>10, <1>11, <1>12, <1>14, <1>15, <1>16
  DEF BootNext, BesideBoot, Boot, BringUpSteps, Booted, bootVars

\* Every step keeps the flags and the program counter within their types.
LEMMA StepFlags == Flags /\ [BootNext]_bootVars => Flags'
<1> SUFFICES ASSUME Flags, [BootNext]_bootVars PROVE Flags'
  OBVIOUS
<1> USE DEF Goto, Halt, Flags
<1>1. CASE UNCHANGED <<asleep, tirr, pit, lapic, fence, yanked, lvt, irr>>
           /\ pc' \in BringUpPcs \cup {"proof", "panic", "halt", "dead"}
  BY <1>1, Zenon
<1>2. CASE BesideBoot(Hardware)
  <2>1. UNCHANGED <<pc, asleep, fence, yanked, lvt>>
    BY <1>2 DEF BesideBoot, Hardware, PitFires, LapicFires, OtherLine, ClockDies
  <2>2. tirr' \in {tirr, TRUE} /\ pit' \in {pit, FALSE} /\ lapic' \in {lapic, FALSE}
    BY <1>2, Zenon DEF BesideBoot, Hardware, PitFires, LapicFires, OtherLine, ClockDies
  <2>3. irr' \subseteq Lines
    BY <1>2, Zenon DEF BesideBoot, Hardware, PitFires, LapicFires, OtherLine, ClockDies, Lines
  <2> QED
    BY <2>1, <2>2, <2>3, Zenon
<1>3. CASE BesideBoot(Handlers)
  <2>1. UNCHANGED <<pc, pit, lapic, fence, lvt>>
    BY <1>3 DEF BesideBoot, Handlers, IrqEntry, IrqExit, lapic_preempt_stub,
       spurious_handler, spurious_pic_master_handler
  <2>2. tirr' \in {tirr, FALSE} /\ asleep' \in {asleep, FALSE} /\ irr' \subseteq irr
    BY <1>3, Zenon DEF BesideBoot, Handlers, IrqEntry, IrqExit, lapic_preempt_stub,
       spurious_handler, spurious_pic_master_handler
  <2>3. yanked' \in {yanked, (yanked \/ fence)}
    BY <1>3 DEF BesideBoot, Handlers, IrqEntry, IrqExit, lapic_preempt_stub,
       spurious_handler, spurious_pic_master_handler
  <2>4. yanked' \in BOOLEAN
    BY <2>3, Zenon
  <2>5. tirr' \in BOOLEAN /\ asleep' \in BOOLEAN
    BY <2>2, Zenon
  <2> QED
    BY <2>1, <2>2, <2>4, <2>5
<1>4. CASE interrupts_init \/ apic_init \/ start_periodic \/ panic
  <2>1. UNCHANGED <<asleep, tirr, pit, lapic, yanked>>
    BY <1>4, Zenon DEF interrupts_init, apic_init, start_periodic, panic
  <2>2. fence' \in {fence, FALSE} /\ lvt' \in {lvt, "masked", "periodic"} /\ irr' \in {irr, {}}
    BY <1>4, Zenon DEF interrupts_init, apic_init, start_periodic, panic
  <2>3. pc' \in BringUpPcs \cup {"panic", "dead"}
    BY <1>4 DEF interrupts_init, apic_init, start_periodic, panic, BringUpPcs
  <2> QED
    BY <2>1, <2>2, <2>3, Zenon
<1>5. CASE probe \/ timer_init \/ Sti \/ CalibRound \/ CalibSpin \/ CalibRead \/ CalibStore
           \/ Breakpoint \/ syscall_stub_handler \/ HitsAsserted
  BY <1>1, <1>5 DEF probe, timer_init, Sti, CalibRound, CalibSpin, CalibRead, CalibStore,
     Breakpoint, syscall_stub_handler, HitsAsserted, BringUpPcs, clocks
<1>6. CASE WriteIcr \/ ReadPic \/ SoakAgain \/ SoakStalled \/ SoakDone \/ PromotionCheck
           \/ WatchBase \/ Watch
  BY <1>1, <1>6, Zenon DEF WriteIcr, ReadPic, SoakAgain, SoakStalled, SoakDone, PromotionCheck,
     WatchBase, Watch, BringUpPcs, clocks
<1>7. CASE WithoutInterrupts \/ LockPics \/ WriteMasks \/ UnlockPics
  BY <1>1, <1>7 DEF WithoutInterrupts, LockPics, WriteMasks, UnlockPics, BringUpPcs
<1>8. CASE UNCHANGED bootVars
  BY <1>1, <1>8 DEF bootVars, clocks
<1> QED
  BY <1>2, <1>3, <1>4, <1>5, <1>6, <1>7, <1>8
  DEF BootNext, BesideBoot, Boot, BringUpSteps, Booted

\* Every count of the bring-up stays within its bound, for every guard, gate and
\* window: a spin counter passes its guard at most once (the code's counters do
\* not wrap), three windows are the most calibration stores, and the rate and the
\* initial count fit the u32 register they are written to.
THEOREM BootTypeSafe == BootSpec => []BootTypeOK
<1>1. BootInit => Counts /\ Flags
  <2> SUFFICES ASSUME BootInit PROVE Counts /\ Flags
    OBVIOUS
  <2>1. Counts
    BY BringUpAssumption DEF BootInit, BringUpInit, Counts, Most
  <2>2. Flags
    BY Zenon DEF BootInit, ClocksInit, BringUpInit, Flags, BringUpPcs
  <2> QED
    BY <2>1, <2>2
<1>2. IInv /\ Counts /\ Flags => BootTypeOK
  <2> SUFFICES ASSUME IInv, Counts, Flags PROVE BootTypeOK
    OBVIOUS
  <2>1. Typed /\ serving \subseteq Lines
    BY DEF IInv, Exclusion
  <2>2. pic \in 0..2 * Gate
    BY TicksAssumption DEF IInv, Typed, Stages
  <2> QED
    BY <2>1, <2>2 DEF Typed, Counts, Flags, BootTypeOK
<1> QED
  BY <1>1, <1>2, StepCounts, StepFlags, BootInvariant, PTL DEF BootSpec
=============================================================================
