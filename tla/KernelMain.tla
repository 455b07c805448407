------------------------------- MODULE KernelMain -------------------------------
(***************************************************************************)
(* The whole boot: kernel_main (BringUp, then Demo) interleaved with the   *)
(* clocks, the interrupt handlers and the panic handler.                   *)
(***************************************************************************)
EXTENDS Demo

vars == <<clocks, bring, pc, why, demo>>

Init == ClocksInit /\ BringUpInit /\ DemoInit

Main == (Boot /\ UNCHANGED demo) \/ DemoSteps

\* What happens beside main.
Beside(A) == A /\ UNCHANGED <<bring, pc, why, demo>>

\* hlt in an endless loop, woken or not.
Stopped == pc \in {"halt", "dead"} /\ UNCHANGED vars

Next ==
  \/ Beside(Hardware) \/ Beside(Handlers)
  \/ Main
  \/ Stopped

Spec == Init /\ [][Next]_vars

\* As in BringUp.
FairSpec ==
  /\ Spec
  /\ SF_vars(Main) /\ WF_vars(Beside(IrqExit))
  /\ WF_vars(Beside(PitFires))
  /\ WF_vars(Beside(LapicFires))
  /\ SF_vars(Beside(IrqEntry(0)))
  /\ SF_vars(Beside(lapic_preempt_stub))
-----------------------------------------------------------------------------
\* The type of the driver's variables; its two guarded counters pass their guard
\* at most once.
TypeOK ==
  /\ pc \in BringUpPcs \cup DemoPcs \cup {"panic", "halt", "dead"}
  /\ policy \in {"none", "rr", "cfs"} /\ ready \in Seq(Names)
  /\ task \in Names \cup {"none"} /\ runs \in [Names -> 0..FairRuns]
  /\ vruntime \in [Names -> 0..2 * FairRuns + 1] /\ preempts \in BOOLEAN
  /\ passes \in 0..SchedGuard + 1 /\ schedules \in 0..SchedGuard + 1

\* None of the four "sched FAILED" verdicts of main.rs can come true, under either
\* policy and whatever the interleaving: nothing runs away, no nap outlives the
\* guard, a yank is always seen and the ledger is 5, 5, 5 and 1.
NoFalseAlarm == why \notin {"asleep forever", "runaway", "silent", "unfair"}

\* Under CFS "gamma first by weight" (main.rs:447), however the ticks fall.
GammaFirst ==
  policy = "cfs" /\ runs["gamma"] < FairRuns =>
    runs["alpha"] < FairRuns /\ runs["beta"] < FairRuns

\* Once the driver waits, the demo comes online unless the LAPIC timer dies: no
\* wake-up is lost for good between the look at APIC_TICKS and the hlt.
DemoFinishes == pc = "wait" ~> (why = "online" \/ ~lapic)

\* "A consecutive-false counter trips the runaway guard if ticks die"
\* (main.rs:352): a demo whose ticks have died halts with a message.
DeadTicksAreReported == (pc = "wait" /\ ~lapic) ~> pc \in {"halt", "dead"}
=============================================================================
