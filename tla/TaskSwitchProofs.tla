--------------------------- MODULE TaskSwitchProofs ---------------------------
(***************************************************************************)
(* TaskSwitch for every number of slots, stacks, tasks and ticks: IInv is  *)
(* inductive, and the safety properties of the switch path follow from it. *)
(* The proof has one lemma per phase of the switch path (spawn, pick,      *)
(* switch, trampoline, retirement, tick) and in it one case per action.    *)
(* In these lemmas step <1>0 lists the conjuncts of IInv, <1>a what the    *)
(* task held by the driver owns, and <2>l which tasks are live.            *)
(***************************************************************************)
EXTENDS TaskSwitch, TLAPS

\* push_back on the ready queue: one element more, the others in place.
LEMMA AppendFacts ==
  ASSUME NEW S, NEW q \in Seq(S), NEW x \in S
  PROVE  /\ Append(q, x) \in Seq(S)
         /\ DOMAIN q = 1..Len(q) /\ DOMAIN Append(q, x) = 1..Len(q) + 1
         /\ Len(Append(q, x)) = Len(q) + 1 /\ Len(q) \in Nat
         /\ \A n \in 1..Len(q) : Append(q, x)[n] = q[n]
         /\ Append(q, x)[Len(q) + 1] = x
OBVIOUS

\* pop_front of the ready queue: the head, and the others one place forward.
LEMMA TailFacts ==
  ASSUME NEW S, NEW q \in Seq(S), Len(q) > 0
  PROVE  /\ Head(q) \in S /\ Head(q) = q[1] /\ Tail(q) \in Seq(S)
         /\ DOMAIN q = 1..Len(q) /\ DOMAIN Tail(q) = 1..Len(q) - 1
         /\ Len(Tail(q)) = Len(q) - 1 /\ Len(q) \in Nat
         /\ \A n \in 1..Len(q) - 1 : Tail(q)[n] = q[n + 1]
OBVIOUS

\* What OwnInv says of the task the driver holds.
HeldTaskFacts ==
  /\ slot[run] \in Slots /\ stack[run] \in Windows /\ ctx[run] = stack[run]
  /\ slot[run] < MaxTasks /\ slot[run] \in 0..MaxTasks /\ run # 0
  /\ slot[run] \in used \/ pc \in {"set_bit", "drop"}
  /\ frames[slot[run]] \in {stack[run], Below} \/ pc \in {"clear_bit", "drop"}
  /\ frames[slot[run]] = Below => ~canary[run]
  /\ bounds[slot[run]] = stack[run] \/ pc \in {"set_bit", "set_bounds"}
  /\ ptrs[slot[run]] = run \/ pc \in Spawning \cup (Retiring \ {"clear_ptr"})

\* The task in the driver's hands owns its slot and its stack, up to the part of
\* a spawn not yet done and the part of a retirement already done.
LEMMA HeldTask ==
  ASSUME OwnInv, run \in Ids, Live(run)
  PROVE  HeldTaskFacts
BY MaxTasksAssumption, BoundsAssumption DEF OwnInv, HeldTaskFacts, Ids, Slots

\* TASK_PTRS stays sound when no pointer changes and no task or bit goes away.
LEMMA PointersKept ==
  ASSUME TableType, NoDanglingPointer,
         UNCHANGED <<ptrs, slot>>, used \subseteq used',
         \A i \in Ids : Live(i) => Live(i)'
  PROVE  NoDanglingPointer'
<1> SUFFICES ASSUME NEW s \in Slots, ptrs[s] # 0
             PROVE  Live(ptrs[s])' /\ slot[ptrs[s]] = s /\ s \in used'
  BY DEF NoDanglingPointer
<1>1. ptrs[s] \in 0..MaxId
  BY DEF TableType
<1>2. ptrs[s] \in Ids
  BY <1>1, BoundsAssumption DEF Ids
<1> QED BY <1>2 DEF NoDanglingPointer, Live

\* TASK_FRAMES stays sound when no frame changes and no task goes away.
LEMMA FramesKept ==
  ASSUME FramesNameLiveStacks, UNCHANGED <<frames, slot, stack>>,
         \A i \in Ids : Live(i) => Live(i)'
  PROVE  FramesNameLiveStacks'
BY DEF FramesNameLiveStacks

\* Slots and stacks stay exclusive when no task appears.
LEMMA ExclusiveKept ==
  ASSUME SlotsAndStacksExclusive, UNCHANGED <<slot, stack>>,
         \A i \in Ids : Live(i)' => Live(i)
  PROVE  SlotsAndStacksExclusive'
BY DEF SlotsAndStacksExclusive

\* Outside spawn and retirement a step that writes none of the tables leaves
\* every task what it owns.
LEMMA OwnKept ==
  ASSUME OwnInv, pc \notin Spawning \cup Retiring,
         UNCHANGED <<ptrs, slot, used, frames, bounds, stack, ctx, canary>>,
         \A i \in Ids : Live(i)' => Live(i)
  PROVE  OwnInv'
BY DEF OwnInv, Spawning, Retiring

\* The queue holds every task still when neither it nor a task's life changes.
LEMMA QueueKept ==
  ASSUME QueueHoldsEveryTask, UNCHANGED <<ready, run>>,
         \A i \in Ids : Live(i)' <=> Live(i),
         \A i \in Ids : state'[i] = "Running" => state[i] = "Running" \/ i = run
  PROVE  QueueHoldsEveryTask'
BY DEF QueueHoldsEveryTask

\* push_back of the held task, by spawn and by the requeue: it is in the queue
\* once and the driver holds nobody.
LEMMA Enqueued ==
  ASSUME QueueType, QueueHoldsEveryTask, run \in Ids, Live(run), state[run] # "Running",
         ready' = Append(ready, run), run' = 0, UNCHANGED <<left, state>>
  PROVE  QueueType' /\ QueueHoldsEveryTask'
<1>1. \A i \in Ids : Live(i)' <=> Live(i)
  BY DEF Live
<1>2. /\ ready' \in Seq(Ids) /\ Len(ready') = Len(ready) + 1 /\ Len(ready) \in Nat
      /\ DOMAIN ready = 1..Len(ready) /\ DOMAIN ready' = 1..Len(ready) + 1
      /\ \A n \in 1..Len(ready) : ready'[n] = ready[n]
      /\ ready'[Len(ready) + 1] = run
  BY AppendFacts DEF QueueType
<1>3. QueueType'
  BY <1>2 DEF QueueType
<1>4. \A n \in 1..Len(ready) : ready[n] # run
  BY <1>2 DEF QueueHoldsEveryTask
<1>5. \A m, n \in DOMAIN ready' : ready'[m] = ready'[n] => m = n
  BY <1>2, <1>4 DEF QueueHoldsEveryTask
<1>6. ASSUME NEW i \in Ids
      PROVE  (Live(i) /\ i # 0) <=> (\E n \in DOMAIN ready' : ready'[n] = i)
  <2>1. i # 0 /\ Len(ready) + 1 \in DOMAIN ready'
    BY <1>2, BoundsAssumption DEF Ids
  <2>2. CASE i = run
    BY <1>2, <2>1, <2>2
  <2>3. CASE i # run
    <3>1. Live(i) <=> \E n \in DOMAIN ready : ready[n] = i
      BY <2>3 DEF QueueHoldsEveryTask
    <3> QED BY <1>2, <2>1, <2>3, <3>1
  <2> QED BY <2>2, <2>3
<1> QED BY <1>1, <1>3, <1>5, <1>6 DEF QueueHoldsEveryTask

\* pop_front and push_back of a sleeper: the same tasks, each once.
LEMMA Rotated ==
  ASSUME QueueType, QueueHoldsEveryTask, left > 0,
         ready' = Append(Tail(ready), Head(ready)), left' = left - 1, UNCHANGED <<run, state>>
  PROVE  QueueType' /\ QueueHoldsEveryTask'
<1>1. \A i \in Ids : Live(i)' <=> Live(i)
  BY DEF Live
<1>2. Len(ready) \in Nat /\ Len(ready) > 0 /\ left \in 1..Len(ready) /\ ready \in Seq(Ids)
  BY DEF QueueType
<1>3. /\ Head(ready) \in Ids /\ Head(ready) = ready[1] /\ Tail(ready) \in Seq(Ids)
      /\ DOMAIN ready = 1..Len(ready) /\ Len(Tail(ready)) = Len(ready) - 1
      /\ \A n \in 1..Len(ready) - 1 : Tail(ready)[n] = ready[n + 1]
  BY <1>2, TailFacts
<1>4. /\ ready' \in Seq(Ids) /\ Len(ready') = Len(ready)
      /\ DOMAIN ready' = 1..Len(ready)
      /\ \A n \in 1..Len(ready) - 1 : ready'[n] = ready[n + 1]
      /\ ready'[Len(ready)] = ready[1]
  <2> DEFINE q == Tail(ready)  x == Head(ready)
  <2>1. q \in Seq(Ids) /\ x \in Ids /\ ready' = Append(q, x)
    BY <1>3
  <2>2. /\ Append(q, x) \in Seq(Ids) /\ DOMAIN Append(q, x) = 1..Len(q) + 1
        /\ Len(Append(q, x)) = Len(q) + 1
        /\ \A n \in 1..Len(q) : Append(q, x)[n] = q[n]
        /\ Append(q, x)[Len(q) + 1] = x
    BY <2>1, AppendFacts
  <2>3. Len(q) = Len(ready) - 1 /\ x = ready[1] /\ Len(q) + 1 = Len(ready)
    BY <1>2, <1>3
  <2>4. \A n \in 1..Len(ready) - 1 : q[n] = ready[n + 1]
    BY <1>3
  <2> HIDE DEF q, x
  <2> QED BY <2>1, <2>2, <2>3, <2>4, Zenon
<1>5. QueueType'
  BY <1>2, <1>4 DEF QueueType
<1>6. \A m, n \in DOMAIN ready' : ready'[m] = ready'[n] => m = n
  BY <1>2, <1>3, <1>4 DEF QueueHoldsEveryTask
<1>7. ASSUME NEW i \in Ids
      PROVE  (\E n \in DOMAIN ready : ready[n] = i) <=> (\E n \in DOMAIN ready' : ready'[n] = i)
  <2>1. ASSUME NEW n \in DOMAIN ready, ready[n] = i
        PROVE  \E m \in DOMAIN ready' : ready'[m] = i
    <3>1. CASE n = 1
      BY <1>2, <1>4, <2>1, <3>1
    <3>2. CASE n # 1
      <4>1. n - 1 \in 1..Len(ready) - 1 /\ ready'[n - 1] = ready[(n - 1) + 1] /\ (n - 1) + 1 = n
        BY <1>2, <1>3, <1>4, <2>1, <3>2
      <4> QED BY <1>2, <1>4, <2>1, <4>1
    <3> QED BY <3>1, <3>2
  <2>2. ASSUME NEW n \in DOMAIN ready', ready'[n] = i
        PROVE  \E m \in DOMAIN ready : ready[m] = i
    <3>1. CASE n = Len(ready)
      BY <1>2, <1>3, <1>4, <2>2, <3>1
    <3>2. CASE n # Len(ready)
      BY <1>2, <1>3, <1>4, <2>2, <3>2
    <3> QED BY <3>1, <3>2
  <2> QED BY <2>1, <2>2
<1> QED BY <1>1, <1>5, <1>6, <1>7 DEF QueueHoldsEveryTask

\* pop_front of the task to run: it leaves the queue and is the one Running task.
LEMMA Dequeued ==
  ASSUME QueueType, QueueHoldsEveryTask, TaskType, left > 0, run = 0,
         run' = Head(ready), ready' = Tail(ready), left' = 0,
         state' = [state EXCEPT ![Head(ready)] = "Running"]
  PROVE  /\ QueueType' /\ QueueHoldsEveryTask'
         /\ run' \in Ids /\ Live(run')
         /\ \A i \in Ids : Live(i)' <=> Live(i)
         /\ \A i \in Ids : state'[i] = IF i = run' THEN "Running" ELSE state[i]
<1>2. Len(ready) \in Nat /\ Len(ready) > 0 /\ ready \in Seq(Ids)
  BY DEF QueueType
<1>3. /\ run' \in Ids /\ run' = ready[1] /\ ready' \in Seq(Ids)
      /\ DOMAIN ready = 1..Len(ready) /\ Len(ready') = Len(ready) - 1
      /\ DOMAIN ready' = 1..Len(ready) - 1
      /\ \A n \in 1..Len(ready) - 1 : ready'[n] = ready[n + 1]
  BY <1>2, TailFacts
<1>4. Live(run')
  BY <1>2, <1>3 DEF QueueHoldsEveryTask
<1>5. \A i \in Ids : state'[i] = IF i = run' THEN "Running" ELSE state[i]
  BY <1>3 DEF TaskType
<1>6. \A i \in Ids : Live(i)' <=> Live(i)
  BY <1>3, <1>4, <1>5 DEF Live, TaskStates
<1>7. QueueType'
  BY <1>2, <1>3 DEF QueueType
<1>8. \A m, n \in DOMAIN ready' : ready'[m] = ready'[n] => m = n
  BY <1>2, <1>3 DEF QueueHoldsEveryTask
<1>9. ASSUME NEW i \in Ids
      PROVE  (Live(i) /\ i # run') <=> (\E n \in DOMAIN ready' : ready'[n] = i)
  <2>1. ASSUME Live(i), i # run'
        PROVE  \E n \in DOMAIN ready' : ready'[n] = i
    <3>1. PICK n \in DOMAIN ready : ready[n] = i
      BY <2>1, BoundsAssumption DEF QueueHoldsEveryTask, Ids
    <3>2. n - 1 \in 1..Len(ready) - 1 /\ ready'[n - 1] = ready[(n - 1) + 1] /\ (n - 1) + 1 = n
      BY <1>2, <1>3, <2>1, <3>1
    <3> QED BY <1>3, <3>1, <3>2
  <2>2. ASSUME NEW n \in DOMAIN ready', ready'[n] = i
        PROVE  Live(i) /\ i # run'
    <3>1. n + 1 \in DOMAIN ready /\ ready[n + 1] = i /\ n + 1 # 1 /\ 1 \in DOMAIN ready
      BY <1>2, <1>3, <2>2
    <3> QED BY <1>3, <3>1 DEF QueueHoldsEveryTask
  <2> QED BY <2>1, <2>2
<1>10. \A i \in Ids : state'[i] = "Running" => i = run'
  BY <1>5, BoundsAssumption DEF QueueHoldsEveryTask, Ids
<1> QED BY <1>3, <1>4, <1>5, <1>6, <1>7, <1>8, <1>9, <1>10 DEF QueueHoldsEveryTask

\* A step that touches neither the tables, the queue nor any task, outside a
\* spawn or a retirement, has to re-establish only the control conjuncts.
LEMMA QuietStep ==
  ASSUME IInv, pc \notin Spawning \cup Retiring,
         UNCHANGED <<ptrs, used, frames, bounds, queue, run, tcb>>,
         ControlType', ControlInv', LifeInv', RetireInv', AssertionsHold'
  PROVE  IInv'
<1> USE DEF queue, made, tcb
<1>1. \A i \in Ids : Live(i)' <=> Live(i)
  BY DEF Live
<1>2. TableType' /\ TaskType'
  BY DEF IInv, TypeOK, TableType, TaskType
<1>3. QueueType'
  BY DEF IInv, TypeOK, QueueType
<1> QED
  BY <1>1, <1>2, <1>3, OwnKept, PointersKept, FramesKept, ExclusiveKept, QueueKept
     DEF IInv, TypeOK

\* Task::new and spawn fill in the slot of the new task, fact by fact.
LEMMA SpawnStep ==
  ASSUME IInv,
         Create \/ RefuseTask \/ SetBit \/ set_slot_bounds \/ spawn
  PROVE  IInv'
<1> USE MaxTasksAssumption, StacksAssumption, BoundsAssumption
<1> USE DEF Goto, Panic, BootPcs, TaskPcs, PanicPcs, Spawning, Retiring, irq, stub,
        queue, made, tcb, HeldTaskFacts
<1>0. /\ ControlType /\ TableType /\ QueueType /\ TaskType /\ ControlInv /\ LifeInv
      /\ OwnInv /\ RetireInv /\ AssertionsHold /\ NoDanglingPointer
      /\ FramesNameLiveStacks /\ SlotsAndStacksExclusive /\ QueueHoldsEveryTask
  BY DEF IInv, TypeOK
<1>n. /\ MaxTasks \in 0..MaxTasks /\ 0 \in 0..MaxId /\ 0 \in 0..MaxTick /\ 0 \notin Ids
      /\ Slots \subseteq 0..MaxTasks /\ Ids \subseteq 0..MaxId /\ MaxTasks \notin Slots
  BY DEF Slots, Ids
<1>a. run \in Ids /\ Live(run) => HeldTaskFacts
  BY <1>0, HeldTask
<1>b. pc \notin {"driver", "pick"} \cup PanicPcs => run \in Ids /\ Live(run)
  BY <1>0 DEF ControlInv
<1>c. pc = "tramp" => task_at(current) = run
  BY <1>0, <1>a, <1>b DEF ControlInv, OnTaskStack, task_at
<1>1. ASSUME NEW w \in Windows, NEW st \in {"Ready", "Sleeping"}, NEW u \in 0..MaxTick,
             NEW s \in Slots, NewTask(w, st, u, s)
      PROVE  IInv'
  <2>a. nextId \in Ids /\ ~Live(nextId) /\ run = 0 /\ pc = "driver"
    BY <1>1, <1>0 DEF NewTask, TableType, TaskType, ControlType, LifeInv, ControlInv,
        Live, Ids, TaskStates
  <2>b. \A i \in Ids : Live(i)' <=> Live(i) \/ i = nextId
    BY <1>1, <1>0, <2>a, Zenon DEF NewTask, TableType, TaskType, ControlType, Live, TaskStates
  <2>c. \A i \in Ids : Live(i) => slot[i] # s /\ stack[i] # w /\ i # nextId /\ i # run'
    BY <1>1, <1>0, <2>a DEF NewTask, alloc_slot, Free, OwnInv, Ids
  <2>d. \A i \in Ids : i # nextId => slot'[i] = slot[i] /\ stack'[i] = stack[i] /\
        ctx'[i] = ctx[i] /\ canary'[i] = canary[i] /\ state'[i] = state[i]
    BY <1>1, <1>0, <2>a, Zenon DEF NewTask, TableType, TaskType, ControlType
  <2>e. slot'[nextId] = s /\ stack'[nextId] = w /\ ctx'[nextId] = w /\ canary'[nextId]
        = TRUE /\ state'[nextId] = st
    BY <1>1, <1>0, <2>a, Zenon DEF NewTask, TableType, TaskType, ControlType
  <2>f. frames'[s] = w /\ \A r \in Slots : r # s => frames'[r] = frames[r]
    BY <1>1, <1>0, Zenon DEF NewTask, TableType, TaskType, ControlType
  <2>1. TableType' /\ QueueType'
    BY <1>1, <1>0, <1>n, <1>a, <1>b DEF TableType, QueueType, NewTask
  <2>2. RetireInv' /\ AssertionsHold'
    BY <1>1, <1>0 DEF ControlInv, RetireInv, AssertionsHold, NewTask
  <2>3. ControlType'
    BY <1>1, <1>0, <1>n, <1>a, <1>b DEF ControlType, ControlInv, NewTask
  <2>4. TaskType'
    <3>1. state' \in [Ids -> TaskStates \cup {"Unborn", "Dropped"}]
      BY <1>1, <1>0, <2>a DEF TaskType, NewTask, TaskStates
    <3>2. until' \in [Ids -> 0..MaxTick] /\ slot' \in [Ids -> 0..MaxTasks]
      BY <1>1, <1>0, <1>n, <2>a DEF TaskType, NewTask
    <3>3. stack' \in [Ids -> Windows \cup {None}] /\ ctx' \in [Ids -> Windows \cup {None}]
      BY <1>1, <1>0, <2>a DEF TaskType, NewTask
    <3>4. canary' \in [Ids -> BOOLEAN] /\ runs' = runs
      BY <1>1, <1>0, <2>a DEF TaskType, NewTask
    <3> QED BY <1>0, <3>1, <3>2, <3>3, <3>4 DEF TaskType
  <2>5. ControlInv'
    BY <1>1, <1>0, <2>a, <2>b DEF ControlInv, OnTaskStack, NewTask
  <2>6. LifeInv'
    <3>1. nextId \in Nat /\ nextId' = nextId + 1 /\ run' = nextId /\ pc' = "set_bit"
      BY <1>1, <2>a DEF NewTask, Ids
    <3>2. \A i \in Ids : i \in Nat /\ state[i] \notin {"Running", "Finished"}
      BY <1>0, <1>n, <2>a DEF LifeInv, Ids
    <3>3. \A i \in Ids : state'[i] = "Unborn" <=> i >= nextId'
      BY <1>0, <2>a, <2>d, <2>e, <3>1, <3>2 DEF LifeInv
    <3>4. \A i \in Ids : state'[i] \notin {"Running", "Finished"}
      BY <2>d, <2>e, <3>2
    <3> QED BY <2>a, <2>e, <3>1, <3>3, <3>4, Zenon DEF LifeInv
  <2>7. OwnInv'
    <3>1. run' = nextId /\ pc' = "set_bit" /\ UNCHANGED <<used, bounds, ptrs>>
      BY <1>1 DEF NewTask, Goto
    <3> SUFFICES ASSUME NEW i \in Ids, Live(i)'
                 PROVE  /\ slot'[i] \in Slots /\ stack'[i] \in Windows /\ ctx'[i] = stack'[i]
                        /\ slot'[i] \in used \/ i = run'
                        /\ frames'[slot'[i]] \in {stack'[i], Below}
                        /\ frames'[slot'[i]] = Below => ~canary'[i]
                        /\ bounds[slot'[i]] = stack'[i] \/ i = run'
                        /\ ptrs[slot'[i]] = i \/ i = run'
      BY <3>1 DEF OwnInv, Spawning
    <3>2. CASE i = nextId
      <4>1. w # Below
        BY StacksAssumption
      <4> QED BY <2>e, <2>f, <3>1, <3>2, <4>1
    <3>3. CASE i # nextId
      <4>1. Live(i) /\ i # run
        BY <1>n, <2>a, <2>b, <3>3
      <4>2. /\ slot[i] \in Slots /\ stack[i] \in Windows /\ ctx[i] = stack[i]
            /\ slot[i] \in used /\ frames[slot[i]] \in {stack[i], Below}
            /\ frames[slot[i]] = Below => ~canary[i]
            /\ bounds[slot[i]] = stack[i] /\ ptrs[slot[i]] = i
        BY <1>0, <4>1 DEF OwnInv
      <4>3. frames'[slot[i]] = frames[slot[i]]
        BY <2>c, <2>f, <4>1, <4>2
      <4> QED BY <2>d, <3>3, <4>2, <4>3
    <3> QED BY <3>2, <3>3
  <2>8. NoDanglingPointer'
    <3> SUFFICES ASSUME NEW x \in Slots, ptrs[x] # 0
                 PROVE  Live(ptrs[x])' /\ slot'[ptrs[x]] = x /\ x \in used
      BY <1>1 DEF NoDanglingPointer, NewTask
    <3>1. ptrs[x] \in Ids
      BY <1>0 DEF TableType, Ids
    <3>2. Live(ptrs[x]) /\ slot[ptrs[x]] = x /\ x \in used
      BY <1>0 DEF NoDanglingPointer
    <3>3. ptrs' = ptrs
      BY <1>1 DEF NewTask
    <3> QED BY <2>b, <2>c, <2>d, <3>1, <3>2, <3>3 DEF Live
  <2>9. FramesNameLiveStacks'
    BY <1>1, <1>0, <2>a, <2>b, <2>c, <2>d, <2>e, <2>f DEF FramesNameLiveStacks
  <2>10. SlotsAndStacksExclusive'
    BY <1>1, <1>0, <2>b, <2>c, <2>d, <2>e DEF SlotsAndStacksExclusive
  <2>11. QueueHoldsEveryTask'
    <3>1. ready' = ready /\ run' = nextId
      BY <1>1 DEF NewTask
    <3>2. \A i \in Ids : (Live(i)' /\ i # nextId) <=> (Live(i) /\ i # run)
      BY <1>n, <2>a, <2>b
    <3>3. \A i \in Ids : state'[i] = "Running" => i = nextId
      BY <1>0, <1>n, <2>a, <2>d DEF QueueHoldsEveryTask
    <3> QED BY <1>0, <3>1, <3>2, <3>3 DEF QueueHoldsEveryTask
  <2> QED BY <2>1, <2>2, <2>3, <2>4, <2>5, <2>6, <2>7, <2>8, <2>9, <2>10, <2>11 DEF
      IInv, TypeOK
<1>2. CASE RefuseTask
  <2>1. UNCHANGED <<ptrs, used, frames, bounds, queue, run, tcb>> /\ pc \notin Spawning
        \cup Retiring
    BY <1>2, Zenon DEF RefuseTask
  <2>2. ControlType'
    BY <1>2, <1>0, <1>n, <1>a, <1>b, Zenon DEF ControlType, ControlInv, RefuseTask
  <2>3. ControlInv'
    BY <1>2, <1>0, <1>a, <1>b, <1>c, Zenon DEF ControlInv, OnTaskStack, Live, RefuseTask
  <2>4. LifeInv' /\ RetireInv' /\ AssertionsHold'
    BY <1>2, <1>0, Zenon DEF ControlInv, LifeInv, RetireInv, AssertionsHold, RefuseTask
  <2> QED BY <2>1, <2>2, <2>3, <2>4, QuietStep
<1>3. CASE SetBit
  <2>l. \A i \in Ids : Live(i)' <=> Live(i)
    BY <1>3 DEF Live, SetBit
  <2>1. TableType' /\ QueueType' /\ TaskType'
    BY <1>3, <1>0, <1>n, <1>a, <1>b, Zenon DEF TableType, QueueType, TaskType, SetBit
  <2>2. LifeInv' /\ RetireInv' /\ AssertionsHold'
    BY <1>3, <1>0 DEF ControlInv, LifeInv, RetireInv, AssertionsHold, SetBit
  <2>3. NoDanglingPointer' /\ FramesNameLiveStacks' /\ SlotsAndStacksExclusive' /\
        QueueHoldsEveryTask'
    BY <1>3, <1>0, <2>l, PointersKept, FramesKept, ExclusiveKept, QueueKept DEF SetBit
  <2>4. ControlType'
    BY <1>3, <1>0, <1>n, <1>a, <1>b DEF ControlType, ControlInv, SetBit
  <2>5. ControlInv'
    BY <1>3, <1>0, <1>a, <1>b, <1>c DEF ControlInv, OnTaskStack, Live, SetBit
  <2>6. OwnInv'
    BY <1>3, <1>0, <1>a, <1>b, <2>l, Zenon DEF OwnInv, SetBit
  <2> QED BY <2>1, <2>2, <2>3, <2>4, <2>5, <2>6 DEF IInv, TypeOK
<1>4. CASE set_slot_bounds
  <2>l. \A i \in Ids : Live(i)' <=> Live(i)
    BY <1>4, Zenon DEF Live, set_slot_bounds
  <2>1. TableType' /\ QueueType' /\ TaskType'
    BY <1>4, <1>0, <1>n, <1>a, <1>b, Zenon DEF TableType, QueueType, TaskType, set_slot_bounds
  <2>2. LifeInv' /\ RetireInv' /\ AssertionsHold'
    BY <1>4, <1>0, Zenon DEF ControlInv, LifeInv, RetireInv, AssertionsHold, set_slot_bounds
  <2>3. NoDanglingPointer' /\ FramesNameLiveStacks' /\ SlotsAndStacksExclusive' /\
        QueueHoldsEveryTask'
    BY <1>4, <1>0, <2>l, PointersKept, FramesKept, ExclusiveKept, QueueKept, Zenon DEF
        set_slot_bounds
  <2>4. ControlType'
    BY <1>4, <1>0, <1>n, <1>a, <1>b DEF ControlType, ControlInv, set_slot_bounds
  <2>5. ControlInv'
    BY <1>4, <1>0, <1>a, <1>b, <1>c, Zenon DEF ControlInv, OnTaskStack, Live, set_slot_bounds
  <2>6. OwnInv'
    BY <1>4, <1>0, <1>a, <1>b, <2>l, Zenon DEF OwnInv, SlotsAndStacksExclusive, TableType,
        set_slot_bounds
  <2> QED BY <2>1, <2>2, <2>3, <2>4, <2>5, <2>6 DEF IInv, TypeOK
<1>5. CASE spawn
  <2>l. \A i \in Ids : Live(i)' <=> Live(i)
    BY <1>5 DEF Live, spawn
  <2>q. QueueType' /\ QueueHoldsEveryTask'
    BY <1>5, <1>0, <1>b, Enqueued DEF LifeInv, spawn
  <2>1. TableType' /\ TaskType'
    BY <1>5, <1>0, <1>n, <1>a, <1>b, Zenon DEF TableType, TaskType, spawn
  <2>2. LifeInv' /\ RetireInv' /\ AssertionsHold'
    BY <1>5, <1>0 DEF ControlInv, LifeInv, RetireInv, AssertionsHold, spawn
  <2>3. FramesNameLiveStacks' /\ SlotsAndStacksExclusive'
    BY <1>5, <1>0, <2>l, FramesKept, ExclusiveKept DEF spawn
  <2>4. ControlType'
    BY <1>5, <1>0, <1>n, <1>a, <1>b DEF ControlType, ControlInv, spawn
  <2>5. QueueType' /\ QueueHoldsEveryTask'
    BY <2>q
  <2>6. ControlInv'
    BY <1>5, <1>0, <1>a, <1>b, <1>c DEF ControlInv, OnTaskStack, Live, spawn
  <2>7. OwnInv'
    BY <1>5, <1>0, <1>a, <1>b, <2>l, Zenon DEF OwnInv, SlotsAndStacksExclusive, TableType,
        spawn
  <2>8. NoDanglingPointer'
    BY <1>5, <1>0, <1>a, <1>b, <2>l, Zenon DEF NoDanglingPointer, TableType, Live, spawn
  <2> QED BY <2>1, <2>2, <2>3, <2>4, <2>5, <2>6, <2>7, <2>8 DEF IInv, TypeOK
<1> QED BY <1>1, <1>2, <1>3, <1>4, <1>5 DEF Create

\* schedule_once up to the pop: sleepers rotate, one task becomes the held one.
LEMMA PickStep ==
  ASSUME IInv,
         schedule_once \/ NothingQueued \/ AllAsleep \/ SkipSleeper \/ PickTask
  PROVE  IInv'
<1> USE MaxTasksAssumption, StacksAssumption, BoundsAssumption
<1> USE DEF Goto, Panic, BootPcs, TaskPcs, PanicPcs, Spawning, Retiring, irq, stub,
        queue, made, tcb, HeldTaskFacts
<1>0. /\ ControlType /\ TableType /\ QueueType /\ TaskType /\ ControlInv /\ LifeInv
      /\ OwnInv /\ RetireInv /\ AssertionsHold /\ NoDanglingPointer
      /\ FramesNameLiveStacks /\ SlotsAndStacksExclusive /\ QueueHoldsEveryTask
  BY DEF IInv, TypeOK
<1>n. /\ MaxTasks \in 0..MaxTasks /\ 0 \in 0..MaxId /\ 0 \in 0..MaxTick /\ 0 \notin Ids
      /\ Slots \subseteq 0..MaxTasks /\ Ids \subseteq 0..MaxId /\ MaxTasks \notin Slots
  BY DEF Slots, Ids
<1>a. run \in Ids /\ Live(run) => HeldTaskFacts
  BY <1>0, HeldTask, Zenon
<1>b. pc \notin {"driver", "pick"} \cup PanicPcs => run \in Ids /\ Live(run)
  BY <1>0 DEF ControlInv
<1>c. pc = "tramp" => task_at(current) = run
  BY <1>0, <1>a, <1>b DEF ControlInv, OnTaskStack, task_at
<1>1. CASE schedule_once
  <2>l. \A i \in Ids : Live(i)' <=> Live(i)
    BY <1>1 DEF Live, schedule_once
  <2>1. TableType' /\ QueueType' /\ TaskType'
    BY SMTT(30), <1>1, <1>0, <1>n, <1>a, <1>b DEF TableType, QueueType, TaskType, schedule_once
  <2>2. LifeInv' /\ RetireInv' /\ AssertionsHold'
    BY <1>1, <1>0 DEF ControlInv, LifeInv, RetireInv, AssertionsHold, schedule_once
  <2>3. OwnInv' /\ NoDanglingPointer' /\ FramesNameLiveStacks' /\
        SlotsAndStacksExclusive' /\ QueueHoldsEveryTask'
    BY <1>1, <1>0, <2>l, OwnKept, PointersKept, FramesKept, ExclusiveKept, QueueKept
        DEF schedule_once
  <2>4. ControlType'
    BY <1>1, <1>0, <1>n, <1>a, <1>b DEF ControlType, ControlInv, schedule_once
  <2>5. ControlInv'
    BY <1>1, <1>0, <1>a, <1>b, <1>c DEF ControlInv, OnTaskStack, Live, schedule_once
  <2> QED BY <2>1, <2>2, <2>3, <2>4, <2>5 DEF IInv, TypeOK
<1>2. CASE NothingQueued
  <2>1. UNCHANGED <<ptrs, used, frames, bounds, queue, run, tcb>> /\ pc \notin Spawning
        \cup Retiring
    BY <1>2 DEF NothingQueued, vars
  <2>2. ControlType'
    BY <1>2, <1>0, <1>n, <1>a, <1>b DEF ControlType, ControlInv, NothingQueued, vars
  <2>3. ControlInv'
    BY <1>2, <1>0, <1>a, <1>b, <1>c DEF ControlInv, OnTaskStack, Live, NothingQueued,
        vars
  <2>4. LifeInv' /\ RetireInv' /\ AssertionsHold'
    BY <1>2, <1>0 DEF ControlInv, LifeInv, RetireInv, AssertionsHold, NothingQueued,
        vars
  <2> QED BY <2>1, <2>2, <2>3, <2>4, QuietStep
<1>3. CASE AllAsleep
  <2>1. UNCHANGED <<ptrs, used, frames, bounds, queue, run, tcb>> /\ pc \notin Spawning
        \cup Retiring
    BY <1>3 DEF AllAsleep
  <2>2. ControlType'
    BY <1>3, <1>0, <1>n, <1>a, <1>b DEF ControlType, ControlInv, AllAsleep
  <2>3. ControlInv'
    BY <1>3, <1>0, <1>a, <1>b, <1>c, Zenon DEF ControlInv, OnTaskStack, Live, AllAsleep
  <2>4. LifeInv' /\ RetireInv' /\ AssertionsHold'
    BY <1>3, <1>0 DEF ControlInv, LifeInv, RetireInv, AssertionsHold, AllAsleep
  <2> QED BY <2>1, <2>2, <2>3, <2>4, QuietStep
<1>4. CASE SkipSleeper
  <2>l. \A i \in Ids : Live(i)' <=> Live(i)
    BY <1>4 DEF Live, SkipSleeper
  <2>q. QueueType' /\ QueueHoldsEveryTask'
    BY <1>4, <1>0, Rotated DEF SkipSleeper
  <2>1. TableType' /\ TaskType'
    BY <1>4, <1>0, <1>n, <1>a, <1>b DEF TableType, TaskType, SkipSleeper
  <2>2. LifeInv' /\ RetireInv' /\ AssertionsHold'
    BY <1>4, <1>0 DEF ControlInv, LifeInv, RetireInv, AssertionsHold, SkipSleeper
  <2>3. OwnInv' /\ NoDanglingPointer' /\ FramesNameLiveStacks' /\
        SlotsAndStacksExclusive'
    BY <1>4, <1>0, <2>l, OwnKept, PointersKept, FramesKept, ExclusiveKept DEF
        SkipSleeper
  <2>4. ControlType'
    BY <1>4, <1>0, <1>n, <1>a, <1>b DEF ControlType, ControlInv, SkipSleeper
  <2>5. QueueType' /\ QueueHoldsEveryTask'
    BY <2>q
  <2>6. ControlInv'
    BY <1>4, <1>0, <1>a, <1>b, <1>c, Zenon DEF ControlInv, OnTaskStack, Live, SkipSleeper
  <2> QED BY <2>1, <2>2, <2>3, <2>4, <2>5, <2>6 DEF IInv, TypeOK
<1>5. CASE PickTask
  <2>r. run = 0
    BY <1>5, <1>0 DEF ControlInv, PickTask
  <2>q. /\ QueueType' /\ QueueHoldsEveryTask' /\ run' \in Ids /\ Live(run')
        /\ \A i \in Ids : Live(i)' <=> Live(i)
        /\ \A i \in Ids : state'[i] = IF i = run' THEN "Running" ELSE state[i]
    BY <1>5, <1>0, <2>r, Dequeued DEF PickTask
  <2>l. \A i \in Ids : Live(i)' <=> Live(i)
    BY <2>q
  <2>u. pc = "pick" /\ pc' = "publish" /\ UNCHANGED <<iflag, sp, irq, rsp0, ptrs,
        schedCtx, me, cause, made, ctx, runs, canary>>
    BY <1>5 DEF PickTask
  <2>1. ControlType'
    BY <1>0, <1>n, <2>u, <2>q, Zenon DEF ControlType
  <2>2. TableType'
    BY <1>0, <2>u DEF TableType
  <2>3. QueueType' /\ QueueHoldsEveryTask'
    BY <2>q
  <2>4. TaskType'
    <3>1. state' \in [Ids -> TaskStates \cup {"Unborn", "Dropped"}]
      BY <1>5, <1>0, Zenon DEF TaskType, TaskStates, PickTask
    <3> QED BY <1>0, <2>u, <3>1 DEF TaskType
  <2>5. ControlInv'
    BY <1>0, <2>q, <2>u DEF ControlInv, OnTaskStack
  <2>6. LifeInv'
    <3>1. \A i \in Ids : state[i] \notin {"Running", "Finished"}
      BY <1>0, <1>n, <2>r DEF LifeInv
    <3>2. \A i \in Ids : state[i] = "Unborn" => i # run'
      BY <2>q DEF Live, TaskStates
    <3>3. \A i \in Ids : state'[i] = "Unborn" <=> i >= nextId
      BY <1>0, <2>q, <3>2 DEF LifeInv
    <3>4. \A i \in Ids : state'[i] \in {"Running", "Finished"} => i = run'
      BY <2>q, <3>1
    <3> QED BY <2>q, <2>u, <3>3, <3>4 DEF LifeInv
  <2>7. RetireInv'
    BY <2>u DEF RetireInv
  <2>8. AssertionsHold'
    BY <1>0, <2>u DEF AssertionsHold, ControlInv
  <2>9. OwnInv'
    BY <1>0, <2>u, <2>l, OwnKept
  <2>10. NoDanglingPointer'
    BY <1>0, <2>u, <2>l, PointersKept
  <2>11. FramesNameLiveStacks'
    BY <1>0, <2>u, <2>l, FramesKept
  <2>12. SlotsAndStacksExclusive'
    BY <1>0, <2>u, <2>l, ExclusiveKept
  <2> QED BY <2>1, <2>2, <2>3, <2>4, <2>5, <2>6, <2>7, <2>8, <2>9, <2>10, <2>11, <2>12
      DEF IInv, TypeOK
<1> QED BY <1>1, <1>2, <1>3, <1>4, <1>5

\* switch_to_task and the two context switches: the tables stay as they are.
LEMMA SwitchStep ==
  ASSUME IInv,
         set_current \/ set_rsp0 \/ Cli \/ SwitchIn \/ SwitchOut \/ DriverSti
  PROVE  IInv'
<1> USE MaxTasksAssumption, StacksAssumption, BoundsAssumption
<1> USE DEF Goto, Panic, BootPcs, TaskPcs, PanicPcs, Spawning, Retiring, irq, stub,
        queue, made, tcb, HeldTaskFacts
<1>0. /\ ControlType /\ TableType /\ QueueType /\ TaskType /\ ControlInv /\ LifeInv
      /\ OwnInv /\ RetireInv /\ AssertionsHold /\ NoDanglingPointer
      /\ FramesNameLiveStacks /\ SlotsAndStacksExclusive /\ QueueHoldsEveryTask
  BY DEF IInv, TypeOK
<1>n. /\ MaxTasks \in 0..MaxTasks /\ 0 \in 0..MaxId /\ 0 \in 0..MaxTick /\ 0 \notin Ids
      /\ Slots \subseteq 0..MaxTasks /\ Ids \subseteq 0..MaxId /\ MaxTasks \notin Slots
  BY DEF Slots, Ids
<1>a. run \in Ids /\ Live(run) => HeldTaskFacts
  BY <1>0, HeldTask
<1>b. pc \notin {"driver", "pick"} \cup PanicPcs => run \in Ids /\ Live(run)
  BY <1>0 DEF ControlInv
<1>c. pc = "tramp" => task_at(current) = run
  BY <1>0, <1>a, <1>b DEF ControlInv, OnTaskStack, task_at
<1>1. CASE set_current
  <2>1. UNCHANGED <<ptrs, used, frames, bounds, queue, run, tcb>> /\ pc \notin Spawning
        \cup Retiring
    BY <1>1 DEF set_current
  <2>2. ControlType'
    BY <1>1, <1>0, <1>n, <1>a, <1>b, Zenon DEF ControlType, ControlInv, set_current
  <2>3. ControlInv'
    BY <1>1, <1>0, <1>a, <1>b, <1>c, Zenon DEF ControlInv, OnTaskStack, Live, set_current
  <2>4. LifeInv' /\ RetireInv' /\ AssertionsHold'
    BY <1>1, <1>0, Zenon DEF ControlInv, LifeInv, RetireInv, AssertionsHold, set_current
  <2> QED BY <2>1, <2>2, <2>3, <2>4, QuietStep
<1>2. CASE set_rsp0
  <2>1. UNCHANGED <<ptrs, used, frames, bounds, queue, run, tcb>> /\ pc \notin Spawning
        \cup Retiring
    BY <1>2 DEF set_rsp0
  <2>2. ControlType'
    BY <1>2, <1>0, <1>n, <1>a, <1>b, Zenon DEF ControlType, ControlInv, set_rsp0
  <2>3. ControlInv'
    BY <1>2, <1>0, <1>a, <1>b, <1>c, Zenon DEF ControlInv, OnTaskStack, Live, set_rsp0
  <2>4. LifeInv' /\ RetireInv' /\ AssertionsHold'
    BY <1>2, <1>0, Zenon DEF ControlInv, LifeInv, RetireInv, AssertionsHold, set_rsp0
  <2> QED BY <2>1, <2>2, <2>3, <2>4, QuietStep
<1>3. CASE Cli
  <2>1. UNCHANGED <<ptrs, used, frames, bounds, queue, run, tcb>> /\ pc \notin Spawning
        \cup Retiring
    BY <1>3 DEF Cli
  <2>2. ControlType'
    BY <1>3, <1>0, <1>n, <1>a, <1>b, Zenon DEF ControlType, ControlInv, Cli
  <2>3. ControlInv'
    BY <1>3, <1>0, <1>a, <1>b, <1>c, Zenon DEF ControlInv, OnTaskStack, Live, Cli
  <2>4. LifeInv' /\ RetireInv' /\ AssertionsHold'
    BY <1>3, <1>0, Zenon DEF ControlInv, LifeInv, RetireInv, AssertionsHold, Cli
  <2> QED BY <2>1, <2>2, <2>3, <2>4, QuietStep
<1>4. CASE SwitchIn
  <2>1. UNCHANGED <<ptrs, used, frames, bounds, queue, run, tcb>> /\ pc \notin Spawning
        \cup Retiring
    BY <1>4 DEF SwitchIn
  <2>2. ControlType'
    BY <1>4, <1>0, <1>n, <1>a, <1>b, Zenon DEF ControlType, ControlInv, SwitchIn
  <2>3. ControlInv'
    BY <1>4, <1>0, <1>a, <1>b, <1>c, Zenon DEF ControlInv, OnTaskStack, Live, SwitchIn
  <2>4. LifeInv' /\ RetireInv' /\ AssertionsHold'
    BY <1>4, <1>0, Zenon DEF ControlInv, LifeInv, RetireInv, AssertionsHold, SwitchIn
  <2> QED BY <2>1, <2>2, <2>3, <2>4, QuietStep
<1>5. CASE SwitchOut
  <2>c. \A i \in Ids : ctx'[i] = IF i = run THEN sp ELSE ctx[i]
    BY <1>5, <1>0 DEF TaskType, ControlInv, SwitchOut
  <2>m. me = run /\ run \in Ids /\ Live(run) /\ sp = stack[run]
    BY <1>5, <1>0 DEF ControlInv, OnTaskStack, SwitchOut
  <2>l. \A i \in Ids : Live(i)' <=> Live(i)
    BY <1>5 DEF Live, SwitchOut
  <2>1. TableType' /\ QueueType'
    BY <1>5, <1>0, <1>n, <1>a, <1>b DEF TableType, QueueType, SwitchOut
  <2>2. LifeInv' /\ RetireInv' /\ AssertionsHold'
    BY <1>5, <1>0, Zenon DEF ControlInv, LifeInv, RetireInv, AssertionsHold, SwitchOut
  <2>3. NoDanglingPointer' /\ FramesNameLiveStacks' /\ SlotsAndStacksExclusive' /\
        QueueHoldsEveryTask'
    BY <1>5, <1>0, <2>l, PointersKept, FramesKept, ExclusiveKept, QueueKept DEF
        SwitchOut
  <2>4. ControlType'
    BY <1>5, <1>0, <1>n, <1>a, <1>b, Zenon DEF ControlType, ControlInv, SwitchOut
  <2>5. TaskType'
    <3>1. ctx' \in [Ids -> Windows \cup {None}]
      BY <1>5, <1>0, <1>a, <2>m, Zenon DEF TaskType, SwitchOut
    <3>2. UNCHANGED <<made, state, runs, canary>>
      BY <1>5 DEF SwitchOut
    <3> QED BY <1>0, <3>1, <3>2 DEF TaskType
  <2>6. ControlInv'
    BY <1>5, <1>0, <1>a, <1>b, <1>c, Zenon DEF ControlInv, OnTaskStack, Live, SwitchOut
  <2>7. OwnInv'
    BY <1>5, <1>0, <1>a, <2>c, <2>m, <2>l, Zenon DEF OwnInv, SwitchOut
  <2> QED BY <2>1, <2>2, <2>3, <2>4, <2>5, <2>6, <2>7 DEF IInv, TypeOK
<1>6. CASE DriverSti
  <2>1. UNCHANGED <<ptrs, used, frames, bounds, queue, run, tcb>> /\ pc \notin Spawning
        \cup Retiring
    BY <1>6 DEF DriverSti
  <2>2. ControlType'
    BY <1>6, <1>0, <1>n, <1>a, <1>b, Zenon DEF ControlType, ControlInv, DriverSti
  <2>3. ControlInv'
    BY <1>6, <1>0, <1>a, <1>b, <1>c, Zenon DEF ControlInv, OnTaskStack, Live, DriverSti
  <2>4. LifeInv' /\ RetireInv' /\ AssertionsHold'
    BY <1>6, <1>0, Zenon DEF ControlInv, LifeInv, RetireInv, AssertionsHold, DriverSti
  <2> QED BY <2>1, <2>2, <2>3, <2>4, QuietStep
<1> QED BY <1>1, <1>2, <1>3, <1>4, <1>5, <1>6

\* task_trampoline_body and the panic handler.
LEMMA TrampolineStep ==
  ASSUME IInv,
         current_task \/ CurrentTaskPanics \/ CanaryTrashed \/ set_preemptible \/ (\E
            alive \in BOOLEAN : StepReturns(alive)) \/ StepOverflows \/ StepPanics \/
            PanicCli \/ Halted
  PROVE  IInv'
<1> USE MaxTasksAssumption, StacksAssumption, BoundsAssumption
<1> USE DEF Goto, Panic, BootPcs, TaskPcs, PanicPcs, Spawning, Retiring, irq, stub,
        queue, made, tcb, HeldTaskFacts
<1>0. /\ ControlType /\ TableType /\ QueueType /\ TaskType /\ ControlInv /\ LifeInv
      /\ OwnInv /\ RetireInv /\ AssertionsHold /\ NoDanglingPointer
      /\ FramesNameLiveStacks /\ SlotsAndStacksExclusive /\ QueueHoldsEveryTask
  BY DEF IInv, TypeOK
<1>n. /\ MaxTasks \in 0..MaxTasks /\ 0 \in 0..MaxId /\ 0 \in 0..MaxTick /\ 0 \notin Ids
      /\ Slots \subseteq 0..MaxTasks /\ Ids \subseteq 0..MaxId /\ MaxTasks \notin Slots
  BY DEF Slots, Ids
<1>a. run \in Ids /\ Live(run) => HeldTaskFacts
  BY <1>0, HeldTask, Zenon
<1>b. pc \notin {"driver", "pick"} \cup PanicPcs => run \in Ids /\ Live(run)
  BY <1>0 DEF ControlInv
<1>c. pc = "tramp" => task_at(current) = run
  BY <1>0, <1>a, <1>b DEF ControlInv, OnTaskStack, task_at
<1>1. CASE current_task
  <2>1. UNCHANGED <<ptrs, used, frames, bounds, queue, run, tcb>> /\ pc \notin Spawning
        \cup Retiring
    BY <1>1 DEF current_task
  <2>2. ControlType'
    BY <1>1, <1>0, <1>b, <1>c, Zenon DEF ControlType, current_task
  <2>3. ControlInv'
    BY <1>1, <1>0, <1>a, <1>b, <1>c, Zenon DEF ControlInv, OnTaskStack, Live, current_task
  <2>4. LifeInv' /\ RetireInv' /\ AssertionsHold'
    BY <1>1, <1>0, Zenon DEF ControlInv, LifeInv, RetireInv, AssertionsHold, current_task
  <2> QED BY <2>1, <2>2, <2>3, <2>4, QuietStep
<1>2. CASE CurrentTaskPanics
  <2>1. UNCHANGED <<ptrs, used, frames, bounds, queue, run, tcb>> /\ pc \notin Spawning
        \cup Retiring
    BY <1>2, Zenon DEF CurrentTaskPanics
  <2>2. ControlType'
    BY <1>2, <1>0, <1>n, <1>a, <1>b, Zenon DEF ControlType, ControlInv, CurrentTaskPanics
  <2>3. ControlInv'
    BY <1>2, <1>0, <1>a, <1>b, <1>c, Zenon DEF ControlInv, OnTaskStack, Live,
        CurrentTaskPanics
  <2>4. AssertionsHold'
    BY <1>2, <1>0, <1>a, <1>b, <1>c, Zenon DEF CurrentTaskPanics
  <2>5. LifeInv' /\ RetireInv'
    BY <1>2, <1>0, Zenon DEF ControlInv, LifeInv, RetireInv, CurrentTaskPanics
  <2> QED BY <2>1, <2>2, <2>3, <2>4, <2>5, QuietStep
<1>3. CASE CanaryTrashed
  <2>1. UNCHANGED <<ptrs, used, frames, bounds, queue, run, tcb>> /\ pc \notin Spawning
        \cup Retiring
    BY <1>3 DEF CanaryTrashed
  <2>2. ControlType'
    BY <1>3, <1>0, <1>n, <1>a, <1>b, Zenon DEF ControlType, ControlInv, CanaryTrashed
  <2>3. ControlInv'
    BY <1>3, <1>0, <1>a, <1>b, <1>c, Zenon DEF ControlInv, OnTaskStack, Live, CanaryTrashed
  <2>4. LifeInv' /\ RetireInv' /\ AssertionsHold'
    BY <1>3, <1>0, Zenon DEF ControlInv, LifeInv, RetireInv, AssertionsHold, CanaryTrashed
  <2> QED BY <2>1, <2>2, <2>3, <2>4, QuietStep
<1>4. CASE set_preemptible
  <2>1. UNCHANGED <<ptrs, used, frames, bounds, queue, run, tcb>> /\ pc \notin Spawning
        \cup Retiring
    BY <1>4 DEF set_preemptible
  <2>2. ControlType'
    BY <1>4, <1>0, <1>n, <1>a, <1>b, Zenon DEF ControlType, ControlInv, set_preemptible
  <2>3. ControlInv'
    BY <1>4, <1>0, <1>a, <1>b, <1>c, Zenon DEF ControlInv, OnTaskStack, Live, set_preemptible
  <2>4. LifeInv' /\ RetireInv' /\ AssertionsHold'
    BY <1>4, <1>0, Zenon DEF ControlInv, LifeInv, RetireInv, AssertionsHold, set_preemptible
  <2> QED BY <2>1, <2>2, <2>3, <2>4, QuietStep
<1>5. ASSUME NEW alive \in BOOLEAN, StepReturns(alive)
      PROVE  IInv'
  <2>m. me = run /\ run \in Ids /\ state[run] = "Running"
    BY <1>5, <1>0, <1>b DEF ControlInv, LifeInv, StepReturns
  <2>l. \A i \in Ids : Live(i)' <=> Live(i)
    BY <1>5, <1>0, <2>m DEF Live, TaskStates, TaskType, StepReturns
  <2>1. TableType' /\ QueueType'
    BY <1>5, <1>0, <1>n, <1>a, <1>b, Zenon DEF TableType, QueueType, StepReturns
  <2>2. RetireInv' /\ AssertionsHold'
    BY <1>5, <1>0, Zenon DEF ControlInv, RetireInv, AssertionsHold, StepReturns
  <2>3. OwnInv' /\ NoDanglingPointer' /\ FramesNameLiveStacks' /\
        SlotsAndStacksExclusive'
    BY <1>5, <1>0, <2>l, OwnKept, PointersKept, FramesKept, ExclusiveKept DEF
        StepReturns
  <2>4. ControlType'
    BY <1>5, <1>0, <1>n, <1>a, <1>b, Zenon DEF ControlType, ControlInv, StepReturns
  <2>5. TaskType'
    <3>1. state' \in [Ids -> TaskStates \cup {"Unborn", "Dropped"}]
      BY <1>5, <1>0, <2>m DEF TaskType, TaskStates, StepReturns
    <3>2. runs' \in [Ids -> Nat]
      <4>1. runs \in [Ids -> Nat] /\ me \in Ids
        BY <1>0, <2>m DEF TaskType
      <4>2. runs' = [runs EXCEPT ![me] = @ + 1]
        BY <1>5 DEF StepReturns
      <4> QED BY <4>1, <4>2
    <3>3. UNCHANGED <<made, ctx, canary>>
      BY <1>5 DEF StepReturns
    <3> QED BY <1>0, <3>1, <3>2, <3>3 DEF TaskType
  <2>6. ControlInv'
    BY <1>5, <1>0, <2>m, <2>l, Zenon DEF ControlInv, OnTaskStack, StepReturns
  <2>7. LifeInv'
    BY <1>5, <1>0, <2>m, Zenon DEF LifeInv, TaskType, StepReturns
  <2>8. QueueHoldsEveryTask'
    BY <1>5, <1>0, <2>m, <2>l, QueueKept DEF TaskType, StepReturns
  <2> QED BY <2>1, <2>2, <2>3, <2>4, <2>5, <2>6, <2>7, <2>8 DEF IInv, TypeOK
<1>6. CASE StepOverflows
  <2>m. me = run /\ run \in Ids
    BY <1>6, <1>0, <1>b DEF ControlInv, StepOverflows
  <2>l. \A i \in Ids : Live(i)' <=> Live(i)
    BY <1>6 DEF Live, StepOverflows
  <2>c. \A i \in Ids : canary'[i] => canary[i]
    BY <1>6, <1>0, <2>m DEF TaskType, StepOverflows
  <2>1. TableType' /\ QueueType' /\ TaskType'
    BY <1>6, <1>0, <1>n, <1>a, <1>b, Zenon DEF TableType, QueueType, TaskType, StepOverflows
  <2>2. LifeInv' /\ RetireInv' /\ AssertionsHold'
    BY <1>6, <1>0, Zenon DEF ControlInv, LifeInv, RetireInv, AssertionsHold, StepOverflows
  <2>3. NoDanglingPointer' /\ FramesNameLiveStacks' /\ SlotsAndStacksExclusive' /\
        QueueHoldsEveryTask'
    BY <1>6, <1>0, <2>l, PointersKept, FramesKept, ExclusiveKept, QueueKept DEF
        StepOverflows
  <2>4. ControlType'
    BY <1>6, <1>0, <1>n, <1>a, <1>b, Zenon DEF ControlType, ControlInv, StepOverflows
  <2>5. ControlInv'
    BY <1>6, <1>0, <1>a, <1>b, <1>c, Zenon DEF ControlInv, OnTaskStack, Live, StepOverflows
  <2>6. OwnInv'
    BY <1>6, <1>0, <2>l, <2>c, Zenon DEF OwnInv, StepOverflows
  <2> QED BY <2>1, <2>2, <2>3, <2>4, <2>5, <2>6 DEF IInv, TypeOK
<1>7. CASE StepPanics
  <2>1. UNCHANGED <<ptrs, used, frames, bounds, queue, run, tcb>> /\ pc \notin Spawning
        \cup Retiring
    BY <1>7 DEF StepPanics
  <2>2. ControlType'
    BY <1>7, <1>0, <1>n, <1>a, <1>b, Zenon DEF ControlType, ControlInv, StepPanics
  <2>3. ControlInv'
    BY <1>7, <1>0, <1>a, <1>b, <1>c, Zenon DEF ControlInv, OnTaskStack, Live, StepPanics
  <2>4. LifeInv' /\ RetireInv' /\ AssertionsHold'
    BY <1>7, <1>0, Zenon DEF ControlInv, LifeInv, RetireInv, AssertionsHold, StepPanics
  <2> QED BY <2>1, <2>2, <2>3, <2>4, QuietStep
<1>8. CASE PanicCli
  <2>1. UNCHANGED <<ptrs, used, frames, bounds, queue, run, tcb>> /\ pc \notin Spawning
        \cup Retiring
    BY <1>8 DEF PanicCli
  <2>2. ControlType'
    BY <1>8, <1>0, <1>n, <1>a, <1>b, Zenon DEF ControlType, ControlInv, PanicCli
  <2>3. ControlInv'
    BY <1>8, <1>0, <1>a, <1>b, <1>c, Zenon DEF ControlInv, OnTaskStack, Live, PanicCli
  <2>4. LifeInv' /\ RetireInv' /\ AssertionsHold'
    BY <1>8, <1>0, Zenon DEF ControlInv, LifeInv, RetireInv, AssertionsHold, PanicCli
  <2> QED BY <2>1, <2>2, <2>3, <2>4, QuietStep
<1>9. CASE Halted
  <2>1. UNCHANGED <<ptrs, used, frames, bounds, queue, run, tcb>> /\ pc \notin Spawning
        \cup Retiring
    BY <1>9 DEF Halted, vars
  <2>2. ControlType'
    BY <1>9, <1>0, <1>n, <1>a, <1>b, Zenon DEF ControlType, ControlInv, Halted, vars
  <2>3. ControlInv'
    BY <1>9, <1>0, <1>a, <1>b, <1>c, Zenon DEF ControlInv, OnTaskStack, Live, Halted, vars
  <2>4. LifeInv' /\ RetireInv' /\ AssertionsHold'
    BY <1>9, <1>0, Zenon DEF ControlInv, LifeInv, RetireInv, AssertionsHold, Halted, vars
  <2> QED BY <2>1, <2>2, <2>3, <2>4, QuietStep
<1> QED BY <1>1, <1>2, <1>3, <1>4, <1>5, <1>6, <1>7, <1>8, <1>9

\* schedule_once after the switch: requeue, or take the slot apart fact by fact.
LEMMA RetireStep ==
  ASSUME IInv,
         Requeue \/ Retire \/ FrameInvalid \/ clear_task_ptr \/ WipeFrame \/
            NeverRegistered \/ ClearBit \/ DropTask
  PROVE  IInv'
<1> USE MaxTasksAssumption, StacksAssumption, BoundsAssumption
<1> USE DEF Goto, Panic, BootPcs, TaskPcs, PanicPcs, Spawning, Retiring, irq, stub,
        queue, made, tcb, HeldTaskFacts
<1>0. /\ ControlType /\ TableType /\ QueueType /\ TaskType /\ ControlInv /\ LifeInv
      /\ OwnInv /\ RetireInv /\ AssertionsHold /\ NoDanglingPointer
      /\ FramesNameLiveStacks /\ SlotsAndStacksExclusive /\ QueueHoldsEveryTask
  BY DEF IInv, TypeOK
<1>n. /\ MaxTasks \in 0..MaxTasks /\ 0 \in 0..MaxId /\ 0 \in 0..MaxTick /\ 0 \notin Ids
      /\ Slots \subseteq 0..MaxTasks /\ Ids \subseteq 0..MaxId /\ MaxTasks \notin Slots
  BY DEF Slots, Ids
<1>a. run \in Ids /\ Live(run) => HeldTaskFacts
  BY <1>0, HeldTask, Zenon
<1>b. pc \notin {"driver", "pick"} \cup PanicPcs => run \in Ids /\ Live(run)
  BY <1>0 DEF ControlInv
<1>c. pc = "tramp" => task_at(current) = run
  BY <1>0, <1>a, <1>b DEF ControlInv, OnTaskStack, task_at
<1>1. CASE Requeue
  <2>l. \A i \in Ids : Live(i)' <=> Live(i)
    BY <1>1, Zenon DEF Live, Requeue
  <2>q. QueueType' /\ QueueHoldsEveryTask'
    BY <1>1, <1>0, <1>b, Enqueued DEF LifeInv, Requeue
  <2>1. TableType' /\ TaskType'
    BY <1>1, <1>0, <1>n, <1>a, <1>b, Zenon DEF TableType, TaskType, Requeue
  <2>2. RetireInv' /\ AssertionsHold'
    BY <1>1, <1>0, Zenon DEF ControlInv, RetireInv, AssertionsHold, Requeue
  <2>3. OwnInv' /\ NoDanglingPointer' /\ FramesNameLiveStacks' /\
        SlotsAndStacksExclusive'
    BY <1>1, <1>0, <2>l, OwnKept, PointersKept, FramesKept, ExclusiveKept, Zenon DEF Requeue
  <2>4. ControlType'
    BY <1>1, <1>0, <1>n, <1>a, <1>b, Zenon DEF ControlType, ControlInv, Requeue
  <2>5. QueueType' /\ QueueHoldsEveryTask'
    BY <2>q
  <2>6. ControlInv'
    BY <1>1, <1>0, <1>a, <1>b, <1>c, Zenon DEF ControlInv, OnTaskStack, Live, Requeue
  <2>7. LifeInv'
    BY <1>1, <1>0, <1>b DEF LifeInv, Requeue
  <2> QED BY <2>1, <2>2, <2>3, <2>4, <2>5, <2>6, <2>7 DEF IInv, TypeOK
<1>2. CASE Retire
  <2>1. UNCHANGED <<ptrs, used, frames, bounds, queue, run, tcb>> /\ pc \notin Spawning
        \cup Retiring
    BY <1>2, Zenon DEF Retire
  <2>2. ControlType'
    BY <1>2, <1>0, <1>n, <1>a, <1>b, Zenon DEF ControlType, ControlInv, Retire
  <2>3. ControlInv'
    BY <1>2, <1>0, <1>a, <1>b, <1>c, Zenon DEF ControlInv, OnTaskStack, Live, Retire
  <2>4. LifeInv' /\ RetireInv' /\ AssertionsHold'
    BY <1>2, <1>0, Zenon DEF ControlInv, LifeInv, RetireInv, AssertionsHold, Retire
  <2> QED BY <2>1, <2>2, <2>3, <2>4, QuietStep
<1>3. CASE FrameInvalid
  <2>1. UNCHANGED <<ptrs, used, frames, bounds, queue, run, tcb>> /\ pc \notin Spawning
        \cup Retiring
    BY <1>3 DEF FrameInvalid
  <2>2. ControlType'
    BY <1>3, <1>0, <1>n, <1>a, <1>b, Zenon DEF ControlType, ControlInv, FrameInvalid
  <2>3. ControlInv'
    BY <1>3, <1>0, <1>a, <1>b, <1>c, Zenon DEF ControlInv, OnTaskStack, Live, FrameInvalid
  <2>4. AssertionsHold'
    BY <1>3, <1>0, <1>a, <1>b, Zenon DEF AssertionsHold, frame_ok, valid_for, FrameInvalid
  <2>5. LifeInv' /\ RetireInv'
    BY <1>3, <1>0, Zenon DEF ControlInv, LifeInv, RetireInv, FrameInvalid
  <2> QED BY <2>1, <2>2, <2>3, <2>4, <2>5, QuietStep
<1>4. CASE clear_task_ptr
  <2>l. \A i \in Ids : Live(i)' <=> Live(i)
    BY <1>4 DEF Live, clear_task_ptr
  <2>1. TableType' /\ QueueType' /\ TaskType'
    BY <1>4, <1>0, <1>n, <1>a, <1>b, Zenon DEF TableType, QueueType, TaskType, clear_task_ptr
  <2>2. LifeInv' /\ AssertionsHold'
    BY <1>4, <1>0, Zenon DEF ControlInv, LifeInv, AssertionsHold, clear_task_ptr
  <2>3. FramesNameLiveStacks' /\ SlotsAndStacksExclusive' /\ QueueHoldsEveryTask'
    BY <1>4, <1>0, <2>l, FramesKept, ExclusiveKept, QueueKept, Zenon DEF clear_task_ptr
  <2>4. ControlType'
    BY <1>4, <1>0, <1>n, <1>a, <1>b, Zenon DEF ControlType, ControlInv, clear_task_ptr
  <2>5. ControlInv'
    BY <1>4, <1>0, <1>a, <1>b, <1>c, Zenon DEF ControlInv, OnTaskStack, Live, clear_task_ptr
  <2>6. RetireInv'
    BY <1>4, <1>0, <1>a, <1>b, Zenon DEF RetireInv, TableType, clear_task_ptr
  <2>7. OwnInv'
    BY <1>4, <1>0, <1>a, <1>b, <2>l, Zenon DEF OwnInv, SlotsAndStacksExclusive, TableType,
        clear_task_ptr
  <2>8. NoDanglingPointer'
    BY <1>4, <1>0, <1>a, <1>b, <2>l, Zenon DEF NoDanglingPointer, TableType, Live,
        clear_task_ptr
  <2> QED BY <2>1, <2>2, <2>3, <2>4, <2>5, <2>6, <2>7, <2>8 DEF IInv, TypeOK
<1>5. CASE WipeFrame
  <2>l. \A i \in Ids : Live(i)' <=> Live(i)
    BY <1>5 DEF Live, WipeFrame
  <2>1. TableType' /\ QueueType' /\ TaskType'
    BY <1>5, <1>0, <1>n, <1>a, <1>b, Zenon DEF TableType, QueueType, TaskType, WipeFrame
  <2>2. LifeInv' /\ AssertionsHold'
    BY <1>5, <1>0, Zenon DEF ControlInv, LifeInv, AssertionsHold, WipeFrame
  <2>3. NoDanglingPointer' /\ SlotsAndStacksExclusive' /\ QueueHoldsEveryTask'
    BY <1>5, <1>0, <2>l, PointersKept, ExclusiveKept, QueueKept, Zenon DEF WipeFrame
  <2>4. ControlType'
    BY <1>5, <1>0, <1>n, <1>a, <1>b, Zenon DEF ControlType, ControlInv, WipeFrame
  <2>5. ControlInv'
    BY <1>5, <1>0, <1>a, <1>b, <1>c, Zenon DEF ControlInv, OnTaskStack, Live, WipeFrame
  <2>6. RetireInv'
    BY <1>5, <1>0, <1>a, <1>b, Zenon DEF RetireInv, TableType, WipeFrame
  <2>7. OwnInv'
    BY <1>5, <1>0, <1>a, <1>b, <2>l, Zenon DEF OwnInv, SlotsAndStacksExclusive, TableType,
        WipeFrame
  <2>8. FramesNameLiveStacks'
    <3>1. \A s \in Slots : frames'[s] # None => frames'[s] = frames[s]
      BY <1>5, <1>0, <1>a, <1>b, Zenon DEF TableType, WipeFrame
    <3>2. UNCHANGED <<slot, stack>>
      BY <1>5 DEF WipeFrame
    <3> QED BY <1>0, <2>l, <3>1, <3>2, Zenon DEF FramesNameLiveStacks
  <2> QED BY <2>1, <2>2, <2>3, <2>4, <2>5, <2>6, <2>7, <2>8 DEF IInv, TypeOK
<1>6. CASE NeverRegistered
  BY <1>6, <1>a, <1>b, Zenon DEF NeverRegistered
<1>7. CASE ClearBit
  <2>l. \A i \in Ids : Live(i)' <=> Live(i)
    BY <1>7 DEF Live, ClearBit
  <2>1. TableType' /\ QueueType' /\ TaskType'
    BY <1>7, <1>0, <1>n, <1>a, <1>b, Zenon DEF TableType, QueueType, TaskType, ClearBit
  <2>2. LifeInv' /\ RetireInv' /\ AssertionsHold'
    BY <1>7, <1>0, Zenon DEF ControlInv, LifeInv, RetireInv, AssertionsHold, ClearBit
  <2>3. FramesNameLiveStacks' /\ SlotsAndStacksExclusive' /\ QueueHoldsEveryTask'
    BY <1>7, <1>0, <2>l, FramesKept, ExclusiveKept, QueueKept, Zenon DEF ClearBit
  <2>4. ControlType'
    BY <1>7, <1>0, <1>n, <1>a, <1>b, Zenon DEF ControlType, ControlInv, ClearBit
  <2>5. ControlInv'
    BY <1>7, <1>0, <1>a, <1>b, <1>c, Zenon DEF ControlInv, OnTaskStack, Live, ClearBit
  <2>6. OwnInv'
    BY <1>7, <1>0, <1>a, <1>b, <2>l, Zenon DEF OwnInv, SlotsAndStacksExclusive, ClearBit
  <2>7. NoDanglingPointer'
    BY <1>7, <1>0, <1>a, <1>b, <2>l, Zenon DEF NoDanglingPointer, RetireInv, Live, ClearBit
  <2> QED BY <2>1, <2>2, <2>3, <2>4, <2>5, <2>6, <2>7 DEF IInv, TypeOK
<1>8. CASE DropTask
  <2>r. run \in Ids /\ Live(run) /\ ptrs[slot[run]] = 0 /\ frames[slot[run]] = None
    BY <1>8, <1>0, <1>b, Zenon DEF RetireInv, DropTask
  <2>l. \A i \in Ids : Live(i)' <=> Live(i) /\ i # run
    BY <1>8, <1>0, <2>r, Zenon DEF Live, TaskStates, TaskType, DropTask
  <2>1. TableType' /\ QueueType' /\ TaskType'
    BY <1>8, <1>0, <1>n, <1>a, <1>b, Zenon DEF TableType, QueueType, TaskType, DropTask
  <2>2. RetireInv' /\ AssertionsHold'
    BY <1>8, <1>0, Zenon DEF ControlInv, RetireInv, AssertionsHold, DropTask
  <2>3. SlotsAndStacksExclusive'
    BY <1>8, <1>0, <2>l, ExclusiveKept DEF DropTask
  <2>4. ControlType'
    BY <1>8, <1>0, <1>n, <1>a, <1>b, Zenon DEF ControlType, ControlInv, DropTask
  <2>5. ControlInv'
    BY <1>8, <1>0, <1>a, <1>b, <1>c, Zenon DEF ControlInv, OnTaskStack, Live, DropTask
  <2>6. LifeInv'
    BY <1>8, <1>0, <2>r, Zenon DEF LifeInv, TaskType, Live, TaskStates, DropTask
  <2>7. OwnInv'
    BY <1>8, <1>0, <2>l, Zenon DEF OwnInv, DropTask
  <2>8. NoDanglingPointer'
    <3> SUFFICES ASSUME NEW x \in Slots, ptrs[x] # 0
                 PROVE  Live(ptrs[x])' /\ slot[ptrs[x]] = x /\ x \in used
      BY <1>8, Zenon DEF NoDanglingPointer, DropTask
    <3>1. ptrs[x] \in Ids
      BY <1>0 DEF TableType, Ids
    <3>2. Live(ptrs[x]) /\ slot[ptrs[x]] = x /\ x \in used
      BY <1>0 DEF NoDanglingPointer
    <3>3. ptrs' = ptrs
      BY <1>8 DEF DropTask
    <3> QED BY <2>r, <2>l, <3>1, <3>2, <3>3, Zenon DEF Live
  <2>9. FramesNameLiveStacks'
    BY <1>8, <1>0, <2>r, <2>l, Zenon DEF FramesNameLiveStacks, DropTask
  <2>10. QueueHoldsEveryTask'
    <3>1. ready' = ready /\ run' = 0
      BY <1>8 DEF DropTask
    <3>2. \A i \in Ids : (Live(i)' /\ i # 0) <=> (Live(i) /\ i # run)
      BY <1>n, <2>r, <2>l
    <3>3. \A i \in Ids : state'[i] # "Running"
      <4>1. \A i \in Ids : state[i] = "Running" => i = run
        BY <1>0 DEF QueueHoldsEveryTask
      <4>2. \A i \in Ids : state'[i] = IF i = run THEN "Dropped" ELSE state[i]
        BY <1>8, <1>0, <2>r, Zenon DEF TaskType, DropTask
      <4> QED BY <4>1, <4>2
    <3> QED BY <1>0, <3>1, <3>2, <3>3 DEF QueueHoldsEveryTask
  <2> QED BY <2>1, <2>2, <2>3, <2>4, <2>5, <2>6, <2>7, <2>8, <2>9, <2>10 DEF IInv,
      TypeOK
<1> QED BY <1>1, <1>2, <1>3, <1>4, <1>5, <1>6, <1>7, <1>8

\* The LAPIC stub, between any two steps: with the fence up it writes the frame
\* of the held task and no other.
LEMMA TickStep ==
  ASSUME IInv,
         lapic_preempt_stub
  PROVE  IInv'
<1> USE MaxTasksAssumption, StacksAssumption, BoundsAssumption
<1> USE DEF Goto, Panic, BootPcs, TaskPcs, PanicPcs, Spawning, Retiring, irq, stub,
        queue, made, tcb, HeldTaskFacts
<1>0. /\ ControlType /\ TableType /\ QueueType /\ TaskType /\ ControlInv /\ LifeInv
      /\ OwnInv /\ RetireInv /\ AssertionsHold /\ NoDanglingPointer
      /\ FramesNameLiveStacks /\ SlotsAndStacksExclusive /\ QueueHoldsEveryTask
  BY DEF IInv, TypeOK
<1>n. /\ MaxTasks \in 0..MaxTasks /\ 0 \in 0..MaxId /\ 0 \in 0..MaxTick /\ 0 \notin Ids
      /\ Slots \subseteq 0..MaxTasks /\ Ids \subseteq 0..MaxId /\ MaxTasks \notin Slots
  BY DEF Slots, Ids
<1>a. run \in Ids /\ Live(run) => HeldTaskFacts
  BY <1>0, HeldTask, Zenon
<1>b. pc \notin {"driver", "pick"} \cup PanicPcs => run \in Ids /\ Live(run)
  BY <1>0 DEF ControlInv
<1>c. pc = "tramp" => task_at(current) = run
  BY <1>0, <1>a, <1>b, Zenon DEF ControlInv, OnTaskStack, task_at
<1>1. CASE lapic_preempt_stub
  <2>l. \A i \in Ids : Live(i)' <=> Live(i)
    BY <1>1 DEF Live, lapic_preempt_stub
  <2>u. UNCHANGED <<pc, iflag, sp, fence, current, used, bounds, rsp0, ptrs, schedCtx,
        queue, run, me, cause, tcb>>
    BY <1>1 DEF lapic_preempt_stub
  <2>y. fence => /\ run \in Ids /\ Live(run) /\ sp = stack[run] /\ current = slot[run]
        /\ pc \notin Spawning \cup Retiring /\ (pc = "step" => me = run)
    BY <1>1, <1>0 DEF ControlInv, OnTaskStack
  <2>z. frames' # frames => fence /\ current \in Slots /\ \E f \in {stack[run], Below}
        : (f = Below => ~canary[run]) /\ frames' = [frames EXCEPT ![slot[run]] = f]
    BY <1>1, <1>0, <1>a, <2>y, Zenon DEF lapic_preempt_stub
  <2>1. QueueType' /\ TaskType'
    BY <1>1, <1>0, <1>n, <1>a, <1>b, Zenon DEF QueueType, TaskType, lapic_preempt_stub
  <2>2. LifeInv' /\ AssertionsHold'
    BY <1>1, <1>0, Zenon DEF ControlInv, LifeInv, AssertionsHold, lapic_preempt_stub
  <2>3. NoDanglingPointer' /\ SlotsAndStacksExclusive' /\ QueueHoldsEveryTask'
    BY <1>1, <1>0, <2>l, PointersKept, ExclusiveKept, QueueKept, Zenon DEF lapic_preempt_stub
  <2>4. ControlType'
    <3>1. /\ ticks < MaxTick /\ ticks' = ticks + 1
          /\ switches' = switches \/ switches' = switches + 1
      BY <1>1, Zenon DEF lapic_preempt_stub
    <3>2. switches \in Nat /\ ticks \in 0..MaxTick /\ switches <= ticks
      BY <1>0, Zenon DEF ControlType
    <3>3. switches' \in Nat /\ ticks' \in 0..MaxTick /\ switches' <= ticks'
      BY <3>1, <3>2
    <3> HIDE DEF BootPcs, TaskPcs, PanicPcs
    <3> QED BY <1>0, <2>u, <3>3, Zenon DEF ControlType
  <2>5. TableType'
    BY <1>0, <1>a, <2>u, <2>y, <2>z, Zenon DEF TableType
  <2>6. ControlInv'
    <3> HIDE DEF BootPcs, TaskPcs, PanicPcs
    <3> QED BY <1>0, <2>u DEF ControlInv, OnTaskStack, Live
  <2>7. RetireInv'
    BY <1>1, <1>0, <2>y, <2>z, Zenon DEF RetireInv, lapic_preempt_stub
  <2>8. OwnInv'
    <3>1. CASE frames' = frames
      BY <1>0, <2>u, <2>l, <3>1, Zenon DEF OwnInv
    <3>2. CASE frames' # frames
      <4>1. \A i \in Ids : Live(i) /\ i # run => frames'[slot[i]] = frames[slot[i]]
        BY <1>0, <1>a, <2>y, <2>z, <3>2, Zenon DEF SlotsAndStacksExclusive, OwnInv, TableType
      <4>2. /\ frames'[slot[run]] \in {stack[run], Below}
            /\ frames'[slot[run]] = Below => ~canary[run]
        BY <1>0, <1>a, <2>y, <2>z, <3>2, Zenon DEF TableType
      <4> QED BY <1>0, <2>u, <2>l, <4>1, <4>2, Zenon DEF OwnInv
    <3> QED BY <3>1, <3>2
  <2>9. FramesNameLiveStacks'
    <3>1. CASE frames' = frames
      BY <1>0, <2>u, <2>l, <3>1, FramesKept
    <3>2. CASE frames' # frames
      <4>1. \A s \in Slots : s # slot[run] => frames'[s] = frames[s]
        BY <1>0, <2>z, <3>2, Zenon DEF TableType
      <4>2. frames'[slot[run]] \in {stack[run], Below} /\ Live(run)' /\ run \in Ids
        BY <1>0, <1>a, <2>u, <2>y, <2>z, <3>2, Zenon DEF TableType, Live
      <4> QED BY <1>0, <2>u, <2>l, <4>1, <4>2, Zenon DEF FramesNameLiveStacks
    <3> QED BY <3>1, <3>2
  <2> QED BY <2>1, <2>2, <2>3, <2>4, <2>5, <2>6, <2>7, <2>8, <2>9 DEF IInv, TypeOK
<1> QED BY <1>1

\* A step in which nothing of the switch path happens.
LEMMA StutterStep ==
  ASSUME IInv, UNCHANGED vars
  PROVE  IInv'
<1> USE DEF vars, irq, stub, queue, made, tcb
<1>0. /\ ControlType /\ TableType /\ QueueType /\ TaskType /\ ControlInv /\ LifeInv
      /\ OwnInv /\ RetireInv /\ AssertionsHold /\ NoDanglingPointer
      /\ FramesNameLiveStacks /\ SlotsAndStacksExclusive /\ QueueHoldsEveryTask
  BY DEF IInv, TypeOK
<1>1. ControlType'
  BY <1>0, Zenon DEF ControlType
<1>2. TableType' /\ TaskType'
  BY <1>0 DEF TableType, TaskType
<1>3. QueueType'
  BY <1>0 DEF QueueType
<1>4. ControlInv'
  BY <1>0 DEF ControlInv, OnTaskStack, Live
<1>5. LifeInv' /\ RetireInv' /\ AssertionsHold'
  BY <1>0, Zenon DEF LifeInv, RetireInv, AssertionsHold
<1>6. \A i \in Ids : Live(i)' <=> Live(i)
  BY DEF Live
<1>7. OwnInv'
  BY <1>0, <1>6, Zenon DEF OwnInv
<1>8. /\ NoDanglingPointer' /\ FramesNameLiveStacks' /\ SlotsAndStacksExclusive'
      /\ QueueHoldsEveryTask'
  BY <1>0, <1>6, PointersKept, FramesKept, ExclusiveKept, QueueKept
<1> QED BY <1>1, <1>2, <1>3, <1>4, <1>5, <1>7, <1>8 DEF IInv, TypeOK

\* The state in which main starts the demo satisfies the invariant.
LEMMA InitEstablishes == Init => IInv
<1> SUFFICES ASSUME Init PROVE IInv
  OBVIOUS
<1> USE MaxTasksAssumption, BoundsAssumption
<1> USE DEF Init
<1>1. \A i \in Ids : ~Live(i)
  BY DEF Live, TaskStates
<1>2. ControlType
  <2>1. /\ MaxTasks \in 0..MaxTasks /\ 0 \in 0..MaxTick /\ 0 \in 0..MaxId
        /\ 1 \in 1..MaxId + 1 /\ 0 \in Nat /\ 0 <= 0
    OBVIOUS
  <2> QED BY <2>1, Zenon DEF ControlType, BootPcs
<1>3. TableType
  BY DEF TableType
<1>4. QueueType
  BY DEF QueueType
<1>5. TaskType
  BY DEF TaskType
<1>6. ControlInv
  BY DEF ControlInv, OnTaskStack, BootPcs, TaskPcs, PanicPcs
<1>7. LifeInv /\ RetireInv /\ AssertionsHold
  BY DEF LifeInv, RetireInv, AssertionsHold, Spawning, Retiring, Ids
<1>8. OwnInv /\ SlotsAndStacksExclusive
  BY <1>1 DEF OwnInv, SlotsAndStacksExclusive
<1>9. NoDanglingPointer /\ FramesNameLiveStacks
  BY DEF NoDanglingPointer, FramesNameLiveStacks
<1>10. QueueHoldsEveryTask
  BY <1>1 DEF QueueHoldsEveryTask
<1> QED BY <1>1, <1>2, <1>3, <1>4, <1>5, <1>6, <1>7, <1>8, <1>9, <1>10 DEF IInv, TypeOK

\* IInv holds in every state of the switch path, for all constants.
THEOREM Invariance == Spec => []IInv
<1>1. IInv /\ [Next]_vars => IInv'
  BY SpawnStep, PickStep, SwitchStep, TrampolineStep, RetireStep, TickStep, StutterStep
     DEF Next, Cpu, ResolveTask, unregister_task
<1> QED BY InitEstablishes, <1>1, PTL DEF Spec

\* Every variable keeps its type; PREEMPT_SWITCHES never overtakes APIC_TICKS.
THEOREM TypeCorrect == Spec => []TypeOK
<1>1. IInv => TypeOK
  BY DEF IInv
<1> QED BY <1>1, Invariance, PTL

\* Whatever tick lapic_preempt_stub takes with the fence up finds the CPU on the
\* stack of the task that CURRENT_IDX names: the frame goes to its own slot.
THEOREM YankSafe == Spec => []YankHitsOwnStack
<1>1. IInv => YankHitsOwnStack
  <2> SUFFICES ASSUME IInv, fence PROVE YankHitsOwnStack
    BY Zenon DEF YankHitsOwnStack
  <2>1. /\ run \in Ids /\ Live(run) /\ sp = stack[run] /\ current = slot[run]
        /\ pc \notin Spawning \cup Retiring
    BY DEF IInv, ControlInv, OnTaskStack, BootPcs, TaskPcs, Spawning, Retiring
  <2>2. HeldTaskFacts
    BY <2>1, HeldTask, Zenon DEF IInv
  <2> QED BY <2>1, <2>2, Zenon DEF HeldTaskFacts, YankHitsOwnStack, Spawning, Retiring
<1> QED BY <1>1, Invariance, PTL

\* task_trampoline_body works on the task the driver popped, on that task's
\* stack, with TSS.rsp0 at its top.
THEOREM TrampolineSafe == Spec => []TrampolineRunsPickedTask
<1>1. IInv => TrampolineRunsPickedTask
  BY DEF IInv, ControlInv, OnTaskStack, TrampolineRunsPickedTask, TaskPcs
<1> QED BY <1>1, Invariance, PTL

\* TASK_PTRS never names a dropped box or another slot's task.
THEOREM PointersSafe == Spec => []NoDanglingPointer
<1>1. IInv => NoDanglingPointer
  BY DEF IInv
<1> QED BY <1>1, Invariance, PTL

\* No frame in TASK_FRAMES outlives its task (unregister_task wipes it first).
THEOREM FramesSafe == Spec => []FramesNameLiveStacks
<1>1. IInv => FramesNameLiveStacks
  BY DEF IInv
<1> QED BY <1>1, Invariance, PTL

\* alloc_slot and the heap never give two live tasks one slot or one stack.
THEOREM SlotsSafe == Spec => []SlotsAndStacksExclusive
<1>1. IInv => SlotsAndStacksExclusive
  BY DEF IInv
<1> QED BY <1>1, Invariance, PTL

\* RoundRobin.ready holds every live task but the held one, exactly once.
THEOREM QueueSafe == Spec => []QueueHoldsEveryTask
<1>1. IInv => QueueHoldsEveryTask
  BY DEF IInv
<1> QED BY <1>1, Invariance, PTL

\* The asserts of current_task and unregister_task never fire, and the frame
\* check of schedule_once only for a task that overflowed its stack.
THEOREM AssertionsSafe == Spec => []AssertionsHold
<1>1. IInv => AssertionsHold
  BY DEF IInv
<1> QED BY <1>1, Invariance, PTL

\* After the panic handler lowered the fence, or the canary check halted, no
\* tick and no step writes TASK_FRAMES.
THEOREM PanicFreezesFrames == Spec => DeadKernelKeepsFrames
<1>1. IInv /\ [Next]_vars
        => [(pc \in {"panic_cli", "halt"}) => UNCHANGED <<frames, switches>>]_vars
  <2> SUFFICES ASSUME IInv, Next, pc \in {"panic_cli", "halt"}
               PROVE  UNCHANGED <<frames, switches>>
    OBVIOUS
  <2>1. ~fence
    BY DEF IInv, ControlInv
  <2>2. CASE lapic_preempt_stub
    BY <2>1, <2>2 DEF lapic_preempt_stub
  <2>3. CASE PanicCli
    BY <2>3 DEF PanicCli, irq, stub
  <2>4. CASE Halted
    BY <2>4 DEF Halted, vars, irq, stub
  <2>5. ~Create
    BY DEF Create, NewTask, Goto
  <2>6. ~(\/ RefuseTask \/ SetBit \/ set_slot_bounds \/ spawn \/ schedule_once
          \/ NothingQueued \/ AllAsleep \/ SkipSleeper \/ PickTask)
    BY Zenon DEF RefuseTask, SetBit, set_slot_bounds, spawn, schedule_once, NothingQueued,
           AllAsleep, SkipSleeper, PickTask, Goto, Panic
  <2>7. ~(\/ set_current \/ set_rsp0 \/ Cli \/ SwitchIn \/ SwitchOut \/ DriverSti)
    BY DEF set_current, set_rsp0, Cli, SwitchIn, SwitchOut, DriverSti, Goto
  <2>8. ~(\/ current_task \/ CurrentTaskPanics \/ CanaryTrashed \/ set_preemptible
          \/ (\E alive \in BOOLEAN : StepReturns(alive)) \/ StepOverflows \/ StepPanics)
    BY Zenon DEF current_task, CurrentTaskPanics, CanaryTrashed, set_preemptible, StepReturns,
           StepOverflows, StepPanics, Goto, Panic
  <2>9. ~(\/ Requeue \/ Retire \/ FrameInvalid \/ clear_task_ptr \/ WipeFrame
          \/ NeverRegistered \/ ClearBit \/ DropTask)
    BY Zenon DEF Requeue, Retire, FrameInvalid, clear_task_ptr, WipeFrame, NeverRegistered,
           ClearBit, DropTask, Goto, Panic
  <2> QED BY <2>2, <2>3, <2>4, <2>5, <2>6, <2>7, <2>8, <2>9
      DEF Next, Cpu, ResolveTask, unregister_task
<1> QED BY <1>1, Invariance, PTL DEF Spec, DeadKernelKeepsFrames

\* task_trampoline_body charges each step once, to the task that is Running.
THEOREM ChargedOnce == Spec => StepsChargedOnce
<1> DEFINE Charge ==
      \A i \in Ids : runs'[i] # runs[i] =>
        /\ runs'[i] = runs[i] + 1 /\ i = run
        /\ state[i] = "Running" /\ state'[i] # "Running"
<1>1. IInv /\ [Next]_vars => [Charge]_vars
  <2> SUFFICES ASSUME IInv, Next PROVE runs' = runs \/ Charge
    BY Zenon
  <2>1. ASSUME NEW alive \in BOOLEAN, StepReturns(alive) PROVE Charge
    <3>1. me = run /\ run \in Ids /\ state[run] = "Running"
      BY <2>1 DEF IInv, ControlInv, LifeInv, TaskPcs, BootPcs, PanicPcs, StepReturns, Goto
    <3>2. \A i \in Ids : i # run => runs'[i] = runs[i]
      BY <2>1, <3>1 DEF IInv, TypeOK, TaskType, StepReturns
    <3>3. runs'[run] = runs[run] + 1 /\ state'[run] \in {"Ready", "Finished"}
      BY <2>1, <3>1 DEF IInv, TypeOK, TaskType, StepReturns
    <3> QED BY <3>1, <3>2, <3>3
  <2>2. CASE lapic_preempt_stub
    BY <2>2, Zenon DEF lapic_preempt_stub, tcb
  <2>3. CASE Create \/ RefuseTask \/ SetBit \/ set_slot_bounds \/ spawn \/ schedule_once
             \/ NothingQueued \/ AllAsleep \/ SkipSleeper \/ PickTask
    BY <2>3, Zenon DEF Create, NewTask, RefuseTask, SetBit, set_slot_bounds, spawn, schedule_once,
                NothingQueued, AllAsleep, SkipSleeper, PickTask, tcb, vars
  <2>4. CASE set_current \/ set_rsp0 \/ Cli \/ SwitchIn \/ SwitchOut \/ DriverSti
    BY <2>4, Zenon DEF set_current, set_rsp0, Cli, SwitchIn, SwitchOut, DriverSti, tcb
  <2>5. CASE current_task \/ CurrentTaskPanics \/ CanaryTrashed \/ set_preemptible
             \/ StepOverflows \/ StepPanics \/ PanicCli \/ Halted
    BY <2>5, Zenon DEF current_task, CurrentTaskPanics, CanaryTrashed, set_preemptible,
                StepOverflows, StepPanics, PanicCli, Halted, tcb, vars
  <2>6. CASE Requeue \/ Retire \/ FrameInvalid \/ clear_task_ptr \/ WipeFrame
             \/ NeverRegistered \/ ClearBit \/ DropTask
    BY <2>6, Zenon DEF Requeue, Retire, FrameInvalid, clear_task_ptr, WipeFrame, NeverRegistered,
                ClearBit, DropTask, tcb
  <2> QED BY <2>1, <2>2, <2>3, <2>4, <2>5, <2>6, Zenon DEF Next, Cpu, ResolveTask, unregister_task
<1> QED BY <1>1, Invariance, PTL DEF Spec, StepsChargedOnce
=============================================================================
